---------------------------- MODULE InputStream ----------------------------
(***************************************************************************)
(* A stream that reads a file, a pipe, or the terminal when the primary    *)
(* output goes elsewhere: the rbuf of sys/clu/stream.clu and _chan$get,    *)
(* _chan$getb, readit and _chan$reset of code/sysasm/Opt/_chan.c.          *)
(*                                                                         *)
(* A read() gives between one character and a bufferful, nothing at the    *)
(* end of the file, or fails.  getb tries again when a signal handler has  *)
(* interrupted it; readit does not, so every gets may fail that way.       *)
(* A gets may need several reads: it is a call with one read per step.     *)
(* What an operation gives the client is then written to the script        *)
(* streams, which is the step Script; Scripted says what they do with it.  *)
(***************************************************************************)
EXTENDS StreamText

CONSTANTS
  Sources,     \* what it may read
  MaxResets    \* bound: how often the client resets the stream

ASSUME ResetsAssumption ==
  Sources \subseteq {"file", "pipe", "terminal"} /\ MaxResets \in Nat

VARIABLES
  text,       \* what the file holds or the pipe or terminal delivers
  source,     \* which of them it is
  pos,        \* how much of it has been read
  bvec,       \* rb.bvec
  index,      \* rb.index: the next character in it
  max,        \* rb.max: the last one
  line,       \* rb.line
  call,       \* the call that runs
  ret,        \* how the last one returned
  given,      \* what the client was given since the last reset
  resets,     \* how many resets there have been
  torn        \* a gets has failed between two reads (see GetsFails)

chan == <<text, source>>
buffer == <<pos, bvec, index, max>>
inputVars == <<chan, buffer, line, call, ret, given, resets, torn>>

Idle == [op |-> "idle", term |-> {}, temp |-> <<>>, low |-> 1, count |-> 0, reads |-> FALSE]

-----------------------------------------------------------------------------
(* read() *)

AtEnd == pos = Len(text)

\* read() has put n characters into b; the rest of b is as it was.
Filled(b, n) == [i \in 1 .. BvecSize |-> IF i <= n THEN text[pos + i] ELSE b[i]]

\* A read() of n characters.
Reads(n) ==
  /\ n \in 1 .. BvecSize /\ pos + n <= Len(text)
  /\ pos' = pos + n
  /\ bvec' = Filled(bvec, n)

NoRead == UNCHANGED <<pos, bvec>>

Fails(name) ==
  /\ ret' = Signalled(name)
  /\ call' = Idle
  /\ UNCHANGED <<chan, buffer, line, given, resets>>

-----------------------------------------------------------------------------
(* getc, peekc and empty *)

\* The buffer has a character at i: it was there, or getb has read it.
Has(i) ==
  \/ index <= max /\ i = index /\ max' = max /\ NoRead
  \/ index > max /\ i = 1 /\ \E n \in 1 .. BvecSize : Reads(n) /\ max' = n

\* getb found the end of the file, or failed.
GetbFails == index > max /\ \/ AtEnd /\ Fails("end_of_file")
                            \/ Fails("not_possible")

LineAfter_Mutant(s) == line + (IF Newlines(s) > 0 THEN 1 ELSE 0)     \* one line a call

\* The line number when s has been passed.
LineAfter(s) == line + Newlines(s)

\* s is given to the client; script is next.
Gives(s) ==
  /\ given' = given \o s
  /\ line' = LineAfter(s)
  /\ ret' = Returned(s)
  /\ call' = [Idle EXCEPT !.op = "script", !.temp = s]

Getc ==
  /\ call.op = "idle"
  /\ \/ \E i \in 1 .. BvecSize :
          /\ Has(i)
          /\ index' = i + 1
          /\ Gives(<<bvec'[i]>>)
          /\ UNCHANGED <<chan, resets, torn>>
     \/ GetbFails /\ UNCHANGED torn

\* peekc and empty: a character that was read becomes the current one.
Peekc ==
  /\ call.op = "idle"
  /\ \/ \E i \in 1 .. BvecSize :
          /\ Has(i)
          /\ index' = i
          /\ ret' = Returned(<<bvec'[i]>>)
          /\ UNCHANGED <<chan, line, call, given, resets, torn>>
     \/ GetbFails /\ UNCHANGED torn

-----------------------------------------------------------------------------
(* gets, getbuf and getl *)

Begins(op, T) ==
  /\ call.op = "idle"
  /\ call' = [Idle EXCEPT !.op = op, !.term = T, !.low = index, !.count = max]
  /\ UNCHANGED <<chan, buffer, line, ret, given, resets, torn>>

Gets(T) == Begins("gets", T)
Getl == Begins("getl", {Newline})

InGet == call.op \in {"gets", "getl"}

\* What is still to be searched.
Window == SubSeq(bvec, call.low, call.count)

Found == SelectInSeq(Window, LAMBDA c : c \in call.term)

\* The new low index: the terminator, i-th in the window, stays in the buffer.
NewLow(i) == call.low + i - 1

\* What get returns when it leaves low and high in rb.
GetReturns(s, low, high) ==
  /\ index' = low
  /\ max' = high
  /\ given' = given \o s
  /\ line' = IF Newline \in call.term THEN line ELSE LineAfter(s)
  /\ ret' = Returned(s)
  /\ call' = [Idle EXCEPT !.op = IF call.op = "getl" THEN "scriptl" ELSE "script", !.temp = s]
  /\ UNCHANGED <<chan, pos, bvec, resets, torn>>

GetsFound ==
  /\ InGet /\ Found # 0
  /\ GetReturns(call.temp \o SubSeq(Window, 1, Found - 1), NewLow(Found), call.count)

GetsReads_Mutant(n) ==     \* what was collected before is dropped
  /\ InGet /\ Found = 0
  /\ Reads(n)
  /\ call' = [call EXCEPT !.temp = Window, !.low = 1, !.count = n, !.reads = TRUE]
  /\ UNCHANGED <<chan, index, max, line, ret, given, resets, torn>>

\* No terminator: all of the window is collected, and the buffer is filled again.  rb has
\* its old index and max as long as the call runs.
GetsReads(n) ==
  /\ InGet /\ Found = 0
  /\ Reads(n)
  /\ call' = [call EXCEPT !.temp = @ \o Window, !.low = 1, !.count = n, !.reads = TRUE]
  /\ UNCHANGED <<chan, index, max, line, ret, given, resets, torn>>

GetsEnds_Mutant ==     \* no character is taken for a read like any other
  /\ InGet /\ Found = 0 /\ AtEnd
  /\ call' = [call EXCEPT !.temp = @ \o Window, !.low = 1, !.count = 0]
  /\ UNCHANGED <<chan, buffer, line, ret, given, resets, torn>>

\* The end of the file is a terminator, unless there is no text before it.
GetsEnds ==
  /\ InGet /\ Found = 0 /\ AtEnd
  /\ IF call.temp \o Window = <<>>
     THEN Fails("end_of_file") /\ UNCHANGED torn
     ELSE GetReturns(call.temp \o Window, 1, 0)

\* A read fails, a signal handler perhaps having run.  What was collected is dropped, and rb
\* keeps index and max: if the call has read anything, they no longer fit the buffer.
GetsFails ==
  /\ InGet /\ Found = 0
  /\ Fails("not_possible")
  /\ torn' = (torn \/ call.reads)

-----------------------------------------------------------------------------

\* What remains once the text of the call is scripted: getl takes the newline, and scripts it.
Script ==
  \/ call.op = "script" /\ call' = Idle /\ UNCHANGED <<chan, buffer, line, ret, given, resets, torn>>
  \/ /\ call.op = "scriptl"
     /\ IF index > max
        THEN call' = Idle /\ UNCHANGED <<index, line, given>>
        ELSE /\ index' = index + 1
             /\ line' = line + 1
             /\ given' = Append(given, bvec[index])
             /\ call' = [Idle EXCEPT !.op = "script", !.temp = <<Newline>>]
     /\ UNCHANGED <<chan, pos, bvec, max, ret, resets, torn>>

\* reset: the file is read again from its start, and the buffer taken as read.  A pipe cannot
\* seek: not_possible, and nothing is changed.  A terminal is not asked to: the text that was
\* in the buffer is gone, and reading goes on.
Reset ==
  /\ call.op = "idle" /\ resets < MaxResets
  /\ \/ /\ source # "pipe"
        /\ pos' = IF source = "file" THEN 0 ELSE pos
        /\ index' = max + 1
        /\ line' = 1
        /\ ret' = Returned(<<>>)
        /\ given' = <<>>
        /\ resets' = resets + 1
        /\ torn' = FALSE
        /\ UNCHANGED <<chan, bvec, max, call>>
     \/ source = "pipe" /\ Fails("not_possible") /\ UNCHANGED torn

-----------------------------------------------------------------------------

InputInit ==
  /\ text \in Texts
  /\ source \in Sources
  /\ pos = 0
  /\ bvec = [i \in 1 .. BvecSize |-> Newline]     \* new memory: never looked at
  /\ index = 1 /\ max = 0
  /\ line = 1
  /\ call = Idle
  /\ ret = Returned(<<>>)
  /\ given = <<>>
  /\ resets = 0
  /\ torn = FALSE

GetSteps == GetsFound \/ GetsEnds \/ GetsFails \/ \E n \in 1 .. BvecSize : GetsReads(n)

Client == Getc \/ Peekc \/ Getl \/ Reset \/ \E T \in Term : Gets(T)

InputNext == Client \/ GetSteps \/ Script

InputSpec == InputInit /\ [][InputNext]_inputVars

-----------------------------------------------------------------------------
(* Properties *)

\* The type invariant.
InputTypeOK ==
  /\ text \in Seq(Char) /\ source \in Sources
  /\ pos \in 0 .. Len(text)
  /\ bvec \in [1 .. BvecSize -> Char]
  /\ index \in 1 .. (BvecSize + 1) /\ max \in 0 .. BvecSize
  /\ line \in Nat \ {0}
  /\ call \in [op : {"idle", "gets", "getl", "script", "scriptl"}, term : SUBSET Char,
               temp : Seq(Char), low : 1 .. (BvecSize + 1), count : 0 .. BvecSize,
               reads : BOOLEAN]
  /\ ret \in [out : {"ok", "end_of_file", "not_possible"}, text : Seq(Char)]
  /\ given \in Seq(Char)
  /\ resets \in 0 .. MaxResets
  /\ torn \in BOOLEAN

\* The text the client has not been given: in a call, what it has collected comes first.
Left ==
  IF torn THEN <<>>
  ELSE (IF InGet THEN call.temp \o Window ELSE SubSeq(bvec, index, max))
       \o SubSeq(text, pos + 1, Len(text))

Reader == INSTANCE AbstractReader WITH left <- Left, ok <- ~torn

\* The stream gives its text once and in order, whatever the reads return: a terminator at
\* the end of the buffer, the end of the file in the middle of a gets, a gets that fails
\* before it has read anything (lib/stream.spc, getc, peekc, gets, getl and reset).
ReadsInOrder == Reader!Spec

\* get_lineno: "the line number of the current (being or about to be read) line", also when
\* gets passes newlines and getl takes one itself.
LineNumber == line = 1 + Newlines(given)
=============================================================================
