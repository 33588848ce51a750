------------------------------ MODULE Streams ------------------------------
(***************************************************************************)
(* The output side of the stream cluster, sys/clu/stream.clu: the script   *)
(* graph, the buffers and the list of open streams, with the parts of      *)
(* _chan$put and _chan$putb (code/sysasm/Opt/_chan.c) it relies on.        *)
(*                                                                         *)
(* Text written to a stream is collected in its bvec and goes to the       *)
(* channel when a newline arrives, when the bvec is full or on flush.      *)
(* Everything written to or read from a stream is also written to its      *)
(* script streams and so on down; flush follows the scripts too.  Both are *)
(* recursive in the code; here a call keeps the streams it still has to    *)
(* visit in call.work, front first, and visits one per step, so that a     *)
(* cycle of scripts would show as a call that never returns.               *)
(*                                                                         *)
(* The program is one thread: a step is either a call by the client, when  *)
(* none is running, or the next step of the one that runs.  Any write or   *)
(* close of a channel may fail.                                            *)
(*                                                                         *)
(* A definition whose name ends in _Mutant is the definition after it with *)
(* a plausible bug; no specification here uses it (see README.md).         *)
(***************************************************************************)
EXTENDS Integers, SequencesExt

CONSTANTS
  Stream,      \* the streams a program makes
  Perm,        \* those over a permanent channel: primary input and output, error output
  Mode,        \* the modes it makes them in
  Bytevec,     \* the byte vectors used as buffers
  BvecSize,    \* their size
  NoBytevec, NoStream

AllModes == {"read", "write", "tty", "nul", "istr", "ostr"}

ASSUME StreamAssumption ==
  /\ Perm \subseteq Stream
  /\ Mode \subseteq AllModes
  /\ BvecSize \in Nat \ {0}
  /\ NoBytevec \notin Bytevec /\ NoStream \notin Stream

VARIABLES
  kind,       \* kind[s]: "absent" before it is made, then the tag of its buf
  scripts,    \* scripts[s]: its script streams
  scripting,  \* scripting[s]: the flag the code tests before it looks at scripts
  bvec,       \* bvec[s]: its buffer
  index,      \* index[s]: the last character in the buffer
  disp,       \* disp[s]: the first one not displayed; 1 except on terminals
  obf,        \* obf[s]: the output buffered flag
  opens,      \* open_streams()
  freebuf,    \* the own variables free and freebuf: NoBytevec when ~free
  call,       \* the call that runs
  res         \* how the last one returned, and the stream it was at

vars == <<kind, scripts, scripting, bvec, index, disp, obf, opens, freebuf, call, res>>
graph == <<scripts, scripting>>
store == <<kind, bvec, obf, opens, freebuf>>     \* what only open and close change

HasChan(k) == k \in {"read", "write", "tty"}
IsOpen(s) == kind[s] \notin {"absent", "closed"}
Listed(k) == HasChan(k) \/ k = "nul"             \* string streams are not in opens

-----------------------------------------------------------------------------
(* Scripts *)

\* The streams reached from s when q[u] are the scripts of u, s included.
ReachBy(q, s) == { t \in Stream : \A S \in SUBSET Stream :
                     s \in S /\ (\A u \in S : ToSet(q[u]) \subseteq S) => t \in S }

\* all_scripts.
Reach(s) == ReachBy(scripts, s)

Followed(s) == IF kind[s] # "closed" /\ scripting[s] THEN scripts[s] ELSE <<>>

-----------------------------------------------------------------------------
(* One stream's own output *)

Outcome(out, i, d) == [out |-> out, index |-> i, disp |-> d]

\* An exception that a procedure neither handles nor lists becomes failure, with the name
\* of the exception in its string.
Failures == {"failure_bounds", "failure_not_possible"}

\* flush, its own part: putb of what is in the buffer.  putb signals bounds, which flush
\* does not handle, when low is past the end of the buffer.
FlushOutcomes(s) ==
  IF kind[s] = "write"
  THEN {Outcome("ok", 0, 1)} \cup
       (IF index[s] > 0 THEN {Outcome("not_possible", index[s], disp[s])} ELSE {})
  ELSE IF kind[s] # "tty" THEN {Outcome("ok", index[s], disp[s])}
  ELSE IF disp[s] > BvecSize THEN {Outcome("failure_bounds", index[s], disp[s])}
  ELSE {Outcome("ok", index[s], index[s] + 1)} \cup
       (IF index[s] >= disp[s] THEN {Outcome("not_possible", index[s], disp[s])} ELSE {})

\* _chan$put of one character into a buffer with room for it: it goes to the channel with
\* the rest when it is a newline or when it fills the buffer.
Written_Mutant(s, line) == line \/ index[s] = BvecSize

Written(s, line) == line \/ index[s] + 1 = BvecSize

\* The characters in the buffer after it.
PutIndex(s, line) == IF Written(s, line) THEN 0 ELSE index[s] + 1

\* tty_put, with the characters from d on to be displayed: they stay in the buffer, to be
\* erased and redisplayed.  put refuses a d past the end of the buffer with bounds, which
\* nothing handles.  On an unbuffered terminal the write that follows is not covered by
\* resignal, and index is assigned before it.
TtyPut(s, line, d) ==
  LET i == PutIndex(s, line)
      e == IF Written(s, line) THEN 1 ELSE d
  IN  IF d > BvecSize THEN {Outcome("failure_bounds", index[s], d)}
      ELSE {Outcome("ok", i, IF obf[s] THEN e ELSE i + 1)}
           \cup (IF Written(s, line) THEN {Outcome("not_possible", index[s], d)}
                 ELSE IF ~obf[s] THEN {Outcome("failure_not_possible", i, e)} ELSE {})

\* Its outcomes.  When the image mode changes, what is in the buffer is displayed first, by a
\* write that resignal does not cover either.
TtyOutcomes(s, line) ==
  TtyPut(s, line, disp[s]) \cup
  (IF disp[s] > BvecSize THEN {}
   ELSE TtyPut(s, line, index[s] + 1)
        \cup (IF index[s] >= disp[s] THEN {Outcome("failure_not_possible", index[s], disp[s])}
              ELSE {}))

\* The outcomes of puts, its own part; an unbuffered stream is written out each time.
PutOutcomes(s, line) ==
  LET kept == Outcome("not_possible", index[s], disp[s])
  IN  IF kind[s] = "write"
      THEN IF ~obf[s] THEN {Outcome("ok", 0, 1), kept}
           ELSE {Outcome("ok", PutIndex(s, line), 1)}
                \cup (IF Written(s, line) THEN {kept} ELSE {})
      ELSE IF kind[s] = "tty" THEN TtyOutcomes(s, line)
      ELSE IF kind[s] \in {"nul", "ostr"} THEN {Outcome("ok", index[s], disp[s])}
      ELSE {kept}

Took(s, o) == /\ index' = [index EXCEPT ![s] = o.index]
              /\ disp' = [disp EXCEPT ![s] = o.disp]
              /\ UNCHANGED <<store, graph>>

-----------------------------------------------------------------------------
(* Opening and closing *)

InUse == {bvec[s] : s \in Stream} \cup {freebuf}

\* A new byte vector; which one makes no difference.
FreshBytevec == CHOOSE b \in Bytevec : b \notin InUse

Made(s, k, b, f, buffered) ==
  /\ kind' = [kind EXCEPT ![s] = k]
  /\ bvec' = [bvec EXCEPT ![s] = b]
  /\ freebuf' = f
  /\ obf' = [obf EXCEPT ![s] = buffered]
  /\ opens' = IF Listed(k) THEN Append(opens, s) ELSE opens
  /\ UNCHANGED <<graph, index, disp, call, res>>

Open_Mutant(s, k) ==     \* the free buffer stays free
  /\ kind[s] = "absent" /\ s \notin Perm /\ HasChan(k)
  /\ Bytevec \ InUse # {}
  /\ Made(s, k, IF freebuf # NoBytevec THEN freebuf ELSE FreshBytevec, freebuf, TRUE)

\* open of a file: the free buffer is used, if there is one.
Open(s, k) ==
  /\ kind[s] = "absent" /\ s \notin Perm /\ HasChan(k)
  /\ Bytevec \ InUse # {}
  /\ Made(s, k, IF freebuf # NoBytevec THEN freebuf ELSE FreshBytevec, NoBytevec, TRUE)

\* get_prims and error_output, once each; error_output is unbuffered.
OpenPerm(s, k, buffered) ==
  /\ kind[s] = "absent" /\ s \in Perm /\ HasChan(k)
  /\ buffered \/ k = "write"
  /\ Bytevec \ InUse # {}
  /\ Made(s, k, FreshBytevec, freebuf, buffered)

\* open of /dev/null, create_input and create_output.
OpenPlain(s, k) ==
  /\ kind[s] = "absent" /\ s \notin Perm /\ ~HasChan(k)
  /\ Made(s, k, NoBytevec, freebuf, TRUE)

SwapRemoved_Mutant(q, s) ==     \* the last stream is removed, whichever is closed
  IF s \notin ToSet(q) THEN q ELSE SubSeq(q, 1, Len(q) - 1)

\* opens[i] := ast$remh(opens): the last stream takes the place of s.
SwapRemoved(q, s) ==
  IF s \notin ToSet(q) THEN q
  ELSE [i \in 1 .. (Len(q) - 1) |-> IF q[i] = s THEN q[Len(q)] ELSE q[i]]

\* What close and abort do once the channel is closed.  The variables of its buf, which is
\* no more, are as at the start.
Gone(s) ==
  /\ kind' = [kind EXCEPT ![s] = "closed"]
  /\ scripts' = [scripts EXCEPT ![s] = <<>>]
  /\ scripting' = [scripting EXCEPT ![s] = FALSE]
  /\ freebuf' = IF HasChan(kind[s]) THEN bvec[s] ELSE freebuf
  /\ bvec' = [bvec EXCEPT ![s] = NoBytevec]
  /\ opens' = SwapRemoved(opens, s)
  /\ index' = [index EXCEPT ![s] = 0]
  /\ disp' = [disp EXCEPT ![s] = 1]
  /\ obf' = [obf EXCEPT ![s] = TRUE]

Stays == UNCHANGED <<store, graph, index, disp>>

\* abort: when the channel is permanent or its close fails the stream stays as it is.
Aborted(s) ==
  \/ IsOpen(s) /\ s \notin Perm /\ Gone(s)
  \/ (s \in Perm \/ HasChan(kind[s]) \/ ~IsOpen(s)) /\ Stays

-----------------------------------------------------------------------------
(* Calls *)

Idle == [op |-> "idle", st |-> NoStream, work |-> <<>>, pos |-> 0, line |-> FALSE, tried |-> {}]

Result(out, s) == [out |-> out, at |-> s]

Returns(out, s) == call' = Idle /\ res' = Result(out, s)

\* The client calls op on stream s.
Calls(op, s, line) ==
  /\ call' = [Idle EXCEPT !.op = op, !.st = s, !.work = <<s>>, !.line = line]
  /\ UNCHANGED <<store, graph, index, disp, res>>

Flush(s) == IsOpen(s) /\ Calls("flush", s, FALSE)
Close(s) == IsOpen(s) /\ Calls("close", s, FALSE)
Puts(s, line) == IsOpen(s) /\ Calls("puts", s, line)

\* getc: only a terminal is flushed first.
Getc(s, line) ==
  \/ kind[s] = "tty" /\ Calls("getc", s, line)
  \/ /\ kind[s] \in {"read", "istr"}
     /\ call' = [Idle EXCEPT !.op = "getc", !.st = s, !.line = line]
     /\ UNCHANGED <<store, graph, index, disp, res>>

\* gets on a terminal whose input is not buffered (elsewhere it is as getc here).
Gets(s, line) == kind[s] = "tty" /\ Calls("gets", s, line)

\* set_output_buffered(s, false): the flush comes first.
Unbuffer(s) == kind[s] \in {"write", "tty"} /\ obf[s] /\ Calls("unbuffer", s, FALSE)

Rebuffer(s) ==
  /\ kind[s] \in {"write", "tty"} /\ ~obf[s]
  /\ obf' = [obf EXCEPT ![s] = TRUE]
  /\ UNCHANGED <<kind, bvec, opens, freebuf, graph, index, disp, call, res>>

Abort(s) == IsOpen(s) /\ Aborted(s) /\ UNCHANGED <<call, res>>

\* reset: output still in the buffer is dropped.  On a channel that cannot be positioned
\* _chan$reset fails first; it leaves terminals alone.
Reset(s) ==
  \/ /\ kind[s] \in {"write", "tty"}
     /\ index' = [index EXCEPT ![s] = 0]
     /\ disp' = [disp EXCEPT ![s] = 1]
     /\ UNCHANGED <<store, graph, call, res>>
  \/ /\ kind[s] = "write"
     /\ res' = Result("not_possible", s)
     /\ UNCHANGED <<store, graph, index, disp, call>>

ScriptAllowed_Mutant(s, t) ==     \* only direct scripts of t are looked at
  /\ kind[t] \notin {"absent", "read", "istr", "closed"}
  /\ s # t /\ s \notin ToSet(scripts[t])
  /\ t \notin Reach(s)

ScriptAllowed(s, t) ==
  /\ kind[t] \notin {"absent", "read", "istr", "closed"}
  /\ s \notin Reach(t)
  /\ t \notin Reach(s)

AddScript(s, t) ==
  \/ /\ ScriptAllowed(s, t)
     /\ scripts' = [scripts EXCEPT ![s] = Append(@, t)]
     /\ scripting' = [scripting EXCEPT ![s] = TRUE]
     /\ UNCHANGED <<store, index, disp, call, res>>
  \/ /\ ~ScriptAllowed(s, t)
     /\ res' = Result("script_failed", s)
     /\ UNCHANGED <<store, graph, index, disp, call>>

ScriptingLeft_Mutant(q) == FALSE     \* the flag is cleared though scripts remain

\* The flag when the scripts are q.
ScriptingLeft(q) == q # <<>>

\* The first t among the scripts of s is removed.
RemScript(s, t) ==
  \E i \in 1 .. Len(scripts[s]) :
    LET q == RemoveAt(scripts[s], i)
    IN  /\ scripts[s][i] = t /\ \A j \in 1 .. (i - 1) : scripts[s][j] # t
        /\ scripts' = [scripts EXCEPT ![s] = q]
        /\ scripting' = [scripting EXCEPT ![s] = ScriptingLeft(q)]
        /\ UNCHANGED <<store, index, disp, call, res>>

Unscript(s) ==
  /\ scripts' = [scripts EXCEPT ![s] = <<>>]
  /\ scripting' = [scripting EXCEPT ![s] = FALSE]
  /\ UNCHANGED <<store, index, disp, call, res>>

\* _close_all, when the program exits.
CloseAll ==
  /\ call' = [Idle EXCEPT !.op = "flush_all"]
  /\ UNCHANGED <<store, graph, index, disp, res>>

-----------------------------------------------------------------------------
(* The steps of a running call *)

\* A flush failed at stream h.  _close_all ignores not_possible in its first loop, and
\* aborts the stream in its last one.
FlushFails(out, h) ==
  CASE call.op = "flush_all" /\ out = "not_possible" ->
         call' = [call EXCEPT !.work = <<>>] /\ UNCHANGED res
    [] call.op = "close_one" /\ out = "not_possible" ->
         call' = [call EXCEPT !.op = "abort_one", !.work = <<>>] /\ UNCHANGED res
    [] OTHER -> Returns(out, h)

\* flush at the next stream: first its own buffer, then its scripts.
FlushStep ==
  /\ call.op \in {"flush", "close", "unbuffer", "getc", "gets", "flush_all", "close_one"}
  /\ call.work # <<>>
  /\ LET h == Head(call.work)
     IN  \E o \in FlushOutcomes(h) :
           /\ Took(h, o)
           /\ \/ /\ o.out = "ok"
                 /\ call' = [call EXCEPT !.work = Followed(h) \o Tail(@)]
                 /\ UNCHANGED res
              \/ o.out # "ok" /\ FlushFails(o.out, h)

\* puts at the next stream: first its own buffer, then its scripts.  The not_possible of a
\* script stream is dropped, with what its own scripts would have got.
PutsStep ==
  /\ call.op \in {"puts", "script"} /\ call.work # <<>>
  /\ LET h == Head(call.work)
     IN  \E o \in PutOutcomes(h, call.line) :
           /\ Took(h, o)
           /\ \/ /\ o.out = "ok"
                 /\ call' = [call EXCEPT !.op = "script", !.work = Followed(h) \o Tail(@)]
                 /\ UNCHANGED res
              \/ /\ o.out = "not_possible" /\ call.op = "script"
                 /\ call' = [call EXCEPT !.work = Tail(@)]
                 /\ UNCHANGED res
              \/ /\ o.out \in Failures \/ (o.out = "not_possible" /\ call.op = "puts")
                 /\ Returns(o.out, h)

Finished(op) == call.op = op /\ call.work = <<>>

FlushEnd ==
  /\ Finished("flush") \/ Finished("script")
  /\ Returns("ok", call.st) /\ Stays

UnbufferEnd ==
  /\ Finished("unbuffer")
  /\ obf' = [obf EXCEPT ![call.st] = FALSE]
  /\ Returns("ok", call.st)
  /\ UNCHANGED <<kind, bvec, opens, freebuf, graph, index, disp>>

TtyPut1_Mutant(s, line) ==     \* bounds is ignored, but index is not put back
  IF line THEN Outcome("ok", 0, 1)
  ELSE Outcome("ok", index[s] + 1, IF index[s] = BvecSize THEN disp[s] ELSE index[s] + 2)

\* tty_put1: the echo of a character, which is taken as displayed.  One that finds the
\* buffer full is dropped.
TtyPut1(s, line) ==
  IF line THEN Outcome("ok", 0, 1)
  ELSE IF index[s] = BvecSize THEN Outcome("ok", index[s], disp[s])
  ELSE Outcome("ok", index[s] + 1, index[s] + 2)

ReadFails(s) == /\ \/ Returns("end_of_file", s)
                   \/ HasChan(kind[s]) /\ Returns("not_possible", s)
                /\ Stays

\* getc, after the flush: the character is echoed on a terminal, and scripted.
GetcRead ==
  LET s == call.st
  IN  /\ Finished("getc")
      /\ \/ ReadFails(s)
         \/ /\ Took(s, IF kind[s] = "tty" THEN TtyPut1(s, call.line)
                       ELSE Outcome("ok", index[s], disp[s]))
            /\ call' = [call EXCEPT !.op = "script", !.work = Followed(s)]
            /\ UNCHANGED res

\* gets, after the flush: tty_get echoes character after character, at most one more than
\* the buffer holds here, and what it read is scripted.
GetsRead ==
  LET s == call.st
  IN  /\ Finished("gets")
      /\ \/ ReadFails(s)
         \/ /\ call.pos <= BvecSize
            /\ \E line \in BOOLEAN : Took(s, TtyPut1(s, line))
            /\ call' = [call EXCEPT !.pos = @ + 1]
            /\ UNCHANGED res
         \/ /\ call' = [call EXCEPT !.op = "script", !.work = Followed(s), !.pos = 0]
            /\ UNCHANGED res /\ Stays

\* close, after the flush.  A permanent channel is left open, without a signal.
CloseEnd ==
  LET s == call.st
  IN  /\ Finished("close")
      /\ \/ s \notin Perm /\ Gone(s) /\ Returns("ok", s)
         \/ s \in Perm /\ Stays /\ Returns("ok", s)
         \/ s \notin Perm /\ HasChan(kind[s]) /\ Stays /\ Returns("not_possible", s)

\* _close_all, first loop: the next stream of opens, or on to the second and third.
FlushAllNext ==
  /\ Finished("flush_all")
  /\ \/ /\ call.pos < Len(opens)
        /\ call' = [call EXCEPT !.pos = @ + 1, !.work = <<opens[call.pos + 1]>>]
        /\ UNCHANGED <<store, graph, index, disp, res>>
     \/ /\ call.pos >= Len(opens)
        /\ scripts' = [s \in Stream |-> IF s \in ToSet(opens) THEN <<>> ELSE scripts[s]]
        /\ scripting' = [s \in Stream |-> scripting[s] /\ s \notin ToSet(opens)]
        /\ call' = [call EXCEPT !.op = "close_all", !.pos = 1]
        /\ UNCHANGED <<store, index, disp, res>>

\* Third loop: close the stream at position i; past the end of opens, bounds ends the loop.
CloseAllNext ==
  /\ Finished("close_all")
  /\ \/ /\ call.pos <= Len(opens)
        /\ LET s == opens[call.pos]
           IN  call' = [call EXCEPT !.op = "close_one", !.st = s, !.work = <<s>>,
                                    !.tried = @ \cup {s}]
        /\ UNCHANGED <<store, graph, index, disp, res>>
     \/ call.pos > Len(opens) /\ Returns("ok", NoStream) /\ Stays

NextPos_Mutant(q, i, s) == i + 1     \* skips the stream swapped into the place of s

NextPos_Mutant2(q, i, s) == i        \* tries a permanent stream again and again

\* i goes on only when the stream is still there.
NextPos(q, i, s) == IF i <= Len(q) /\ q[i] = s THEN i + 1 ELSE i

NextOne == /\ call' = [call EXCEPT !.op = "close_all",
                                   !.pos = NextPos(opens', call.pos, call.st)]
           /\ UNCHANGED res

CloseOne ==
  LET s == call.st
  IN  \/ /\ Finished("close_one")
         /\ \/ s \notin Perm /\ Gone(s) /\ NextOne
            \/ s \in Perm /\ Stays /\ NextOne
            \/ /\ s \notin Perm /\ HasChan(kind[s]) /\ Stays
               /\ call' = [call EXCEPT !.op = "abort_one"] /\ UNCHANGED res
      \/ Finished("abort_one") /\ Aborted(s) /\ NextOne

-----------------------------------------------------------------------------

Init ==
  /\ kind = [s \in Stream |-> "absent"]
  /\ scripts = [s \in Stream |-> <<>>]
  /\ scripting = [s \in Stream |-> FALSE]
  /\ bvec = [s \in Stream |-> NoBytevec]
  /\ index = [s \in Stream |-> 0]
  /\ disp = [s \in Stream |-> 1]
  /\ obf = [s \in Stream |-> TRUE]
  /\ opens = <<>>
  /\ freebuf = NoBytevec
  /\ call = Idle
  /\ res = Result("ok", NoStream)

Client(s) ==
  \/ \E k \in Mode : Open(s, k) \/ OpenPlain(s, k)
  \/ \E k \in Mode, buffered \in BOOLEAN : OpenPerm(s, k, buffered)
  \/ \E t \in Stream : kind[s] # "absent" /\ (AddScript(s, t) \/ RemScript(s, t))
  \/ Unscript(s)
  \/ \E line \in BOOLEAN : Puts(s, line) \/ Getc(s, line) \/ Gets(s, line)
  \/ Flush(s) \/ Close(s) \/ Abort(s) \/ Reset(s) \/ Unbuffer(s) \/ Rebuffer(s)

Step == FlushStep \/ PutsStep \/ FlushEnd \/ UnbufferEnd \/ GetcRead \/ GetsRead \/ CloseEnd
        \/ FlushAllNext \/ CloseAllNext \/ CloseOne

Next == \/ call.op = "idle" /\ (CloseAll \/ \E s \in Stream : Client(s))
        \/ Step

\* A call in progress goes on: nothing else runs in the program.
Spec == Init /\ [][Next]_vars /\ WF_vars(Step)

-----------------------------------------------------------------------------
(* Properties *)

Kinds == AllModes \cup {"absent", "closed"}

Ops == {"idle", "flush", "close", "unbuffer", "getc", "gets", "puts", "script",
        "flush_all", "close_all", "close_one", "abort_one"}

\* The type invariant.
TypeOK ==
  /\ kind \in [Stream -> Kinds]
  /\ scripts \in [Stream -> Seq(Stream)]
  /\ scripting \in [Stream -> BOOLEAN]
  /\ bvec \in [Stream -> Bytevec \cup {NoBytevec}]
  /\ index \in [Stream -> 0 .. BvecSize]
  /\ disp \in [Stream -> 1 .. (BvecSize + 1)]
  /\ obf \in [Stream -> BOOLEAN]
  /\ opens \in Seq(Stream)
  /\ freebuf \in Bytevec \cup {NoBytevec}
  /\ call \in [op : Ops, st : Stream \cup {NoStream}, work : Seq(Stream), pos : Nat,
               line : BOOLEAN, tried : SUBSET Stream]
  /\ res \in [out : {"ok", "not_possible", "end_of_file", "script_failed"} \cup Failures,
              at : Stream \cup {NoStream}]

\* No stream is a direct or indirect script of itself, so the recursion of flush, puts and
\* all_scripts ends: every non-empty set of streams has one none of whose scripts is in it.
Acyclic ==
  \A S \in SUBSET Stream : S # {} => \E s \in S : ToSet(scripts[s]) \cap S = {}

\* The cached flag says whether there are scripts, after every way of removing some.
ScriptingCached == \A s \in Stream : scripting[s] = (scripts[s] # <<>>)

\* A buffer belongs to one open stream, or is the free one: a recycled buffer is never
\* written by two streams.
BuffersDistinct ==
  \A s \in Stream :
    /\ HasChan(kind[s]) => bvec[s] # NoBytevec /\ bvec[s] # freebuf
    /\ \A t \in Stream : s # t /\ bvec[s] = bvec[t] => bvec[s] = NoBytevec

\* open_streams lists each open stream once, and nothing that is closed, whatever order
\* they are closed in and while _close_all runs over the list.
OpensExact ==
  /\ \A i, j \in 1 .. Len(opens) : opens[i] = opens[j] => i = j
  /\ ToSet(opens) = {s \in Stream : Listed(kind[s])}

\* What _chan$put requires of its callers: there is room in the buffer for a character, in
\* a file's buffer always, since a full one is written out at once, and in a terminal's as
\* long as something in it is still to be displayed.
RoomToPut ==
  /\ \A s \in Stream : kind[s] = "write" => disp[s] = 1 /\ index[s] < BvecSize
  /\ \A s \in Stream : kind[s] = "tty" =>
       disp[s] <= index[s] + 1 /\ (index[s] = BvecSize => disp[s] > BvecSize)

Pending(s) == index[s] - disp[s] + 1

\* The streams that get the text of s: its scripts and theirs, but not those of a stream
\* closed since.
Receivers(s) == ReachBy([u \in Stream |-> IF IsOpen(u) THEN scripts[u] ELSE <<>>], s)

\* lib/stream.spc, close: "This operation will fail if buffered output cannot be written".
\* When it succeeds, nothing is left in the buffer of the stream or of any that gets its text.
CloseDrains ==
  [][\A s \in Stream : call.op = "close" /\ kind[s] # "closed" /\ kind'[s] = "closed"
       => \A t \in Receivers(s) : Pending(t) = 0]_vars

\* _close_all ends in one of two ways: it has tried every stream still open, though each
\* close moves another into the place of the one closed, or a flush of one of its streams
\* ended it by a failure, and the streams not tried yet are then left as they are.
CloseAllVisits ==
  [][call.op \in {"flush_all", "close_all", "close_one", "abort_one"} /\ call'.op = "idle"
       => ToSet(opens) \subseteq call.tried \/ res'.out \in Failures]_vars

\* Every call returns, _close_all included: no permanent stream and no failing channel
\* keeps it in its loop.
CallsReturn == call.op # "idle" ~> call.op = "idle"

-----------------------------------------------------------------------------
(* What lib/stream.spc says, and the code does not do.                     *)

\* lib/stream.spc: puts, flush and getc signal not_possible and end_of_file only.  But the echo
\* of a terminal may fill its buffer, and the next character is stored outside it; and a write
\* that tty_put makes outside its resignal fails (when a terminal is unbuffered, or leaves the
\* image mode).  Either ends the call by failure.
NoFailure == res.out \notin Failures
=============================================================================
