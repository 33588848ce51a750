---------------------------- MODULE OutputStream ----------------------------
(***************************************************************************)
(* A stream that writes a file: the wbuf of sys/clu/stream.clu, with       *)
(* _chan$put, put_doit and _chan$putb of code/sysasm/Opt/_chan.c, down to  *)
(* the characters in the buffer and in the file.                           *)
(*                                                                         *)
(* put copies a string into the buffer piece by piece, a piece ending at a *)
(* newline or when the buffer is full, and writes the buffer out after     *)
(* each piece but a last one without newline.  A write() writes all it is  *)
(* given, or fails having written only a part of it, or nothing.           *)
(* put has no effect on wb until it returns.                               *)
(***************************************************************************)
EXTENDS StreamText

CONSTANTS
  Nul,         \* the character that ends a string for C
  MaxWritten   \* bound: how long the file gets by flushes that fail half-way

ASSUME WrittenAssumption == Nul # Newline /\ MaxWritten \in Nat

VARIABLES
  file,        \* what the file holds
  wbvec,       \* wb.bvec
  windex,      \* wb.index: the last character in it
  obf,         \* wb.obf: output buffered
  put,         \* the call that runs
  out,         \* how the last one returned
  accepted,    \* the text the file is to hold: what puts took
  dropped,     \* a puts has failed
  wtorn        \* a failed write has left text twice or garbled (see PieceFails)

outputVars == <<file, wbvec, windex, obf, put, out, accepted, dropped, wtorn>>

\* put.str: what is still to be copied; put.high: the last character in the buffer, as put
\* sees it; put.chunks: put has written the buffer out.
NoPut == [op |-> "idle", str |-> <<>>, high |-> 0, chunks |-> FALSE]

Quiet == put.op = "idle"

Lesser(i, j) == IF i < j THEN i ELSE j

\* The first n characters of q.
FirstN(q, n) == SubSeq(q, 1, n)

-----------------------------------------------------------------------------
(* Calls *)

\* The client writes s: puts, or putc when s has one character.
Puts(s) ==
  /\ Quiet
  /\ put' = [op |-> "puts", str |-> s, high |-> windex, chunks |-> FALSE]
  /\ UNCHANGED <<file, wbvec, windex, obf, out, accepted, dropped, wtorn>>

Flushes(op) ==
  /\ Quiet /\ Len(file) <= MaxWritten
  /\ put' = [NoPut EXCEPT !.op = op, !.high = windex]
  /\ UNCHANGED <<file, wbvec, windex, obf, out, accepted, dropped, wtorn>>

Flush == Flushes("flush")

\* set_output_buffered(s, false): the flush comes first.
Unbuffer == obf /\ Flushes("unbuffer")

Rebuffer ==
  /\ Quiet /\ ~obf
  /\ obf' = TRUE
  /\ UNCHANGED <<file, wbvec, windex, put, out, accepted, dropped, wtorn>>

Ends(name) == put' = NoPut /\ out' = name

-----------------------------------------------------------------------------
(* The pieces of put *)

Space == BvecSize - put.high

\* The characters up to and including the first newline, 0 when there is none.  index(), of
\* C's library, looks no further than a NUL.
ToNewline ==
  LET i == SelectInSeq(put.str, LAMBDA c : c \in {Newline, Nul})
  IN  IF i # 0 /\ put.str[i] = Newline THEN i ELSE 0

CopyCount == Lesser(Space, IF ToNewline # 0 THEN ToNewline ELSE Len(put.str))

Top == put.high + CopyCount

\* The buffer with the next piece copied into it.
Copied == [i \in 1 .. BvecSize |-> IF i \in (put.high + 1) .. Top THEN put.str[i - put.high]
                                   ELSE wbvec[i]]

Forced_Mutant == CopyCount = Space     \* a newline does not force the write

\* The buffer is to be written: a newline was found, or the piece fills it.
Forced == ToNewline # 0 \/ CopyCount = Space

InPuts == put.op = "puts"

PieceWritten_Mutant ==     \* the buffer is not taken as empty after the write
  /\ InPuts /\ Forced
  /\ wbvec' = Copied
  /\ file' = file \o FirstN(Copied, Top)
  /\ put' = [put EXCEPT !.str = SubSeq(@, CopyCount + 1, Len(@)), !.high = Top % BvecSize,
                        !.chunks = TRUE]
  /\ accepted' = accepted \o FirstN(put.str, CopyCount)
  /\ UNCHANGED <<windex, obf, out, dropped, wtorn>>

PieceWritten ==
  /\ InPuts /\ Forced
  /\ wbvec' = Copied
  /\ file' = file \o FirstN(Copied, Top)
  /\ put' = [put EXCEPT !.str = SubSeq(@, CopyCount + 1, Len(@)), !.high = 0, !.chunks = TRUE]
  /\ accepted' = accepted \o FirstN(put.str, CopyCount)
  /\ UNCHANGED <<windex, obf, out, dropped, wtorn>>

\* n characters are written, then puts fails; wb.index keeps its value from before the call.
\* If it is 0 the file has a prefix of the text.  If not, the text it stands for is written
\* again later, though some of it is in the file by now, or the pieces before this one have
\* overwritten it.
PieceFails(n) ==
  /\ InPuts /\ Forced
  /\ n < Top
  /\ wbvec' = Copied
  /\ file' = file \o FirstN(Copied, n)
  /\ accepted' = IF windex = 0 THEN accepted \o FirstN(Copied, n) ELSE accepted
  /\ dropped' = TRUE
  /\ wtorn' = (wtorn \/ (windex > 0 /\ (put.chunks \/ n > 0)))
  /\ Ends("not_possible")
  /\ UNCHANGED <<windex, obf>>

\* The last piece stays in the buffer.  When output is not buffered, puts writes it out.
PutsEnd ==
  /\ InPuts /\ ~Forced
  /\ wbvec' = Copied
  /\ \/ obf /\ windex' = Top /\ UNCHANGED file
     \/ ~obf /\ windex' = 0 /\ file' = file \o FirstN(Copied, Top)
  /\ accepted' = accepted \o put.str
  /\ Ends("ok")
  /\ UNCHANGED <<obf, dropped, wtorn>>

\* That write fails after n characters: the rest is dropped.
PutsEndFails(n) ==
  /\ InPuts /\ ~Forced /\ ~obf
  /\ n < Top
  /\ wbvec' = Copied
  /\ file' = file \o FirstN(Copied, n)
  /\ accepted' = accepted \o FirstN(Copied, n)
  /\ dropped' = TRUE
  /\ Ends("not_possible")
  /\ UNCHANGED <<windex, obf, wtorn>>

-----------------------------------------------------------------------------
(* flush *)

InFlush == put.op \in {"flush", "unbuffer"}

FlushEnd ==
  /\ InFlush
  /\ file' = file \o FirstN(wbvec, windex)
  /\ windex' = 0
  /\ obf' = (obf /\ put.op = "flush")
  /\ Ends("ok")
  /\ UNCHANGED <<wbvec, accepted, dropped, wtorn>>

\* n characters are written, and putb signals not_possible: the next flush writes all again.
FlushFails(n) ==
  /\ InFlush
  /\ n < windex
  /\ file' = file \o FirstN(wbvec, n)
  /\ wtorn' = (wtorn \/ n > 0)
  /\ Ends("not_possible")
  /\ UNCHANGED <<wbvec, windex, obf, accepted, dropped>>

-----------------------------------------------------------------------------

OutputInit ==
  /\ file = <<>>
  /\ wbvec = [i \in 1 .. BvecSize |-> Newline]     \* new memory: never written out
  /\ windex = 0
  /\ obf = TRUE
  /\ put = NoPut
  /\ out = "ok"
  /\ accepted = <<>>
  /\ dropped = FALSE
  /\ wtorn = FALSE

PutSteps ==
  \/ PieceWritten \/ PutsEnd \/ FlushEnd
  \/ \E n \in 0 .. (BvecSize - 1) : PieceFails(n) \/ PutsEndFails(n) \/ FlushFails(n)

OutputClient == Flush \/ Unbuffer \/ Rebuffer

-----------------------------------------------------------------------------
(* Properties *)

\* The type invariant.
OutputTypeOK ==
  /\ file \in Seq(Char) /\ accepted \in Seq(Char)
  /\ wbvec \in [1 .. BvecSize -> Char]
  /\ windex \in 0 .. BvecSize
  /\ obf \in BOOLEAN /\ dropped \in BOOLEAN /\ wtorn \in BOOLEAN
  /\ put \in [op : {"idle", "puts", "flush", "unbuffer"}, str : Seq(Char),
              high : 0 .. BvecSize, chunks : BOOLEAN]
  /\ out \in {"ok", "not_possible"}

\* The text in the buffer; a puts that runs has put more there than wb.index says.
Buffered == FirstN(wbvec, IF InPuts THEN put.high ELSE windex)

\* What puts took is in the file or in the buffer, once and in order: lines are not broken
\* at the end of the buffer, a failed flush keeps its text, a failed puts has written a
\* prefix of its string or nothing.  Two failures spoil it (wtorn): a write of a part of the
\* buffered text, and a puts that fails after its first piece while there was text before it.
WritesInOrder == ~wtorn => file \o Buffered = accepted

\* Between calls a line that has ended waits in the buffer only behind a NUL, where put has
\* not seen its newline (the comment at _chan.c:978, "force writes for newlines in s", knows no
\* such exception), and there is room in the buffer for a character.
LinesGoOut ==
  Quiet /\ ~wtorn =>
    /\ \A i \in 1 .. windex : wbvec[i] = Newline => \E j \in 1 .. (i - 1) : wbvec[j] = Nul
    /\ windex < BvecSize
=============================================================================
