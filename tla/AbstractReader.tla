--------------------------- MODULE AbstractReader ---------------------------
(***************************************************************************)
(* What lib/stream.spc promises of a stream that is read: its characters   *)
(* are given to the client once each and in order, by getc one at a time,  *)
(* by gets up to a terminator, which stays in the stream; end_of_file is   *)
(* signalled only when none is left, and a call that signals not_possible  *)
(* takes none.  Nothing is said of buffers and system calls.               *)
(*                                                                         *)
(* ok records that the promise still stands.  An implementation may give   *)
(* it up (Spoil), and everything may happen then until reset.              *)
(***************************************************************************)
EXTENDS SequencesExt

CONSTANTS
  Newline,   \* the newline character
  Term,      \* the terminator strings of gets, as sets of characters
  Texts      \* what a file may hold

VARIABLES
  text,      \* what the file holds
  left,      \* what the client has not been given yet
  given,     \* what it has been given since the start or the last reset
  ret,       \* how the last call returned
  ok         \* the promise stands

vars == <<text, left, given, ret, ok>>

Returned(s) == [out |-> "ok", text |-> s]
Signalled(name) == [out |-> name, text |-> <<>>]

\* The longest prefix of q without a character of T.
UpTo(q, T) == LET i == SelectInSeq(q, LAMBDA c : c \in T)
              IN  IF i = 0 THEN q ELSE SubSeq(q, 1, i - 1)

\* The first n characters left are given.
Give(n) == /\ given' = given \o SubSeq(left, 1, n)
           /\ left' = SubSeq(left, n + 1, Len(left))

Getc == left # <<>> /\ Give(1) /\ ret' = Returned(<<Head(left)>>)

Peekc == left # <<>> /\ ret' = Returned(<<Head(left)>>) /\ UNCHANGED <<left, given>>

\* gets with a terminator string, or the gets that a getl begins with.
Gets == /\ left # <<>>
        /\ \E T \in Term \cup {{Newline}} :
             Give(Len(UpTo(left, T))) /\ ret' = Returned(UpTo(left, T))

\* The end of getl, which takes the newline too and does not return it.
TakeNewline == left # <<>> /\ Head(left) = Newline /\ Give(1) /\ UNCHANGED ret

EndOfFile == left = <<>> /\ ret' = Signalled("end_of_file") /\ UNCHANGED <<left, given>>

NotPossible == ret' = Signalled("not_possible") /\ UNCHANGED <<left, given>>

\* From the start of the file; what has no start goes on, perhaps without some of its text.
Reset == /\ left' \in {text} \cup Suffixes(left)
         /\ given' = <<>>
         /\ ret' = Returned(<<>>)

Spoil == ok' = FALSE /\ left' = <<>>

Next == /\ UNCHANGED text
        /\ \/ /\ ok
              /\ \/ /\ Getc \/ Peekc \/ Gets \/ TakeNewline \/ EndOfFile \/ NotPossible \/ Reset
                    /\ ok' = TRUE
                 \/ Spoil
           \/ /\ ~ok
              /\ \/ UNCHANGED <<ok, left>>
                 \/ ok' = TRUE /\ left' \in Suffixes(text) /\ given' = <<>>

Init == /\ text \in Texts
        /\ left = text
        /\ given = <<>>
        /\ ret = Returned(<<>>)
        /\ ok = TRUE

Spec == Init /\ [][Next]_vars
=============================================================================
