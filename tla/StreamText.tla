----------------------------- MODULE StreamText -----------------------------
(***************************************************************************)
(* What the modules about the text of one stream share: its characters,    *)
(* the size of its buffer and how an operation that reads returns.         *)
(***************************************************************************)
EXTENDS Integers, SequencesExt

CONSTANTS
  Char,       \* the characters
  Newline,    \* one of them
  Term,       \* the terminator strings of gets, as sets of characters
  MaxText,    \* the longest text a stream is made with
  BvecSize    \* the size of its buffer

ASSUME TextAssumption ==
  /\ Newline \in Char
  /\ Term \subseteq (SUBSET Char) \ {{}}
  /\ MaxText \in Nat
  /\ BvecSize \in Nat \ {0}

Texts == BoundedSeq(Char, MaxText)

Returned(s) == [out |-> "ok", text |-> s]
Signalled(name) == [out |-> name, text |-> <<>>]

Newlines(s) == Cardinality({i \in 1 .. Len(s) : s[i] = Newline})
=============================================================================
