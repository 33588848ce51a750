--------------------------- MODULE AbstractArray ---------------------------
(***************************************************************************)
(* What array[t] promises its clients: a low bound and a defined element   *)
(* at[i] for every index i between the low and the high bound, plus the    *)
(* outcome of the last call.  Nothing is said of stores, slack or          *)
(* internal indexes.  Each operation is what the reference manual,         *)
(* elisp/CLU-DOC, says of it; CluArray implements all but one case of trim *)
(* (see CluArray!ImplementsArray).                                         *)
(***************************************************************************)
EXTENDS Integers

CONSTANTS
  Elem,           \* the element values
  Index,          \* the indexes a client passes to trim ...
  Sizes,          \* ... and the sizes
  MAX_ARR_SIZE    \* the largest size addh and addl allow

VARIABLES
  low,   \* low bound
  high,  \* high bound
  at,    \* at[i]: the element with index i
  res    \* how the last call terminated, or what it returned

vars == <<low, high, at, res>>

Size == high - low + 1

Becomes(l, h, f) == low' = l /\ high' = h /\ at' = f

Signals(name) == res' = name /\ UNCHANGED <<low, high, at>>

\* Any call that makes a new array: create, new, predict, cons, fill, decode.
Make == /\ low' \in Int
        /\ high' \in Int
        /\ high' >= low' - 1
        /\ at' \in [low' .. high' -> Elem]
        /\ res' = "array"

\* copy1: a new array with the bounds and the elements of this one.
Copy1 == UNCHANGED <<low, high, at>> /\ res' = "copy"

\* Calls refused without effect: fill of a negative size or of indexes out of range, addh
\* and addl of a full array.
Refused == Signals("negative_size") \/ Signals("failure")

SetLow == /\ low' \in Int
          /\ Becomes(low', low' + Size - 1, [i \in low' .. (low' + Size - 1) |-> at[i - low' + low]])
          /\ res' = "ok"

\* The elements with an index below lb, or not below lb + cnt, are removed; the others keep
\* their indexes.
Trim(lb, cnt) ==
  \/ lb \notin low .. (high + 1) /\ Signals("bounds")
  \/ lb \in low .. (high + 1) /\ cnt < 0 /\ Signals("negative_size")
  \/ /\ lb \in low .. (high + 1) /\ cnt >= 0
     /\ \E h \in {high, lb + cnt - 1} :
          /\ h <= high /\ h <= lb + cnt - 1
          /\ Becomes(lb, h, [i \in lb .. h |-> at[i]])
     /\ res' = "ok"

Store == \/ Signals("bounds")
         \/ /\ \E i \in low .. high, e \in Elem : Becomes(low, high, [at EXCEPT ![i] = e])
            /\ res' = "ok"

Addh == /\ Size < MAX_ARR_SIZE
        /\ \E e \in Elem :
             Becomes(low, high + 1, [i \in low .. (high + 1) |-> IF i = high + 1 THEN e ELSE at[i]])
        /\ res' = "ok"

Addl == /\ Size < MAX_ARR_SIZE
        /\ \E e \in Elem :
             Becomes(low - 1, high, [i \in (low - 1) .. high |-> IF i = low - 1 THEN e ELSE at[i]])
        /\ res' = "ok"

Remh == \/ Size = 0 /\ Signals("bounds")
        \/ /\ Size > 0
           /\ Becomes(low, high - 1, [i \in low .. (high - 1) |-> at[i]])
           /\ res' = at[high]

Reml == \/ Size = 0 /\ Signals("bounds")
        \/ /\ Size > 0
           /\ Becomes(low + 1, high, [i \in (low + 1) .. high |-> at[i]])
           /\ res' = at[low]

Init == /\ low = 1 /\ high = 0
        /\ at = [i \in 1 .. 0 |-> 0]
        /\ res = "ok"

Next ==
  \/ Make \/ Copy1 \/ SetLow \/ Store \/ Addh \/ Addl \/ Remh \/ Reml \/ Refused
  \/ \E lb \in Index, cnt \in Sizes : Trim(lb, cnt)

Spec == Init /\ [][Next]_vars
=============================================================================
