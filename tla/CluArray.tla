------------------------------ MODULE CluArray ------------------------------
(***************************************************************************)
(* The array[t] cluster of the run-time kernel, code/sysasm/Opt/array.c.   *)
(*                                                                         *)
(* An array is a descriptor that maps the client's index range             *)
(* ext_low .. ext_high onto a window of a store that may be larger than    *)
(* the array: the element with index i is in slot i - ext_low + int_low.   *)
(* addh moves or replaces the store when the window reaches its end, addl  *)
(* always replaces it, reml lets the window slide up.                      *)
(*                                                                         *)
(* Two operations call out to code of the client while they run: elements  *)
(* calls the body of the for statement, copy calls t$copy.  That code may  *)
(* call any operation on the same array, so each is split at the call.     *)
(* One activation of either at a time is modelled.                         *)
(*                                                                         *)
(* A definition whose name ends in _Mutant is the definition after it with *)
(* a plausible bug; no specification here uses it (see README.md).         *)
(***************************************************************************)
EXTENDS Integers

CONSTANTS
  Elem,          \* the element values
  Zero,          \* the word calloc'ed and cleared slots hold
  MAX_ARR_SIZE,  \* the limit addh and addl test
  MaxPad,        \* max_pad of size_for_growth
  MinIndex,      \* bound of the model: no index below it is used ...
  MaxIndex       \* ... nor above it

ASSUME ArrayAssumption ==
  /\ Zero \notin Elem
  /\ MAX_ARR_SIZE \in Nat \ {0}
  /\ MaxPad \in Nat
  /\ MinIndex \in Int /\ MaxIndex \in Int

VARIABLES
  a,     \* the descriptor with its store
  res,   \* how the last call on a terminated, or the element it returned
  iter,  \* the activation of elements(a)
  cp     \* the activation of copy(a)

vars == <<a, res, iter, cp>>

Word == Elem \cup {Zero}
Index == MinIndex .. MaxIndex
Sizes == -1 .. (MAX_ARR_SIZE + 1)     \* sizes a client passes

-----------------------------------------------------------------------------
(* Descriptors *)

Blank(n) == [i \in 0 .. (n - 1) |-> Zero]

\* A descriptor (CLU_array) with its store.
Descriptor(ext_low, ext_high, ext_size, int_low, int_size, data) ==
  [ext_low |-> ext_low, ext_high |-> ext_high, ext_size |-> ext_size,
   int_low |-> int_low, int_size |-> int_size, data |-> data]

\* newdesc and newstore: a new store of n slots, with an array of size k in its low end.
NewArray(low, k, n, data) == Descriptor(low, low + k - 1, k, 0, n, data)

\* create and new: an empty array over a store of one slot.
Create(low) == NewArray(low, 0, 1, Blank(1))

\* predict: an empty array over a store of |size| slots, MAX_ARR_SIZE at most.
Predicted(size) ==
  LET s == IF size >= 0 THEN size ELSE -size
  IN  IF s > MAX_ARR_SIZE THEN MAX_ARR_SIZE ELSE s

Filled(low, size, elt) == NewArray(low, size, size, [i \in 0 .. (size - 1) |-> elt])

\* A desirable store size for n elements; the comment there: "Ensures result >= n".
SizeForGrowth(n) ==
  LET pad == IF n \div 4 < 2 THEN 2 ELSE n \div 4
  IN  n + (IF pad > MaxPad THEN MaxPad ELSE pad)

\* The slot of the element with index i, and what a client reads there.
Slot(r, i) == i - r.ext_low + r.int_low
Fetch(r, i) == r.data[Slot(r, i)]
Window(r) == r.int_low .. (r.int_low + r.ext_size - 1)

\* The same array, its window moved to the low end of a store of n slots: slot i holds
\* data[i].
Moved(r, n, data) == Descriptor(r.ext_low, r.ext_high, r.ext_size, 0, n, data)

Shifted_Mutant(r) ==     \* clears from the last element on
  Moved(r, r.int_size,
        [i \in 0 .. (r.int_size - 1) |-> IF i < r.ext_size - 1 THEN r.data[i + r.int_low] ELSE Zero])

\* addh: data shifted to the low end of the same store, the slots it left cleared.
Shifted(r) ==
  Moved(r, r.int_size,
        [i \in 0 .. (r.int_size - 1) |->
           IF i < r.ext_size THEN r.data[i + r.int_low]
           ELSE IF i < r.ext_size + r.int_low THEN Zero ELSE r.data[i]])

Grown_Mutant(r, n) ==    \* the store keeps its old size
  Moved(r, n,
        [i \in 0 .. (r.int_size - 1) |-> IF i < r.ext_size THEN r.data[i + r.int_low] ELSE Zero])

\* addh: data copied to the low end of a new store of n slots.
Grown(r, n) ==
  Moved(r, n, [i \in 0 .. (n - 1) |-> IF i < r.ext_size THEN r.data[i + r.int_low] ELSE Zero])

\* addh: an empty window restarts at the low end of the store.
Rebased(r) == IF r.ext_size = 0 THEN Moved(r, r.int_size, r.data) ELSE r

\* addh: the element goes into the slot above the window.
Put(r, elt) ==
  Descriptor(r.ext_low, r.ext_high + 1, r.ext_size + 1, r.int_low, r.int_size,
             [r.data EXCEPT ![r.int_low + r.ext_size] = elt])

Prepended_Mutant(r, elt) ==     \* forgets where the window was
  Descriptor(r.ext_low - 1, r.ext_high, r.ext_size + 1, 0, r.ext_size + 1,
             [i \in 0 .. r.ext_size |-> IF i = 0 THEN elt ELSE r.data[i - 1]])

\* addl: a new store one slot larger than the array, the element in its slot 0.
Prepended(r, elt) ==
  Descriptor(r.ext_low - 1, r.ext_high, r.ext_size + 1, 0, r.ext_size + 1,
             [i \in 0 .. r.ext_size |-> IF i = 0 THEN elt ELSE r.data[r.int_low + i - 1]])

\* remh and reml: the removed slot is cleared "to enhance GC".
RemovedHigh(r) ==
  Descriptor(r.ext_low, r.ext_high - 1, r.ext_size - 1, r.int_low, r.int_size,
             [r.data EXCEPT ![r.int_low + r.ext_size - 1] = Zero])

RemovedLow_Mutant(r) ==     \* as before revision 1.4: the slot is not cleared
  Descriptor(r.ext_low + 1, r.ext_high, r.ext_size - 1, r.int_low + 1, r.int_size, r.data)

RemovedLow(r) ==
  Descriptor(r.ext_low + 1, r.ext_high, r.ext_size - 1, r.int_low + 1, r.int_size,
             [r.data EXCEPT ![r.int_low] = Zero])

Trimmed_Mutant(r, low, size) ==     \* the high bound is left alone
  Descriptor(low, r.ext_high, size, r.int_low, r.int_size, r.data)

\* trim: only the client's view changes; int_low stays.
Trimmed(r, low, size) == Descriptor(low, low + size - 1, size, r.int_low, r.int_size, r.data)

\* set_low
Relowered(r, low) ==
  Descriptor(low, low + r.ext_size - 1, r.ext_size, r.int_low, r.int_size, r.data)

\* store
Stored(r, i, elt) ==
  Descriptor(r.ext_low, r.ext_high, r.ext_size, r.int_low, r.int_size,
             [r.data EXCEPT ![Slot(r, i)] = elt])

CopySource_Mutant(r, i) == r.data[i]     \* as before 7/24/90

\* copy: the word it copies next.
CopySource(r, i) == r.data[i + r.int_low]

\* copy1: the window copied to a store of exactly the array's size.
Copy1(r) == Moved(r, r.ext_size, [i \in 0 .. (r.ext_size - 1) |-> r.data[i + r.int_low]])

\* copy: the array it is about to fill.
CopyTarget(r) == Moved(r, r.ext_size, Blank(r.ext_size))

-----------------------------------------------------------------------------
(* Operations that run to their end without calling out.                   *)

Signal(name) == res' = name /\ a' = a /\ UNCHANGED <<iter, cp>>
Returns(r, name) == a' = r /\ res' = name /\ UNCHANGED <<iter, cp>>

OpCreate(low) == Returns(Create(low), "array")

OpPredict(low, size) == Returns(NewArray(low, 0, Predicted(size), Blank(Predicted(size))), "array")

\* cons, cons2 and decode: newdesc, newstore, then one element after another.
OpCons(low, n, q) == Returns(NewArray(low, n, n, q), "array")

\* fill and fill_copy: note that an index is compared with a size.
OpFill(low, size, elt) ==
  \/ size < 0 /\ Signal("negative_size")
  \/ size >= 0 /\ low + size > MAX_ARR_SIZE /\ Signal("failure")
  \/ size >= 0 /\ low + size <= MAX_ARR_SIZE /\ Returns(Filled(low, size, elt), "array")

OpSetLow(low) == Returns(Relowered(a, low), "ok")

OpTrim(low, size) ==
  \/ (low < a.ext_low \/ size > a.ext_size) /\ Signal("bounds")
  \/ low >= a.ext_low /\ size <= a.ext_size /\ size < 0 /\ Signal("negative_size")
  \/ low >= a.ext_low /\ size <= a.ext_size /\ size >= 0 /\ Returns(Trimmed(a, low, size), "ok")

OpStore(i, elt) ==
  \/ (i < a.ext_low \/ i > a.ext_high) /\ Signal("bounds")
  \/ /\ i \in a.ext_low .. a.ext_high
     /\ Returns(Stored(a, i, elt), "ok")

\* addh and addl on an array of MAX_ARR_SIZE elements.
OpAddFull == a.ext_size >= MAX_ARR_SIZE /\ Signal("failure")

\* addh has three ways to make room: the slot above the window is there ...
OpAddhInPlace(elt) ==
  LET r == Rebased(a)
  IN  /\ a.ext_size < MAX_ARR_SIZE /\ a.ext_high < MaxIndex
      /\ r.int_size > r.ext_size + r.int_low
      /\ Returns(Put(r, elt), "ok")

\* ... or the store is large enough, once the data is shifted down ...
OpAddhShift(elt) ==
  LET r == Rebased(a)
  IN  /\ a.ext_size < MAX_ARR_SIZE /\ a.ext_high < MaxIndex
      /\ r.int_size <= r.ext_size + r.int_low
      /\ SizeForGrowth(r.ext_size + 1) <= r.int_size
      /\ Returns(Put(Shifted(r), elt), "ok")

\* ... or a new store is needed.
OpAddhGrow(elt) ==
  LET r == Rebased(a)
      n == SizeForGrowth(r.ext_size + 1)
  IN  /\ a.ext_size < MAX_ARR_SIZE /\ a.ext_high < MaxIndex
      /\ r.int_size <= r.ext_size + r.int_low
      /\ n > r.int_size
      /\ Returns(Put(Grown(r, n), elt), "ok")

OpAddl(elt) ==
  /\ a.ext_size < MAX_ARR_SIZE /\ a.ext_low > MinIndex
  /\ Returns(Prepended(a, elt), "ok")

OpRemh ==
  \/ a.ext_size = 0 /\ Signal("bounds")
  \/ a.ext_size # 0 /\ Returns(RemovedHigh(a), a.data[a.int_low + a.ext_size - 1])

OpReml ==
  \/ a.ext_size = 0 /\ Signal("bounds")
  \/ a.ext_size # 0 /\ Returns(RemovedLow(a), a.data[a.int_low])

OpCopy1 == Returns(Copy1(a), "copy")

-----------------------------------------------------------------------------
(* elements: the index is checked against the bounds of the moment, but the
   slot is counted up from where the window was when the loop began.        *)

Activation(status, index, int_index, limit, elt) ==
  [status |-> status, index |-> index, int_index |-> int_index, limit |-> limit, elt |-> elt]

IterIdle == Activation("idle", 0, 0, 0, Zero)

IterEnds == iter' = IterIdle /\ UNCHANGED <<a, res, cp>>

\* What the load of slot i gives: past the end of the store it is any word.
Load(r, i) == IF i \in 0 .. (r.int_size - 1) THEN {r.data[i]} ELSE Word

ElementsCall ==
  /\ iter.status = "idle" /\ cp.status = "idle"
  /\ \/ a.ext_size = 0 /\ IterEnds
     \/ /\ a.ext_size # 0
        /\ iter' = Activation("body", a.ext_low, a.int_low, a.ext_high, a.data[a.int_low])
        /\ UNCHANGED <<a, res, cp>>

Advance_Mutant(it, elt) ==     \* the slot is not advanced
  Activation("body", it.index + 1, it.int_index, it.limit, elt)

Advance(it, elt) == Activation("body", it.index + 1, it.int_index + 1, it.limit, elt)

\* The body ended normally: the loop ends after the last index of the array as it was at
\* the call; it fails when the array no longer has the next index.
ElementsResume ==
  LET next == Advance(iter, Zero)
  IN  /\ iter.status = "body"
      /\ \/ next.index > iter.limit /\ IterEnds
         \/ next.index <= iter.limit /\ next.index \notin a.ext_low .. a.ext_high /\ IterEnds
         \/ /\ next.index <= iter.limit /\ next.index \in a.ext_low .. a.ext_high
            /\ \E w \in Load(a, next.int_index) : iter' = Advance(iter, w)
            /\ UNCHANGED <<a, res, cp>>

\* The body left the loop: break, return, exit or an exception.
ElementsExit == iter.status = "body" /\ IterEnds

-----------------------------------------------------------------------------
(* copy: the loop runs while i < a1.ext_size, the size of the moment; the
   store of the result was made for the size at the call.                   *)

Copying(status, i, elt, dst, strange, wild) ==
  [status |-> status, i |-> i, elt |-> elt, dst |-> dst, strange |-> strange, wild |-> wild]

CopyIdle == Copying("idle", 0, Zero, Create(0), FALSE, FALSE)

\* strange: whether this t$copy will call operations on the array being copied.
CopyCall(strange) ==
  /\ cp.status = "idle" /\ iter.status = "idle"
  /\ \/ a.ext_size = 0 /\ cp' = Copying("copied", 0, Zero, CopyTarget(a), strange, FALSE)
     \/ /\ a.ext_size # 0
        /\ cp' = Copying("callee", 0, CopySource(a, 0), CopyTarget(a), strange, FALSE)
  /\ UNCHANGED <<a, res, iter>>

\* t$copy(elt) returned: its result is stored in slot i of the new store ...
CopyStored(c) ==
  IF c.i < c.dst.int_size THEN Moved(c.dst, c.dst.int_size, [c.dst.data EXCEPT ![c.i] = c.elt])
  ELSE c.dst

\* ... or past its end; then the loop goes on or ends.
CopyReturn ==
  LET dst  == CopyStored(cp)
      wild == cp.wild \/ cp.i >= cp.dst.int_size
      next == cp.i + 1
  IN  /\ cp.status = "callee"
      /\ \/ /\ next < a.ext_size
            /\ cp' = Copying("callee", next, CopySource(a, next), dst, cp.strange, wild)
         \/ /\ next >= a.ext_size
            /\ cp' = Copying("copied", cp.i, cp.elt, dst, cp.strange, wild)
      /\ UNCHANGED <<a, res, iter>>

\* t$copy signalled and copy resignals, or the caller took the result.
CopyEnd == cp.status # "idle" /\ cp' = CopyIdle /\ UNCHANGED <<a, res, iter>>

-----------------------------------------------------------------------------

Init ==
  /\ a = Create(1)
  /\ res = "ok"
  /\ iter = IterIdle
  /\ cp = CopyIdle

\* The client runs between calls, in a loop body, and in a strange t$copy.  There, a new
\* array would be another object, so it makes one only between calls.
ClientRuns == cp.status = "idle" \/ (cp.status = "callee" /\ cp.strange)
Between == cp.status = "idle" /\ iter.status = "idle"

MakeOp ==
  \/ \E low \in Index : OpCreate(low)
  \/ \E low \in Index, size \in Sizes : OpPredict(low, size)
  \/ \E low \in Index, size \in Sizes, e \in Elem :
       low + size - 1 <= MaxIndex /\ OpFill(low, size, e)
  \/ \E low \in Index, n \in 0 .. MAX_ARR_SIZE : \E q \in [0 .. (n - 1) -> Elem] :
       low + n - 1 <= MaxIndex /\ OpCons(low, n, q)
  \/ OpCopy1

BoundsOp ==
  \/ \E low \in Index : low + a.ext_size - 1 <= MaxIndex /\ OpSetLow(low)
  \/ \E low \in Index, size \in Sizes : low + size - 1 <= MaxIndex /\ OpTrim(low, size)

ElementOp ==
  \/ \E i \in Index, e \in Elem : OpStore(i, e)
  \/ \E e \in Elem : OpAddhInPlace(e) \/ OpAddhShift(e) \/ OpAddhGrow(e) \/ OpAddl(e)
  \/ OpAddFull
  \/ OpRemh
  \/ OpReml

\* After a store outside the new array nothing more can be said of the program.
Undefined == cp.wild /\ UNCHANGED vars

Defined ==
  \/ Between /\ MakeOp
  \/ ClientRuns /\ (BoundsOp \/ ElementOp)
  \/ ElementsCall
  \/ ElementsResume
  \/ ElementsExit
  \/ \E strange \in BOOLEAN : CopyCall(strange)
  \/ CopyReturn
  \/ CopyEnd

Next == (~cp.wild /\ Defined) \/ Undefined

Spec == Init /\ [][Next]_vars

-----------------------------------------------------------------------------
(* Properties *)

\* The fields of a descriptor, and one word in every slot of its store.
RepType(r) ==
  r \in [ext_low : Int, ext_high : Int, ext_size : Int, int_low : Int, int_size : Int,
         data : [0 .. (r.int_size - 1) -> Word]]

\* The type invariant.
TypeOK ==
  /\ RepType(a)
  /\ res \in Elem \cup {"ok", "array", "copy", "bounds", "negative_size", "failure"}
  /\ iter \in [status : {"idle", "body"}, index : Int, int_index : Int, limit : Int, elt : Word]
  /\ cp \in [status : {"idle", "callee", "copied"}, i : Nat, elt : Word,
             dst : {cp.dst}, strange : BOOLEAN, wild : BOOLEAN]
  /\ RepType(cp.dst)

\* check_RI, the rep invariant the DEBUG_ARRAY build asserts; store->size is the
\* number of slots of data.
check_RI(r) ==
  /\ r.int_size >= 0
  /\ r.int_low >= 0
  /\ r.ext_size >= 0
  /\ r.ext_size = r.ext_high - r.ext_low + 1
  /\ r.int_low + r.ext_size <= r.int_size
  /\ DOMAIN r.data = 0 .. (r.int_size - 1)

\* The array, and the array copy is filling, satisfy the rep invariant between any
\* two operations and inside every loop body and every t$copy, whatever those call.
RepInv == check_RI(a) /\ check_RI(cp.dst)

\* Every slot of the window holds an element ...
Live(r) == \A i \in Window(r) : r.data[i] \in Elem

\* ... so sliding, shifting, clearing and replacing the store never bring a cleared slot
\* into the client's view.
WindowLive == Live(a)

A == INSTANCE AbstractArray
       WITH low <- a.ext_low, high <- a.ext_high,
            at <- [i \in a.ext_low .. a.ext_high |-> Fetch(a, i)]

\* A trim to another low bound, be it beyond the high one: the elements that stay are the first
\* ones, and not those that have the indexes.
TrimRenumbers ==
  \E low \in Index, size \in 0 .. a.ext_size :
    /\ low > a.ext_low
    /\ A!Becomes(low, low + size - 1,
                 [i \in low .. (low + size - 1) |-> Fetch(a, i - low + a.ext_low)])
    /\ res' = "ok"

\* The cluster implements the abstract array: each operation changes the elements, the bounds
\* and the outcome as the manual says, whichever way it handles the store, but for a trim
\* to another low bound (see TrimAsPromised).
ImplementsArray == A!Init /\ [][A!Next \/ TrimRenumbers]_(A!vars)

\* The slots outside the window are clear ("trash garbage pointers", "enhance gc"): a
\* removed element is not kept alive by the store.  Only trim leaves elements there.
SlackClear(r) == \A i \in (DOMAIN r.data) \ Window(r) : r.data[i] = Zero

DroppingTrim == \E low \in Index, size \in Sizes : size < a.ext_size /\ OpTrim(low, size)

OnlyTrimRetains == [][SlackClear(a) /\ ~DroppingTrim => SlackClear(a')]_vars

\* When t$copy leaves the array alone, copy returns an array with the same bounds and
\* the same elements, wherever the window of the original lies in its store.
CopyFaithful ==
  [][cp.status = "callee" /\ ~cp.strange /\ cp'.status = "copied"
       => /\ cp'.dst.ext_low = a.ext_low
          /\ cp'.dst.ext_high = a.ext_high
          /\ \A i \in a.ext_low .. a.ext_high : Fetch(cp'.dst, i) = Fetch(a, i)]_vars

\* elements yields a[index] at every iteration, in bodies that store, extend and shrink
\* the array, as long as no operation moved the window under the client's indexes since
\* the loop began (addl, set_low, trim to another low bound, and an addh that shifts do).
ElementsYieldsFetch ==
  [][iter.status = "body" /\ iter'.status = "body"
     /\ Slot(a, iter.index) = iter.int_index
       => iter'.index = iter.index + 1 /\ iter'.elt = Fetch(a, iter'.index)]_<<iter>>

-----------------------------------------------------------------------------
(* What the reference manual says, and the code does not do.               *)

\* elisp/CLU-DOC, trim: "Otherwise modifies a by removing all elements with index < lb or
\* greater than or equal to lb+cnt; the new low bound is lb."
TrimAsPromised ==
  [][\A low \in Index, size \in Sizes :
       OpTrim(low, size) /\ low \in a.ext_low .. (a.ext_high + 1) /\ size \in 0 .. (a.ext_size - 1)
         => A!Trim(low, size)]_vars

\* elisp/CLU-DOC, elements: "The effect is equivalent to the following body: for i: int in
\* int$from_to(array[t]$low(a), array[t]$high(a)) do yield (a[i])": whatever the loop body
\* does to the array, the element yielded is the one at the next index.
ElementsYieldsItem ==
  [][iter.status = "body" /\ iter'.status = "body" /\ iter'.index = iter.index + 1
       => iter'.elt = Fetch(a, iter'.index)]_<<iter>>
=============================================================================
