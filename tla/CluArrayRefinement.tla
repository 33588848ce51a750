------------------------- MODULE CluArrayRefinement -------------------------
(***************************************************************************)
(* CluArray implements AbstractArray: whatever an operation does with the  *)
(* store, the client's indexes and elements change as promised.            *)
(***************************************************************************)
EXTENDS CluArrayProofs

\* The abstract array a descriptor stands for: the elements by index.
At(r) == [i \in r.ext_low .. r.ext_high |-> Fetch(r, i)]

\* The same, of four of the fields.
View(lo, hi, il, d) == [i \in lo .. hi |-> d[i - lo + il]]

SameArray(r, s) ==
  s.ext_low = r.ext_low /\ s.ext_high = r.ext_high /\ s.ext_size = r.ext_size /\ At(s) = At(r)

LEMMA AtView == ASSUME NEW r PROVE At(r) = View(r.ext_low, r.ext_high, r.int_low, r.data)
BY DEF At, View, Fetch, Slot

LEMMA DescriptorFields ==
  ASSUME NEW lo, NEW hi, NEW sz, NEW il, NEW n, NEW d
  PROVE  LET r == Descriptor(lo, hi, sz, il, n, d)
         IN  /\ r.ext_low = lo /\ r.ext_high = hi /\ r.ext_size = sz
             /\ r.int_low = il /\ r.int_size = n /\ r.data = d
             /\ At(r) = View(lo, hi, il, d)
<1>1. LET r == Descriptor(lo, hi, sz, il, n, d)
      IN  r.ext_low = lo /\ r.ext_high = hi /\ r.ext_size = sz
          /\ r.int_low = il /\ r.int_size = n /\ r.data = d
  BY DEF Descriptor
<1>. QED
  BY <1>1, AtView

-----------------------------------------------------------------------------
(* What each operation on descriptors does to the client's view.           *)

LEMMA RebasedSame == ASSUME NEW r, Good(r) PROVE SameArray(r, Rebased(r))
<1>1. ASSUME NEW lo, NEW hi, NEW sz, NEW il, NEW n, NEW d, Sound(lo, hi, sz, il, n, d), sz = 0
      PROVE  View(lo, hi, 0, d) = View(lo, hi, il, d)
  BY <1>1 DEF Sound, View
<1>2. CASE r.ext_size = 0
  BY <1>1, <1>2, GoodIsSound, DescriptorFields, AtView DEF SameArray, Rebased, Moved
<1>3. CASE r.ext_size # 0
  BY <1>3 DEF SameArray, Rebased
<1>. QED
  BY <1>2, <1>3

LEMMA ShiftedSame == ASSUME NEW r, Good(r) PROVE SameArray(r, Shifted(r))
<1>1. ASSUME NEW lo, NEW hi, NEW sz, NEW il, NEW n, NEW d, Sound(lo, hi, sz, il, n, d)
      PROVE  View(lo, hi, 0, [i \in 0 .. (n - 1) |->
                 IF i < sz THEN d[i + il] ELSE IF i < sz + il THEN Zero ELSE d[i]])
               = View(lo, hi, il, d)
  BY <1>1 DEF Sound, View
<1>. QED
  BY <1>1, GoodIsSound, DescriptorFields, AtView DEF SameArray, Shifted, Moved

LEMMA GrownSame ==
  ASSUME NEW r, Good(r), NEW n \in Nat, r.ext_size <= n
  PROVE  SameArray(r, Grown(r, n))
<1>1. ASSUME NEW lo, NEW hi, NEW sz, NEW il, NEW m, NEW d, Sound(lo, hi, sz, il, m, d), sz <= n
      PROVE  View(lo, hi, 0, [i \in 0 .. (n - 1) |-> IF i < sz THEN d[i + il] ELSE Zero])
               = View(lo, hi, il, d)
  BY <1>1 DEF Sound, View
<1>. QED
  BY <1>1, GoodIsSound, DescriptorFields, AtView DEF SameArray, Grown, Moved

LEMMA Copy1Same == ASSUME NEW r, Good(r) PROVE SameArray(r, Copy1(r))
<1>1. ASSUME NEW lo, NEW hi, NEW sz, NEW il, NEW n, NEW d, Sound(lo, hi, sz, il, n, d)
      PROVE  View(lo, hi, 0, [i \in 0 .. (sz - 1) |-> d[i + il]]) = View(lo, hi, il, d)
  BY <1>1 DEF Sound, View
<1>. QED
  BY <1>1, GoodIsSound, DescriptorFields, AtView DEF SameArray, Copy1, Moved

LEMMA PutAt ==
  ASSUME NEW r, Good(r), r.int_low + r.ext_size < r.int_size, NEW elt
  PROVE  /\ Put(r, elt).ext_low = r.ext_low /\ Put(r, elt).ext_high = r.ext_high + 1
         /\ At(Put(r, elt)) = [i \in r.ext_low .. (r.ext_high + 1) |->
                                 IF i = r.ext_high + 1 THEN elt ELSE At(r)[i]]
<1>1. ASSUME NEW lo, NEW hi, NEW sz, NEW il, NEW n, NEW d, Sound(lo, hi, sz, il, n, d), il + sz < n
      PROVE  View(lo, hi + 1, il, [d EXCEPT ![il + sz] = elt])
               = [i \in lo .. (hi + 1) |-> IF i = hi + 1 THEN elt ELSE View(lo, hi, il, d)[i]]
  BY <1>1 DEF Sound, View
<1>. QED
  BY <1>1, GoodIsSound, DescriptorFields, AtView DEF Put

LEMMA PrependedAt ==
  ASSUME NEW r, Good(r), NEW elt
  PROVE  /\ Prepended(r, elt).ext_low = r.ext_low - 1 /\ Prepended(r, elt).ext_high = r.ext_high
         /\ At(Prepended(r, elt)) = [i \in (r.ext_low - 1) .. r.ext_high |->
                                       IF i = r.ext_low - 1 THEN elt ELSE At(r)[i]]
<1>1. ASSUME NEW lo, NEW hi, NEW sz, NEW il, NEW n, NEW d, Sound(lo, hi, sz, il, n, d)
      PROVE  View(lo - 1, hi, 0, [i \in 0 .. sz |-> IF i = 0 THEN elt ELSE d[il + i - 1]])
               = [i \in (lo - 1) .. hi |-> IF i = lo - 1 THEN elt ELSE View(lo, hi, il, d)[i]]
  BY <1>1 DEF Sound, View
<1>. QED
  BY <1>1, GoodIsSound, DescriptorFields, AtView DEF Prepended

LEMMA RemovedHighAt ==
  ASSUME NEW r, Good(r), r.ext_size # 0
  PROVE  /\ RemovedHigh(r).ext_low = r.ext_low /\ RemovedHigh(r).ext_high = r.ext_high - 1
         /\ At(RemovedHigh(r)) = [i \in r.ext_low .. (r.ext_high - 1) |-> At(r)[i]]
         /\ r.data[r.int_low + r.ext_size - 1] = At(r)[r.ext_high]
<1>1. ASSUME NEW lo, NEW hi, NEW sz, NEW il, NEW n, NEW d, Sound(lo, hi, sz, il, n, d), sz # 0
      PROVE  /\ View(lo, hi - 1, il, [d EXCEPT ![il + sz - 1] = Zero])
                  = [i \in lo .. (hi - 1) |-> View(lo, hi, il, d)[i]]
             /\ d[il + sz - 1] = View(lo, hi, il, d)[hi]
  <2>1. il + sz - 1 = hi - lo + il /\ hi \in lo .. hi
    BY <1>1 DEF Sound
  <2>. QED
    BY <1>1, <2>1 DEF Sound, View
<1>2. Sound(r.ext_low, r.ext_high, r.ext_size, r.int_low, r.int_size, r.data)
  BY GoodIsSound
<1>3. At(r) = View(r.ext_low, r.ext_high, r.int_low, r.data)
  BY AtView
<1>. QED
  BY <1>1, <1>2, <1>3, DescriptorFields DEF RemovedHigh

LEMMA RemovedLowAt ==
  ASSUME NEW r, Good(r), r.ext_size # 0
  PROVE  /\ RemovedLow(r).ext_low = r.ext_low + 1 /\ RemovedLow(r).ext_high = r.ext_high
         /\ At(RemovedLow(r)) = [i \in (r.ext_low + 1) .. r.ext_high |-> At(r)[i]]
         /\ r.data[r.int_low] = At(r)[r.ext_low]
<1>1. ASSUME NEW lo, NEW hi, NEW sz, NEW il, NEW n, NEW d, Sound(lo, hi, sz, il, n, d), sz # 0
      PROVE  /\ View(lo + 1, hi, il + 1, [d EXCEPT ![il] = Zero])
                  = [i \in (lo + 1) .. hi |-> View(lo, hi, il, d)[i]]
             /\ d[il] = View(lo, hi, il, d)[lo]
  <2>1. il = lo - lo + il /\ lo \in lo .. hi
    BY <1>1 DEF Sound
  <2>. QED
    BY <1>1, <2>1 DEF Sound, View
<1>2. Sound(r.ext_low, r.ext_high, r.ext_size, r.int_low, r.int_size, r.data)
  BY GoodIsSound
<1>3. At(r) = View(r.ext_low, r.ext_high, r.int_low, r.data)
  BY AtView
<1>. QED
  BY <1>1, <1>2, <1>3, DescriptorFields DEF RemovedLow

\* trim: the first elements of the array, under new indexes.
LEMMA TrimmedAt ==
  ASSUME NEW r, Good(r), NEW low \in Int, NEW size \in Nat, size <= r.ext_size
  PROVE  /\ Trimmed(r, low, size).ext_low = low /\ Trimmed(r, low, size).ext_high = low + size - 1
         /\ At(Trimmed(r, low, size)) =
              [i \in low .. (low + size - 1) |-> At(r)[i - low + r.ext_low]]
<1>1. ASSUME NEW lo, NEW hi, NEW sz, NEW il, NEW n, NEW d, Sound(lo, hi, sz, il, n, d), size <= sz
      PROVE  View(low, low + size - 1, il, d)
               = [i \in low .. (low + size - 1) |-> View(lo, hi, il, d)[i - low + lo]]
  BY <1>1 DEF Sound, View
<1>. QED
  BY <1>1, GoodIsSound, DescriptorFields, AtView DEF Trimmed

\* set_low: all of them.
LEMMA ReloweredAt ==
  ASSUME NEW r, Good(r), NEW low \in Int
  PROVE  /\ Relowered(r, low).ext_low = low /\ Relowered(r, low).ext_high = low + r.ext_size - 1
         /\ At(Relowered(r, low)) =
              [i \in low .. (low + r.ext_size - 1) |-> At(r)[i - low + r.ext_low]]
<1>1. ASSUME NEW lo, NEW hi, NEW sz, NEW il, NEW n, NEW d, Sound(lo, hi, sz, il, n, d)
      PROVE  View(low, low + sz - 1, il, d)
               = [i \in low .. (low + sz - 1) |-> View(lo, hi, il, d)[i - low + lo]]
  BY <1>1 DEF Sound, View
<1>. QED
  BY <1>1, GoodIsSound, DescriptorFields, AtView DEF Relowered

LEMMA StoredAt ==
  ASSUME NEW r, Good(r), NEW k \in r.ext_low .. r.ext_high, NEW elt
  PROVE  /\ Stored(r, k, elt).ext_low = r.ext_low /\ Stored(r, k, elt).ext_high = r.ext_high
         /\ At(Stored(r, k, elt)) = [At(r) EXCEPT ![k] = elt]
<1>1. ASSUME NEW lo, NEW hi, NEW sz, NEW il, NEW n, NEW d, Sound(lo, hi, sz, il, n, d),
             NEW j \in lo .. hi
      PROVE  View(lo, hi, il, [d EXCEPT ![j - lo + il] = elt])
               = [View(lo, hi, il, d) EXCEPT ![j] = elt]
  <2> DEFINE e == [d EXCEPT ![j - lo + il] = elt]
  <2>1. ASSUME NEW i \in lo .. hi
        PROVE  e[i - lo + il] = IF i = j THEN elt ELSE d[i - lo + il]
    BY <1>1 DEF Sound
  <2>. HIDE DEF e
  <2>2. View(lo, hi, il, e) = [i \in lo .. hi |-> IF i = j THEN elt ELSE d[i - lo + il]]
    BY <2>1 DEF View
  <2>3. [View(lo, hi, il, d) EXCEPT ![j] = elt]
          = [i \in lo .. hi |-> IF i = j THEN elt ELSE d[i - lo + il]]
    BY DEF View
  <2>. QED
    BY <2>2, <2>3 DEF e
<1>. QED
  BY <1>1, GoodIsSound, DescriptorFields, AtView DEF Stored, Slot

\* A good descriptor stands for an array of elements.
LEMMA AtElem ==
  ASSUME NEW r, Good(r)
  PROVE  /\ r.ext_low \in Int /\ r.ext_high \in Int /\ r.ext_high >= r.ext_low - 1
         /\ r.ext_size = r.ext_high - r.ext_low + 1
         /\ At(r) \in [r.ext_low .. r.ext_high -> Elem]
<1>1. ASSUME NEW lo, NEW hi, NEW sz, NEW il, NEW n, NEW d, Sound(lo, hi, sz, il, n, d)
      PROVE  /\ lo \in Int /\ hi \in Int /\ hi >= lo - 1 /\ sz = hi - lo + 1
             /\ View(lo, hi, il, d) \in [lo .. hi -> Elem]
  BY <1>1 DEF Sound, View
<1>. QED
  BY <1>1, GoodIsSound, AtView
-----------------------------------------------------------------------------
(* Every step of the cluster is a step of the abstract array or a stutter. *)

LEMMA AbstractVars ==
  UNCHANGED a => UNCHANGED <<a.ext_low, a.ext_high, At(a)>>
OBVIOUS

LEMMA AddhRefines ==
  ASSUME Good(a), NEW r, Good(r), SameArray(a, r), r.int_low + r.ext_size < r.int_size,
         a.ext_size < MAX_ARR_SIZE, NEW e \in Elem, Returns(Put(r, e), "ok")
  PROVE  A!Addh
<1>1. /\ a'.ext_low = a.ext_low /\ a'.ext_high = a.ext_high + 1
      /\ At(a') = [i \in a.ext_low .. (a.ext_high + 1) |->
                     IF i = a.ext_high + 1 THEN e ELSE At(a)[i]]
  BY PutAt DEF Returns, SameArray
<1>2. a.ext_high - a.ext_low + 1 < MAX_ARR_SIZE
  BY AtElem
<1>3. res' = "ok"
  BY DEF Returns
<1>. QED
  BY <1>1, <1>2, <1>3 DEF A!Addh, A!Size, A!Becomes, At

LEMMA MakeRefines ==
  ASSUME NEW r, Good(r), Returns(r, "array")
  PROVE  A!Make
BY AtElem DEF Returns, A!Make, At

LEMMA MakeOpRefines == ASSUME IInv, MakeOp PROVE A!Next
<1>1. ASSUME NEW low \in Index, OpCreate(low) PROVE A!Make
  BY <1>1, IndexInt, CreateGood, MakeRefines DEF OpCreate
<1>2. ASSUME NEW low \in Index, NEW size \in Sizes, OpPredict(low, size) PROVE A!Make
  <2>1. Predicted(size) \in Nat
    BY IndexInt, ArrayAssumption DEF Predicted
  <2>. QED
    BY <1>2, <2>1, IndexInt, BlankGood, MakeRefines DEF OpPredict
<1>3. ASSUME NEW low \in Index, NEW size \in Sizes, NEW e \in Elem, OpFill(low, size, e)
      PROVE  A!Make \/ A!Refused
  <2>1. CASE size >= 0 /\ Returns(Filled(low, size, e), "array")
    BY <2>1, IndexInt, FilledGood, MakeRefines
  <2>2. CASE Signal("negative_size") \/ Signal("failure")
    BY <2>2 DEF Signal, A!Refused, A!Signals
  <2>. QED
    BY <1>3, <2>1, <2>2 DEF OpFill
<1>4. ASSUME NEW low \in Index, NEW n \in 0 .. MAX_ARR_SIZE, NEW q \in [0 .. (n - 1) -> Elem],
             OpCons(low, n, q)
      PROVE  A!Make
  <2>1. Good(NewArray(low, n, n, q))
    BY IndexInt, ArrayAssumption, NewArrayGood, WordElem
  <2>. QED
    BY <1>4, <2>1, MakeRefines DEF OpCons
<1>5. ASSUME OpCopy1 PROVE A!Copy1
  BY <1>5, IInvParts, Copy1Same DEF OpCopy1, Returns, SameArray, A!Copy1, At
<1>. QED
  BY <1>1, <1>2, <1>3, <1>4, <1>5 DEF MakeOp, A!Next

LEMMA BoundsOpRefines == ASSUME IInv, BoundsOp PROVE A!Next \/ TrimRenumbers
<1>0. Good(a)
  BY IInvParts
<1>a. a.ext_low \in Int /\ a.ext_high \in Int /\ a.ext_size = a.ext_high - a.ext_low + 1
      /\ a.ext_size \in Nat
  BY <1>0, AtElem
<1>1. ASSUME NEW low \in Index, OpSetLow(low) PROVE A!SetLow
  <2>1. /\ a'.ext_low = low /\ a'.ext_high = low + a.ext_size - 1 /\ res' = "ok"
        /\ At(a') = [i \in low .. (low + a.ext_size - 1) |-> At(a)[i - low + a.ext_low]]
    BY <1>0, <1>1, IndexInt, ReloweredAt DEF OpSetLow, Returns
  <2>. QED
    BY <1>a, <2>1, IndexInt DEF A!SetLow, A!Becomes, A!Size, At
<1>2. ASSUME NEW low \in Index, NEW size \in Sizes, OpTrim(low, size)
      PROVE  A!Trim(low, size) \/ TrimRenumbers \/ A!Store \/ A!Refused
  <2>1. CASE low >= a.ext_low /\ size >= 0 /\ size <= a.ext_size /\ Returns(Trimmed(a, low, size), "ok")
    <3>1. /\ a'.ext_low = low /\ a'.ext_high = low + size - 1 /\ res' = "ok"
          /\ At(a') = [i \in low .. (low + size - 1) |-> At(a)[i - low + a.ext_low]]
      BY <1>0, <2>1, IndexInt, TrimmedAt DEF Returns
    <3>2. size \in 0 .. a.ext_size /\ low \in Int /\ size \in Int
      BY <1>a, <2>1, IndexInt
    <3>3. CASE low = a.ext_low
      <4>1. At(a') = [i \in low .. (low + size - 1) |-> At(a)[i]]
        BY <1>a, <3>1, <3>2, <3>3
      <4>2. low \in a.ext_low .. (a.ext_high + 1) /\ low + size - 1 <= a.ext_high
        BY <1>a, <3>2, <3>3
      <4>3. PICK h \in {a.ext_high, low + size - 1} : h = low + size - 1
        OBVIOUS
      <4>4. A!Becomes(low, h, [i \in low .. h |-> At(a)[i]])
        BY <3>1, <4>1, <4>3 DEF A!Becomes, At
      <4>5. h <= a.ext_high /\ h <= low + size - 1
        BY <3>2, <4>2, <4>3
      <4>. QED
        BY <2>1, <3>1, <4>2, <4>4, <4>5 DEF A!Trim, At
    <3>4. CASE low > a.ext_low
      <4>1. \A i \in low .. (low + size - 1) :
              At(a)[i - low + a.ext_low] = Fetch(a, i - low + a.ext_low)
        BY <1>a, <3>2 DEF At
      <4>2. At(a') = [i \in low .. (low + size - 1) |-> Fetch(a, i - low + a.ext_low)]
        BY <3>1, <4>1
      <4>. QED
        BY <3>1, <3>2, <3>4, <4>2 DEF TrimRenumbers, A!Becomes, At
    <3>. QED
      BY <1>a, <2>1, <3>2, <3>3, <3>4
  <2>2. CASE Signal("bounds") \/ Signal("negative_size")
    BY <2>2 DEF Signal, A!Store, A!Refused, A!Signals
  <2>. QED
    BY <1>2, <2>1, <2>2 DEF OpTrim
<1>. QED
  BY <1>1, <1>2 DEF BoundsOp, A!Next

LEMMA ElementOpRefines == ASSUME IInv, ElementOp PROVE A!Next
<1>0. Good(a)
  BY IInvParts
<1>a. a.ext_low \in Int /\ a.ext_high \in Int /\ a.ext_size = a.ext_high - a.ext_low + 1
      /\ a.ext_size \in Nat
  BY <1>0, AtElem
<1>1. ASSUME NEW i \in Index, NEW e \in Elem, OpStore(i, e) PROVE A!Store
  <2>1. CASE Signal("bounds")
    BY <2>1 DEF Signal, A!Store, A!Signals
  <2>2. CASE i \in a.ext_low .. a.ext_high /\ Returns(Stored(a, i, e), "ok")
    <3>1. a'.ext_low = a.ext_low /\ a'.ext_high = a.ext_high /\ res' = "ok"
          /\ At(a') = [At(a) EXCEPT ![i] = e]
      BY <1>0, <2>2, StoredAt DEF Returns
    <3>. QED
      BY <2>2, <3>1 DEF A!Store, A!Becomes, At
  <2>. QED
    BY <1>1, <2>1, <2>2 DEF OpStore
<1>2. ASSUME NEW e \in Elem, OpAddhInPlace(e) \/ OpAddhShift(e) \/ OpAddhGrow(e) PROVE A!Addh
  <2> DEFINE r == Rebased(a)
             n == SizeForGrowth(r.ext_size + 1)
  <2>1. Good(r) /\ SameArray(a, r)
    BY <1>0, RebasedGood, RebasedSame
  <2>2. r.ext_size \in Nat /\ r.int_size \in Nat /\ r.int_low \in Nat
    BY <2>1, GoodIsSound DEF Sound
  <2>. HIDE DEF r
  <2>3. n \in Nat /\ n >= r.ext_size + 1
    BY <2>2, GrowthCovers
  <2>4. CASE OpAddhInPlace(e)
    BY <1>0, <2>1, <2>2, <2>4, AddhRefines DEF OpAddhInPlace, r
  <2>5. CASE OpAddhShift(e)
    <3>1. n <= r.int_size /\ a.ext_size < MAX_ARR_SIZE /\ Returns(Put(Shifted(r), e), "ok")
      BY <2>5 DEF OpAddhShift, r
    <3>2. Shifted(r).int_low + Shifted(r).ext_size < Shifted(r).int_size
      BY <2>2, <2>3, <3>1, MovedFields DEF Shifted
    <3>3. Good(Shifted(r)) /\ SameArray(a, Shifted(r))
      BY <2>1, ShiftedGood, ShiftedSame DEF SameArray
    <3>. QED
      BY <1>0, <3>1, <3>2, <3>3, AddhRefines
  <2>6. CASE OpAddhGrow(e)
    <3>1. a.ext_size < MAX_ARR_SIZE /\ Returns(Put(Grown(r, n), e), "ok")
      BY <2>6 DEF OpAddhGrow, r
    <3>. HIDE DEF n
    <3>2. Grown(r, n).int_low + Grown(r, n).ext_size < Grown(r, n).int_size
      BY <2>2, <2>3, MovedFields DEF Grown
    <3>3. Good(Grown(r, n)) /\ SameArray(r, Grown(r, n))
      BY <2>1, <2>2, <2>3, GrownGood, GrownSame
    <3>4. SameArray(a, Grown(r, n))
      BY <2>1, <3>3 DEF SameArray
    <3>. QED
      BY <1>0, <3>1, <3>2, <3>3, <3>4, AddhRefines
  <2>. QED
    BY <1>2, <2>4, <2>5, <2>6
<1>3. ASSUME NEW e \in Elem, OpAddl(e) PROVE A!Addl
  <2>1. /\ a'.ext_low = a.ext_low - 1 /\ a'.ext_high = a.ext_high /\ res' = "ok"
        /\ At(a') = [i \in (a.ext_low - 1) .. a.ext_high |->
                       IF i = a.ext_low - 1 THEN e ELSE At(a)[i]]
    BY <1>0, <1>3, PrependedAt DEF OpAddl, Returns
  <2>2. a.ext_high - a.ext_low + 1 < MAX_ARR_SIZE
    BY <1>a, <1>3 DEF OpAddl
  <2>. QED
    BY <2>1, <2>2 DEF A!Addl, A!Size, A!Becomes, At
<1>4. ASSUME OpAddFull PROVE A!Refused
  BY <1>4 DEF OpAddFull, Signal, A!Refused, A!Signals
<1>5. ASSUME OpRemh PROVE A!Remh
  <2>1. CASE a.ext_size = 0 /\ Signal("bounds")
    BY <1>a, <2>1 DEF Signal, A!Remh, A!Signals, A!Size
  <2>2. CASE a.ext_size # 0 /\ Returns(RemovedHigh(a), a.data[a.int_low + a.ext_size - 1])
    <3>1. a'.ext_low = a.ext_low /\ a'.ext_high = a.ext_high - 1
          /\ At(a') = [i \in a.ext_low .. (a.ext_high - 1) |-> At(a)[i]]
          /\ res' = At(a)[a.ext_high]
      BY <1>0, <2>2, RemovedHighAt DEF Returns
    <3>. QED
      BY <1>a, <2>2, <3>1 DEF A!Remh, A!Becomes, A!Size, At
  <2>. QED
    BY <1>5, <2>1, <2>2 DEF OpRemh
<1>6. ASSUME OpReml PROVE A!Reml
  <2>1. CASE a.ext_size = 0 /\ Signal("bounds")
    BY <1>a, <2>1 DEF Signal, A!Reml, A!Signals, A!Size
  <2>2. CASE a.ext_size # 0 /\ Returns(RemovedLow(a), a.data[a.int_low])
    <3>1. a'.ext_low = a.ext_low + 1 /\ a'.ext_high = a.ext_high
          /\ At(a') = [i \in (a.ext_low + 1) .. a.ext_high |-> At(a)[i]]
          /\ res' = At(a)[a.ext_low]
      BY <1>0, <2>2, RemovedLowAt DEF Returns
    <3>2. a.ext_high - a.ext_low + 1 > 0
      BY <1>a, <2>2
    <3>. QED
      BY <3>1, <3>2 DEF A!Reml, A!Becomes, A!Size, At
  <2>. QED
    BY <1>6, <2>1, <2>2 DEF OpReml
<1>. QED
  BY <1>1, <1>2, <1>3, <1>4, <1>5, <1>6 DEF ElementOp, A!Next

\* The calls and returns of elements and copy leave the array to their callees.
LEMMA LoopStutters ==
  ASSUME \/ ElementsCall \/ ElementsResume \/ ElementsExit
         \/ (\E strange \in BOOLEAN : CopyCall(strange)) \/ CopyReturn \/ CopyEnd
         \/ Undefined
  PROVE  a' = a /\ res' = res
BY DEF ElementsCall, ElementsResume, ElementsExit, IterEnds, CopyCall, CopyReturn, CopyEnd,
       Undefined, vars

LEMMA StepRefines == IInv /\ [Next]_vars => [A!Next \/ TrimRenumbers]_(A!vars)
<1> SUFFICES ASSUME IInv, [Next]_vars PROVE [A!Next \/ TrimRenumbers]_(A!vars)
  OBVIOUS
<1>1. ASSUME a' = a, res' = res PROVE UNCHANGED A!vars
  BY <1>1 DEF A!vars
<1>2. CASE UNCHANGED vars
  BY <1>1, <1>2 DEF vars
<1>3. CASE Next
  BY <1>1, <1>3, MakeOpRefines, BoundsOpRefines, ElementOpRefines, LoopStutters DEF Next, Defined
<1>. QED
  BY <1>2, <1>3

LEMMA InitRefines == Init => A!Init
<1> SUFFICES ASSUME Init PROVE A!Init
  OBVIOUS
<1>1. a.ext_low = 1 /\ a.ext_high = 0
  BY DEF Init, Create, NewArray, Descriptor
<1>2. [i \in a.ext_low .. a.ext_high |-> Fetch(a, i)] = [i \in 1 .. 0 |-> 0]
  BY <1>1
<1>. QED
  BY <1>1, <1>2 DEF Init, A!Init

\* The cluster implements the array of the manual, whichever way an operation handles the
\* store and whatever runs inside elements and copy, but for a trim to another low bound.
THEOREM Implements == Spec => ImplementsArray
<1>1. Spec => A!Init
  BY InitRefines DEF Spec
<1>2. Spec => [][A!Next \/ TrimRenumbers]_(A!vars)
  BY Invariance, StepRefines, PTL DEF Spec
<1>. QED
  BY <1>1, <1>2, PTL DEF ImplementsArray
=============================================================================
