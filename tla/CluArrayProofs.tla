--------------------------- MODULE CluArrayProofs ---------------------------
(***************************************************************************)
(* The rep invariant of arrays, and that the cluster implements the        *)
(* abstract array, for every set of elements, every MAX_ARR_SIZE and every *)
(* padding policy.                                                         *)
(***************************************************************************)
EXTENDS CluArray, TLAPS

\* A well formed descriptor whose window holds elements: what every operation preserves.
Good(r) == RepType(r) /\ check_RI(r) /\ Live(r)

\* The same, of the six fields.
Sound(lo, hi, sz, il, n, d) ==
  /\ lo \in Int /\ hi \in Int /\ sz \in Nat /\ il \in Nat /\ n \in Nat
  /\ d \in [0 .. (n - 1) -> Word]
  /\ sz = hi - lo + 1
  /\ il + sz <= n
  /\ \A i \in il .. (il + sz - 1) : d[i] \in Elem

LEMMA WordElem == Elem \subseteq Word /\ Zero \in Word
BY DEF Word

LEMMA GoodIsSound ==
  ASSUME NEW r, Good(r)
  PROVE  Sound(r.ext_low, r.ext_high, r.ext_size, r.int_low, r.int_size, r.data)
BY DEF Good, RepType, check_RI, Live, Window, Sound

LEMMA SoundIsGood ==
  ASSUME NEW lo, NEW hi, NEW sz, NEW il, NEW n, NEW d, Sound(lo, hi, sz, il, n, d)
  PROVE  Good(Descriptor(lo, hi, sz, il, n, d))
BY DEF Good, Descriptor, RepType, check_RI, Live, Window, Sound

LEMMA GoodWindow ==
  ASSUME NEW r, Good(r), NEW i \in Window(r)
  PROVE  r.data[i] \in Elem
BY DEF Good, Live

\* size_for_growth: "Ensures result >= n".
LEMMA GrowthCovers ==
  ASSUME NEW n \in Nat
  PROVE  SizeForGrowth(n) \in Nat /\ SizeForGrowth(n) >= n
BY ArrayAssumption DEF SizeForGrowth

-----------------------------------------------------------------------------
(* Every operation on descriptors makes a good one.                        *)

LEMMA NewArrayGood ==
  ASSUME NEW low \in Int, NEW k \in Nat, NEW n \in Nat, k <= n,
         NEW data \in [0 .. (n - 1) -> Word], \A i \in 0 .. (k - 1) : data[i] \in Elem
  PROVE  Good(NewArray(low, k, n, data))
<1>1. Sound(low, low + k - 1, k, 0, n, data)
  BY DEF Sound
<1>. QED
  BY <1>1, SoundIsGood DEF NewArray

LEMMA BlankGood ==
  ASSUME NEW low \in Int, NEW n \in Nat
  PROVE  Good(NewArray(low, 0, n, Blank(n)))
<1>1. Sound(low, low + 0 - 1, 0, 0, n, Blank(n))
  BY WordElem DEF Sound, Blank
<1>. QED
  BY <1>1, SoundIsGood DEF NewArray

LEMMA CreateGood == ASSUME NEW low \in Int PROVE Good(Create(low))
BY BlankGood DEF Create

LEMMA FilledGood ==
  ASSUME NEW low \in Int, NEW size \in Nat, NEW elt \in Elem
  PROVE  Good(Filled(low, size, elt))
<1>1. Sound(low, low + size - 1, size, 0, size, [i \in 0 .. (size - 1) |-> elt])
  BY WordElem DEF Sound
<1>. QED
  BY <1>1, SoundIsGood DEF Filled, NewArray

LEMMA RebasedGood ==
  ASSUME NEW r, Good(r)
  PROVE  Good(Rebased(r)) /\ Rebased(r).ext_size = r.ext_size
<1>1. CASE r.ext_size = 0
  <2>1. Sound(r.ext_low, r.ext_high, r.ext_size, 0, r.int_size, r.data)
    BY <1>1, GoodIsSound DEF Sound
  <2>2. Good(Descriptor(r.ext_low, r.ext_high, r.ext_size, 0, r.int_size, r.data))
    BY <2>1, SoundIsGood
  <2>. QED
    BY <1>1, <2>2 DEF Rebased, Moved, Descriptor
<1>2. CASE r.ext_size # 0
  BY <1>2 DEF Rebased
<1>. QED
  BY <1>1, <1>2

\* addh stores into the slot above the window, which must exist.
LEMMA PutGood ==
  ASSUME NEW r, Good(r), r.int_low + r.ext_size < r.int_size, NEW elt \in Elem
  PROVE  Good(Put(r, elt))
<1>1. ASSUME NEW lo, NEW hi, NEW sz, NEW il, NEW n, NEW d, Sound(lo, hi, sz, il, n, d), il + sz < n
      PROVE  Sound(lo, hi + 1, sz + 1, il, n, [d EXCEPT ![il + sz] = elt])
  BY <1>1, WordElem DEF Sound
<1>. QED
  BY <1>1, GoodIsSound, SoundIsGood DEF Put

LEMMA MovedFields ==
  ASSUME NEW r, NEW n, NEW data
  PROVE  /\ Moved(r, n, data).int_low = 0
         /\ Moved(r, n, data).int_size = n
         /\ Moved(r, n, data).ext_size = r.ext_size
BY DEF Moved, Descriptor

LEMMA ShiftedGood ==
  ASSUME NEW r, Good(r)
  PROVE  Good(Shifted(r))
<1>1. ASSUME NEW lo, NEW hi, NEW sz, NEW il, NEW n, NEW d, Sound(lo, hi, sz, il, n, d)
      PROVE  Sound(lo, hi, sz, 0, n, [i \in 0 .. (n - 1) |->
                 IF i < sz THEN d[i + il] ELSE IF i < sz + il THEN Zero ELSE d[i]])
  BY <1>1, WordElem DEF Sound
<1>. QED
  BY <1>1, GoodIsSound, SoundIsGood DEF Shifted, Moved

LEMMA GrownGood ==
  ASSUME NEW r, Good(r), NEW n \in Nat, r.ext_size <= n
  PROVE  Good(Grown(r, n))
<1>1. ASSUME NEW lo, NEW hi, NEW sz, NEW il, NEW m, NEW d, Sound(lo, hi, sz, il, m, d), sz <= n
      PROVE  Sound(lo, hi, sz, 0, n, [i \in 0 .. (n - 1) |-> IF i < sz THEN d[i + il] ELSE Zero])
  BY <1>1, WordElem DEF Sound
<1>. QED
  BY <1>1, GoodIsSound, SoundIsGood DEF Grown, Moved

LEMMA PrependedGood ==
  ASSUME NEW r, Good(r), NEW elt \in Elem
  PROVE  Good(Prepended(r, elt))
<1>1. ASSUME NEW lo, NEW hi, NEW sz, NEW il, NEW n, NEW d, Sound(lo, hi, sz, il, n, d)
      PROVE  Sound(lo - 1, hi, sz + 1, 0, sz + 1,
                   [i \in 0 .. sz |-> IF i = 0 THEN elt ELSE d[il + i - 1]])
  BY <1>1, WordElem DEF Sound
<1>. QED
  BY <1>1, GoodIsSound, SoundIsGood DEF Prepended

LEMMA RemovedHighGood ==
  ASSUME NEW r, Good(r), r.ext_size # 0
  PROVE  Good(RemovedHigh(r))
<1>1. ASSUME NEW lo, NEW hi, NEW sz, NEW il, NEW n, NEW d, Sound(lo, hi, sz, il, n, d), sz # 0
      PROVE  Sound(lo, hi - 1, sz - 1, il, n, [d EXCEPT ![il + sz - 1] = Zero])
  BY <1>1, WordElem DEF Sound
<1>. QED
  BY <1>1, GoodIsSound, SoundIsGood DEF RemovedHigh

LEMMA RemovedLowGood ==
  ASSUME NEW r, Good(r), r.ext_size # 0
  PROVE  Good(RemovedLow(r))
<1>1. ASSUME NEW lo, NEW hi, NEW sz, NEW il, NEW n, NEW d, Sound(lo, hi, sz, il, n, d), sz # 0
      PROVE  Sound(lo + 1, hi, sz - 1, il + 1, n, [d EXCEPT ![il] = Zero])
  BY <1>1, WordElem DEF Sound
<1>. QED
  BY <1>1, GoodIsSound, SoundIsGood DEF RemovedLow

LEMMA TrimmedGood ==
  ASSUME NEW r, Good(r), NEW low \in Int, NEW size \in Nat, size <= r.ext_size
  PROVE  Good(Trimmed(r, low, size))
<1>1. ASSUME NEW lo, NEW hi, NEW sz, NEW il, NEW n, NEW d, Sound(lo, hi, sz, il, n, d), size <= sz
      PROVE  Sound(low, low + size - 1, size, il, n, d)
  BY <1>1 DEF Sound
<1>. QED
  BY <1>1, GoodIsSound, SoundIsGood DEF Trimmed

LEMMA RelowerGood ==
  ASSUME NEW r, Good(r), NEW low \in Int
  PROVE  Good(Relowered(r, low))
<1>1. ASSUME NEW lo, NEW hi, NEW sz, NEW il, NEW n, NEW d, Sound(lo, hi, sz, il, n, d)
      PROVE  Sound(low, low + sz - 1, sz, il, n, d)
  BY <1>1 DEF Sound
<1>. QED
  BY <1>1, GoodIsSound, SoundIsGood DEF Relowered

LEMMA StoredGood ==
  ASSUME NEW r, Good(r), NEW i \in r.ext_low .. r.ext_high, NEW elt \in Elem
  PROVE  Good(Stored(r, i, elt))
<1>1. ASSUME NEW lo, NEW hi, NEW sz, NEW il, NEW n, NEW d, Sound(lo, hi, sz, il, n, d),
             NEW k \in lo .. hi
      PROVE  Sound(lo, hi, sz, il, n, [d EXCEPT ![k - lo + il] = elt])
  BY <1>1, WordElem DEF Sound
<1>. QED
  BY <1>1, GoodIsSound, SoundIsGood DEF Stored, Slot

LEMMA Copy1Good == ASSUME NEW r, Good(r) PROVE Good(Copy1(r))
<1>1. ASSUME NEW lo, NEW hi, NEW sz, NEW il, NEW n, NEW d, Sound(lo, hi, sz, il, n, d)
      PROVE  Sound(lo, hi, sz, 0, sz, [i \in 0 .. (sz - 1) |-> d[i + il]])
  BY <1>1, WordElem DEF Sound
<1>. QED
  BY <1>1, GoodIsSound, SoundIsGood DEF Copy1, Moved

-----------------------------------------------------------------------------
(* The array copy is filling: well formed, though its slots may still be clear. *)

Formed(r) == RepType(r) /\ check_RI(r)

LEMMA CopyTargetFormed == ASSUME NEW r, Good(r) PROVE Formed(CopyTarget(r))
<1>1. Blank(r.ext_size) \in [0 .. (r.ext_size - 1) -> Word]
  BY WordElem DEF Blank
<1>. QED
  BY <1>1, GoodIsSound DEF Sound, CopyTarget, Moved, Descriptor, Formed, RepType, check_RI

LEMMA CopyStoredFormed ==
  ASSUME NEW c, Formed(c.dst), c.elt \in Word, c.i \in Nat
  PROVE  Formed(CopyStored(c))
<1> DEFINE d == c.dst
           data == [d.data EXCEPT ![c.i] = c.elt]
<1>1. ASSUME NEW n \in Nat, NEW f \in [0 .. (n - 1) -> Word], NEW i \in Nat, NEW e \in Word
      PROVE  [f EXCEPT ![i] = e] \in [0 .. (n - 1) -> Word]
  OBVIOUS
<1>2. ASSUME NEW lo \in Int, NEW hi \in Int, NEW sz \in Nat, NEW n \in Nat,
             sz = hi - lo + 1, sz <= n, NEW f \in [0 .. (n - 1) -> Word]
      PROVE  Formed(Descriptor(lo, hi, sz, 0, n, f))
  <2>1. PICK r : r = Descriptor(lo, hi, sz, 0, n, f)
    OBVIOUS
  <2>2. /\ r.ext_low = lo /\ r.ext_high = hi /\ r.ext_size = sz
        /\ r.int_low = 0 /\ r.int_size = n /\ r.data = f
    BY <2>1 DEF Descriptor
  <2>3. RepType(r)
    BY <2>1 DEF Descriptor, RepType
  <2>4. check_RI(r)
    BY <1>2, <2>2 DEF check_RI
  <2>. QED
    BY <2>1, <2>3, <2>4 DEF Formed
<1>3. ASSUME NEW lo \in Int, NEW hi \in Int, NEW sz \in Nat, NEW il \in Nat, NEW n \in Nat,
             sz = hi - lo + 1, il + sz <= n, NEW f \in [0 .. (n - 1) -> Word],
             NEW i \in Nat, NEW e \in Word
      PROVE  Formed(Descriptor(lo, hi, sz, 0, n, [f EXCEPT ![i] = e]))
  <2>1. sz <= n
    BY <1>3
  <2>2. [f EXCEPT ![i] = e] \in [0 .. (n - 1) -> Word]
    BY <1>1
  <2>. QED
    BY <1>3, <1>2, <2>1, <2>2
<1>4. CASE c.i < d.int_size
  <2>1. d.ext_low \in Int /\ d.ext_high \in Int /\ d.ext_size \in Nat /\ d.int_size \in Nat
        /\ d.int_low \in Nat
        /\ d.ext_size = d.ext_high - d.ext_low + 1 /\ d.int_low + d.ext_size <= d.int_size
        /\ d.data \in [0 .. (d.int_size - 1) -> Word]
    BY DEF Formed, RepType, check_RI
  <2>. HIDE DEF d
  <2>2. Formed(Descriptor(d.ext_low, d.ext_high, d.ext_size, 0, d.int_size, data))
    BY <1>3, <2>1
  <2>3. CopyStored(c) = Moved(d, d.int_size, data)
    BY <1>4 DEF CopyStored, d, data
  <2>. QED
    BY <2>2, <2>3 DEF Moved
<1>5. CASE ~(c.i < d.int_size)
  BY <1>5 DEF CopyStored
<1>. QED
  BY <1>4, <1>5

-----------------------------------------------------------------------------
(* The inductive invariant                                                 *)

IInv == TypeOK /\ RepInv /\ WindowLive

Outcomes == Elem \cup {"ok", "array", "copy", "bounds", "negative_size", "failure"}

CpType(c) ==
  /\ c \in [status : {"idle", "callee", "copied"}, i : Nat, elt : Word,
            dst : {c.dst}, strange : BOOLEAN, wild : BOOLEAN]
  /\ Formed(c.dst)

IterType(it) ==
  it \in [status : {"idle", "body"}, index : Int, int_index : Int, limit : Int, elt : Word]

LEMMA IInvParts == IInv <=> Good(a) /\ res \in Outcomes /\ IterType(iter) /\ CpType(cp)
BY DEF IInv, TypeOK, RepInv, WindowLive, Good, Formed, Outcomes, CpType, IterType

LEMMA IInvPartsNext ==
  IInv' <=> Good(a') /\ res' \in Outcomes /\ IterType(iter') /\ CpType(cp')
BY DEF IInv, TypeOK, RepInv, WindowLive, Good, Formed, Outcomes, CpType, IterType,
       RepType, check_RI, Live, Window

\* An operation that returns a good descriptor and a legal outcome.
LEMMA ReturnsIInv ==
  ASSUME IInv, NEW r, Good(r), NEW v \in Outcomes, Returns(r, v)
  PROVE  IInv'
BY IInvParts, IInvPartsNext DEF Returns

LEMMA SignalIInv ==
  ASSUME IInv, NEW v \in Outcomes, Signal(v)
  PROVE  IInv'
BY IInvParts, IInvPartsNext DEF Signal

LEMMA IndexInt == Index \subseteq Int /\ Sizes \subseteq Int
BY ArrayAssumption DEF Index, Sizes

LEMMA MakeOpIInv == ASSUME IInv, MakeOp PROVE IInv'
<1> USE IndexInt, ReturnsIInv, SignalIInv DEF Outcomes
<1>1. ASSUME NEW low \in Index, OpCreate(low) PROVE IInv'
  BY <1>1, CreateGood DEF OpCreate
<1>2. ASSUME NEW low \in Index, NEW size \in Sizes, OpPredict(low, size) PROVE IInv'
  <2>1. Predicted(size) \in Nat
    BY ArrayAssumption DEF Predicted
  <2>. QED
    BY <1>2, <2>1, BlankGood DEF OpPredict
<1>3. ASSUME NEW low \in Index, NEW size \in Sizes, NEW e \in Elem, OpFill(low, size, e)
      PROVE  IInv'
  <2>1. CASE size < 0
    BY <1>3, <2>1 DEF OpFill
  <2>2. CASE size >= 0
    <3>1. Good(Filled(low, size, e))
      BY <2>2, FilledGood
    <3>. QED
      BY <1>3, <2>2, <3>1 DEF OpFill
  <2>. QED
    BY <2>1, <2>2
<1>4. ASSUME NEW low \in Index, NEW n \in 0 .. MAX_ARR_SIZE, NEW q \in [0 .. (n - 1) -> Elem],
             OpCons(low, n, q)
      PROVE  IInv'
  <2>1. Good(NewArray(low, n, n, q))
    BY ArrayAssumption, NewArrayGood, WordElem
  <2>. QED
    BY <1>4, <2>1 DEF OpCons
<1>5. ASSUME OpCopy1 PROVE IInv'
  BY <1>5, IInvParts, Copy1Good DEF OpCopy1
<1>. QED
  BY <1>1, <1>2, <1>3, <1>4, <1>5 DEF MakeOp
LEMMA BoundsOpIInv == ASSUME IInv, BoundsOp PROVE IInv'
<1> USE IndexInt, ReturnsIInv, SignalIInv DEF Outcomes
<1>0. Good(a)
  BY IInvParts
<1>1. ASSUME NEW low \in Index, OpSetLow(low) PROVE IInv'
  BY <1>0, <1>1, RelowerGood DEF OpSetLow
<1>2. ASSUME NEW low \in Index, NEW size \in Sizes, OpTrim(low, size) PROVE IInv'
  <2>1. CASE size >= 0 /\ size <= a.ext_size
    <3>1. Good(Trimmed(a, low, size))
      BY <1>0, <2>1, TrimmedGood
    <3>. QED
      BY <1>2, <3>1 DEF OpTrim
  <2>2. CASE ~(size >= 0 /\ size <= a.ext_size)
    BY <1>2, <2>2 DEF OpTrim
  <2>. QED
    BY <2>1, <2>2
<1>. QED
  BY <1>1, <1>2 DEF BoundsOp

\* Each of the three ways in which addh makes room leaves a free slot above the window.
LEMMA AddhIInv ==
  ASSUME IInv, NEW e \in Elem, OpAddhInPlace(e) \/ OpAddhShift(e) \/ OpAddhGrow(e)
  PROVE  IInv'
<1> DEFINE r == Rebased(a)
           n == SizeForGrowth(r.ext_size + 1)
<1>1. Good(r)
  BY IInvParts, RebasedGood
<1>2. r.ext_size \in Nat /\ r.int_size \in Nat /\ r.int_low \in Nat
  BY <1>1, GoodIsSound DEF Sound
<1>. HIDE DEF r
<1>3. n \in Nat /\ n >= r.ext_size + 1
  BY <1>2, GrowthCovers
<1>4. CASE OpAddhInPlace(e)
  <2>1. Good(Put(r, e))
    BY <1>1, <1>2, <1>4, PutGood DEF OpAddhInPlace, r
  <2>. QED
    BY <1>4, <2>1, ReturnsIInv DEF OpAddhInPlace, r, Outcomes
<1>5. CASE OpAddhShift(e)
  <2>1. n <= r.int_size
    BY <1>5 DEF OpAddhShift, r
  <2>2. Shifted(r).int_low + Shifted(r).ext_size < Shifted(r).int_size
    BY <1>2, <1>3, <2>1, MovedFields DEF Shifted
  <2>3. Good(Put(Shifted(r), e))
    BY <1>1, <2>2, ShiftedGood, PutGood
  <2>. QED
    BY <1>5, <2>3, ReturnsIInv DEF OpAddhShift, r, Outcomes
<1>6. CASE OpAddhGrow(e)
  <2>. HIDE DEF n
  <2>1. Grown(r, n).int_low + Grown(r, n).ext_size < Grown(r, n).int_size
    BY <1>2, <1>3, MovedFields DEF Grown
  <2>2. Good(Grown(r, n))
    BY <1>1, <1>2, <1>3, GrownGood
  <2>3. Good(Put(Grown(r, n), e))
    BY <2>1, <2>2, PutGood
  <2>. QED
    BY <1>6, <2>3, ReturnsIInv DEF OpAddhGrow, r, n, Outcomes
<1>. QED
  BY <1>4, <1>5, <1>6

LEMMA ElementOpIInv == ASSUME IInv, ElementOp PROVE IInv'
<1> USE ReturnsIInv, SignalIInv DEF Outcomes
<1>0. Good(a)
  BY IInvParts
<1>1. ASSUME NEW i \in Index, NEW e \in Elem, OpStore(i, e) PROVE IInv'
  BY <1>0, <1>1, StoredGood DEF OpStore
<1>2. ASSUME NEW e \in Elem, OpAddhInPlace(e) \/ OpAddhShift(e) \/ OpAddhGrow(e) PROVE IInv'
  BY <1>2, AddhIInv
<1>3. ASSUME NEW e \in Elem, OpAddl(e) PROVE IInv'
  BY <1>0, <1>3, PrependedGood DEF OpAddl
<1>4. ASSUME OpAddFull PROVE IInv'
  BY <1>4 DEF OpAddFull
<1>5. ASSUME OpRemh PROVE IInv'
  <2>1. CASE a.ext_size = 0
    BY <1>5, <2>1 DEF OpRemh
  <2>2. CASE a.ext_size # 0
    <3>0. a.int_low + a.ext_size - 1 \in Window(a)
      BY <1>0, <2>2, GoodIsSound DEF Sound, Window
    <3>1. a.data[a.int_low + a.ext_size - 1] \in Elem
      BY <1>0, <3>0, GoodWindow
    <3>2. Good(RemovedHigh(a))
      BY <1>0, <2>2, RemovedHighGood
    <3>. QED
      BY <1>5, <2>2, <3>1, <3>2 DEF OpRemh
  <2>. QED
    BY <2>1, <2>2
<1>6. ASSUME OpReml PROVE IInv'
  <2>1. CASE a.ext_size = 0
    BY <1>6, <2>1 DEF OpReml
  <2>2. CASE a.ext_size # 0
    <3>1. a.data[a.int_low] \in Elem
      BY <1>0, <2>2, GoodIsSound DEF Sound
    <3>2. Good(RemovedLow(a))
      BY <1>0, <2>2, RemovedLowGood
    <3>. QED
      BY <1>6, <2>2, <3>1, <3>2 DEF OpReml
  <2>. QED
    BY <2>1, <2>2
<1>. QED
  BY <1>1, <1>2, <1>3, <1>4, <1>5, <1>6 DEF ElementOp

LEMMA ElementsIInv == ASSUME IInv, ElementsCall \/ ElementsResume \/ ElementsExit PROVE IInv'
<1>0. Good(a) /\ IterType(iter)
  BY IInvParts
<1>1. ASSUME UNCHANGED <<a, res, cp>>, IterType(iter') PROVE IInv'
  BY <1>1, IInvParts, IInvPartsNext
<1>2. ASSUME NEW st \in {"idle", "body"}, NEW x \in Int, NEW k \in Int, NEW l \in Int, NEW w \in Word
      PROVE  IterType(Activation(st, x, k, l, w))
  BY DEF Activation, IterType
<1>3. CASE IterEnds
  BY <1>1, <1>2, <1>3, WordElem DEF IterEnds, IterIdle
<1>4. CASE ElementsCall /\ ~IterEnds
  <2>1. a.int_low \in Window(a) /\ a.ext_low \in Int /\ a.int_low \in Int /\ a.ext_high \in Int
    BY <1>0, <1>4, GoodIsSound DEF Sound, ElementsCall, Window
  <2>2. a.data[a.int_low] \in Word
    BY <1>0, <2>1, GoodWindow, WordElem
  <2>. QED
    BY <1>1, <1>2, <1>4, <2>1, <2>2 DEF ElementsCall
<1>5. CASE ElementsResume /\ ~IterEnds
  <2>1. PICK w \in Load(a, Advance(iter, Zero).int_index) : iter' = Advance(iter, w)
    BY <1>5 DEF ElementsResume
  <2>2. w \in Word
    BY <1>0, GoodIsSound DEF Load, Sound
  <2>3. iter.index \in Int /\ iter.int_index \in Int /\ iter.limit \in Int
    BY <1>0 DEF IterType
  <2>. QED
    BY <1>1, <1>2, <1>5, <2>1, <2>2, <2>3 DEF ElementsResume, Advance
<1>. QED
  BY <1>3, <1>4, <1>5 DEF ElementsExit

LEMMA CopyIInv ==
  ASSUME IInv, (\E strange \in BOOLEAN : CopyCall(strange)) \/ CopyReturn \/ CopyEnd
  PROVE  IInv'
<1>0. Good(a) /\ CpType(cp)
  BY IInvParts
<1>1. ASSUME UNCHANGED <<a, res, iter>>, CpType(cp') PROVE IInv'
  BY <1>1, IInvParts, IInvPartsNext
<1>2. ASSUME NEW i \in Nat, i < a.ext_size PROVE CopySource(a, i) \in Word
  <2>1. i + a.int_low \in Window(a)
    BY <1>0, <1>2, GoodIsSound DEF Sound, Window
  <2>. QED
    BY <1>0, <2>1, GoodWindow, WordElem DEF CopySource
<1>3. ASSUME NEW st \in {"idle", "callee", "copied"}, NEW i \in Nat, NEW e \in Word, NEW dst,
             Formed(dst), NEW strange \in BOOLEAN, NEW wild \in BOOLEAN
      PROVE  CpType(Copying(st, i, e, dst, strange, wild))
  BY <1>3 DEF Copying, CpType
<1>4. ASSUME NEW strange \in BOOLEAN, CopyCall(strange) PROVE IInv'
  <2>1. Formed(CopyTarget(a))
    BY <1>0, CopyTargetFormed
  <2>2. a.ext_size # 0 => CopySource(a, 0) \in Word
    BY <1>0, <1>2, GoodIsSound DEF Sound
  <2>3. CpType(cp')
    BY <1>3, <1>4, <2>1, <2>2, WordElem DEF CopyCall
  <2>. QED
    BY <1>1, <1>4, <2>3 DEF CopyCall
<1>5. CASE CopyReturn
  <2> DEFINE wild == cp.wild \/ cp.i >= cp.dst.int_size
  <2>1. Formed(CopyStored(cp))
    BY <1>0, CopyStoredFormed DEF CpType
  <2>2. cp.i \in Nat /\ cp.elt \in Word /\ cp.strange \in BOOLEAN /\ wild \in BOOLEAN
    BY <1>0 DEF CpType
  <2>3. \/ /\ cp.i + 1 < a.ext_size
           /\ cp' = Copying("callee", cp.i + 1, CopySource(a, cp.i + 1), CopyStored(cp),
                            cp.strange, wild)
        \/ cp' = Copying("copied", cp.i, cp.elt, CopyStored(cp), cp.strange, wild)
    BY <1>5 DEF CopyReturn
  <2>. HIDE DEF wild
  <2>4. CpType(cp')
    <3>1. cp.i + 1 \in Nat
      BY <2>2
    <3>2. cp.i + 1 < a.ext_size => CopySource(a, cp.i + 1) \in Word
      BY <1>2, <3>1
    <3>. QED
      BY <1>3, <2>1, <2>2, <2>3, <3>1, <3>2
  <2>. QED
    BY <1>1, <1>5, <2>4 DEF CopyReturn
<1>6. CASE CopyEnd
  <2>1. Formed(Create(0))
    BY CreateGood DEF Good, Formed
  <2>2. CpType(CopyIdle)
    BY <1>3, <2>1, WordElem DEF CopyIdle
  <2>. QED
    BY <1>1, <1>6, <2>2 DEF CopyEnd
<1>. QED
  BY <1>4, <1>5, <1>6

LEMMA InitIInv == Init => IInv
<1> SUFFICES ASSUME Init PROVE IInv
  OBVIOUS
<1>1. Good(a)
  BY CreateGood DEF Init
<1>2. Formed(Create(0))
  BY CreateGood DEF Good, Formed
<1>3. IterType(iter) /\ CpType(cp) /\ res \in Outcomes
  BY <1>2, WordElem DEF Init, IterIdle, CopyIdle, Activation, Copying, IterType, CpType, Outcomes
<1>. QED
  BY <1>1, <1>3, IInvParts

LEMMA NextIInv == IInv /\ [Next]_vars => IInv'
<1> SUFFICES ASSUME IInv, [Next]_vars PROVE IInv'
  OBVIOUS
<1>1. CASE UNCHANGED vars
  BY <1>1, IInvParts, IInvPartsNext DEF vars
<1>2. CASE Defined
  BY <1>2, MakeOpIInv, BoundsOpIInv, ElementOpIInv, ElementsIInv, CopyIInv DEF Defined
<1>. QED
  BY <1>1, <1>2 DEF Next, Undefined

THEOREM Invariance == Spec => []IInv
BY InitIInv, NextIInv, PTL DEF Spec

\* Every variable keeps its type: the descriptors their fields, the stores one word per slot.
THEOREM TypeCorrect == Spec => []TypeOK
BY Invariance, PTL DEF IInv

\* check_RI, the assertion of the DEBUG_ARRAY build of array.c, never fails, for the array
\* or for the one copy is filling, whatever operations the loop bodies and t$copy call.
THEOREM RepInvariance == Spec => []RepInv
BY Invariance, PTL DEF IInv

\* No operation of array.c ever brings a cleared slot of the store into the client's view.
THEOREM WindowHoldsElements == Spec => []WindowLive
BY Invariance, PTL DEF IInv

-----------------------------------------------------------------------------
(* The slots outside the window                                            *)

\* A sound descriptor with clear slots outside its window.
Clear(lo, hi, sz, il, n, d) ==
  /\ Sound(lo, hi, sz, il, n, d)
  /\ \A i \in 0 .. (n - 1) : i \notin il .. (il + sz - 1) => d[i] = Zero

\* A good descriptor whose slack is clear.
GoodClear(r) == Good(r) /\ SlackClear(r)

LEMMA GoodIsClear ==
  ASSUME NEW r, GoodClear(r)
  PROVE  Clear(r.ext_low, r.ext_high, r.ext_size, r.int_low, r.int_size, r.data)
<1>1. Sound(r.ext_low, r.ext_high, r.ext_size, r.int_low, r.int_size, r.data)
  BY GoodIsSound DEF GoodClear
<1>2. DOMAIN r.data = 0 .. (r.int_size - 1)
  BY DEF GoodClear, Good, check_RI
<1>. QED
  BY <1>1, <1>2 DEF GoodClear, SlackClear, Window, Clear

LEMMA ClearIsGood ==
  ASSUME NEW lo, NEW hi, NEW sz, NEW il, NEW n, NEW d, Clear(lo, hi, sz, il, n, d)
  PROVE  GoodClear(Descriptor(lo, hi, sz, il, n, d))
<1>1. Good(Descriptor(lo, hi, sz, il, n, d))
  BY SoundIsGood DEF Clear
<1>2. DOMAIN d = 0 .. (n - 1)
  BY DEF Clear, Sound
<1>. QED
  BY <1>1, <1>2 DEF GoodClear, SlackClear, Window, Clear, Descriptor

LEMMA NewArrayClear ==
  ASSUME NEW low \in Int, NEW n \in Nat, NEW data \in [0 .. (n - 1) -> Word]
  PROVE  /\ (\A i \in 0 .. (n - 1) : data[i] \in Elem) => GoodClear(NewArray(low, n, n, data))
         /\ (\A i \in 0 .. (n - 1) : data[i] = Zero) => GoodClear(NewArray(low, 0, n, data))
<1>1. ASSUME \A i \in 0 .. (n - 1) : data[i] \in Elem
      PROVE  Clear(low, low + n - 1, n, 0, n, data)
  BY <1>1 DEF Clear, Sound
<1>2. ASSUME \A i \in 0 .. (n - 1) : data[i] = Zero
      PROVE  Clear(low, low + 0 - 1, 0, 0, n, data)
  BY <1>2 DEF Clear, Sound
<1>. QED
  BY <1>1, <1>2, ClearIsGood DEF NewArray

LEMMA BlankClear ==
  ASSUME NEW low \in Int, NEW n \in Nat
  PROVE  GoodClear(NewArray(low, 0, n, Blank(n)))
<1>1. Blank(n) \in [0 .. (n - 1) -> Word] /\ \A i \in 0 .. (n - 1) : Blank(n)[i] = Zero
  BY WordElem DEF Blank
<1>. QED
  BY <1>1, NewArrayClear

LEMMA FilledClear ==
  ASSUME NEW low \in Int, NEW size \in Nat, NEW elt \in Elem
  PROVE  GoodClear(Filled(low, size, elt))
<1> DEFINE d == [i \in 0 .. (size - 1) |-> elt]
<1>1. d \in [0 .. (size - 1) -> Word] /\ \A i \in 0 .. (size - 1) : d[i] \in Elem
  BY WordElem
<1>. HIDE DEF d
<1>2. GoodClear(NewArray(low, size, size, d))
  BY <1>1, NewArrayClear
<1>. QED
  BY <1>2 DEF Filled, d

LEMMA RebasedClear == ASSUME NEW r, GoodClear(r) PROVE GoodClear(Rebased(r))
<1>1. ASSUME NEW lo, NEW hi, NEW sz, NEW il, NEW n, NEW d, Clear(lo, hi, sz, il, n, d), sz = 0
      PROVE  Clear(lo, hi, sz, 0, n, d)
  BY <1>1 DEF Clear, Sound
<1>2. CASE r.ext_size = 0
  BY <1>1, <1>2, GoodIsClear, ClearIsGood DEF Rebased, Moved
<1>3. CASE r.ext_size # 0
  BY <1>3 DEF Rebased
<1>. QED
  BY <1>2, <1>3

LEMMA PutClear ==
  ASSUME NEW r, GoodClear(r), r.int_low + r.ext_size < r.int_size, NEW elt \in Elem
  PROVE  GoodClear(Put(r, elt))
<1>1. ASSUME NEW lo, NEW hi, NEW sz, NEW il, NEW n, NEW d, Clear(lo, hi, sz, il, n, d), il + sz < n
      PROVE  Clear(lo, hi + 1, sz + 1, il, n, [d EXCEPT ![il + sz] = elt])
  BY <1>1, WordElem DEF Clear, Sound
<1>. QED
  BY <1>1, GoodIsClear, ClearIsGood DEF Put

LEMMA ShiftedClear == ASSUME NEW r, GoodClear(r) PROVE GoodClear(Shifted(r))
<1>1. ASSUME NEW lo, NEW hi, NEW sz, NEW il, NEW n, NEW d, Clear(lo, hi, sz, il, n, d)
      PROVE  Clear(lo, hi, sz, 0, n, [i \in 0 .. (n - 1) |->
                 IF i < sz THEN d[i + il] ELSE IF i < sz + il THEN Zero ELSE d[i]])
  BY <1>1, WordElem DEF Clear, Sound
<1>. QED
  BY <1>1, GoodIsClear, ClearIsGood DEF Shifted, Moved

LEMMA GrownClear ==
  ASSUME NEW r, GoodClear(r), NEW n \in Nat, r.ext_size <= n
  PROVE  GoodClear(Grown(r, n))
<1>1. ASSUME NEW lo, NEW hi, NEW sz, NEW il, NEW m, NEW d, Clear(lo, hi, sz, il, m, d), sz <= n
      PROVE  Clear(lo, hi, sz, 0, n, [i \in 0 .. (n - 1) |-> IF i < sz THEN d[i + il] ELSE Zero])
  BY <1>1, WordElem DEF Clear, Sound
<1>. QED
  BY <1>1, GoodIsClear, ClearIsGood DEF Grown, Moved

LEMMA PrependedClear ==
  ASSUME NEW r, GoodClear(r), NEW elt \in Elem
  PROVE  GoodClear(Prepended(r, elt))
<1>1. ASSUME NEW lo, NEW hi, NEW sz, NEW il, NEW n, NEW d, Clear(lo, hi, sz, il, n, d)
      PROVE  Clear(lo - 1, hi, sz + 1, 0, sz + 1,
                   [i \in 0 .. sz |-> IF i = 0 THEN elt ELSE d[il + i - 1]])
  BY <1>1, WordElem DEF Clear, Sound
<1>. QED
  BY <1>1, GoodIsClear, ClearIsGood DEF Prepended

\* remh and reml clear the slot that leaves the window.
LEMMA RemovedClear ==
  ASSUME NEW r, GoodClear(r), r.ext_size # 0
  PROVE  GoodClear(RemovedHigh(r)) /\ GoodClear(RemovedLow(r))
<1>1. ASSUME NEW lo, NEW hi, NEW sz, NEW il, NEW n, NEW d, Clear(lo, hi, sz, il, n, d), sz # 0
      PROVE  Clear(lo, hi - 1, sz - 1, il, n, [d EXCEPT ![il + sz - 1] = Zero])
  BY <1>1, WordElem DEF Clear, Sound
<1>2. ASSUME NEW lo, NEW hi, NEW sz, NEW il, NEW n, NEW d, Clear(lo, hi, sz, il, n, d), sz # 0
      PROVE  Clear(lo + 1, hi, sz - 1, il + 1, n, [d EXCEPT ![il] = Zero])
  BY <1>2, WordElem DEF Clear, Sound
<1>. QED
  BY <1>1, <1>2, GoodIsClear, ClearIsGood DEF RemovedHigh, RemovedLow

\* set_low and a trim that drops nothing leave the window where it is.
LEMMA ReboundClear ==
  ASSUME NEW r, GoodClear(r), NEW low \in Int
  PROVE  GoodClear(Relowered(r, low)) /\ GoodClear(Trimmed(r, low, r.ext_size))
<1>1. ASSUME NEW lo, NEW hi, NEW sz, NEW il, NEW n, NEW d, Clear(lo, hi, sz, il, n, d)
      PROVE  Clear(low, low + sz - 1, sz, il, n, d)
  BY <1>1 DEF Clear, Sound
<1>. QED
  BY <1>1, GoodIsClear, ClearIsGood DEF Relowered, Trimmed

LEMMA StoredClear ==
  ASSUME NEW r, GoodClear(r), NEW i \in r.ext_low .. r.ext_high, NEW elt \in Elem
  PROVE  GoodClear(Stored(r, i, elt))
<1>1. ASSUME NEW lo, NEW hi, NEW sz, NEW il, NEW n, NEW d, Clear(lo, hi, sz, il, n, d),
             NEW k \in lo .. hi
      PROVE  Clear(lo, hi, sz, il, n, [d EXCEPT ![k - lo + il] = elt])
  BY <1>1, WordElem DEF Clear, Sound
<1>. QED
  BY <1>1, GoodIsClear, ClearIsGood DEF Stored, Slot

LEMMA Copy1Clear == ASSUME NEW r, GoodClear(r) PROVE GoodClear(Copy1(r))
<1>1. ASSUME NEW lo, NEW hi, NEW sz, NEW il, NEW n, NEW d, Clear(lo, hi, sz, il, n, d)
      PROVE  Clear(lo, hi, sz, 0, sz, [i \in 0 .. (sz - 1) |-> d[i + il]])
  BY <1>1, WordElem DEF Clear, Sound
<1>. QED
  BY <1>1, GoodIsClear, ClearIsGood DEF Copy1, Moved
LEMMA AddhClear ==
  ASSUME GoodClear(a), NEW e \in Elem, OpAddhInPlace(e) \/ OpAddhShift(e) \/ OpAddhGrow(e)
  PROVE  SlackClear(a')
<1> DEFINE r == Rebased(a)
           n == SizeForGrowth(r.ext_size + 1)
<1>1. GoodClear(r)
  BY RebasedClear
<1>2. Good(r) /\ r.ext_size \in Nat /\ r.int_size \in Nat /\ r.int_low \in Nat
  BY <1>1, GoodIsSound DEF GoodClear, Sound
<1>. HIDE DEF r
<1>3. n \in Nat /\ n >= r.ext_size + 1
  BY <1>2, GrowthCovers
<1>4. CASE OpAddhInPlace(e)
  <2>1. GoodClear(Put(r, e)) /\ a' = Put(r, e)
    BY <1>1, <1>2, <1>4, PutClear DEF OpAddhInPlace, Returns, r
  <2>. QED
    BY <2>1 DEF GoodClear
<1>5. CASE OpAddhShift(e)
  <2>1. n <= r.int_size
    BY <1>5 DEF OpAddhShift, r
  <2>2. Shifted(r).int_low + Shifted(r).ext_size < Shifted(r).int_size
    BY <1>2, <1>3, <2>1, MovedFields DEF Shifted
  <2>3. GoodClear(Put(Shifted(r), e))
    BY <1>1, <2>2, ShiftedClear, PutClear
  <2>4. a' = Put(Shifted(r), e)
    BY <1>5 DEF OpAddhShift, Returns, r
  <2>. QED
    BY <2>3, <2>4 DEF GoodClear
<1>6. CASE OpAddhGrow(e)
  <2>. HIDE DEF n
  <2>1. Grown(r, n).int_low + Grown(r, n).ext_size < Grown(r, n).int_size
    BY <1>2, <1>3, MovedFields DEF Grown
  <2>2. GoodClear(Grown(r, n))
    BY <1>1, <1>2, <1>3, GrownClear
  <2>3. GoodClear(Put(Grown(r, n), e))
    BY <2>1, <2>2, PutClear
  <2>4. a' = Put(Grown(r, n), e)
    BY <1>6 DEF OpAddhGrow, Returns, r, n
  <2>. QED
    BY <2>3, <2>4 DEF GoodClear
<1>. QED
  BY <1>4, <1>5, <1>6

LEMMA MakeOpClear == ASSUME GoodClear(a), MakeOp PROVE SlackClear(a')
<1>1. ASSUME NEW r, GoodClear(r), NEW name, Returns(r, name) PROVE SlackClear(a')
  BY <1>1 DEF Returns, GoodClear
<1>2. ASSUME NEW name, Signal(name) PROVE SlackClear(a')
  BY <1>2 DEF Signal, GoodClear
<1>3. ASSUME NEW low \in Index, OpCreate(low) PROVE SlackClear(a')
  BY <1>1, <1>3, BlankClear, IndexInt DEF OpCreate, Create
<1>4. ASSUME NEW low \in Index, NEW size \in Sizes, OpPredict(low, size) PROVE SlackClear(a')
  <2>1. Predicted(size) \in Nat /\ low \in Int
    BY ArrayAssumption, IndexInt DEF Predicted
  <2>. QED
    BY <1>1, <1>4, <2>1, BlankClear DEF OpPredict
<1>5. ASSUME NEW low \in Index, NEW size \in Sizes, NEW e \in Elem, OpFill(low, size, e)
      PROVE  SlackClear(a')
  <2>1. CASE size < 0
    BY <1>2, <1>5, <2>1, IndexInt DEF OpFill
  <2>2. CASE size >= 0
    <3>1. GoodClear(Filled(low, size, e))
      BY <2>2, FilledClear, IndexInt
    <3>. QED
      BY <1>1, <1>2, <1>5, <2>2, <3>1, IndexInt DEF OpFill
  <2>. QED
    BY <2>1, <2>2, IndexInt
<1>6. ASSUME NEW low \in Index, NEW n \in 0 .. MAX_ARR_SIZE, NEW q \in [0 .. (n - 1) -> Elem],
             OpCons(low, n, q)
      PROVE  SlackClear(a')
  <2>1. low \in Int /\ n \in Nat /\ q \in [0 .. (n - 1) -> Word]
    BY ArrayAssumption, IndexInt, WordElem
  <2>2. GoodClear(NewArray(low, n, n, q))
    BY <2>1, NewArrayClear
  <2>. QED
    BY <1>1, <1>6, <2>2 DEF OpCons
<1>7. ASSUME OpCopy1 PROVE SlackClear(a')
  BY <1>1, <1>7, Copy1Clear DEF OpCopy1
<1>. QED
  BY <1>3, <1>4, <1>5, <1>6, <1>7 DEF MakeOp

LEMMA BoundsOpClear ==
  ASSUME GoodClear(a), BoundsOp, ~DroppingTrim
  PROVE  SlackClear(a')
<1>1. ASSUME NEW low \in Index, OpSetLow(low) PROVE SlackClear(a')
  BY <1>1, ReboundClear, IndexInt DEF OpSetLow, Returns, GoodClear
<1>2. ASSUME NEW low \in Index, NEW size \in Sizes, OpTrim(low, size) PROVE SlackClear(a')
  <2>1. ~(size < a.ext_size)
    BY <1>2 DEF DroppingTrim
  <2>2. low \in Int /\ size \in Int /\ a.ext_size \in Int
    BY IndexInt DEF GoodClear, Good, RepType
  <2>3. a' = a \/ (a' = Trimmed(a, low, size) /\ size = a.ext_size)
    BY <1>2, <2>1, <2>2 DEF OpTrim, Signal, Returns
  <2>. QED
    BY <2>2, <2>3, ReboundClear DEF GoodClear
<1>. QED
  BY <1>1, <1>2 DEF BoundsOp

LEMMA ElementOpClear == ASSUME GoodClear(a), ElementOp PROVE SlackClear(a')
<1>1. ASSUME NEW i \in Index, NEW e \in Elem, OpStore(i, e) PROVE SlackClear(a')
  BY <1>1, StoredClear DEF OpStore, Signal, Returns, GoodClear
<1>2. ASSUME NEW e \in Elem, OpAddhInPlace(e) \/ OpAddhShift(e) \/ OpAddhGrow(e)
      PROVE  SlackClear(a')
  BY <1>2, AddhClear
<1>3. ASSUME NEW e \in Elem, OpAddl(e) PROVE SlackClear(a')
  BY <1>3, PrependedClear DEF OpAddl, Returns, GoodClear
<1>4. ASSUME OpAddFull PROVE SlackClear(a')
  BY <1>4 DEF OpAddFull, Signal, GoodClear
<1>5. ASSUME OpRemh \/ OpReml PROVE SlackClear(a')
  BY <1>5, RemovedClear DEF OpRemh, OpReml, Signal, Returns, GoodClear
<1>. QED
  BY <1>1, <1>2, <1>3, <1>4, <1>5 DEF ElementOp

\* The slots outside the window stay clear: no operation but a trim to a smaller size leaves
\* an element in the store that the client can no longer reach (addh, remh and reml clear).
THEOREM SlackStaysClear == Spec => OnlyTrimRetains
<1>1. ASSUME IInv, [Next]_vars, SlackClear(a), ~DroppingTrim PROVE SlackClear(a')
  <2>1. GoodClear(a)
    BY <1>1, IInvParts DEF GoodClear
  <2>2. CASE a' = a
    BY <1>1, <2>2
  <2>3. CASE MakeOp
    BY <2>1, <2>3, MakeOpClear
  <2>4. CASE BoundsOp
    BY <1>1, <2>1, <2>4, BoundsOpClear
  <2>5. CASE ElementOp
    BY <2>1, <2>5, ElementOpClear
  <2>. QED
    BY <1>1, <2>2, <2>3, <2>4, <2>5
       DEF Next, Defined, Undefined, ElementsCall, ElementsResume, ElementsExit, IterEnds,
           CopyCall, CopyReturn, CopyEnd, vars
<1>2. IInv /\ [Next]_vars => [SlackClear(a) /\ ~DroppingTrim => SlackClear(a')]_vars
  BY <1>1
<1>. QED
  BY <1>2, Invariance, PTL DEF Spec, OnlyTrimRetains

-----------------------------------------------------------------------------
(* elements                                                                *)

\* The slot of an index within the bounds is in the window.
LEMMA SlotInWindow ==
  ASSUME NEW r, Good(r), NEW i \in r.ext_low .. r.ext_high
  PROVE  Slot(r, i) \in Window(r) /\ Slot(r, i) \in 0 .. (r.int_size - 1)
<1>1. ASSUME NEW lo, NEW hi, NEW sz, NEW il, NEW n, NEW d, Sound(lo, hi, sz, il, n, d),
             NEW k \in lo .. hi
      PROVE  k - lo + il \in il .. (il + sz - 1) /\ k - lo + il \in 0 .. (n - 1)
  BY <1>1 DEF Sound
<1>. QED
  BY <1>1, GoodIsSound DEF Slot, Window

\* elements yields the element a client would fetch at the next index, whatever the loop body
\* has done to the array, as long as the window has not moved under the loop's slot.
THEOREM ElementsYield == Spec => ElementsYieldsFetch
<1>1. ASSUME IInv, [Next]_vars, iter' # iter, iter.status = "body", iter'.status = "body",
             Slot(a, iter.index) = iter.int_index
      PROVE  iter'.index = iter.index + 1 /\ iter'.elt = Fetch(a, iter'.index)
  <2>1. Good(a) /\ IterType(iter)
    BY <1>1, IInvParts
  <2>2. IterIdle.status = "idle"
    BY DEF IterIdle, Activation
  <2>3. ~IterEnds
    BY <1>1, <2>2 DEF IterEnds
  <2>4. ElementsResume
    BY <1>1, <2>3
       DEF Next, Defined, Undefined, vars, MakeOp, BoundsOp, ElementOp, OpCreate, OpPredict,
           OpCons, OpFill, OpCopy1, OpSetLow, OpTrim, OpStore, OpAddhInPlace, OpAddhShift,
           OpAddhGrow, OpAddl, OpAddFull, OpRemh, OpReml, Signal, Returns, ElementsCall,
           ElementsExit, CopyCall, CopyReturn, CopyEnd
  <2>5. PICK w \in Load(a, Advance(iter, Zero).int_index) :
          iter' = Advance(iter, w) /\ Advance(iter, Zero).index \in a.ext_low .. a.ext_high
    BY <2>3, <2>4 DEF ElementsResume
  <2>6. /\ iter'.index = iter.index + 1 /\ iter'.elt = w
        /\ Advance(iter, Zero).int_index = iter.int_index + 1
        /\ iter.index + 1 \in a.ext_low .. a.ext_high
    BY <2>5 DEF Advance, Activation
  <2>7. Slot(a, iter.index + 1) \in 0 .. (a.int_size - 1)
    BY <2>1, <2>6, SlotInWindow
  <2>8. Slot(a, iter.index + 1) = iter.int_index + 1
    <3>1. iter.index \in Int /\ iter.int_index \in Int
      BY <2>1 DEF IterType
    <3>2. a.ext_low \in Int /\ a.int_low \in Int
      BY <2>1, GoodIsSound DEF Sound
    <3>. QED
      BY <1>1, <3>1, <3>2 DEF Slot
  <2>9. w = a.data[iter.int_index + 1]
    BY <2>5, <2>6, <2>7, <2>8 DEF Load
  <2>. QED
    BY <2>6, <2>8, <2>9 DEF Fetch
<1>2. IInv /\ [Next]_vars =>
        [iter.status = "body" /\ iter'.status = "body" /\ Slot(a, iter.index) = iter.int_index
           => iter'.index = iter.index + 1 /\ iter'.elt = Fetch(a, iter'.index)]_<<iter>>
  BY <1>1
<1>. QED
  BY <1>2, Invariance, PTL DEF Spec, ElementsYieldsFetch
-----------------------------------------------------------------------------
(* copy                                                                    *)

\* The array copy is filling has the bounds of a, a window at the low end of a store of its
\* size, and the elements of a below slot i.
PartCopy(dst, i) ==
  /\ dst.ext_low = a.ext_low /\ dst.ext_high = a.ext_high /\ dst.ext_size = a.ext_size
  /\ dst.int_size = a.ext_size /\ dst.int_low = 0
  /\ \A k \in 0 .. (i - 1) : dst.data[k] = CopySource(a, k)

\* As long as t$copy leaves the array alone, every call of it has the element of a in the slot.
CopyOK ==
  cp.status = "callee" /\ cp.strange = FALSE =>
    /\ PartCopy(cp.dst, cp.i)
    /\ cp.i < a.ext_size /\ cp.elt = CopySource(a, cp.i)

CopyInv == IInv /\ CopyOK

\* A return of t$copy stores one element more.
LEMMA StoredPart ==
  ASSUME CopyInv, cp.status = "callee", cp.strange = FALSE
  PROVE  /\ PartCopy(CopyStored(cp), cp.i + 1)
         /\ cp.i \in Nat /\ cp.i < a.ext_size /\ a.ext_size \in Nat
<1>1. /\ PartCopy(cp.dst, cp.i) /\ cp.i < a.ext_size /\ cp.elt = CopySource(a, cp.i)
      /\ Good(a) /\ CpType(cp)
  BY IInvParts DEF CopyInv, CopyOK
<1>2. cp.i \in Nat /\ a.ext_size \in Nat
  BY <1>1, GoodIsSound DEF CpType, Sound
<1>3. cp.dst.data \in [0 .. (a.ext_size - 1) -> Word]
  BY <1>1 DEF PartCopy, CpType, Formed, RepType
<1> DEFINE d == [cp.dst.data EXCEPT ![cp.i] = cp.elt]
<1>4. CopyStored(cp) = Moved(cp.dst, a.ext_size, d)
  BY <1>1 DEF CopyStored, PartCopy
<1>5. \A k \in 0 .. (cp.i + 1 - 1) : d[k] = CopySource(a, k)
  <2> TAKE k \in 0 .. (cp.i + 1 - 1)
  <2>1. k \in 0 .. (a.ext_size - 1)
    BY <1>1, <1>2
  <2>2. CASE k = cp.i
    BY <1>1, <1>3, <2>1, <2>2
  <2>3. CASE k # cp.i
    <3>1. k \in 0 .. (cp.i - 1)
      BY <1>2, <2>3
    <3>. QED
      BY <1>1, <1>3, <2>1, <2>3, <3>1 DEF PartCopy
  <2>. QED
    BY <2>2, <2>3
<1>. HIDE DEF d
<1>6. PartCopy(Moved(cp.dst, a.ext_size, d), cp.i + 1)
  <2>1. PICK e : e = Moved(cp.dst, a.ext_size, d)
    OBVIOUS
  <2>2. /\ e.ext_low = cp.dst.ext_low /\ e.ext_high = cp.dst.ext_high
        /\ e.ext_size = cp.dst.ext_size /\ e.int_size = a.ext_size /\ e.int_low = 0 /\ e.data = d
    BY <2>1 DEF Moved, Descriptor
  <2>3. /\ cp.dst.ext_low = a.ext_low /\ cp.dst.ext_high = a.ext_high
        /\ cp.dst.ext_size = a.ext_size
    BY <1>1 DEF PartCopy
  <2>4. /\ e.ext_low = a.ext_low /\ e.ext_high = a.ext_high /\ e.ext_size = a.ext_size
        /\ e.int_size = a.ext_size /\ e.int_low = 0
    BY <2>2, <2>3, Zenon
  <2>5. PICK n : n = cp.i + 1
    OBVIOUS
  <2>6. \A k \in 0 .. (n - 1) : e.data[k] = CopySource(a, k)
    BY <1>2, <1>5, <2>2, <2>5
  <2>7. PartCopy(e, n)
    BY <2>4, <2>6 DEF PartCopy
  <2>. QED
    BY <2>1, <2>5, <2>7
<1>. QED
  BY <1>1, <1>2, <1>4, <1>6

LEMMA CopyKeeps == CopyInv /\ [Next]_vars => CopyInv'
<1> SUFFICES ASSUME CopyInv, [Next]_vars PROVE CopyInv'
  OBVIOUS
<1>1. IInv'
  BY NextIInv DEF CopyInv
<1>2. CpType(cp) /\ CpType(cp') /\ Good(a)
  BY <1>1, IInvParts, IInvPartsNext DEF CopyInv
<1>3. CASE cp' = cp /\ ~(cp.status = "callee" /\ cp.strange = FALSE)
  BY <1>1, <1>3 DEF CopyInv, CopyOK
<1>4. CASE cp' = cp /\ a' = a
  BY <1>1, <1>4 DEF CopyInv, CopyOK, PartCopy
<1>5. ASSUME NEW strange \in BOOLEAN, CopyCall(strange) PROVE CopyInv'
  <2>1. a' = a
    BY <1>5 DEF CopyCall
  <2>2. CASE cp' = Copying("copied", 0, Zero, CopyTarget(a), strange, FALSE)
    BY <1>1, <2>2 DEF CopyInv, CopyOK, Copying
  <2>3. CASE a.ext_size # 0 /\ cp' = Copying("callee", 0, CopySource(a, 0), CopyTarget(a), strange, FALSE)
    <3>1. a.ext_size \in Nat /\ 0 < a.ext_size
      BY <1>2, <2>3, GoodIsSound DEF Sound
    <3>2. cp'.dst = CopyTarget(a) /\ cp'.i = 0 /\ cp'.elt = CopySource(a, 0)
      BY <2>3 DEF Copying
    <3>3. PartCopy(CopyTarget(a), 0)
      BY DEF PartCopy, CopyTarget, Moved, Descriptor
    <3>4. PartCopy(cp.dst, cp.i)'
      BY <2>1, <3>2, <3>3 DEF PartCopy
    <3>. QED
      BY <1>1, <2>1, <3>1, <3>2, <3>4 DEF CopyInv, CopyOK
  <2>. QED
    BY <1>5, <2>2, <2>3 DEF CopyCall
<1>6. CASE CopyReturn
  <2>1. a' = a /\ cp.status = "callee"
    BY <1>6 DEF CopyReturn
  <2>2. CASE cp'.status # "callee" \/ cp'.strange # FALSE
    BY <1>1, <2>2 DEF CopyInv, CopyOK
  <2>3. CASE cp'.status = "callee" /\ cp'.strange = FALSE
    <3>1. /\ cp'.dst = CopyStored(cp) /\ cp'.i = cp.i + 1 /\ cp'.elt = CopySource(a, cp.i + 1)
          /\ cp.strange = FALSE /\ cp.i + 1 < a.ext_size
      BY <1>6, <2>3 DEF CopyReturn, Copying
    <3>2. PartCopy(CopyStored(cp), cp.i + 1)
      BY <2>1, <3>1, StoredPart
    <3>3. PartCopy(cp.dst, cp.i)'
      BY <2>1, <3>1, <3>2 DEF PartCopy
    <3>. QED
      BY <1>1, <2>1, <3>1, <3>3 DEF CopyInv, CopyOK
  <2>. QED
    BY <2>2, <2>3
<1>7. CASE CopyEnd
  BY <1>1, <1>7 DEF CopyEnd, CopyIdle, Copying, CopyInv, CopyOK
<1>8. CASE Defined
  <2>1. CASE Between /\ MakeOp
    <3>1. cp' = cp /\ cp.status = "idle"
      BY <2>1 DEF Between, MakeOp, OpCreate, OpPredict, OpFill, OpCons, OpCopy1, Signal, Returns
    <3>. QED
      BY <1>3, <3>1
  <2>2. CASE ClientRuns /\ (BoundsOp \/ ElementOp)
    <3>1. cp' = cp
      BY <2>2 DEF BoundsOp, ElementOp, OpSetLow, OpTrim, OpStore, OpAddhInPlace, OpAddhShift,
                  OpAddhGrow, OpAddl, OpAddFull, OpRemh, OpReml, Signal, Returns
    <3>2. ~(cp.status = "callee" /\ cp.strange = FALSE)
      BY <2>2 DEF ClientRuns
    <3>. QED
      BY <1>3, <3>1, <3>2
  <2>3. CASE ElementsCall \/ ElementsResume \/ ElementsExit
    BY <1>4, <2>3 DEF ElementsCall, ElementsResume, ElementsExit, IterEnds
  <2>. QED
    BY <1>5, <1>6, <1>7, <1>8, <2>1, <2>2, <2>3 DEF Defined
<1>. QED
  BY <1>4, <1>8 DEF Next, Undefined, vars

\* The invariant of a copy that runs.
THEOREM CopyAlways == Spec => []CopyInv
<1>1. Init => CopyInv
  BY InitIInv DEF Init, CopyInv, CopyOK, CopyIdle, Copying
<1>. QED
  BY <1>1, CopyKeeps, PTL DEF Spec

\* copy returns an array with the bounds and the elements of the original when t$copy leaves
\* that alone, wherever its window lies in its store.
THEOREM CopyIsFaithful == Spec => CopyFaithful
<1>1. ASSUME CopyInv, [Next]_vars, cp.status = "callee", ~cp.strange, cp'.status = "copied"
      PROVE  /\ cp'.dst.ext_low = a.ext_low
             /\ cp'.dst.ext_high = a.ext_high
             /\ \A i \in a.ext_low .. a.ext_high : Fetch(cp'.dst, i) = Fetch(a, i)
  <2>1. cp.strange = FALSE /\ Good(a)
    BY <1>1, IInvParts DEF CopyInv, CpType
  <2>2. CopyReturn
    BY <1>1
       DEF Next, Defined, Undefined, vars, MakeOp, BoundsOp, ElementOp, OpCreate, OpPredict,
           OpCons, OpFill, OpCopy1, OpSetLow, OpTrim, OpStore, OpAddhInPlace, OpAddhShift,
           OpAddhGrow, OpAddl, OpAddFull, OpRemh, OpReml, Signal, Returns, ElementsCall,
           ElementsResume, ElementsExit, IterEnds, CopyCall, CopyEnd, CopyIdle, Copying
  <2>3. cp'.dst = CopyStored(cp) /\ cp.i + 1 >= a.ext_size
    BY <1>1, <2>2 DEF CopyReturn, Copying
  <2>4. /\ PartCopy(cp'.dst, cp.i + 1) /\ cp.i \in Nat /\ a.ext_size \in Nat
        /\ cp.i < a.ext_size
    BY <1>1, <2>1, <2>3, StoredPart
  <2>5. ASSUME NEW i \in a.ext_low .. a.ext_high PROVE Fetch(cp'.dst, i) = Fetch(a, i)
    <3>1. a.ext_low \in Int /\ a.ext_high \in Int /\ a.int_low \in Nat
          /\ a.ext_size = a.ext_high - a.ext_low + 1
      BY <2>1, GoodIsSound DEF Sound
    <3>2. i - a.ext_low \in 0 .. (cp.i + 1 - 1)
      BY <2>3, <2>4, <3>1
    <3>3. cp'.dst.data[i - a.ext_low] = CopySource(a, i - a.ext_low)
      BY <2>4, <3>2 DEF PartCopy
    <3>4. Slot(cp'.dst, i) = i - a.ext_low
      BY <2>4, <3>1 DEF PartCopy, Slot
    <3>. QED
      BY <3>1, <3>3, <3>4 DEF Fetch, Slot, CopySource
  <2>. QED
    BY <2>4, <2>5 DEF PartCopy
<1>2. CopyInv /\ [Next]_vars =>
        [cp.status = "callee" /\ ~cp.strange /\ cp'.status = "copied"
           => /\ cp'.dst.ext_low = a.ext_low
              /\ cp'.dst.ext_high = a.ext_high
              /\ \A i \in a.ext_low .. a.ext_high : Fetch(cp'.dst, i) = Fetch(a, i)]_vars
  BY <1>1
<1>. QED
  BY <1>2, CopyAlways, PTL DEF Spec, CopyFaithful
=============================================================================
