--------------------------- MODULE StreamsProofs ---------------------------
(***************************************************************************)
(* The safety invariants of the streams, for every set of streams, every   *)
(* buffer size and every set of permanent channels.  The invariant has     *)
(* four parts: the script graph, the buffers with the list of open         *)
(* streams, the text in the buffers, and the call that runs.               *)
(***************************************************************************)
EXTENDS Streams, TLAPS, SequenceTheorems

GraphOK ==
  /\ scripts \in [Stream -> Seq(Stream)]
  /\ scripting \in [Stream -> BOOLEAN]
  /\ Acyclic
  /\ ScriptingCached

\* Only streams over a channel have a buffer.
StoreOK ==
  /\ kind \in [Stream -> Kinds]
  /\ bvec \in [Stream -> Bytevec \cup {NoBytevec}]
  /\ obf \in [Stream -> BOOLEAN]
  /\ opens \in Seq(Stream)
  /\ freebuf \in Bytevec \cup {NoBytevec}
  /\ BuffersDistinct
  /\ \A s \in Stream : ~HasChan(kind[s]) => bvec[s] = NoBytevec
  /\ OpensExact

\* Only files and terminals have text in a buffer.
TextOK ==
  /\ index \in [Stream -> 0 .. BvecSize]
  /\ disp \in [Stream -> 1 .. (BvecSize + 1)]
  /\ RoomToPut
  /\ \A s \in Stream : kind[s] \notin {"write", "tty"} => index[s] = 0 /\ disp[s] = 1

\* The operations _close_all is in when it uses its loop variable.
Looping == {"close_all", "close_one", "abort_one"}

\* gets is called on terminals, and the loop of _close_all starts at 1.
CallOK ==
  /\ call \in [op : Ops, st : Stream \cup {NoStream}, work : Seq(Stream), pos : Nat,
               line : BOOLEAN, tried : SUBSET Stream]
  /\ call.op \notin {"idle", "flush_all", "close_all"} => call.st \in Stream
  /\ call.op = "gets" => kind[call.st] = "tty"
  /\ call.op \in Looping => call.pos > 0
  /\ res \in [out : {"ok", "not_possible", "end_of_file", "script_failed"} \cup Failures,
              at : Stream \cup {NoStream}]

IInv == GraphOK /\ StoreOK /\ TextOK /\ CallOK

-----------------------------------------------------------------------------
(* Sequences                                                               *)

LEMMA ToSetAppend ==
  ASSUME NEW S, NEW q \in Seq(S), NEW e \in S
  PROVE  Append(q, e) \in Seq(S) /\ ToSet(Append(q, e)) = ToSet(q) \cup {e}
<1>. DEFINE r == Append(q, e)
<1>1. /\ r \in Seq(S) /\ Len(r) = Len(q) + 1
      /\ \A i \in 1 .. Len(q) : r[i] = q[i]
      /\ r[Len(q) + 1] = e
  BY AppendProperties
<1>2. DOMAIN r = 1 .. (Len(q) + 1) /\ DOMAIN q = 1 .. Len(q) /\ Len(q) \in Nat
  BY <1>1
<1>. HIDE DEF r
<1>3. ToSet(r) \subseteq ToSet(q) \cup {e}
  BY <1>1, <1>2 DEF ToSet
<1>4. ToSet(q) \cup {e} \subseteq ToSet(r)
  BY <1>1, <1>2 DEF ToSet
<1>. QED
  BY <1>1, <1>3, <1>4 DEF r

LEMMA AfterK ==
  ASSUME NEW n \in Nat, NEW k \in 1 .. n
  PROVE  /\ n - (k + 1) + 1 = n - k
         /\ (k + 1 <= n \/ n - k = 0)
         /\ \A i \in 1 .. (n - k) : (k + 1) + i - 1 = k + i
OBVIOUS

LEMMA BeforeN ==
  ASSUME NEW n \in Nat
  PROVE  \A i \in 1 .. (n - 1) : i \in 1 .. n /\ i # n
OBVIOUS

\* RemoveAt: no new elements.
LEMMA ToSetRemoveAt ==
  ASSUME NEW S, NEW q \in Seq(S), NEW k \in 1 .. Len(q)
  PROVE  RemoveAt(q, k) \in Seq(S) /\ ToSet(RemoveAt(q, k)) \subseteq ToSet(q)
<1>. DEFINE a == SubSeq(q, 1, k - 1)
            b == SubSeq(q, k + 1, Len(q))
            r == a \o b
<1>1. Len(q) \in Nat /\ k \in Nat /\ DOMAIN q = 1 .. Len(q) /\ \A i \in 1 .. Len(q) : q[i] \in S
  OBVIOUS
<1>2. a \in Seq(S) /\ Len(a) = k - 1 /\ \A i \in 1 .. (k - 1) : a[i] = q[i]
  BY <1>1, SubSeqProperties
<1>3. /\ b \in Seq(S) /\ Len(b) = Len(q) - k
      /\ \A i \in 1 .. (Len(q) - k) : b[i] = q[k + i]
  <2>. DEFINE m == k + 1
              n == Len(q)
  <2>1. m \in Int /\ n \in Int /\ \A i \in m .. n : q[i] \in S
    BY <1>1
  <2>. HIDE DEF m, n
  <2>2. /\ SubSeq(q, m, n) \in Seq(S)
        /\ Len(SubSeq(q, m, n)) = IF m <= n THEN n - m + 1 ELSE 0
        /\ \A i \in 1 .. (n - m + 1) : SubSeq(q, m, n)[i] = q[m + i - 1]
    BY <2>1, SubSeqProperties
  <2>3. /\ n - m + 1 = n - k
        /\ (m <= n \/ n - k = 0)
        /\ \A i \in 1 .. (n - k) : m + i - 1 = k + i
    BY <1>1, AfterK DEF m, n
  <2>4. b = SubSeq(q, m, n)
    BY DEF m, n
  <2>. HIDE DEF b
  <2>5. /\ b \in Seq(S) /\ Len(b) = n - k
        /\ \A i \in 1 .. (n - k) : b[i] = q[k + i]
    BY <2>2, <2>3, <2>4
  <2>. QED
    BY <2>5 DEF n
<1>. HIDE DEF a, b
<1>4. /\ r \in Seq(S) /\ Len(r) = Len(a) + Len(b)
      /\ \A i \in 1 .. Len(a) + Len(b) : r[i] = IF i <= Len(a) THEN a[i] ELSE b[i - Len(a)]
  BY <1>2, <1>3, ConcatProperties
<1>. HIDE DEF r
<1>5. DOMAIN r = 1 .. (Len(q) - 1)
  BY <1>1, <1>2, <1>3, <1>4
<1>6. ASSUME NEW i \in DOMAIN r
      PROVE  r[i] \in ToSet(q)
  <2>1. CASE i <= k - 1
    <3>1. i \in 1 .. (k - 1) /\ i \in 1 .. Len(q) /\ i \in 1 .. Len(a) + Len(b)
      BY <2>1, <1>1, <1>2, <1>3, <1>5
    <3>2. r[i] = q[i]
      BY <3>1, <2>1, <1>2, <1>4
    <3>. QED
      BY <3>1, <3>2, <1>1 DEF ToSet
  <2>2. CASE i > k - 1
    <3>1. i - (k - 1) \in 1 .. (Len(q) - k) /\ k + (i - (k - 1)) = i + 1 /\ i + 1 \in 1 .. Len(q)
      BY <2>2, <1>1, <1>5
    <3>2. i \in 1 .. Len(a) + Len(b) /\ ~ i <= Len(a) /\ i - Len(a) = i - (k - 1)
      BY <2>2, <1>1, <1>2, <1>3, <1>5
    <3>3. r[i] = b[i - (k - 1)]
      BY <3>2, <1>4
    <3>4. r[i] = q[i + 1]
      BY <3>1, <3>3, <1>3
    <3>. QED
      BY <3>1, <3>4, <1>1 DEF ToSet
  <2>. QED
    BY <2>1, <2>2, <1>1, <1>5
<1>7. ToSet(r) \subseteq ToSet(q)
  BY <1>6 DEF ToSet
<1>. QED
  BY <1>4, <1>7 DEF r, a, b, RemoveAt

Distinct(q) == \A i, j \in 1 .. Len(q) : q[i] = q[j] => i = j

\* The removal from the list of open streams: s goes and all others stay, once each.
LEMMA SwapRemovedExact ==
  ASSUME NEW S, NEW q \in Seq(S), NEW s, Distinct(q)
  PROVE  /\ SwapRemoved(q, s) \in Seq(S)
         /\ Distinct(SwapRemoved(q, s))
         /\ ToSet(SwapRemoved(q, s)) = ToSet(q) \ {s}
<1>. DEFINE n == Len(q)
<1>1. n \in Nat /\ DOMAIN q = 1 .. n /\ \A i \in 1 .. n : q[i] \in S
  OBVIOUS
<1>2. CASE s \notin ToSet(q)
  BY <1>2 DEF SwapRemoved
<1>3. CASE s \in ToSet(q)
  <2>1. PICK k \in 1 .. n : q[k] = s
    BY <1>1, <1>3 DEF ToSet
  <2>. DEFINE r == [i \in 1 .. (n - 1) |-> IF q[i] = s THEN q[n] ELSE q[i]]
  <2>2. n \in 1 .. n /\ n - 1 \in Nat
    BY <1>1, <2>1
  <2>3. \A i \in 1 .. (n - 1) : i \in 1 .. n /\ i # n
    BY <1>1, BeforeN
  <2>4. DOMAIN r = 1 .. (n - 1) /\ \A i \in 1 .. (n - 1) : r[i] \in S
    BY <1>1, <2>2, <2>3
  <2>5. r \in Seq(S) /\ Len(r) = n - 1
    <3>1. r \in [1 .. (n - 1) -> S]
      BY <2>4
    <3>. QED
      BY <3>1, <2>2, IsASeq
  <2>6. \A i \in 1 .. n : q[i] = s => i = k
    BY <2>1 DEF Distinct
  <2>7. \A i \in 1 .. (n - 1) : r[i] = IF i = k THEN q[n] ELSE q[i]
    BY <2>1, <2>3, <2>6
  <2>. HIDE DEF r, n
  <2>8. Distinct(r)
    BY <2>2, <2>3, <2>5, <2>7, <2>1 DEF Distinct, n
  <2>9. ToSet(r) \subseteq ToSet(q) \ {s}
    <3>1. ASSUME NEW i \in 1 .. (n - 1)
          PROVE  r[i] \in ToSet(q) \ {s}
      <4>1. CASE i = k
        <5>1. r[i] = q[n] /\ k # n
          BY <4>1, <2>3, <2>7
        <5>. QED
          BY <5>1, <2>2, <2>6, <1>1 DEF ToSet
      <4>2. CASE i # k
        <5>1. r[i] = q[i] /\ i \in 1 .. n
          BY <4>2, <2>3, <2>7
        <5>. QED
          BY <5>1, <4>2, <2>6, <1>1 DEF ToSet
      <4>. QED
        BY <4>1, <4>2
    <3>. QED
      BY <3>1, <2>4 DEF ToSet
  <2>10. ToSet(q) \ {s} \subseteq ToSet(r)
    <3>1. ASSUME NEW i \in 1 .. n, q[i] # s
          PROVE  \E j \in 1 .. (n - 1) : r[j] = q[i]
      <4>1. CASE i = n
        <5>1. k \in 1 .. (n - 1)
          BY <4>1, <3>1, <2>1, <1>1
        <5>. QED
          BY <5>1, <4>1, <2>7
      <4>2. CASE i # n
        <5>1. i \in 1 .. (n - 1) /\ i # k
          BY <4>2, <3>1, <2>1, <1>1
        <5>. QED
          BY <5>1, <2>7
      <4>. QED
        BY <4>1, <4>2
    <3>. QED
      BY <3>1, <2>4, <1>1 DEF ToSet
  <2>. QED
    BY <1>3, <2>5, <2>8, <2>9, <2>10 DEF SwapRemoved, r, n
<1>. QED
  BY <1>2, <1>3

-----------------------------------------------------------------------------
(* The script graph                                                        *)

LEMMA GraphSame ==
  ASSUME GraphOK, UNCHANGED graph
  PROVE  GraphOK'
BY DEF GraphOK, graph, Acyclic, ScriptingCached

\* Scripts that only go away close no cycle.
LEMMA AcyclicShrinks ==
  ASSUME Acyclic, \A s \in Stream : ToSet(scripts'[s]) \subseteq ToSet(scripts[s])
  PROVE  Acyclic'
BY SMTT(30) DEF Acyclic

\* One stream's scripts are replaced by some of them.
LEMMA GraphShrinks ==
  ASSUME GraphOK, NEW s \in Stream, NEW q \in Seq(Stream), ToSet(q) \subseteq ToSet(scripts[s]),
         scripts' = [scripts EXCEPT ![s] = q],
         scripting' = [scripting EXCEPT ![s] = (q # <<>>)]
  PROVE  GraphOK'
<1>1. \A u \in Stream : ToSet(scripts'[u]) \subseteq ToSet(scripts[u])
  BY DEF GraphOK
<1>2. Acyclic'
  BY <1>1, AcyclicShrinks DEF GraphOK
<1>3. ScriptingCached'
  BY DEF GraphOK, ScriptingCached
<1>. QED
  BY <1>2, <1>3 DEF GraphOK

LEMMA ToSetEmpty == ToSet(<<>>) = {}
BY DEF ToSet

LEMMA GraphCleared ==
  ASSUME GraphOK, NEW s \in Stream,
         scripts' = [scripts EXCEPT ![s] = <<>>],
         scripting' = [scripting EXCEPT ![s] = FALSE]
  PROVE  GraphOK'
<1>1. <<>> \in Seq(Stream) /\ ToSet(<<>>) \subseteq ToSet(scripts[s])
  BY ToSetEmpty
<1>2. (<<>> # <<>>) = FALSE
  OBVIOUS
<1>. QED
  BY <1>1, <1>2, GraphShrinks

\* The second loop of _close_all.
LEMMA GraphAllCleared ==
  ASSUME GraphOK,
         scripts' = [s \in Stream |-> IF s \in ToSet(opens) THEN <<>> ELSE scripts[s]],
         scripting' = [s \in Stream |-> scripting[s] /\ s \notin ToSet(opens)]
  PROVE  GraphOK'
<1>1. scripts' \in [Stream -> Seq(Stream)] /\ scripting' \in [Stream -> BOOLEAN]
  BY DEF GraphOK
<1>2. \A s \in Stream : ToSet(scripts'[s]) \subseteq ToSet(scripts[s])
  BY ToSetEmpty
<1>3. Acyclic'
  BY <1>2, AcyclicShrinks DEF GraphOK
<1>4. ScriptingCached'
  BY DEF GraphOK, ScriptingCached
<1>. QED
  BY <1>1, <1>3, <1>4 DEF GraphOK

\* add_script: were there a cycle through the new edge, s would be reached from t.
LEMMA AcyclicGrows ==
  ASSUME Acyclic, scripts \in [Stream -> Seq(Stream)], NEW s \in Stream, NEW t \in Stream,
         s \notin Reach(t), scripts' = [scripts EXCEPT ![s] = Append(@, t)]
  PROVE  Acyclic'
<1>1. PICK T \in SUBSET Stream :
        t \in T /\ s \notin T /\ \A u \in T : ToSet(scripts[u]) \subseteq T
  BY DEF Reach, ReachBy
<1>2. /\ \A u \in Stream : u # s => scripts'[u] = scripts[u]
      /\ ToSet(scripts'[s]) = ToSet(scripts[s]) \cup {t}
  BY ToSetAppend
<1>3. SUFFICES ASSUME NEW S \in SUBSET Stream, S # {}
               PROVE  \E u \in S : ToSet(scripts'[u]) \cap S = {}
  BY DEF Acyclic
<1>4. CASE S \cap T = {}
  <2>1. PICK u \in S : ToSet(scripts[u]) \cap S = {}
    BY <1>3 DEF Acyclic
  <2>2. t \notin S
    BY <1>1, <1>4
  <2>3. ToSet(scripts'[u]) \subseteq ToSet(scripts[u]) \cup {t}
    BY <1>2
  <2>4. ToSet(scripts'[u]) \cap S = {}
    BY <2>1, <2>2, <2>3
  <2>. QED
    BY <2>4
<1>5. CASE S \cap T # {}
  <2>1. PICK u \in S \cap T : ToSet(scripts[u]) \cap (S \cap T) = {}
    BY <1>5 DEF Acyclic
  <2>2. u # s /\ ToSet(scripts[u]) \subseteq T
    BY <1>1
  <2>3. scripts'[u] = scripts[u]
    BY <1>2, <2>2
  <2>4. ToSet(scripts'[u]) \cap S = {}
    BY <2>1, <2>2, <2>3
  <2>. QED
    BY <2>4
<1>. QED
  BY <1>4, <1>5

LEMMA GraphGrows ==
  ASSUME GraphOK, NEW s \in Stream, NEW t \in Stream, s \notin Reach(t),
         scripts' = [scripts EXCEPT ![s] = Append(@, t)],
         scripting' = [scripting EXCEPT ![s] = TRUE]
  PROVE  GraphOK'
<1>1. Acyclic'
  BY AcyclicGrows DEF GraphOK
<1>2. Append(scripts[s], t) \in Seq(Stream) /\ Append(scripts[s], t) # <<>>
  BY AppendProperties DEF GraphOK
<1>3. ScriptingCached'
  BY <1>2 DEF GraphOK, ScriptingCached
<1>. QED
  BY <1>1, <1>2, <1>3 DEF GraphOK

-----------------------------------------------------------------------------
(* Buffers and the list of open streams                                    *)

LEMMA StoreSame ==
  ASSUME StoreOK, UNCHANGED <<kind, bvec, opens, freebuf>>, obf' \in [Stream -> BOOLEAN]
  PROVE  StoreOK'
BY DEF StoreOK, BuffersDistinct, OpensExact

\* A stream is made: its buffer is the free one or a new one.
LEMMA StoreMade ==
  ASSUME StoreOK, NEW s \in Stream, NEW k \in AllModes, NEW b, NEW f, NEW buffered \in BOOLEAN,
         kind[s] = "absent", Made(s, k, b, f, buffered),
         IF HasChan(k) THEN /\ b \in Bytevec
                            /\ \A t \in Stream : bvec[t] # b
                            /\ (b = freebuf /\ f = NoBytevec) \/ (b # freebuf /\ f = freebuf)
         ELSE b = NoBytevec /\ f = freebuf
  PROVE  StoreOK'
<1>. USE StreamAssumption
<1>1. /\ kind' = [kind EXCEPT ![s] = k] /\ bvec' = [bvec EXCEPT ![s] = b]
      /\ freebuf' = f /\ obf' = [obf EXCEPT ![s] = buffered]
      /\ opens' = IF Listed(k) THEN Append(opens, s) ELSE opens
  BY DEF Made
<1>2. AllModes \subseteq Kinds
  BY DEF Kinds
<1>3. /\ kind' \in [Stream -> Kinds]
      /\ bvec' \in [Stream -> Bytevec \cup {NoBytevec}]
      /\ obf' \in [Stream -> BOOLEAN]
      /\ freebuf' \in Bytevec \cup {NoBytevec}
  BY <1>1, <1>2 DEF StoreOK
<1>4. \A u \in Stream : ~HasChan(kind'[u]) => bvec'[u] = NoBytevec
  BY <1>1 DEF StoreOK
<1>5. BuffersDistinct'
  BY <1>1 DEF StoreOK, BuffersDistinct
<1>6. ~Listed(kind[s])
  BY DEF Listed, HasChan
<1>7. \A u \in Stream : Listed(kind'[u]) <=> IF u = s THEN Listed(k) ELSE Listed(kind[u])
  BY <1>1 DEF StoreOK
<1>8. s \notin ToSet(opens)
  BY <1>6 DEF StoreOK, OpensExact
<1>9. opens' \in Seq(Stream) /\ OpensExact'
  <2>1. CASE Listed(k)
    <3>1. /\ opens' \in Seq(Stream) /\ Len(opens') = Len(opens) + 1
          /\ \A i \in 1 .. Len(opens) : opens'[i] = opens[i]
          /\ opens'[Len(opens) + 1] = s
      BY <1>1, <2>1, AppendProperties DEF StoreOK
    <3>2. ToSet(opens') = ToSet(opens) \cup {s}
      BY <1>1, <2>1, ToSetAppend DEF StoreOK
    <3>3. ToSet(opens') = {u \in Stream : Listed(kind'[u])}
      BY <1>7, <2>1, <3>2 DEF StoreOK, OpensExact
    <3>4. Len(opens) \in Nat /\ \A i \in 1 .. Len(opens) : opens[i] # s
      BY <1>8 DEF StoreOK, ToSet
    <3>5. \A i, j \in 1 .. Len(opens') : opens'[i] = opens'[j] => i = j
      BY <3>1, <3>4 DEF StoreOK, OpensExact
    <3>. QED
      BY <3>1, <3>3, <3>5 DEF OpensExact
  <2>2. CASE ~Listed(k)
    <3>1. opens' = opens
      BY <1>1, <2>2
    <3>2. {u \in Stream : Listed(kind'[u])} = {u \in Stream : Listed(kind[u])}
      BY <1>6, <1>7, <2>2
    <3>. QED
      BY <3>1, <3>2 DEF StoreOK, OpensExact
  <2>. QED
    BY <2>1, <2>2
<1>. QED
  BY <1>3, <1>4, <1>5, <1>9 DEF StoreOK

\* A stream is closed: its buffer becomes the free one.
LEMMA StoreGone ==
  ASSUME StoreOK, NEW s \in Stream, Gone(s)
  PROVE  StoreOK'
<1>. USE StreamAssumption
<1>1. /\ kind' = [kind EXCEPT ![s] = "closed"] /\ bvec' = [bvec EXCEPT ![s] = NoBytevec]
      /\ freebuf' = IF HasChan(kind[s]) THEN bvec[s] ELSE freebuf
      /\ obf' = [obf EXCEPT ![s] = TRUE] /\ opens' = SwapRemoved(opens, s)
  BY DEF Gone
<1>2. "closed" \in Kinds /\ ~HasChan("closed") /\ ~Listed("closed")
  BY DEF Kinds, HasChan, Listed
<1>3. /\ kind' \in [Stream -> Kinds]
      /\ bvec' \in [Stream -> Bytevec \cup {NoBytevec}]
      /\ obf' \in [Stream -> BOOLEAN]
      /\ freebuf' \in Bytevec \cup {NoBytevec}
  BY <1>1, <1>2 DEF StoreOK
<1>4. \A u \in Stream : ~HasChan(kind'[u]) => bvec'[u] = NoBytevec
  BY <1>1 DEF StoreOK
<1>5. BuffersDistinct'
  BY <1>1, <1>2 DEF StoreOK, BuffersDistinct
<1>6. \A u \in Stream : Listed(kind'[u]) <=> Listed(kind[u]) /\ u # s
  BY <1>1, <1>2 DEF StoreOK
<1>7. Distinct(opens) /\ ToSet(opens) = {u \in Stream : Listed(kind[u])}
  BY DEF StoreOK, OpensExact, Distinct
<1>8. opens' \in Seq(Stream) /\ Distinct(opens') /\ ToSet(opens') = ToSet(opens) \ {s}
  BY <1>1, <1>7, SwapRemovedExact DEF StoreOK
<1>9. ToSet(opens') = {u \in Stream : Listed(kind'[u])}
  BY <1>6, <1>7, <1>8
<1>10. OpensExact'
  BY <1>8, <1>9 DEF OpensExact, Distinct
<1>. QED
  BY <1>3, <1>4, <1>5, <1>8, <1>10 DEF StoreOK

-----------------------------------------------------------------------------
(* The text in the buffers                                                 *)

\* What the outcome of writing to a stream of kind k leaves in its buffer.
Fits(k, i, d) ==
  /\ i \in 0 .. BvecSize /\ d \in 1 .. (BvecSize + 1)
  /\ k = "write" => d = 1 /\ i < BvecSize
  /\ k = "tty" => d <= i + 1 /\ (i = BvecSize => d > BvecSize)
  /\ k \notin {"write", "tty"} => i = 0 /\ d = 1

LEMMA TextFits ==
  ASSUME TextOK, NEW s \in Stream
  PROVE  Fits(kind[s], index[s], disp[s])
BY DEF TextOK, RoomToPut, Fits

LEMMA FitsText ==
  ASSUME index \in [Stream -> 0 .. BvecSize], disp \in [Stream -> 1 .. (BvecSize + 1)],
         \A s \in Stream : Fits(kind[s], index[s], disp[s])
  PROVE  TextOK
BY DEF TextOK, RoomToPut, Fits

LEMMA TextSame ==
  ASSUME TextOK, UNCHANGED <<kind, index, disp>>
  PROVE  TextOK'
BY DEF TextOK, RoomToPut

LEMMA FlushFits ==
  ASSUME TextOK, NEW s \in Stream, NEW o \in FlushOutcomes(s)
  PROVE  Fits(kind[s], o.index, o.disp)
BY TextFits, StreamAssumption DEF FlushOutcomes, Outcome, Fits

LEMMA TtyPutFits ==
  ASSUME TextOK, NEW s \in Stream, NEW line \in BOOLEAN, kind[s] = "tty",
         NEW d, Fits("tty", index[s], d), NEW o \in TtyPut(s, line, d)
  PROVE  Fits("tty", o.index, o.disp)
<1>. DEFINE i == PutIndex(s, line)
            e == IF Written(s, line) THEN 1 ELSE d
<1>. USE StreamAssumption
<1>1. CASE d > BvecSize
  <2>1. o.index = index[s] /\ o.disp = d
    BY <1>1 DEF TtyPut, Outcome
  <2>. QED
    BY <2>1
<1>2. CASE ~ d > BvecSize
  <2>1. Fits("tty", i, e) /\ Fits("tty", i, i + 1)
    BY <1>2 DEF Fits, PutIndex, Written
  <2>2. \/ o.index = i /\ (o.disp = e \/ o.disp = i + 1)
        \/ o.index = index[s] /\ o.disp = d
    BY <1>2 DEF TtyPut, Outcome
  <2>. QED
    BY <2>1, <2>2
<1>. QED
  BY <1>1, <1>2

LEMMA PutFits ==
  ASSUME TextOK, NEW s \in Stream, NEW line \in BOOLEAN, NEW o \in PutOutcomes(s, line)
  PROVE  Fits(kind[s], o.index, o.disp)
<1>. USE StreamAssumption
<1>1. Fits(kind[s], index[s], disp[s])
  BY TextFits
<1>2. CASE kind[s] = "write"
  <2>. DEFINE i == PutIndex(s, line)
  <2>1. Fits("write", i, 1) /\ Fits("write", 0, 1)
    BY <1>1, <1>2 DEF Fits, PutIndex, Written
  <2>2. \/ o.index \in {0, i} /\ o.disp = 1
        \/ o.index = index[s] /\ o.disp = disp[s]
    BY <1>2 DEF PutOutcomes, Outcome
  <2>. QED
    BY <1>1, <1>2, <2>1, <2>2
<1>3. CASE kind[s] = "tty"
  <2>1. Fits("tty", index[s], disp[s]) /\ Fits("tty", index[s], index[s] + 1)
    BY <1>1, <1>3 DEF Fits
  <2>2. \/ o \in TtyPut(s, line, disp[s])
        \/ o \in TtyPut(s, line, index[s] + 1)
        \/ o.index = index[s] /\ o.disp = disp[s]
    BY <1>3 DEF PutOutcomes, TtyOutcomes, Outcome
  <2>. QED
    BY <1>3, <2>1, <2>2, TtyPutFits
<1>4. CASE kind[s] \notin {"write", "tty"}
  <2>1. o.index = index[s] /\ o.disp = disp[s]
    BY <1>4 DEF PutOutcomes, Outcome
  <2>. QED
    BY <1>1, <2>1
<1>. QED
  BY <1>2, <1>3, <1>4

LEMMA EchoFits ==
  ASSUME TextOK, NEW s \in Stream, NEW line \in BOOLEAN, kind[s] = "tty"
  PROVE  Fits(kind[s], TtyPut1(s, line).index, TtyPut1(s, line).disp)
BY TextFits, StreamAssumption DEF TtyPut1, Outcome, Fits

LEMMA TextTook ==
  ASSUME TextOK, NEW s \in Stream, NEW o, Took(s, o), Fits(kind[s], o.index, o.disp)
  PROVE  TextOK'
<1>1. /\ index' = [index EXCEPT ![s] = o.index] /\ disp' = [disp EXCEPT ![s] = o.disp]
      /\ kind' = kind
  BY DEF Took, store
<1>. QED
  BY <1>1 DEF TextOK, RoomToPut, Fits

LEMMA TextEmptied ==
  ASSUME TextOK, NEW s \in Stream, kind \in [Stream -> Kinds],
         index' = [index EXCEPT ![s] = 0], disp' = [disp EXCEPT ![s] = 1],
         \/ kind' = kind
         \/ kind' = [kind EXCEPT ![s] = "closed"]
  PROVE  TextOK'
BY StreamAssumption DEF TextOK, RoomToPut

LEMMA TextMade ==
  ASSUME TextOK, NEW s \in Stream, NEW k, kind \in [Stream -> Kinds], kind[s] = "absent",
         kind' = [kind EXCEPT ![s] = k], UNCHANGED <<index, disp>>
  PROVE  TextOK'
BY StreamAssumption DEF TextOK, RoomToPut

-----------------------------------------------------------------------------
(* The call that runs                                                      *)

CallType ==
  [op : Ops, st : Stream \cup {NoStream}, work : Seq(Stream), pos : Nat, line : BOOLEAN,
   tried : SUBSET Stream]

ResType == [out : {"ok", "not_possible", "end_of_file", "script_failed"} \cup Failures,
            at : Stream \cup {NoStream}]

LEMMA CallStays ==
  ASSUME CallOK, UNCHANGED <<call, res>>, call.op = "gets" => kind' = kind
  PROVE  CallOK'
BY DEF CallOK

LEMMA CallReturns ==
  ASSUME NEW out \in {"ok", "not_possible", "end_of_file"} \cup Failures,
         NEW s \in Stream \cup {NoStream}, Returns(out, s)
  PROVE  CallOK'
BY DEF CallOK, Returns, Idle, Result, Ops, Looping

\* A call that goes on: what may change in its record.
LEMMA CallGoes ==
  ASSUME CallOK, call' \in CallType, UNCHANGED res,
         call'.op \notin {"idle", "flush_all", "close_all"} => call'.st \in Stream,
         call'.op = "gets" => kind'[call'.st] = "tty",
         call'.op \in Looping => call'.pos > 0
  PROVE  CallOK'
BY DEF CallOK, CallType

LEMMA CallCalls ==
  ASSUME CallOK, NEW op \in Ops \ ({"gets"} \cup Looping), NEW s \in Stream, NEW line \in BOOLEAN,
         Calls(op, s, line)
  PROVE  CallOK'
<1>1. call' = [op |-> op, st |-> s, work |-> <<s>>, pos |-> 0, line |-> line, tried |-> {}]
      /\ res' = res
  BY DEF Calls, Idle
<1>2. call' \in CallType /\ call'.st = s /\ call'.op = op
  BY <1>1 DEF CallType
<1>. QED
  BY <1>1, <1>2, CallGoes

\* The parts of the state a step leaves alone.
LEMMA RestSame ==
  ASSUME IInv, UNCHANGED <<store, graph, index, disp>>
  PROVE  GraphOK' /\ StoreOK' /\ TextOK'
BY GraphSame, StoreSame, TextSame DEF IInv, store, StoreOK

\* A write to one stream.
LEMMA RestTook ==
  ASSUME IInv, NEW s \in Stream, NEW o, Took(s, o), Fits(kind[s], o.index, o.disp)
  PROVE  GraphOK' /\ StoreOK' /\ TextOK'
<1>1. UNCHANGED store /\ UNCHANGED graph
  BY DEF Took
<1>. QED
  BY <1>1, GraphSame, StoreSame, TextTook DEF IInv, store, StoreOK

\* A stream that goes.
LEMMA RestGone ==
  ASSUME IInv, NEW s \in Stream, Gone(s)
  PROVE  GraphOK' /\ StoreOK' /\ TextOK'
<1>1. GraphOK'
  BY GraphCleared DEF IInv, Gone
<1>2. StoreOK'
  BY StoreGone DEF IInv
<1>3. TextOK'
  BY TextEmptied DEF IInv, Gone, StoreOK
<1>. QED
  BY <1>1, <1>2, <1>3

LEMMA RestAborted ==
  ASSUME IInv, NEW s \in Stream, Aborted(s)
  PROVE  GraphOK' /\ StoreOK' /\ TextOK'
BY RestGone, RestSame DEF Aborted, Stays

-----------------------------------------------------------------------------
(* The client's actions                                                    *)

LEMMA MadeKeeps ==
  ASSUME IInv, call.op = "idle", NEW s \in Stream, NEW k \in AllModes, NEW b, NEW f,
         NEW buffered \in BOOLEAN,
         kind[s] = "absent", Made(s, k, b, f, buffered),
         IF HasChan(k) THEN /\ b \in Bytevec
                            /\ \A t \in Stream : bvec[t] # b
                            /\ (b = freebuf /\ f = NoBytevec) \/ (b # freebuf /\ f = freebuf)
         ELSE b = NoBytevec /\ f = freebuf
  PROVE  IInv'
<1>1. GraphOK' /\ CallOK'
  BY GraphSame, CallStays DEF IInv, Made
<1>2. StoreOK'
  BY StoreMade DEF IInv
<1>3. TextOK'
  BY TextMade DEF IInv, Made, StoreOK
<1>. QED
  BY <1>1, <1>2, <1>3 DEF IInv

LEMMA FreshIsFree ==
  ASSUME Bytevec \ InUse # {}
  PROVE  FreshBytevec \in Bytevec /\ FreshBytevec # freebuf
         /\ \A t \in Stream : bvec[t] # FreshBytevec
BY DEF FreshBytevec, InUse

LEMMA OpenKeeps ==
  ASSUME IInv, call.op = "idle", NEW s \in Stream, NEW k \in Mode, Open(s, k)
  PROVE  IInv'
<1>1. k \in AllModes /\ kind[s] = "absent" /\ HasChan(k) /\ Bytevec \ InUse # {}
  BY StreamAssumption DEF Open
<1>2. CASE freebuf # NoBytevec
  <2>1. freebuf \in Bytevec /\ \A t \in Stream : bvec[t] # freebuf
    BY <1>2 DEF IInv, StoreOK, BuffersDistinct
  <2>2. Made(s, k, freebuf, NoBytevec, TRUE)
    BY <1>2 DEF Open
  <2>. QED
    BY <1>1, <2>1, <2>2, MadeKeeps
<1>3. CASE freebuf = NoBytevec
  <2>1. Made(s, k, FreshBytevec, freebuf, TRUE)
    BY <1>3 DEF Open
  <2>. QED
    BY <1>1, <2>1, FreshIsFree, MadeKeeps
<1>. QED
  BY <1>2, <1>3

LEMMA OpenPermKeeps ==
  ASSUME IInv, call.op = "idle", NEW s \in Stream, NEW k \in Mode, NEW buffered \in BOOLEAN,
         OpenPerm(s, k, buffered)
  PROVE  IInv'
<1>1. /\ k \in AllModes /\ kind[s] = "absent" /\ HasChan(k) /\ Bytevec \ InUse # {}
      /\ Made(s, k, FreshBytevec, freebuf, buffered)
  BY StreamAssumption DEF OpenPerm
<1>. QED
  BY <1>1, FreshIsFree, MadeKeeps

LEMMA OpenPlainKeeps ==
  ASSUME IInv, call.op = "idle", NEW s \in Stream, NEW k \in Mode, OpenPlain(s, k)
  PROVE  IInv'
<1>1. /\ k \in AllModes /\ kind[s] = "absent" /\ ~HasChan(k)
      /\ Made(s, k, NoBytevec, freebuf, TRUE)
  BY StreamAssumption DEF OpenPlain
<1>. QED
  BY <1>1, MadeKeeps

\* The script operations change the graph only.
LEMMA ScriptsKeep ==
  ASSUME IInv, NEW s \in Stream, NEW t \in Stream,
         AddScript(s, t) \/ RemScript(s, t) \/ Unscript(s)
  PROVE  IInv'
<1>1. CASE AddScript(s, t)
  <2>1. CASE /\ ScriptAllowed(s, t)
             /\ scripts' = [scripts EXCEPT ![s] = Append(@, t)]
             /\ scripting' = [scripting EXCEPT ![s] = TRUE]
             /\ UNCHANGED <<store, index, disp, call, res>>
    <3>1. GraphOK'
      BY <2>1, GraphGrows DEF IInv, ScriptAllowed
    <3>2. StoreOK' /\ TextOK' /\ CallOK'
      BY <2>1, StoreSame, TextSame, CallStays DEF IInv, store, StoreOK
    <3>. QED
      BY <3>1, <3>2 DEF IInv
  <2>2. CASE /\ res' = Result("script_failed", s)
             /\ UNCHANGED <<store, graph, index, disp, call>>
    <3>1. CallOK'
      BY <2>2 DEF IInv, CallOK, Result, store
    <3>. QED
      BY <2>2, <3>1, RestSame DEF IInv
  <2>. QED
    BY <1>1, <2>1, <2>2 DEF AddScript
<1>2. CASE RemScript(s, t)
  <2>1. PICK i \in 1 .. Len(scripts[s]) :
          /\ scripts' = [scripts EXCEPT ![s] = RemoveAt(scripts[s], i)]
          /\ scripting' = [scripting EXCEPT ![s] = (RemoveAt(scripts[s], i) # <<>>)]
          /\ UNCHANGED <<store, index, disp, call, res>>
    BY <1>2 DEF RemScript, ScriptingLeft
  <2>2. scripts[s] \in Seq(Stream)
    BY DEF IInv, GraphOK
  <2>3. /\ RemoveAt(scripts[s], i) \in Seq(Stream)
        /\ ToSet(RemoveAt(scripts[s], i)) \subseteq ToSet(scripts[s])
    BY <2>2, ToSetRemoveAt
  <2>4. GraphOK'
    BY <2>1, <2>3, GraphShrinks DEF IInv
  <2>5. StoreOK' /\ TextOK' /\ CallOK'
    BY <2>1, StoreSame, TextSame, CallStays DEF IInv, store, StoreOK
  <2>. QED
    BY <2>4, <2>5 DEF IInv
<1>3. CASE Unscript(s)
  <2>1. GraphOK'
    BY <1>3, GraphCleared DEF IInv, Unscript
  <2>2. StoreOK' /\ TextOK' /\ CallOK'
    BY <1>3, StoreSame, TextSame, CallStays DEF IInv, Unscript, store, StoreOK
  <2>. QED
    BY <2>1, <2>2 DEF IInv
<1>. QED
  BY <1>1, <1>2, <1>3

\* The calls that take more steps only start here.
LEMMA CallsKeep ==
  ASSUME IInv, NEW s \in Stream, NEW op \in Ops \ ({"gets"} \cup Looping), NEW line \in BOOLEAN,
         Calls(op, s, line)
  PROVE  IInv'
<1>1. UNCHANGED <<store, graph, index, disp>>
  BY DEF Calls
<1>. QED
  BY <1>1, RestSame, CallCalls DEF IInv

LEMMA GetsKeeps ==
  ASSUME IInv, NEW s \in Stream, NEW line \in BOOLEAN, Getc(s, line) \/ Gets(s, line)
  PROVE  IInv'
<1>1. CASE Calls("getc", s, line)
  BY <1>1, CallsKeep DEF Ops, Looping
<1>2. CASE /\ call' = [Idle EXCEPT !.op = "getc", !.st = s, !.line = line]
           /\ UNCHANGED <<store, graph, index, disp, res>>
  <2>1. call' = [op |-> "getc", st |-> s, work |-> <<>>, pos |-> 0, line |-> line, tried |-> {}]
    BY <1>2 DEF Idle
  <2>2. call' \in CallType /\ call'.st = s /\ call'.op = "getc"
    BY <2>1 DEF CallType, Ops
  <2>3. CallOK'
    BY <1>2, <2>2, CallGoes DEF IInv, Looping
  <2>. QED
    BY <1>2, <2>3, RestSame DEF IInv
<1>3. CASE Gets(s, line)
  <2>1. call' = [op |-> "gets", st |-> s, work |-> <<s>>, pos |-> 0, line |-> line, tried |-> {}]
    BY <1>3 DEF Gets, Calls, Idle
  <2>2. call' \in CallType /\ call'.st = s /\ call'.op = "gets"
    BY <2>1 DEF CallType, Ops
  <2>3. UNCHANGED <<store, graph, index, disp>> /\ res' = res /\ kind'[s] = "tty"
    BY <1>3 DEF Gets, Calls, store
  <2>4. CallOK'
    BY <2>2, <2>3, CallGoes DEF IInv, Looping
  <2>. QED
    BY <2>3, <2>4, RestSame DEF IInv
<1>. QED
  BY <1>1, <1>2, <1>3 DEF Getc

LEMMA OthersKeep ==
  ASSUME IInv, call.op = "idle", NEW s \in Stream, Abort(s) \/ Reset(s) \/ Rebuffer(s)
  PROVE  IInv'
<1>1. CallOK'
  <2>1. CASE UNCHANGED <<call, res>>
    BY <2>1, CallStays DEF IInv
  <2>2. CASE UNCHANGED <<kind, call>> /\ res' = Result("not_possible", s)
    BY <2>2 DEF IInv, CallOK, Result
  <2>. QED
    BY <2>1, <2>2 DEF Abort, Reset, Rebuffer, store
<1>2. CASE Abort(s)
  BY <1>1, <1>2, RestAborted DEF IInv, Abort
<1>3. CASE Reset(s)
  <2>1. GraphOK' /\ StoreOK'
    BY <1>3, GraphSame, StoreSame DEF IInv, Reset, store, StoreOK
  <2>2. CASE UNCHANGED <<kind, index, disp>>
    BY <1>1, <2>1, <2>2, TextSame DEF IInv
  <2>3. CASE ~UNCHANGED <<kind, index, disp>>
    <3>1. TextOK'
      BY <1>3, <2>3, TextEmptied DEF IInv, Reset, store, StoreOK
    <3>. QED
      BY <1>1, <2>1, <3>1 DEF IInv
  <2>. QED
    BY <2>2, <2>3
<1>4. CASE Rebuffer(s)
  <2>1. obf' \in [Stream -> BOOLEAN]
    BY <1>4 DEF Rebuffer, IInv, StoreOK
  <2>2. GraphOK' /\ StoreOK' /\ TextOK'
    BY <1>4, <2>1, GraphSame, StoreSame, TextSame DEF IInv, Rebuffer
  <2>. QED
    BY <1>1, <2>2 DEF IInv
<1>. QED
  BY <1>2, <1>3, <1>4

LEMMA ClientKeeps ==
  ASSUME IInv, call.op = "idle", NEW s \in Stream, Client(s)
  PROVE  IInv'
<1>1. CASE \E k \in Mode : Open(s, k) \/ OpenPlain(s, k)
  BY <1>1, OpenKeeps, OpenPlainKeeps
<1>2. CASE \E k \in Mode, buffered \in BOOLEAN : OpenPerm(s, k, buffered)
  BY <1>2, OpenPermKeeps
<1>3. CASE \E t \in Stream : AddScript(s, t) \/ RemScript(s, t) \/ Unscript(s)
  BY <1>3, ScriptsKeep
<1>4. CASE \E line \in BOOLEAN : Puts(s, line)
  BY <1>4, CallsKeep DEF Puts, Ops, Looping
<1>5. CASE \E line \in BOOLEAN : Getc(s, line) \/ Gets(s, line)
  BY <1>5, GetsKeeps
<1>6. CASE Flush(s) \/ Close(s) \/ Unbuffer(s)
  BY <1>6, CallsKeep DEF Flush, Close, Unbuffer, Ops, Looping
<1>7. CASE Abort(s) \/ Reset(s) \/ Rebuffer(s)
  BY <1>7, OthersKeep
<1>. QED
  BY <1>1, <1>2, <1>3, <1>4, <1>5, <1>6, <1>7 DEF Client

-----------------------------------------------------------------------------
(* The steps of a running call                                             *)

LEMMA FlushStepKeeps ==
  ASSUME IInv, FlushStep
  PROVE  IInv'
<1>. DEFINE h == Head(call.work)
<1>1. /\ call.op \in {"flush", "close", "unbuffer", "getc", "gets", "flush_all", "close_one"}
      /\ call.work \in Seq(Stream) /\ call.work # <<>> /\ call \in CallType
  BY DEF FlushStep, IInv, CallOK, CallType
<1>2. h \in Stream /\ Tail(call.work) \in Seq(Stream)
  BY <1>1, HeadTailProperties
<1>3. PICK o \in FlushOutcomes(h) :
        /\ Took(h, o)
        /\ \/ /\ o.out = "ok"
              /\ call' = [call EXCEPT !.work = Followed(h) \o Tail(@)]
              /\ UNCHANGED res
           \/ o.out # "ok" /\ FlushFails(o.out, h)
  BY DEF FlushStep
<1>. HIDE DEF h
<1>4. GraphOK' /\ StoreOK' /\ TextOK'
  BY <1>2, <1>3, FlushFits, RestTook DEF IInv
<1>5. kind' = kind
  BY <1>3 DEF Took, store
<1>6. CASE o.out = "ok"
  <2>1. Followed(h) \in Seq(Stream)
    BY <1>2 DEF Followed, IInv, GraphOK
  <2>2. Followed(h) \o Tail(call.work) \in Seq(Stream)
    BY <1>2, <2>1, ConcatProperties
  <2>3. call' = [call EXCEPT !.work = Followed(h) \o Tail(call.work)] /\ res' = res
    BY <1>3, <1>6
  <2>4. /\ call' \in CallType
        /\ call'.op = call.op /\ call'.st = call.st /\ call'.pos = call.pos
    BY <1>1, <2>2, <2>3 DEF CallType
  <2>5. CallOK'
    BY <1>5, <2>3, <2>4, CallGoes DEF IInv, CallOK, Looping
  <2>. QED
    BY <1>4, <2>5 DEF IInv
<1>7. CASE o.out # "ok"
  <2>1. o.out \in {"not_possible"} \cup Failures
    BY <1>3, <1>7 DEF FlushOutcomes, Outcome, Failures
  <2>2. FlushFails(o.out, h)
    BY <1>3, <1>7
  <2>3. CASE call.op = "flush_all" /\ o.out = "not_possible"
    <3>1. call' = [call EXCEPT !.work = <<>>] /\ res' = res
      BY <2>2, <2>3 DEF FlushFails
    <3>2. call' \in CallType /\ call'.op = "flush_all"
      BY <1>1, <2>3, <3>1, EmptySeq DEF CallType
    <3>3. CallOK'
      BY <3>1, <3>2, CallGoes DEF IInv, Looping
    <3>. QED
      BY <1>4, <3>3 DEF IInv
  <2>4. CASE call.op = "close_one" /\ o.out = "not_possible"
    <3>1. call' = [call EXCEPT !.op = "abort_one", !.work = <<>>] /\ res' = res
      BY <2>2, <2>4 DEF FlushFails
    <3>2. /\ call' \in CallType
          /\ call'.op = "abort_one" /\ call'.st = call.st /\ call'.pos = call.pos
      BY <1>1, <3>1, EmptySeq DEF CallType, Ops
    <3>3. CallOK'
      BY <2>4, <3>1, <3>2, CallGoes DEF IInv, CallOK, Looping
    <3>. QED
      BY <1>4, <3>3 DEF IInv
  <2>5. CASE ~(call.op \in {"flush_all", "close_one"} /\ o.out = "not_possible")
    <3>1. Returns(o.out, h)
      BY <2>2, <2>5 DEF FlushFails
    <3>2. CallOK'
      BY <1>2, <2>1, <3>1, CallReturns
    <3>. QED
      BY <1>4, <3>2 DEF IInv
  <2>. QED
    BY <2>3, <2>4, <2>5
<1>. QED
  BY <1>6, <1>7

LEMMA PutsStepKeeps ==
  ASSUME IInv, PutsStep
  PROVE  IInv'
<1>. DEFINE h == Head(call.work)
<1>1. /\ call.op \in {"puts", "script"}
      /\ call.work \in Seq(Stream) /\ call.work # <<>> /\ call \in CallType
      /\ call.line \in BOOLEAN
  BY DEF PutsStep, IInv, CallOK, CallType
<1>2. h \in Stream /\ Tail(call.work) \in Seq(Stream)
  BY <1>1, HeadTailProperties
<1>3. PICK o \in PutOutcomes(h, call.line) :
        /\ Took(h, o)
        /\ \/ /\ o.out = "ok"
              /\ call' = [call EXCEPT !.op = "script", !.work = Followed(h) \o Tail(@)]
              /\ UNCHANGED res
           \/ /\ o.out = "not_possible" /\ call.op = "script"
              /\ call' = [call EXCEPT !.work = Tail(@)]
              /\ UNCHANGED res
           \/ /\ o.out \in Failures \/ (o.out = "not_possible" /\ call.op = "puts")
              /\ Returns(o.out, h)
  BY DEF PutsStep
<1>. HIDE DEF h
<1>4. GraphOK' /\ StoreOK' /\ TextOK'
  BY <1>1, <1>2, <1>3, PutFits, RestTook DEF IInv
<1>5. kind' = kind
  BY <1>3 DEF Took, store
<1>6. o.out \in {"ok", "not_possible"} \cup Failures
  BY <1>3 DEF PutOutcomes, TtyOutcomes, TtyPut, Outcome, Failures
<1>7. call.st \in Stream
  BY <1>1 DEF IInv, CallOK
<1>8. CASE /\ call' = [call EXCEPT !.op = "script", !.work = Followed(h) \o Tail(@)]
           /\ UNCHANGED res
  <2>1. Followed(h) \in Seq(Stream)
    BY <1>2 DEF Followed, IInv, GraphOK
  <2>2. Followed(h) \o Tail(call.work) \in Seq(Stream)
    BY <1>2, <2>1, ConcatProperties
  <2>3. call' \in CallType /\ call'.op = "script" /\ call'.st = call.st
    BY <1>1, <1>8, <2>2 DEF CallType, Ops
  <2>4. CallOK'
    BY <1>7, <1>8, <2>3, CallGoes DEF IInv, Looping
  <2>. QED
    BY <1>4, <2>4 DEF IInv
<1>9. CASE call' = [call EXCEPT !.work = Tail(@)] /\ UNCHANGED res
  <2>1. call' \in CallType /\ call'.op = call.op /\ call'.st = call.st
    BY <1>1, <1>2, <1>9 DEF CallType
  <2>2. CallOK'
    BY <1>1, <1>7, <1>9, <2>1, CallGoes DEF IInv, Looping
  <2>. QED
    BY <1>4, <2>2 DEF IInv
<1>10. CASE Returns(o.out, h)
  <2>1. CallOK'
    BY <1>2, <1>6, <1>10, CallReturns
  <2>. QED
    BY <1>4, <2>1 DEF IInv
<1>. QED
  BY <1>3, <1>8, <1>9, <1>10

\* The call returns and the rest is as it was.
LEMMA ReturnKeeps ==
  ASSUME IInv, NEW out \in {"ok", "not_possible", "end_of_file"} \cup Failures,
         NEW s \in Stream \cup {NoStream}, Returns(out, s), Stays
  PROVE  IInv'
BY CallReturns, RestSame DEF IInv, Stays

\* The call goes on and the rest is as it was.
LEMMA StaysKeeps ==
  ASSUME IInv, UNCHANGED <<store, graph, index, disp, res>>, call' \in CallType,
         call'.op \notin {"idle", "flush_all", "close_all"} => call'.st \in Stream,
         call'.op # "gets", call'.op \in Looping => call'.pos > 0
  PROVE  IInv'
BY CallGoes, RestSame DEF IInv

LEMMA FlushEndKeeps ==
  ASSUME IInv, FlushEnd
  PROVE  IInv'
<1>1. call.st \in Stream
  BY DEF FlushEnd, Finished, IInv, CallOK
<1>. QED
  BY <1>1, ReturnKeeps DEF FlushEnd

LEMMA UnbufferEndKeeps ==
  ASSUME IInv, UnbufferEnd
  PROVE  IInv'
<1>1. call.st \in Stream
  BY DEF UnbufferEnd, Finished, IInv, CallOK
<1>2. obf' \in [Stream -> BOOLEAN]
  BY <1>1 DEF UnbufferEnd, IInv, StoreOK
<1>3. GraphOK' /\ StoreOK' /\ TextOK'
  BY <1>2, GraphSame, StoreSame, TextSame DEF IInv, UnbufferEnd
<1>4. CallOK'
  BY <1>1, CallReturns DEF UnbufferEnd
<1>. QED
  BY <1>3, <1>4 DEF IInv

LEMMA ReadFailsKeeps ==
  ASSUME IInv, NEW s \in Stream, ReadFails(s)
  PROVE  IInv'
BY ReturnKeeps DEF ReadFails

LEMMA GetcReadKeeps ==
  ASSUME IInv, GetcRead
  PROVE  IInv'
<1>. DEFINE s == call.st
            o == IF kind[s] = "tty" THEN TtyPut1(s, call.line)
                 ELSE Outcome("ok", index[s], disp[s])
<1>1. call \in CallType /\ s \in Stream /\ call.line \in BOOLEAN
  BY DEF GetcRead, Finished, IInv, CallOK, CallType
<1>2. CASE ReadFails(s)
  BY <1>1, <1>2, ReadFailsKeeps
<1>3. CASE /\ Took(s, o)
           /\ call' = [call EXCEPT !.op = "script", !.work = Followed(s)]
           /\ UNCHANGED res
  <2>1. Fits(kind[s], o.index, o.disp)
    BY <1>1, EchoFits, TextFits DEF IInv, Outcome
  <2>. HIDE DEF o, s
  <2>2. GraphOK' /\ StoreOK' /\ TextOK'
    BY <1>1, <1>3, <2>1, RestTook
  <2>3. Followed(s) \in Seq(Stream)
    BY <1>1 DEF Followed, IInv, GraphOK
  <2>4. call' \in CallType /\ call'.op = "script" /\ call'.st = s
    BY <1>1, <1>3, <2>3 DEF CallType, Ops, s
  <2>5. CallOK'
    BY <1>1, <1>3, <2>4, CallGoes DEF IInv, Looping
  <2>. QED
    BY <2>2, <2>5 DEF IInv
<1>. QED
  BY <1>2, <1>3 DEF GetcRead

LEMMA GetsReadKeeps ==
  ASSUME IInv, GetsRead
  PROVE  IInv'
<1>. DEFINE s == call.st
<1>1. call \in CallType /\ s \in Stream /\ kind[s] = "tty" /\ call.op = "gets"
  BY DEF GetsRead, Finished, IInv, CallOK, CallType
<1>2. CASE ReadFails(s)
  BY <1>1, <1>2, ReadFailsKeeps
<1>3. CASE /\ \E line \in BOOLEAN : Took(s, TtyPut1(s, line))
           /\ call' = [call EXCEPT !.pos = @ + 1]
           /\ UNCHANGED res
  <2>1. PICK line \in BOOLEAN : Took(s, TtyPut1(s, line))
    BY <1>3
  <2>2. GraphOK' /\ StoreOK' /\ TextOK'
    BY <1>1, <2>1, EchoFits, RestTook DEF IInv
  <2>3. kind' = kind
    BY <2>1 DEF Took, store
  <2>4. call' \in CallType /\ call'.op = "gets" /\ call'.st = s
    BY <1>1, <1>3 DEF CallType
  <2>5. CallOK'
    BY <1>1, <1>3, <2>3, <2>4, CallGoes DEF IInv, Looping
  <2>. QED
    BY <2>2, <2>5 DEF IInv
<1>4. CASE /\ call' = [call EXCEPT !.op = "script", !.work = Followed(s), !.pos = 0]
           /\ UNCHANGED res /\ Stays
  <2>1. Followed(s) \in Seq(Stream)
    BY <1>1 DEF Followed, IInv, GraphOK
  <2>2. call' \in CallType /\ call'.op = "script" /\ call'.st = s
    BY <1>1, <1>4, <2>1 DEF CallType, Ops
  <2>. QED
    BY <1>1, <1>4, <2>2, StaysKeeps DEF Stays, Looping
<1>. QED
  BY <1>2, <1>3, <1>4 DEF GetsRead

LEMMA CloseEndKeeps ==
  ASSUME IInv, CloseEnd
  PROVE  IInv'
<1>1. call.st \in Stream
  BY DEF CloseEnd, Finished, IInv, CallOK
<1>2. CASE Gone(call.st) /\ Returns("ok", call.st)
  BY <1>1, <1>2, RestGone, CallReturns DEF IInv
<1>3. CASE Stays /\ (Returns("ok", call.st) \/ Returns("not_possible", call.st))
  BY <1>1, <1>3, ReturnKeeps
<1>. QED
  BY <1>2, <1>3 DEF CloseEnd

LEMMA FlushAllNextKeeps ==
  ASSUME IInv, FlushAllNext
  PROVE  IInv'
<1>1. call \in CallType /\ call.op = "flush_all" /\ call.pos \in Nat /\ opens \in Seq(Stream)
  BY DEF FlushAllNext, Finished, IInv, CallOK, CallType, StoreOK
<1>2. CASE /\ call.pos < Len(opens)
           /\ call' = [call EXCEPT !.pos = @ + 1, !.work = <<opens[call.pos + 1]>>]
           /\ UNCHANGED <<store, graph, index, disp, res>>
  <2>1. call.pos + 1 \in 1 .. Len(opens)
    BY <1>1, <1>2
  <2>2. opens[call.pos + 1] \in Stream
    BY <1>1, <2>1, ElementOfSeq
  <2>3. <<opens[call.pos + 1]>> \in Seq(Stream)
    BY <2>2
  <2>4. call' = [call EXCEPT !.pos = call.pos + 1, !.work = <<opens[call.pos + 1]>>]
    BY <1>2
  <2>5. call.pos + 1 \in Nat
    BY <1>1
  <2>6. call' \in CallType /\ call'.op = "flush_all"
    BY <1>1, <2>3, <2>4, <2>5 DEF CallType
  <2>. QED
    BY <1>2, <2>6, StaysKeeps DEF Looping
<1>3. CASE /\ scripts' = [s \in Stream |-> IF s \in ToSet(opens) THEN <<>> ELSE scripts[s]]
           /\ scripting' = [s \in Stream |-> scripting[s] /\ s \notin ToSet(opens)]
           /\ call' = [call EXCEPT !.op = "close_all", !.pos = 1]
           /\ UNCHANGED <<store, index, disp, res>>
  <2>1. GraphOK'
    BY <1>3, GraphAllCleared DEF IInv
  <2>2. StoreOK' /\ TextOK'
    BY <1>3, StoreSame, TextSame DEF IInv, store, StoreOK
  <2>3. call' = [call EXCEPT !.op = "close_all", !.pos = 1]
    BY <1>3
  <2>4. call' \in CallType /\ call'.op = "close_all" /\ call'.pos = 1
    BY <1>1, <2>3 DEF CallType, Ops
  <2>5. CallOK'
    BY <1>3, <2>4, CallGoes DEF IInv, Looping
  <2>. QED
    BY <2>1, <2>2, <2>5 DEF IInv
<1>. QED
  BY <1>2, <1>3 DEF FlushAllNext

LEMMA CloseAllNextKeeps ==
  ASSUME IInv, CloseAllNext
  PROVE  IInv'
<1>1. call \in CallType /\ call.pos \in Nat /\ call.pos > 0 /\ opens \in Seq(Stream)
  BY DEF CloseAllNext, Finished, IInv, CallOK, CallType, StoreOK, Looping
<1>. DEFINE s == opens[call.pos]
<1>2. CASE /\ call.pos <= Len(opens)
           /\ call' = [call EXCEPT !.op = "close_one", !.st = s, !.work = <<s>>,
                                   !.tried = @ \cup {s}]
           /\ UNCHANGED <<store, graph, index, disp, res>>
  <2>1. call.pos \in 1 .. Len(opens)
    BY <1>1, <1>2
  <2>2. s \in Stream
    BY <1>1, <2>1, ElementOfSeq
  <2>. HIDE DEF s
  <2>3. <<s>> \in Seq(Stream) /\ call.tried \cup {s} \in SUBSET Stream
    BY <1>1, <2>2 DEF CallType
  <2>4. call' = [call EXCEPT !.op = "close_one", !.st = s, !.work = <<s>>,
                             !.tried = call.tried \cup {s}]
    BY <1>2
  <2>5. call' \in CallType /\ call'.op = "close_one" /\ call'.st = s /\ call'.pos = call.pos
    BY <1>1, <2>2, <2>3, <2>4 DEF CallType, Ops
  <2>. QED
    BY <1>1, <1>2, <2>2, <2>5, StaysKeeps DEF Looping
<1>3. CASE Returns("ok", NoStream) /\ Stays
  BY <1>3, ReturnKeeps
<1>. QED
  BY <1>2, <1>3 DEF CloseAllNext

LEMMA CloseOneKeeps ==
  ASSUME IInv, CloseOne
  PROVE  IInv'
<1>. DEFINE s == call.st
<1>1. call \in CallType /\ s \in Stream /\ call.pos \in Nat /\ call.pos > 0
  BY DEF CloseOne, Finished, IInv, CallOK, CallType, Looping
<1>2. ASSUME GraphOK' /\ StoreOK' /\ TextOK', NextOne
      PROVE  IInv'
  <2>. DEFINE n == NextPos(opens', call.pos, call.st)
  <2>1. n \in Nat /\ n > 0
    BY <1>1 DEF NextPos
  <2>2. call' = [call EXCEPT !.op = "close_all", !.pos = n] /\ res' = res
    BY <1>2 DEF NextOne
  <2>. HIDE DEF n
  <2>3. call' \in CallType /\ call'.op = "close_all" /\ call'.pos = n
    BY <1>1, <2>1, <2>2 DEF CallType, Ops
  <2>4. CallOK'
    BY <2>1, <2>2, <2>3, CallGoes DEF IInv
  <2>. QED
    BY <1>2, <2>4 DEF IInv
<1>3. CASE Gone(s) /\ NextOne
  BY <1>1, <1>2, <1>3, RestGone
<1>4. CASE Stays /\ NextOne
  BY <1>2, <1>4, RestSame DEF Stays
<1>5. CASE Stays /\ call' = [call EXCEPT !.op = "abort_one"] /\ UNCHANGED res
  <2>1. call' \in CallType /\ call'.op = "abort_one" /\ call'.st = s /\ call'.pos = call.pos
    BY <1>1, <1>5 DEF CallType, Ops
  <2>. QED
    BY <1>1, <1>5, <2>1, StaysKeeps DEF Looping, Stays
<1>6. CASE Aborted(s) /\ NextOne
  BY <1>1, <1>2, <1>6, RestAborted
<1>. QED
  BY <1>3, <1>4, <1>5, <1>6 DEF CloseOne

LEMMA CloseAllKeeps ==
  ASSUME IInv, CloseAll
  PROVE  IInv'
<1>1. call' = [op |-> "flush_all", st |-> NoStream, work |-> <<>>, pos |-> 0, line |-> FALSE,
               tried |-> {}]
  BY DEF CloseAll, Idle
<1>2. call' \in CallType /\ call'.op = "flush_all"
  BY <1>1 DEF CallType, Ops
<1>. QED
  BY <1>2, StaysKeeps DEF CloseAll, Looping

-----------------------------------------------------------------------------
(* The theorems                                                            *)

LEMMA InitIInv == Init => IInv
<1>. SUFFICES ASSUME Init PROVE IInv
  OBVIOUS
<1>. USE StreamAssumption DEF Init
<1>1. GraphOK
  <2>1. scripts \in [Stream -> Seq(Stream)] /\ scripting \in [Stream -> BOOLEAN]
    OBVIOUS
  <2>2. \A s \in Stream : ToSet(scripts[s]) = {}
    BY ToSetEmpty
  <2>3. Acyclic
    BY <2>2 DEF Acyclic
  <2>4. ScriptingCached
    BY DEF ScriptingCached
  <2>. QED
    BY <2>1, <2>3, <2>4 DEF GraphOK
<1>2. OpensExact
  <2>1. \A s \in Stream : ~Listed(kind[s])
    BY DEF Listed, HasChan
  <2>. QED
    BY <2>1, ToSetEmpty DEF OpensExact
<1>3. StoreOK
  BY <1>2 DEF StoreOK, BuffersDistinct, Kinds, HasChan
<1>4. TextOK
  BY DEF TextOK, RoomToPut
<1>5. CallOK
  BY DEF CallOK, Idle, Result, Ops, Looping
<1>. QED
  BY <1>1, <1>3, <1>4, <1>5 DEF IInv

LEMMA StepKeeps ==
  ASSUME IInv, [Next]_vars
  PROVE  IInv'
<1>1. CASE UNCHANGED vars
  <2>1. UNCHANGED <<store, graph, index, disp>> /\ UNCHANGED <<call, res>> /\ kind' = kind
    BY <1>1 DEF vars, store, graph
  <2>. QED
    BY <2>1, RestSame, CallStays DEF IInv
<1>2. CASE call.op = "idle" /\ (CloseAll \/ \E s \in Stream : Client(s))
  BY <1>2, CloseAllKeeps, ClientKeeps
<1>3. CASE Step
  BY <1>3, FlushStepKeeps, PutsStepKeeps, FlushEndKeeps, UnbufferEndKeeps, GetcReadKeeps,
     GetsReadKeeps, CloseEndKeeps, FlushAllNextKeeps, CloseAllNextKeeps, CloseOneKeeps DEF Step
<1>. QED
  BY <1>1, <1>2, <1>3 DEF Next

\* The inductive invariant holds in every reachable state.
THEOREM Invariance == Spec => []IInv
<1>1. IInv /\ [Next]_vars => IInv'
  BY StepKeeps
<1>. QED
  BY InitIInv, <1>1, PTL DEF Spec

\* The type invariant: whatever order streams are made, scripted, written and closed in, and
\* wherever _close_all is, index and disp stay within the buffer.
THEOREM TypeCorrect == Spec => []TypeOK
<1>1. IInv => TypeOK
  BY DEF IInv, GraphOK, StoreOK, TextOK, CallOK, TypeOK
<1>. QED
  BY Invariance, <1>1, PTL

\* add_script and the operations that remove scripts never leave a cycle: the recursion of
\* flush, puts and all_scripts over the scripts ends.
THEOREM NoScriptCycles == Spec => []Acyclic
<1>1. IInv => Acyclic
  BY DEF IInv, GraphOK
<1>. QED
  BY Invariance, <1>1, PTL

\* The flag scripting of add_script, rem_script, unscript, close, abort and _close_all says
\* whether the stream has scripts.
THEOREM ScriptingIsCached == Spec => []ScriptingCached
<1>1. IInv => ScriptingCached
  BY DEF IInv, GraphOK
<1>. QED
  BY Invariance, <1>1, PTL

\* The buffer that close and abort leave for open is never that of an open stream, and no two
\* streams share one.
THEOREM BuffersAreDistinct == Spec => []BuffersDistinct
<1>1. IInv => BuffersDistinct
  BY DEF IInv, StoreOK
<1>. QED
  BY Invariance, <1>1, PTL

\* The list of open_streams is the set of open streams, each once, after every swap that
\* close, abort and _close_all make in it.
THEOREM OpensAreExact == Spec => []OpensExact
<1>1. IInv => OpensExact
  BY DEF IInv, StoreOK
<1>. QED
  BY Invariance, <1>1, PTL

\* A file's buffer has room for a character whenever puts is called, and a terminal's has
\* until all of it is displayed.
THEOREM RoomIsLeft == Spec => []RoomToPut
<1>1. IInv => RoomToPut
  BY DEF IInv, TextOK
<1>. QED
  BY Invariance, <1>1, PTL

-----------------------------------------------------------------------------
(* The two calls that go through several streams: what close has flushed,  *)
(* and what the last loop of _close_all has tried                          *)

\* The streams each open stream passes text to.
OpenScripts == [u \in Stream |-> IF IsOpen(u) THEN scripts[u] ELSE <<>>]

\* A stream that gets the text of the one to be closed is flushed, or close still has to visit
\* one it gets its text from.
DrainsOK ==
  call.op = "close" =>
    \A t \in Receivers(call.st) : Pending(t) = 0 \/ \E u \in ToSet(call.work) : t \in Receivers(u)

\* The last loop of _close_all has tried every stream before its place, whatever the swaps
\* have put there, and the one it is at is in its place until it is gone.
VisitsOK ==
  call.op \in Looping =>
    /\ \A i \in 1 .. Len(opens) : i < call.pos => opens[i] \in call.tried
    /\ call.op # "close_all" =>
         call.pos \in 1 .. Len(opens) /\ opens[call.pos] = call.st /\ call.st \in call.tried

LoopInv == IInv /\ DrainsOK /\ VisitsOK

LEMMA ReachSelf ==
  ASSUME NEW q, NEW s \in Stream
  PROVE  s \in ReachBy(q, s)
BY DEF ReachBy

LEMMA ReachOn ==
  ASSUME NEW q, NEW s, NEW u \in ReachBy(q, s), NEW v \in Stream, v \in ToSet(q[u])
  PROVE  v \in ReachBy(q, s)
BY DEF ReachBy

\* What is reached from h is h or reached from one of its scripts.
LEMMA ReachSplit ==
  ASSUME NEW q, NEW h \in Stream, \A u \in Stream : ToSet(q[u]) \subseteq Stream,
         NEW t \in ReachBy(q, h)
  PROVE  t = h \/ \E u \in ToSet(q[h]) : t \in ReachBy(q, u)
<1>. DEFINE S == {h} \cup {v \in Stream : \E u \in ToSet(q[h]) : v \in ReachBy(q, u)}
<1>1. S \in SUBSET Stream /\ h \in S
  OBVIOUS
<1>2. ASSUME NEW v \in S PROVE ToSet(q[v]) \subseteq S
  <2>1. CASE v = h
    BY <2>1, ReachSelf
  <2>2. CASE v # h
    <3>1. PICK u \in ToSet(q[h]) : v \in ReachBy(q, u)
      BY <2>2
    <3>2. \A w \in ToSet(q[v]) : w \in Stream /\ w \in ReachBy(q, u)
      BY <3>1, <1>1, ReachOn
    <3>. QED
      BY <3>2
  <2>. QED
    BY <2>1, <2>2
<1>. HIDE DEF S
<1>3. t \in S
  BY <1>1, <1>2 DEF ReachBy
<1>. QED
  BY <1>3 DEF S

LEMMA ReceiversReach ==
  /\ \A s : Receivers(s) = ReachBy(OpenScripts, s)
  /\ GraphOK => \A u \in Stream : /\ ToSet(OpenScripts[u]) \subseteq Stream
                                  /\ ToSet(OpenScripts[u]) \subseteq ToSet(Followed(u))
<1>1. \A s : Receivers(s) = ReachBy(OpenScripts, s)
  BY DEF Receivers, OpenScripts
<1>2. ASSUME GraphOK, NEW u \in Stream
      PROVE  /\ ToSet(OpenScripts[u]) \subseteq Stream
             /\ ToSet(OpenScripts[u]) \subseteq ToSet(Followed(u))
  <2>1. CASE IsOpen(u) /\ scripts[u] # <<>>
    <3>1. OpenScripts[u] = scripts[u] /\ Followed(u) = scripts[u]
      BY <1>2, <2>1 DEF OpenScripts, Followed, IsOpen, GraphOK, ScriptingCached
    <3>2. \A i \in DOMAIN scripts[u] : scripts[u][i] \in Stream
      BY <1>2 DEF GraphOK
    <3>. QED
      BY <3>1, <3>2 DEF ToSet
  <2>2. CASE ~(IsOpen(u) /\ scripts[u] # <<>>)
    <3>1. OpenScripts[u] = <<>>
      BY <2>2 DEF OpenScripts
    <3>. QED
      BY <3>1, ToSetEmpty
  <2>. QED
    BY <2>1, <2>2
<1>. QED
  BY <1>1, <1>2

LEMMA ToSetConcat ==
  ASSUME NEW S, NEW p \in Seq(S), NEW q \in Seq(S)
  PROVE  ToSet(p \o q) = ToSet(p) \cup ToSet(q)
<1>. DEFINE m == Len(p)
            n == Len(q)
            r == p \o q
<1>1. /\ m \in Nat /\ n \in Nat /\ DOMAIN p = 1 .. m /\ DOMAIN q = 1 .. n /\ DOMAIN r = 1 .. m + n
      /\ \A i \in 1 .. m + n : r[i] = IF i <= m THEN p[i] ELSE q[i - m]
  BY ConcatProperties
<1>. HIDE DEF m, n, r
<1>2. \A i \in 1 .. m : i \in 1 .. m + n /\ r[i] = p[i]
  BY <1>1
<1>3. \A i \in 1 .. n : i + m \in 1 .. m + n /\ r[i + m] = q[i]
  BY <1>1
<1>4. ASSUME NEW i \in 1 .. m + n PROVE r[i] \in ToSet(p) \cup ToSet(q)
  <2>1. CASE i <= m
    <3>1. i \in DOMAIN p /\ r[i] = p[i]
      BY <1>1, <2>1
    <3>. QED
      BY <3>1 DEF ToSet
  <2>2. CASE ~ i <= m
    <3>1. i - m \in DOMAIN q /\ r[i] = q[i - m]
      BY <1>1, <2>2
    <3>2. q[i - m] \in ToSet(q)
      BY <3>1 DEF ToSet
    <3>. QED
      BY <3>1, <3>2, Zenon
  <2>. QED
    BY <2>1, <2>2
<1>5. ToSet(r) \subseteq ToSet(p) \cup ToSet(q)
  BY <1>1, <1>4 DEF ToSet
<1>6. ToSet(p) \cup ToSet(q) \subseteq ToSet(r)
  <2>1. \A i \in DOMAIN p : i \in DOMAIN r /\ r[i] = p[i]
    BY <1>1, <1>2
  <2>2. \A i \in DOMAIN q : i + m \in DOMAIN r /\ r[i + m] = q[i]
    BY <1>1, <1>3
  <2>3. ToSet(p) \subseteq ToSet(r)
    BY <2>1 DEF ToSet
  <2>4. ToSet(q) \subseteq ToSet(r)
    BY <2>2 DEF ToSet
  <2>. QED
    BY <2>3, <2>4
<1>. QED
  BY <1>5, <1>6 DEF r

LEMMA ToSetHead ==
  ASSUME NEW S, NEW q \in Seq(S), q # <<>>
  PROVE  ToSet(q) \subseteq {Head(q)} \cup ToSet(Tail(q))
<1>. DEFINE n == Len(q)
            r == Tail(q)
<1>1. /\ n \in Nat /\ n > 0 /\ DOMAIN q = 1 .. n /\ DOMAIN r = 1 .. n - 1 /\ Head(q) = q[1]
      /\ \A i \in 1 .. n - 1 : r[i] = q[i + 1]
  BY HeadTailProperties, EmptySeq
<1>. HIDE DEF n, r
<1>2. \A i \in 1 .. n : i = 1 \/ (i - 1 \in 1 .. n - 1 /\ (i - 1) + 1 = i)
  BY <1>1
<1>3. \A i \in 1 .. n : q[i] = Head(q) \/ q[i] \in ToSet(r)
  <2>1. SUFFICES ASSUME NEW i \in 1 .. n, i # 1 PROVE q[i] \in ToSet(r)
    BY <1>1
  <2>2. i - 1 \in DOMAIN r /\ r[i - 1] = q[i]
    BY <1>1, <1>2, <2>1
  <2>. QED  BY <2>2 DEF ToSet
<1>4. \A x \in ToSet(q) : \E i \in 1 .. n : x = q[i]
  BY <1>1 DEF ToSet
<1>. QED
  BY <1>3, <1>4 DEF r

\* The client's steps start no loop, and start a close with the stream in the work.
LEMMA ClientCalls ==
  ASSUME call.op = "idle", NEW s \in Stream, Client(s)
  PROVE  /\ call'.op \notin Looping
         /\ call'.op = "close" => call'.st \in Stream /\ call'.work = <<call'.st>>
<1>1. CASE UNCHANGED call
  BY <1>1 DEF Looping
<1>2. ASSUME NEW op \in Ops \ Looping, NEW line, Calls(op, s, line)
      PROVE  call'.op = op /\ call'.st = s /\ call'.work = <<s>>
  BY <1>2 DEF Calls, Idle
<1>3. CASE \E line \in BOOLEAN : Puts(s, line) \/ Gets(s, line)
  BY <1>2, <1>3 DEF Puts, Gets, Ops, Looping
<1>4. CASE \E line \in BOOLEAN : Getc(s, line)
  <2>1. CASE \E line \in BOOLEAN : Calls("getc", s, line)
    BY <1>2, <2>1 DEF Ops, Looping
  <2>2. CASE \E line \in BOOLEAN : call' = [Idle EXCEPT !.op = "getc", !.st = s, !.line = line]
    BY <2>2 DEF Idle, Looping
  <2>. QED
    BY <1>4, <2>1, <2>2 DEF Getc
<1>5. CASE Flush(s) \/ Close(s) \/ Unbuffer(s)
  <2>1. PICK op \in {"flush", "close", "unbuffer"} : Calls(op, s, FALSE)
    BY <1>5 DEF Flush, Close, Unbuffer
  <2>2. op \in Ops \ Looping
    BY DEF Ops, Looping
  <2>3. call'.op = op /\ call'.st = s /\ call'.work = <<s>>
    BY <1>2, <2>1, <2>2
  <2>. QED
    BY <2>2, <2>3
<1>6. CASE \E k \in Mode : Open(s, k) \/ OpenPlain(s, k)
  BY <1>1, <1>6 DEF Open, OpenPlain, Made
<1>7. CASE \E k \in Mode, buffered \in BOOLEAN : OpenPerm(s, k, buffered)
  BY <1>1, <1>7 DEF OpenPerm, Made
<1>8. CASE \E t \in Stream : AddScript(s, t) \/ RemScript(s, t)
  BY <1>1, <1>8 DEF AddScript, RemScript
<1>9. CASE Unscript(s) \/ Abort(s) \/ Reset(s) \/ Rebuffer(s)
  BY <1>1, <1>9 DEF Unscript, Abort, Reset, Rebuffer
<1>. QED
  BY <1>3, <1>4, <1>5, <1>6, <1>7, <1>8, <1>9 DEF Client

\* A close that starts has its stream in the work.
LEMMA DrainsStart ==
  ASSUME call'.op = "close" => call'.st \in Stream /\ call'.work = <<call'.st>>
  PROVE  DrainsOK'
<1>1. SUFFICES ASSUME call'.op = "close", NEW t \in Receivers(call.st)'
               PROVE  \E u \in ToSet(call'.work) : t \in Receivers(u)'
  BY DEF DrainsOK
<1>2. call'.st \in ToSet(call'.work)
  BY <1>1 DEF ToSet
<1>3. PICK c : c = call'.st
  OBVIOUS
<1>4. Receivers(call.st)' = Receivers(c)'
  BY <1>3 DEF Receivers
<1>. QED
  BY <1>1, <1>2, <1>3, <1>4

\* Flushing one stream: it has nothing pending, and the streams it passes text to are in the
\* work.
LEMMA FlushDrains ==
  ASSUME IInv, NEW s \in Stream, NEW o \in FlushOutcomes(s), o.out = "ok", Took(s, o)
  PROVE  /\ Pending(s)' = 0
         /\ \A t \in Stream \ {s} : Pending(t)' = Pending(t)
<1>1. /\ index' = [index EXCEPT ![s] = o.index] /\ disp' = [disp EXCEPT ![s] = o.disp]
      /\ index \in [Stream -> 0 .. BvecSize] /\ disp \in [Stream -> 1 .. (BvecSize + 1)]
  BY DEF Took, IInv, TextOK
<1>2. o.index - o.disp + 1 = 0
  <2>1. CASE kind[s] = "write"
    BY <2>1 DEF FlushOutcomes, Outcome
  <2>2. CASE kind[s] = "tty"
    <3>1. o.index = index[s] /\ o.disp = index[s] + 1
      BY <2>2 DEF FlushOutcomes, Outcome
    <3>2. index[s] \in Int
      BY <1>1, StreamAssumption
    <3>. QED
      BY <3>1, <3>2
  <2>3. CASE kind[s] \notin {"write", "tty"}
    <3>1. o.index = index[s] /\ o.disp = disp[s]
      BY <2>3 DEF FlushOutcomes, Outcome
    <3>2. index[s] = 0 /\ disp[s] = 1
      BY <2>3 DEF IInv, TextOK
    <3>. QED
      BY <3>1, <3>2
  <2>. QED
    BY <2>1, <2>2, <2>3
<1>3. index'[s] = o.index /\ disp'[s] = o.disp
  BY <1>1
<1>4. \A t \in Stream \ {s} : index'[t] = index[t] /\ disp'[t] = disp[t]
  BY <1>1
<1>. QED
  BY <1>2, <1>3, <1>4 DEF Pending

LEMMA FlushStepDrains ==
  ASSUME IInv, DrainsOK, FlushStep
  PROVE  DrainsOK'
<1>0. PICK h : h = Head(call.work)
  OBVIOUS
<1>1. /\ call.work \in Seq(Stream) /\ call.work # <<>> /\ call \in CallType
      /\ h \in Stream /\ Tail(call.work) \in Seq(Stream)
  BY <1>0, HeadTailProperties DEF FlushStep, IInv, CallOK, CallType
<1>2. PICK o \in FlushOutcomes(h) :
        /\ Took(h, o)
        /\ \/ o.out = "ok" /\ call' = [call EXCEPT !.work = Followed(h) \o Tail(@)]
           \/ o.out # "ok" /\ FlushFails(o.out, h)
  BY <1>0 DEF FlushStep
<1>3. Followed(h) \in Seq(Stream)
  BY <1>1 DEF Followed, IInv, GraphOK
<1>4. ToSet(call.work) \subseteq {h} \cup ToSet(Tail(call.work))
  BY <1>0, <1>1, ToSetHead
<1>5. CASE o.out = "ok"
  <2>1. /\ call'.op = call.op /\ call'.st = call.st
        /\ call'.work = Followed(h) \o Tail(call.work)
    BY <1>1, <1>2, <1>5 DEF CallType
  <2>2. ToSet(call'.work) = ToSet(Followed(h)) \cup ToSet(Tail(call.work))
    <3>1. PICK f, w : f = Followed(h) /\ w = Tail(call.work)
      OBVIOUS
    <3>2. f \in Seq(Stream) /\ w \in Seq(Stream)
      BY <1>1, <1>3, <3>1
    <3>3. ToSet(f \o w) = ToSet(f) \cup ToSet(w)
      BY <3>2, ToSetConcat
    <3>. QED
      BY <2>1, <3>1, <3>3
  <2>3. Pending(h)' = 0 /\ \A t \in Stream \ {h} : Pending(t)' = Pending(t)
    BY <1>1, <1>2, <1>5, FlushDrains
  <2>4. \A u : Receivers(u)' = Receivers(u)
    BY <1>2 DEF Took, store, graph, Receivers, IsOpen
  <2>5. ASSUME call.op = "close", NEW t \in Receivers(call.st)
        PROVE  Pending(t)' = 0 \/ \E u \in ToSet(call'.work) : t \in Receivers(u)
    <3>1. t \in Stream
      BY DEF Receivers, ReachBy
    <3>2. CASE Pending(t) = 0
      BY <2>3, <3>1, <3>2
    <3>3. ASSUME NEW u \in ToSet(Tail(call.work)), t \in Receivers(u)
          PROVE  \E v \in ToSet(call'.work) : t \in Receivers(v)
      BY <2>2, <3>3
    <3>4. CASE t \in Receivers(h)
      <4>1. t = h \/ \E u \in ToSet(OpenScripts[h]) : t \in Receivers(u)
        BY <1>1, <3>4, ReceiversReach, ReachSplit DEF IInv
      <4>2. ToSet(OpenScripts[h]) \subseteq ToSet(Followed(h))
        BY <1>1, ReceiversReach DEF IInv
      <4>. QED
        BY <2>2, <2>3, <4>1, <4>2
    <3>5. Pending(t) = 0 \/ \E u \in ToSet(call.work) : t \in Receivers(u)
      BY <2>5 DEF DrainsOK
    <3>. QED
      BY <1>4, <3>2, <3>3, <3>4, <3>5
  <2>6. PICK c : c = call.st
    OBVIOUS
  <2>7. Receivers(call.st)' = Receivers(call.st)
    BY <2>1, <2>4, <2>6 DEF Receivers
  <2>. QED
    BY <2>1, <2>4, <2>5, <2>7 DEF DrainsOK
<1>6. CASE o.out # "ok"
  <2>1. FlushFails(o.out, h)
    BY <1>2, <1>6
  <2>2. call'.op # "close"
    <3>1. CASE call.op = "flush_all" /\ o.out = "not_possible"
      BY <1>1, <2>1, <3>1 DEF FlushFails, CallType
    <3>2. CASE call.op = "close_one" /\ o.out = "not_possible"
      BY <1>1, <2>1, <3>2 DEF FlushFails, CallType
    <3>3. CASE ~(call.op \in {"flush_all", "close_one"} /\ o.out = "not_possible")
      BY <2>1, <3>3 DEF FlushFails, Returns, Idle
    <3>. QED
      BY <3>1, <3>2, <3>3
  <2>. QED
    BY <2>2 DEF DrainsOK
<1>. QED
  BY <1>5, <1>6
LEMMA VisitsSame ==
  ASSUME VisitsOK, opens' = opens,
         call'.op \in Looping =>
           /\ call.op \in Looping \ {"close_all"} /\ call'.op # "close_all"
           /\ call'.pos = call.pos /\ call'.st = call.st /\ call'.tried = call.tried
  PROVE  VisitsOK'
BY DEF VisitsOK, Looping

LEMMA FlushStepVisits ==
  ASSUME IInv, VisitsOK, FlushStep
  PROVE  VisitsOK'
<1>0. PICK h : h = Head(call.work)
  OBVIOUS
<1>1. call \in CallType /\ call.op # "close_all"
  BY DEF FlushStep, IInv, CallOK, CallType
<1>2. PICK o \in FlushOutcomes(h) :
        /\ Took(h, o)
        /\ \/ o.out = "ok" /\ call' = [call EXCEPT !.work = Followed(h) \o Tail(@)]
           \/ o.out # "ok" /\ FlushFails(o.out, h)
  BY <1>0 DEF FlushStep
<1>3. opens' = opens
  BY <1>2 DEF Took, store
<1>4. CASE o.out = "ok"
  <2>1. /\ call'.op = call.op /\ call'.st = call.st /\ call'.pos = call.pos
        /\ call'.tried = call.tried
    BY <1>1, <1>2, <1>4 DEF CallType
  <2>. QED
    BY <1>1, <1>3, <2>1, VisitsSame
<1>5. CASE o.out # "ok"
  <2>1. FlushFails(o.out, h)
    BY <1>2, <1>5
  <2>2. CASE call.op = "flush_all" /\ o.out = "not_possible"
    <3>1. call'.op = "flush_all"
      BY <1>1, <2>1, <2>2 DEF FlushFails, CallType
    <3>. QED
      BY <3>1 DEF VisitsOK, Looping
  <2>3. CASE call.op = "close_one" /\ o.out = "not_possible"
    <3>1. /\ call'.op = "abort_one" /\ call'.st = call.st /\ call'.pos = call.pos
          /\ call'.tried = call.tried
      BY <1>1, <2>1, <2>3 DEF FlushFails, CallType
    <3>. QED
      BY <1>3, <2>3, <3>1, VisitsSame DEF Looping
  <2>4. CASE ~(call.op \in {"flush_all", "close_one"} /\ o.out = "not_possible")
    BY <2>1, <2>4 DEF FlushFails, Returns, Idle, VisitsOK, Looping
  <2>. QED
    BY <2>2, <2>3, <2>4
<1>. QED
  BY <1>4, <1>5

\* The steps that are in neither loop: they return, or go on with another operation.
LEMMA OtherSteps ==
  ASSUME IInv,
         PutsStep \/ FlushEnd \/ UnbufferEnd \/ GetcRead \/ GetsRead \/ CloseEnd
  PROVE  call'.op \notin Looping /\ call'.op # "close"
<1>1. call \in CallType
  BY DEF IInv, CallOK, CallType
<1>2. ASSUME NEW out, NEW s, Returns(out, s)
      PROVE  call'.op \notin Looping /\ call'.op # "close"
  BY <1>2 DEF Returns, Idle, Looping
<1>3. CASE PutsStep
  <2>1. call.op \in {"puts", "script"}
    BY <1>3 DEF PutsStep
  <2>2. PICK h : h = Head(call.work)
    OBVIOUS
  <2>3. PICK o : \/ call' = [call EXCEPT !.op = "script", !.work = Followed(h) \o Tail(@)]
                 \/ call' = [call EXCEPT !.work = Tail(@)]
                 \/ Returns(o.out, h)
    BY <1>3, <2>2 DEF PutsStep
  <2>4. call'.op \in {"puts", "script"} \/ Returns(o.out, h)
    BY <1>1, <2>1, <2>3 DEF CallType
  <2>. QED
    BY <1>2, <2>4 DEF Looping
<1>4. CASE FlushEnd \/ UnbufferEnd \/ CloseEnd
  BY <1>2, <1>4 DEF FlushEnd, UnbufferEnd, CloseEnd
<1>5. CASE GetcRead
  <2>1. \/ ReadFails(call.st)
        \/ call' = [call EXCEPT !.op = "script", !.work = Followed(call.st)]
    BY <1>5 DEF GetcRead
  <2>2. ReadFails(call.st) \/ call'.op = "script"
    BY <1>1, <2>1 DEF CallType
  <2>. QED
    BY <1>2, <2>2 DEF ReadFails, Looping
<1>6. CASE GetsRead
  <2>1. \/ ReadFails(call.st)
        \/ call' = [call EXCEPT !.pos = @ + 1]
        \/ call' = [call EXCEPT !.op = "script", !.work = Followed(call.st), !.pos = 0]
    BY <1>6 DEF GetsRead
  <2>2. call.op = "gets"
    BY <1>6 DEF GetsRead, Finished
  <2>3. ReadFails(call.st) \/ call'.op \in {"gets", "script"}
    BY <1>1, <2>1, <2>2 DEF CallType
  <2>. QED
    BY <1>2, <2>3 DEF ReadFails, Looping
<1>. QED
  BY <1>3, <1>4, <1>5, <1>6

LEMMA FlushAllNextVisits ==
  ASSUME IInv, FlushAllNext
  PROVE  VisitsOK' /\ call'.op # "close"
<1>1. call \in CallType /\ call.op = "flush_all" /\ Len(opens)' \in Nat
  <2>1. IInv'
    BY FlushAllNextKeeps
  <2>. QED
    BY <2>1, LenProperties DEF FlushAllNext, Finished, IInv, CallOK, CallType, StoreOK
<1>2. CASE call' = [call EXCEPT !.pos = @ + 1, !.work = <<opens[call.pos + 1]>>]
  <2>1. call'.op = "flush_all"
    BY <1>1, <1>2 DEF CallType
  <2>. QED
    BY <2>1 DEF VisitsOK, Looping
<1>3. CASE call' = [call EXCEPT !.op = "close_all", !.pos = 1]
  <2>1. call'.op = "close_all" /\ call'.pos = 1
    BY <1>1, <1>3 DEF CallType
  <2>2. \A i \in 1 .. Len(opens') : ~ i < 1
    BY <1>1
  <2>. QED
    BY <2>1, <2>2 DEF VisitsOK
<1>. QED
  BY <1>2, <1>3 DEF FlushAllNext

LEMMA CloseAllNextVisits ==
  ASSUME IInv, VisitsOK, CloseAllNext
  PROVE  VisitsOK' /\ call'.op # "close"
<1>1. /\ call \in CallType /\ call.op = "close_all" /\ call.pos \in Nat /\ call.pos > 0
      /\ opens \in Seq(Stream)
  BY DEF CloseAllNext, Finished, IInv, CallOK, CallType, StoreOK, Looping
<1>. DEFINE s == opens[call.pos]
<1>2. CASE /\ call.pos <= Len(opens)
           /\ call' = [call EXCEPT !.op = "close_one", !.st = s, !.work = <<s>>,
                                   !.tried = @ \cup {s}]
           /\ UNCHANGED <<store, graph, index, disp, res>>
  <2>. HIDE DEF s
  <2>1. /\ call'.op = "close_one" /\ call'.st = s /\ call'.pos = call.pos
        /\ call'.tried = call.tried \cup {s} /\ opens' = opens
    BY <1>1, <1>2 DEF CallType, store
  <2>2. \A i \in 1 .. Len(opens) : i < call.pos => opens[i] \in call.tried
    BY <1>1 DEF VisitsOK, Looping
  <2>3. \A i \in 1 .. Len(opens') : i < call'.pos => opens'[i] \in call'.tried
    BY <2>1, <2>2
  <2>4. call'.pos \in 1 .. Len(opens') /\ opens'[call'.pos] = call'.st /\ call'.st \in call'.tried
    BY <1>1, <1>2, <2>1 DEF s
  <2>. QED
    BY <2>1, <2>3, <2>4 DEF VisitsOK
<1>3. CASE Returns("ok", NoStream)
  BY <1>3 DEF Returns, Idle, VisitsOK, Looping
<1>. QED
  BY <1>2, <1>3 DEF CloseAllNext
\* Where the stream at position i was, the one swapped into its place has not been tried: the
\* positions before i keep theirs.
LEMMA SwapBefore ==
  ASSUME NEW S, NEW q \in Seq(S), NEW p \in 1 .. Len(q), Distinct(q)
  PROVE  /\ q[p] \notin ToSet(SwapRemoved(q, q[p]))
         /\ SwapRemoved(q, q[p]) \in Seq(S) /\ Len(SwapRemoved(q, q[p])) = Len(q) - 1
         /\ \A i \in 1 .. (Len(q) - 1) : i < p => SwapRemoved(q, q[p])[i] = q[i]
<1>. DEFINE s == q[p]
            n == Len(q)
            r == [i \in 1 .. (n - 1) |-> IF q[i] = s THEN q[n] ELSE q[i]]
<1>1. n \in Nat /\ DOMAIN q = 1 .. n /\ s \in ToSet(q)
  BY DEF ToSet
<1>2. SwapRemoved(q, s) = r
  BY <1>1 DEF SwapRemoved
<1>3. SwapRemoved(q, s) \in Seq(S) /\ s \notin ToSet(SwapRemoved(q, s))
  BY SwapRemovedExact
<1>4. DOMAIN r = 1 .. (n - 1) /\ \A i \in 1 .. (n - 1) : i < p => r[i] = q[i]
  BY <1>1 DEF Distinct
<1>5. n - 1 \in Nat
  BY <1>1
<1>. HIDE DEF r, s, n
<1>6. Len(r) = n - 1
  BY <1>2, <1>3, <1>4, <1>5, LenProperties
<1>. QED
  BY <1>2, <1>3, <1>4, <1>6 DEF s, n

LEMMA CloseOneVisits ==
  ASSUME IInv, VisitsOK, CloseOne
  PROVE  VisitsOK' /\ call'.op # "close"
<1>0. PICK s, p, q : s = call.st /\ p = call.pos /\ q = opens
  OBVIOUS
<1>1. /\ call \in CallType /\ call.op \in {"close_one", "abort_one"}
      /\ q \in Seq(Stream) /\ Distinct(q)
      /\ p \in 1 .. Len(q) /\ q[p] = s /\ s \in call.tried
      /\ \A i \in 1 .. Len(q) : i < p => q[i] \in call.tried
  BY <1>0 DEF CloseOne, Finished, IInv, CallOK, CallType, StoreOK, OpensExact, Distinct, VisitsOK,
     Looping
<1>2. Len(q) \in Nat /\ p \in Nat
  BY <1>1
<1>3. ASSUME opens' = q, NextOne
      PROVE  VisitsOK' /\ call'.op # "close"
  <2>1. NextPos(q, p, s) = p + 1
    BY <1>1 DEF NextPos
  <2>2. /\ call'.op = "close_all" /\ call'.pos = p + 1 /\ call'.tried = call.tried
    BY <1>0, <1>1, <1>3, <2>1 DEF NextOne, CallType
  <2>3. \A i \in 1 .. Len(q) : i < p + 1 => i < p \/ i = p
    BY <1>2
  <2>4. \A i \in 1 .. Len(q) : i < p + 1 => q[i] \in call.tried
    BY <1>1, <2>3
  <2>. QED
    BY <1>3, <2>2, <2>4 DEF VisitsOK
<1>4. ASSUME opens' = SwapRemoved(q, s), NextOne
      PROVE  VisitsOK' /\ call'.op # "close"
  <2>1. PICK r : r = SwapRemoved(q, s)
    OBVIOUS
  <2>2. /\ s \notin ToSet(r) /\ r \in Seq(Stream) /\ Len(r) = Len(q) - 1
        /\ \A i \in 1 .. (Len(q) - 1) : i < p => r[i] = q[i]
    BY <1>1, <2>1, SwapBefore
  <2>3. DOMAIN r = 1 .. Len(r) /\ Len(r) \in Nat
    BY <2>2
  <2>4. \A i \in 1 .. Len(r) : r[i] # s
    BY <2>2, <2>3 DEF ToSet
  <2>5. NextPos(r, p, s) = p
    <3>1. CASE p <= Len(r)
      <4>1. p \in 1 .. Len(r)
        BY <1>1, <1>2, <2>3, <3>1
      <4>. QED
        BY <2>4, <4>1 DEF NextPos
    <3>2. CASE ~ p <= Len(r)
      BY <3>2 DEF NextPos
    <3>. QED
      BY <3>1, <3>2
  <2>6. /\ call'.op = "close_all" /\ call'.pos = p /\ call'.tried = call.tried /\ opens' = r
    BY <1>0, <1>1, <1>4, <2>1, <2>5 DEF NextOne, CallType
  <2>7. \A i \in 1 .. Len(r) : i \in 1 .. Len(q) /\ i \in 1 .. (Len(q) - 1)
    BY <1>2, <2>2
  <2>8. \A i \in 1 .. Len(r) : i < p => r[i] \in call.tried
    BY <1>1, <2>2, <2>7
  <2>. QED
    BY <2>6, <2>8 DEF VisitsOK
<1>5. CASE (Gone(s) \/ Stays) /\ NextOne
  BY <1>0, <1>3, <1>4, <1>5 DEF Gone, Stays, store
<1>6. CASE Stays /\ call' = [call EXCEPT !.op = "abort_one"]
  <2>1. /\ call'.op = "abort_one" /\ call'.st = call.st /\ call'.pos = call.pos
        /\ call'.tried = call.tried /\ opens' = opens
    BY <1>1, <1>6 DEF CallType, Stays, store
  <2>. QED
    BY <1>1, <2>1, VisitsSame DEF Looping
<1>. QED
  BY <1>0, <1>5, <1>6 DEF CloseOne, Aborted

LEMMA LoopKeeps == LoopInv /\ [Next]_vars => LoopInv'
<1>. SUFFICES ASSUME LoopInv, [Next]_vars PROVE DrainsOK' /\ VisitsOK'
  BY StepKeeps DEF LoopInv
<1>1. IInv /\ DrainsOK /\ VisitsOK
  BY DEF LoopInv
<1>2. CASE UNCHANGED vars
  <2>1. UNCHANGED <<call, opens, kind, scripts, index, disp>>
    BY <1>2 DEF vars
  <2>2. DrainsOK'
    BY <1>1, <2>1 DEF DrainsOK, Receivers, Pending, IsOpen
  <2>3. VisitsOK'
    BY <1>1, <2>1 DEF VisitsOK
  <2>. QED
    BY <2>2, <2>3
<1>3. CASE call.op = "idle" /\ CloseAll
  <2>1. call'.op = "flush_all"
    BY <1>3 DEF CloseAll, Idle
  <2>. QED
    BY <2>1 DEF DrainsOK, VisitsOK, Looping
<1>4. CASE call.op = "idle" /\ \E s \in Stream : Client(s)
  <2>1. /\ call'.op \notin Looping
        /\ call'.op = "close" => call'.st \in Stream /\ call'.work = <<call'.st>>
    BY <1>4, ClientCalls
  <2>2. VisitsOK'
    BY <2>1 DEF VisitsOK
  <2>3. DrainsOK'
    BY <2>1, DrainsStart
  <2>. QED
    BY <2>2, <2>3
<1>5. CASE FlushStep
  BY <1>1, <1>5, FlushStepDrains, FlushStepVisits
<1>6. CASE PutsStep \/ FlushEnd \/ UnbufferEnd \/ GetcRead \/ GetsRead \/ CloseEnd
  BY <1>1, <1>6, OtherSteps DEF DrainsOK, VisitsOK
<1>7. CASE FlushAllNext
  BY <1>1, <1>7, FlushAllNextVisits DEF DrainsOK
<1>8. CASE CloseAllNext
  BY <1>1, <1>8, CloseAllNextVisits DEF DrainsOK
<1>9. CASE CloseOne
  BY <1>1, <1>9, CloseOneVisits DEF DrainsOK
<1>. QED
  BY <1>2, <1>3, <1>4, <1>5, <1>6, <1>7, <1>8, <1>9 DEF Next, Step

\* What close has flushed and what the last loop of _close_all has tried, in every reachable
\* state.
THEOREM LoopsAlways == Spec => []LoopInv
<1>1. Init => LoopInv
  <2>1. Init => call.op = "idle"
    BY DEF Init, Idle
  <2>. QED
    BY <2>1, InitIInv DEF LoopInv, DrainsOK, VisitsOK, Looping
<1>. QED
  BY <1>1, LoopKeeps, PTL DEF Spec

\* A close that succeeds leaves nothing in the buffer of the stream, nor of any stream that
\* gets its text, however the scripts branch and meet.
THEOREM CloseIsDrained == Spec => CloseDrains
<1>1. ASSUME LoopInv, [Next]_vars, NEW s \in Stream, call.op = "close", kind[s] # "closed",
             kind'[s] = "closed", NEW t \in Receivers(s)
      PROVE  Pending(t) = 0
  <2>1. kind' # kind
    BY <1>1
  <2>2. CloseEnd
    BY <1>1, <2>1 DEF Next, Step, vars, FlushStep, PutsStep, FlushEnd, UnbufferEnd, GetcRead, GetsRead,
       FlushAllNext, CloseAllNext, CloseOne, Finished, Took, store
  <2>3. Gone(call.st) /\ call.work = <<>>
    BY <2>1, <2>2 DEF CloseEnd, Stays, store, Finished
  <2>4. s = call.st
    BY <1>1, <2>3 DEF Gone, LoopInv, IInv, StoreOK
  <2>5. ToSet(call.work) = {}
    BY <2>3, ToSetEmpty
  <2>. QED
    BY <1>1, <2>4, <2>5 DEF LoopInv, DrainsOK
<1>2. LoopInv /\ [Next]_vars
        => [\A s \in Stream : call.op = "close" /\ kind[s] # "closed" /\ kind'[s] = "closed"
              => \A t \in Receivers(s) : Pending(t) = 0]_vars
  BY <1>1
<1>. QED
  BY <1>2, LoopsAlways, PTL DEF Spec, CloseDrains

\* _close_all ends when it has tried every stream still open, the swaps hide none, or by a
\* failure in the flush of one of them, which leaves the others as they are.
THEOREM CloseAllVisitsAll == Spec => CloseAllVisits
<1>. DEFINE Closing == {"flush_all", "close_all", "close_one", "abort_one"}
<1>1. ASSUME LoopInv, [Next]_vars, call.op \in Closing, call'.op = "idle"
      PROVE  ToSet(opens) \subseteq call.tried \/ res'.out \in Failures
  <2>1. call' # call
    BY <1>1
  <2>2. FlushStep \/ FlushAllNext \/ CloseAllNext \/ CloseOne
    BY <1>1, <2>1 DEF Next, Step, vars, PutsStep, FlushEnd, UnbufferEnd, GetcRead, GetsRead,
       CloseEnd, Finished
  <2>3. call \in CallType /\ call.pos \in Nat /\ opens \in Seq(Stream)
    BY <1>1 DEF LoopInv, IInv, CallOK, CallType, StoreOK
  <2>4. CASE FlushStep
    <3>1. call.op \in {"flush_all", "close_one"}
      BY <1>1, <2>4 DEF FlushStep
    <3>2. PICK h : h = Head(call.work)
      OBVIOUS
    <3>3. PICK o \in FlushOutcomes(h) :
            \/ o.out = "ok" /\ call' = [call EXCEPT !.work = Followed(h) \o Tail(@)]
            \/ o.out # "ok" /\ FlushFails(o.out, h)
      BY <2>4, <3>2 DEF FlushStep
    <3>4. o.out # "ok" /\ FlushFails(o.out, h)
      BY <1>1, <2>3, <3>1, <3>3 DEF CallType
    <3>5. o.out # "not_possible"
      BY <1>1, <2>3, <3>1, <3>4 DEF FlushFails, CallType
    <3>6. o.out \in Failures
      BY <3>3, <3>4, <3>5 DEF FlushOutcomes, Outcome, Failures
    <3>7. res' = Result(o.out, h)
      BY <3>4, <3>5 DEF FlushFails, Returns
    <3>. QED
      BY <3>6, <3>7 DEF Result
  <2>5. CASE CloseAllNext
    <3>1. call.op = "close_all"
      BY <2>5 DEF CloseAllNext, Finished
    <3>2. call.pos > Len(opens)
      BY <1>1, <2>3, <2>5 DEF CloseAllNext, CallType
    <3>3. DOMAIN opens = 1 .. Len(opens) /\ Len(opens) \in Nat
      BY <2>3
    <3>4. \A i \in 1 .. Len(opens) : i < call.pos
      BY <2>3, <3>2, <3>3
    <3>5. \A i \in 1 .. Len(opens) : opens[i] \in call.tried
      BY <1>1, <3>1, <3>4 DEF LoopInv, VisitsOK, Looping
    <3>. QED
      BY <3>3, <3>5 DEF ToSet
  <2>6. CASE FlushAllNext
    BY <1>1, <2>3, <2>6 DEF FlushAllNext, Finished, CallType
  <2>7. CASE CloseOne
    BY <1>1, <2>3, <2>7 DEF CloseOne, NextOne, Finished, CallType
  <2>. QED
    BY <2>2, <2>4, <2>5, <2>6, <2>7
<1>2. LoopInv /\ [Next]_vars
        => [call.op \in Closing /\ call'.op = "idle"
              => ToSet(opens) \subseteq call.tried \/ res'.out \in Failures]_vars
  BY <1>1
<1>. QED
  BY <1>2, LoopsAlways, PTL DEF Spec, CloseAllVisits
=============================================================================
