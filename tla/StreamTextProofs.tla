-------------------------- MODULE StreamTextProofs --------------------------
(***************************************************************************)
(* What the proofs about the text of a stream need of sequences: where a   *)
(* sequence is cut, what a window on a buffer holds, the first terminator  *)
(* in a text and the number of newlines of one.                            *)
(***************************************************************************)
EXTENDS StreamText, SequenceTheorems, FunctionTheorems, FiniteSetTheorems,
        WellFoundedInduction, TLAPS

-----------------------------------------------------------------------------
(* Cutting *)

LEMMA OneIsSeq ==
  ASSUME NEW S, NEW c \in S
  PROVE  <<c>> \in Seq(S) /\ Len(<<c>>) = 1 /\ <<c>>[1] = c
OBVIOUS

\* What was put together is cut where the parts met.
LEMMA CutConcat ==
  ASSUME NEW S, NEW s \in Seq(S), NEW r \in Seq(S)
  PROVE  /\ SubSeq(s \o r, 1, Len(s)) = s
         /\ SubSeq(s \o r, Len(s) + 1, Len(s \o r)) = r
<1> DEFINE q == s \o r
<1>1. q \in Seq(S) /\ Len(q) = Len(s) + Len(r)
      /\ \A i \in 1 .. Len(q) : q[i] = IF i <= Len(s) THEN s[i] ELSE r[i - Len(s)]
  BY ConcatProperties
<1>2. Len(s) \in Nat /\ Len(r) \in Nat
  OBVIOUS
<1> HIDE DEF q
<1>3. \A i \in 1 .. Len(q) : q[i] \in S
  BY <1>1, ElementOfSeq
<1>4. SubSeq(q, 1, Len(s)) = s
  <2>1. /\ SubSeq(q, 1, Len(s)) \in Seq(S) /\ Len(SubSeq(q, 1, Len(s))) = Len(s)
        /\ \A i \in 1 .. Len(s) : SubSeq(q, 1, Len(s))[i] = q[i]
    BY <1>1, <1>2, <1>3, SubSeqProperties
  <2>. QED  BY <1>1, <1>2, <2>1, SeqEqual
<1>5. SubSeq(q, Len(s) + 1, Len(q)) = r
  <2>1. /\ SubSeq(q, Len(s) + 1, Len(q)) \in Seq(S)
        /\ Len(SubSeq(q, Len(s) + 1, Len(q))) = Len(r)
        /\ \A i \in 1 .. Len(r) : SubSeq(q, Len(s) + 1, Len(q))[i] = q[Len(s) + i]
    BY <1>1, <1>2, <1>3, SubSeqProperties
  <2>. QED  BY <1>1, <1>2, <2>1, SeqEqual
<1>. QED  BY <1>4, <1>5 DEF q

\* A part of a sequence is a sequence.
LEMMA PartIsSeq ==
  ASSUME NEW S, NEW s \in Seq(S), NEW m \in Nat \ {0}, NEW n \in Int, n <= Len(s)
  PROVE  /\ SubSeq(s, m, n) \in Seq(S)
         /\ Len(SubSeq(s, m, n)) = IF m <= n THEN n - m + 1 ELSE 0
         /\ \A i \in 1 .. Len(SubSeq(s, m, n)) : SubSeq(s, m, n)[i] = s[m + i - 1]
<1>1. m \in Int /\ \A i \in m .. n : s[i] \in S
  BY ElementOfSeq
<1>. QED  BY <1>1, SubSeqProperties

\* A part is cut in two before its k-th character.
LEMMA CutPart ==
  ASSUME NEW S, NEW s \in Seq(S), NEW m \in Nat \ {0}, NEW n \in Int, n <= Len(s),
         NEW k \in 1 .. Len(SubSeq(s, m, n))
  PROVE  /\ SubSeq(s, m, n) = SubSeq(SubSeq(s, m, n), 1, k - 1) \o SubSeq(s, m + k - 1, n)
         /\ SubSeq(SubSeq(s, m, n), 1, k - 1) = SubSeq(s, m, m + k - 2)
<1>1. m <= n /\ k <= n - m + 1
  BY PartIsSeq
<1>2. SubSeq(s, m, m + k - 2) \o SubSeq(s, m + k - 2 + 1, n) = SubSeq(s, m, n)
  BY <1>1, ConcatAdjacentSubSeq
<1>3. m + k - 2 + 1 = m + k - 1
  OBVIOUS
<1>4. SubSeq(SubSeq(s, m, n), 1, k - 1) = SubSeq(s, m, m + k - 2)
  <2> DEFINE p == SubSeq(s, m, n)
             l == SubSeq(p, 1, k - 1)
             r == SubSeq(s, m, m + k - 2)
  <2>1. p \in Seq(S) /\ Len(p) = n - m + 1 /\ \A i \in 1 .. Len(p) : p[i] = s[m + i - 1]
    BY <1>1, PartIsSeq
  <2>2. r \in Seq(S) /\ Len(r) = k - 1 /\ \A i \in 1 .. Len(r) : r[i] = s[m + i - 1]
    BY <1>1, PartIsSeq
  <2> HIDE DEF p, r
  <2>3. l \in Seq(S) /\ Len(l) = k - 1 /\ \A i \in 1 .. Len(l) : l[i] = p[i]
    BY <2>1, <1>1, PartIsSeq
  <2> HIDE DEF l
  <2>4. l = r
    BY <2>1, <2>2, <2>3, <1>1, SeqEqual
  <2>. QED  BY <2>4 DEF l, r, p
<1>. QED  BY <1>2, <1>3, <1>4

\* A sequence is cut in two after its k-th character.
LEMMA CutAt ==
  ASSUME NEW S, NEW s \in Seq(S), NEW k \in 0 .. Len(s)
  PROVE  /\ s = SubSeq(s, 1, k) \o SubSeq(s, k + 1, Len(s))
         /\ SubSeq(s, 1, k) \in Seq(S) /\ Len(SubSeq(s, 1, k)) = k
         /\ SubSeq(s, k + 1, Len(s)) \in Seq(S)
<1>1. Len(s) \in Nat /\ k \in Nat /\ k + 1 \in Nat \ {0}
  OBVIOUS
<1>2. SubSeq(s, 1, k) \o SubSeq(s, k + 1, Len(s)) = SubSeq(s, 1, Len(s))
  <2>1. 1 \in 1 .. (Len(s) + 1) /\ k \in (1 - 1) .. Len(s) /\ Len(s) \in k .. Len(s)
    BY <1>1
  <2>. QED  BY <2>1, ConcatAdjacentSubSeq, Zenon
<1>3. SubSeq(s, 1, Len(s)) = s
  BY SubSeqFull
<1>4. SubSeq(s, 1, k) \in Seq(S) /\ Len(SubSeq(s, 1, k)) = k
  BY <1>1, PartIsSeq
<1>5. SubSeq(s, k + 1, Len(s)) \in Seq(S)
  BY <1>1, PartIsSeq
<1>. QED  BY <1>2, <1>3, <1>4, <1>5

\* The first character of a part.
LEMMA FirstOfPart ==
  ASSUME NEW S, NEW s \in Seq(S), NEW m \in Nat \ {0}, NEW n \in Int, n <= Len(s), m <= n
  PROVE  SubSeq(s, m, n) = <<s[m]>> \o SubSeq(s, m + 1, n) /\ s[m] \in S
BY SubSeqRecursiveFirst, ElementOfSeq
\* A text begins with its first part.
LEMMA FirstOfText ==
  ASSUME NEW S, NEW s \in Seq(S), NEW u \in Seq(S), Len(s) # 0
  PROVE  s \o u \in Seq(S) /\ s \o u # <<>> /\ (s \o u)[1] = s[1]
OBVIOUS
LEMMA EndIsSuffix ==
  ASSUME NEW S, NEW p \in Seq(S), NEW u \in Seq(S)
  PROVE  u \in Suffixes(p \o u)
<1>1. CASE u = <<>>
  BY <1>1 DEF Suffixes
<1>2. CASE u # <<>>
  <2>1. Len(p) + 1 \in 1 .. Len(p \o u)
    <3>1. Len(p \o u) = Len(p) + Len(u) /\ Len(p) \in Nat /\ Len(u) \in Nat /\ Len(u) # 0
      BY <1>2, ConcatProperties, EmptySeq
    <3>. QED  BY <3>1
  <2>2. u = SubSeq(p \o u, Len(p) + 1, Len(p \o u))
    BY CutConcat
  <2>. QED  BY <2>1, <2>2 DEF Suffixes
<1>. QED  BY <1>1, <1>2
-----------------------------------------------------------------------------
(* The first terminator *)

LEMMA LeastOfSet ==
  ASSUME NEW S, S \subseteq Nat, S # {}
  PROVE  Min(S) \in S /\ \A y \in S : Min(S) <= y
<1> DEFINE R == OpToRel(<, Nat)
<1>1. IsWellFoundedOn(R, Nat)
  BY NatLessThanWellFounded
<1>2. \E x \in S : \A y \in S : <<y, x>> \notin R
  <2> HIDE DEF R
  <2>. QED  BY <1>1, WFMin
<1>3. PICK x \in S : \A y \in S : <<y, x>> \notin R
  BY <1>2
<1>4. \A y \in S : x <= y
  <2> TAKE y \in S
  <2>1. x \in Nat /\ y \in Nat  OBVIOUS
  <2>2. ~(y < x)
    BY <1>3, <2>1 DEF OpToRel
  <2>. QED  BY <2>1, <2>2
<1>. QED  BY <1>4 DEF Min

\* Where a character of T comes first in s; 0: nowhere.  SelectInSeq with the test c \in T.
FirstIn(s, T) == LET I == {i \in 1 .. Len(s) : s[i] \in T}
                 IN  IF I # {} THEN Min(I) ELSE 0

LEMMA FirstInIs ==
  ASSUME NEW S, NEW s \in Seq(S), NEW T
  PROVE  /\ FirstIn(s, T) \in 0 .. Len(s)
         /\ FirstIn(s, T) # 0 => s[FirstIn(s, T)] \in T
         /\ FirstIn(s, T) # 0 => \A i \in 1 .. (FirstIn(s, T) - 1) : s[i] \notin T
         /\ FirstIn(s, T) = 0 => \A i \in 1 .. Len(s) : s[i] \notin T
<1> DEFINE I == {i \in 1 .. Len(s) : s[i] \in T}
<1>1. I \subseteq Nat /\ I \subseteq 1 .. Len(s) /\ Len(s) \in Nat
  OBVIOUS
<1>2. CASE I = {}
  <2>1. FirstIn(s, T) = 0
    BY <1>2 DEF FirstIn
  <2>. QED  BY <1>1, <1>2, <2>1
<1>3. CASE I # {}
  <2>1. FirstIn(s, T) = Min(I)
    BY <1>3 DEF FirstIn
  <2>2. FirstIn(s, T) \in I /\ \A y \in I : FirstIn(s, T) <= y
    <3> HIDE DEF I
    <3>. QED  BY <1>1, <1>3, <2>1, LeastOfSet
  <2>. QED  BY <1>1, <2>2
<1>. QED  BY <1>2, <1>3

LEMMA FirstInUnique ==
  ASSUME NEW S, NEW s \in Seq(S), NEW T, NEW k \in 1 .. Len(s), s[k] \in T,
         \A i \in 1 .. (k - 1) : s[i] \notin T
  PROVE  FirstIn(s, T) = k
<1>1. Len(s) \in Nat
  OBVIOUS
<1>2. FirstIn(s, T) \in 1 .. Len(s) /\ s[FirstIn(s, T)] \in T
      /\ \A i \in 1 .. (FirstIn(s, T) - 1) : s[i] \notin T
  BY FirstInIs, <1>1
<1>3. ~(FirstIn(s, T) < k) /\ ~(k < FirstIn(s, T))
  BY <1>1, <1>2
<1>. QED  BY <1>1, <1>2, <1>3

\* The longest prefix without a terminator: s, when a terminator or nothing follows it.
Prefix(q, T) == IF FirstIn(q, T) = 0 THEN q ELSE SubSeq(q, 1, FirstIn(q, T) - 1)

LEMMA PrefixIs ==
  ASSUME NEW S, NEW s \in Seq(S), NEW r \in Seq(S), NEW T,
         \A i \in 1 .. Len(s) : s[i] \notin T,
         r # <<>> => r[1] \in T
  PROVE  Prefix(s \o r, T) = s
<1> DEFINE q == s \o r
<1>1. q \in Seq(S) /\ Len(q) = Len(s) + Len(r)
      /\ \A i \in 1 .. Len(q) : q[i] = IF i <= Len(s) THEN s[i] ELSE r[i - Len(s)]
  BY ConcatProperties
<1>2. Len(s) \in Nat /\ Len(r) \in Nat /\ (r # <<>> => Len(r) # 0)
  BY EmptySeq
<1>3. CASE r = <<>>
  <2>1. q = s
    BY <1>3, ConcatEmptySeq
  <2>2. FirstIn(s, T) = 0
    BY FirstInIs
  <2>. QED  BY <2>1, <2>2 DEF Prefix
<1>4. CASE r # <<>>
  <2>1. Len(s) + 1 \in 1 .. Len(q) /\ q[Len(s) + 1] \in T
    BY <1>1, <1>2, <1>4
  <2>2. \A i \in 1 .. (Len(s) + 1 - 1) : q[i] \notin T
    BY <1>1, <1>2
  <2>3. FirstIn(q, T) = Len(s) + 1
    <3> HIDE DEF q
    <3>. QED  BY <1>1, <2>1, <2>2, FirstInUnique, SMTT(30)
  <2>4. Prefix(q, T) = SubSeq(q, 1, Len(s))
    BY <2>3, <1>2 DEF Prefix
  <2>. QED  BY <2>4, CutConcat
<1>. QED  BY <1>3, <1>4
-----------------------------------------------------------------------------
(* Newlines *)

NewlineAt(s) == {i \in 1 .. Len(s) : s[i] = Newline}

LEMMA NewlinesIsNat ==
  ASSUME NEW S, NEW s \in Seq(S)
  PROVE  /\ NewlineAt(s) \in SUBSET (1 .. Len(s)) /\ IsFiniteSet(NewlineAt(s))
         /\ Newlines(s) = Cardinality(NewlineAt(s)) /\ Newlines(s) \in Nat
<1>1. Len(s) \in Nat /\ IsFiniteSet(1 .. Len(s))
  BY FS_Interval
<1>2. NewlineAt(s) \in SUBSET (1 .. Len(s))
  BY DEF NewlineAt
<1>3. IsFiniteSet(NewlineAt(s))
  BY <1>1, <1>2, FS_Subset
<1>. QED  BY <1>2, <1>3, FS_CardinalityType DEF Newlines, NewlineAt

LEMMA NoNewlines ==
  ASSUME NEW S, NEW s \in Seq(S), \A i \in 1 .. Len(s) : s[i] # Newline
  PROVE  Newlines(s) = 0
<1>1. NewlineAt(s) = {}
  BY DEF NewlineAt
<1>. QED  BY <1>1, NewlinesIsNat, FS_EmptySet

LEMMA NewlinesOfEmpty == Newlines(<<>>) = 0
<1>1. NewlineAt(<<>>) = {}
  BY DEF NewlineAt
<1>2. Newlines(<<>>) = Cardinality(NewlineAt(<<>>))
  BY DEF Newlines, NewlineAt
<1>. QED  BY <1>1, <1>2, FS_EmptySet

LEMMA NewlinesOfOne ==
  ASSUME NEW c
  PROVE  Newlines(<<c>>) = IF c = Newline THEN 1 ELSE 0
<1>1. <<c>> \in Seq({c}) /\ Len(<<c>>) = 1 /\ <<c>>[1] = c
  OBVIOUS
<1>2. CASE c = Newline
  <2>1. NewlineAt(<<c>>) = {1}
    BY <1>1, <1>2 DEF NewlineAt
  <2>. QED  BY <1>1, <1>2, <2>1, NewlinesIsNat, FS_Singleton
<1>3. CASE c # Newline
  <2>1. NewlineAt(<<c>>) = {}
    BY <1>1, <1>3 DEF NewlineAt
  <2>. QED  BY <1>1, <1>3, <2>1, NewlinesIsNat, FS_EmptySet
<1>. QED  BY <1>2, <1>3

\* The newlines of two texts are those of the one and of the other.
LEMMA NewlinesOfConcat ==
  ASSUME NEW S, NEW s \in Seq(S), NEW t \in Seq(S)
  PROVE  Newlines(s \o t) = Newlines(s) + Newlines(t)
<1> DEFINE q == s \o t
           A == NewlineAt(s)
           B == NewlineAt(t)
           C == {i \in (Len(s) + 1) .. Len(q) : q[i] = Newline}
<1>1. q \in Seq(S) /\ Len(q) = Len(s) + Len(t)
      /\ \A i \in 1 .. Len(q) : q[i] = IF i <= Len(s) THEN s[i] ELSE t[i - Len(s)]
  BY ConcatProperties
<1>2. Len(s) \in Nat /\ Len(t) \in Nat
  OBVIOUS
<1> HIDE DEF q
<1>3. NewlineAt(q) = A \cup C /\ A \cap C = {}
  BY <1>1, <1>2 DEF NewlineAt
<1>4. IsFiniteSet(A) /\ IsFiniteSet(B)
  BY NewlinesIsNat
<1>5. IsFiniteSet(C) /\ Cardinality(C) = Cardinality(B)
  <2> DEFINE f == [i \in B |-> i + Len(s)]
  <2>1. f \in [B -> C]
    BY <1>1, <1>2 DEF NewlineAt
  <2>2. \A a, b \in B : f[a] = f[b] => a = b
    BY <1>2 DEF NewlineAt
  <2>3. \A c \in C : \E a \in B : f[a] = c
    <3> TAKE c \in C
    <3>1. c - Len(s) \in B
      BY <1>1, <1>2 DEF NewlineAt
    <3>2. f[c - Len(s)] = c
      BY <1>1, <1>2, <3>1
    <3>. QED  BY <3>1, <3>2
  <2>4. f \in Bijection(B, C)
    <3> HIDE DEF f, B, C
    <3>. QED  BY <2>1, <2>2, <2>3 DEF Bijection, Injection, Surjection, IsInjective
  <2>5. ExistsBijection(B, C)
    BY <2>4 DEF ExistsBijection
  <2>. QED  BY <1>4, <2>5, FS_Bijection
<1>6. Cardinality(A \cup C) = Cardinality(A) + Cardinality(C) - Cardinality(A \cap C)
  BY <1>4, <1>5, FS_Union
<1>7. Cardinality(A \cap C) = 0
  BY <1>3, FS_EmptySet
<1>8. Newlines(q) = Cardinality(A \cup C) /\ Newlines(s) = Cardinality(A)
      /\ Newlines(t) = Cardinality(B) /\ Newlines(s) \in Nat /\ Newlines(t) \in Nat
  BY <1>1, <1>3, NewlinesIsNat
<1>9. Newlines(q) = Newlines(s) + Newlines(t)
  <2> HIDE DEF A, B, C
  <2>. QED  BY <1>5, <1>6, <1>7, <1>8
<1>. QED  BY <1>9 DEF q

LEMMA NewlinesOfAppend ==
  ASSUME NEW S, NEW s \in Seq(S), NEW c \in S
  PROVE  Newlines(Append(s, c)) = Newlines(s) + (IF c = Newline THEN 1 ELSE 0)
<1>1. Append(s, c) = s \o <<c>> /\ <<c>> \in Seq(S)
  BY AppendIsConcat
<1>. QED  BY <1>1, NewlinesOfConcat, NewlinesOfOne
=============================================================================
