-------------------------- MODULE StringInputProofs --------------------------
(***************************************************************************)
(* What is true of a stream that reads a string, for any characters,       *)
(* terminators and string: it gives its text as a stream over a file does, *)
(* and counts its lines.                                                   *)
(***************************************************************************)
EXTENDS StringInput, StreamTextProofs

-----------------------------------------------------------------------------
(* The invariant *)

StringTypeOK ==
  /\ chars \in Seq(Char) /\ given \in Seq(Char)
  /\ index \in Nat \ {0} /\ line \in Nat
  /\ newln \in {Newline, Blank}
  /\ ingetl \in BOOLEAN /\ extra \in BOOLEAN

\* newln is decided by the string until its end is passed, a newline too many is given at the
\* end only, and the gets of a getl leaves a newline to be read.
PlaceOK ==
  /\ newln = Newline => NewlnOf(chars) = Newline
  /\ ~AtEnd => newln = NewlnOf(chars)
  /\ extra = TRUE => AtEnd /\ newln = Blank
  /\ ingetl = TRUE => IF AtEnd THEN newln = Newline ELSE chars[index] = Newline

StringInv == StringTypeOK /\ PlaceOK /\ StringLine

\* The added newline, as long as it has not been given.
Tail1 == IF newln = Newline THEN <<Newline>> ELSE <<>>

-----------------------------------------------------------------------------
(* The parts of the text *)

LEMMA CharsAre == Newline \in Char /\ Blank \notin Char /\ Newline # Blank
BY TextAssumption, BlankAssumption

LEMMA PartsAre ==
  ASSUME StringTypeOK
  PROVE  /\ Size \in Nat /\ Size = Len(chars)
         /\ Rest \in Seq(Char) /\ Tail1 \in Seq(Char) /\ Left \in Seq(Char)
         /\ Left = Rest \o Tail1
<1>1. Size \in Nat /\ Size = Len(chars)
  BY DEF StringTypeOK, Size
<1>2. Rest \in Seq(Char)
  BY <1>1, PartIsSeq DEF StringTypeOK, Rest
<1>3. Tail1 \in Seq(Char)
  BY CharsAre, OneIsSeq, EmptySeq DEF Tail1
<1>4. Left = Rest \o Tail1
  BY DEF Left, Tail1
<1>. QED  BY <1>1, <1>2, <1>3, <1>4, ConcatProperties

\* At the end of the string only the added newline is left.
LEMMA EndIs ==
  ASSUME StringTypeOK, AtEnd
  PROVE  Rest = <<>> /\ Left = Tail1
<1>1. Rest = <<>>
  BY PartsAre, SubSeqEmpty DEF StringTypeOK, AtEnd, Rest
<1>. QED  BY <1>1, PartsAre, ConcatEmptySeq

\* Before it, the next character.
LEMMA NextIs ==
  ASSUME StringTypeOK, ~AtEnd
  PROVE  /\ chars[index] \in Char /\ SubSeq(chars, index + 1, Size) \in Seq(Char)
         /\ Rest = <<chars[index]>> \o SubSeq(chars, index + 1, Size)
         /\ SubSeq(chars, index + 1, Size) \o Tail1 \in Seq(Char)
         /\ Left = <<chars[index]>> \o (SubSeq(chars, index + 1, Size) \o Tail1)
<1>1. index <= Size /\ Size \in Nat /\ Size = Len(chars) /\ index \in Nat \ {0}
  BY PartsAre DEF StringTypeOK, AtEnd
<1>2. Rest = <<chars[index]>> \o SubSeq(chars, index + 1, Size) /\ chars[index] \in Char
  BY <1>1, FirstOfPart DEF StringTypeOK, Rest
<1>3. index + 1 \in Nat \ {0}
  BY <1>1
<1>4. SubSeq(chars, index + 1, Size) \in Seq(Char)
  BY <1>1, <1>3, PartIsSeq DEF StringTypeOK
<1>5. PICK c \in Char : c = chars[index]
  BY <1>2
<1>6. PICK r \in Seq(Char), t \in Seq(Char) : r = SubSeq(chars, index + 1, Size) /\ t = Tail1
  BY <1>4, PartsAre
<1>7. (<<c>> \o r) \o t = <<c>> \o (r \o t) /\ r \o t \in Seq(Char)
  <2>1. PICK n \in Seq(Char) : n = <<c>>
    BY OneIsSeq
  <2>2. (n \o r) \o t = n \o (r \o t) /\ r \o t \in Seq(Char)
    BY SMTT(30)
  <2>. QED  BY <2>1, <2>2
<1>. QED  BY <1>2, <1>4, <1>5, <1>6, <1>7, PartsAre

\* What is left when the string has been read up to m, and when its end has been passed.
LEMMA LeftNextIs ==
  ASSUME chars' = chars, index' = index + 1
  PROVE  Left' = SubSeq(chars, index + 1, Size) \o Tail1'
BY DEF Left, Rest, Size, Tail1

LEMMA EndNextIs ==
  ASSUME StringTypeOK', AtEnd'
  PROVE  Left' = Tail1'
<1>1. index' \in Nat /\ Len(chars') \in Nat /\ Size' = Len(chars') /\ index' > Size'
  BY DEF StringTypeOK, AtEnd, Size
<1>2. Rest' = <<>>
  BY <1>1, SubSeqEmpty DEF Rest
<1>3. Tail1' \in Seq(Char)
  BY CharsAre, OneIsSeq, EmptySeq DEF Tail1
<1>4. Left' = Rest' \o Tail1'
  BY DEF Left, Tail1
<1>. QED  BY <1>2, <1>3, <1>4, ConcatEmptySeq

LEMMA FoundIs ==
  ASSUME NEW T
  PROVE  Found(T) = FirstIn(Rest, T)
BY DEF Found, FirstIn, SelectInSeq

\* The line number goes with the text that is given.
LEMMA LineKeeps ==
  ASSUME StringTypeOK, StringLine, NEW s \in Seq(Char), NEW r \in Seq(Char),
         Left = s \o r, Left' = r, given' = given \o s, line' = line + Newlines(s)
  PROVE  StringLine' /\ given' \in Seq(Char) /\ line' \in Nat
<1>1. given \in Seq(Char) /\ line \in Nat
  BY DEF StringTypeOK
<1>2. Newlines(s) \in Nat /\ Newlines(given) \in Nat
  BY <1>1, NewlinesIsNat
<1>3. Newlines(given \o s) = Newlines(given) + Newlines(s)
  BY <1>1, NewlinesOfConcat
<1>4. given' \in Seq(Char)
  BY <1>1, ConcatProperties
<1>5. ASSUME Left' # <<>> PROVE Left # <<>>
  <2>1. r # <<>>
    BY <1>5
  <2>2. s \o r # <<>>
    BY <2>1
  <2>. QED  BY <2>2
<1>6. StringLine'
  BY <1>1, <1>2, <1>3, <1>5 DEF StringLine
<1>. QED  BY <1>1, <1>2, <1>4, <1>6
-----------------------------------------------------------------------------
(* What each operation takes from the text, and where it leaves the stream *)

\* getc takes the next character.
LEMMA GetcTakes ==
  ASSUME StringInv, Getc
  PROVE  /\ extra = FALSE /\ extra' = FALSE /\ chars' = chars
         /\ StringTypeOK' /\ PlaceOK' /\ StringLine'
         /\ \E c \in Char, r \in Seq(Char) :
              /\ Left = <<c>> \o r /\ Left' = r
              /\ given' = given \o <<c>> /\ ret' = Returned(<<c>>)
<1>1. StringTypeOK /\ PlaceOK /\ StringLine
  BY DEF StringInv
<1>2. /\ ingetl = FALSE /\ index' = index + 1 /\ chars' = chars /\ ingetl' = FALSE
      /\ extra' = extra /\ line' = line + Newlines(ret'.text) /\ Size' = Size
      /\ Size \in Nat /\ index \in Nat \ {0} /\ extra \in BOOLEAN /\ newln \in {Newline, Blank}
  BY <1>1, PartsAre DEF Getc, StringTypeOK, Size
<1>3. ASSUME NEW c \in Char, NEW r \in Seq(Char), Left = <<c>> \o r, Left' = r, Gives(<<c>>),
             extra = FALSE, PlaceOK', newln' \in {Newline, Blank}
      PROVE  /\ StringTypeOK' /\ StringLine'
             /\ given' = given \o <<c>> /\ ret' = Returned(<<c>>)
  <2>1. given' = given \o <<c>> /\ ret' = Returned(<<c>>)
    BY <1>3 DEF Gives
  <2>2. line' = line + Newlines(<<c>>)
    BY <1>2, <2>1 DEF Returned
  <2>3. PICK s \in Seq(Char) : s = <<c>>
    BY OneIsSeq
  <2>4. StringLine' /\ given' \in Seq(Char) /\ line' \in Nat
    BY <1>1, <1>3, <2>1, <2>2, <2>3, LineKeeps
  <2>5. index' \in Nat \ {0}
    BY <1>2
  <2>6. ingetl' \in BOOLEAN /\ extra' \in BOOLEAN /\ newln' \in {Newline, Blank}
    BY <1>2, <1>3
  <2>7. StringTypeOK'
    BY <1>1, <1>2, <2>4, <2>5, <2>6 DEF StringTypeOK
  <2>. QED  BY <2>1, <2>4, <2>7
<1>4. CASE ~AtEnd /\ Gives(<<chars[index]>>) /\ UNCHANGED newln
  <2>1. PICK c \in Char, r \in Seq(Char) :
          c = chars[index] /\ r = SubSeq(chars, index + 1, Size) \o Tail1
    BY <1>1, <1>4, NextIs
  <2>2. Left = <<c>> \o r
    BY <1>1, <1>4, <2>1, NextIs
  <2>3. Left' = r
    BY <1>2, <1>4, <2>1, LeftNextIs DEF Tail1
  <2>4. extra = FALSE
    BY <1>1, <1>2, <1>4 DEF PlaceOK
  <2>5. PlaceOK'
    BY <1>1, <1>2, <1>4, <2>4 DEF PlaceOK, AtEnd
  <2>6. Gives(<<c>>) /\ newln' \in {Newline, Blank}
    BY <1>2, <1>4, <2>1
  <2>7. /\ StringTypeOK' /\ StringLine'
        /\ given' = given \o <<c>> /\ ret' = Returned(<<c>>)
    BY <1>3, <2>2, <2>3, <2>4, <2>5, <2>6
  <2>. QED  BY <1>1, <1>2, <2>2, <2>3, <2>4, <2>5, <2>7
<1>5. CASE AtEnd /\ newln = Newline /\ newln' = Blank /\ Gives(<<Newline>>)
  <2>1. PICK r \in Seq(Char) : r = <<>>
    BY EmptySeq
  <2>2. Left = <<Newline>> \o r
    BY <1>1, <1>5, <2>1, EndIs, CharsAre, OneIsSeq, ConcatEmptySeq DEF Tail1
  <2>3. extra = FALSE
    BY <1>1, <1>2, <1>5, CharsAre DEF PlaceOK
  <2>4. AtEnd'
    BY <1>2, <1>5 DEF AtEnd
  <2>5. PlaceOK'
    BY <1>2, <1>5, <2>3, <2>4, CharsAre DEF PlaceOK
  <2>6. Left' = r
    <3>1. Left' = SubSeq(chars, index + 1, Size) \o Tail1'
      BY <1>2, LeftNextIs
    <3>2. Tail1' = <<>>
      BY <1>5, CharsAre DEF Tail1
    <3>3. SubSeq(chars, index + 1, Size) = <<>>
      BY <1>2, <1>5, SubSeqEmpty DEF AtEnd
    <3>. QED  BY <2>1, <3>1, <3>2, <3>3, ConcatEmptySeq
  <2>7. /\ StringTypeOK' /\ StringLine'
        /\ given' = given \o <<Newline>> /\ ret' = Returned(<<Newline>>)
    BY <1>3, <1>5, <2>2, <2>3, <2>5, <2>6, CharsAre
  <2>. QED  BY <1>2, <2>2, <2>3, <2>5, <2>6, <2>7, CharsAre
<1>. QED  BY <1>4, <1>5 DEF Getc

\* peekc looks at it.
LEMMA PeekcTakes ==
  ASSUME StringInv, Peekc
  PROVE  /\ UNCHANGED <<chars, index, newln, line, ingetl, given, extra>> /\ extra = FALSE
         /\ \E c \in Char, r \in Seq(Char) : Left = <<c>> \o r /\ ret' = Returned(<<c>>)
<1>1. StringTypeOK /\ PlaceOK /\ newln \in {Newline, Blank} /\ extra \in BOOLEAN
  BY DEF StringInv, StringTypeOK
<1>2. UNCHANGED <<chars, index, newln, line, ingetl, given, extra>>
  BY DEF Peekc
<1>3. CASE ~AtEnd
  <2>1. PICK c \in Char, r \in Seq(Char) :
          c = chars[index] /\ r = SubSeq(chars, index + 1, Size) \o Tail1
    BY <1>1, <1>3, NextIs
  <2>2. Left = <<c>> \o r
    BY <1>1, <1>3, <2>1, NextIs
  <2>3. ret' = Returned(<<c>>)
    BY <1>3, <2>1 DEF Peekc
  <2>4. extra = FALSE
    BY <1>1, <1>3 DEF PlaceOK
  <2>. QED  BY <1>2, <2>2, <2>3, <2>4
<1>4. CASE AtEnd
  <2>1. newln = Newline /\ ret' = Returned(<<Newline>>)
    BY <1>4 DEF Peekc
  <2>2. PICK r \in Seq(Char) : r = <<>>
    BY EmptySeq
  <2>3. Left = <<Newline>> \o r
    BY <1>1, <1>4, <2>1, <2>2, EndIs, CharsAre, OneIsSeq, ConcatEmptySeq DEF Tail1
  <2>4. extra = FALSE
    BY <1>1, <2>1, CharsAre DEF PlaceOK
  <2>. QED  BY <1>2, <2>1, <2>3, <2>4, CharsAre
<1>. QED  BY <1>3, <1>4
\* What a gets has to show when it returns s, and r is left.
LEMMA GetsKeeps ==
  ASSUME StringInv, NEW getl \in BOOLEAN, NEW s \in Seq(Char), NEW r \in Seq(Char),
         NEW i \in Nat \ {0}, StrGets(getl, s, i),
         Left = s \o r, Left' = r, newln' \in {Newline, Blank}, extra' \in BOOLEAN
  PROVE  StringTypeOK' /\ StringLine'
<1>1. /\ given' = given \o s /\ index' = i /\ line' = line + Newlines(s) /\ ingetl' = getl
      /\ chars' = chars /\ StringTypeOK /\ StringLine
  BY DEF StrGets, Gives, StringInv
<1>2. StringLine' /\ given' \in Seq(Char) /\ line' \in Nat
  BY <1>1, LineKeeps
<1>3. index' \in Nat \ {0} /\ ingetl' \in BOOLEAN
  BY <1>1
<1>. QED  BY <1>1, <1>2, <1>3 DEF StringTypeOK

\* gets takes what comes before a terminator: here one that is in the string.
LEMMA FoundTakes ==
  ASSUME StringInv, NEW T, NEW getl \in BOOLEAN, getl = TRUE => T = {Newline},
         GetsFound(T, getl)
  PROVE  /\ extra = FALSE /\ extra' = FALSE /\ chars' = chars
         /\ StringTypeOK' /\ PlaceOK' /\ StringLine'
         /\ \E s \in Seq(Char), r \in Seq(Char) :
              /\ Left = s \o r /\ Left' = r /\ Left # <<>>
              /\ given' = given \o s /\ ret' = Returned(s)
              /\ \A i \in 1 .. Len(s) : s[i] \notin T
              /\ r # <<>> => r[1] \in T
<1> DEFINE k == Found(T)
<1> DEFINE m == index + k - 1
<1>1. StringTypeOK /\ PlaceOK
  BY DEF StringInv
<1>2. /\ chars \in Seq(Char) /\ Size \in Nat /\ Size = Len(chars) /\ index \in Nat \ {0}
      /\ Rest \in Seq(Char) /\ Tail1 \in Seq(Char) /\ extra \in BOOLEAN
      /\ newln \in {Newline, Blank} /\ Rest = SubSeq(chars, index, Size)
  BY <1>1, PartsAre DEF StringTypeOK, Rest
<1>3. /\ k \in 1 .. Len(Rest) /\ Rest[k] \in T
      /\ \A i \in 1 .. (k - 1) : Rest[i] \notin T
  <2>1. k = FirstIn(Rest, T) /\ k # 0
    BY FoundIs DEF GetsFound
  <2>2. k \in 0 .. Len(Rest) /\ Rest[k] \in T /\ \A i \in 1 .. (k - 1) : Rest[i] \notin T
    <3> HIDE DEF k
    <3>. QED  BY <1>2, <2>1, FirstInIs
  <2>. QED  BY <1>2, <2>1, <2>2
<1>4. /\ StrGets(getl, SubSeq(Rest, 1, k - 1), m) /\ newln' = newln /\ extra' = extra
  BY DEF GetsFound
<1> HIDE DEF k
<1>5. /\ index <= Size /\ Len(Rest) = Size - index + 1 /\ Rest[k] = chars[m]
  BY <1>2, <1>3, PartIsSeq
<1>6. m \in Nat \ {0} /\ m <= Size
  BY <1>2, <1>3, <1>5
<1>7. ~AtEnd /\ extra = FALSE
  BY <1>1, <1>2, <1>5 DEF AtEnd, PlaceOK
<1>8. /\ Rest = SubSeq(Rest, 1, k - 1) \o SubSeq(chars, m, Size)
      /\ SubSeq(Rest, 1, k - 1) \in Seq(Char) /\ SubSeq(chars, m, Size) \in Seq(Char)
  <2>1. k \in 1 .. Len(SubSeq(chars, index, Size)) /\ Size \in Int /\ Size <= Len(chars)
    BY <1>2, <1>3
  <2>2. Rest = SubSeq(Rest, 1, k - 1) \o SubSeq(chars, m, Size)
    BY <1>2, <2>1, CutPart
  <2>3. SubSeq(chars, m, Size) \in Seq(Char)
    BY <1>2, <1>6, <2>1, PartIsSeq
  <2>4. 1 \in Nat \ {0} /\ k - 1 \in Int /\ k - 1 <= Len(Rest)
    BY <1>2, <1>3
  <2>5. SubSeq(Rest, 1, k - 1) \in Seq(Char)
    BY <1>2, <2>4, PartIsSeq
  <2>. QED  BY <2>2, <2>3, <2>5
<1>9. PICK s \in Seq(Char), q \in Seq(Char), t \in Seq(Char) :
        s = SubSeq(Rest, 1, k - 1) /\ q = SubSeq(chars, m, Size) /\ t = Tail1
  BY <1>2, <1>8
<1>10. Left = s \o (q \o t) /\ q \o t \in Seq(Char)
  <2>1. (s \o q) \o t = s \o (q \o t) /\ q \o t \in Seq(Char)
    BY SMTT(30)
  <2>. QED  BY <1>1, <1>8, <1>9, <2>1, PartsAre
<1>11. PICK r \in Seq(Char) : r = q \o t
  BY <1>10
<1>12. chars' = chars /\ index' = m /\ given' = given \o s /\ ret' = Returned(s) /\ ingetl' = getl
  BY <1>4, <1>9 DEF StrGets, Gives
<1>13. Left' = r
  <2>1. Tail1' = Tail1 /\ Rest' = SubSeq(chars, m, Size)
    BY <1>4, <1>12 DEF Tail1, Rest, Size
  <2>2. Left' = Rest' \o Tail1'
    BY DEF Left, Tail1
  <2>. QED  BY <1>9, <1>11, <2>1, <2>2
<1>14. r # <<>> /\ r[1] \in T
  <2>1. q = <<chars[m]>> \o SubSeq(chars, m + 1, Size) /\ Len(q) # 0 /\ q[1] = chars[m]
    <3>1. PICK j \in Nat \ {0} : j = m
      BY <1>6
    <3>2. Size \in Int /\ Size <= Len(chars) /\ j <= Size
      BY <1>2, <1>6, <3>1
    <3>3. SubSeq(chars, j, Size) = <<chars[j]>> \o SubSeq(chars, j + 1, Size)
      BY <1>2, <3>2, FirstOfPart
    <3>4. /\ Len(SubSeq(chars, j, Size)) = Size - j + 1
          /\ \A i \in 1 .. Len(SubSeq(chars, j, Size)) : SubSeq(chars, j, Size)[i] = chars[j + i - 1]
      BY <1>2, <3>2, PartIsSeq
    <3>5. 1 \in 1 .. Len(SubSeq(chars, j, Size)) /\ j + 1 - 1 = j
      BY <3>2, <3>4
    <3>6. Len(SubSeq(chars, j, Size)) # 0 /\ SubSeq(chars, j, Size)[1] = chars[j]
      <4>1. PICK d : d = SubSeq(chars, j, Size)
        OBVIOUS
      <4>2. Len(d) = Size - j + 1 /\ \A i \in 1 .. Len(d) : d[i] = chars[j + i - 1]
        BY <3>4, <4>1
      <4>3. d[1] = chars[j + 1 - 1] /\ Len(d) # 0
        BY <1>2, <3>2, <3>5, <4>1, <4>2
      <4>. QED  BY <3>5, <4>1, <4>3
    <3>. QED  BY <1>9, <3>1, <3>3, <3>6
  <2>. QED  BY <1>3, <1>5, <1>11, <2>1, FirstOfText
<1>15. \A i \in 1 .. Len(s) : s[i] \notin T
  <2>1. Len(s) = k - 1 /\ \A i \in 1 .. Len(s) : s[i] = Rest[i]
    <3>1. 1 \in Nat \ {0} /\ k - 1 \in Int /\ k - 1 <= Len(Rest)
      BY <1>3
    <3>. QED  BY <1>2, <1>3, <1>9, <3>1, PartIsSeq
  <2>. QED  BY <1>3, <2>1
<1>16. Left # <<>>
  <2>1. s \o r # <<>>
    BY <1>14
  <2>. QED  BY <1>10, <1>11, <2>1
<1>17. StringTypeOK' /\ StringLine'
  <2>1. StrGets(getl, s, m)
    BY <1>4, <1>9
  <2>. QED  BY <1>2, <1>4, <1>6, <1>10, <1>11, <1>13, <2>1, GetsKeeps
<1>18. PlaceOK'
  <2>1. ~AtEnd' /\ newln' = NewlnOf(chars') /\ extra' = FALSE
    BY <1>1, <1>4, <1>6, <1>7, <1>12 DEF PlaceOK, AtEnd, Size
  <2>2. ingetl' = TRUE => chars'[index'] = Newline
    BY <1>3, <1>5, <1>12
  <2>. QED  BY <1>1, <1>4, <1>12, <2>1, <2>2 DEF PlaceOK
<1>19. Left = s \o r
  BY <1>10, <1>11
<1>. QED  BY <1>4, <1>7, <1>12, <1>13, <1>14, <1>15, <1>16, <1>17, <1>18, <1>19
\* Only the added newline is left: it is a terminator, or it is taken.
LEMMA NewlineTakes ==
  ASSUME StringInv, NEW T, NEW getl \in BOOLEAN, getl = TRUE => T = {Newline},
         GetsNewline(T, getl)
  PROVE  /\ extra = FALSE /\ extra' = FALSE /\ chars' = chars
         /\ StringTypeOK' /\ PlaceOK' /\ StringLine'
         /\ \E s \in Seq(Char), r \in Seq(Char) :
              /\ Left = s \o r /\ Left' = r /\ Left # <<>>
              /\ given' = given \o s /\ ret' = Returned(s)
              /\ \A i \in 1 .. Len(s) : s[i] \notin T
              /\ r # <<>> => r[1] \in T
<1>1. /\ StringTypeOK /\ PlaceOK /\ AtEnd /\ newln = Newline /\ extra' = extra
      /\ index \in Nat \ {0} /\ extra \in BOOLEAN /\ newln \in {Newline, Blank}
  BY DEF StringInv, StringTypeOK, GetsNewline
<1>2. extra = FALSE
  BY <1>1, CharsAre DEF PlaceOK
<1>3. PICK e \in Seq(Char), one \in Seq(Char) : e = <<>> /\ one = <<Newline>>
  BY CharsAre, OneIsSeq, EmptySeq
<1>4. Left = one /\ one # <<>> /\ Len(one) = 1 /\ one[1] = Newline
  BY <1>1, <1>3, EndIs, OneIsSeq, CharsAre DEF Tail1
<1>5. one = e \o one /\ one = one \o e
  BY <1>3, ConcatEmptySeq
<1>6. ASSUME NEW s \in Seq(Char), NEW r \in Seq(Char), one = s \o r, StrGets(getl, s, index),
             newln' = IF r = one THEN Newline ELSE Blank, r = one \/ r = <<>>,
             getl = TRUE => r = one,
             \A i \in 1 .. Len(s) : s[i] \notin T, r # <<>> => r[1] \in T
      PROVE  /\ StringTypeOK' /\ PlaceOK' /\ StringLine' /\ chars' = chars
             /\ \E q \in Seq(Char), t \in Seq(Char) :
                  /\ Left = q \o t /\ Left' = t /\ Left # <<>>
                  /\ given' = given \o q /\ ret' = Returned(q)
                  /\ \A i \in 1 .. Len(q) : q[i] \notin T
                  /\ t # <<>> => t[1] \in T
  <2>1. /\ chars' = chars /\ index' = index /\ ingetl' = getl /\ given' = given \o s
        /\ ret' = Returned(s)
    BY <1>6 DEF StrGets, Gives
  <2>2. AtEnd'
    BY <1>1, <2>1 DEF AtEnd, Size
  <2>3. Left' = r
    <3>1. Rest' = Rest /\ Rest = <<>>
      BY <1>1, <2>1, EndIs DEF Rest, Size
    <3>2. Tail1' = r
      BY <1>3, <1>4, <1>6, CharsAre DEF Tail1
    <3>3. Left' = Rest' \o Tail1'
      BY DEF Left, Tail1
    <3>. QED  BY <3>1, <3>2, <3>3, ConcatEmptySeq
  <2>4. newln' \in {Newline, Blank} /\ extra' \in BOOLEAN
    BY <1>1, <1>6
  <2>5. StringTypeOK' /\ StringLine'
    BY <1>1, <1>4, <1>6, <2>3, <2>4, GetsKeeps
  <2>6. newln' = Newline => NewlnOf(chars') = Newline
    BY <1>1, <2>1 DEF PlaceOK
  <2>7. ingetl' = TRUE => newln' = Newline
    BY <1>6, <2>1
  <2>8. PlaceOK'
    BY <1>1, <1>2, <2>2, <2>6, <2>7 DEF PlaceOK
  <2>. QED  BY <1>4, <1>6, <2>1, <2>3, <2>5, <2>8
<1>7. CASE Newline \in T
  <2>1. StrGets(getl, e, index) /\ newln' = Newline /\ getl \in BOOLEAN
    BY <1>1, <1>3, <1>7 DEF GetsNewline
  <2>2. \A i \in 1 .. Len(e) : e[i] \notin T
    BY <1>3
  <2>. QED  BY <1>1, <1>2, <1>4, <1>5, <1>6, <1>7, <2>1, <2>2
<1>8. CASE Newline \notin T
  <2>1. StrGets(getl, one, index) /\ newln' = Blank
    BY <1>1, <1>3, <1>8 DEF GetsNewline
  <2>2. \A i \in 1 .. Len(one) : one[i] \notin T
    BY <1>4, <1>8
  <2>3. getl # TRUE /\ e # one /\ e = <<>>
    BY <1>3, <1>4, <1>8
  <2>. QED  BY <1>1, <1>2, <1>4, <1>5, <1>6, <2>1, <2>2, <2>3
<1>. QED  BY <1>7, <1>8
\* No terminator: the rest of the string is taken, and the newline that is added to it.
LEMMA RestTakes ==
  ASSUME StringInv, NEW T, NEW getl \in BOOLEAN, getl = TRUE => T = {Newline},
         GetsRest(T, getl)
  PROVE  /\ extra = FALSE /\ chars' = chars /\ extra' \in BOOLEAN
         /\ StringTypeOK' /\ PlaceOK' /\ StringLine'
         /\ extra' = FALSE =>
              \E s \in Seq(Char), r \in Seq(Char) :
                /\ Left = s \o r /\ Left' = r /\ Left # <<>>
                /\ given' = given \o s /\ ret' = Returned(s)
                /\ \A i \in 1 .. Len(s) : s[i] \notin T
                /\ r # <<>> => r[1] \in T
<1>1. /\ StringTypeOK /\ PlaceOK /\ StringLine /\ ~AtEnd /\ Found(T) = 0
      /\ newln' = (IF Newline \in T THEN newln ELSE Blank)
      /\ StrGets(getl, IF Newline \in T THEN Rest ELSE Append(Rest, Newline), Size + 1)
  BY DEF StringInv, GetsRest
<1>2. /\ chars \in Seq(Char) /\ Size \in Nat /\ Size = Len(chars) /\ index \in Nat \ {0}
      /\ Rest \in Seq(Char) /\ Tail1 \in Seq(Char) /\ Rest = SubSeq(chars, index, Size)
  BY <1>1, PartsAre DEF StringTypeOK, Rest
<1>3. newln = NewlnOf(chars) /\ newln \in {Newline, Blank} /\ extra \in BOOLEAN
  BY <1>1 DEF PlaceOK, StringTypeOK
<1>4. extra = FALSE
  BY <1>1, <1>3 DEF PlaceOK
<1>5. extra' = (Newline \notin T /\ newln = Blank)
  BY <1>4 DEF GetsRest
<1>6. \A i \in 1 .. Len(Rest) : Rest[i] \notin T
  <2>1. FirstIn(Rest, T) = 0
    BY <1>1, FoundIs
  <2>. QED  BY <1>2, <2>1, FirstInIs
<1>7. /\ chars' = chars /\ index' = Size + 1 /\ ingetl' = getl /\ Size' = Size
  BY <1>1 DEF StrGets, Size
<1>8. AtEnd' /\ Size + 1 \in Nat \ {0}
  BY <1>2, <1>7 DEF AtEnd
<1>9. newln' \in {Newline, Blank} /\ extra' \in BOOLEAN
  BY <1>1, <1>3, <1>5
<1>10. PICK w \in Seq(Char), one \in Seq(Char), e \in Seq(Char) :
         w = Rest /\ one = <<Newline>> /\ e = <<>>
  BY <1>2, CharsAre, OneIsSeq, EmptySeq
<1>11. Append(Rest, Newline) = w \o one /\ w \o one \in Seq(Char)
  <2>1. Append(w, Newline) = w \o <<Newline>>
    BY AppendIsConcat, CharsAre
  <2>2. w \o one \in Seq(Char)
    OBVIOUS
  <2>. QED  BY <1>10, <2>1, <2>2
<1>12. w # <<>> /\ w \o one # <<>> /\ w \o e = w /\ (w \o one) \o e = w \o one
  <2>1. w # <<>>
    <3>1. Rest = <<chars[index]>> \o SubSeq(chars, index + 1, Size)
          /\ chars[index] \in Char /\ SubSeq(chars, index + 1, Size) \in Seq(Char)
      BY <1>1, NextIs
    <3>2. PICK c \in Char, r \in Seq(Char) : c = chars[index] /\ r = SubSeq(chars, index + 1, Size)
      BY <3>1
    <3>3. <<c>> \o r # <<>>
      OBVIOUS
    <3>. QED  BY <1>10, <3>1, <3>2, <3>3
  <2>2. w \o e = w /\ (w \o one) \o e = w \o one
    BY <1>10, <1>11, ConcatEmptySeq
  <2>3. w \o one # <<>>
    BY <2>1
  <2>. QED  BY <2>1, <2>2, <2>3
<1>13. Left = w \o (IF newln = Newline THEN one ELSE e)
  BY <1>1, <1>10, PartsAre DEF Tail1
<1>14. newln' = Newline => NewlnOf(chars') = Newline
  BY <1>1, <1>3, <1>7, CharsAre
\* A newline is left by the gets of a getl: a string that ends in none has one more.
<1>15. ingetl' = TRUE => newln' = Newline
  <2>1. SUFFICES ASSUME getl = TRUE PROVE newln' = Newline
    BY <1>7
  <2>2. T = {Newline} /\ newln' = newln
    BY <1>1, <2>1
  <2>3. Len(Rest) = Size - index + 1 /\ index <= Size
    BY <1>1, <1>2, PartIsSeq DEF AtEnd
  <2>4. Rest[Len(Rest)] = chars[Size]
    <3>1. Len(Rest) \in 1 .. Len(Rest) /\ index + Len(Rest) - 1 = Size
      BY <1>2, <2>3
    <3>2. \A i \in 1 .. Len(Rest) : Rest[i] = chars[index + i - 1]
      BY <1>2, PartIsSeq
    <3>. QED  BY <3>1, <3>2
  <2>5. chars[Len(chars)] # Newline
    <3>1. Len(Rest) \in 1 .. Len(Rest)
      BY <1>2, <2>3
    <3>2. Rest[Len(Rest)] \notin T
      BY <1>6, <3>1
    <3>. QED  BY <1>2, <2>2, <2>4, <3>2
  <2>6. chars # <<>>
    BY <1>2, <2>3
  <2>. QED  BY <1>3, <2>2, <2>5, <2>6 DEF NewlnOf
<1>16. PlaceOK'
  <2>1. extra' = TRUE => newln' = Blank
    BY <1>1, <1>5
  <2>. QED  BY <1>8, <1>14, <1>15, <2>1 DEF PlaceOK
<1>17. ASSUME NEW s \in Seq(Char), NEW r \in Seq(Char), Left = s \o r,
              StrGets(getl, s, Size + 1), r = (IF newln' = Newline THEN <<Newline>> ELSE <<>>)
       PROVE  /\ StringTypeOK' /\ StringLine' /\ Left' = r
              /\ given' = given \o s /\ ret' = Returned(s)
  <2>1. Left' = r
    <3>1. Rest' = <<>>
      BY <1>2, <1>7, SubSeqEmpty DEF Rest
    <3>2. Left' = Rest' \o Tail1' /\ Tail1' = r
      BY <1>17 DEF Left, Tail1
    <3>. QED  BY <3>1, <3>2, ConcatEmptySeq
  <2>2. StringTypeOK' /\ StringLine'
    BY <1>8, <1>9, <1>17, <2>1, GetsKeeps
  <2>. QED  BY <1>17, <2>1, <2>2 DEF StrGets, Gives
<1>18. Left # <<>>
  BY <1>12, <1>13, <1>3
<1>19. CASE Newline \in T
  <2>1. StrGets(getl, w, Size + 1) /\ newln' = newln
    BY <1>1, <1>10, <1>19
  <2>2. PICK r \in Seq(Char) : r = IF newln' = Newline THEN one ELSE e
    OBVIOUS
  <2>3. /\ StringTypeOK' /\ StringLine' /\ Left' = r
        /\ given' = given \o w /\ ret' = Returned(w)
    BY <1>10, <1>13, <1>17, <2>1, <2>2
  <2>4. r # <<>> => r[1] \in T
    BY <1>10, <1>19, <2>2
  <2>5. Left = w \o r
    BY <1>13, <2>1, <2>2
  <2>. QED  BY <1>4, <1>6, <1>7, <1>9, <1>10, <1>16, <1>18, <2>3, <2>4, <2>5
<1>20. CASE Newline \notin T /\ newln = Newline
  <2>1. PICK s \in Seq(Char) : s = w \o one
    BY <1>11
  <2>2. StrGets(getl, s, Size + 1) /\ newln' = Blank
    BY <1>1, <1>11, <1>20, <2>1
  <2>3. Left = s \o e
    BY <1>12, <1>13, <1>20, <2>1
  <2>4. /\ StringTypeOK' /\ StringLine' /\ Left' = e
        /\ given' = given \o s /\ ret' = Returned(s)
    BY <1>10, <1>17, <2>2, <2>3, CharsAre
  <2>5. \A i \in 1 .. Len(s) : s[i] \notin T
    <3>1. /\ Len(w \o one) = Len(w) + 1
          /\ \A i \in 1 .. (Len(w) + 1) : (w \o one)[i] = IF i <= Len(w) THEN w[i] ELSE one[i - Len(w)]
      BY <1>10, ConcatProperties
    <3>2. TAKE i \in 1 .. Len(s)
    <3>3. CASE i <= Len(w)
      BY <1>6, <1>10, <2>1, <3>1, <3>3
    <3>4. CASE ~(i <= Len(w))
      <4>1. i - Len(w) = 1
        BY <2>1, <3>1, <3>4
      <4>2. s[i] = Newline
        BY <1>10, <2>1, <3>1, <3>4, <4>1
      <4>. QED  BY <1>20, <4>2
    <3>. QED  BY <3>3, <3>4
  <2>. QED  BY <1>4, <1>7, <1>9, <1>10, <1>16, <1>18, <2>3, <2>4, <2>5
\* The newline that is given here is one too many.
<1>21. CASE Newline \notin T /\ newln = Blank
  <2>1. extra' = TRUE
    BY <1>5, <1>21
  <2>2. PICK s \in Seq(Char) : s = w \o one
    BY <1>11
  <2>3. StrGets(getl, s, Size + 1) /\ newln' = Blank
    BY <1>1, <1>11, <1>21, <2>2
  <2>4. Left' = <<>>
    BY <1>8, <1>2, <1>7, <2>3, SubSeqEmpty, CharsAre, EmptySeq, ConcatEmptySeq DEF Left, Rest
  <2>5. StringLine'
    BY <2>4 DEF StringLine
  <2>6. given' = given \o s /\ line' = line + Newlines(s)
    BY <2>3 DEF StrGets, Gives
  <2>7. given' \in Seq(Char) /\ line' \in Nat
    BY <1>1, <2>6, NewlinesIsNat, ConcatProperties, SMTT(30) DEF StringTypeOK
  <2>8. StringTypeOK'
    BY <1>1, <1>7, <1>8, <1>9, <2>7 DEF StringTypeOK
  <2>. QED  BY <1>4, <1>7, <1>9, <1>16, <2>1, <2>5, <2>8
<1>. QED  BY <1>3, <1>19, <1>20, <1>21
\* The terminators the client may name, and that of getl.
Terms == Term \cup {{Newline}}

LEMMA GetsTakes ==
  ASSUME StringInv, NEW T \in Terms, NEW getl \in BOOLEAN, getl = TRUE => T = {Newline},
         StrGet(T, getl)
  PROVE  /\ extra = FALSE /\ chars' = chars /\ extra' \in BOOLEAN
         /\ StringTypeOK' /\ PlaceOK' /\ StringLine'
         /\ extra' = FALSE =>
              \E s \in Seq(Char), r \in Seq(Char) :
                /\ Left = s \o r /\ Left' = r /\ Left # <<>>
                /\ given' = given \o s /\ ret' = Returned(s)
                /\ \A i \in 1 .. Len(s) : s[i] \notin T
                /\ r # <<>> => r[1] \in T
<1>1. CASE GetsFound(T, getl)
  BY <1>1, FoundTakes
<1>2. CASE GetsNewline(T, getl)
  BY <1>2, NewlineTakes
<1>3. CASE GetsRest(T, getl)
  BY <1>3, RestTakes
<1>. QED  BY <1>1, <1>2, <1>3 DEF StrGet

\* The end of getl takes the newline its gets has left.
LEMMA GetlEndTakes ==
  ASSUME StringInv, GetlEnd
  PROVE  /\ extra = FALSE /\ extra' = FALSE /\ chars' = chars /\ ret' = ret
         /\ StringTypeOK' /\ PlaceOK' /\ StringLine'
         /\ \E r \in Seq(Char) :
              Left = <<Newline>> \o r /\ Left' = r /\ given' = given \o <<Newline>>
<1>1. StringTypeOK /\ PlaceOK /\ StringLine
  BY DEF StringInv
<1>2. /\ ingetl = TRUE /\ ingetl' = FALSE /\ UNCHANGED <<chars, ret, extra>>
      /\ Size' = Size /\ Size \in Nat /\ index \in Nat \ {0} /\ newln \in {Newline, Blank}
      /\ extra \in BOOLEAN /\ given \in Seq(Char) /\ line \in Nat
  BY <1>1, PartsAre DEF GetlEnd, StringTypeOK, Size
<1>3. CASE AtEnd /\ newln' = Blank /\ given' = Append(given, Newline) /\ UNCHANGED <<index, line>>
  <2>1. newln = Newline /\ extra = FALSE
    BY <1>1, <1>2, <1>3, CharsAre DEF PlaceOK
  <2>2. PICK r \in Seq(Char), one \in Seq(Char) : r = <<>> /\ one = <<Newline>>
    BY CharsAre, OneIsSeq, EmptySeq
  <2>3. Left = one \o r
    BY <1>1, <1>3, <2>1, <2>2, EndIs, ConcatEmptySeq DEF Tail1
  <2>4. given' = given \o one
    BY <1>2, <1>3, <2>2, AppendIsConcat, CharsAre
  <2>5. given' \in Seq(Char)
    BY <1>2, <2>4, ConcatProperties
  <2>6. StringTypeOK'
    BY <1>1, <1>2, <1>3, <2>5 DEF StringTypeOK
  <2>7. AtEnd'
    BY <1>2, <1>3 DEF AtEnd
  <2>8. Left' = r
    BY <1>3, <2>2, <2>6, <2>7, EndNextIs, CharsAre DEF Tail1
  <2>9. PlaceOK' /\ StringLine'
    BY <1>2, <1>3, <2>1, <2>2, <2>7, <2>8, CharsAre DEF PlaceOK, StringLine
  <2>. QED  BY <1>2, <2>1, <2>2, <2>3, <2>4, <2>6, <2>8, <2>9
<1>4. CASE ~AtEnd /\ index' = index + 1 /\ line' = line + 1
           /\ given' = Append(given, chars[index]) /\ UNCHANGED newln
  <2>1. chars[index] = Newline /\ extra = FALSE
    BY <1>1, <1>2, <1>4 DEF PlaceOK
  <2>2. PICK r \in Seq(Char), one \in Seq(Char) :
          r = SubSeq(chars, index + 1, Size) \o Tail1 /\ one = <<Newline>>
    BY <1>1, <1>4, NextIs, CharsAre, OneIsSeq
  <2>3. Left = one \o r
    BY <1>1, <1>4, <2>1, <2>2, NextIs
  <2>4. Left' = r
    BY <1>2, <1>4, <2>2, LeftNextIs DEF Tail1
  <2>5. given' = given \o one
    BY <1>2, <1>4, <2>1, <2>2, AppendIsConcat, CharsAre
  <2>6. line' = line + Newlines(one)
    BY <1>4, <2>2, NewlinesOfOne
  <2>7. StringLine' /\ given' \in Seq(Char) /\ line' \in Nat
    BY <1>1, <2>3, <2>4, <2>5, <2>6, LineKeeps
  <2>8. index' \in Nat \ {0}
    BY <1>2, <1>4
  <2>9. StringTypeOK'
    BY <1>1, <1>2, <1>4, <2>7, <2>8 DEF StringTypeOK
  <2>10. PlaceOK'
    BY <1>1, <1>2, <1>4, <2>1 DEF PlaceOK, AtEnd
  <2>. QED  BY <1>2, <2>1, <2>2, <2>3, <2>4, <2>5, <2>7, <2>9, <2>10
<1>. QED  BY <1>3, <1>4 DEF GetlEnd, LineAfterGetl

\* reset, and the start: all of the text is left.
LEMMA WholeIs ==
  ASSUME NEW q \in Seq(Char)
  PROVE  Whole(q) \in Seq(Char)
         /\ Whole(q) = q \o (IF NewlnOf(q) = Newline THEN <<Newline>> ELSE <<>>)
<1>1. Append(q, Newline) = q \o <<Newline>> /\ Append(q, Newline) \in Seq(Char)
  BY AppendIsConcat, CharsAre
<1>2. q \o <<>> = q
  BY ConcatEmptySeq
<1>. QED  BY <1>1, <1>2 DEF Whole

LEMMA NewlnOfIs == ASSUME NEW q PROVE NewlnOf(q) \in {Newline, Blank}
BY DEF NewlnOf

LEMMA ResetTakes ==
  ASSUME StringInv, Reset
  PROVE  /\ extra' = FALSE /\ chars' = chars /\ given' = <<>> /\ ret' = Returned(<<>>)
         /\ StringTypeOK' /\ PlaceOK' /\ StringLine' /\ Left' = Whole(chars)
<1>1. /\ chars \in Seq(Char) /\ ingetl = FALSE /\ index' = 1 /\ line' = 1 /\ newln' = NewlnOf(chars)
      /\ ret' = Returned(<<>>) /\ given' = <<>> /\ extra' = FALSE /\ chars' = chars
      /\ ingetl' = FALSE
  BY DEF StringInv, StringTypeOK, Reset
<1>2. StringTypeOK'
  <2>1. newln' \in {Newline, Blank}
    BY <1>1, NewlnOfIs
  <2>2. given' \in Seq(Char)
    BY <1>1, EmptySeq
  <2>3. index' \in Nat \ {0} /\ line' \in Nat
    BY <1>1
  <2>4. ingetl' \in BOOLEAN /\ extra' \in BOOLEAN /\ chars' \in Seq(Char)
    BY <1>1
  <2>. QED  BY <2>1, <2>2, <2>3, <2>4 DEF StringTypeOK
<1>3. PlaceOK'
  BY <1>1 DEF PlaceOK
<1>4. StringLine'
  BY <1>1, NewlinesOfEmpty DEF StringLine
<1>5. Rest' = chars
  BY <1>1, SubSeqFull DEF Rest, Size
<1>6. Left' = Whole(chars)
  BY <1>1, <1>5, WholeIs DEF Left
<1>. QED  BY <1>1, <1>2, <1>3, <1>4, <1>6

-----------------------------------------------------------------------------
(* The invariant holds *)

LEMMA StringStart ==
  ASSUME Init
  PROVE  StringInv /\ extra = FALSE /\ Left = Whole(chars)
<1>1. chars \in Seq(Char)
  <2>1. \E n \in Nat : chars \in [1 .. n -> Char]
    BY TextAssumption DEF Init, Texts, BoundedSeq, SeqOf
  <2>. QED  BY <2>1
<1>2. StringTypeOK
  <2>1. newln \in {Newline, Blank}
    BY NewlnOfIs DEF Init
  <2>2. given \in Seq(Char)
    BY EmptySeq DEF Init
  <2>3. index \in Nat \ {0} /\ line \in Nat
    BY DEF Init
  <2>4. ingetl \in BOOLEAN /\ extra \in BOOLEAN
    BY DEF Init
  <2>. QED  BY <1>1, <2>1, <2>2, <2>3, <2>4 DEF StringTypeOK
<1>3. PlaceOK
  BY DEF Init, PlaceOK
<1>4. StringLine
  BY NewlinesOfEmpty DEF Init, StringLine
<1>5. Rest = chars
  BY <1>1, SubSeqFull DEF Init, Rest, Size
<1>6. Left = Whole(chars)
  BY <1>1, <1>5, WholeIs DEF Init, Left
<1>. QED  BY <1>2, <1>3, <1>4, <1>6 DEF Init, StringInv

LEMMA StringKeeps ==
  ASSUME StringInv, [Next]_vars
  PROVE  StringInv'
<1>1. CASE Getc
  BY <1>1, GetcTakes DEF StringInv
<1>2. CASE UNCHANGED <<chars, index, newln, line, ingetl, given, extra>>
  BY <1>2 DEF StringInv, StringTypeOK, PlaceOK, StringLine, Left, Rest, AtEnd, Size
<1>3. CASE Reset
  BY <1>3, ResetTakes DEF StringInv
<1>4. CASE GetlEnd
  BY <1>4, GetlEndTakes DEF StringInv
<1>5. ASSUME NEW T \in Terms, NEW getl \in BOOLEAN, getl = TRUE => T = {Newline}, StrGet(T, getl)
      PROVE  StringInv'
  BY <1>5, GetsTakes DEF StringInv
<1>6. ASSUME NEW T \in Term, StrGet(T, FALSE)
      PROVE  StringInv'
  BY <1>5, <1>6 DEF Terms
<1>7. CASE StrGet({Newline}, TRUE)
  BY <1>5, <1>7 DEF Terms
<1>. QED
  BY <1>1, <1>2, <1>3, <1>4, <1>6, <1>7 DEF Next, Peekc, EndOfFile, Signals, vars

\* The invariant of a stream that reads a string.
THEOREM StringAlways == Spec => []StringInv
<1>1. Init => StringInv
  BY StringStart
<1>2. StringInv /\ [Next]_vars => StringInv'
  BY StringKeeps
<1>. QED  BY <1>1, <1>2, PTL DEF Spec

\* The line number is that of the line about to be read (get_lineno, the sbuf of stream.clu),
\* as long as there is one.
THEOREM StringLinesCounted == Spec => []StringLine
<1>1. StringInv => StringLine
  BY DEF StringInv
<1>. QED  BY <1>1, StringAlways, PTL
-----------------------------------------------------------------------------
(* The stream gives its text once and in order *)

\* What is left to the abstract reader.
Remains == IF extra THEN <<>> ELSE Left

LEMMA GiveIs ==
  ASSUME extra = FALSE, extra' = FALSE,
         NEW s \in Seq(Char), NEW r \in Seq(Char), Left = s \o r, Left' = r,
         given' = given \o s
  PROVE  Reader!Give(Len(s))
<1>1. Remains = s \o r /\ Remains' = r
  BY DEF Remains
<1>. QED  BY <1>1, CutConcat DEF Reader!Give, Remains

\* A step of the abstract reader while the promise stands.
LEMMA PromisedStep ==
  ASSUME chars' = chars, extra = FALSE, extra' = FALSE,
         \/ Reader!Getc \/ Reader!Peekc \/ Reader!Gets \/ Reader!TakeNewline
         \/ Reader!EndOfFile \/ Reader!Reset
  PROVE  Reader!Next
BY DEF Reader!Next

LEMMA GetcSim ==
  ASSUME StringInv, Getc
  PROVE  Reader!Next
<1>1. extra = FALSE /\ extra' = FALSE /\ chars' = chars
  BY GetcTakes
<1>2. PICK c \in Char, r \in Seq(Char) :
        Left = <<c>> \o r /\ Left' = r /\ given' = given \o <<c>> /\ ret' = Returned(<<c>>)
  BY GetcTakes
<1>3. <<c>> \in Seq(Char) /\ Len(<<c>>) = 1 /\ Left # <<>> /\ Head(Left) = c
  BY <1>2, OneIsSeq
<1>4. Reader!Give(1)
  BY <1>1, <1>2, <1>3, GiveIs
<1>5. Reader!Getc
  BY <1>1, <1>2, <1>3, <1>4 DEF Reader!Getc, Reader!Returned, Returned
<1>. QED  BY <1>1, <1>5, PromisedStep

LEMMA PeekcSim ==
  ASSUME StringInv, Peekc
  PROVE  Reader!Next
<1>1. UNCHANGED <<chars, index, newln, given, extra>> /\ extra = FALSE
  BY PeekcTakes
<1>2. PICK c \in Char, r \in Seq(Char) : Left = <<c>> \o r /\ ret' = Returned(<<c>>)
  BY PeekcTakes
<1>3. Left # <<>> /\ Head(Left) = c
  BY <1>2, OneIsSeq
<1>4. Left' = Left
  BY <1>1 DEF Left, Rest, Size
<1>5. Reader!Peekc
  BY <1>1, <1>2, <1>3, <1>4 DEF Reader!Peekc, Reader!Returned, Returned
<1>. QED  BY <1>1, <1>5, PromisedStep

LEMMA GetsSim ==
  ASSUME StringInv, NEW T \in Terms, NEW getl \in BOOLEAN, getl = TRUE => T = {Newline},
         StrGet(T, getl)
  PROVE  Reader!Next
<1>1. extra = FALSE /\ chars' = chars /\ extra' \in BOOLEAN
  BY GetsTakes
<1>2. CASE extra' = TRUE
  BY <1>1, <1>2 DEF Reader!Next, Reader!Spoil
<1>3. CASE extra' = FALSE
  <2>1. PICK s \in Seq(Char), r \in Seq(Char) :
          /\ Left = s \o r /\ Left' = r /\ Left # <<>>
          /\ given' = given \o s /\ ret' = Returned(s)
          /\ \A i \in 1 .. Len(s) : s[i] \notin T
          /\ r # <<>> => r[1] \in T
    BY <1>3, GetsTakes
  <2>2. Reader!Give(Len(s))
    BY <1>1, <1>3, <2>1, GiveIs
  <2>3. Reader!UpTo(Left, T) = s
    <3>1. Reader!UpTo(Left, T) = Prefix(Left, T)
      BY DEF Reader!UpTo, Reader!SelectInSeq, Reader!Min, Prefix, FirstIn, Min
    <3>. QED  BY <2>1, <3>1, PrefixIs
  <2>4. T \in Term \cup {{Newline}}
    BY DEF Terms
  <2>5. Reader!Gets
    BY <1>1, <2>1, <2>2, <2>3, <2>4 DEF Reader!Gets, Reader!Returned, Returned
  <2>. QED  BY <1>1, <1>3, <2>5, PromisedStep
<1>. QED  BY <1>1, <1>2, <1>3

LEMMA GetlEndSim ==
  ASSUME StringInv, GetlEnd
  PROVE  Reader!Next
<1>1. extra = FALSE /\ extra' = FALSE /\ chars' = chars /\ ret' = ret
  BY GetlEndTakes
<1>2. PICK r \in Seq(Char) :
        Left = <<Newline>> \o r /\ Left' = r /\ given' = given \o <<Newline>>
  BY GetlEndTakes
<1>3. /\ <<Newline>> \in Seq(Char) /\ Len(<<Newline>>) = 1
      /\ Left # <<>> /\ Head(Left) = Newline
  BY <1>2, CharsAre, OneIsSeq
<1>4. Reader!Give(1)
  BY <1>1, <1>2, <1>3, GiveIs
<1>5. Reader!TakeNewline
  BY <1>1, <1>3, <1>4 DEF Reader!TakeNewline
<1>. QED  BY <1>1, <1>5, PromisedStep

\* The end of the file is signalled when nothing is left.
LEMMA EndOfFileSim ==
  ASSUME StringInv, EndOfFile
  PROVE  Reader!Next
<1>1. /\ StringTypeOK /\ AtEnd /\ newln = Blank /\ ret' = Signalled("end_of_file")
      /\ UNCHANGED <<chars, index, newln, given, extra>> /\ extra \in BOOLEAN
  BY DEF StringInv, StringTypeOK, EndOfFile, Signals
<1>2. Left = <<>>
  BY <1>1, EndIs, CharsAre DEF Tail1
<1>3. Left' = Left
  BY <1>1 DEF Left, Rest, Size
<1>4. CASE extra = FALSE
  <2>1. Reader!EndOfFile
    BY <1>1, <1>2, <1>3, <1>4 DEF Reader!EndOfFile, Reader!Signalled, Signalled
  <2>. QED  BY <1>1, <1>4, <2>1, PromisedStep
<1>5. CASE extra = TRUE
  BY <1>1, <1>5 DEF Reader!Next
<1>. QED  BY <1>1, <1>4, <1>5

LEMMA ResetSim ==
  ASSUME StringInv, Reset
  PROVE  Reader!Next
<1>1. /\ extra' = FALSE /\ chars' = chars /\ given' = <<>> /\ ret' = Returned(<<>>)
      /\ Left' = Whole(chars)
  BY ResetTakes
<1>2. chars \in Seq(Char) /\ extra \in BOOLEAN
  BY DEF StringInv, StringTypeOK
<1>3. CASE extra = FALSE
  <2>1. Reader!Reset
    BY <1>1, <1>3 DEF Reader!Reset, Reader!Returned, Returned
  <2>. QED  BY <1>1, <1>3, <2>1, PromisedStep
<1>4. CASE extra = TRUE
  <2>1. PICK w \in Seq(Char) : w = Whole(chars)
    BY <1>2, WholeIs
  <2>2. w \in Suffixes(w)
    <3>1. PICK e \in Seq(Char) : e = <<>>
      BY EmptySeq
    <3>2. w = e \o w
      BY <3>1, ConcatEmptySeq
    <3>. QED  BY <3>2, EndIsSuffix
  <2>3. Whole(chars) \in Reader!Suffixes(Whole(chars))
    BY <2>1, <2>2 DEF Reader!Suffixes, Suffixes
  <2>. QED  BY <1>1, <1>4, <2>3 DEF Reader!Next
<1>. QED  BY <1>2, <1>3, <1>4

\* Every step of the stream is one of the abstract reader.
LEMMA StringSim ==
  ASSUME StringInv, [Next]_vars
  PROVE  [Reader!Next]_(Reader!vars)
<1>1. CASE Getc  BY <1>1, GetcSim
<1>2. CASE Peekc  BY <1>2, PeekcSim
<1>3. CASE EndOfFile  BY <1>3, EndOfFileSim
<1>4. CASE Reset  BY <1>4, ResetSim
<1>5. CASE GetlEnd  BY <1>5, GetlEndSim
<1>6. ASSUME NEW T \in Term, StrGet(T, FALSE) PROVE Reader!Next
  BY <1>6, GetsSim DEF Terms
<1>7. CASE StrGet({Newline}, TRUE)
  BY <1>7, GetsSim DEF Terms
<1>8. CASE UNCHANGED vars
  BY <1>8 DEF vars, Reader!vars, Left, Rest, Size
<1>. QED  BY <1>1, <1>2, <1>3, <1>4, <1>5, <1>6, <1>7, <1>8 DEF Next

LEMMA StringStartSim ==
  ASSUME Init
  PROVE  Reader!Init
<1>1. extra = FALSE /\ Left = Whole(chars)
  BY StringStart
<1>2. Whole(chars) \in {Whole(q) : q \in Texts} /\ given = <<>> /\ ret = Returned(<<>>)
  BY DEF Init
<1>. QED  BY <1>1, <1>2 DEF Reader!Init, Reader!Returned, Returned

\* A stream over a string gives the string and the newline that is added to it once and in
\* order, as one over a file does (getc, peekc, gets, getl and reset of lib/stream.spc), until
\* str_get adds a newline too many.
THEOREM StringReadsInOrder == Spec => StringInOrder
<1>1. Init => Reader!Init
  BY StringStartSim
<1>2. StringInv /\ [Next]_vars => [Reader!Next]_(Reader!vars)
  BY StringSim
<1>. QED  BY <1>1, <1>2, StringAlways, PTL DEF Spec, StringInOrder, Reader!Spec
=============================================================================
