--------------------------- MODULE ScriptedProofs ---------------------------
(***************************************************************************)
(* What is true of a stream that is read and of the file stream that       *)
(* scripts it, for any characters, terminators, text and buffer size.      *)
(***************************************************************************)
EXTENDS Scripted, StreamTextProofs

-----------------------------------------------------------------------------
(* The invariant of the stream that is read *)

Calls == [op : {"idle", "gets", "getl", "script", "scriptl"}, term : SUBSET Char,
          temp : Seq(Char), low : 1 .. (BvecSize + 1), count : 0 .. BvecSize,
          reads : BOOLEAN]

\* A gets has collected text without a terminator; as long as it has not read anything, what
\* it searches is the rest of the buffer.
GetOK ==
  InGet =>
    /\ call.term \in Term \cup {{Newline}}
    /\ call.op = "getl" => call.term = {Newline}
    /\ \A i \in 1 .. Len(call.temp) : call.temp[i] \notin call.term
    /\ call.reads = FALSE => call.temp = <<>> /\ call.low = index /\ call.count = max
    /\ call.reads = TRUE => call.low = 1 /\ call.count >= 1

\* The gets of a getl leaves the buffer at a newline, or empty.
GetlOK == call.op = "scriptl" /\ index <= max => bvec[index] = Newline

InputInv == InputTypeOK /\ GetOK /\ GetlOK /\ LineNumber

\* The text no read has given yet, and the text that is in the buffer or collected by gets.
Unread == SubSeq(text, pos + 1, Len(text))
Current == SubSeq(bvec, index, max)
InMemory == IF InGet THEN call.temp \o Window ELSE Current

-----------------------------------------------------------------------------
(* The parts of the text *)

LEMMA BvecIsSeq ==
  ASSUME NEW b \in [1 .. BvecSize -> Char]
  PROVE  b \in Seq(Char) /\ Len(b) = BvecSize
BY TextAssumption

LEMMA PartsAreSeqs ==
  ASSUME InputTypeOK
  PROVE  /\ bvec \in Seq(Char) /\ Len(bvec) = BvecSize
         /\ Window \in Seq(Char) /\ Current \in Seq(Char) /\ Unread \in Seq(Char)
         /\ call.temp \in Seq(Char) /\ call.temp \o Window \in Seq(Char)
         /\ InMemory \in Seq(Char) /\ InMemory \o Unread \in Seq(Char)
<1>1. bvec \in Seq(Char) /\ Len(bvec) = BvecSize /\ BvecSize \in Nat
  BY BvecIsSeq, TextAssumption DEF InputTypeOK
<1>2. Window \in Seq(Char)
  BY <1>1, PartIsSeq DEF InputTypeOK, Window
<1>3. Current \in Seq(Char)
  BY <1>1, PartIsSeq DEF InputTypeOK, Current
<1>4. Unread \in Seq(Char)
  BY PartIsSeq DEF InputTypeOK, Unread
<1>5. call.temp \in Seq(Char)
  BY DEF InputTypeOK
<1>6. call.temp \o Window \in Seq(Char)
  BY <1>2, <1>5, ConcatProperties
<1>7. InMemory \in Seq(Char)
  BY <1>3, <1>6 DEF InMemory
<1>. QED  BY <1>1, <1>2, <1>3, <1>4, <1>5, <1>6, <1>7, ConcatProperties

LEMMA FoundIs == Found = FirstIn(Window, call.term)
BY DEF Found, FirstIn, SelectInSeq

\* What a read() puts into the buffer is taken from the unread text.
LEMMA ReadKeeps ==
  ASSUME InputTypeOK, NEW n \in 1 .. BvecSize, Reads(n), UNCHANGED text
  PROVE  /\ bvec' \in [1 .. BvecSize -> Char] /\ bvec' \in Seq(Char) /\ Len(bvec') = BvecSize
         /\ pos' \in 0 .. Len(text)
         /\ SubSeq(bvec', 1, n) \in Seq(Char) /\ Unread' \in Seq(Char)
         /\ Unread = SubSeq(bvec', 1, n) \o Unread'
<1>1. text \in Seq(Char) /\ pos \in Nat /\ Len(text) \in Nat /\ pos + n <= Len(text)
      /\ pos' = pos + n /\ n \in Nat /\ BvecSize \in Nat /\ n >= 1 /\ n <= BvecSize
  BY TextAssumption DEF InputTypeOK, Reads
<1>2. bvec' \in [1 .. BvecSize -> Char]
      /\ \A i \in 1 .. n : bvec'[i] = text[pos + i]
  <2>1. bvec' = [i \in 1 .. BvecSize |-> IF i <= n THEN text[pos + i] ELSE bvec[i]]
    BY DEF Reads, Filled
  <2>2. \A i \in 1 .. BvecSize : i <= n => text[pos + i] \in Char
    BY <1>1, ElementOfSeq
  <2>3. \A i \in 1 .. BvecSize : bvec[i] \in Char
    BY DEF InputTypeOK
  <2>4. \A i \in 1 .. BvecSize : (IF i <= n THEN text[pos + i] ELSE bvec[i]) \in Char
    BY <2>2, <2>3
  <2>5. bvec' \in [1 .. BvecSize -> Char]
    BY <2>1, <2>4
  <2>6. \A i \in 1 .. n : i \in 1 .. BvecSize /\ i <= n
    BY <1>1
  <2>7. \A i \in 1 .. n : bvec'[i] = text[pos + i]
    BY <2>1, <2>6
  <2>. QED  BY <2>5, <2>7
<1>3. bvec' \in Seq(Char) /\ Len(bvec') = BvecSize
  BY <1>2, BvecIsSeq
<1>4. /\ SubSeq(bvec', 1, n) \in Seq(Char) /\ Len(SubSeq(bvec', 1, n)) = n
      /\ \A i \in 1 .. n : SubSeq(bvec', 1, n)[i] = text[pos + i]
  BY <1>1, <1>2, <1>3, PartIsSeq
<1>5. /\ SubSeq(text, pos + 1, pos + n) \in Seq(Char)
      /\ Len(SubSeq(text, pos + 1, pos + n)) = n
      /\ \A i \in 1 .. n : SubSeq(text, pos + 1, pos + n)[i] = text[pos + i]
  BY <1>1, PartIsSeq
<1>6. SubSeq(bvec', 1, n) = SubSeq(text, pos + 1, pos + n)
  BY <1>1, <1>4, <1>5, SeqEqual
<1>7. SubSeq(text, pos + 1, pos + n) \o SubSeq(text, pos + n + 1, Len(text)) = Unread
  BY <1>1, ConcatAdjacentSubSeq DEF Unread
<1>8. Unread' = SubSeq(text, pos + n + 1, Len(text))
  BY <1>1 DEF Unread
<1>9. Unread' \in Seq(Char)
  BY <1>1, <1>8, PartIsSeq
<1>10. Unread = SubSeq(bvec', 1, n) \o Unread'
  <2>1. PICK u, v, w : u = SubSeq(bvec', 1, n) /\ v = Unread' /\ w = Unread
    OBVIOUS
  <2>2. w = u \o v
    BY <1>1, <1>6, <1>7, <1>8, <2>1
  <2>. QED  BY <2>1, <2>2
<1>11. pos' \in 0 .. Len(text)
  BY <1>1
<1>. QED  BY <1>2, <1>3, <1>4, <1>9, <1>10, <1>11, Zenon

\* getb may read, and the text is still the same.
LEMMA HasKeeps ==
  ASSUME InputTypeOK, NEW i \in 1 .. BvecSize, Has(i), UNCHANGED text
  PROVE  /\ bvec' \in [1 .. BvecSize -> Char] /\ bvec' \in Seq(Char) /\ Len(bvec') = BvecSize
         /\ pos' \in 0 .. Len(text)
         /\ max' \in 0 .. BvecSize /\ i <= max'
         /\ SubSeq(bvec', i, max') \in Seq(Char) /\ Unread' \in Seq(Char)
         /\ Current \o Unread = SubSeq(bvec', i, max') \o Unread'
<1>1. CASE index <= max /\ i = index /\ max' = max /\ NoRead
  <2>1. bvec' = bvec /\ pos' = pos /\ max' = max /\ Unread' = Unread
    BY <1>1 DEF NoRead, Unread
  <2>2. Current = SubSeq(bvec', i, max')
    BY <1>1, <2>1 DEF Current
  <2>. QED  BY <1>1, <2>1, <2>2, PartsAreSeqs DEF InputTypeOK
<1>2. CASE index > max /\ i = 1 /\ \E n \in 1 .. BvecSize : Reads(n) /\ max' = n
  <2>1. PICK n \in 1 .. BvecSize : Reads(n) /\ max' = n
    BY <1>2
  <2>2. Current = <<>>
    BY <1>2, SubSeqEmpty, TextAssumption DEF InputTypeOK, Current
  <2>3. Current \o Unread = Unread
    BY <2>2, PartsAreSeqs, ConcatEmptySeq
  <2>. QED  BY <1>2, <2>1, <2>3, ReadKeeps, TextAssumption
<1>. QED  BY <1>1, <1>2 DEF Has

\* The record of a call.
CallFor(o, s) == [Idle EXCEPT !.op = o, !.temp = s]

LEMMA CallIs ==
  ASSUME NEW o \in {"idle", "gets", "getl", "script", "scriptl"}, NEW s \in Seq(Char)
  PROVE  CallFor(o, s) \in Calls /\ CallFor(o, s).op = o /\ CallFor(o, s).temp = s
<1> DEFINE c == CallFor(o, s)
<1>1. c = [op |-> o, term |-> {}, temp |-> s, low |-> 1, count |-> 0, reads |-> FALSE]
  <2>1. PICK d : d = [Idle EXCEPT !.op = o, !.temp = s]
    OBVIOUS
  <2>2. d = [op |-> o, term |-> {}, temp |-> s, low |-> 1, count |-> 0, reads |-> FALSE]
    BY <2>1 DEF Idle
  <2>. QED  BY <2>1, <2>2 DEF CallFor
<1>2. [op |-> o, term |-> {}, temp |-> s, low |-> 1, count |-> 0, reads |-> FALSE] \in Calls
  BY TextAssumption DEF Calls
<1>. QED  BY <1>1, <1>2

LEMMA IdleIs == Idle \in Calls /\ Idle.op = "idle"
BY TextAssumption, EmptySeq DEF Idle, Calls

-----------------------------------------------------------------------------
(* The invariant holds *)

\* A step that gives nothing and ends the call.
LEMMA FailingInv ==
  ASSUME InputInv, NEW name \in {"end_of_file", "not_possible"}, Fails(name), torn' \in BOOLEAN
  PROVE  InputInv'
<1>1. call' = Idle /\ ret' = Signalled(name) /\ UNCHANGED <<chan, buffer, line, given, resets>>
  BY DEF Fails
<1>2. InputTypeOK'
  BY <1>1, IdleIs, EmptySeq DEF InputInv, InputTypeOK, Calls, chan, buffer, Signalled
<1>3. GetOK' /\ GetlOK'
  BY <1>1, IdleIs DEF GetOK, GetlOK, InGet
<1>. QED  BY <1>1, <1>2, <1>3 DEF InputInv, LineNumber

\* s is given to the client, and the call is a script call.
LEMMA GivingInv ==
  ASSUME InputInv, NEW s \in Seq(Char), Gives(s),
         bvec' \in [1 .. BvecSize -> Char], pos' \in 0 .. Len(text),
         index' \in 1 .. (BvecSize + 1), max' \in 0 .. BvecSize,
         UNCHANGED <<chan, resets, torn>>
  PROVE  InputInv'
<1>1. /\ given' = given \o s /\ line' = line + Newlines(s) /\ ret' = Returned(s)
      /\ call' \in Calls /\ call'.op = "script"
  <2>1. call' = CallFor("script", s)
    BY DEF Gives, CallFor
  <2>. QED  BY <2>1, CallIs DEF Gives, LineAfter
<1>2. Newlines(s) \in Nat /\ given' \in Seq(Char) /\ line' \in Nat \ {0}
  <2>1. Newlines(s) \in Nat
    BY NewlinesIsNat
  <2>2. given \in Seq(Char) /\ line \in Nat \ {0}
    BY DEF InputInv, InputTypeOK
  <2>3. given \o s \in Seq(Char)
    BY <2>2, ConcatProperties
  <2>. QED  BY <1>1, <2>1, <2>2, <2>3
<1>3. InputTypeOK'
  BY <1>1, <1>2 DEF InputInv, InputTypeOK, Calls, chan, Returned
<1>4. LineNumber'
  <2>1. given \in Seq(Char) /\ Newlines(given) \in Nat /\ line = 1 + Newlines(given)
    BY NewlinesIsNat DEF InputInv, InputTypeOK, LineNumber
  <2>2. Newlines(given') = Newlines(given) + Newlines(s)
    BY <1>1, <2>1, NewlinesOfConcat
  <2>. QED  BY <1>1, <1>2, <2>1, <2>2 DEF LineNumber
<1>5. GetOK' /\ GetlOK'
  BY <1>1 DEF GetOK, GetlOK, InGet
<1>. QED  BY <1>3, <1>4, <1>5 DEF InputInv

LEMMA GetcInv ==
  ASSUME InputInv, Getc
  PROVE  InputInv'
<1>1. CASE \E i \in 1 .. BvecSize :
             Has(i) /\ index' = i + 1 /\ Gives(<<bvec'[i]>>) /\ UNCHANGED <<chan, resets, torn>>
  <2>1. PICK i \in 1 .. BvecSize :
          Has(i) /\ index' = i + 1 /\ Gives(<<bvec'[i]>>) /\ UNCHANGED <<chan, resets, torn>>
    BY <1>1
  <2>2. bvec' \in [1 .. BvecSize -> Char] /\ pos' \in 0 .. Len(text) /\ max' \in 0 .. BvecSize
    BY <2>1, HasKeeps DEF InputInv, chan
  <2>3. PICK c \in Char : c = bvec'[i]
    BY <2>2
  <2>4. Gives(<<c>>) /\ <<c>> \in Seq(Char)
    BY <2>1, <2>3
  <2>5. index' \in 1 .. (BvecSize + 1)
    BY <2>1, TextAssumption
  <2>. QED  BY <2>1, <2>2, <2>4, <2>5, GivingInv
<1>2. CASE GetbFails /\ UNCHANGED torn
  BY <1>2, FailingInv DEF GetbFails, InputInv, InputTypeOK
<1>. QED  BY <1>1, <1>2 DEF Getc

LEMMA PeekcInv ==
  ASSUME InputInv, Peekc
  PROVE  InputInv'
<1>1. CASE \E i \in 1 .. BvecSize :
             /\ Has(i) /\ index' = i /\ ret' = Returned(<<bvec'[i]>>)
             /\ UNCHANGED <<chan, line, call, given, resets, torn>>
  <2>1. PICK i \in 1 .. BvecSize :
             /\ Has(i) /\ index' = i /\ ret' = Returned(<<bvec'[i]>>)
             /\ UNCHANGED <<chan, line, call, given, resets, torn>>
    BY <1>1
  <2>2. bvec' \in [1 .. BvecSize -> Char] /\ pos' \in 0 .. Len(text) /\ max' \in 0 .. BvecSize
    BY <2>1, HasKeeps DEF InputInv, chan
  <2>3. PICK c \in Char : c = bvec'[i]
    BY <2>2
  <2>4. ret' \in [out : {"ok", "end_of_file", "not_possible"}, text : Seq(Char)]
    BY <2>1, <2>3, OneIsSeq DEF Returned
  <2>5. index' \in 1 .. (BvecSize + 1)
    BY <2>1, TextAssumption
  <2>6. InputTypeOK'
    BY <2>1, <2>2, <2>4, <2>5 DEF InputInv, InputTypeOK, chan
  <2>7. call'.op = "idle"
    BY <2>1 DEF Peekc
  <2>8. GetOK' /\ GetlOK'
    BY <2>7 DEF GetOK, GetlOK, InGet
  <2>. QED  BY <2>1, <2>6, <2>8 DEF InputInv, LineNumber
<1>2. CASE GetbFails /\ UNCHANGED torn
  BY <1>2, FailingInv DEF GetbFails, InputInv, InputTypeOK
<1>. QED  BY <1>1, <1>2 DEF Peekc

LEMMA BeginsInv ==
  ASSUME InputInv, NEW o \in {"gets", "getl"}, NEW T \in Term \cup {{Newline}},
         o = "getl" => T = {Newline}, Begins(o, T)
  PROVE  InputInv'
<1>1. /\ call' = [op |-> o, term |-> T, temp |-> <<>>, low |-> index, count |-> max, reads |-> FALSE]
      /\ UNCHANGED <<chan, buffer, line, ret, given, resets, torn>>
  BY DEF Begins, Idle
<1>2. call' \in Calls
  <2>1. T \in SUBSET Char
    BY TextAssumption
  <2>. QED  BY <1>1, <2>1, EmptySeq DEF InputInv, InputTypeOK, Calls
<1>3. InputTypeOK'
  BY <1>1, <1>2 DEF InputInv, InputTypeOK, Calls, chan, buffer
<1>4. GetOK' /\ GetlOK'
  BY <1>1 DEF GetOK, GetlOK, InGet, buffer
<1>. QED  BY <1>1, <1>3, <1>4 DEF InputInv, LineNumber

\* What gets returns has no terminator in it, and getl no newline.
LEMMA GetReturnsInv ==
  ASSUME InputInv, InGet, NEW s \in Seq(Char), \A i \in 1 .. Len(s) : s[i] \notin call.term,
         NEW low \in 1 .. (BvecSize + 1), NEW high \in 0 .. BvecSize,
         low <= high => bvec[low] \in call.term,
         GetReturns(s, low, high)
  PROVE  InputInv'
<1>1. /\ index' = low /\ max' = high /\ given' = given \o s
      /\ line' = IF Newline \in call.term THEN line ELSE line + Newlines(s)
      /\ ret' = Returned(s)
      /\ call' = [Idle EXCEPT !.op = IF call.op = "getl" THEN "scriptl" ELSE "script", !.temp = s]
      /\ UNCHANGED <<chan, pos, bvec, resets, torn>>
  BY DEF GetReturns, LineAfter
<1>2. call' \in Calls /\ call'.op = IF call.op = "getl" THEN "scriptl" ELSE "script"
  <2>1. PICK o \in {"script", "scriptl"} : o = IF call.op = "getl" THEN "scriptl" ELSE "script"
    OBVIOUS
  <2>2. call' = CallFor(o, s)
    BY <1>1, <2>1 DEF CallFor
  <2>. QED  BY <2>1, <2>2, CallIs
<1>3. given \in Seq(Char) /\ Newlines(given) \in Nat /\ line = 1 + Newlines(given)
      /\ Newlines(s) \in Nat
  BY NewlinesIsNat DEF InputInv, InputTypeOK, LineNumber
<1>4. given' \in Seq(Char) /\ Newlines(given') = Newlines(given) + Newlines(s)
  BY <1>1, <1>3, ConcatProperties, NewlinesOfConcat
<1>5. line' = line + Newlines(s)
  <2>1. CASE Newline \in call.term
    <3>1. Newlines(s) = 0
      BY <2>1, NoNewlines
    <3>. QED  BY <1>1, <1>3, <2>1, <3>1
  <2>. QED  BY <1>1, <2>1
<1>6. LineNumber'
  BY <1>3, <1>4, <1>5 DEF LineNumber
<1>7. InputTypeOK'
  <2>1. ret' \in [out : {"ok", "end_of_file", "not_possible"}, text : Seq(Char)]
    BY <1>1 DEF Returned
  <2>2. line' \in Nat \ {0}
    BY <1>3, <1>5
  <2>. QED  BY <1>1, <1>2, <1>4, <2>1, <2>2 DEF InputInv, InputTypeOK, Calls, chan
<1>8. GetOK'
  BY <1>2 DEF GetOK, InGet
<1>9. GetlOK'
  <2>1. call'.op = "scriptl" => call.term = {Newline}
    BY <1>2 DEF InputInv, GetOK
  <2>. QED  BY <1>1, <2>1 DEF GetlOK
<1>. QED  BY <1>6, <1>7, <1>8, <1>9 DEF InputInv

\* The text gets has collected, with a window that has no terminator, has none.
LEMMA CollectedHasNone ==
  ASSUME InputInv, InGet, NEW w \in Seq(Char), \A i \in 1 .. Len(w) : w[i] \notin call.term
  PROVE  /\ call.temp \o w \in Seq(Char)
         /\ \A i \in 1 .. Len(call.temp \o w) : (call.temp \o w)[i] \notin call.term
<1>1. call.temp \in Seq(Char) /\ \A i \in 1 .. Len(call.temp) : call.temp[i] \notin call.term
  BY DEF InputInv, InputTypeOK, GetOK
<1>2. Len(call.temp) \in Nat /\ Len(w) \in Nat
  BY <1>1
<1>. QED  BY <1>1, <1>2, ConcatProperties, SMTT(30)

\* Where gets finds its terminator, and what it returns.
LEMMA GetsFoundIs ==
  ASSUME InputInv, InGet, Found # 0
  PROVE  /\ NewLow(Found) \in 1 .. (BvecSize + 1) /\ NewLow(Found) <= call.count
         /\ bvec[NewLow(Found)] \in call.term
         /\ SubSeq(Window, 1, Found - 1) \in Seq(Char)
         /\ \A i \in 1 .. Len(SubSeq(Window, 1, Found - 1)) :
              SubSeq(Window, 1, Found - 1)[i] \notin call.term
         /\ Window = SubSeq(Window, 1, Found - 1) \o SubSeq(bvec, NewLow(Found), call.count)
<1> DEFINE k == Found
<1>1. /\ bvec \in Seq(Char) /\ Len(bvec) = BvecSize /\ BvecSize \in Nat /\ Window \in Seq(Char)
      /\ call.low \in 1 .. (BvecSize + 1) /\ call.count \in 0 .. BvecSize
  BY PartsAreSeqs, TextAssumption DEF InputInv, InputTypeOK
<1>2. k \in 1 .. Len(Window) /\ Window[k] \in call.term
      /\ \A i \in 1 .. (k - 1) : Window[i] \notin call.term
  BY <1>1, FoundIs, FirstInIs
<1> HIDE DEF k
<1>3. /\ Len(Window) = IF call.low <= call.count THEN call.count - call.low + 1 ELSE 0
      /\ \A i \in 1 .. Len(Window) : Window[i] = bvec[call.low + i - 1]
  BY <1>1, PartIsSeq DEF Window
<1>4. k \in Nat /\ k - 1 \in Nat /\ k - 1 <= Len(Window) /\ k <= call.count - call.low + 1
  BY <1>1, <1>2, <1>3
<1>5. NewLow(k) = call.low + k - 1 /\ bvec[NewLow(k)] \in call.term
  BY <1>2, <1>3 DEF NewLow
<1>6. NewLow(k) \in 1 .. (BvecSize + 1) /\ NewLow(k) <= call.count
  BY <1>1, <1>4, <1>2, <1>5
<1>7. /\ SubSeq(Window, 1, k - 1) \in Seq(Char) /\ Len(SubSeq(Window, 1, k - 1)) = k - 1
      /\ \A i \in 1 .. (k - 1) : SubSeq(Window, 1, k - 1)[i] = Window[i]
  BY <1>1, <1>4, PartIsSeq
<1>8. Window = SubSeq(Window, 1, k - 1) \o SubSeq(bvec, NewLow(k), call.count)
  <2>1. k \in 1 .. Len(SubSeq(bvec, call.low, call.count))
    BY <1>2 DEF Window
  <2>2. call.low \in Nat \ {0} /\ call.count \in Int /\ call.count <= Len(bvec)
    BY <1>1
  <2>3. SubSeq(bvec, call.low, call.count)
          = SubSeq(SubSeq(bvec, call.low, call.count), 1, k - 1)
            \o SubSeq(bvec, call.low + k - 1, call.count)
    BY <1>1, <2>1, <2>2, CutPart
  <2>. QED  BY <1>5, <2>3 DEF Window
<1>. QED  BY <1>2, <1>5, <1>6, <1>7, <1>8 DEF k

LEMMA GetsFoundInv ==
  ASSUME InputInv, GetsFound
  PROVE  InputInv'
<1>1. InGet /\ Found # 0
      /\ GetReturns(call.temp \o SubSeq(Window, 1, Found - 1), NewLow(Found), call.count)
  BY DEF GetsFound
<1>2. /\ NewLow(Found) \in 1 .. (BvecSize + 1) /\ bvec[NewLow(Found)] \in call.term
      /\ SubSeq(Window, 1, Found - 1) \in Seq(Char)
      /\ \A i \in 1 .. Len(SubSeq(Window, 1, Found - 1)) :
           SubSeq(Window, 1, Found - 1)[i] \notin call.term
  BY <1>1, GetsFoundIs
<1>3. PICK w \in Seq(Char) : w = SubSeq(Window, 1, Found - 1)
  BY <1>2
<1>4. PICK s \in Seq(Char) : s = call.temp \o w
  BY <1>1, <1>2, <1>3, CollectedHasNone
<1>5. \A i \in 1 .. Len(s) : s[i] \notin call.term
  BY <1>1, <1>2, <1>3, <1>4, CollectedHasNone
<1>6. PICK low \in 1 .. (BvecSize + 1) : low = NewLow(Found)
  BY <1>2
<1>7. PICK high \in 0 .. BvecSize : high = call.count
  BY DEF InputInv, InputTypeOK
<1>8. GetReturns(s, low, high)
  BY <1>1, <1>3, <1>4, <1>6, <1>7
<1>. QED  BY <1>1, <1>2, <1>5, <1>6, <1>8, GetReturnsInv

LEMMA WindowHasNone ==
  ASSUME InputInv, InGet, Found = 0
  PROVE  /\ Window \in Seq(Char) /\ \A i \in 1 .. Len(Window) : Window[i] \notin call.term
         /\ call.temp \o Window \in Seq(Char)
         /\ \A i \in 1 .. Len(call.temp \o Window) : (call.temp \o Window)[i] \notin call.term
<1>1. Window \in Seq(Char)
  BY PartsAreSeqs DEF InputInv
<1>2. \A i \in 1 .. Len(Window) : Window[i] \notin call.term
  BY <1>1, FoundIs, FirstInIs
<1>. QED  BY <1>1, <1>2, CollectedHasNone

LEMMA GetsReadsInv ==
  ASSUME InputInv, NEW n \in 1 .. BvecSize, GetsReads(n)
  PROVE  InputInv'
<1>1. InGet /\ Found = 0 /\ Reads(n) /\ UNCHANGED <<chan, index, max, line, ret, given, resets, torn>>
      /\ call' = [call EXCEPT !.temp = @ \o Window, !.low = 1, !.count = n, !.reads = TRUE]
  BY DEF GetsReads
<1>2. PICK s \in Seq(Char) : s = call.temp \o Window
  BY <1>1, WindowHasNone
<1>3. \A i \in 1 .. Len(s) : s[i] \notin call.term
  BY <1>1, <1>2, WindowHasNone
<1>4. call \in Calls
  BY DEF InputInv, InputTypeOK, Calls
<1>5. call' = [op |-> call.op, term |-> call.term, temp |-> s, low |-> 1, count |-> n, reads |-> TRUE]
  BY <1>1, <1>2, <1>4 DEF Calls
<1>6. call' \in Calls
  BY <1>4, <1>5, TextAssumption DEF Calls
<1>7. bvec' \in [1 .. BvecSize -> Char] /\ pos' \in 0 .. Len(text)
  BY <1>1, ReadKeeps DEF InputInv, chan
<1>8. InputTypeOK'
  BY <1>1, <1>6, <1>7 DEF InputInv, InputTypeOK, Calls, chan
<1>9. GetOK'
  <2>1. /\ call'.op = call.op /\ call'.term = call.term /\ call'.temp = s
        /\ call'.reads = TRUE /\ call'.low = 1 /\ call'.count >= 1
    BY <1>5, TextAssumption
  <2>. QED  BY <1>1, <1>3, <2>1 DEF InputInv, GetOK, InGet
<1>10. GetlOK'
  BY <1>1, <1>5 DEF GetlOK, InGet
<1>. QED  BY <1>1, <1>8, <1>9, <1>10 DEF InputInv, LineNumber

LEMMA GetsEndsInv ==
  ASSUME InputInv, GetsEnds
  PROVE  InputInv'
<1>1. InGet /\ Found = 0
  BY DEF GetsEnds
<1>2. CASE Fails("end_of_file") /\ UNCHANGED torn
  BY <1>2, FailingInv DEF InputInv, InputTypeOK
<1>3. CASE GetReturns(call.temp \o Window, 1, 0)
  <2>1. PICK s \in Seq(Char) : s = call.temp \o Window
    BY <1>1, WindowHasNone
  <2>2. \A i \in 1 .. Len(s) : s[i] \notin call.term
    BY <1>1, <2>1, WindowHasNone
  <2>3. GetReturns(s, 1, 0)
    BY <1>3, <2>1
  <2>. QED  BY <1>1, <2>2, <2>3, GetReturnsInv, TextAssumption
<1>. QED  BY <1>2, <1>3 DEF GetsEnds

LEMMA GetsFailsInv ==
  ASSUME InputInv, GetsFails
  PROVE  InputInv'
<1>1. torn' \in BOOLEAN
  BY DEF GetsFails, InputInv, InputTypeOK
<1>. QED  BY <1>1, FailingInv DEF GetsFails

LEMMA ScriptInv ==
  ASSUME InputInv, Script
  PROVE  InputInv'
<1>1. CASE call' = Idle /\ UNCHANGED <<chan, buffer, line, ret, given, resets, torn>>
  <2>1. InputTypeOK'
    BY <1>1, IdleIs DEF InputInv, InputTypeOK, Calls, chan, buffer
  <2>2. GetOK' /\ GetlOK'
    BY <1>1, IdleIs DEF GetOK, GetlOK, InGet
  <2>. QED  BY <1>1, <2>1, <2>2 DEF InputInv, LineNumber
<1>2. CASE /\ call.op = "scriptl" /\ ~(index > max)
           /\ index' = index + 1 /\ line' = line + 1 /\ given' = Append(given, bvec[index])
           /\ call' = [Idle EXCEPT !.op = "script", !.temp = <<Newline>>]
           /\ UNCHANGED <<chan, pos, bvec, max, ret, resets, torn>>
  <2>1. index <= max /\ index \in 1 .. BvecSize
    BY <1>2, TextAssumption, SMTT(30) DEF InputInv, InputTypeOK
  <2>2. bvec[index] = Newline /\ Newline \in Char
    BY <1>2, <2>1, TextAssumption DEF InputInv, GetlOK
  <2>3. call' \in Calls /\ call'.op = "script"
    <3>1. call' = CallFor("script", <<Newline>>) /\ <<Newline>> \in Seq(Char)
      BY <1>2, <2>2, OneIsSeq DEF CallFor
    <3>. QED  BY <3>1, CallIs
  <2>4. given \in Seq(Char) /\ Newlines(given) \in Nat /\ line = 1 + Newlines(given)
    BY NewlinesIsNat DEF InputInv, InputTypeOK, LineNumber
  <2>5. given' \in Seq(Char) /\ Newlines(given') = Newlines(given) + 1
    BY <1>2, <2>2, <2>4, AppendProperties, NewlinesOfAppend
  <2>6. LineNumber'
    BY <1>2, <2>4, <2>5 DEF LineNumber
  <2>7. index' \in 1 .. (BvecSize + 1) /\ line' \in Nat \ {0}
    BY <1>2, <2>1, <2>4, TextAssumption
  <2>8. InputTypeOK'
    BY <1>2, <2>3, <2>5, <2>7 DEF InputInv, InputTypeOK, Calls, chan
  <2>9. GetOK' /\ GetlOK'
    BY <2>3 DEF GetOK, GetlOK, InGet
  <2>. QED  BY <2>6, <2>8, <2>9 DEF InputInv
<1>. QED  BY <1>1, <1>2 DEF Script, buffer

LEMMA ResetInv ==
  ASSUME InputInv, Reset
  PROVE  InputInv'
<1>1. CASE /\ pos' = IF source = "file" THEN 0 ELSE pos
           /\ index' = max + 1 /\ line' = 1 /\ ret' = Returned(<<>>) /\ given' = <<>>
           /\ resets' = resets + 1 /\ torn' = FALSE
           /\ UNCHANGED <<chan, bvec, max, call>>
  <2>1. resets < MaxResets /\ call.op = "idle"
    BY DEF Reset
  <2>2. pos' \in 0 .. Len(text)
    <3>1. pos' = 0 \/ pos' = pos
      BY <1>1
    <3>. QED  BY <3>1 DEF InputInv, InputTypeOK
  <2>3. InputTypeOK'
    <3>1. resets' \in 0 .. MaxResets /\ index' \in 1 .. (BvecSize + 1) /\ line' \in Nat \ {0}
      BY <1>1, <2>1, TextAssumption, ResetsAssumption DEF InputInv, InputTypeOK
    <3>2. /\ ret' \in [out : {"ok", "end_of_file", "not_possible"}, text : Seq(Char)]
          /\ given' \in Seq(Char)
      BY <1>1, EmptySeq DEF Returned
    <3>3. torn' \in BOOLEAN
      BY <1>1
    <3>. QED  BY <1>1, <2>2, <3>1, <3>2, <3>3 DEF InputInv, InputTypeOK, chan
  <2>4. GetOK' /\ GetlOK'
    BY <1>1, <2>1 DEF GetOK, GetlOK, InGet
  <2>5. LineNumber'
    BY <1>1, NewlinesOfEmpty DEF LineNumber
  <2>. QED  BY <2>3, <2>4, <2>5 DEF InputInv
<1>2. CASE Fails("not_possible") /\ UNCHANGED torn
  BY <1>2, FailingInv DEF InputInv, InputTypeOK
<1>. QED  BY <1>1, <1>2 DEF Reset

LEMMA InputStart ==
  ASSUME InputInit
  PROVE  InputInv
<1>1. text \in Seq(Char)
  <2>1. \E n \in Nat : text \in [1 .. n -> Char]
    BY TextAssumption DEF InputInit, Texts, BoundedSeq, SeqOf
  <2>. QED  BY <2>1
<1>2. InputTypeOK
  <2>1. /\ pos \in 0 .. Len(text) /\ index \in 1 .. (BvecSize + 1) /\ max \in 0 .. BvecSize
        /\ line \in Nat \ {0} /\ resets \in 0 .. MaxResets
    BY <1>1, TextAssumption, ResetsAssumption DEF InputInit
  <2>2. bvec \in [1 .. BvecSize -> Char]
    BY TextAssumption DEF InputInit
  <2>3. /\ ret \in [out : {"ok", "end_of_file", "not_possible"}, text : Seq(Char)]
        /\ given \in Seq(Char)
    BY EmptySeq DEF InputInit, Returned
  <2>4. torn \in BOOLEAN /\ source \in Sources
    BY DEF InputInit
  <2>. QED  BY <1>1, <2>1, <2>2, <2>3, <2>4, IdleIs DEF InputInit, InputTypeOK, Calls
<1>3. GetOK /\ GetlOK
  BY IdleIs DEF InputInit, GetOK, GetlOK, InGet
<1>4. LineNumber
  BY NewlinesOfEmpty DEF InputInit, LineNumber
<1>. QED  BY <1>2, <1>3, <1>4 DEF InputInv

LEMMA InputKeeps ==
  ASSUME InputInv, [InputNext]_inputVars
  PROVE  InputInv'
<1>1. CASE Getc  BY <1>1, GetcInv
<1>2. CASE Peekc  BY <1>2, PeekcInv
<1>3. CASE Getl  BY <1>3, BeginsInv DEF Getl
<1>4. ASSUME NEW T \in Term, Gets(T) PROVE InputInv'
  BY <1>4, BeginsInv DEF Gets
<1>5. CASE Reset  BY <1>5, ResetInv
<1>6. CASE GetsFound  BY <1>6, GetsFoundInv
<1>7. CASE GetsEnds  BY <1>7, GetsEndsInv
<1>8. ASSUME NEW n \in 1 .. BvecSize, GetsReads(n) PROVE InputInv'
  BY <1>8, GetsReadsInv
<1>9. CASE GetsFails  BY <1>9, GetsFailsInv
<1>10. CASE Script  BY <1>10, ScriptInv
<1>11. CASE UNCHANGED inputVars
  BY <1>11 DEF InputInv, InputTypeOK, GetOK, GetlOK, LineNumber, InGet, inputVars, chan, buffer
<1>. QED
  BY <1>1, <1>2, <1>3, <1>4, <1>5, <1>6, <1>7, <1>8, <1>9, <1>10, <1>11
    DEF InputNext, Client, GetSteps

THEOREM InputAlways == InputSpec => []InputInv
<1>1. InputInit => InputInv
  BY InputStart
<1>2. InputInv /\ [InputNext]_inputVars => InputInv'
  BY InputKeeps
<1>. QED  BY <1>1, <1>2, PTL DEF InputSpec

\* get_lineno is the number of the line the client is about to read, whatever it has called.
THEOREM LinesCounted == InputSpec => []LineNumber
<1>1. InputInv => LineNumber
  BY DEF InputInv
<1>. QED  BY <1>1, InputAlways, PTL

-----------------------------------------------------------------------------
(* The stream gives its text once and in order *)

LEMMA LeftIs ==
  ASSUME torn = FALSE
  PROVE  Left = InMemory \o Unread
BY DEF Left, InMemory, Unread, Current

LEMMA LeftNextIs ==
  ASSUME torn' = FALSE
  PROVE  Left' = InMemory' \o Unread'
BY DEF Left, InMemory, Unread, Current

\* What the client takes is cut off what is left.
LEMMA GiveIs ==
  ASSUME NEW s \in Seq(Char), NEW r \in Seq(Char), Left = s \o r,
         given' = given \o s, Left' = r
  PROVE  Reader!Give(Len(s))
BY CutConcat DEF Reader!Give

LEMMA GetcIs ==
  ASSUME NEW c \in Char, NEW r \in Seq(Char), Left = <<c>> \o r,
         given' = given \o <<c>>, Left' = r, ret' = Returned(<<c>>)
  PROVE  Reader!Getc
<1>1. <<c>> \in Seq(Char) /\ Len(<<c>>) = 1
  BY OneIsSeq
<1>2. Reader!Give(1)
  BY <1>1, GiveIs
<1>3. Left # <<>> /\ Head(Left) = c
  BY <1>1
<1>. QED  BY <1>2, <1>3 DEF Reader!Getc, Reader!Returned, Returned

LEMMA PeekcIs ==
  ASSUME NEW c \in Char, NEW r \in Seq(Char), Left = <<c>> \o r,
         given' = given, Left' = Left, ret' = Returned(<<c>>)
  PROVE  Reader!Peekc
<1>1. Left # <<>> /\ Head(Left) = c
  BY OneIsSeq
<1>. QED  BY <1>1 DEF Reader!Peekc, Reader!Returned, Returned

LEMMA TakeNewlineIs ==
  ASSUME NEW r \in Seq(Char), Left = <<Newline>> \o r,
         given' = given \o <<Newline>>, Left' = r, ret' = ret
  PROVE  Reader!TakeNewline
<1>1. Newline \in Char
  BY TextAssumption
<1>2. <<Newline>> \in Seq(Char) /\ Len(<<Newline>>) = 1
  BY <1>1, OneIsSeq
<1>3. Reader!Give(1)
  BY <1>2, GiveIs
<1>4. Left # <<>> /\ Head(Left) = Newline
  BY <1>1, <1>2
<1>. QED  BY <1>3, <1>4 DEF Reader!TakeNewline

\* gets and the gets of getl stop at the first terminator of what is left.
LEMMA GetsIs ==
  ASSUME NEW s \in Seq(Char), NEW r \in Seq(Char), Left = s \o r, Left # <<>>,
         NEW T \in Term \cup {{Newline}}, \A i \in 1 .. Len(s) : s[i] \notin T,
         r # <<>> => r[1] \in T,
         given' = given \o s, Left' = r, ret' = Returned(s)
  PROVE  Reader!Gets
<1>1. Reader!UpTo(Left, T) = Prefix(Left, T)
  BY DEF Reader!UpTo, Reader!SelectInSeq, Reader!Min, Prefix, FirstIn, Min
<1>2. Prefix(Left, T) = s
  BY PrefixIs
<1>3. Reader!Give(Len(s))
  BY GiveIs
<1>. QED  BY <1>1, <1>2, <1>3 DEF Reader!Gets, Reader!Returned, Returned

\* A step of the abstract reader while the promise stands.
LEMMA PromisedStep ==
  ASSUME text' = text, torn = FALSE, torn' = FALSE,
         \/ Reader!Getc \/ Reader!Peekc \/ Reader!Gets \/ Reader!TakeNewline
         \/ Reader!EndOfFile \/ Reader!NotPossible \/ Reader!Reset
  PROVE  Reader!Next
BY DEF Reader!Next

\* A step the client does not see.
LEMMA SilentStep ==
  ASSUME text' = text, given' = given, ret' = ret, Left' = Left, torn' = torn
  PROVE  UNCHANGED Reader!vars
BY DEF Reader!vars

\* Once the promise is given up, everything may happen.
LEMMA TornStep ==
  ASSUME text' = text, torn = TRUE, torn' = TRUE
  PROVE  Reader!Next
<1>1. Left = <<>> /\ Left' = <<>>
  BY DEF Left
<1>. QED  BY <1>1 DEF Reader!Next

LEMMA GetbFailsSim ==
  ASSUME InputInv, call.op = "idle", GetbFails, torn' = torn, torn = FALSE
  PROVE  Reader!Next
<1>1. index > max /\ UNCHANGED <<chan, buffer, given>> /\ call' = Idle
  BY DEF GetbFails, Fails
<1>2. InMemory = Current /\ InMemory' = Current'
  BY <1>1, IdleIs DEF InMemory, InGet
<1>3. Left' = Left
  BY <1>1, <1>2, LeftIs, LeftNextIs DEF Current, Unread, chan, buffer
<1>4. CASE AtEnd /\ Fails("end_of_file")
  <2>1. Unread = <<>>
    BY <1>4, SubSeqEmpty DEF Unread, AtEnd, InputInv, InputTypeOK
  <2>2. Current = <<>>
    BY <1>1, SubSeqEmpty DEF Current, InputInv, InputTypeOK
  <2>3. Left = <<>>
    BY <1>2, <2>1, <2>2, LeftIs, PartsAreSeqs, ConcatEmptySeq DEF InputInv
  <2>4. Reader!EndOfFile
    BY <1>1, <1>3, <1>4, <2>3 DEF Reader!EndOfFile, Reader!Signalled, Signalled, Fails
  <2>. QED  BY <1>1, <2>4, PromisedStep DEF chan
<1>5. CASE Fails("not_possible")
  <2>1. Reader!NotPossible
    BY <1>1, <1>3, <1>5 DEF Reader!NotPossible, Reader!Signalled, Signalled, Fails
  <2>. QED  BY <1>1, <2>1, PromisedStep DEF chan
<1>. QED  BY <1>4, <1>5 DEF GetbFails

\* The first character getb and peekc find.
LEMMA HasIs ==
  ASSUME InputInv, call.op = "idle", NEW i \in 1 .. BvecSize, Has(i), UNCHANGED text, torn = FALSE
  PROVE  /\ bvec'[i] \in Char
         /\ SubSeq(bvec', i, max') \in Seq(Char) /\ SubSeq(bvec', i + 1, max') \in Seq(Char)
         /\ Unread' \in Seq(Char)
         /\ SubSeq(bvec', i, max') = <<bvec'[i]>> \o SubSeq(bvec', i + 1, max')
         /\ Left = SubSeq(bvec', i, max') \o Unread'
<1>1. /\ bvec' \in Seq(Char) /\ Len(bvec') = BvecSize /\ max' \in 0 .. BvecSize /\ i <= max'
      /\ SubSeq(bvec', i, max') \in Seq(Char) /\ Unread' \in Seq(Char)
      /\ Current \o Unread = SubSeq(bvec', i, max') \o Unread'
      /\ BvecSize \in Nat
  BY HasKeeps, TextAssumption DEF InputInv
<1>2. i \in Nat \ {0} /\ i + 1 \in Nat \ {0} /\ max' \in Int /\ max' <= Len(bvec')
  BY <1>1
<1>3. /\ SubSeq(bvec', i, max') = <<bvec'[i]>> \o SubSeq(bvec', i + 1, max')
      /\ bvec'[i] \in Char
  BY <1>1, <1>2, FirstOfPart
<1>4. SubSeq(bvec', i + 1, max') \in Seq(Char)
  BY <1>1, <1>2, PartIsSeq
<1>5. Left = Current \o Unread
  BY LeftIs DEF InMemory, InGet
<1>. QED  BY <1>1, <1>3, <1>4, <1>5

LEMMA GetcSim ==
  ASSUME InputInv, Getc, torn = FALSE
  PROVE  Reader!Next
<1>1. CASE \E i \in 1 .. BvecSize :
             Has(i) /\ index' = i + 1 /\ Gives(<<bvec'[i]>>) /\ UNCHANGED <<chan, resets, torn>>
  <2>1. PICK i \in 1 .. BvecSize :
          Has(i) /\ index' = i + 1 /\ Gives(<<bvec'[i]>>) /\ UNCHANGED <<chan, resets, torn>>
    BY <1>1
  <2>2. text' = text /\ torn' = FALSE /\ call.op = "idle"
    BY <2>1 DEF chan, Getc
  <2>3. /\ bvec'[i] \in Char
        /\ SubSeq(bvec', i + 1, max') \in Seq(Char) /\ Unread' \in Seq(Char)
        /\ SubSeq(bvec', i, max') = <<bvec'[i]>> \o SubSeq(bvec', i + 1, max')
        /\ Left = SubSeq(bvec', i, max') \o Unread'
    BY <2>1, <2>2, HasIs
  <2>4. PICK c \in Char : c = bvec'[i]
    BY <2>3
  <2>5. call' = CallFor("script", <<c>>) /\ <<c>> \in Seq(Char)
    BY <2>1, <2>4, OneIsSeq DEF Gives, CallFor
  <2>6. call'.op = "script"
    BY <2>5, CallIs
  <2>7. Left' = SubSeq(bvec', i + 1, max') \o Unread'
    BY <2>1, <2>2, <2>6, LeftNextIs DEF InMemory, InGet, Current
  <2>8. PICK r \in Seq(Char) : r = SubSeq(bvec', i + 1, max') \o Unread'
    BY <2>3, ConcatProperties
  <2>9. Left = <<c>> \o r
    <3>1. PICK t \in Seq(Char) : t = SubSeq(bvec', i + 1, max')
      BY <2>3
    <3>2. PICK u \in Seq(Char) : u = Unread'
      BY <2>3
    <3>3. (<<c>> \o t) \o u = <<c>> \o (t \o u)
      BY <2>5, ConcatAssociative
    <3>. QED  BY <2>3, <2>4, <2>5, <2>8, <3>1, <3>2, <3>3
  <2>10. Reader!Getc
    BY <2>1, <2>4, <2>7, <2>8, <2>9, GetcIs DEF Gives
  <2>. QED  BY <2>2, <2>10, PromisedStep
<1>2. CASE GetbFails /\ UNCHANGED torn
  BY <1>2, GetbFailsSim DEF Getc
<1>. QED  BY <1>1, <1>2 DEF Getc

LEMMA PeekcSim ==
  ASSUME InputInv, Peekc, torn = FALSE
  PROVE  Reader!Next
<1>1. CASE \E i \in 1 .. BvecSize :
             /\ Has(i) /\ index' = i /\ ret' = Returned(<<bvec'[i]>>)
             /\ UNCHANGED <<chan, line, call, given, resets, torn>>
  <2>1. PICK i \in 1 .. BvecSize :
             /\ Has(i) /\ index' = i /\ ret' = Returned(<<bvec'[i]>>)
             /\ UNCHANGED <<chan, line, call, given, resets, torn>>
    BY <1>1
  <2>2. text' = text /\ torn' = FALSE /\ call.op = "idle" /\ call'.op = "idle"
    BY <2>1 DEF chan, Peekc
  <2>3. /\ bvec'[i] \in Char
        /\ SubSeq(bvec', i + 1, max') \in Seq(Char) /\ Unread' \in Seq(Char)
        /\ SubSeq(bvec', i, max') = <<bvec'[i]>> \o SubSeq(bvec', i + 1, max')
        /\ Left = SubSeq(bvec', i, max') \o Unread'
    BY <2>1, <2>2, HasIs
  <2>4. PICK c \in Char : c = bvec'[i]
    BY <2>3
  <2>5. Left' = Left
    BY <2>1, <2>2, <2>3, LeftNextIs DEF InMemory, InGet, Current
  <2>6. PICK r \in Seq(Char) : r = SubSeq(bvec', i + 1, max') \o Unread'
    BY <2>3, ConcatProperties
  <2>7. <<c>> \in Seq(Char)
    BY OneIsSeq
  <2>8. Left = <<c>> \o r
    <3>1. PICK t \in Seq(Char) : t = SubSeq(bvec', i + 1, max')
      BY <2>3
    <3>2. PICK u \in Seq(Char) : u = Unread'
      BY <2>3
    <3>3. (<<c>> \o t) \o u = <<c>> \o (t \o u)
      BY <2>7, ConcatAssociative
    <3>. QED  BY <2>3, <2>4, <2>6, <2>7, <3>1, <3>2, <3>3
  <2>9. Reader!Peekc
    BY <2>1, <2>4, <2>5, <2>8, PeekcIs
  <2>. QED  BY <2>2, <2>9, PromisedStep
<1>2. CASE GetbFails /\ UNCHANGED torn
  BY <1>2, GetbFailsSim DEF Peekc
<1>. QED  BY <1>1, <1>2 DEF Peekc

\* A gets begins: what it collects is empty, and it searches what is in the buffer.
LEMMA BeginsSim ==
  ASSUME InputInv, NEW o \in {"gets", "getl"}, NEW T, Begins(o, T)
  PROVE  UNCHANGED Reader!vars
<1>1. /\ call' = [op |-> o, term |-> T, temp |-> <<>>, low |-> index, count |-> max, reads |-> FALSE]
      /\ UNCHANGED <<chan, buffer, line, ret, given, resets, torn>> /\ call.op = "idle"
  BY DEF Begins, Idle
<1>2. InMemory = Current /\ Unread' = Unread
  BY <1>1 DEF InMemory, InGet, Unread, chan, buffer
<1>3. InMemory' = <<>> \o Current
  <2>1. call'.op = o /\ call'.temp = <<>> /\ call'.low = index /\ call'.count = max
    BY <1>1
  <2>2. Window' = Current
    BY <1>1, <2>1 DEF Window, Current, buffer
  <2>. QED  BY <2>1, <2>2 DEF InMemory, InGet
<1>4. InMemory' = InMemory
  BY <1>2, <1>3, PartsAreSeqs, ConcatEmptySeq DEF InputInv
<1>5. Left' = Left
  <2>1. CASE torn = FALSE
    BY <1>1, <1>2, <1>4, <2>1, LeftIs, LeftNextIs
  <2>2. CASE torn = TRUE
    BY <1>1, <2>2 DEF Left
  <2>. QED  BY <2>1, <2>2 DEF InputInv, InputTypeOK
<1>. QED  BY <1>1, <1>5, SilentStep DEF chan

\* What gets returns is what was left, up to its first terminator.
LEMMA GetReturnsSim ==
  ASSUME InputInv, InGet, torn = FALSE, NEW s \in Seq(Char), NEW r \in Seq(Char),
         Left = s \o r, Left # <<>>,
         \A i \in 1 .. Len(s) : s[i] \notin call.term, r # <<>> => r[1] \in call.term,
         NEW low, NEW high, GetReturns(s, low, high),
         r = SubSeq(bvec, low, high) \o Unread
  PROVE  Reader!Next
<1>1. /\ index' = low /\ max' = high /\ given' = given \o s /\ ret' = Returned(s)
      /\ call' = CallFor(IF call.op = "getl" THEN "scriptl" ELSE "script", s)
      /\ UNCHANGED <<chan, pos, bvec, torn>>
  BY DEF GetReturns, CallFor
<1>2. call'.op \in {"script", "scriptl"}
  <2>1. PICK o \in {"script", "scriptl"} : o = IF call.op = "getl" THEN "scriptl" ELSE "script"
    OBVIOUS
  <2>2. call' = CallFor(o, s)
    BY <1>1, <2>1
  <2>. QED  BY <2>2, CallIs, SMTT(30)
<1>3. Left' = r
  BY <1>1, <1>2, LeftNextIs DEF InMemory, InGet, Current, Unread, chan
<1>4. PICK T \in Term \cup {{Newline}} : T = call.term
  BY DEF InputInv, GetOK
<1>5. Reader!Gets
  BY <1>1, <1>3, <1>4, GetsIs
<1>. QED  BY <1>1, <1>5, PromisedStep DEF chan

\* What is left, cut where gets finds its terminator.
LEMMA FoundCutsLeft ==
  ASSUME InputInv, InGet, Found # 0, torn = FALSE
  PROVE  /\ Left = (call.temp \o SubSeq(Window, 1, Found - 1))
                      \o (SubSeq(bvec, NewLow(Found), call.count) \o Unread)
         /\ SubSeq(bvec, NewLow(Found), call.count) \o Unread \in Seq(Char)
         /\ SubSeq(bvec, NewLow(Found), call.count) \o Unread # <<>>
         /\ (SubSeq(bvec, NewLow(Found), call.count) \o Unread)[1] \in call.term
<1>1. /\ NewLow(Found) \in 1 .. (BvecSize + 1) /\ NewLow(Found) <= call.count
      /\ bvec[NewLow(Found)] \in call.term
      /\ SubSeq(Window, 1, Found - 1) \in Seq(Char)
      /\ Window = SubSeq(Window, 1, Found - 1) \o SubSeq(bvec, NewLow(Found), call.count)
  BY GetsFoundIs
<1>2. /\ bvec \in Seq(Char) /\ Len(bvec) = BvecSize /\ BvecSize \in Nat
      /\ call.count \in 0 .. BvecSize
      /\ Unread \in Seq(Char) /\ call.temp \in Seq(Char)
  BY PartsAreSeqs, TextAssumption DEF InputInv, InputTypeOK
<1>3. /\ NewLow(Found) \in Nat \ {0} /\ call.count \in Int
      /\ call.count <= Len(bvec) /\ NewLow(Found) <= call.count
  BY <1>1, <1>2
<1>4. SubSeq(bvec, NewLow(Found), call.count) \in Seq(Char)
  BY <1>2, <1>3, PartIsSeq
<1>5. Left = (call.temp \o Window) \o Unread
  BY LeftIs DEF InMemory
<1>6. Left = (call.temp \o SubSeq(Window, 1, Found - 1))
               \o (SubSeq(bvec, NewLow(Found), call.count) \o Unread)
  <2>1. PICK m \in Seq(Char), w \in Seq(Char), t \in Seq(Char), u \in Seq(Char) :
          /\ m = call.temp /\ w = SubSeq(Window, 1, Found - 1)
          /\ t = SubSeq(bvec, NewLow(Found), call.count) /\ u = Unread
    BY <1>1, <1>2, <1>4
  <2>2. (m \o (w \o t)) \o u = (m \o w) \o (t \o u)
    BY SMTT(30)
  <2>3. Left = (m \o (w \o t)) \o u
    BY <1>1, <1>5, <2>1
  <2>. QED  BY <2>1, <2>2, <2>3
<1>7. /\ Len(SubSeq(bvec, NewLow(Found), call.count)) # 0
      /\ SubSeq(bvec, NewLow(Found), call.count)[1] \in call.term
  <2>1. PICK i \in Nat \ {0}, j \in Int : i = NewLow(Found) /\ j = call.count
    BY <1>3
  <2>2. /\ Len(SubSeq(bvec, i, j)) # 0 /\ SubSeq(bvec, i, j)[1] = bvec[i]
    BY <1>2, <1>3, <2>1, PartIsSeq
  <2>. QED  BY <1>1, <2>1, <2>2
<1>8. /\ SubSeq(bvec, NewLow(Found), call.count) \o Unread \in Seq(Char)
      /\ SubSeq(bvec, NewLow(Found), call.count) \o Unread # <<>>
      /\ (SubSeq(bvec, NewLow(Found), call.count) \o Unread)[1] \in call.term
  <2>1. PICK p \in Seq(Char), u \in Seq(Char) :
          p = SubSeq(bvec, NewLow(Found), call.count) /\ u = Unread
    BY <1>2, <1>4
  <2>2. p \o u \in Seq(Char) /\ p \o u # <<>> /\ (p \o u)[1] = p[1]
    BY <1>7, <2>1, FirstOfText
  <2>. QED  BY <1>7, <2>1, <2>2
<1>. QED  BY <1>6, <1>8

LEMMA GetsFoundSim ==
  ASSUME InputInv, GetsFound, torn = FALSE
  PROVE  Reader!Next
<1>1. InGet /\ Found # 0
      /\ GetReturns(call.temp \o SubSeq(Window, 1, Found - 1), NewLow(Found), call.count)
  BY DEF GetsFound
<1>2. /\ SubSeq(Window, 1, Found - 1) \in Seq(Char)
      /\ \A i \in 1 .. Len(SubSeq(Window, 1, Found - 1)) :
           SubSeq(Window, 1, Found - 1)[i] \notin call.term
  BY <1>1, GetsFoundIs
<1>3. /\ call.temp \o SubSeq(Window, 1, Found - 1) \in Seq(Char)
      /\ \A i \in 1 .. Len(call.temp \o SubSeq(Window, 1, Found - 1)) :
           (call.temp \o SubSeq(Window, 1, Found - 1))[i] \notin call.term
  <2>1. PICK w \in Seq(Char) : w = SubSeq(Window, 1, Found - 1)
    BY <1>2
  <2>. QED  BY <1>1, <1>2, <2>1, CollectedHasNone
<1>4. PICK s \in Seq(Char) : s = call.temp \o SubSeq(Window, 1, Found - 1)
  BY <1>3
<1>5. PICK r \in Seq(Char) : r = SubSeq(bvec, NewLow(Found), call.count) \o Unread
  BY <1>1, FoundCutsLeft
<1>6. PICK low, high : low = NewLow(Found) /\ high = call.count
  OBVIOUS
<1>7. Left = s \o r /\ r # <<>> /\ r[1] \in call.term
  BY <1>1, <1>4, <1>5, FoundCutsLeft
<1>8. Left # <<>>
  BY <1>7, ConcatEqualIffEmpty
<1>9. GetReturns(s, low, high) /\ r = SubSeq(bvec, low, high) \o Unread
  BY <1>1, <1>4, <1>5, <1>6
<1>10. \A i \in 1 .. Len(s) : s[i] \notin call.term
  BY <1>3, <1>4
<1>. QED  BY <1>1, <1>7, <1>8, <1>9, <1>10, GetReturnsSim

\* A gets that reads on: the unread text it gets is searched next.
LEMMA GetsReadsSim ==
  ASSUME InputInv, NEW n \in 1 .. BvecSize, GetsReads(n)
  PROVE  UNCHANGED Reader!vars
<1>1. InGet /\ Found = 0 /\ Reads(n) /\ UNCHANGED <<chan, index, max, line, ret, given, resets, torn>>
      /\ call' = [call EXCEPT !.temp = @ \o Window, !.low = 1, !.count = n, !.reads = TRUE]
  BY DEF GetsReads
<1>2. call \in Calls
  BY DEF InputInv, InputTypeOK, Calls
<1>3. /\ call'.op = call.op /\ call'.temp = call.temp \o Window
      /\ call'.low = 1 /\ call'.count = n
  BY <1>1, <1>2 DEF Calls
<1>4. /\ SubSeq(bvec', 1, n) \in Seq(Char) /\ Unread' \in Seq(Char)
      /\ Unread = SubSeq(bvec', 1, n) \o Unread'
  BY <1>1, ReadKeeps DEF InputInv, chan
<1>5. InMemory = call.temp \o Window /\ InMemory' = (call.temp \o Window) \o SubSeq(bvec', 1, n)
  BY <1>1, <1>3 DEF InMemory, InGet, Window
<1>6. PICK m \in Seq(Char), t \in Seq(Char), u \in Seq(Char) :
        m = call.temp \o Window /\ t = SubSeq(bvec', 1, n) /\ u = Unread'
  BY <1>4, PartsAreSeqs DEF InputInv
<1>7. (m \o t) \o u = m \o (t \o u)
  BY SMTT(30)
<1>8. Left' = Left
  <2>1. CASE torn = FALSE
    BY <1>1, <1>4, <1>5, <1>6, <1>7, <2>1, LeftIs, LeftNextIs
  <2>2. CASE torn = TRUE
    BY <1>1, <2>2 DEF Left
  <2>. QED  BY <2>1, <2>2 DEF InputInv, InputTypeOK
<1>. QED  BY <1>1, <1>8, SilentStep DEF chan

LEMMA GetsEndsSim ==
  ASSUME InputInv, GetsEnds, torn = FALSE
  PROVE  Reader!Next
<1>1. InGet /\ Found = 0 /\ AtEnd
  BY DEF GetsEnds
<1>2. Unread = <<>>
  BY <1>1, SubSeqEmpty DEF Unread, AtEnd, InputInv, InputTypeOK
<1>3. PICK s \in Seq(Char) : s = call.temp \o Window
  BY <1>1, WindowHasNone
<1>4. Left = s \o <<>> /\ s \o <<>> = s
  BY <1>1, <1>2, <1>3, LeftIs, ConcatEmptySeq DEF InMemory
<1>5. CASE s = <<>> /\ Fails("end_of_file") /\ UNCHANGED torn
  <2>1. /\ call' = Idle /\ UNCHANGED <<text, given, torn>> /\ ret' = Signalled("end_of_file")
        /\ index' = index /\ max' = max /\ bvec' = bvec /\ pos' = pos
    BY <1>5 DEF Fails, chan, buffer
  <2>2. Window = <<>>
    <3>1. PICK m \in Seq(Char), w \in Seq(Char) : m = call.temp /\ w = Window
      BY PartsAreSeqs DEF InputInv
    <3>2. m \o w = <<>> => w = <<>>
      OBVIOUS
    <3>. QED  BY <1>3, <1>5, <3>1, <3>2
  <2>3. call.low > call.count
    <3>1. /\ call.low \in 1 .. (BvecSize + 1) /\ call.count \in 0 .. BvecSize
          /\ bvec \in Seq(Char) /\ Len(bvec) = BvecSize /\ BvecSize \in Nat
      BY PartsAreSeqs, TextAssumption DEF InputInv, InputTypeOK
    <3>2. Len(Window) = IF call.low <= call.count THEN call.count - call.low + 1 ELSE 0
      BY <3>1, PartIsSeq DEF Window
    <3>. QED  BY <2>2, <3>1, <3>2
  <2>4. call.reads = FALSE
    BY <1>1, <2>3 DEF InputInv, InputTypeOK, GetOK
  <2>5. Current = <<>>
    BY <1>1, <2>2, <2>4 DEF Current, Window, InputInv, GetOK
  <2>6. Left = <<>>
    BY <1>4, <1>5
  <2>7. Left' = Current \o Unread
    BY <2>1, LeftNextIs, IdleIs DEF InMemory, InGet, Current, Unread
  <2>8. Left' = Left
    BY <1>2, <1>4, <1>5, <2>5, <2>7
  <2>9. Reader!EndOfFile
    BY <2>1, <2>6, <2>8 DEF Reader!EndOfFile, Reader!Signalled, Signalled
  <2>. QED  BY <2>1, <2>9, PromisedStep
<1>6. CASE s # <<>> /\ GetReturns(s, 1, 0)
  <2>1. \A i \in 1 .. Len(s) : s[i] \notin call.term
    BY <1>1, <1>3, WindowHasNone
  <2>2. PICK r \in Seq(Char) : r = <<>>
    BY EmptySeq
  <2>3. SubSeq(bvec, 1, 0) = <<>>
    BY SubSeqEmpty
  <2>4. r = SubSeq(bvec, 1, 0) \o Unread
    BY <1>2, <2>2, <2>3, ConcatEmptySeq
  <2>. QED  BY <1>1, <1>4, <1>6, <2>1, <2>2, <2>4, GetReturnsSim
<1>. QED  BY <1>3, <1>5, <1>6 DEF GetsEnds

LEMMA GetsFailsSim ==
  ASSUME InputInv, GetsFails, torn = FALSE
  PROVE  Reader!Next
<1>1. /\ InGet /\ ret' = Signalled("not_possible") /\ call' = Idle
      /\ UNCHANGED <<chan, buffer, given>> /\ torn' = (torn \/ call.reads)
  BY DEF GetsFails, Fails
<1>2. CASE call.reads = TRUE
  <2>1. torn' = TRUE /\ Left' = <<>>
    BY <1>1, <1>2 DEF Left
  <2>2. Reader!Spoil
    BY <2>1 DEF Reader!Spoil
  <2>. QED  BY <1>1, <2>2 DEF Reader!Next, chan
<1>3. CASE call.reads = FALSE
  <2>1. torn' = FALSE
    BY <1>1, <1>3
  <2>2. call.temp = <<>> /\ Window = Current
    BY <1>1, <1>3 DEF InputInv, GetOK, Window, Current
  <2>3. InMemory = Current
    BY <1>1, <2>2, PartsAreSeqs, ConcatEmptySeq DEF InputInv, InMemory
  <2>4. Left' = Current \o Unread
    BY <1>1, <2>1, LeftNextIs, IdleIs DEF InMemory, InGet, Current, Unread, chan, buffer
  <2>5. Left' = Left
    BY <2>3, <2>4, LeftIs
  <2>6. Reader!NotPossible
    BY <1>1, <2>5 DEF Reader!NotPossible, Reader!Signalled, Signalled
  <2>. QED  BY <1>1, <2>1, <2>6, PromisedStep DEF chan
<1>. QED  BY <1>2, <1>3 DEF InputInv, InputTypeOK

LEMMA ScriptSim ==
  ASSUME InputInv, Script
  PROVE  [Reader!Next]_(Reader!vars)
<1>1. call.op \in {"script", "scriptl"} /\ InMemory = Current
  BY DEF Script, InMemory, InGet
<1>2. CASE call' = Idle /\ UNCHANGED <<chan, buffer, line, ret, given, resets, torn>>
  <2>1. InMemory' = InMemory /\ Unread' = Unread
    BY <1>1, <1>2, IdleIs DEF InMemory, InGet, Current, Unread, chan, buffer
  <2>2. Left' = Left
    <3>1. CASE torn = FALSE
      BY <1>2, <2>1, <3>1, LeftIs, LeftNextIs
    <3>2. CASE torn = TRUE
      BY <1>2, <3>2 DEF Left
    <3>. QED  BY <3>1, <3>2 DEF InputInv, InputTypeOK
  <2>. QED  BY <1>2, <2>2, SilentStep DEF chan
<1>3. CASE /\ call.op = "scriptl" /\ ~(index > max)
           /\ index' = index + 1 /\ line' = line + 1 /\ given' = Append(given, bvec[index])
           /\ call' = [Idle EXCEPT !.op = "script", !.temp = <<Newline>>]
           /\ UNCHANGED <<chan, pos, bvec, max, ret, resets, torn>>
  <2>1. CASE torn = TRUE
    BY <1>3, <2>1, TornStep DEF chan
  <2>2. CASE torn = FALSE
    <3>1. index <= max /\ index \in 1 .. BvecSize /\ max \in 0 .. BvecSize
      BY <1>3, TextAssumption, SMTT(30) DEF InputInv, InputTypeOK
    <3>2. bvec[index] = Newline /\ Newline \in Char
      BY <1>3, <3>1, TextAssumption DEF InputInv, GetlOK
    <3>3. call'.op = "script"
      <4>1. call' = CallFor("script", <<Newline>>) /\ <<Newline>> \in Seq(Char)
        BY <1>3, <3>2, OneIsSeq DEF CallFor
      <4>. QED  BY <4>1, CallIs
    <3>4. Left' = SubSeq(bvec, index + 1, max) \o Unread
      BY <1>3, <2>2, <3>3, LeftNextIs DEF InMemory, InGet, Current, Unread, chan
    <3>5. Left = SubSeq(bvec, index, max) \o Unread
      BY <1>1, <2>2, LeftIs DEF Current
    <3>6. /\ SubSeq(bvec, index, max) = <<Newline>> \o SubSeq(bvec, index + 1, max)
          /\ SubSeq(bvec, index + 1, max) \in Seq(Char)
      <4>1. bvec \in Seq(Char) /\ Len(bvec) = BvecSize
        BY PartsAreSeqs DEF InputInv
      <4>2. /\ index \in Nat \ {0} /\ index + 1 \in Nat \ {0} /\ max \in Int
            /\ max <= Len(bvec)
        BY <3>1, <4>1, TextAssumption
      <4>. QED  BY <3>1, <3>2, <4>1, <4>2, PartIsSeq, FirstOfPart
    <3>7. PICK t \in Seq(Char), u \in Seq(Char) : t = SubSeq(bvec, index + 1, max) /\ u = Unread
      BY <3>6, PartsAreSeqs DEF InputInv
    <3>8. (<<Newline>> \o t) \o u = <<Newline>> \o (t \o u) /\ t \o u \in Seq(Char)
      <4>1. PICK n \in Seq(Char) : n = <<Newline>>
        BY <3>2, OneIsSeq
      <4>2. (n \o t) \o u = n \o (t \o u) /\ t \o u \in Seq(Char)
        BY SMTT(30)
      <4>. QED  BY <4>1, <4>2
    <3>9. given' = given \o <<Newline>>
      <4>1. given \in Seq(Char)
        BY DEF InputInv, InputTypeOK
      <4>2. given' = Append(given, Newline)
        BY <1>3, <3>2
      <4>. QED  BY <3>2, <4>1, <4>2, AppendIsConcat
    <3>10. Reader!TakeNewline
      <4>1. PICK r \in Seq(Char) : r = t \o u
        BY <3>8
      <4>2. Left = <<Newline>> \o r /\ Left' = r
        BY <3>4, <3>5, <3>6, <3>7, <3>8, <4>1
      <4>. QED  BY <1>3, <3>9, <4>2, TakeNewlineIs
    <3>. QED  BY <1>3, <2>2, <3>10, PromisedStep DEF chan
  <2>. QED  BY <2>1, <2>2 DEF InputInv, InputTypeOK
<1>. QED  BY <1>2, <1>3 DEF Script, buffer

\* reset: a file is read from its start, a pipe is left as it is, and of what is left of a
\* terminal the part in the buffer is lost.
LEMMA ResetSim ==
  ASSUME InputInv, Reset
  PROVE  Reader!Next
<1>1. call.op = "idle"
  BY DEF Reset
<1>2. CASE /\ pos' = IF source = "file" THEN 0 ELSE pos
           /\ index' = max + 1 /\ line' = 1 /\ ret' = Returned(<<>>) /\ given' = <<>>
           /\ resets' = resets + 1 /\ torn' = FALSE
           /\ UNCHANGED <<chan, bvec, max, call>>
  <2>1. Current' = <<>>
    <3>1. max \in Int /\ max + 1 \in Int /\ max < max + 1
      BY TextAssumption DEF InputInv, InputTypeOK
    <3>. QED  BY <1>2, <3>1, SubSeqEmpty DEF Current
  <2>2. InMemory' = <<>>
    BY <1>1, <1>2, <2>1 DEF InMemory, InGet
  <2>3. Unread' = IF source = "file" THEN text ELSE Unread
    <3>1. CASE source = "file"
      <4>1. Unread' = SubSeq(text, 1, Len(text))
        BY <1>2, <3>1 DEF Unread, chan
      <4>. QED  BY <3>1, <4>1, SubSeqFull DEF InputInv, InputTypeOK
    <3>2. CASE source # "file"
      BY <1>2, <3>2 DEF Unread, chan
    <3>. QED  BY <3>1, <3>2
  <2>4. text \in Seq(Char) /\ Unread \in Seq(Char)
    BY PartsAreSeqs DEF InputInv, InputTypeOK
  <2>5. Left' = IF source = "file" THEN text ELSE Unread
    <3>1. PICK u \in Seq(Char) : u = IF source = "file" THEN text ELSE Unread
      BY <2>4
    <3>2. <<>> \o u = u
      BY ConcatEmptySeq
    <3>. QED  BY <1>2, <2>2, <2>3, <3>1, <3>2, LeftNextIs
  <2>6. CASE torn = FALSE
    <3>1. Left' \in {text} \cup Reader!Suffixes(Left)
      <4>1. Left = InMemory \o Unread /\ InMemory \in Seq(Char)
        BY <2>6, LeftIs, PartsAreSeqs DEF InputInv
      <4>2. Unread \in Suffixes(Left)
        BY <2>4, <4>1, EndIsSuffix
      <4>. QED  BY <2>5, <4>2 DEF Reader!Suffixes, Suffixes
    <3>2. Reader!Reset
      BY <1>2, <3>1 DEF Reader!Reset, Reader!Returned, Returned
    <3>. QED  BY <1>2, <2>6, <3>2, PromisedStep DEF chan
  <2>7. CASE torn = TRUE
    <3>1. Left' \in Reader!Suffixes(text)
      <4>1. text = <<>> \o text /\ <<>> \in Seq(Char)
        BY <2>4, ConcatEmptySeq, EmptySeq
      <4>2. text = SubSeq(text, 1, pos) \o Unread /\ SubSeq(text, 1, pos) \in Seq(Char)
        <5>1. pos \in 0 .. Len(text)
          BY DEF InputInv, InputTypeOK
        <5>. QED  BY <2>4, <5>1, CutAt DEF Unread
      <4>3. text \in Suffixes(text)
        BY <2>4, <4>1, EndIsSuffix
      <4>4. Unread \in Suffixes(text)
        BY <2>4, <4>2, EndIsSuffix
      <4>. QED  BY <2>5, <4>3, <4>4 DEF Reader!Suffixes, Suffixes
    <3>2. (~torn)' = TRUE /\ text' = text /\ given' = <<>>
      BY <1>2 DEF chan
    <3>. QED  BY <2>7, <3>1, <3>2 DEF Reader!Next
  <2>. QED  BY <2>6, <2>7 DEF InputInv, InputTypeOK
<1>3. CASE Fails("not_possible") /\ UNCHANGED torn
  <2>1. /\ call' = Idle /\ ret' = Signalled("not_possible")
        /\ UNCHANGED <<chan, buffer, given, torn>>
    BY <1>3 DEF Fails
  <2>2. InMemory' = InMemory /\ Unread' = Unread
    BY <1>1, <2>1, IdleIs DEF InMemory, InGet, Current, Unread, chan, buffer
  <2>3. CASE torn = TRUE
    BY <2>1, <2>3, TornStep DEF chan
  <2>4. CASE torn = FALSE
    <3>1. Left' = Left
      BY <2>1, <2>2, <2>4, LeftIs, LeftNextIs
    <3>2. Reader!NotPossible
      BY <2>1, <3>1 DEF Reader!NotPossible, Reader!Signalled, Signalled
    <3>. QED  BY <2>1, <2>4, <3>2, PromisedStep DEF chan
  <2>. QED  BY <2>3, <2>4 DEF InputInv, InputTypeOK
<1>. QED  BY <1>2, <1>3 DEF Reset

\* Every step is one of the abstract reader, or one the client does not see.
LEMMA InputSim ==
  ASSUME InputInv, [InputNext]_inputVars
  PROVE  [Reader!Next]_(Reader!vars)
<1>1. CASE UNCHANGED inputVars
  <2>1. Left' = Left
    BY <1>1 DEF Left, InGet, Window, inputVars, chan, buffer
  <2>. QED  BY <1>1, <2>1, SilentStep DEF inputVars, chan
<1>2. CASE Getl  BY <1>2, BeginsSim DEF Getl
<1>3. ASSUME NEW T \in Term, Gets(T) PROVE [Reader!Next]_(Reader!vars)
  BY <1>3, BeginsSim DEF Gets
<1>4. ASSUME NEW n \in 1 .. BvecSize, GetsReads(n) PROVE [Reader!Next]_(Reader!vars)
  BY <1>4, GetsReadsSim
<1>5. CASE Script  BY <1>5, ScriptSim
<1>6. CASE Reset  BY <1>6, ResetSim
<1>7. CASE Getc \/ Peekc \/ GetsFound \/ GetsEnds \/ GetsFails
  <2>1. CASE torn = FALSE
    BY <1>7, <2>1, GetcSim, PeekcSim, GetsFoundSim, GetsEndsSim, GetsFailsSim
  <2>2. CASE torn = TRUE
    <3>1. text' = text
      BY <1>7 DEF Getc, Gives, GetbFails, Peekc, GetsFound, GetsEnds, GetsFails, GetReturns, Fails, chan
    <3>2. torn' = TRUE
      BY <1>7, <2>2 DEF Getc, GetbFails, Peekc, GetsFound, GetsEnds, GetsFails, GetReturns
    <3>. QED  BY <2>2, <3>1, <3>2, TornStep
  <2>. QED  BY <2>1, <2>2 DEF InputInv, InputTypeOK
<1>. QED
  BY <1>1, <1>2, <1>3, <1>4, <1>5, <1>6, <1>7 DEF InputNext, Client, GetSteps

LEMMA InputStartSim ==
  ASSUME InputInit
  PROVE  Reader!Init
<1>1. InputInv /\ torn = FALSE
  BY InputStart DEF InputInit
<1>2. Current = <<>> /\ InMemory = Current
  BY SubSeqEmpty, IdleIs DEF InputInit, Current, InMemory, InGet
<1>3. text \in Seq(Char)
  BY <1>1 DEF InputInv, InputTypeOK
<1>4. Unread = text
  BY <1>3, SubSeqFull DEF InputInit, Unread
<1>5. Left = text
  BY <1>1, <1>2, <1>3, <1>4, LeftIs, ConcatEmptySeq
<1>. QED  BY <1>1, <1>5 DEF InputInit, Reader!Init, Reader!Returned, Returned

\* The stream gives its text once and in order, whatever the reads return.
THEOREM InputReadsInOrder == InputSpec => ReadsInOrder
<1>1. InputInit => Reader!Init
  BY InputStartSim
<1>2. InputInv /\ [InputNext]_inputVars => [Reader!Next]_(Reader!vars)
  BY InputSim
<1>. QED  BY <1>1, <1>2, InputAlways, PTL DEF InputSpec, ReadsInOrder, Reader!Spec

-----------------------------------------------------------------------------
(* The invariant of the stream that is written *)

PutCalls == [op : {"idle", "puts", "flush", "unbuffer"}, str : Seq(Char),
             high : 0 .. BvecSize, chunks : BOOLEAN]

\* How many characters of the buffer count.
InUse == IF InPuts THEN put.high ELSE windex

\* There is room for a character, unbuffered output leaves nothing behind, and a puts fills the
\* buffer from where wb.index says until it has written it out once.
HighOK ==
  /\ windex < BvecSize /\ put.high < BvecSize
  /\ obf = FALSE => windex = 0
  /\ InPuts => (IF put.chunks THEN put.high = 0 ELSE put.high = windex)
  /\ ~InPuts => put.str = <<>>

\* A newline among the first n characters of b has a NUL before it.
Hidden(b, n) == \A i \in 1 .. n : b[i] = Newline => \E j \in 1 .. (i - 1) : b[j] = Nul

\* No newline that put has seen waits in the buffer, also while a puts runs.
NoneWaits == wtorn = FALSE => Hidden(wbvec, InUse)

OutputInv == OutputTypeOK /\ HighOK /\ NoneWaits /\ WritesInOrder

\* The steps of the stream: those of its calls, and the calls of its client.
OutputNext == PutSteps \/ OutputClient \/ \E s \in Seq(Char) : Puts(s)

LEMMA OutputParts ==
  ASSUME OutputInv
  PROVE  /\ wbvec \in [1 .. BvecSize -> Char] /\ wbvec \in Seq(Char) /\ Len(wbvec) = BvecSize
         /\ BvecSize \in Nat \ {0} /\ file \in Seq(Char) /\ accepted \in Seq(Char)
         /\ put \in PutCalls /\ put.str \in Seq(Char) /\ put.high \in 0 .. BvecSize
         /\ windex \in 0 .. BvecSize /\ windex < BvecSize /\ put.high < BvecSize
         /\ Buffered \in Seq(Char) /\ Buffered = SubSeq(wbvec, 1, InUse)
<1>1. /\ wbvec \in [1 .. BvecSize -> Char] /\ wbvec \in Seq(Char) /\ Len(wbvec) = BvecSize
      /\ BvecSize \in Nat \ {0}
  BY BvecIsSeq, TextAssumption DEF OutputInv, OutputTypeOK
<1>2. /\ put \in PutCalls /\ put.str \in Seq(Char) /\ put.high \in 0 .. BvecSize
      /\ windex \in 0 .. BvecSize /\ windex < BvecSize /\ put.high < BvecSize
      /\ file \in Seq(Char) /\ accepted \in Seq(Char)
  BY DEF OutputInv, OutputTypeOK, HighOK, PutCalls
<1>3. InUse \in 0 .. BvecSize
  BY <1>2 DEF InUse
<1>4. Buffered = SubSeq(wbvec, 1, InUse)
  BY DEF Buffered, FirstN, InUse
<1>5. SubSeq(wbvec, 1, InUse) \in Seq(Char)
  BY <1>1, <1>3, PartIsSeq
<1>. QED  BY <1>1, <1>2, <1>4, <1>5

LEMMA HiddenSame ==
  ASSUME NEW b, NEW c, NEW n \in Nat, Hidden(b, n), \A i \in 1 .. n : c[i] = b[i]
  PROVE  Hidden(c, n)
BY DEF Hidden

\* A text with s behind the first h characters of b.
LEMMA HiddenJoined ==
  ASSUME NEW b, NEW s, NEW c, NEW h \in Nat, NEW n \in Nat, Hidden(b, h), Hidden(s, n),
         \A i \in 1 .. h : c[i] = b[i],
         \A i \in (h + 1) .. (h + n) : c[i] = s[i - h]
  PROVE  Hidden(c, h + n)
<1>1. SUFFICES ASSUME NEW i \in 1 .. (h + n), c[i] = Newline
               PROVE  \E j \in 1 .. (i - 1) : c[j] = Nul
  BY DEF Hidden
<1>2. CASE i <= h
  <2>1. i \in 1 .. h /\ b[i] = Newline
    BY <1>1, <1>2
  <2>2. PICK j \in 1 .. (i - 1) : b[j] = Nul
    BY <2>1 DEF Hidden
  <2>3. j \in 1 .. h /\ c[j] = Nul
    BY <2>1, <2>2
  <2>. QED  BY <2>2, <2>3
<1>3. CASE ~(i <= h)
  <2>1. i - h \in 1 .. n /\ s[i - h] = Newline
    BY <1>1, <1>3
  <2>2. PICK j \in 1 .. (i - h - 1) : s[j] = Nul
    BY <2>1 DEF Hidden
  <2>3. h + j \in (h + 1) .. (h + n) /\ h + j - h = j /\ h + j \in 1 .. (i - 1)
    BY <2>1, <2>2
  <2>4. c[h + j] = Nul
    BY <2>2, <2>3
  <2>. QED  BY <2>3, <2>4
<1>. QED  BY <1>2, <1>3

LEMMA ToNewlineIs ==
  ToNewline = LET i == FirstIn(put.str, {Newline, Nul})
              IN  IF i # 0 /\ put.str[i] = Newline THEN i ELSE 0
BY DEF ToNewline, FirstIn, SelectInSeq

\* How much of its string puts copies.
LEMMA CountIs ==
  ASSUME OutputInv
  PROVE  /\ CopyCount \in 0 .. Len(put.str) /\ Top = put.high + CopyCount
         /\ Top \in 0 .. BvecSize /\ Len(put.str) \in Nat
         /\ ~Forced => /\ CopyCount = Len(put.str) /\ Top < BvecSize
                      /\ Hidden(put.str, Len(put.str))
<1>1. /\ put.str \in Seq(Char) /\ put.high \in 0 .. BvecSize /\ put.high < BvecSize
      /\ BvecSize \in Nat \ {0} /\ Len(put.str) \in Nat
  BY OutputParts
<1>2. /\ ToNewline \in 0 .. Len(put.str)
      /\ ToNewline = 0 => Hidden(put.str, Len(put.str))
  <2>1. PICK f : f = FirstIn(put.str, {Newline, Nul})
    OBVIOUS
  <2>2. /\ f \in 0 .. Len(put.str)
        /\ f = 0 => \A i \in 1 .. Len(put.str) : put.str[i] \notin {Newline, Nul}
        /\ f # 0 => put.str[f] \in {Newline, Nul}
                   /\ \A i \in 1 .. (f - 1) : put.str[i] \notin {Newline, Nul}
    BY <1>1, <2>1, FirstInIs
  <2>3. ToNewline = IF f # 0 /\ put.str[f] = Newline THEN f ELSE 0
    BY <2>1, ToNewlineIs
  <2>4. ASSUME ToNewline = 0, NEW i \in 1 .. Len(put.str), put.str[i] = Newline
        PROVE  \E j \in 1 .. (i - 1) : put.str[j] = Nul
    <3>1. f \in 1 .. Len(put.str) /\ put.str[f] = Nul /\ put.str[f] # Newline
      BY <1>1, <2>2, <2>3, <2>4
    <3>2. f # i /\ ~(i < f)
      BY <1>1, <2>2, <2>4, <3>1
    <3>. QED  BY <1>1, <2>4, <3>1, <3>2
  <2>. QED  BY <1>1, <2>2, <2>3, <2>4 DEF Hidden
<1>3. Space \in 1 .. BvecSize /\ Space = BvecSize - put.high
  BY <1>1 DEF Space
<1>4. /\ CopyCount \in 0 .. Len(put.str) /\ CopyCount <= Space
      /\ ToNewline = 0 /\ CopyCount # Space => CopyCount = Len(put.str)
  BY <1>1, <1>2, <1>3 DEF CopyCount, Lesser
<1>5. Top = put.high + CopyCount
  BY DEF Top
<1>6. ~Forced => ToNewline = 0 /\ CopyCount # Space
  BY DEF Forced
<1>. QED  BY <1>1, <1>2, <1>3, <1>4, <1>5, <1>6

\* The buffer with the piece: what was in it, and the piece.
LEMMA CopiedIs ==
  ASSUME OutputInv
  PROVE  /\ Copied \in [1 .. BvecSize -> Char] /\ Copied \in Seq(Char) /\ Len(Copied) = BvecSize
         /\ \A n \in 0 .. BvecSize : FirstN(Copied, n) \in Seq(Char)
         /\ \A n \in 0 .. put.high : FirstN(Copied, n) = FirstN(wbvec, n)
         /\ FirstN(put.str, CopyCount) \in Seq(Char)
         /\ FirstN(Copied, Top) = FirstN(wbvec, put.high) \o FirstN(put.str, CopyCount)
         /\ \A i \in 1 .. put.high : Copied[i] = wbvec[i]
         /\ \A i \in (put.high + 1) .. Top : Copied[i] = put.str[i - put.high]
<1>1. /\ wbvec \in [1 .. BvecSize -> Char] /\ wbvec \in Seq(Char) /\ Len(wbvec) = BvecSize
      /\ BvecSize \in Nat \ {0} /\ put.str \in Seq(Char)
      /\ put.high \in 0 .. BvecSize
  BY OutputParts
<1>2. /\ CopyCount \in 0 .. Len(put.str) /\ Top = put.high + CopyCount
      /\ Top \in 0 .. BvecSize /\ Len(put.str) \in Nat
  BY CountIs
<1>3. \A i \in (put.high + 1) .. Top : put.str[i - put.high] \in Char
  <2> TAKE i \in (put.high + 1) .. Top
  <2>1. i - put.high \in 1 .. Len(put.str)
    BY <1>1, <1>2
  <2>. QED  BY <1>1, <2>1, ElementOfSeq
<1>4. /\ Copied \in [1 .. BvecSize -> Char]
      /\ \A i \in 1 .. put.high : Copied[i] = wbvec[i]
      /\ \A i \in (put.high + 1) .. Top : Copied[i] = put.str[i - put.high]
  BY <1>1, <1>2, <1>3 DEF Copied
<1>5. Copied \in Seq(Char) /\ Len(Copied) = BvecSize
  BY <1>4, BvecIsSeq
<1> DEFINE b == Copied
<1> HIDE DEF b
<1>6. b \in Seq(Char) /\ Len(b) = BvecSize
  BY <1>5 DEF b
<1>7. \A n \in 0 .. BvecSize : SubSeq(b, 1, n) \in Seq(Char) /\ Len(SubSeq(b, 1, n)) = n
                              /\ \A i \in 1 .. n : SubSeq(b, 1, n)[i] = b[i]
  BY <1>1, <1>6, PartIsSeq
<1>8. \A n \in 0 .. BvecSize : SubSeq(wbvec, 1, n) \in Seq(Char) /\ Len(SubSeq(wbvec, 1, n)) = n
                              /\ \A i \in 1 .. n : SubSeq(wbvec, 1, n)[i] = wbvec[i]
  BY <1>1, PartIsSeq
<1>9. \A n \in 0 .. put.high : SubSeq(b, 1, n) = SubSeq(wbvec, 1, n)
  <2> TAKE n \in 0 .. put.high
  <2>1. n \in 0 .. BvecSize /\ \A i \in 1 .. n : b[i] = wbvec[i]
    BY <1>1, <1>4 DEF b
  <2>. QED  BY <1>7, <1>8, <2>1, SeqEqual
<1>10. /\ SubSeq(put.str, 1, CopyCount) \in Seq(Char)
       /\ Len(SubSeq(put.str, 1, CopyCount)) = CopyCount
       /\ \A i \in 1 .. CopyCount : SubSeq(put.str, 1, CopyCount)[i] = put.str[i]
  BY <1>1, <1>2, PartIsSeq
<1>11. SubSeq(b, 1, Top) = SubSeq(wbvec, 1, put.high) \o SubSeq(put.str, 1, CopyCount)
  <2>1. PICK p \in Seq(Char), q \in Seq(Char) :
          p = SubSeq(wbvec, 1, put.high) /\ q = SubSeq(put.str, 1, CopyCount)
    <3>1. SubSeq(wbvec, 1, put.high) \in Seq(Char)
      BY <1>1, <1>8
    <3>. QED  BY <1>10, <3>1
  <2>2. /\ Len(p) = put.high /\ Len(q) = CopyCount
        /\ \A i \in 1 .. put.high : p[i] = wbvec[i]
        /\ \A i \in 1 .. CopyCount : q[i] = put.str[i]
    <3>1. put.high \in 0 .. BvecSize
      BY <1>1
    <3>2. Len(p) = put.high /\ \A i \in 1 .. put.high : p[i] = wbvec[i]
      BY <1>8, <2>1, <3>1
    <3>3. Len(q) = CopyCount /\ \A i \in 1 .. CopyCount : q[i] = put.str[i]
      BY <1>10, <2>1
    <3>. QED  BY <3>2, <3>3
  <2>3. /\ p \o q \in Seq(Char) /\ Len(p \o q) = Top
        /\ \A i \in 1 .. Top : (p \o q)[i] = IF i <= put.high THEN p[i] ELSE q[i - put.high]
    <3>1. /\ p \o q \in Seq(Char) /\ Len(p \o q) = Len(p) + Len(q)
          /\ \A i \in 1 .. (Len(p) + Len(q)) :
               (p \o q)[i] = IF i <= Len(p) THEN p[i] ELSE q[i - Len(p)]
      BY ConcatProperties
    <3>2. Len(p) + Len(q) = Top /\ Len(p) = put.high
      BY <1>2, <2>2
    <3>. QED  BY <3>1, <3>2
  <2>4. \A i \in 1 .. Top : b[i] = (p \o q)[i]
    <3> TAKE i \in 1 .. Top
    <3>1. CASE i <= put.high
      BY <1>1, <1>2, <1>4, <2>2, <2>3, <3>1 DEF b
    <3>2. CASE ~(i <= put.high)
      <4>1. i \in (put.high + 1) .. Top /\ i - put.high \in 1 .. CopyCount
        BY <1>1, <1>2, <3>2
      <4>2. (p \o q)[i] = q[i - put.high] /\ q[i - put.high] = put.str[i - put.high]
        BY <2>2, <2>3, <3>2, <4>1
      <4>. QED  BY <1>4, <4>1, <4>2 DEF b
    <3>. QED  BY <3>1, <3>2
  <2>5. SubSeq(b, 1, Top) = p \o q
    BY <1>2, <1>7, <2>3, <2>4, SeqEqual
  <2>. QED  BY <2>1, <2>5
<1>. QED  BY <1>4, <1>5, <1>7, <1>9, <1>10, <1>11 DEF b, FirstN

\* What a step of the stream has to show of the type invariant and of HighOK, when put ends.
LEMMA EndingTypes ==
  ASSUME OutputInv, NEW name \in {"ok", "not_possible"}, Ends(name),
         file' \in Seq(Char), accepted' \in Seq(Char), wbvec' \in [1 .. BvecSize -> Char],
         windex' \in 0 .. (BvecSize - 1),
         obf' \in BOOLEAN, dropped' \in BOOLEAN, wtorn' \in BOOLEAN,
         obf' = FALSE => windex' = 0
  PROVE  OutputTypeOK' /\ HighOK' /\ InUse' = windex'
<1>1. put' = NoPut /\ out' = name
  BY DEF Ends
<1>2. NoPut \in PutCalls /\ NoPut.op = "idle" /\ NoPut.high = 0 /\ NoPut.str = <<>>
  BY EmptySeq, TextAssumption DEF NoPut, PutCalls
<1>3. windex' \in 0 .. BvecSize /\ windex' < BvecSize /\ 0 < BvecSize
  BY TextAssumption
<1>4. OutputTypeOK'
  BY <1>1, <1>2, <1>3 DEF OutputTypeOK, PutCalls
<1>5. HighOK' /\ InUse' = windex'
  BY <1>1, <1>2, <1>3 DEF HighOK, InUse, InPuts
<1>. QED  BY <1>4, <1>5

LEMMA PieceWrittenInv ==
  ASSUME OutputInv, PieceWritten
  PROVE  OutputInv' /\ accepted' \o put'.str = accepted \o put.str
<1>1. /\ InPuts /\ Forced /\ wbvec' = Copied /\ file' = file \o FirstN(Copied, Top)
      /\ put' = [put EXCEPT !.str = SubSeq(@, CopyCount + 1, Len(@)), !.high = 0, !.chunks = TRUE]
      /\ accepted' = accepted \o FirstN(put.str, CopyCount)
      /\ UNCHANGED <<windex, obf, out, dropped, wtorn>>
  BY DEF PieceWritten
<1>2. /\ put \in PutCalls /\ put.str \in Seq(Char) /\ file \in Seq(Char) /\ accepted \in Seq(Char)
      /\ Buffered \in Seq(Char) /\ BvecSize \in Nat \ {0} /\ windex < BvecSize
  BY OutputParts
<1>3. CopyCount \in 0 .. Len(put.str) /\ Top \in 0 .. BvecSize
  BY CountIs
<1>4. PICK q \in Seq(Char) : q = SubSeq(put.str, CopyCount + 1, Len(put.str))
  BY <1>2, <1>3, CutAt
<1>5. put' = [op |-> put.op, str |-> q, high |-> 0, chunks |-> TRUE]
  BY <1>1, <1>2, <1>4 DEF PutCalls
<1>6. put' \in PutCalls
  BY <1>2, <1>5 DEF PutCalls
<1>7. /\ Copied \in [1 .. BvecSize -> Char] /\ FirstN(Copied, Top) \in Seq(Char)
      /\ FirstN(put.str, CopyCount) \in Seq(Char)
      /\ FirstN(Copied, Top) = FirstN(wbvec, put.high) \o FirstN(put.str, CopyCount)
  BY <1>3, CopiedIs
<1>8. file' \in Seq(Char) /\ accepted' \in Seq(Char)
  BY <1>1, <1>2, <1>7, ConcatProperties
<1>9. OutputTypeOK'
  BY <1>1, <1>6, <1>7, <1>8 DEF OutputInv, OutputTypeOK, PutCalls
<1>10. InPuts' /\ InUse' = 0 /\ put'.high = 0 /\ put'.chunks = TRUE /\ put'.str = q
  <2>1. put'.op = put.op /\ put'.high = 0 /\ put'.chunks = TRUE /\ put'.str = q
    BY <1>5
  <2>2. InPuts'
    BY <1>1, <2>1 DEF InPuts
  <2>. QED  BY <2>1, <2>2 DEF InUse
<1>11. HighOK'
  BY <1>1, <1>2, <1>10 DEF OutputInv, HighOK
<1>12. NoneWaits'
  BY <1>10 DEF NoneWaits, Hidden
<1>13. WritesInOrder'
  <2>1. Buffered' = <<>>
    BY <1>10, SubSeqEmpty DEF Buffered, FirstN
  <2>2. SUFFICES ASSUME wtorn' = FALSE PROVE file' \o Buffered' = accepted'
    BY <1>1 DEF WritesInOrder, OutputInv, OutputTypeOK
  <2>3. file \o Buffered = accepted
    BY <1>1, <2>2 DEF OutputInv, WritesInOrder
  <2>4. Buffered = FirstN(wbvec, put.high)
    BY <1>1 DEF Buffered
  <2>5. PICK f \in Seq(Char), x \in Seq(Char), y \in Seq(Char) :
          f = file /\ x = Buffered /\ y = FirstN(put.str, CopyCount)
    BY <1>2, <1>7
  <2>6. (f \o (x \o y)) \o <<>> = (f \o x) \o y
    BY SMTT(30)
  <2>. QED  BY <1>1, <1>7, <2>1, <2>3, <2>4, <2>5, <2>6
<1>14. accepted' \o put'.str = accepted \o put.str
  <2>1. put.str = FirstN(put.str, CopyCount) \o q
    BY <1>2, <1>3, <1>4, CutAt DEF FirstN
  <2>2. PICK a \in Seq(Char), x \in Seq(Char) : a = accepted /\ x = FirstN(put.str, CopyCount)
    BY <1>2, <1>7
  <2>3. (a \o x) \o q = a \o (x \o q)
    BY SMTT(30)
  <2>. QED  BY <1>1, <1>10, <2>1, <2>2, <2>3
<1>. QED  BY <1>9, <1>11, <1>12, <1>13, <1>14 DEF OutputInv

\* A write that fails after n characters of the buffer, when nothing was in it before.
LEMMA PartWritten ==
  ASSUME NEW f \in Seq(Char), NEW x \in Seq(Char)
  PROVE  (f \o x) \o <<>> = (f \o <<>>) \o x
BY SMTT(30)

LEMMA PieceFailsInv ==
  ASSUME OutputInv, NEW n \in 0 .. (BvecSize - 1), PieceFails(n)
  PROVE  OutputInv' /\ dropped' = TRUE
<1>1. /\ InPuts /\ Forced /\ n < Top /\ wbvec' = Copied /\ file' = file \o FirstN(Copied, n)
      /\ accepted' = IF windex = 0 THEN accepted \o FirstN(Copied, n) ELSE accepted
      /\ dropped' = TRUE
      /\ wtorn' = (wtorn \/ (windex > 0 /\ (put.chunks \/ n > 0)))
      /\ Ends("not_possible") /\ UNCHANGED <<windex, obf>>
  BY DEF PieceFails
<1>2. /\ file \in Seq(Char) /\ accepted \in Seq(Char) /\ Buffered \in Seq(Char)
      /\ BvecSize \in Nat \ {0} /\ windex \in 0 .. (BvecSize - 1) /\ put.high \in 0 .. BvecSize
  BY OutputParts
<1>3. PICK x \in Seq(Char) : x = FirstN(Copied, n)
  BY <1>2, CopiedIs
<1>4. Copied \in [1 .. BvecSize -> Char]
  BY CopiedIs
<1>5. file' \in Seq(Char) /\ accepted' \in Seq(Char)
  BY <1>1, <1>2, <1>3, ConcatProperties
<1>6. wtorn' \in BOOLEAN /\ dropped' \in BOOLEAN /\ obf' \in BOOLEAN
  BY <1>1 DEF OutputInv, OutputTypeOK
<1>7. obf' = FALSE => windex' = 0
  BY <1>1 DEF OutputInv, HighOK
<1>8. OutputTypeOK' /\ HighOK' /\ InUse' = windex'
  BY <1>1, <1>2, <1>4, <1>5, <1>6, <1>7, EndingTypes
<1>9. Buffered' = FirstN(Copied, windex)
  BY <1>1 DEF Buffered, InPuts, Ends, NoPut
<1>10. ASSUME wtorn' = FALSE
       PROVE  wtorn = FALSE /\ (windex > 0 => put.chunks = FALSE /\ ~(n > 0))
  <2>1. wtorn \in BOOLEAN /\ put.chunks \in BOOLEAN
    BY DEF OutputInv, OutputTypeOK
  <2>. QED  BY <1>1, <1>10, <2>1, Zenon
<1>11. ASSUME wtorn' = FALSE, windex > 0
       PROVE  put.high = windex /\ n = 0
  <2>1. put.chunks = FALSE /\ ~(n > 0)
    BY <1>10, <1>11
  <2>2. put.high = windex
    BY <1>1, <2>1 DEF OutputInv, HighOK
  <2>. QED  BY <2>1, <2>2
<1>12. NoneWaits'
  <2>1. SUFFICES ASSUME wtorn' = FALSE PROVE Hidden(wbvec', windex)
    BY <1>1, <1>8 DEF NoneWaits
  <2>2. CASE windex = 0
    BY <2>2 DEF Hidden
  <2>3. CASE windex > 0
    <3>1. put.high = windex /\ Hidden(wbvec, windex)
      BY <1>1, <1>10, <1>11, <2>1, <2>3 DEF OutputInv, NoneWaits, InUse
    <3>2. \A i \in 1 .. windex : Copied[i] = wbvec[i]
      BY <3>1, CopiedIs
    <3>. QED  BY <1>1, <1>2, <3>1, <3>2, HiddenSame
  <2>. QED  BY <1>2, <2>2, <2>3
<1>13. WritesInOrder'
  <2>1. SUFFICES ASSUME wtorn' = FALSE PROVE file' \o Buffered' = accepted'
    BY <1>6 DEF WritesInOrder
  <2>2. file \o Buffered = accepted /\ Buffered = FirstN(wbvec, put.high)
    BY <1>1, <1>10, <2>1 DEF OutputInv, WritesInOrder, Buffered
  <2>3. CASE windex = 0
    <3>1. put.high = 0
      BY <1>1, <2>3 DEF OutputInv, HighOK
    <3>2. Buffered = <<>> /\ Buffered' = <<>>
      BY <1>9, <2>2, <2>3, <3>1, SubSeqEmpty DEF FirstN
    <3>3. PICK f \in Seq(Char) : f = file
      BY <1>2
    <3>4. (f \o x) \o <<>> = (f \o <<>>) \o x
      BY PartWritten
    <3>. QED  BY <1>1, <1>3, <2>2, <2>3, <3>2, <3>3, <3>4
  <2>4. CASE windex > 0
    <3>1. put.high = windex /\ n = 0
      BY <1>11, <2>1, <2>4
    <3>2. FirstN(Copied, n) = <<>>
      BY <3>1, SubSeqEmpty DEF FirstN
    <3>3. FirstN(Copied, windex) = FirstN(wbvec, windex)
      BY <1>2, <3>1, CopiedIs
    <3>4. file \o <<>> = file
      BY <1>2, ConcatEmptySeq
    <3>. QED  BY <1>1, <1>9, <2>2, <2>4, <3>1, <3>2, <3>3, <3>4
  <2>. QED  BY <1>2, <2>3, <2>4
<1>. QED  BY <1>1, <1>8, <1>12, <1>13 DEF OutputInv

LEMMA PutsEndInv ==
  ASSUME OutputInv, PutsEnd
  PROVE  OutputInv' /\ dropped' = dropped /\ accepted' \o put'.str = accepted \o put.str
<1>1. /\ InPuts /\ ~Forced /\ wbvec' = Copied /\ accepted' = accepted \o put.str
      /\ \/ obf = TRUE /\ windex' = Top /\ file' = file
         \/ obf = FALSE /\ windex' = 0 /\ file' = file \o FirstN(Copied, Top)
      /\ Ends("ok") /\ UNCHANGED <<obf, dropped, wtorn>>
  BY DEF PutsEnd, OutputInv, OutputTypeOK
<1>2. /\ file \in Seq(Char) /\ accepted \in Seq(Char) /\ put.str \in Seq(Char)
      /\ Buffered \in Seq(Char) /\ BvecSize \in Nat \ {0} /\ put.high \in 0 .. BvecSize
  BY OutputParts
<1>3. /\ Top \in 0 .. (BvecSize - 1) /\ Top = put.high + CopyCount /\ CopyCount = Len(put.str)
      /\ Hidden(put.str, Len(put.str))
      /\ Len(put.str) \in Nat
  BY <1>1, <1>2, CountIs
<1>4. /\ Copied \in [1 .. BvecSize -> Char] /\ FirstN(Copied, Top) \in Seq(Char)
      /\ FirstN(Copied, Top) = FirstN(wbvec, put.high) \o put.str
  <2>1. FirstN(put.str, CopyCount) = put.str
    BY <1>2, <1>3, SubSeqFull DEF FirstN
  <2>2. Top \in 0 .. BvecSize
    BY <1>2, <1>3
  <2>. QED  BY <2>1, <2>2, CopiedIs
<1>5. file' \in Seq(Char) /\ accepted' \in Seq(Char)
  <2>1. PICK w \in Seq(Char) : w = FirstN(Copied, Top)
    BY <1>4
  <2>2. file \o w \in Seq(Char) /\ accepted \o put.str \in Seq(Char)
    BY <1>2, ConcatProperties
  <2>3. file' = file \/ file' = file \o w
    BY <1>1, <2>1
  <2>4. accepted' = accepted \o put.str
    BY <1>1
  <2>. QED  BY <1>2, <2>2, <2>3, <2>4
<1>6. /\ windex' \in 0 .. (BvecSize - 1) /\ obf' \in BOOLEAN /\ dropped' \in BOOLEAN
      /\ wtorn' \in BOOLEAN /\ (obf' = FALSE => windex' = 0)
  BY <1>1, <1>2, <1>3 DEF OutputInv, OutputTypeOK
<1>7. OutputTypeOK' /\ HighOK' /\ InUse' = windex'
  BY <1>1, <1>4, <1>5, <1>6, EndingTypes
<1>8. put'.str = <<>> /\ Buffered' = FirstN(Copied, windex')
  BY <1>1 DEF Buffered, InPuts, Ends, NoPut
<1>9. NoneWaits'
  <2>1. SUFFICES ASSUME wtorn' = FALSE PROVE Hidden(Copied, windex')
    BY <1>1, <1>7 DEF NoneWaits
  <2>2. Hidden(wbvec, put.high)
    BY <1>1, <2>1 DEF OutputInv, NoneWaits, InUse
  <2>3. Hidden(Copied, Top)
    <3>1. PICK b, c, s : b = wbvec /\ c = Copied /\ s = put.str
      OBVIOUS
    <3>2. PICK h \in Nat : h = put.high
      BY <1>2
    <3>3. PICK n \in Nat : n = Len(put.str)
      BY <1>3
    <3>4. Top = h + n
      BY <1>3, <3>2, <3>3
    <3>5. /\ Hidden(b, h) /\ Hidden(s, n)
          /\ \A i \in 1 .. h : c[i] = b[i]
          /\ \A i \in (h + 1) .. (h + n) : c[i] = s[i - h]
      BY <1>3, <2>2, <3>1, <3>2, <3>3, <3>4, CopiedIs
    <3>6. Hidden(c, h + n)
      BY <3>5, HiddenJoined
    <3>. QED  BY <3>1, <3>4, <3>6
  <2>4. Hidden(Copied, 0)
    BY DEF Hidden
  <2>. QED  BY <1>1, <2>3, <2>4
<1>10. WritesInOrder'
  <2>1. SUFFICES ASSUME wtorn' = FALSE PROVE file' \o Buffered' = accepted'
    BY <1>6 DEF WritesInOrder
  <2>2. file \o Buffered = accepted /\ Buffered = FirstN(wbvec, put.high)
    BY <1>1, <2>1 DEF OutputInv, WritesInOrder, Buffered
  <2>3. PICK f \in Seq(Char), x \in Seq(Char), y \in Seq(Char) :
          f = file /\ x = Buffered /\ y = put.str
    BY <1>2
  <2>4. f \o (x \o y) = (f \o x) \o y /\ (f \o (x \o y)) \o <<>> = (f \o x) \o y
    BY SMTT(30)
  <2>5. CASE obf = TRUE /\ windex' = Top /\ file' = file
    BY <1>1, <1>4, <1>8, <2>2, <2>3, <2>4, <2>5
  <2>6. CASE windex' = 0 /\ file' = file \o FirstN(Copied, Top)
    <3>1. FirstN(Copied, 0) = <<>>
      BY SubSeqEmpty DEF FirstN
    <3>. QED  BY <1>1, <1>4, <1>8, <2>2, <2>3, <2>4, <2>6, <3>1
  <2>. QED  BY <1>1, <2>5, <2>6
<1>11. accepted' \o put'.str = accepted \o put.str
  BY <1>1, <1>5, <1>8, ConcatEmptySeq
<1>. QED  BY <1>1, <1>7, <1>9, <1>10, <1>11 DEF OutputInv

LEMMA PutsEndFailsInv ==
  ASSUME OutputInv, NEW n \in 0 .. (BvecSize - 1), PutsEndFails(n)
  PROVE  OutputInv' /\ dropped' = TRUE
<1>1. /\ InPuts /\ obf = FALSE /\ wbvec' = Copied /\ file' = file \o FirstN(Copied, n)
      /\ accepted' = accepted \o FirstN(Copied, n) /\ dropped' = TRUE
      /\ Ends("not_possible") /\ UNCHANGED <<windex, obf, wtorn>>
  BY DEF PutsEndFails, OutputInv, OutputTypeOK
<1>2. /\ file \in Seq(Char) /\ accepted \in Seq(Char) /\ Buffered \in Seq(Char)
      /\ BvecSize \in Nat \ {0}
  BY OutputParts
<1>3. windex = 0 /\ put.high = 0
  BY <1>1 DEF OutputInv, HighOK
<1>4. PICK x \in Seq(Char) : x = FirstN(Copied, n)
  BY <1>2, CopiedIs
<1>5. Copied \in [1 .. BvecSize -> Char]
  BY CopiedIs
<1>6. file' \in Seq(Char) /\ accepted' \in Seq(Char)
  BY <1>1, <1>2, <1>4, ConcatProperties, SMTT(30)
<1>7. /\ windex' \in 0 .. (BvecSize - 1) /\ obf' \in BOOLEAN /\ dropped' \in BOOLEAN
      /\ wtorn' \in BOOLEAN /\ (obf' = FALSE => windex' = 0)
  BY <1>1, <1>2, <1>3 DEF OutputInv, OutputTypeOK
<1>8. OutputTypeOK' /\ HighOK' /\ InUse' = windex'
  BY <1>1, <1>5, <1>6, <1>7, EndingTypes
<1>9. NoneWaits'
  BY <1>1, <1>3, <1>8 DEF NoneWaits, Hidden
<1>10. WritesInOrder'
  <2>1. SUFFICES ASSUME wtorn' = FALSE PROVE file' \o Buffered' = accepted'
    BY <1>7 DEF WritesInOrder
  <2>2. file \o Buffered = accepted /\ Buffered = FirstN(wbvec, 0)
    BY <1>1, <1>3, <2>1 DEF OutputInv, WritesInOrder, Buffered
  <2>3. Buffered' = FirstN(Copied, 0)
    BY <1>1, <1>3 DEF Buffered, InPuts, Ends, NoPut
  <2>4. Buffered = <<>> /\ Buffered' = <<>>
    BY <2>2, <2>3, SubSeqEmpty DEF FirstN
  <2>5. PICK f \in Seq(Char) : f = file
    BY <1>2
  <2>6. (f \o x) \o <<>> = (f \o <<>>) \o x
    BY PartWritten
  <2>. QED  BY <1>1, <1>4, <2>2, <2>4, <2>5, <2>6
<1>. QED  BY <1>1, <1>8, <1>9, <1>10 DEF OutputInv

\* A flush has copied nothing: its put.str is empty.
LEMMA FlushingIs ==
  ASSUME OutputInv, InFlush
  PROVE  /\ ~InPuts /\ put.str = <<>> /\ InUse = windex /\ Buffered = FirstN(wbvec, windex)
         /\ wbvec \in [1 .. BvecSize -> Char]
         /\ \A n \in 0 .. windex : FirstN(wbvec, n) \in Seq(Char)
<1>1. ~InPuts /\ put.str = <<>>
  BY DEF OutputInv, HighOK, InFlush, InPuts
<1>2. \A n \in 0 .. windex : FirstN(wbvec, n) \in Seq(Char)
  BY OutputParts, PartIsSeq DEF FirstN
<1>. QED  BY <1>1, <1>2, OutputParts DEF InUse, Buffered

LEMMA FlushEndInv ==
  ASSUME OutputInv, FlushEnd
  PROVE  OutputInv' /\ dropped' = dropped /\ accepted' \o put'.str = accepted \o put.str
<1>1. /\ InFlush /\ file' = file \o FirstN(wbvec, windex) /\ windex' = 0
      /\ obf' \in BOOLEAN /\ Ends("ok") /\ UNCHANGED <<wbvec, accepted, dropped, wtorn>>
  BY DEF FlushEnd, OutputInv, OutputTypeOK
<1>2. /\ file \in Seq(Char) /\ accepted \in Seq(Char) /\ Buffered \in Seq(Char)
      /\ BvecSize \in Nat \ {0}
  BY OutputParts
<1>3. put.str = <<>> /\ Buffered = FirstN(wbvec, windex) /\ wbvec \in [1 .. BvecSize -> Char]
  BY <1>1, FlushingIs
<1>4. file' \in Seq(Char) /\ accepted' \in Seq(Char) /\ wbvec' \in [1 .. BvecSize -> Char]
  BY <1>1, <1>2, <1>3, ConcatProperties
<1>5. windex' \in 0 .. (BvecSize - 1) /\ dropped' \in BOOLEAN /\ wtorn' \in BOOLEAN
  BY <1>1, <1>2 DEF OutputInv, OutputTypeOK
<1>6. OutputTypeOK' /\ HighOK' /\ InUse' = windex'
  BY <1>1, <1>4, <1>5, EndingTypes
<1>7. NoneWaits'
  BY <1>1, <1>6 DEF NoneWaits, Hidden
<1>8. put'.str = <<>> /\ Buffered' = <<>>
  BY <1>1, SubSeqEmpty DEF Buffered, InPuts, Ends, NoPut, FirstN
<1>9. WritesInOrder'
  <2>1. SUFFICES ASSUME wtorn' = FALSE PROVE file' \o Buffered' = accepted'
    BY <1>5 DEF WritesInOrder
  <2>2. file \o Buffered = accepted
    BY <1>1, <2>1 DEF OutputInv, WritesInOrder
  <2>3. file' \o <<>> = file'
    BY <1>4, ConcatEmptySeq
  <2>. QED  BY <1>1, <1>3, <1>8, <2>2, <2>3
<1>. QED  BY <1>1, <1>3, <1>6, <1>7, <1>8, <1>9 DEF OutputInv

LEMMA FlushFailsInv ==
  ASSUME OutputInv, NEW n \in 0 .. (BvecSize - 1), FlushFails(n)
  PROVE  OutputInv' /\ dropped' = dropped /\ accepted' \o put'.str = accepted \o put.str
<1>1. /\ InFlush /\ n < windex /\ file' = file \o FirstN(wbvec, n)
      /\ wtorn' = (wtorn \/ n > 0) /\ Ends("not_possible")
      /\ UNCHANGED <<wbvec, windex, obf, accepted, dropped>>
  BY DEF FlushFails
<1>2. /\ file \in Seq(Char) /\ accepted \in Seq(Char) /\ Buffered \in Seq(Char)
      /\ BvecSize \in Nat \ {0} /\ windex \in 0 .. (BvecSize - 1)
  BY OutputParts
<1>3. /\ put.str = <<>> /\ Buffered = FirstN(wbvec, windex) /\ InUse = windex
      /\ wbvec \in [1 .. BvecSize -> Char] /\ FirstN(wbvec, n) \in Seq(Char)
  BY <1>1, <1>2, FlushingIs
<1>4. file' \in Seq(Char) /\ accepted' \in Seq(Char) /\ wbvec' \in [1 .. BvecSize -> Char]
  BY <1>1, <1>2, <1>3, ConcatProperties
<1>5. wtorn' \in BOOLEAN /\ obf' \in BOOLEAN /\ dropped' \in BOOLEAN
  BY <1>1 DEF OutputInv, OutputTypeOK
<1>6. obf' = FALSE => windex' = 0
  BY <1>1 DEF OutputInv, HighOK
<1>7. OutputTypeOK' /\ HighOK' /\ InUse' = windex'
  BY <1>1, <1>2, <1>4, <1>5, <1>6, EndingTypes
<1>8. ASSUME wtorn' = FALSE
      PROVE  wtorn = FALSE /\ n = 0
  <2>1. wtorn \in BOOLEAN
    BY DEF OutputInv, OutputTypeOK
  <2>2. wtorn = FALSE /\ ~(n > 0)
    BY <1>1, <1>8, <2>1, Zenon
  <2>. QED  BY <2>2
<1>9. NoneWaits'
  BY <1>1, <1>3, <1>7, <1>8 DEF OutputInv, NoneWaits
<1>10. put'.str = <<>> /\ Buffered' = FirstN(wbvec, windex)
  BY <1>1 DEF Buffered, InPuts, Ends, NoPut
<1>11. WritesInOrder'
  <2>1. SUFFICES ASSUME wtorn' = FALSE PROVE file' \o Buffered' = accepted'
    BY <1>5 DEF WritesInOrder
  <2>2. file \o Buffered = accepted
    BY <1>8, <2>1 DEF OutputInv, WritesInOrder
  <2>3. FirstN(wbvec, n) = <<>>
    <3>1. n = 0
      BY <1>8, <2>1
    <3>2. FirstN(wbvec, 0) = <<>>
      BY SubSeqEmpty DEF FirstN
    <3>. QED  BY <3>1, <3>2
  <2>4. file \o <<>> = file
    BY <1>2, ConcatEmptySeq
  <2>. QED  BY <1>1, <1>3, <1>10, <2>2, <2>3, <2>4
<1>. QED  BY <1>1, <1>3, <1>7, <1>9, <1>10, <1>11 DEF OutputInv
\* The start of a call: it sees as many characters in the buffer as wb.index says.
LEMMA CallStarts ==
  ASSUME OutputInv, put.op = "idle", NEW op \in {"puts", "flush", "unbuffer"},
         NEW s \in Seq(Char), op # "puts" => s = <<>>,
         put' = [op |-> op, str |-> s, high |-> windex, chunks |-> FALSE],
         UNCHANGED <<file, wbvec, windex, obf, out, accepted, dropped, wtorn>>
  PROVE  OutputInv'
<1>1. /\ windex \in 0 .. BvecSize /\ windex < BvecSize
  BY OutputParts
<1>2. put' \in PutCalls
  BY <1>1 DEF PutCalls
<1>3. OutputTypeOK'
  BY <1>2 DEF OutputInv, OutputTypeOK, PutCalls
<1>4. InPuts' <=> op = "puts"
  BY DEF InPuts
<1>5. put'.high = windex /\ put'.chunks = FALSE /\ put'.str = s
  OBVIOUS
<1>6. HighOK'
  BY <1>1, <1>4, <1>5 DEF OutputInv, HighOK
<1>7. InUse = windex /\ InUse' = windex
  BY <1>5 DEF InUse, InPuts
<1>8. NoneWaits'
  BY <1>7 DEF OutputInv, NoneWaits
<1>9. Buffered' = Buffered
  BY <1>5 DEF Buffered, InPuts
<1>10. WritesInOrder'
  BY <1>9 DEF OutputInv, WritesInOrder
<1>. QED  BY <1>3, <1>6, <1>8, <1>10 DEF OutputInv

\* The steps of a call keep the invariant, and the text they take is that of the puts.
LEMMA PutStepsKeep ==
  ASSUME OutputInv, PutSteps
  PROVE  /\ OutputInv'
         /\ dropped = TRUE => dropped' = TRUE
         /\ dropped' = FALSE => accepted' \o put'.str = accepted \o put.str
<1>1. CASE PieceWritten
  BY <1>1, PieceWrittenInv DEF PieceWritten
<1>2. CASE PutsEnd
  BY <1>2, PutsEndInv
<1>3. CASE FlushEnd
  BY <1>3, FlushEndInv
<1>4. ASSUME NEW n \in 0 .. (BvecSize - 1), PieceFails(n)
      PROVE  OutputInv' /\ dropped' = TRUE
  BY <1>4, PieceFailsInv
<1>5. ASSUME NEW n \in 0 .. (BvecSize - 1), PutsEndFails(n)
      PROVE  OutputInv' /\ dropped' = TRUE
  BY <1>5, PutsEndFailsInv
<1>6. ASSUME NEW n \in 0 .. (BvecSize - 1), FlushFails(n)
      PROVE  OutputInv' /\ dropped' = dropped /\ accepted' \o put'.str = accepted \o put.str
  BY <1>6, FlushFailsInv
<1>. QED
  BY <1>1, <1>2, <1>3, <1>4, <1>5, <1>6 DEF PutSteps

\* The calls of the client take no text yet.
LEMMA OutputClientKeeps ==
  ASSUME OutputInv, OutputClient
  PROVE  OutputInv' /\ UNCHANGED <<accepted, dropped>> /\ put.str = <<>> /\ put'.str = <<>>
         /\ put'.op # "puts"
<1>1. put.op = "idle" /\ put.str = <<>>
  BY DEF OutputInv, HighOK, OutputClient, Flush, Unbuffer, Flushes, Rebuffer, Quiet, InPuts
<1>2. ASSUME NEW op \in {"flush", "unbuffer"}, Flushes(op)
      PROVE  OutputInv' /\ UNCHANGED <<accepted, dropped>> /\ put'.str = <<>> /\ put'.op # "puts"
  <2>1. put' = [op |-> op, str |-> <<>>, high |-> windex, chunks |-> FALSE]
    BY <1>2 DEF Flushes, NoPut
  <2>2. PICK s \in Seq(Char) : s = <<>>
    BY EmptySeq
  <2>3. /\ put' = [op |-> op, str |-> s, high |-> windex, chunks |-> FALSE]
        /\ UNCHANGED <<file, wbvec, windex, obf, out, accepted, dropped, wtorn>>
    BY <1>2, <2>1, <2>2 DEF Flushes
  <2>4. OutputInv'
    BY <1>1, <2>2, <2>3, CallStarts
  <2>. QED  BY <2>1, <2>3, <2>4
<1>3. CASE Rebuffer
  <2>1. obf' = TRUE /\ UNCHANGED <<file, wbvec, windex, put, out, accepted, dropped, wtorn>>
    BY <1>3 DEF Rebuffer
  <2>2. OutputTypeOK'
    BY <2>1 DEF OutputInv, OutputTypeOK
  <2>3. HighOK'
    BY <2>1 DEF OutputInv, HighOK, InPuts
  <2>4. NoneWaits' /\ WritesInOrder'
    BY <2>1 DEF OutputInv, NoneWaits, InUse, InPuts, WritesInOrder, Buffered, FirstN
  <2>. QED  BY <1>1, <2>1, <2>2, <2>3, <2>4 DEF OutputInv
<1>4. CASE Flushes("flush")
  BY <1>1, <1>2, <1>4
<1>5. CASE Flushes("unbuffer")
  BY <1>1, <1>2, <1>5
<1>6. Flushes("flush") \/ Flushes("unbuffer") \/ Rebuffer
  BY DEF OutputClient, Flush, Unbuffer
<1>. QED  BY <1>1, <1>3, <1>4, <1>5, <1>6

LEMMA OutputKeeps ==
  ASSUME OutputInv, [OutputNext]_outputVars
  PROVE  OutputInv'
<1>1. CASE PutSteps
  BY <1>1, PutStepsKeep
<1>2. CASE OutputClient
  BY <1>2, OutputClientKeeps
<1>3. ASSUME NEW s \in Seq(Char), Puts(s) PROVE OutputInv'
  BY <1>3, CallStarts DEF Puts, Quiet
<1>4. CASE UNCHANGED outputVars
  BY <1>4 DEF outputVars, OutputInv, OutputTypeOK, HighOK, NoneWaits, InUse, InPuts,
              WritesInOrder, Buffered, FirstN
<1>. QED  BY <1>1, <1>2, <1>3, <1>4 DEF OutputNext

LEMMA OutputStart == OutputInit => OutputInv
<1> SUFFICES ASSUME OutputInit PROVE OutputInv
  OBVIOUS
<1>1. <<>> \in Seq(Char) /\ Newline \in Char /\ BvecSize \in Nat \ {0}
  BY EmptySeq, TextAssumption
<1>2. NoPut \in PutCalls /\ NoPut.op = "idle" /\ NoPut.str = <<>> /\ NoPut.high = 0
  BY <1>1 DEF NoPut, PutCalls
<1>3. OutputTypeOK
  BY <1>1, <1>2 DEF OutputInit, OutputTypeOK, PutCalls
<1>4. HighOK
  BY <1>1, <1>2 DEF OutputInit, HighOK, InPuts
<1>5. NoneWaits
  BY <1>1, <1>2 DEF OutputInit, NoneWaits, Hidden, InUse, InPuts
<1>6. WritesInOrder
  <2>1. Buffered = <<>>
    BY <1>2, SubSeqEmpty DEF OutputInit, Buffered, FirstN, InPuts
  <2>. QED  BY <1>1, <2>1, ConcatEmptySeq DEF OutputInit, WritesInOrder
<1>. QED  BY <1>3, <1>4, <1>5, <1>6 DEF OutputInv

-----------------------------------------------------------------------------
(* A scripted stream *)

\* A step of the scripted stream is a step of each of its two sides, or leaves it alone.
LEMMA ScriptedSteps ==
  ASSUME InputInv, [Next]_vars
  PROVE  [InputNext]_inputVars /\ [OutputNext]_outputVars
<1>1. CASE Read
  <2>1. InputNext
    BY <1>1 DEF Read, InputNext, Scripting
  <2>. QED  BY <1>1, <2>1 DEF Read
<1>2. CASE ScriptPuts
  <2>1. call.temp \in Seq(Char)
    BY DEF InputInv, InputTypeOK
  <2>2. Puts(call.temp)
    BY <1>2 DEF ScriptPuts, Passed
  <2>. QED  BY <1>2, <2>1, <2>2 DEF ScriptPuts, OutputNext
<1>3. CASE ScriptReturns
  BY <1>3 DEF ScriptReturns, InputNext
<1>4. CASE Write
  BY <1>4 DEF Write, OutputNext
<1>5. CASE ScriptClient
  BY <1>5 DEF ScriptClient, OutputNext
<1>6. CASE UNCHANGED vars
  BY <1>6 DEF vars
<1>. QED  BY <1>1, <1>2, <1>3, <1>4, <1>5, <1>6 DEF Next

\* The text a call is about to give and has not passed to the script, or the text being written.
Awaited == IF Scripting /\ passed = FALSE THEN call.temp ELSE put.str

\* The script stream works for the running call only.
CallsOK ==
  /\ passed \in BOOLEAN
  /\ passed = TRUE => Scripting
  /\ InPuts => passed = TRUE
  /\ InFlush => call.op = "idle"

\* What the client was given is in the script, or on the way there.
AllAccepted == dropped = FALSE /\ resets = 0 => accepted \o Awaited = given

ScriptedInv == InputInv /\ OutputInv /\ CallsOK /\ AllAccepted

\* What a step of the reading side does to the script's account: nothing, or the client is
\* given the text that is next to be scripted, or it goes back.
LEMMA ReadGives ==
  ASSUME InputInv, Client \/ GetSteps, ~Scripting
  PROVE  \/ ~Scripting' /\ given' = given /\ resets' = resets
         \/ Scripting' /\ given' = given \o call'.temp /\ resets' = resets
         \/ resets' # 0
<1>1. ASSUME NEW s \in Seq(Char), Gives(s), resets' = resets
      PROVE  Scripting' /\ given' = given \o call'.temp /\ resets' = resets
  <2>1. call' = CallFor("script", s)
    BY <1>1 DEF Gives, CallFor
  <2>. QED  BY <1>1, <2>1, CallIs DEF Gives, Scripting
<1>2. ASSUME NEW s \in Seq(Char), NEW low, NEW high, GetReturns(s, low, high)
      PROVE  Scripting' /\ given' = given \o call'.temp /\ resets' = resets
  <2>1. call' = CallFor("script", s) \/ call' = CallFor("scriptl", s)
    BY <1>2 DEF GetReturns, CallFor
  <2>. QED  BY <1>2, <2>1, CallIs DEF GetReturns, Scripting
<1>3. ASSUME NEW name, Fails(name)
      PROVE  ~Scripting' /\ given' = given /\ resets' = resets
  BY <1>3, IdleIs DEF Fails, Scripting
<1>4. CASE Getc
  <2>1. CASE GetbFails
    BY <1>3, <2>1 DEF GetbFails
  <2>2. ASSUME NEW i \in 1 .. BvecSize, Has(i), Gives(<<bvec'[i]>>), UNCHANGED <<chan, resets>>
        PROVE  Scripting' /\ given' = given \o call'.temp /\ resets' = resets
    <3>1. bvec'[i] \in Char
      BY <2>2, HasKeeps DEF InputInv, chan
    <3>2. PICK s \in Seq(Char) : s = <<bvec'[i]>>
      BY <3>1, OneIsSeq
    <3>. QED  BY <1>1, <2>2, <3>2
  <2>. QED  BY <1>4, <2>1, <2>2 DEF Getc
<1>5. CASE Peekc
  <2>1. CASE GetbFails
    BY <1>3, <2>1 DEF GetbFails
  <2>2. CASE UNCHANGED <<call, given, resets>>
    BY <2>2 DEF Scripting
  <2>. QED  BY <1>5, <2>1, <2>2 DEF Peekc
<1>6. ASSUME NEW op \in {"gets", "getl"}, NEW T, Begins(op, T)
      PROVE  ~Scripting' /\ given' = given /\ resets' = resets
  BY <1>6 DEF Begins, Scripting, Idle
<1>7. CASE Reset
  <2>1. CASE resets' = resets + 1
    BY <2>1 DEF InputInv, InputTypeOK
  <2>2. CASE Fails("not_possible")
    BY <1>3, <2>2
  <2>. QED  BY <1>7, <2>1, <2>2 DEF Reset
<1>8. CASE GetsFound
  <2>1. PICK w \in Seq(Char) : w = SubSeq(Window, 1, Found - 1)
    BY <1>8, GetsFoundIs DEF GetsFound
  <2>2. PICK s \in Seq(Char) : s = call.temp \o w
    BY <1>8, <2>1, GetsFoundIs, CollectedHasNone DEF GetsFound
  <2>3. PICK low, high : low = NewLow(Found) /\ high = call.count
    OBVIOUS
  <2>4. GetReturns(s, low, high)
    BY <1>8, <2>1, <2>2, <2>3 DEF GetsFound
  <2>. QED  BY <1>2, <2>4
<1>9. CASE GetsEnds
  <2>1. CASE Fails("end_of_file")
    BY <1>3, <2>1
  <2>2. CASE GetReturns(call.temp \o Window, 1, 0)
    <3>1. PICK s \in Seq(Char) : s = call.temp \o Window
      BY <1>9, WindowHasNone DEF GetsEnds
    <3>2. GetReturns(s, 1, 0)
      BY <2>2, <3>1
    <3>. QED  BY <1>2, <3>2
  <2>. QED  BY <1>9, <2>1, <2>2 DEF GetsEnds
<1>10. CASE GetsFails
  BY <1>3, <1>10 DEF GetsFails
<1>11. ASSUME NEW n \in 1 .. BvecSize, GetsReads(n)
       PROVE  ~Scripting' /\ given' = given /\ resets' = resets
  BY <1>11 DEF GetsReads, Scripting, InputInv, InputTypeOK
<1>. QED
  BY <1>4, <1>5, <1>6, <1>7, <1>8, <1>9, <1>10, <1>11
     DEF Client, GetSteps, Gets, Getl
\* Only the running call steps, and no step of it starts another.
LEMMA PutStepsAre ==
  ASSUME OutputInv, PutSteps
  PROVE  (InPuts \/ InFlush) /\ (InPuts' => InPuts) /\ ~InFlush'
<1>1. NoPut.op = "idle"
  BY DEF NoPut
<1>2. CASE PieceWritten
  <2>1. put \in PutCalls
    BY OutputParts
  <2>2. put'.op = put.op /\ InPuts
    BY <1>2, <2>1 DEF PieceWritten, PutCalls
  <2>. QED  BY <2>2 DEF InPuts, InFlush
<1>3. CASE put' = NoPut /\ (InPuts \/ InFlush)
  BY <1>1, <1>3 DEF InPuts, InFlush
<1>. QED
  BY <1>2, <1>3 DEF PutSteps, PieceFails, PutsEnd, PutsEndFails, FlushEnd, FlushFails, Ends

\* An empty text added to an account leaves it.
LEMMA NothingAdded ==
  ASSUME OutputInv
  PROVE  accepted \o <<>> = accepted
BY OutputParts, ConcatEmptySeq

LEMMA ScriptedKeeps ==
  ASSUME ScriptedInv, [Next]_vars
  PROVE  ScriptedInv'
<1>1. InputInv /\ OutputInv /\ CallsOK /\ AllAccepted /\ passed \in BOOLEAN /\ dropped \in BOOLEAN
  BY DEF ScriptedInv, CallsOK, OutputInv, OutputTypeOK
<1>2. InputInv' /\ OutputInv'
  BY <1>1, ScriptedSteps, InputKeeps, OutputKeeps
<1>3. CASE Read
  <2>1. /\ ~Scripting /\ put.op = "idle" /\ (Client \/ GetSteps)
        /\ UNCHANGED <<outputVars, passed>>
    BY <1>3 DEF Read, Quiet
  <2>2. passed = FALSE /\ put'.op = "idle" /\ put.str = <<>> /\ put'.str = <<>>
    BY <1>1, <2>1 DEF CallsOK, OutputInv, HighOK, InPuts, outputVars
  <2>3. CallsOK'
    BY <2>1, <2>2 DEF CallsOK, InPuts, InFlush
  <2>4. AllAccepted'
    <3>1. SUFFICES ASSUME dropped' = FALSE, resets' = 0 PROVE accepted' \o Awaited' = given'
      BY DEF AllAccepted
    <3>2. accepted' = accepted /\ dropped = FALSE
      BY <2>1, <3>1 DEF outputVars
    <3>3. accepted = given \/ resets # 0
      BY <1>1, <2>1, <2>2, <3>2, NothingAdded DEF AllAccepted, Awaited
    <3>4. CASE ~Scripting' /\ given' = given /\ resets' = resets
      BY <1>1, <2>2, <3>1, <3>2, <3>3, <3>4, NothingAdded DEF Awaited
    <3>5. CASE Scripting' /\ given' = given \o call'.temp /\ resets' = resets
      BY <2>1, <2>2, <3>1, <3>2, <3>3, <3>5 DEF Awaited
    <3>. QED  BY <1>1, <2>1, <3>1, <3>4, <3>5, ReadGives
  <2>. QED  BY <1>2, <2>3, <2>4 DEF ScriptedInv
<1>4. CASE ScriptPuts
  <2>1. /\ Scripting /\ passed = FALSE /\ Puts(call.temp) /\ passed' = TRUE /\ UNCHANGED inputVars
    BY <1>1, <1>4 DEF ScriptPuts, Passed
  <2>2. /\ put'.op = "puts" /\ put'.str = call.temp /\ UNCHANGED <<accepted, dropped>>
    BY <2>1 DEF Puts
  <2>3. Scripting' /\ given' = given /\ resets' = resets
    BY <2>1 DEF Scripting, inputVars
  <2>4. CallsOK'
    BY <2>1, <2>2, <2>3 DEF CallsOK, InFlush
  <2>5. Awaited = call.temp /\ Awaited' = call.temp
    BY <2>1, <2>2 DEF Awaited
  <2>6. AllAccepted'
    BY <1>1, <2>2, <2>3, <2>5 DEF AllAccepted
  <2>. QED  BY <1>2, <2>4, <2>6 DEF ScriptedInv
<1>5. CASE ScriptReturns
  <2>1. Scripting /\ passed = TRUE /\ put.op = "idle" /\ Script /\ passed' = FALSE /\ UNCHANGED outputVars
    BY <1>1, <1>5 DEF ScriptReturns, Quiet
  <2>2. put'.op = "idle" /\ put.str = <<>> /\ put'.str = <<>> /\ UNCHANGED <<accepted, dropped>>
    BY <1>1, <2>1 DEF OutputInv, HighOK, InPuts, outputVars
  <2>3. CallsOK'
    BY <2>1, <2>2 DEF CallsOK, InPuts, InFlush
  <2>4. Awaited = <<>>
    BY <2>1, <2>2 DEF Awaited
  <2>5. CASE call' = Idle /\ UNCHANGED <<given, resets>>
    <3>1. ~Scripting'
      BY <2>5, IdleIs DEF Scripting
    <3>2. Awaited' = <<>>
      BY <2>2, <3>1 DEF Awaited
    <3>. QED  BY <1>1, <1>2, <2>2, <2>3, <2>4, <2>5, <3>2 DEF ScriptedInv, AllAccepted
  <2>6. CASE /\ call.op = "scriptl" /\ ~(index > max) /\ given' = Append(given, bvec[index])
             /\ call' = [Idle EXCEPT !.op = "script", !.temp = <<Newline>>]
             /\ UNCHANGED resets
    <3>1. bvec[index] = Newline /\ Newline \in Char
      BY <1>1, <2>6, TextAssumption DEF InputInv, InputTypeOK, GetlOK
    <3>2. Scripting' /\ call'.temp = <<Newline>>
      <4>1. call' = CallFor("script", <<Newline>>) /\ <<Newline>> \in Seq(Char)
        BY <2>6, <3>1, OneIsSeq DEF CallFor
      <4>. QED  BY <4>1, CallIs DEF Scripting
    <3>3. Awaited' = <<Newline>>
      BY <2>1, <3>2 DEF Awaited
    <3>4. given' = given \o <<Newline>>
      BY <1>1, <2>6, <3>1, AppendIsConcat DEF InputInv, InputTypeOK
    <3>5. AllAccepted'
      BY <1>1, <2>2, <2>4, <2>6, <3>3, <3>4, NothingAdded DEF AllAccepted
    <3>. QED  BY <1>2, <2>3, <3>5 DEF ScriptedInv
  <2>. QED  BY <2>1, <2>5, <2>6 DEF Script
<1>6. CASE Write
  <2>1. PutSteps /\ UNCHANGED <<inputVars, passed>>
    BY <1>6 DEF Write
  <2>2. UNCHANGED <<call, given, resets>>
    BY <2>1 DEF inputVars
  <2>3. (InPuts \/ InFlush) /\ (InPuts' => InPuts) /\ ~InFlush'
    BY <1>1, <2>1, PutStepsAre
  <2>4. CallsOK'
    BY <1>1, <2>1, <2>2, <2>3 DEF CallsOK, Scripting
  <2>5. ~(Scripting /\ passed = FALSE)
    BY <1>1, <2>3 DEF CallsOK, Scripting
  <2>6. Awaited = put.str /\ Awaited' = put'.str
    BY <2>1, <2>2, <2>5 DEF Awaited, Scripting
  <2>7. AllAccepted'
    <3>1. SUFFICES ASSUME dropped' = FALSE, resets = 0 PROVE accepted' \o Awaited' = given
      BY <2>2 DEF AllAccepted
    <3>2. dropped = FALSE /\ accepted' \o put'.str = accepted \o put.str
      BY <1>1, <2>1, <3>1, PutStepsKeep
    <3>. QED  BY <1>1, <2>6, <3>1, <3>2 DEF AllAccepted
  <2>. QED  BY <1>2, <2>4, <2>7 DEF ScriptedInv
<1>7. CASE ScriptClient
  <2>1. call.op = "idle" /\ OutputClient /\ UNCHANGED <<inputVars, passed>>
    BY <1>7 DEF ScriptClient
  <2>2. UNCHANGED <<accepted, dropped>> /\ put.str = <<>> /\ put'.str = <<>>
    BY <1>1, <2>1, OutputClientKeeps
  <2>3. UNCHANGED <<call, given, resets>>
    BY <2>1 DEF inputVars
  <2>4. ~Scripting /\ ~Scripting'
    BY <2>1, <2>3 DEF Scripting
  <2>5. ~InPuts'
    BY <1>1, <2>1, OutputClientKeeps DEF InPuts
  <2>6. CallsOK'
    BY <1>1, <2>1, <2>3, <2>4, <2>5 DEF CallsOK
  <2>7. Awaited = <<>> /\ Awaited' = <<>>
    BY <2>2, <2>4 DEF Awaited
  <2>. QED  BY <1>1, <1>2, <2>2, <2>3, <2>6, <2>7 DEF ScriptedInv, AllAccepted
<1>8. CASE UNCHANGED vars
  <2>1. UNCHANGED <<call, given, resets, put, accepted, dropped, passed>>
    BY <1>8 DEF vars, inputVars, outputVars
  <2>2. CallsOK'
    BY <1>1, <2>1 DEF CallsOK, Scripting, InPuts, InFlush
  <2>3. AllAccepted'
    BY <1>1, <2>1 DEF AllAccepted, Awaited, Scripting
  <2>. QED  BY <1>2, <2>2, <2>3 DEF ScriptedInv
<1>. QED  BY <1>3, <1>4, <1>5, <1>6, <1>7, <1>8 DEF Next

LEMMA ScriptedStart == Init => ScriptedInv
<1> SUFFICES ASSUME Init PROVE ScriptedInv
  OBVIOUS
<1>1. InputInv /\ OutputInv /\ passed = FALSE /\ InputInit /\ OutputInit
  BY InputStart, OutputStart DEF Init
<1>2. call.op = "idle" /\ put.op = "idle" /\ put.str = <<>> /\ accepted = <<>> /\ given = <<>>
  BY <1>1, IdleIs DEF InputInit, OutputInit, NoPut
<1>3. ~Scripting
  BY <1>2 DEF Scripting
<1>4. CallsOK
  BY <1>1, <1>2 DEF CallsOK, InPuts, InFlush
<1>5. Awaited = <<>>
  BY <1>2, <1>3 DEF Awaited
<1>6. AllAccepted
  BY <1>1, <1>2, <1>5, NothingAdded DEF AllAccepted
<1>. QED  BY <1>1, <1>4, <1>6 DEF ScriptedInv

\* The invariant of a stream and the stream that scripts it, which is inductive.
THEOREM ScriptedAlways == Spec => []ScriptedInv
<1>1. Init => ScriptedInv
  BY ScriptedStart
<1>2. ScriptedInv /\ [Next]_vars => ScriptedInv'
  BY ScriptedKeeps
<1>. QED  BY <1>1, <1>2, PTL DEF Spec

\* What puts took is in the file or in the buffer, once and in order (put_doit and putb of
\* _chan.c), whatever the writes return, unless a failed one has torn it.
THEOREM WrittenInOrder == Spec => []WritesInOrder
<1>1. ScriptedInv => WritesInOrder
  BY DEF ScriptedInv, OutputInv
<1>. QED  BY <1>1, ScriptedAlways, PTL

\* No line that has ended waits in the buffer, unless a NUL hid its newline from put (put_doit
\* writes a piece that ends in a newline out), and between calls the buffer has room for a
\* character.
THEOREM LinesAreOut == Spec => []LinesGoOut
<1>1. ScriptedInv => LinesGoOut
  <2>1. SUFFICES ASSUME ScriptedInv, Quiet, wtorn = FALSE
                 PROVE  Hidden(wbvec, windex) /\ windex < BvecSize
    BY DEF LinesGoOut, Hidden, ScriptedInv, OutputInv, OutputTypeOK
  <2>2. OutputInv
    BY <2>1 DEF ScriptedInv
  <2>. QED  BY <2>1, <2>2, OutputParts DEF OutputInv, NoneWaits, InUse, InPuts, Quiet
<1>. QED  BY <1>1, ScriptedAlways, PTL

\* The script has all the text the client was given, each character once (script of
\* stream.clu), as long as no write to it has failed and the client has not gone back.
THEOREM ScriptIsExact == Spec => []ScriptExact
<1>1. ScriptedInv => ScriptExact
  <2>1. SUFFICES ASSUME ScriptedInv, call.op = "idle", Quiet, dropped = FALSE, wtorn = FALSE,
                        resets = 0
                 PROVE  file \o Buffered = given
    BY DEF ScriptExact, ScriptedInv, OutputInv, OutputTypeOK
  <2>2. OutputInv /\ put.str = <<>> /\ ~Scripting
    BY <2>1 DEF ScriptedInv, OutputInv, HighOK, InPuts, Quiet, Scripting
  <2>3. Awaited = <<>>
    BY <2>2 DEF Awaited
  <2>4. accepted = given
    BY <2>1, <2>2, <2>3, NothingAdded DEF ScriptedInv, AllAccepted
  <2>. QED  BY <2>1, <2>2, <2>4 DEF OutputInv, WritesInOrder
<1>. QED  BY <1>1, ScriptedAlways, PTL

-----------------------------------------------------------------------------
(* Calls end *)

LEMMA StageIs ==
  /\ call.op = "idle" => Stage = 0
  /\ call.op = "script" => Stage = IF passed THEN 1 ELSE 2
  /\ call.op = "scriptl" => Stage = IF passed THEN 3 ELSE 4
  /\ call.op \in {"gets", "getl"} => Stage = 5
BY DEF Stage

LEMMA StageNextIs ==
  /\ call'.op = "idle" => Stage' = 0
  /\ call'.op = "script" => Stage' = IF passed' THEN 1 ELSE 2
  /\ call'.op = "scriptl" => Stage' = IF passed' THEN 3 ELSE 4
  /\ call'.op \in {"gets", "getl"} => Stage' = 5
BY DEF Stage

\* A piece that is written out has a character, and the next one begins after it.
LEMMA PieceShortens ==
  ASSUME OutputInv, PieceWritten
  PROVE  /\ put'.op = put.op /\ Len(put'.str) < Len(put.str)
         /\ Len(put'.str) \in Nat /\ Len(put.str) \in Nat
<1>1. /\ put.str \in Seq(Char) /\ put \in PutCalls /\ Space \in 1 .. BvecSize
  BY OutputParts DEF Space
<1>2. CopyCount \in 1 .. Len(put.str) /\ Len(put.str) \in Nat
  <2>1. CopyCount \in 0 .. Len(put.str) /\ Len(put.str) \in Nat
    BY CountIs
  <2>2. ToNewline \in Nat
    BY <1>1, ToNewlineIs, FirstInIs
  <2>3. CopyCount # 0
    BY <1>1, <2>1, <2>2 DEF PieceWritten, Forced, CopyCount, Lesser
  <2>. QED  BY <2>1, <2>3
<1>3. put'.op = put.op /\ put'.str = SubSeq(put.str, CopyCount + 1, Len(put.str))
  BY <1>1 DEF PieceWritten, PutCalls
<1>. QED  BY <1>1, <1>2, <1>3

\* A step of gets or getl: it ends the search, or a read brings it nearer to the end of the file.
LEMMA GetAdvances ==
  ASSUME InputInv, GetSteps, UNCHANGED put
  PROVE  \/ Stage' < Stage
         \/ Stage' = Stage /\ Len(text) - pos \in Nat /\ text' = text /\ pos' \in Nat /\ pos' > pos
<1>1. /\ call \in Calls /\ pos \in 0 .. Len(text) /\ text \in Seq(Char)
  BY DEF InputInv, InputTypeOK, Calls
<1>2. InGet /\ Stage = 5
  <2>1. GetsFound \/ GetsEnds => InGet
    BY Zenon DEF GetsFound, GetsEnds
  <2>2. GetsFails \/ (\E n \in 1 .. BvecSize : GetsReads(n)) => InGet
    BY Zenon DEF GetsFails, GetsReads
  <2>3. InGet
    BY <2>1, <2>2, Zenon DEF GetSteps
  <2>. QED  BY <2>3, StageIs, Zenon DEF InGet
<1>3. ASSUME NEW s, NEW low, NEW high, GetReturns(s, low, high)
      PROVE  Stage' < Stage
  <2>1. PICK o \in {"script", "scriptl"} : o = IF call.op = "getl" THEN "scriptl" ELSE "script"
    OBVIOUS
  <2>2. call' = [Idle EXCEPT !.op = o, !.temp = s]
    BY <1>3, <2>1 DEF GetReturns
  <2>3. call'.op = o
    BY <2>2 DEF Idle
  <2>4. Stage' \in {1, 2, 3, 4}
    BY <2>3, StageNextIs
  <2>. QED  BY <1>2, <2>4
<1>4. ASSUME NEW name, Fails(name)
      PROVE  Stage' < Stage
  BY <1>2, <1>4, IdleIs, StageNextIs DEF Fails
<1>5. CASE GetsFound
  BY <1>3, <1>5 DEF GetsFound
<1>6. CASE GetsEnds
  BY <1>3, <1>4, <1>6 DEF GetsEnds
<1>7. CASE GetsFails
  BY <1>4, <1>7 DEF GetsFails
<1>8. ASSUME NEW n \in 1 .. BvecSize, GetsReads(n)
      PROVE  Stage' = Stage /\ text' = text /\ pos' = pos + n
  <2>1. call'.op = call.op
    BY <1>1, <1>8 DEF GetsReads, Calls
  <2>2. Stage' = 5
    BY <1>2, <2>1, StageNextIs DEF InGet
  <2>. QED  BY <1>2, <1>8, <2>2 DEF GetsReads, Reads, chan
<1>9. BvecSize \in Nat
  BY TextAssumption
<1>10. ASSUME NEW n \in 1 .. BvecSize, GetsReads(n)
       PROVE  Stage' = Stage /\ Len(text) - pos \in Nat /\ text' = text /\ pos' \in Nat /\ pos' > pos
  BY <1>1, <1>8, <1>9, <1>10
<1>. QED  BY <1>5, <1>6, <1>7, <1>10 DEF GetSteps

\* A step of puts or flush: it ends the call, or a piece is written.
LEMMA PutAdvances ==
  ASSUME OutputInv, PutSteps
  PROVE  \/ put'.op = "idle"
         \/ /\ put'.op = put.op /\ Len(put'.str) < Len(put.str)
            /\ Len(put'.str) \in Nat /\ Len(put.str) \in Nat
<1>1. CASE PieceWritten
  BY <1>1, PieceShortens
<1>2. CASE put' = NoPut
  BY <1>2 DEF NoPut
<1>. QED
  BY <1>1, <1>2 DEF PutSteps, PieceFails, PutsEnd, PutsEndFails, FlushEnd, FlushFails, Ends

LEMMA Advances ==
  ASSUME ScriptedInv, Next, Running
  PROVE  Stage' < Stage \/ (Stage' = Stage /\ Remaining' < Remaining)
<1>1. /\ InputInv /\ OutputInv /\ CallsOK /\ passed \in BOOLEAN
      /\ call.op \in {"idle", "gets", "getl", "script", "scriptl"}
      /\ Len(text) \in Nat /\ pos \in Nat
  BY DEF ScriptedInv, CallsOK, InputInv, InputTypeOK
<1>2. CASE Read
  <2>1. put.op = "idle" /\ put' = put /\ call.op # "idle"
    BY <1>2 DEF Read, Quiet, Running, outputVars
  <2>2. GetSteps
    <3>1. ~Getc /\ ~Peekc /\ ~Reset
      BY <2>1, Zenon DEF Getc, Peekc, Reset
    <3>2. ~Getl /\ \A T \in Term : ~Gets(T)
      BY <2>1, Zenon DEF Getl, Gets, Begins
    <3>. QED  BY <1>2, <3>1, <3>2, Zenon DEF Read, Client
  <2>. QED  BY <1>1, <2>1, <2>2, GetAdvances DEF Remaining, Quiet
<1>3. CASE ScriptPuts
  BY <1>1, <1>3, StageIs, StageNextIs DEF ScriptPuts, Scripting, inputVars
<1>4. CASE ScriptReturns
  <2>1. Scripting /\ passed = TRUE /\ passed' = FALSE /\ Script
    BY <1>1, <1>4 DEF ScriptReturns
  <2>2. \/ call'.op = "idle"
        \/ call.op = "scriptl" /\ call'.op = "script"
    BY <2>1, IdleIs DEF Script, Idle
  <2>3. Stage \in {1, 3} /\ (call.op = "scriptl" => Stage = 3)
    BY <2>1, StageIs DEF Scripting
  <2>. QED  BY <2>1, <2>2, <2>3, StageNextIs
<1>5. CASE Write
  <2>1. PutSteps /\ UNCHANGED <<call, text, pos, passed>>
    BY <1>5 DEF Write, inputVars, chan, buffer
  <2>2. Stage' = Stage
    BY <2>1 DEF Stage
  <2>3. put.op # "idle"
    BY <1>1, <2>1, PutStepsAre DEF InPuts, InFlush
  <2>4. Len(put.str) \in Nat
    BY <1>1, CountIs
  <2>. QED  BY <1>1, <2>1, <2>2, <2>3, <2>4, PutAdvances DEF Remaining, Quiet
<1>6. CASE ScriptClient
  BY <1>6 DEF ScriptClient, OutputClient, Flush, Unbuffer, Rebuffer, Flushes, Running
<1>. QED  BY <1>2, <1>3, <1>4, <1>5, <1>6 DEF Next

\* Whatever a read or a write gives, and if it fails, a step of gets, getl, puts or flush brings
\* the call nearer to its end: the loops of _chan$get and _chan$put come to one.
THEOREM CallsAlwaysAdvance == Spec => CallsAdvance
<1>1. ScriptedInv /\ [Next]_vars
        => [Running => Stage' < Stage \/ (Stage' = Stage /\ Remaining' < Remaining)]_vars
  BY Advances
<1>. QED  BY <1>1, ScriptedAlways, PTL DEF Spec, CallsAdvance
=============================================================================
