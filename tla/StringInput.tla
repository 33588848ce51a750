---------------------------- MODULE StringInput ----------------------------
(***************************************************************************)
(* A stream that reads a string: create_input and the sbuf of              *)
(* sys/clu/stream.clu.  A string that does not end in a newline is read as *)
(* if one followed it: newln holds that newline until it is read, and a    *)
(* blank after that, or from the start when the string has its own.        *)
(*                                                                         *)
(* extra says that a gets has returned a newline the stream does not have: *)
(* str_get adds one at the end of the string whenever its terminators do   *)
(* not include the newline, without a look at newln.                       *)
(***************************************************************************)
EXTENDS StreamText

CONSTANTS
  Blank,      \* the other value of newln
  MaxResets   \* bound: how often the client resets the stream

ASSUME BlankAssumption == Blank \notin Char /\ MaxResets \in Nat

VARIABLES
  chars,      \* sb.chars
  index,      \* sb.index: the next character
  newln,      \* sb.newln
  line,       \* sb.line
  ingetl,     \* a getl has done its gets, and its newline remains
  ret,        \* how the last call returned
  given,      \* what the client was given since the last reset
  resets,     \* how many resets there have been
  extra       \* see above

vars == <<chars, index, newln, line, ingetl, ret, given, resets, extra>>

Size == Len(chars)

\* newln at the start: a string that ends in a newline, and the empty one, need no other.
NewlnOf(q) == IF q # <<>> /\ q[Len(q)] # Newline THEN Newline ELSE Blank

Signals(name) ==
  /\ ret' = Signalled(name)
  /\ UNCHANGED <<chars, index, newln, line, ingetl, given, resets, extra>>

Gives(s) == given' = given \o s /\ ret' = Returned(s)

AtEnd == index > Size

\* getc.  index counts the added newline too.
Getc ==
  /\ ~ingetl
  /\ \/ ~AtEnd /\ Gives(<<chars[index]>>) /\ UNCHANGED newln
     \/ AtEnd /\ newln = Newline /\ newln' = Blank /\ Gives(<<Newline>>)
  /\ index' = index + 1
  /\ line' = line + Newlines(ret'.text)
  /\ UNCHANGED <<chars, ingetl, resets, extra>>

\* peekc; empty is the same question.
Peekc ==
  /\ ~ingetl
  /\ ~AtEnd \/ newln = Newline
  /\ ret' = Returned(<<IF AtEnd THEN Newline ELSE chars[index]>>)
  /\ UNCHANGED <<chars, index, newln, line, ingetl, given, resets, extra>>

\* getc, peekc, gets and getl when nothing is left.
EndOfFile == ~ingetl /\ AtEnd /\ newln = Blank /\ Signals("end_of_file")

-----------------------------------------------------------------------------
(* str_get *)

Rest == SubSeq(chars, index, Size)

Found(T) == SelectInSeq(Rest, LAMBDA c : c \in T)

\* gets and getl(T = {Newline}) return s and leave index at i.
StrGets(getl, s, i) ==
  /\ Gives(s)
  /\ index' = i
  /\ line' = line + Newlines(s)
  /\ ingetl' = getl
  /\ UNCHANGED <<chars, resets>>

\* Up to a terminator.
GetsFound(T, getl) ==
  /\ Found(T) # 0
  /\ StrGets(getl, SubSeq(Rest, 1, Found(T) - 1), index + Found(T) - 1)
  /\ UNCHANGED <<newln, extra>>

\* Only the added newline is left.
GetsNewline(T, getl) ==
  /\ AtEnd /\ newln = Newline
  /\ StrGets(getl, IF Newline \in T THEN <<>> ELSE <<Newline>>, index)
  /\ newln' = IF Newline \in T THEN newln ELSE Blank
  /\ UNCHANGED extra

GetsRest_Mutant(T, getl) ==     \* the added newline can be read again
  /\ ~AtEnd /\ Found(T) = 0
  /\ StrGets(getl, IF Newline \in T THEN Rest ELSE Append(Rest, Newline), Size + 1)
  /\ extra' = (extra \/ (Newline \notin T /\ newln = Blank))
  /\ UNCHANGED newln

\* The rest of the string, and a newline unless that ends the text.
GetsRest(T, getl) ==
  /\ ~AtEnd /\ Found(T) = 0
  /\ StrGets(getl, IF Newline \in T THEN Rest ELSE Append(Rest, Newline), Size + 1)
  /\ newln' = IF Newline \in T THEN newln ELSE Blank
  /\ extra' = (extra \/ (Newline \notin T /\ newln = Blank))

StrGet(T, getl) == ~ingetl /\ (GetsFound(T, getl) \/ GetsNewline(T, getl) \/ GetsRest(T, getl))

LineAfterGetl_Mutant == line     \* getl does not count the line it ends

LineAfterGetl == line + 1

\* The end of getl: the newline is taken, the added one without being counted.
GetlEnd ==
  /\ ingetl
  /\ \/ AtEnd /\ newln' = Blank /\ given' = Append(given, Newline) /\ UNCHANGED <<index, line>>
     \/ /\ ~AtEnd
        /\ index' = index + 1
        /\ line' = LineAfterGetl
        /\ given' = Append(given, chars[index])
        /\ UNCHANGED newln
  /\ ingetl' = FALSE
  /\ UNCHANGED <<chars, ret, resets, extra>>

Reset ==
  /\ ~ingetl /\ resets < MaxResets
  /\ index' = 1
  /\ line' = 1
  /\ newln' = NewlnOf(chars)
  /\ ret' = Returned(<<>>)
  /\ given' = <<>>
  /\ resets' = resets + 1
  /\ extra' = FALSE
  /\ UNCHANGED <<chars, ingetl>>

Init ==
  /\ chars \in Texts
  /\ index = 1
  /\ newln = NewlnOf(chars)
  /\ line = 1
  /\ ingetl = FALSE
  /\ ret = Returned(<<>>)
  /\ given = <<>>
  /\ resets = 0
  /\ extra = FALSE

Next ==
  \/ Getc \/ Peekc \/ EndOfFile \/ Reset \/ GetlEnd
  \/ \E T \in Term : StrGet(T, FALSE)
  \/ StrGet({Newline}, TRUE)

Spec == Init /\ [][Next]_vars

-----------------------------------------------------------------------------
(* Properties *)

\* What the stream has: a string in which every line ends in a newline.
Whole(q) == IF NewlnOf(q) = Newline THEN Append(q, Newline) ELSE q

Left == Rest \o (IF newln = Newline THEN <<Newline>> ELSE <<>>)

\* The text of the stream is given once and in order, as it is by a stream over a file, as
\* long as str_get has not added a newline too many.
Reader == INSTANCE AbstractReader
  WITH text <- Whole(chars), Texts <- {Whole(q) : q \in Texts},
       left <- IF extra THEN <<>> ELSE Left, ok <- ~extra

StringInOrder == Reader!Spec

\* get_lineno says the line about to be read, as long as there is one.
StringLine == Left # <<>> => line = 1 + Newlines(given)
=============================================================================
