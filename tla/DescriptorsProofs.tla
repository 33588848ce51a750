------------------------- MODULE DescriptorsProofs -------------------------
(***************************************************************************)
(* What is true of channels and their descriptors, for any channels, names *)
(* and number of descriptors.  The invariant adds to the properties that a *)
(* channel has one number, that the channel open is to make has none yet,  *)
(* and that a new channel to an older file was opened without access().    *)
(***************************************************************************)
EXTENDS Descriptors, WellFoundedInduction, FiniteSetTheorems, TLAPS

Fields == [rd : Fd \cup {-1}, wr : Fd \cup {-1}, fn : Name \cup {NoName}, new : BOOLEAN]

\* One number, for both directions or for one.
OneNumber == \A c \in Chan : chans[c].rd = -1 \/ chans[c].wr = -1 \/ chans[c].rd = chans[c].wr

\* The channel of the open that runs is unused, and is to be new only if the file was not there,
\* or was not asked for.
CallOK ==
  call.op = "open" =>
    /\ call.chan \in Chan /\ call.fn \in Name /\ call.flags \in SUBSET Flag
    /\ chans[call.chan].rd = -1 /\ chans[call.chan].wr = -1
    /\ call.new \in BOOLEAN /\ call.old \in BOOLEAN
    /\ call.new = TRUE /\ call.old = TRUE => ~Asks(call.flags)

\* access() was not called for a new channel to an older file.
NewOK == elders \subseteq unasked

IInv == TypeOK /\ OneNumber /\ Owned /\ CallOK /\ NewOK

\* The step that is taken loses no descriptor.
NoneLost == \A n \in 3 .. MaxFd : Lost(n)' => Lost(n)
-----------------------------------------------------------------------------
(* What the helpers do *)

LEMMA MinIsIn ==
  ASSUME NEW S, S \subseteq Nat, S # {}
  PROVE  Min(S) \in S
<1> DEFINE R == OpToRel(<, Nat)
<1>1. IsWellFoundedOn(R, Nat)
  BY NatLessThanWellFounded
<1>2. \E x \in S : \A y \in S : <<y, x>> \notin R
  <2> HIDE DEF R
  <2>. QED  BY <1>1, WFMin
<1>3. PICK x \in S : \A y \in S : <<y, x>> \notin R
  BY <1>2
<1>4. \A y \in S : x =< y
  <2> TAKE y \in S
  <2>1. x \in Nat /\ y \in Nat  OBVIOUS
  <2>2. ~(y < x)
    BY <1>3, <2>1 DEF OpToRel
  <2>. QED  BY <2>1, <2>2
<1>. QED  BY <1>4 DEF Min

\* The lowest free descriptor is one.
LEMMA LowestIsFree ==
  ASSUME FreeFds # {}
  PROVE  Lowest \in Fd /\ fds[Lowest] = "free"
<1>1. FreeFds \subseteq Nat
  BY DescriptorAssumption DEF FreeFds, Fd
<1>. QED  BY <1>1, MinIsIn DEF Lowest, FreeFds

LEMMA Numbers ==
  ASSUME TypeOK, NEW c \in Chan
  PROVE  /\ chans[c].rd \in Fd \cup {-1} /\ chans[c].wr \in Fd \cup {-1}
         /\ Holds(c) \subseteq Fd
BY DescriptorAssumption DEF TypeOK, Holds, Fd

\* close and abort act on the only number the channel has.
LEMMA NumberIsHeld ==
  ASSUME TypeOK, OneNumber, NEW c \in Chan, ~Unused(c)
  PROVE  Holds(c) = {Number(c)} /\ Number(c) \in Fd
<1>1. Holds(c) \subseteq Fd
  BY Numbers
<1>2. PICK n \in Fd : Holds(c) = {n}
  BY <1>1 DEF OneNumber, Holds, Unused
<1>3. Max({n}) = n
  BY DescriptorAssumption DEF Max, Fd
<1>. QED  BY <1>2, <1>3 DEF Number

\* A channel is given a new record.
LEMMA Renewing ==
  ASSUME TypeOK, NEW c \in Chan, NEW ch \in Fields, chans' = [chans EXCEPT ![c] = ch]
  PROVE  /\ chans' \in [Chan -> Fields]
         /\ chans'[c] = ch /\ Holds(c)' = {ch.rd, ch.wr} \ {-1}
         /\ \A d \in Chan \ {c} : chans'[d] = chans[d] /\ Holds(d)' = Holds(d)
BY DEF TypeOK, Fields, Holds

LEMMA ClosedIs ==
  /\ Closed \in Fields /\ Closed.rd = -1 /\ Closed.wr = -1 /\ Closed.new = FALSE
  /\ {Closed.rd, Closed.wr} \ {-1} = {}
BY DEF Closed, Fields

\* A free descriptor n is given to the unused channel c.
LEMMA Giving ==
  ASSUME IInv, NEW c \in Chan, chans[c].rd = -1, chans[c].wr = -1,
         NEW n \in Fd, fds[n] = "free", fds' = [fds EXCEPT ![n] = c],
         NEW ch \in Fields, {ch.rd, ch.wr} \ {-1} = {n},
         ch.rd = -1 \/ ch.wr = -1 \/ ch.rd = ch.wr,
         chans' = [chans EXCEPT ![c] = ch],
         strayed' = strayed \ {c},
         files' \subseteq Name, elders' \subseteq Chan, unasked' \subseteq Chan
  PROVE  TypeOK' /\ OneNumber' /\ Owned' /\ NoneLost
<1>1. /\ chans' \in [Chan -> Fields] /\ chans'[c] = ch /\ Holds(c)' = {n}
      /\ \A d \in Chan \ {c} : chans'[d] = chans[d] /\ Holds(d)' = Holds(d)
  BY Renewing DEF IInv
<1>2. /\ fds' \in [Fd -> Chan \cup Range(Inherited) \cup {"free", Leaked}]
      /\ fds'[n] = c /\ \A m \in Fd \ {n} : fds'[m] = fds[m]
  BY DEF IInv, TypeOK
<1>3. TypeOK'
  BY <1>1, <1>2 DEF IInv, TypeOK, Fields
<1>4. OneNumber'
  BY <1>1 DEF IInv, OneNumber
<1>5. Owned'
  <2> SUFFICES ASSUME NEW d \in Chan \ strayed', NEW m \in Holds(d)'
               PROVE  fds'[m] = d
    BY DEF Owned
  <2>1. CASE d = c
    BY <1>1, <1>2, <2>1
  <2>2. CASE d # c
    <3>1. m \in Holds(d) /\ m \in Fd /\ fds[m] = d
      BY <1>1, <2>2, Numbers DEF IInv, Owned
    <3>2. m # n
      BY <3>1, ChanAssumption
    <3>. QED  BY <1>2, <3>1, <3>2
  <2>. QED  BY <2>1, <2>2
<1>6. NoneLost
  <2> SUFFICES ASSUME NEW m \in 3 .. MaxFd, Lost(m)' PROVE Lost(m)
    BY DEF NoneLost
  <2>1. m # n /\ m \in Fd
    BY <1>1, DescriptorAssumption DEF Lost, Fd
  <2>2. \A d \in Chan : m \notin Holds(d)
    BY <1>1 DEF Lost, Holds
  <2>. QED  BY <1>2, <2>1, <2>2 DEF Lost
<1>. QED  BY <1>3, <1>4, <1>5, <1>6

\* A free descriptor that no channel is given.
LEMMA Losing ==
  ASSUME IInv, FreeFds # {}, fds' = [fds EXCEPT ![Lowest] = Leaked],
         files' \subseteq Name, UNCHANGED <<chans, strayed, elders, unasked>>, call'.op = "idle"
  PROVE  IInv'
<1>1. Lowest \in Fd /\ fds[Lowest] = "free"
  BY LowestIsFree
<1>2. /\ fds' \in [Fd -> Chan \cup Range(Inherited) \cup {"free", Leaked}]
      /\ \A m \in Fd \ {Lowest} : fds'[m] = fds[m]
  BY <1>1 DEF IInv, TypeOK
<1>3. TypeOK' /\ OneNumber' /\ NewOK'
  BY <1>2 DEF IInv, TypeOK, OneNumber, NewOK
<1>4. Owned'
  <2> SUFFICES ASSUME NEW d \in Chan \ strayed', NEW m \in Holds(d)'
               PROVE  fds'[m] = d
    BY DEF Owned
  <2>1. m \in Fd /\ fds[m] = d
    BY Numbers DEF IInv, Owned, Holds
  <2>. QED  BY <1>1, <1>2, <2>1, ChanAssumption
<1>5. CallOK'
  BY DEF CallOK
<1>. QED  BY <1>3, <1>4, <1>5 DEF IInv

\* Without a change of descriptors and channels none is lost.
LEMMA Keeping ==
  ASSUME UNCHANGED <<fds, chans>>
  PROVE  NoneLost
BY DEF NoneLost, Lost, Holds

-----------------------------------------------------------------------------
(* Steps *)

LEMMA ModesAreFlags ==
  ASSUME NEW mode \in DOMAIN ModeFlags
  PROVE  ModeFlags[mode] \in SUBSET Flag
BY DEF ModeFlags, Flag

LEMMA OpenAsksOK ==
  ASSUME IInv, NEW c \in Chan, NEW n \in Name, NEW flags \in SUBSET Flag,
         OpenAsks(c, n, flags)
  PROVE  IInv' /\ NoneLost
<1>1. UNCHANGED <<fds, files, chans, oneTty, strayed, elders, unasked>>
  BY DEF OpenAsks, Opening, ages
<1>2. /\ call'.op = "open" /\ call'.chan = c /\ call'.fn = n /\ call'.flags = flags
      /\ call'.new = (Writes(flags) /\ (Asks(flags) => n \notin files))
      /\ call'.old = (n \in files)
  BY DEF OpenAsks, Opening
<1>3. TypeOK' /\ OneNumber' /\ NewOK'
  BY <1>1 DEF IInv, TypeOK, OneNumber, NewOK
<1>4. Owned' /\ NoneLost
  BY <1>1, Keeping DEF IInv, Owned, Holds
<1>5. chans[c].rd = -1 /\ chans[c].wr = -1
  BY DEF OpenAsks, Opening, Unused, Holds
<1>6. /\ call'.new \in BOOLEAN /\ call'.old \in BOOLEAN
      /\ call'.new = TRUE /\ call'.old = TRUE => ~Asks(flags)
  <2> DEFINE new == Writes(flags) /\ (Asks(flags) => n \notin files)
             old == n \in files
  <2>1. new \in BOOLEAN /\ old \in BOOLEAN /\ (new /\ old => ~Asks(flags))
    OBVIOUS
  <2>2. call'.new = new /\ call'.old = old
    BY <1>2
  <2> HIDE DEF new, old
  <2>. QED  BY <2>1, <2>2
<1>7. CallOK'
  BY <1>1, <1>2, <1>5, <1>6 DEF CallOK, Asks, Writes
<1>. QED  BY <1>3, <1>4, <1>7 DEF IInv

LEMMA OthersMakeOK ==
  ASSUME IInv, NEW n \in Name, OthersMake(n)
  PROVE  IInv' /\ NoneLost
<1>1. UNCHANGED <<fds, chans, oneTty, call, strayed, elders, unasked>> /\ files' \subseteq Name
  BY DEF OthersMake, ages, IInv, TypeOK
<1>2. TypeOK' /\ OneNumber' /\ CallOK' /\ NewOK'
  BY <1>1 DEF IInv, TypeOK, OneNumber, CallOK, NewOK, Asks, Writes
<1>3. Owned' /\ NoneLost
  BY <1>1, Keeping DEF IInv, Owned, Holds
<1>. QED  BY <1>2, <1>3 DEF IInv

LEMMA OthersRemoveOK ==
  ASSUME IInv, NEW n \in Name, OthersRemove(n)
  PROVE  IInv' /\ NoneLost
<1>1. /\ UNCHANGED <<fds, chans, oneTty, strayed, unasked>>
      /\ files' \subseteq Name /\ elders' \subseteq elders
  BY DEF OthersRemove, IInv, TypeOK
<1>2. TypeOK' /\ OneNumber' /\ NewOK'
  BY <1>1 DEF IInv, TypeOK, OneNumber, NewOK
<1>3. Owned' /\ NoneLost
  BY <1>1, Keeping DEF IInv, Owned, Holds
<1>4. CASE call' = call
  BY <1>1, <1>2, <1>3, <1>4 DEF IInv, CallOK, Asks, Writes
<1>5. CASE call.op # "idle" /\ call' = [call EXCEPT !.old = FALSE]
  <2>1. /\ call'.op = call.op /\ call'.chan = call.chan /\ call'.fn = call.fn
        /\ call'.flags = call.flags /\ call'.new = call.new
        /\ call'.old \in {call.old, FALSE}
    BY <1>5
  <2>2. CallOK'
    BY <1>1, <2>1 DEF IInv, CallOK, Asks, Writes
  <2>. QED  BY <1>2, <1>3, <2>2 DEF IInv
<1>. QED  BY <1>4, <1>5 DEF OthersRemove, Free

\* What the open that runs is about.
LEMMA Asked ==
  ASSUME IInv, CanOpen
  PROVE  /\ call.chan \in Chan /\ call.fn \in Name /\ call.flags \in SUBSET Flag
         /\ chans[call.chan].rd = -1 /\ chans[call.chan].wr = -1
         /\ call.new \in BOOLEAN
         /\ call.new = TRUE /\ call.old = TRUE => ~Asks(call.flags)
         /\ files \cup {call.fn} \subseteq Name
BY DEF CanOpen, IInv, CallOK, TypeOK

LEMMA OpenedOK ==
  ASSUME IInv, Opened
  PROVE  IInv' /\ (NoneLost \/ Useless)
<1>1. PICK c \in Chan : c = call.chan
  BY Asked DEF Opened
<1> DEFINE rd == IF Reads(call.flags) THEN Lowest ELSE -1
           wr == IF Writes(call.flags) THEN Lowest ELSE -1
           ch == [rd |-> rd, wr |-> wr, fn |-> call.fn, new |-> call.new]
<1>2. /\ Lowest \in Fd /\ fds[Lowest] = "free" /\ Lowest # -1
  BY LowestIsFree, DescriptorAssumption DEF Opened, CanOpen, Fd
<1>3. chans[c].rd = -1 /\ chans[c].wr = -1 /\ call.fn \in Name /\ call.new \in BOOLEAN
  BY <1>1, Asked DEF Opened
<1>4. /\ ch.rd = rd /\ ch.wr = wr /\ ch \in Fields
  BY <1>2, <1>3 DEF Fields
<1>5. /\ chans' = [chans EXCEPT ![c] = ch] /\ strayed' = strayed \ {c} /\ call'.op = "idle"
      /\ fds' = [fds EXCEPT ![Lowest] = Receiver(call.flags)]
      /\ elders' = IF call.new /\ call.old THEN elders \cup {c} ELSE elders
      /\ unasked' = IF call.new /\ ~Asks(call.flags) THEN unasked \cup {c} ELSE unasked
  BY <1>1 DEF Opened, Returns, Idle
<1>6. files' \subseteq Name
  BY Asked DEF Opened, Makes
<1>7. elders' \subseteq Chan /\ unasked' \subseteq Chan
  BY <1>5 DEF IInv, TypeOK
<1>8. NewOK'
  <2>1. CASE call.new /\ call.old
    <3>1. ~Asks(call.flags)
      BY <2>1, Asked DEF Opened
    <3>. QED  BY <1>5, <2>1, <3>1 DEF IInv, NewOK
  <2>2. CASE ~(call.new /\ call.old)
    BY <1>5, <2>2 DEF IInv, NewOK
  <2>. QED  BY <2>1, <2>2
<1>9. CallOK'
  BY <1>5 DEF CallOK
<1>10. CASE Reads(call.flags) \/ Writes(call.flags)
  <2>1. {ch.rd, ch.wr} \ {-1} = {Lowest} /\ (ch.rd = -1 \/ ch.wr = -1 \/ ch.rd = ch.wr)
    BY <1>2, <1>4, <1>10
  <2>2. fds' = [fds EXCEPT ![Lowest] = c]
    BY <1>1, <1>5, <1>10 DEF Receiver
  <2> HIDE DEF ch
  <2>3. TypeOK' /\ OneNumber' /\ Owned' /\ NoneLost
    BY <1>2, <1>3, <1>4, <1>5, <1>6, <1>7, <2>1, <2>2, Giving
  <2>. QED  BY <1>8, <1>9, <2>3 DEF IInv
<1>11. CASE ~Reads(call.flags) /\ ~Writes(call.flags)
  <2>1. ch.rd = -1 /\ ch.wr = -1 /\ fds' = [fds EXCEPT ![Lowest] = Leaked]
    BY <1>4, <1>5, <1>11 DEF Receiver
  <2>2. Useless
    BY <1>11 DEF Useless, Opened, CanOpen
  <2> HIDE DEF ch
  <2>3. /\ chans' \in [Chan -> Fields] /\ chans'[c] = ch /\ Holds(c)' = {}
        /\ \A d \in Chan \ {c} : chans'[d] = chans[d] /\ Holds(d)' = Holds(d)
    BY <1>4, <1>5, <2>1, Renewing DEF IInv
  <2>4. /\ fds' \in [Fd -> Chan \cup Range(Inherited) \cup {"free", Leaked}]
        /\ \A m \in Fd \ {Lowest} : fds'[m] = fds[m]
    BY <1>2, <2>1 DEF IInv, TypeOK
  <2>5. TypeOK' /\ OneNumber'
    BY <1>5, <1>6, <1>7, <2>1, <2>3, <2>4 DEF IInv, TypeOK, Fields, OneNumber
  <2>6. Owned'
    <3> SUFFICES ASSUME NEW d \in Chan \ strayed', NEW m \in Holds(d)'
                 PROVE  fds'[m] = d
      BY DEF Owned
    <3>1. d # c /\ m \in Fd /\ fds[m] = d
      BY <1>5, <2>3, Numbers DEF IInv, Owned
    <3>. QED  BY <1>2, <2>4, <3>1, ChanAssumption
  <2>. QED  BY <1>8, <1>9, <2>2, <2>5, <2>6 DEF IInv
<1>. QED  BY <1>10, <1>11

LEMMA OpenLeaksOK ==
  ASSUME IInv, OpenLeaks
  PROVE  IInv'
<1>1. files' \subseteq Name
  BY Asked DEF OpenLeaks, Makes
<1>. QED  BY <1>1, Losing DEF OpenLeaks, CanOpen, Returns, Idle, ages

LEMMA AcceptLeaksOK ==
  ASSUME IInv, NEW d \in Chan, AcceptLeaks(d)
  PROVE  IInv'
<1>1. files' \subseteq Name
  BY DEF AcceptLeaks, IInv, TypeOK
<1>. QED  BY <1>1, Losing DEF AcceptLeaks, Returns, Idle, ages

LEMMA TakesSocketOK ==
  ASSUME IInv, NEW c \in Chan, NEW new \in BOOLEAN, TakesSocket(c, new)
  PROVE  IInv' /\ NoneLost
<1> DEFINE ch == [rd |-> Lowest, wr |-> Lowest, fn |-> NoName, new |-> new]
<1>1. /\ Lowest \in Fd /\ fds[Lowest] = "free"
  BY LowestIsFree DEF TakesSocket
<1>2. chans[c].rd = -1 /\ chans[c].wr = -1
  BY DEF TakesSocket, Unused, Holds
<1>3. ch \in Fields /\ {ch.rd, ch.wr} \ {-1} = {Lowest} /\ ch.rd = ch.wr
  BY <1>1, DescriptorAssumption DEF Fields, Fd
<1>4. /\ fds' = [fds EXCEPT ![Lowest] = c] /\ chans' = [chans EXCEPT ![c] = ch]
      /\ strayed' = strayed \ {c} /\ UNCHANGED <<files, elders, unasked>> /\ call'.op = "idle"
  BY DEF TakesSocket, Returns, Idle, ages
<1> HIDE DEF ch
<1>5. files' \subseteq Name /\ elders' \subseteq Chan /\ unasked' \subseteq Chan
  BY <1>4 DEF IInv, TypeOK
<1>6. TypeOK' /\ OneNumber' /\ Owned' /\ NoneLost
  BY <1>1, <1>2, <1>3, <1>4, <1>5, Giving
<1>7. CallOK' /\ NewOK'
  BY <1>4 DEF IInv, CallOK, NewOK
<1>. QED  BY <1>6, <1>7 DEF IInv

LEMMA OpenEndsOK ==
  ASSUME IInv, OpenFails \/ OpenGivesUp
  PROVE  IInv' /\ NoneLost
<1>1. UNCHANGED <<fds, files, chans, oneTty, strayed, elders, unasked>> /\ call'.op = "idle"
  BY DEF OpenFails, OpenGivesUp, Returns, Idle, ages
<1>2. TypeOK' /\ OneNumber' /\ NewOK'
  BY <1>1 DEF IInv, TypeOK, OneNumber, NewOK
<1>3. Owned' /\ NoneLost
  BY <1>1, Keeping DEF IInv, Owned, Holds
<1>4. CallOK'
  BY <1>1 DEF CallOK
<1>. QED  BY <1>2, <1>3, <1>4 DEF IInv

\* The two descriptors pipe gets.
LEMMA PipeTakes ==
  ASSUME NEW c, NEW d, Pipe(c, d)
  PROVE  LET n == Lowest
             m == Min(FreeFds \ {n})
         IN  /\ FreeFds # {}
             /\ n \in Fd /\ fds[n] = "free" /\ m \in Fd /\ fds[m] = "free" /\ m # n
<1> DEFINE n == Lowest
           m == Min(FreeFds \ {n})
<1>1. FreeFds # {} /\ FreeFds # {n}
  <2>1. Cardinality(FreeFds) > 1
    BY DEF Pipe
  <2>2. Cardinality({}) = 0 /\ Cardinality({n}) = 1
    BY FS_EmptySet, FS_Singleton
  <2>. QED  BY <2>1, <2>2
<1>2. n \in FreeFds
  BY <1>1, LowestIsFree DEF FreeFds
<1>3. FreeFds \ {n} \subseteq Nat /\ FreeFds \ {n} # {}
  BY <1>1, <1>2, DescriptorAssumption DEF FreeFds, Fd
<1>4. m \in FreeFds \ {n}
  BY <1>3, MinIsIn
<1>. QED  BY <1>1, <1>2, <1>4 DEF FreeFds

LEMMA PipeOK ==
  ASSUME IInv, NEW c \in Chan, NEW d \in Chan, Pipe(c, d)
  PROVE  IInv' /\ NoneLost
<1> DEFINE n == Lowest
           m == Min(FreeFds \ {n})
           ch == [Closed EXCEPT !.rd = n]
           dh == [Closed EXCEPT !.wr = m]
<1>1. c # d /\ chans[c].rd = -1 /\ chans[c].wr = -1 /\ chans[d].rd = -1 /\ chans[d].wr = -1
  BY DEF Pipe, Unused, Holds
<1>2. n \in Fd /\ fds[n] = "free" /\ m \in Fd /\ fds[m] = "free" /\ m # n
  BY PipeTakes
<1>3. n \in Fd /\ fds[n] = "free"
  BY <1>2
<1>4. m \in Fd /\ fds[m] = "free" /\ m # n
  BY <1>2
<1>5. /\ fds' = [fds EXCEPT ![n] = c, ![m] = d]
      /\ chans' = [chans EXCEPT ![c] = ch, ![d] = dh]
      /\ strayed' = strayed \ {c, d} /\ UNCHANGED <<files, elders, unasked>>
      /\ call'.op = "idle"
  BY DEF Pipe, Returns, Idle, ages
<1> HIDE DEF n, m
<1>6. /\ ch \in Fields /\ ch.rd = n /\ ch.wr = -1 /\ ch.new = FALSE
      /\ dh \in Fields /\ dh.rd = -1 /\ dh.wr = m /\ dh.new = FALSE
  BY <1>3, <1>4 DEF Closed, Fields
<1> HIDE DEF ch, dh
<1>7. n # -1 /\ m # -1
  BY <1>3, <1>4, DescriptorAssumption DEF Fd
<1>8. /\ chans' \in [Chan -> Fields] /\ chans'[c] = ch /\ chans'[d] = dh
      /\ \A e \in Chan \ {c, d} : chans'[e] = chans[e]
  BY <1>1, <1>5, <1>6 DEF IInv, TypeOK, Fields
<1>9. /\ Holds(c)' = {n} /\ Holds(d)' = {m}
      /\ \A e \in Chan \ {c, d} : Holds(e)' = Holds(e)
  BY <1>6, <1>7, <1>8 DEF Holds
<1>10. /\ fds' \in [Fd -> Chan \cup Range(Inherited) \cup {"free", Leaked}]
       /\ fds'[n] = c /\ fds'[m] = d /\ \A k \in Fd \ {n, m} : fds'[k] = fds[k]
  BY <1>3, <1>4, <1>5 DEF IInv, TypeOK
<1>11. TypeOK'
  BY <1>5, <1>8, <1>10 DEF IInv, TypeOK, Fields
<1>12. OneNumber'
  BY <1>6, <1>8 DEF IInv, OneNumber
<1>13. Owned'
  <2> SUFFICES ASSUME NEW e \in Chan \ strayed', NEW k \in Holds(e)'
               PROVE  fds'[k] = e
    BY DEF Owned
  <2>1. CASE e \in {c, d}
    BY <1>9, <1>10, <2>1
  <2>2. CASE e \notin {c, d}
    <3>1. k \in Holds(e) /\ k \in Fd /\ fds[k] = e
      BY <1>5, <1>9, <2>2, Numbers DEF IInv, Owned
    <3>2. k # n /\ k # m
      BY <1>3, <1>4, <3>1, ChanAssumption
    <3>. QED  BY <1>10, <3>1, <3>2
  <2>. QED  BY <2>1, <2>2
<1>14. NoneLost
  <2> SUFFICES ASSUME NEW k \in 3 .. MaxFd, Lost(k)' PROVE Lost(k)
    BY DEF NoneLost
  <2>1. k # n /\ k # m /\ k \in Fd
    BY <1>9, DescriptorAssumption DEF Lost, Fd
  <2>2. \A e \in Chan : k \notin Holds(e)
    BY <1>1, <1>9 DEF Lost, Holds
  <2>. QED  BY <1>10, <2>1, <2>2 DEF Lost
<1>15. CallOK'
  BY <1>5 DEF CallOK
<1>16. NewOK'
  BY <1>5 DEF IInv, NewOK
<1>. QED  BY <1>11, <1>12, <1>13, <1>14, <1>15, <1>16 DEF IInv

\* close and abort, when close() succeeds.
LEMMA DropsOK ==
  ASSUME IInv, NEW c \in Chan, ~Unused(c), Drops(c, Number(c)),
         Unlinks(c) \/ (elders' = elders \ {c} /\ UNCHANGED files)
  PROVE  IInv' /\ NoneLost
<1> DEFINE n == Number(c)
<1>1. Holds(c) = {n} /\ n \in Fd
  BY NumberIsHeld DEF IInv
<1>2. /\ fds' = [fds EXCEPT ![n] = "free"] /\ chans' = [chans EXCEPT ![c] = Closed]
      /\ strayed' = (strayed \ {c}) \cup Robbed(n, c)
  BY DEF Drops, Releases, Forgets
<1> HIDE DEF n
<1>3. /\ chans' \in [Chan -> Fields] /\ chans'[c] = Closed /\ Holds(c)' = {}
      /\ \A d \in Chan \ {c} : chans'[d] = chans[d] /\ Holds(d)' = Holds(d)
  BY <1>2, ClosedIs, Renewing DEF IInv
<1>4. /\ fds' \in [Fd -> Chan \cup Range(Inherited) \cup {"free", Leaked}]
      /\ fds'[n] = "free" /\ \A m \in Fd \ {n} : fds'[m] = fds[m]
  BY <1>1, <1>2 DEF IInv, TypeOK
<1>5. strayed' \subseteq Chan
  BY <1>2 DEF Robbed, IInv, TypeOK
<1>6. /\ files' \subseteq Name /\ elders' \subseteq elders \ {c} /\ unasked' = unasked \ {c}
      /\ call'.op = "idle"
  BY DEF Drops, Unlinks, Returns, Idle, IInv, TypeOK
<1>7. TypeOK'
  BY <1>3, <1>4, <1>5, <1>6 DEF IInv, TypeOK, Fields
<1>8. OneNumber'
  BY <1>3, ClosedIs DEF IInv, OneNumber
<1>9. Owned'
  <2> SUFFICES ASSUME NEW d \in Chan \ strayed', NEW m \in Holds(d)'
               PROVE  fds'[m] = d
    BY DEF Owned
  <2>1. d # c /\ m \in Holds(d) /\ d \notin strayed
    BY <1>2, <1>3
  <2>2. m \in Fd /\ fds[m] = d
    BY <2>1, Numbers DEF IInv, Owned
  <2>3. m # n
    BY <1>2, <2>1 DEF Robbed
  <2>. QED  BY <1>4, <2>2, <2>3
<1>10. NoneLost
  <2> SUFFICES ASSUME NEW m \in 3 .. MaxFd, Lost(m)' PROVE Lost(m)
    BY DEF NoneLost
  <2>1. m \in Fd /\ m # n /\ fds'[m] = fds[m]
    BY <1>4, DescriptorAssumption DEF Lost, Fd
  <2>. QED  BY <1>1, <1>3, <2>1 DEF Lost
<1>11. CallOK'
  BY <1>6 DEF CallOK
<1>12. NewOK'
  BY <1>6 DEF IInv, NewOK
<1>. QED  BY <1>7, <1>8, <1>9, <1>10, <1>11, <1>12 DEF IInv

\* and when it fails.
LEMMA KeepsOK ==
  ASSUME IInv, NEW c \in Chan, ~Unused(c), Keeps(c, Number(c))
  PROVE  IInv' /\ NoneLost
<1> DEFINE n == Number(c)
<1>1. Holds(c) = {n} /\ n \in Fd
  BY NumberIsHeld DEF IInv
<1>2. /\ UNCHANGED <<chans, files, elders, unasked>>
      /\ strayed' = strayed \cup {c} \cup Robbed(n, c)
      /\ fds' = fds \/ fds' = [fds EXCEPT ![n] = "free"]
      /\ call'.op = "idle"
  BY DEF Keeps, Releases, Returns, Idle, ages
<1> HIDE DEF n
<1>3. \A d \in Chan : Holds(d)' = Holds(d)
  BY <1>2 DEF Holds
<1>4. /\ fds' \in [Fd -> Chan \cup Range(Inherited) \cup {"free", Leaked}]
      /\ fds'[n] \in {fds[n], "free"} /\ \A m \in Fd \ {n} : fds'[m] = fds[m]
  BY <1>1, <1>2 DEF IInv, TypeOK
<1>5. TypeOK' /\ OneNumber' /\ NewOK'
  <2>1. strayed' \subseteq Chan
    BY <1>2 DEF Robbed, IInv, TypeOK
  <2>. QED  BY <1>2, <1>4, <2>1 DEF IInv, TypeOK, OneNumber, NewOK
<1>6. Owned'
  <2> SUFFICES ASSUME NEW d \in Chan \ strayed', NEW m \in Holds(d)'
               PROVE  fds'[m] = d
    BY DEF Owned
  <2>1. d # c /\ m \in Holds(d) /\ d \notin strayed
    BY <1>2, <1>3
  <2>2. m \in Fd /\ fds[m] = d
    BY <2>1, Numbers DEF IInv, Owned
  <2>3. m # n
    BY <1>2, <2>1 DEF Robbed
  <2>. QED  BY <1>4, <2>2, <2>3
<1>7. NoneLost
  <2> SUFFICES ASSUME NEW m \in 3 .. MaxFd, Lost(m)' PROVE Lost(m)
    BY DEF NoneLost
  <2>1. m \in Fd /\ fds'[m] = fds[m]
    BY <1>4, DescriptorAssumption DEF Lost, Fd
  <2>. QED  BY <1>3, <2>1 DEF Lost
<1>8. CallOK'
  BY <1>2 DEF CallOK
<1>. QED  BY <1>5, <1>6, <1>7, <1>8 DEF IInv

LEMMA CloseAllOK ==
  ASSUME IInv, CloseAll
  PROVE  IInv' /\ NoneLost
<1>1. /\ fds' = [n \in Fd |-> IF n < 3 THEN fds[n] ELSE "free"]
      /\ strayed' = {c \in Chan : ~Unused(c)}
      /\ UNCHANGED <<files, chans, elders, unasked>> /\ call'.op = "idle"
  BY DEF CloseAll, Returns, Idle, ages
<1>2. \A d \in Chan : Holds(d)' = Holds(d)
  BY <1>1 DEF Holds
<1>3. TypeOK' /\ OneNumber' /\ NewOK'
  <2>1. fds' \in [Fd -> Chan \cup Range(Inherited) \cup {"free", Leaked}]
    BY <1>1 DEF IInv, TypeOK
  <2>. QED  BY <1>1, <2>1 DEF IInv, TypeOK, OneNumber, NewOK
<1>4. Owned'
  BY <1>1, <1>2 DEF Owned, Unused
<1>5. NoneLost
  BY <1>1, DescriptorAssumption DEF NoneLost, Lost, Fd
<1>6. CallOK'
  BY <1>1 DEF CallOK
<1>. QED  BY <1>3, <1>4, <1>5, <1>6 DEF IInv

LEMMA InitOK ==
  ASSUME Init
  PROVE  IInv
<1>1. TypeOK
  <2>1. \A n \in Fd : n < 3 => Inherited[n + 1] \in Range(Inherited)
    BY DescriptorAssumption DEF Inherited, Range, Fd
  <2>2. fds \in [Fd -> Chan \cup Range(Inherited) \cup {"free", Leaked}]
    BY <2>1 DEF Init
  <2>3. chans \in [Chan -> Fields]
    BY ClosedIs DEF Init
  <2>. QED  BY <2>2, <2>3 DEF Init, TypeOK, Fields
<1>2. \A c \in Chan : chans[c] = Closed /\ Holds(c) = {}
  BY ClosedIs DEF Init, Holds
<1>3. OneNumber /\ Owned
  BY <1>2, ClosedIs DEF OneNumber, Owned
<1>4. NewOK
  BY DEF Init, NewOK
<1>5. CallOK
  BY DEF Init, CallOK, Idle
<1>. QED  BY <1>1, <1>3, <1>4, <1>5 DEF IInv

LEMMA StutterOK ==
  ASSUME IInv, UNCHANGED vars
  PROVE  IInv'
<1>1. UNCHANGED <<fds, files, chans, oneTty, call, strayed, elders, unasked>>
  BY DEF vars
<1>2. TypeOK' /\ OneNumber' /\ NewOK'
  BY <1>1 DEF IInv, TypeOK, OneNumber, NewOK
<1>3. Owned'
  BY <1>1 DEF IInv, Owned, Holds
<1>4. CallOK'
  BY <1>1 DEF IInv, CallOK, Asks, Writes
<1>. QED  BY <1>2, <1>3, <1>4 DEF IInv

\* The steps that lose a descriptor.
Losses == Opened \/ OpenLeaks \/ \E d \in Chan : AcceptLeaks(d)

LEMMA OpensOK ==
  ASSUME IInv, Opens
  PROVE  IInv' /\ (NoneLost \/ Losses)
<1>1. ASSUME NEW c \in Chan, NEW n \in Name, NEW mode \in DOMAIN ModeFlags,
             OpenAsks(c, n, ModeFlags[mode])
      PROVE  IInv' /\ NoneLost
  BY <1>1, ModesAreFlags, OpenAsksOK
<1>2. ASSUME NEW c \in Chan, NEW n \in Name, NEW flags \in AnyFlags, OpenAsks(c, n, flags)
      PROVE  IInv' /\ NoneLost
  BY <1>2, OpenAsksOK DEF AnyFlags
<1>. QED  BY <1>1, <1>2, OpenedOK, OpenEndsOK, OpenLeaksOK DEF Opens, Losses

LEMMA NextOK ==
  ASSUME IInv, Next
  PROVE  IInv' /\ (NoneLost \/ Losses)
<1>1. CASE Opens
  BY <1>1, OpensOK
<1>2. CASE CloseAll
  BY <1>2, CloseAllOK
<1>3. ASSUME NEW n \in Name, OthersMake(n) \/ OthersRemove(n) PROVE IInv' /\ NoneLost
  BY <1>3, OthersMakeOK, OthersRemoveOK
<1>4. ASSUME NEW c \in Chan, NEW d \in Chan, Pipe(c, d) \/ Accept(d, c)
      PROVE  IInv' /\ NoneLost
  BY <1>4, PipeOK, TakesSocketOK DEF Accept
<1>5. ASSUME NEW c \in Chan, Close(c) \/ Abort(c) PROVE IInv' /\ NoneLost
  BY <1>5, DropsOK, KeepsOK DEF Close, Abort
<1>6. ASSUME NEW c \in Chan, Socket(c) PROVE IInv' /\ NoneLost
  BY <1>6, TakesSocketOK DEF Socket
<1>7. ASSUME NEW c \in Chan, AcceptLeaks(c) PROVE IInv' /\ Losses
  BY <1>7, AcceptLeaksOK DEF Losses
<1>. QED  BY <1>1, <1>2, <1>3, <1>4, <1>5, <1>6, <1>7 DEF Next

-----------------------------------------------------------------------------
(* The standard descriptors, and what a new process gets *)

\* 0, 1 and 2 are what they were when the program began, and are no channel's to close.
StandardOK ==
  /\ fds[0] = "stdin" /\ fds[1] = "stdout" /\ fds[2] = "stderr"
  /\ \A c \in Chan : chans[c].rd \notin 0 .. 2 /\ chans[c].wr \notin 0 .. 2

LEMMA LowestIsHigh ==
  ASSUME StandardOK, FreeFds # {}
  PROVE  Lowest \in Fd /\ Lowest \notin 0 .. 2
<1>1. Lowest \in Fd /\ fds[Lowest] = "free"
  BY LowestIsFree
<1>2. Lowest # 0 /\ Lowest # 1 /\ Lowest # 2
  BY <1>1 DEF StandardOK
<1>. QED  BY <1>1, <1>2, DescriptorAssumption DEF Fd

LEMMA StandardInit ==
  ASSUME Init
  PROVE  StandardOK
<1>1. 0 \in Fd /\ 1 \in Fd /\ 2 \in Fd
  BY DescriptorAssumption DEF Fd
<1>. QED  BY <1>1 DEF Init, StandardOK, Closed, Inherited

LEMMA StandardReleases ==
  ASSUME IInv, StandardOK, NEW c \in Chan, ~Unused(c),
         Drops(c, Number(c)) \/ Keeps(c, Number(c))
  PROVE  StandardOK'
<1>1. Holds(c) = {Number(c)} /\ Number(c) \in Fd
  BY NumberIsHeld DEF IInv
<1>2. Number(c) # 0 /\ Number(c) # 1 /\ Number(c) # 2
  BY <1>1 DEF StandardOK, Holds
<1>3. fds' = fds \/ fds' = [fds EXCEPT ![Number(c)] = "free"]
  BY DEF Drops, Keeps, Releases
<1>4. fds'[0] = fds[0] /\ fds'[1] = fds[1] /\ fds'[2] = fds[2]
  <2>1. 0 \in Fd /\ 1 \in Fd /\ 2 \in Fd
    BY DescriptorAssumption DEF Fd
  <2>. QED  BY <1>2, <1>3, <2>1 DEF IInv, TypeOK
<1>5. \A d \in Chan : \/ chans'[d] = chans[d]
                      \/ chans'[d].rd = -1 /\ chans'[d].wr = -1
  <2>1. UNCHANGED chans \/ chans' = [chans EXCEPT ![c] = Closed]
    BY DEF Drops, Keeps, Forgets
  <2>. QED  BY <2>1, ClosedIs DEF IInv, TypeOK
<1>. QED  BY <1>4, <1>5 DEF StandardOK

LEMMA StandardNext ==
  ASSUME IInv, StandardOK, [Next]_vars
  PROVE  StandardOK'
<1>1. 0 \in Fd /\ 1 \in Fd /\ 2 \in Fd
  BY DescriptorAssumption DEF Fd
<1>2. CASE UNCHANGED <<fds, chans>>
  BY <1>2 DEF StandardOK
<1>3. CASE Opened
  <2>1. Lowest \in Fd /\ Lowest \notin 0 .. 2
    BY <1>3, LowestIsHigh DEF Opened, CanOpen
  <2>2. /\ fds' = [fds EXCEPT ![Lowest] = Receiver(call.flags)]
        /\ chans' = [chans EXCEPT ![call.chan] =
                       [rd |-> IF Reads(call.flags) THEN Lowest ELSE -1,
                        wr |-> IF Writes(call.flags) THEN Lowest ELSE -1,
                        fn |-> call.fn, new |-> call.new]]
    BY <1>3 DEF Opened
  <2>3. \A d \in Chan : \/ chans'[d] = chans[d]
                        \/ chans'[d].rd \in {-1, Lowest} /\ chans'[d].wr \in {-1, Lowest}
    BY <2>2 DEF IInv, TypeOK
  <2>. QED  BY <1>1, <2>1, <2>2, <2>3 DEF StandardOK, IInv, TypeOK
<1>4. CASE FreeFds # {} /\ fds' = [fds EXCEPT ![Lowest] = Leaked] /\ UNCHANGED chans
  <2>1. Lowest \in Fd /\ Lowest \notin 0 .. 2
    BY <1>4, LowestIsHigh
  <2>. QED  BY <1>1, <1>4, <2>1 DEF StandardOK, IInv, TypeOK
<1>5. CASE CloseAll
  BY <1>1, <1>5 DEF StandardOK, CloseAll
<1>6. ASSUME NEW c \in Chan, NEW d \in Chan, Pipe(c, d) PROVE StandardOK'
  <2> DEFINE n == Lowest
             m == Min(FreeFds \ {n})
  <2>1. n \in Fd /\ n \notin 0 .. 2 /\ m \in Fd /\ fds[m] = "free"
    BY <1>6, PipeTakes, LowestIsHigh
  <2>2. m \notin 0 .. 2
    <3> HIDE DEF m
    <3>1. m # 0 /\ m # 1 /\ m # 2
      BY <2>1 DEF StandardOK
    <3>. QED  BY <2>1, <3>1, DescriptorAssumption DEF Fd
  <2>3. /\ fds' = [fds EXCEPT ![n] = c, ![m] = d]
        /\ chans' = [chans EXCEPT ![c] = [Closed EXCEPT !.rd = n],
                                  ![d] = [Closed EXCEPT !.wr = m]]
    BY <1>6 DEF Pipe
  <2> HIDE DEF n, m
  <2>4. \A e \in Chan : \/ chans'[e] = chans[e]
                        \/ chans'[e].rd \in {-1, n} /\ chans'[e].wr \in {-1, m}
    BY <2>3 DEF IInv, TypeOK, Closed
  <2>. QED  BY <1>1, <2>1, <2>2, <2>3, <2>4 DEF StandardOK, IInv, TypeOK
<1>7. ASSUME NEW c \in Chan, NEW new \in BOOLEAN, TakesSocket(c, new) PROVE StandardOK'
  <2>1. Lowest \in Fd /\ Lowest \notin 0 .. 2
    BY <1>7, LowestIsHigh DEF TakesSocket
  <2>2. /\ fds' = [fds EXCEPT ![Lowest] = c]
        /\ chans' = [chans EXCEPT ![c] =
                       [rd |-> Lowest, wr |-> Lowest, fn |-> NoName, new |-> new]]
    BY <1>7 DEF TakesSocket
  <2>3. \A d \in Chan : \/ chans'[d] = chans[d]
                        \/ chans'[d].rd = Lowest /\ chans'[d].wr = Lowest
    BY <2>2 DEF IInv, TypeOK
  <2>. QED  BY <1>1, <2>1, <2>2, <2>3 DEF StandardOK, IInv, TypeOK
<1>8. ASSUME NEW c \in Chan, Close(c) \/ Abort(c) PROVE StandardOK'
  BY <1>8, StandardReleases DEF Close, Abort
<1>9. CASE UNCHANGED vars
  BY <1>2, <1>9 DEF vars
<1>10. CASE Opens
  <2>1. Opened \/ OpenLeaks \/ UNCHANGED <<fds, chans>>
    BY <1>10 DEF Opens, OpenAsks, Opening, OpenFails, OpenGivesUp
  <2>. QED  BY <1>2, <1>3, <1>4, <2>1 DEF OpenLeaks, CanOpen
<1>11. CASE \E n \in Name : OthersMake(n) \/ OthersRemove(n)
  BY <1>2, <1>11 DEF OthersMake, OthersRemove
<1>12. ASSUME NEW c \in Chan, NEW d \in Chan, Accept(d, c) \/ Socket(c) \/ AcceptLeaks(d)
       PROVE  StandardOK'
  BY <1>4, <1>7, <1>12 DEF Accept, Socket, AcceptLeaks
<1>. QED  BY <1>5, <1>6, <1>8, <1>9, <1>10, <1>11, <1>12 DEF Next

-----------------------------------------------------------------------------
(* Theorems *)

\* Whatever is opened and closed, and whatever fails, the invariant holds.
THEOREM Invariance == Spec => []IInv
<1>1. Init => IInv  BY InitOK
<1>2. IInv /\ [Next]_vars => IInv'  BY NextOK, StutterOK
<1>. QED  BY <1>1, <1>2, PTL DEF Spec

\* The table of descriptors, the names and the channels keep their types; a channel has no
\* number but one of the table's.
THEOREM TypeCorrect == Spec => []TypeOK
<1>1. IInv => TypeOK  BY DEF IInv
<1>. QED  BY <1>1, Invariance, PTL

\* The descriptor of an open channel refers to the file the channel was opened for, but for
\* those that close_all and a close that fails have left with a number.
THEOREM ChannelsOwn == Spec => []Owned
<1>1. IInv => Owned  BY DEF IInv
<1>. QED  BY <1>1, Invariance, PTL

\* A call that returns or signals not_possible loses no descriptor, and none is lost later: only
\* an open or accept that signals failure, and an _open with O_RDONLY and another flag, lose one.
THEOREM NoneIsLost == Spec => Accounted
<1>1. IInv /\ [Next]_vars =>
        [\A n \in 3 .. MaxFd : Lost(n)' => Lost(n) \/ call' = Idle("failure") \/ Useless]_vars
  <2> SUFFICES ASSUME IInv, Next
               PROVE  NoneLost \/ call' = Idle("failure") \/ Useless
    BY DEF NoneLost
  <2>1. CASE Opened
    BY <2>1, OpenedOK
  <2>2. CASE OpenLeaks \/ \E d \in Chan : AcceptLeaks(d)
    BY <2>2 DEF OpenLeaks, AcceptLeaks, Returns
  <2>. QED  BY <2>1, <2>2, NextOK DEF Losses
<1>. QED  BY <1>1, Invariance, PTL DEF Spec, Accounted

\* abort deletes no file that was there before its channel was opened, unless _open was not told
\* to make or truncate the file.
THEOREM AbortsSpare == Spec => AbortSpares
<1> DEFINE Spares(n) ==
             OthersRemove(n)
             \/ \E c \in Chan : Discards(c, n) /\ (c \notin elders \/ c \in unasked)
<1>1. IInv /\ [Next]_vars => [\A n \in files \ files' : Spares(n)]_vars
  <2> SUFFICES ASSUME IInv, Next, NEW n \in files \ files' PROVE Spares(n)
    OBVIOUS
  <2>1. ~Opens /\ ~CloseAll
    BY Asked DEF Opens, OpenAsks, Opening, Opened, OpenFails, OpenGivesUp, OpenLeaks, Makes, CloseAll
  <2>2. ASSUME NEW m \in Name, OthersMake(m) \/ OthersRemove(m) PROVE OthersRemove(n)
    BY <2>2 DEF OthersMake, OthersRemove
  <2>3. ASSUME NEW c \in Chan, NEW d \in Chan PROVE ~Pipe(c, d) /\ ~Accept(d, c)
    BY DEF Pipe, Accept, TakesSocket
  <2>4. ASSUME NEW c \in Chan PROVE ~Close(c) /\ ~Socket(c) /\ ~AcceptLeaks(c)
    BY DEF Close, Keeps, Socket, TakesSocket, AcceptLeaks
  <2>5. ASSUME NEW c \in Chan, Abort(c)
        PROVE  Discards(c, n) /\ (c \notin elders \/ c \in unasked)
    <3>1. Drops(c, Number(c)) /\ Unlinks(c) /\ Holds(c) # {}
      BY <2>5 DEF Abort, Keeps, Unused
    <3>2. chans' = [chans EXCEPT ![c] = Closed]
      BY <3>1 DEF Drops, Forgets
    <3>3. Unused(c)'
      BY <3>2, ClosedIs, Renewing DEF IInv, Unused
    <3>4. chans[c].fn = n
      BY <3>1 DEF Unlinks
    <3>. QED  BY <3>1, <3>3, <3>4 DEF IInv, NewOK, Discards
  <2>. QED  BY <2>1, <2>2, <2>3, <2>4, <2>5 DEF Next
<1>. QED  BY <1>1, Invariance, PTL DEF Spec, AbortSpares

\* Descriptors 0, 1 and 2 are never closed or given to a channel.
THEOREM StandardStays == Spec => []StandardOK
<1>1. Init => StandardOK  BY StandardInit
<1>2. IInv /\ StandardOK /\ [Next]_vars => StandardOK'  BY StandardNext
<1>. QED  BY <1>1, <1>2, Invariance, PTL DEF Spec

\* Where a channel that cons accepts has its descriptors, and what they refer to.
LEMMA Sources ==
  ASSUME IInv, StandardOK, NEW c \in Channels \ strayed
  PROVE  /\ Rd(c) >= 0 => Rd(c) \in Fd /\ Rd(c) \notin {1, 2} /\ fds[Rd(c)] = FileOf(c, Rd(c))
         /\ Wr(c) >= 0 => Wr(c) \in Fd /\ Wr(c) # 0 /\ fds[Wr(c)] = FileOf(c, Wr(c))
<1>1. 0 \in Fd /\ 1 \in Fd /\ 2 \in Fd
  BY DescriptorAssumption DEF Fd
<1>2. fds[0] = Inherited[1] /\ fds[1] = Inherited[2] /\ fds[2] = Inherited[3]
  BY DEF StandardOK, Inherited
<1>3. CASE c \in Standard
  <2>1. Rd(c) \in {0, -1} /\ Wr(c) \in {1, 2, -1} /\ \A n : FileOf(c, n) = Inherited[n + 1]
    BY <1>3 DEF Standard, Rd, Wr, FileOf
  <2>. QED  BY <1>1, <1>2, <2>1
<1>4. CASE c \notin Standard
  <2>1. c \in Chan \ strayed /\ \A n : FileOf(c, n) = c
    BY <1>4 DEF Channels, FileOf
  <2>2. Rd(c) = chans[c].rd /\ Wr(c) = chans[c].wr
    BY <1>4 DEF Standard, Rd, Wr
  <2>3. /\ chans[c].rd \in Fd \cup {-1} /\ chans[c].wr \in Fd \cup {-1}
        /\ chans[c].rd \notin 0 .. 2 /\ chans[c].wr \notin 0 .. 2
    BY <2>1, Numbers DEF IInv, StandardOK
  <2>4. \A n \in Fd : n = chans[c].rd \/ n = chans[c].wr => fds[n] = c
    BY <2>1, DescriptorAssumption DEF IInv, Owned, Holds, Fd
  <2>. QED  BY <2>1, <2>2, <2>3, <2>4
<1>. QED  BY <1>3, <1>4

\* A process that cons makes has its three channels for primary input and output and error
\* output, whichever they are, but for the error output named in Straight.
THEOREM ChildrenGetTheirs == Spec => []ChildFiles
<1>1. IInv /\ StandardOK => ChildFiles
  <2> SUFFICES ASSUME IInv, StandardOK,
                      NEW pri \in Channels \ strayed, NEW pro \in Channels \ strayed,
                      NEW ero \in Channels \ strayed,
                      Accepted(pri, pro, ero), Straight(pro, ero)
               PROVE  LET child == Child(pri, pro, ero, {})
                      IN  /\ child[0] = FileOf(pri, Rd(pri))
                          /\ child[1] = FileOf(pro, Wr(pro))
                          /\ child[2] = FileOf(ero, Wr(ero))
    BY DEF ChildFiles
  <2> DEFINE p == Rd(pri)
             q == Wr(pro)
             r == Wr(ero)
  <2>1. p >= 0 /\ q >= 0 /\ r >= 0
    BY DEF Accepted
  <2>2. /\ p \in Fd /\ p \notin {1, 2} /\ fds[p] = FileOf(pri, p)
        /\ q \in Fd /\ q # 0 /\ fds[q] = FileOf(pro, q)
        /\ r \in Fd /\ r # 0 /\ fds[r] = FileOf(ero, r)
    BY <2>1, Sources
  <2>3. r = 1 => q = 1
    BY DEF Straight
  <2>4. 0 \in Fd /\ 1 \in Fd /\ 2 \in Fd
    BY DescriptorAssumption DEF Fd
  <2>5. Child(pri, pro, ero, {}) = AfterExec(Given(p, q, r), {})
    BY DEF Child
  <2> HIDE DEF p, q, r
  <2>6. DOMAIN fds = Fd
    BY DEF IInv, TypeOK
  <2>7. LET t == Given(p, q, r)
        IN  t[0] = fds[p] /\ t[1] = fds[q] /\ t[2] = fds[r]
    <3> DEFINE t1 == [fds EXCEPT ![0] = fds[p]]
               t2 == [t1 EXCEPT ![1] = t1[q]]
               t3 == [t2 EXCEPT ![2] = t2[r]]
    <3>1. t1[0] = fds[p] /\ DOMAIN t1 = Fd /\ \A n \in Fd : n # 0 => t1[n] = fds[n]
      BY <2>4, <2>6
    <3> HIDE DEF t1
    <3>2. t2[0] = fds[p] /\ t2[1] = fds[q] /\ DOMAIN t2 = Fd
          /\ \A n \in Fd : n \notin {0, 1} => t2[n] = fds[n]
      BY <2>2, <2>4, <3>1
    <3> HIDE DEF t2
    <3>3. t3[0] = fds[p] /\ t3[1] = fds[q] /\ t3[2] = fds[r]
      BY <2>2, <2>3, <2>4, <3>2
    <3>. QED  BY <3>3 DEF Given, Dup2, t1, t2
  <2>8. \A t : \A n \in {0, 1, 2} : AfterExec(t, {})[n] = t[n]
    BY <2>4 DEF AfterExec
  <2>. QED  BY <2>2, <2>5, <2>7, <2>8 DEF p, q, r
<1>. QED  BY <1>1, Invariance, StandardStays, PTL
\* The channels a process is to save are open in it, and with none to save nothing but 0, 1
\* and 2 is.
THEOREM ChildrenKeepTheirs == Spec => []ChildKeeps
<1>1. IInv /\ StandardOK => ChildKeeps
  <2> SUFFICES ASSUME IInv, StandardOK, NEW save \in SUBSET Chan
               PROVE  LET child == Child("pri", "pro", "ero", save)
                          kept == {child[n] : n \in 3 .. MaxFd} \ {"free"}
                      IN  /\ {c \in save \ strayed : ~Unused(c)} \subseteq kept
                          /\ save = {} => kept = {}
    BY DEF ChildKeeps
  <2> DEFINE t == Given(Rd("pri"), Wr("pro"), Wr("ero"))
  <2>1. Child("pri", "pro", "ero", save) =
         [n \in Fd |-> IF n > 2 /\ save = {} THEN "free" ELSE t[n]]
    BY DEF Child, AfterExec
  <2>2. \A n \in 3 .. MaxFd : n \in Fd /\ n > 2
    BY DescriptorAssumption DEF Fd
  <2>3. \A n \in 3 .. MaxFd : t[n] = fds[n]
    <3>1. DOMAIN fds = Fd
      BY DEF IInv, TypeOK
    <3>2. \A n \in 3 .. MaxFd : n \notin {0, 1, 2}
      OBVIOUS
    <3> DEFINE t1 == [fds EXCEPT ![0] = fds[Rd("pri")]]
               t2 == [t1 EXCEPT ![1] = t1[Wr("pro")]]
    <3>3. DOMAIN t1 = Fd /\ \A n \in 3 .. MaxFd : t1[n] = fds[n]
      BY <2>2, <3>1, <3>2
    <3> HIDE DEF t1
    <3>4. DOMAIN t2 = Fd /\ \A n \in 3 .. MaxFd : t2[n] = fds[n]
      BY <2>2, <3>2, <3>3
    <3> HIDE DEF t2
    <3>5. \A n \in 3 .. MaxFd : [t2 EXCEPT ![2] = t2[Wr("ero")]][n] = fds[n]
      BY <2>2, <3>2, <3>4
    <3>. QED  BY <3>5 DEF Given, Dup2, t1, t2
  <2> HIDE DEF t
  <2>4. ASSUME NEW c \in save \ strayed, ~Unused(c)
        PROVE  \E n \in 3 .. MaxFd : fds[n] = c
    <3>1. PICK n \in Holds(c) : TRUE
      BY <2>4 DEF Unused
    <3>2. n \in Fd /\ fds[n] = c /\ n \notin 0 .. 2
      BY <3>1, Numbers DEF IInv, Owned, StandardOK, Holds
    <3>. QED  BY <3>2, DescriptorAssumption DEF Fd
  <2>5. ASSUME save # {}
        PROVE  \A n \in 3 .. MaxFd : Child("pri", "pro", "ero", save)[n] = fds[n]
    BY <2>1, <2>2, <2>3, <2>5
  <2>6. ASSUME save = {}
        PROVE  \A n \in 3 .. MaxFd : Child("pri", "pro", "ero", save)[n] = "free"
    BY <2>1, <2>2, <2>6
  <2>7. ASSUME NEW c \in save \ strayed, ~Unused(c)
        PROVE  c # "free" /\ \E n \in 3 .. MaxFd : Child("pri", "pro", "ero", save)[n] = c
    BY <2>4, <2>5, <2>7, ChanAssumption
  <2>. QED  BY <2>6, <2>7
<1>. QED  BY <1>1, Invariance, StandardStays, PTL
=============================================================================
