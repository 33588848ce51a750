---------------------------- MODULE Descriptors ----------------------------
(***************************************************************************)
(* Channels and the descriptors they hold: open, _open, pipe, socket,      *)
(* accept, close, abort and close_all of code/sysasm/Opt/_chan.c, and what *)
(* a process made by _job$cons (code/libasm/Opt/_job.c) gets of them.      *)
(*                                                                         *)
(* An open file is named by the channel it was opened for, so that a       *)
(* channel can be compared with what its descriptor refers to.  A channel  *)
(* that is closed may be used for another open: it stands for the next     *)
(* one made.  Descriptors 0, 1 and 2 are open when the program begins and  *)
(* no channel to them can be closed.                                       *)
(***************************************************************************)
EXTENDS Integers, FiniteSets, FiniteSetsExt, Functions

CONSTANTS
  Chan,       \* the channels
  Name,       \* the names of files
  MaxFd       \* the last descriptor: getdtablesize() - 1

\* What a pipe and a socket have for a name: nothing that is followed here.
NoName == "/dev"

ASSUME DescriptorAssumption == MaxFd \in Nat /\ MaxFd > 2
ASSUME ChanAssumption == "free" \notin Chan /\ NoName \notin Name

VARIABLES
  fds,        \* fds[n]: the open file n refers to, or "free"
  files,      \* the names that have a file
  chans,      \* chans[c]: the fields rd, wr, fn and new of c
  oneTty,     \* 0 and 1 are the same terminal
  call,       \* the open that runs, or how the last call ended
  strayed,    \* the channels whose number may not be theirs any more
  elders,     \* the new channels whose name had the file it has now before they were opened
  unasked     \* the new channels that were opened without access()

vars == <<fds, files, chans, oneTty, call, strayed, elders, unasked>>

\* What only the properties look at.
ages == <<elders, unasked>>

Fd == 0 .. MaxFd

\* Standard input, output and error output, where they went when the program began.
Inherited == <<"stdin", "stdout", "stderr">>

\* A file that is open and that no channel was given.
Leaked == "leaked"

Closed == [rd |-> -1, wr |-> -1, fn |-> NoName, new |-> FALSE]

\* A call has ended.  (Those that signal before they change anything are left out.)
Outcomes == {"ok", "not_possible", "failure"}
Idle(out) == [op |-> "idle", out |-> out]
Returns(out) == call' = Idle(out)

Init ==
  /\ fds = [n \in Fd |-> IF n < 3 THEN Inherited[n + 1] ELSE "free"]
  /\ files \in SUBSET Name
  /\ chans = [c \in Chan |-> Closed]
  /\ oneTty \in BOOLEAN
  /\ call = Idle("ok")
  /\ strayed = {}
  /\ elders = {}
  /\ unasked = {}

Free == call.op = "idle"

Holds(c) == {chans[c].rd, chans[c].wr} \ {-1}

Unused(c) == Holds(c) = {}

FreeFds == {n \in Fd : fds[n] = "free"}

\* The system gives the lowest free descriptor.
Lowest == Min(FreeFds)

-----------------------------------------------------------------------------
(* open and _open *)

\* The flags of open(2) that matter here.  (Any other does with O_RDONLY what O_TRUNC does.)
Flag == {"O_WRONLY", "O_RDWR", "O_TRUNC", "O_CREAT"}

\* The modes of open, and their flags.
ModeFlags ==
  [read   |-> {},
   write  |-> {"O_WRONLY", "O_TRUNC", "O_CREAT"},
   append |-> {"O_WRONLY", "O_CREAT"},
   random |-> {"O_RDWR", "O_TRUNC", "O_CREAT"},
   modify |-> {"O_RDWR", "O_CREAT"}]

\* The flags a client gives _open.
AnyFlags == {flags \in SUBSET Flag : ~({"O_WRONLY", "O_RDWR"} \subseteq flags)}

Writes(flags) == flags \cap {"O_WRONLY", "O_RDWR"} # {}

\* !flags & 1 is true of the flags 0 only.
Reads(flags) == "O_RDWR" \in flags \/ flags = {}

\* access() is called.
Asks(flags) == Writes(flags) /\ flags \cap {"O_TRUNC", "O_CREAT"} # {}

Opening(c, n, flags, new) ==
  /\ Free /\ Unused(c)
  /\ call' = [op |-> "open", chan |-> c, fn |-> n, flags |-> flags, new |-> new,
              old |-> n \in files]
  /\ UNCHANGED <<fds, files, chans, oneTty, strayed, ages>>

OpenAsks_Mutant(c, n, flags) == Opening(c, n, flags, Writes(flags))     \* without access()

\* A channel that writes is new unless access() says that the file is there,
OpenAsks(c, n, flags) ==
  Opening(c, n, flags, Writes(flags) /\ (Asks(flags) => n \notin files))

\* and open() makes the file, if it may, when it is not: it may have come in between.
CanOpen ==
  /\ call.op = "open" /\ FreeFds # {}
  /\ "O_CREAT" \in call.flags \/ call.fn \in files

Makes == files' = files \cup {call.fn}

\* A file that is opened neither to read nor to write belongs to no channel.
Receiver(flags) == IF Reads(flags) \/ Writes(flags) THEN call.chan ELSE Leaked

Opened ==
  /\ CanOpen
  /\ Makes
  /\ fds' = [fds EXCEPT ![Lowest] = Receiver(call.flags)]
  /\ chans' = [chans EXCEPT ![call.chan] =
                 [rd |-> IF Reads(call.flags) THEN Lowest ELSE -1,
                  wr |-> IF Writes(call.flags) THEN Lowest ELSE -1,
                  fn |-> call.fn, new |-> call.new]]
  /\ strayed' = strayed \ {call.chan}
  /\ elders' = IF call.new /\ call.old THEN elders \cup {call.chan} ELSE elders
  /\ unasked' = IF call.new /\ ~Asks(call.flags) THEN unasked \cup {call.chan} ELSE unasked
  /\ Returns("ok")
  /\ UNCHANGED oneTty

\* open() fails.
OpenFails ==
  /\ call.op = "open"
  /\ Returns("not_possible")
  /\ UNCHANGED <<fds, files, chans, oneTty, strayed, ages>>

\* The file is a terminal, for both directions or for none, and tcsetattr fails.
Refused == CanOpen /\ (Reads(call.flags) <=> Writes(call.flags)) /\ call.fn \in files

OpenGivesUp_Mutant ==     \* without close(fd)
  /\ Refused
  /\ fds' = [fds EXCEPT ![Lowest] = Leaked]
  /\ Returns("not_possible")
  /\ UNCHANGED <<files, chans, oneTty, strayed, ages>>

\* The descriptor is closed again.
OpenGivesUp ==
  /\ Refused
  /\ Returns("not_possible")
  /\ UNCHANGED <<fds, files, chans, oneTty, strayed, ages>>

\* _fixup_file_name fails: the descriptor stays open and no channel has it.
OpenLeaks ==
  /\ CanOpen
  /\ Makes
  /\ fds' = [fds EXCEPT ![Lowest] = Leaked]
  /\ Returns("failure")
  /\ UNCHANGED <<chans, oneTty, strayed, ages>>

\* Another process makes a file, at any time or while open runs,
OthersMake(n) ==
  /\ n \notin files
  /\ files' = files \cup {n}
  /\ UNCHANGED <<fds, chans, oneTty, call, strayed, ages>>

\* or removes one.  (One that replaces a file does both.)
OthersRemove(n) ==
  /\ n \in files
  /\ files' = files \ {n}
  /\ elders' = {c \in elders : chans[c].fn # n}
  /\ call' = IF ~Free /\ call.fn = n THEN [call EXCEPT !.old = FALSE] ELSE call
  /\ UNCHANGED <<fds, chans, oneTty, strayed, unasked>>

-----------------------------------------------------------------------------
(* pipe, and socket and accept *)

\* c reads what d writes.
Pipe(c, d) ==
  /\ Free /\ Unused(c) /\ Unused(d) /\ c # d
  /\ Cardinality(FreeFds) > 1
  /\ LET n == Lowest
         m == Min(FreeFds \ {n})
     IN  /\ fds' = [fds EXCEPT ![n] = c, ![m] = d]
         /\ chans' = [chans EXCEPT ![c] = [Closed EXCEPT !.rd = n],
                                   ![d] = [Closed EXCEPT !.wr = m]]
  /\ strayed' = strayed \ {c, d}
  /\ Returns("ok")
  /\ UNCHANGED <<files, oneTty, ages>>

\* c becomes a channel to a socket.
TakesSocket(c, new) ==
  /\ Free /\ Unused(c) /\ FreeFds # {}
  /\ fds' = [fds EXCEPT ![Lowest] = c]
  /\ chans' = [chans EXCEPT ![c] = [rd |-> Lowest, wr |-> Lowest, fn |-> NoName, new |-> new]]
  /\ strayed' = strayed \ {c}
  /\ Returns("ok")
  /\ UNCHANGED <<files, oneTty, ages>>

Socket(c) == TakesSocket(c, FALSE)

\* d may be a socket that listens.
Listens(d) == chans[d].fn = NoName /\ chans[d].rd # -1 /\ chans[d].rd = chans[d].wr
              /\ fds[chans[d].rd] # "free"

\* The channel that accept makes is new: abort unlinks /dev/socket.
Accept(d, c) == Listens(d) /\ TakesSocket(c, TRUE)

\* accept fails when it makes the name of the channel: the socket stays open.
AcceptLeaks(d) ==
  /\ Free /\ Listens(d) /\ FreeFds # {}
  /\ fds' = [fds EXCEPT ![Lowest] = Leaked]
  /\ Returns("failure")
  /\ UNCHANGED <<files, chans, oneTty, strayed, ages>>

-----------------------------------------------------------------------------
(* close, abort and close_all *)

Forgets(c) == [chans EXCEPT ![c] = Closed]

Releases(n) == fds' = [fds EXCEPT ![n] = "free"]

\* A stray close takes the descriptor of another channel.
Robbed(n, c) == {d \in Chan \ {c} : n \in Holds(d)}

\* close() succeeds.
Drops(c, n) ==
  /\ fds[n] # "free"
  /\ Releases(n)
  /\ chans' = Forgets(c)
  /\ strayed' = (strayed \ {c}) \cup Robbed(n, c)
  /\ unasked' = unasked \ {c}
  /\ Returns("ok")

\* close() fails: the system has released the descriptor all the same, and c keeps the number.
Keeps(c, n) ==
  /\ IF fds[n] = "free" THEN UNCHANGED <<fds>> ELSE Releases(n)
  /\ strayed' = strayed \cup {c} \cup Robbed(n, c)
  /\ Returns("not_possible")
  /\ UNCHANGED <<chans, files, ages>>

\* The descriptor of c; rd and wr are the same when there are two.
Number(c) == Max(Holds(c))

Close_Mutant(c) ==     \* the number is kept
  /\ Free /\ ~Unused(c)
  /\ fds[Number(c)] # "free"
  /\ Releases(Number(c))
  /\ Returns("ok")
  /\ UNCHANGED <<files, chans, oneTty, strayed, ages>>

Close(c) ==
  /\ Free /\ ~Unused(c)
  /\ \/ Drops(c, Number(c)) /\ elders' = elders \ {c} /\ UNCHANGED files
     \/ Keeps(c, Number(c))
  /\ UNCHANGED oneTty

\* The name is removed when c is new, whatever file it has by now.
Unlinks(c) ==
  /\ files' = IF chans[c].new THEN files \ {chans[c].fn} ELSE files
  /\ elders' = {d \in elders \ {c} : chans[c].new => chans[d].fn # chans[c].fn}

Abort(c) ==
  /\ Free /\ ~Unused(c)
  /\ \/ Drops(c, Number(c)) /\ Unlinks(c)
     \/ Keeps(c, Number(c))
  /\ UNCHANGED oneTty

\* Every descriptor from 3 on; the channels keep their numbers.
CloseAll ==
  /\ Free
  /\ fds' = [n \in Fd |-> IF n < 3 THEN fds[n] ELSE "free"]
  /\ strayed' = {c \in Chan : ~Unused(c)}
  /\ Returns("ok")
  /\ UNCHANGED <<files, chans, oneTty, ages>>

-----------------------------------------------------------------------------
(* cons: a process is made.  It changes nothing here, and the new one gets: *)

\* The channels to 0, 1 and 2 that primary_input, primary_output and error_output make; the
\* first two are one channel when both are the same terminal.
Standard == {"pri", "pro", "ero"}

Rd(c) ==
  CASE c = "pri" -> 0
    [] c = "pro" -> IF oneTty THEN 0 ELSE -1
    [] c = "ero" -> -1
    [] OTHER -> chans[c].rd

Wr(c) ==
  CASE c = "pri" -> IF oneTty THEN 1 ELSE -1
    [] c = "pro" -> 1
    [] c = "ero" -> 2
    [] OTHER -> chans[c].wr

\* dup2(n, m) in the table t.
Dup2(t, n, m) == [t EXCEPT ![m] = t[n]]

Given_Mutant(pri, pro, ero) ==     \* the error output first
  Dup2(Dup2(Dup2(fds, pri, 0), ero, 2), pro, 1)

\* The table of the child after its three dup2, one after the other.
Given(pri, pro, ero) == Dup2(Dup2(Dup2(fds, pri, 0), pro, 1), ero, 2)

AfterExec_Mutant(t, save) ==     \* the loop begins at 4
  [n \in Fd |-> IF n > 3 /\ save = {} THEN "free" ELSE t[n]]

\* Without channels to save every descriptor from 3 on is marked to be closed by exec.  With some
\* the mark is taken off theirs, and none is put on the others.
AfterExec(t, save) == [n \in Fd |-> IF n > 2 /\ save = {} THEN "free" ELSE t[n]]

\* The file that c was made for.
FileOf(c, n) == IF c \in Standard THEN Inherited[n + 1] ELSE c

\* cons accepts the three channels, and dup2 finds their descriptors open.
Accepted(pri, pro, ero) ==
  /\ Free
  /\ \A n \in {Rd(pri), Wr(pro), Wr(ero)} : n >= 0 /\ fds[n] # "free"

\* What the program in the new process finds open.
Child(pri, pro, ero, save) == AfterExec(Given(Rd(pri), Wr(pro), Wr(ero)), save)

-----------------------------------------------------------------------------

Opens ==
  \/ \E c \in Chan, n \in Name :
       \/ \E mode \in DOMAIN ModeFlags : OpenAsks(c, n, ModeFlags[mode])
       \/ \E flags \in AnyFlags : OpenAsks(c, n, flags)
  \/ Opened \/ OpenFails \/ OpenGivesUp \/ OpenLeaks

Next ==
  \/ Opens \/ CloseAll
  \/ \E n \in Name : OthersMake(n) \/ OthersRemove(n)
  \/ \E c, d \in Chan : Pipe(c, d) \/ Accept(d, c)
  \/ \E c \in Chan : Close(c) \/ Abort(c) \/ Socket(c) \/ AcceptLeaks(c)

Spec == Init /\ [][Next]_vars

-----------------------------------------------------------------------------
(* Properties *)

\* The descriptor of an open channel refers to the file the channel was opened for.  Only
\* close_all and a close that fails put an end to that, for the channels they leave with a
\* number, and a close by that number for the channel that has it now.
Owned == \A c \in Chan \ strayed : \A n \in Holds(c) : fds[n] = c

\* n is open and no channel can close it.
Lost(n) == fds[n] # "free" /\ \A c \in Chan : n \notin Holds(c)

\* The _open that runs neither reads nor writes: O_RDONLY with another flag.
Useless == call.op = "open" /\ ~Reads(call.flags) /\ ~Writes(call.flags)

\* A descriptor is lost only in a call that signals failure, or in an _open with O_RDONLY and
\* another flag: a call that returns or signals not_possible has given what it opened to a
\* channel, or closed it, and no channel forgets a number that is open.
Accounted ==
  [][\A n \in 3 .. MaxFd : Lost(n)' => Lost(n) \/ call' = Idle("failure") \/ Useless]_vars

Channels == Chan \cup Standard

\* lib/_job.spc, cons: "PRI, PRO, and ERO become primary input, output, and error output".  So
\* it is but for an ERO that is the old output: dup2 has replaced that by PRO.
Straight(pro, ero) == Wr(ero) = 1 => Wr(pro) = 1

ChildFiles ==
  \A pri, pro, ero \in Channels \ strayed :
    Accepted(pri, pro, ero) /\ Straight(pro, ero) =>
      LET child == Child(pri, pro, ero, {})
      IN  /\ child[0] = FileOf(pri, Rd(pri))
          /\ child[1] = FileOf(pro, Wr(pro))
          /\ child[2] = FileOf(ero, Wr(ero))

\* cons1, "SAVE is a list of _chans that should not be closed in the new process": they are not,
\* and with none to save nothing from 3 on is open.  (cons leaves those descriptors alone, too.)
ChildKeeps ==
  \A save \in SUBSET Chan :
    LET child == Child("pri", "pro", "ero", save)
        kept == {child[n] : n \in 3 .. MaxFd} \ {"free"}
    IN  /\ {c \in save \ strayed : ~Unused(c)} \subseteq kept
        /\ save = {} => kept = {}

\* A channel to the file n is closed.
Discards(c, n) == Holds(c) # {} /\ Unused(c)' /\ chans[c].fn = n

\* abort deletes no file that was there before its channel was opened, unless _open was not told
\* to make or truncate the file.  (A younger file need not be the channel's: another process may
\* have made it between access() and open(), or removed the channel's and made its own.)
AbortSpares ==
  [][\A n \in files \ files' :
       OthersRemove(n) \/ \E c \in Chan : Discards(c, n) /\ (c \notin elders \/ c \in unasked)]_vars

TypeOK ==
  /\ fds \in [Fd -> Chan \cup Range(Inherited) \cup {"free", Leaked}]
  /\ files \subseteq Name
  /\ chans \in [Chan -> [rd : Fd \cup {-1}, wr : Fd \cup {-1}, fn : Name \cup {NoName}, new : BOOLEAN]]
  /\ strayed \subseteq Chan /\ elders \subseteq Chan /\ unasked \subseteq Chan
=============================================================================
