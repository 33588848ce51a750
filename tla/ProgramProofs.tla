--------------------------- MODULE ProgramProofs ---------------------------
(***************************************************************************)
(* The safety properties of a program that uses signals, timers and jobs,  *)
(* for any signals, any number of jobs and any set of counted signals.     *)
(* The invariant has a part for each thing the calls share: the counts,    *)
(* the mask, the handler of SIGALRM, that of SIGCHLD, and the timer.       *)
(***************************************************************************)
EXTENDS Program, TLAPS

Ops == {"idle", "get", "sleep", "set_alarm", "pause", "cons"} \cup Waits

Calls == [op : Ops, pc : 0 .. 5, sig : Sig, num : Int]

ProcessOK ==
  /\ disp \in [Sig -> Handlers \cup {"dfl"}]
  /\ blocked \in SUBSET Sig
  /\ pending \in SUBSET Sig
  /\ killed \in SUBSET Sig
  /\ call \in Calls
  /\ omask \in SUBSET Sig
  /\ flags \in SUBSET Sig
  /\ ohands \in [Sig -> Handlers \cup {"dfl"}]
  /\ unsets \in SUBSET Sig
  /\ asked \in SUBSET Sig

\* The variables of the timer but the timer itself.
TimerTypes ==
  /\ itimer_flag \in BOOLEAN
  /\ nap \in SUBSET {"alarm was set", "own timer", "another signal"}
  /\ left \in SUBSET {ALRM}

\* What get has read was counted, and is counted until get clears it.
CountOK ==
  /\ cnts \in [Sig -> Nat]
  /\ owed \in [Sig -> Int]
  /\ CountsHonest
  /\ call.op = "get" => call.num <= cnts[call.sig]

\* The places of sleep where SIGALRM is blocked.
Blocks == call.op = "sleep" /\ call.pc \in {1, 2, 4}

\* Where the mask is, and where sleep and pause keep the one they will put back.
Pausing == call.op = "pause" /\ call.pc = 0

MaskOK ==
  /\ Blocks => blocked = {ALRM}
  /\ Pausing => blocked = {}
  /\ ~Blocks /\ ~Pausing => blocked = left
  /\ Blocks \/ Pausing => omask = left
  /\ call.op = "sleep" /\ call.pc = 3 => omask = {ALRM}

\* An alarm that may come finds a handler.
AlarmOK ==
  /\ ALRM \notin unsets /\ \/ timer # "off" \/ ALRM \in pending
                           \/ call.op = "sleep" \/ (call.op = "set_alarm" /\ call.num > 0)
     => disp[ALRM] # "dfl"
  /\ AlarmNeverKills

\* So does a death that may come.
DeathOK ==
  /\ kids \in [Kid -> {"none", "running", "stopped", "zombie", "reaped"}]
  /\ fresh \in SUBSET Kid
  /\ \A c \in fresh : kids[c] # "none"
  /\ CHLD \notin unsets /\ (call.op = "cons" \/ \E c \in Kid : kids[c] # "none")
     => disp[CHLD] # "dfl"
  /\ DeathNoticed

\* No sleep leaves its timer behind, so whatever has raised SIGALRM in a sleep is in nap.
TimerOK ==
  /\ timer \in {"off", "sleep", "alarm"}
  /\ timer = "sleep" => call.op = "sleep" /\ call.pc \in {2, 3, 4, 5}
  /\ call.op = "sleep" /\ timer = "alarm" => call.pc \in {0, 1} /\ nap # {}
  /\ call.op = "sleep" /\ ALRM \in pending /\ left = {} => nap # {}
  /\ call.op = "sleep" /\ call.pc \in {4, 5} => nap # {}

IInv == ProcessOK /\ TimerTypes /\ CountOK /\ MaskOK /\ AlarmOK /\ DeathOK /\ TimerOK
-----------------------------------------------------------------------------
(* What the helpers do *)

LEMMA CallTypes ==
  ASSUME call \in Calls
  PROVE  /\ call.op \in Ops /\ call.pc \in 0 .. 5 /\ call.sig \in Sig /\ call.num \in Int
BY DEF Calls

LEMMA Calling ==
  ASSUME NEW op \in Ops, NEW g \in Sig, NEW n \in Int, call' = Call(op, g, n)
  PROVE  call' \in Calls /\ call'.op = op /\ call'.pc = 0 /\ call'.sig = g /\ call'.num = n
BY DEF Call, Calls

LEMMA Moving ==
  ASSUME call \in Calls, NEW i \in 0 .. 5, call' = [call EXCEPT !.pc = i]
  PROVE  /\ call' \in Calls
         /\ call'.op = call.op /\ call'.pc = i /\ call'.sig = call.sig /\ call'.num = call.num
BY DEF Calls

LEMMA Returning ==
  ASSUME Returns
  PROVE  call' \in Calls /\ call'.op = "idle" /\ omask' = {}
<1>1. "idle" \in Ops /\ ALRM \in Sig /\ 0 \in Int  BY SigAssumption DEF Ops
<1>2. call' = Call("idle", ALRM, 0)  BY DEF Returns, Idle
<1>. QED  BY <1>1, <1>2, Calling DEF Returns

LEMMA Installing ==
  ASSUME disp \in [Sig -> Handlers \cup {"dfl"}], NEW g \in Sig,
         NEW h \in Handlers \cup {"dfl"}, Installs(g, h)
  PROVE  /\ disp' \in [Sig -> Handlers \cup {"dfl"}]
         /\ disp'[g] = h
         /\ \A f \in Sig \ {g} : disp'[f] = disp[f]
         /\ pending' \subseteq pending
         /\ h # "dfl" \/ g # CHLD => pending' = pending
         /\ \A f \in Sig \ {CHLD} : f \in pending' <=> f \in pending
BY DEF Installs

LEMMA Raising ==
  ASSUME pending \in SUBSET Sig, NEW g \in Sig, Raised(g)
  PROVE  /\ pending' \in SUBSET Sig
         /\ pending \subseteq pending' /\ pending' \subseteq pending \cup {g}
         /\ g # CHLD \/ disp[g] # "dfl" => g \in pending'
BY DEF Raised, Ignores

\* When the client calls, and no sleep has left the mask changed, nothing is pending.
LEMMA Calm ==
  ASSUME IInv, Free
  PROVE  call.op = "idle" /\ (left = {} => pending = {})
BY DEF IInv, MaskOK, Blocks, Pausing, Free, Runs, Due

-----------------------------------------------------------------------------
(* Steps *)

LEMMA SetOK ==
  ASSUME IInv, NEW g \in Counted, NEW hold \in BOOLEAN, Set(g, hold),
         UNCHANGED <<timerVars, jobVars>>
  PROVE  IInv'
<1>1. g \in Sig /\ "_signalOPhand" \in Handlers
  BY ProgramAssumption DEF Handlers
<1>2. /\ disp' \in [Sig -> Handlers \cup {"dfl"}] /\ disp'[g] # "dfl"
      /\ \A f \in Sig \ {g} : disp'[f] = disp[f]
      /\ pending' = pending
  BY <1>1, Installing DEF Set, IInv, ProcessOK
<1>3. /\ flags' \in SUBSET Sig /\ ohands' \in [Sig -> Handlers \cup {"dfl"}]
      /\ asked' \in SUBSET Sig
  BY <1>1 DEF Set, IInv, ProcessOK
<1>4. UNCHANGED <<blocked, killed, call, omask, cnts, owed, unsets, timer, itimer_flag, nap,
                  left, kids, fresh>>
  BY DEF Set, counting, thread, timerVars, jobVars
<1>5. ProcessOK'
  BY <1>1, <1>2, <1>3, <1>4, SigAssumption DEF IInv, ProcessOK
<1>6. TimerTypes'
  BY <1>1, <1>2, <1>3, <1>4, SigAssumption DEF IInv, TimerTypes
<1>7. CountOK'
  BY <1>1, <1>2, <1>3, <1>4, SigAssumption DEF IInv, ProcessOK, CountOK, CountsHonest
<1>8. MaskOK'
  BY <1>1, <1>2, <1>3, <1>4, SigAssumption DEF IInv, MaskOK, Blocks, Pausing
<1>9. AlarmOK'
  BY <1>1, <1>2, <1>3, <1>4, SigAssumption DEF IInv, ProcessOK, AlarmOK, AlarmNeverKills
<1>10. DeathOK'
  BY <1>1, <1>2, <1>3, <1>4, SigAssumption DEF IInv, ProcessOK, DeathOK, DeathNoticed
<1>11. TimerOK'
  BY <1>1, <1>2, <1>3, <1>4, SigAssumption DEF IInv, TimerOK
<1>. QED  BY <1>5, <1>6, <1>7, <1>8, <1>9, <1>10, <1>11 DEF IInv

LEMMA UnsetOK ==
  ASSUME IInv, NEW g \in Counted, Unset(g), UNCHANGED <<timerVars, jobVars>>
  PROVE  IInv'
<1>1. g \in Sig
  BY ProgramAssumption
<1>2. /\ disp' \in [Sig -> Handlers \cup {"dfl"}]
      /\ \A f \in Sig \ {g} : disp'[f] = disp[f]
      /\ pending' \subseteq pending /\ (g # CHLD => pending' = pending)
  BY <1>1, Installing DEF Unset, IInv, ProcessOK
<1>3. /\ flags' \in SUBSET Sig /\ unsets' = unsets \cup {g} /\ UNCHANGED ohands
      /\ asked' \in SUBSET Sig
  BY <1>1 DEF Unset, IInv, ProcessOK
<1>4. UNCHANGED <<blocked, killed, call, omask, cnts, owed, timer, itimer_flag, nap, left,
                  kids, fresh>>
  BY DEF Unset, counting, thread, timerVars, jobVars
<1>5. ProcessOK'
  BY <1>1, <1>2, <1>3, <1>4, SigAssumption DEF IInv, ProcessOK
<1>6. TimerTypes'
  BY <1>1, <1>2, <1>3, <1>4, SigAssumption DEF IInv, TimerTypes
<1>7. CountOK'
  BY <1>1, <1>2, <1>3, <1>4, SigAssumption DEF IInv, ProcessOK, CountOK, CountsHonest
<1>8. MaskOK'
  BY <1>1, <1>2, <1>3, <1>4, SigAssumption DEF IInv, MaskOK, Blocks, Pausing
<1>9. AlarmOK'
  BY <1>1, <1>2, <1>3, <1>4, SigAssumption DEF IInv, ProcessOK, AlarmOK, AlarmNeverKills
<1>10. DeathOK'
  BY <1>1, <1>2, <1>3, <1>4, SigAssumption DEF IInv, ProcessOK, DeathOK, DeathNoticed
<1>11. TimerOK'
  BY <1>1, <1>2, <1>3, <1>4, SigAssumption DEF IInv, TimerOK
<1>. QED  BY <1>5, <1>6, <1>7, <1>8, <1>9, <1>10, <1>11 DEF IInv

LEMMA GetOK ==
  ASSUME IInv, NEW g \in Counted, Get(g), UNCHANGED <<timerVars, jobVars>>
  PROVE  IInv'
<1>1. g \in Sig /\ cnts[g] \in Int /\ "get" \in Ops
  BY ProgramAssumption DEF IInv, CountOK, Ops
<1>2. /\ call' \in Calls /\ call'.op = "get" /\ call'.pc = 0 /\ call'.sig = g
      /\ call'.num = cnts[g]
      /\ UNCHANGED omask
  BY <1>1, Calling DEF Get, Begins
<1>3. UNCHANGED <<disp, blocked, pending, killed, cnts, owed, flags, ohands, unsets, asked, timer,
                  itimer_flag, nap, left, kids, fresh>>
  BY DEF Get, process, signalVars, counting, saved, timerVars, jobVars
<1>4. call.op = "idle"
  BY DEF Get, Free
<1>5. ProcessOK'
  BY <1>1, <1>2, <1>3, <1>4, SigAssumption DEF IInv, ProcessOK
<1>6. TimerTypes'
  BY <1>1, <1>2, <1>3, <1>4, SigAssumption DEF IInv, TimerTypes
<1>7. CountOK'
  BY <1>1, <1>2, <1>3, <1>4, SigAssumption DEF IInv, ProcessOK, CountOK, CountsHonest
<1>8. MaskOK'
  BY <1>1, <1>2, <1>3, <1>4, SigAssumption DEF IInv, MaskOK, Blocks, Pausing
<1>9. AlarmOK'
  BY <1>1, <1>2, <1>3, <1>4, SigAssumption DEF IInv, ProcessOK, AlarmOK, AlarmNeverKills
<1>10. DeathOK'
  BY <1>1, <1>2, <1>3, <1>4, SigAssumption DEF IInv, ProcessOK, DeathOK, DeathNoticed
<1>11. TimerOK'
  BY <1>1, <1>2, <1>3, <1>4, SigAssumption DEF IInv, TimerOK
<1>. QED  BY <1>5, <1>6, <1>7, <1>8, <1>9, <1>10, <1>11 DEF IInv

LEMMA GetClearsOK ==
  ASSUME IInv, GetClears, UNCHANGED <<timerVars, jobVars>>
  PROVE  IInv'
<1>1. /\ call' \in Calls /\ call'.op = "idle" /\ omask' = {}
  BY Returning DEF GetClears
<1>2. call.op = "get" /\ call.sig \in Sig /\ call.num \in Int
  BY CallTypes DEF GetClears, At, IInv, ProcessOK
<1>3. /\ cnts' \in [Sig -> Nat] /\ owed' \in [Sig -> Int]
      /\ cnts'[call.sig] = 0 /\ owed'[call.sig] = owed[call.sig] - call.num
      /\ \A f \in Sig \ {call.sig} : cnts'[f] = cnts[f] /\ owed'[f] = owed[f]
  BY <1>2 DEF GetClears, IInv, CountOK
<1>4. UNCHANGED <<disp, blocked, pending, killed, flags, ohands, unsets, asked, timer, itimer_flag,
                  nap, left, kids, fresh>>
  BY DEF GetClears, process, saved, timerVars, jobVars
<1>5. ProcessOK'
  BY <1>1, <1>2, <1>3, <1>4, SigAssumption DEF IInv, ProcessOK
<1>6. TimerTypes'
  BY <1>1, <1>2, <1>3, <1>4, SigAssumption DEF IInv, TimerTypes
<1>7. CountOK'
  BY <1>1, <1>2, <1>3, <1>4, SigAssumption DEF IInv, ProcessOK, CountOK, CountsHonest
<1>8. MaskOK'
  BY <1>1, <1>2, <1>3, <1>4, SigAssumption DEF IInv, MaskOK, Blocks, Pausing
<1>9. AlarmOK'
  BY <1>1, <1>2, <1>3, <1>4, SigAssumption DEF IInv, ProcessOK, AlarmOK, AlarmNeverKills
<1>10. DeathOK'
  BY <1>1, <1>2, <1>3, <1>4, SigAssumption DEF IInv, ProcessOK, DeathOK, DeathNoticed
<1>11. TimerOK'
  BY <1>1, <1>2, <1>3, <1>4, SigAssumption DEF IInv, TimerOK
<1>. QED  BY <1>5, <1>6, <1>7, <1>8, <1>9, <1>10, <1>11 DEF IInv

LEMMA PauseOK ==
  ASSUME IInv, Pause, UNCHANGED <<signalVars, jobVars>>
  PROVE  IInv'
<1>1. "pause" \in Ops /\ ALRM \in Sig /\ 0 \in Int
  BY SigAssumption DEF Ops
<1>2. call' \in Calls /\ call'.op = "pause" /\ call'.pc = 0 /\ call'.num = 0 /\ call.op = "idle"
  BY <1>1, Calling DEF Pause, Free
<1>3. blocked' = {} /\ omask' = blocked
  BY DEF Pause, Swaps
<1>4. UNCHANGED <<disp, pending, killed, cnts, owed, flags, ohands, unsets, asked, timer, itimer_flag,
                  nap, left, kids, fresh>>
  BY DEF Pause, signalVars, counting, saved, timerVars, jobVars
<1>5. ProcessOK'
  BY <1>1, <1>2, <1>3, <1>4, SigAssumption DEF IInv, ProcessOK
<1>6. TimerTypes'
  BY <1>1, <1>2, <1>3, <1>4, SigAssumption DEF IInv, TimerTypes
<1>7. CountOK'
  BY <1>1, <1>2, <1>3, <1>4, SigAssumption DEF IInv, ProcessOK, CountOK, CountsHonest
<1>8. MaskOK'
  BY <1>1, <1>2, <1>3, <1>4, SigAssumption DEF IInv, MaskOK, Blocks, Pausing
<1>9. AlarmOK'
  BY <1>1, <1>2, <1>3, <1>4, SigAssumption DEF IInv, ProcessOK, AlarmOK, AlarmNeverKills
<1>10. DeathOK'
  BY <1>1, <1>2, <1>3, <1>4, SigAssumption DEF IInv, ProcessOK, DeathOK, DeathNoticed
<1>11. TimerOK'
  BY <1>1, <1>2, <1>3, <1>4, SigAssumption DEF IInv, TimerOK
<1>. QED  BY <1>5, <1>6, <1>7, <1>8, <1>9, <1>10, <1>11 DEF IInv

LEMMA SleepOK ==
  ASSUME IInv, NEW num \in Int, Sleep(num), UNCHANGED <<signalVars, jobVars>>
  PROVE  IInv'
<1>1. "sleep" \in Ops /\ ALRM \in Sig /\ "sleep_alarm" \in Handlers
  BY SigAssumption DEF Ops, Handlers
<1>2. /\ call' \in Calls /\ call'.op = "sleep" /\ call'.pc = 0 /\ call'.sig = ALRM
      /\ call'.num = num
      /\ UNCHANGED omask
  BY <1>1, Calling DEF Sleep, Begins
<1>3. disp \in [Sig -> Handlers \cup {"dfl"}] /\ Installs(ALRM, "sleep_alarm")
  BY DEF Sleep, IInv, ProcessOK
<1>4. /\ disp' \in [Sig -> Handlers \cup {"dfl"}] /\ disp'[ALRM] # "dfl"
      /\ \A f \in Sig \ {ALRM} : disp'[f] = disp[f]
      /\ pending' = pending
  BY <1>1, <1>3, Installing
<1>5. timer = "alarm" => nap' # {}
  BY DEF Sleep
<1>6. nap' \in SUBSET {"alarm was set", "own timer", "another signal"}
  BY DEF Sleep
<1>7. UNCHANGED <<blocked, killed, timer, itimer_flag, left, cnts, owed, flags, ohands, unsets, asked,
                  kids, fresh>>
  BY DEF Sleep, signalVars, counting, saved, jobVars
<1>8. call.op = "idle" /\ (left = {} => pending = {})
  BY Calm DEF Sleep
<1>9. ProcessOK'
  BY <1>1, <1>2, <1>4, <1>7, <1>8, SigAssumption DEF IInv, ProcessOK
<1>10. TimerTypes'
  BY <1>6, <1>7 DEF IInv, TimerTypes
<1>11. CountOK'
  BY <1>1, <1>2, <1>4, <1>7, <1>8, SigAssumption DEF IInv, ProcessOK, CountOK, CountsHonest
<1>12. MaskOK'
  BY <1>2, <1>7, <1>8 DEF IInv, MaskOK, Blocks, Pausing
<1>13. AlarmOK'
  BY <1>1, <1>2, <1>4, <1>7, <1>8, SigAssumption DEF IInv, ProcessOK, AlarmOK, AlarmNeverKills
<1>14. DeathOK'
  BY <1>1, <1>2, <1>4, <1>7, <1>8, SigAssumption DEF IInv, ProcessOK, DeathOK, DeathNoticed
<1>15. TimerOK'
  BY <1>2, <1>4, <1>5, <1>7, <1>8 DEF IInv, TimerOK
<1>. QED  BY <1>9, <1>10, <1>11, <1>12, <1>13, <1>14, <1>15 DEF IInv

LEMMA SetAlarmOK ==
  ASSUME IInv, NEW num \in Int, SetAlarm(num), UNCHANGED <<signalVars, jobVars>>
  PROVE  IInv'
<1>1. "set_alarm" \in Ops /\ ALRM \in Sig /\ "clu_alarm" \in Handlers
  BY SigAssumption DEF Ops, Handlers
<1>2. /\ call' \in Calls /\ call'.op = "set_alarm" /\ call'.pc = 0 /\ call'.sig = ALRM
      /\ call'.num = num
      /\ UNCHANGED omask
  BY <1>1, Calling DEF SetAlarm, Begins
<1>3. /\ disp' \in [Sig -> Handlers \cup {"dfl"}]
      /\ num > 0 => disp'[ALRM] # "dfl"
      /\ num > 0 \/ UNCHANGED disp
      /\ \A f \in Sig \ {ALRM} : disp'[f] = disp[f]
      /\ pending' = pending
  BY <1>1, Installing DEF SetAlarm, IInv, ProcessOK
<1>4. UNCHANGED <<blocked, killed, timer, itimer_flag, nap, left, cnts, owed, flags, ohands,
                  unsets, asked, kids, fresh>>
  BY DEF SetAlarm, signalVars, counting, saved, timerVars, jobVars
<1>5. call.op = "idle"
  BY DEF SetAlarm, Free
<1>6. ProcessOK'
  BY <1>1, <1>2, <1>3, <1>4, <1>5, SigAssumption DEF IInv, ProcessOK
<1>7. TimerTypes'
  BY <1>1, <1>2, <1>3, <1>4, <1>5, SigAssumption DEF IInv, TimerTypes
<1>8. CountOK'
  BY <1>1, <1>2, <1>3, <1>4, <1>5, SigAssumption DEF IInv, ProcessOK, CountOK, CountsHonest
<1>9. MaskOK'
  BY <1>1, <1>2, <1>3, <1>4, <1>5, SigAssumption DEF IInv, MaskOK, Blocks, Pausing
<1>10. AlarmOK'
  BY <1>1, <1>2, <1>3, <1>4, <1>5, SigAssumption DEF IInv, ProcessOK, AlarmOK, AlarmNeverKills
<1>11. DeathOK'
  BY <1>1, <1>2, <1>3, <1>4, <1>5, SigAssumption DEF IInv, ProcessOK, DeathOK, DeathNoticed
<1>12. TimerOK'
  BY <1>1, <1>2, <1>3, <1>4, <1>5, SigAssumption DEF IInv, TimerOK
<1>. QED  BY <1>6, <1>7, <1>8, <1>9, <1>10, <1>11, <1>12 DEF IInv

LEMMA SleepBlocksOK ==
  ASSUME IInv, SleepBlocks, UNCHANGED <<signalVars, jobVars>>
  PROVE  IInv'
<1>1. call \in Calls /\ call.op \in Ops /\ call.pc \in 0 .. 5 /\ call.num \in Int
  BY CallTypes DEF IInv, ProcessOK
<1>2. /\ call' \in Calls /\ call'.op = call.op /\ call'.pc = 1 /\ call'.sig = call.sig
      /\ call'.num = call.num
  BY <1>1, Moving DEF SleepBlocks
<1>3. call.op = "sleep" /\ call.pc = 0 /\ omask' = blocked /\ blocked' = {ALRM}
  BY DEF SleepBlocks, At, IInv, MaskOK, Blocks, Pausing, TimerTypes
<1>4. UNCHANGED <<disp, pending, killed, timer, itimer_flag, nap, left, cnts, owed, flags,
                  ohands, unsets, asked, kids, fresh>>
  BY DEF SleepBlocks, signalVars, counting, saved, timerVars, jobVars
<1>5. ProcessOK'
  BY <1>1, <1>2, <1>3, <1>4, SigAssumption DEF IInv, ProcessOK
<1>6. TimerTypes'
  BY <1>1, <1>2, <1>3, <1>4, SigAssumption DEF IInv, TimerTypes
<1>7. CountOK'
  BY <1>1, <1>2, <1>3, <1>4, SigAssumption DEF IInv, ProcessOK, CountOK, CountsHonest
<1>8. MaskOK'
  BY <1>1, <1>2, <1>3, <1>4, SigAssumption DEF IInv, MaskOK, Blocks, Pausing
<1>9. AlarmOK'
  BY <1>1, <1>2, <1>3, <1>4, SigAssumption DEF IInv, ProcessOK, AlarmOK, AlarmNeverKills
<1>10. DeathOK'
  BY <1>1, <1>2, <1>3, <1>4, SigAssumption DEF IInv, ProcessOK, DeathOK, DeathNoticed
<1>11. TimerOK'
  BY <1>1, <1>2, <1>3, <1>4, SigAssumption DEF IInv, TimerOK
<1>. QED  BY <1>5, <1>6, <1>7, <1>8, <1>9, <1>10, <1>11 DEF IInv

LEMMA SleepArmsOK ==
  ASSUME IInv, SleepArms, UNCHANGED <<signalVars, jobVars>>
  PROVE  IInv'
<1>1. call \in Calls /\ call.op \in Ops /\ call.pc \in 0 .. 5 /\ call.num \in Int
  BY CallTypes DEF IInv, ProcessOK
<1>2. call.op = "sleep" /\ call.pc = 1
  BY DEF SleepArms, At
<1>3. \/ /\ call' \in Calls /\ call'.op = call.op /\ call'.pc = 2 /\ call'.sig = call.sig
         /\ call'.num = call.num
         /\ timer' = "sleep" /\ UNCHANGED <<omask, nap, left>>
      \/ /\ call' \in Calls /\ call'.op = "idle" /\ omask' = {}
         /\ left' = {ALRM} /\ nap' = {} /\ UNCHANGED timer
  BY <1>1, Moving, Returning DEF SleepArms, Goto
<1>4. UNCHANGED <<disp, blocked, pending, killed, itimer_flag, cnts, owed, flags, ohands,
                  unsets, asked, kids, fresh>>
  BY DEF SleepArms, process, signalVars, counting, saved, jobVars
<1>5. ProcessOK'
  BY <1>1, <1>2, <1>3, <1>4, SigAssumption DEF IInv, ProcessOK
<1>6. TimerTypes'
  BY <1>1, <1>2, <1>3, <1>4, SigAssumption DEF IInv, TimerTypes
<1>7. CountOK'
  BY <1>1, <1>2, <1>3, <1>4, SigAssumption DEF IInv, ProcessOK, CountOK, CountsHonest
<1>8. MaskOK'
  BY <1>1, <1>2, <1>3, <1>4, SigAssumption DEF IInv, MaskOK, Blocks, Pausing
<1>9. AlarmOK'
  BY <1>1, <1>2, <1>3, <1>4, SigAssumption DEF IInv, ProcessOK, AlarmOK, AlarmNeverKills
<1>10. DeathOK'
  BY <1>1, <1>2, <1>3, <1>4, SigAssumption DEF IInv, ProcessOK, DeathOK, DeathNoticed
<1>11. TimerOK'
  BY <1>1, <1>2, <1>3, <1>4, SigAssumption DEF IInv, TimerOK
<1>. QED  BY <1>5, <1>6, <1>7, <1>8, <1>9, <1>10, <1>11 DEF IInv

LEMMA SleepPausesOK ==
  ASSUME IInv, SleepPauses, UNCHANGED <<signalVars, jobVars>>
  PROVE  IInv'
<1>1. call \in Calls /\ call.op \in Ops /\ call.pc \in 0 .. 5 /\ call.num \in Int
  BY CallTypes DEF IInv, ProcessOK
<1>2. /\ call' \in Calls /\ call'.op = call.op /\ call'.pc = 3 /\ call'.sig = call.sig
      /\ call'.num = call.num
  BY <1>1, Moving DEF SleepPauses
<1>3. call.op = "sleep" /\ call.pc = 2 /\ blocked' = omask /\ omask' = blocked
  BY DEF SleepPauses, Swaps, At
<1>4. UNCHANGED <<disp, pending, killed, timer, itimer_flag, nap, left, cnts, owed, flags,
                  ohands, unsets, asked, kids, fresh>>
  BY DEF SleepPauses, signalVars, counting, saved, timerVars, jobVars
<1>5. ProcessOK'
  BY <1>1, <1>2, <1>3, <1>4, SigAssumption DEF IInv, ProcessOK
<1>6. TimerTypes'
  BY <1>1, <1>2, <1>3, <1>4, SigAssumption DEF IInv, TimerTypes
<1>7. CountOK'
  BY <1>1, <1>2, <1>3, <1>4, SigAssumption DEF IInv, ProcessOK, CountOK, CountsHonest
<1>8. MaskOK'
  BY <1>1, <1>2, <1>3, <1>4, SigAssumption DEF IInv, MaskOK, Blocks, Pausing
<1>9. AlarmOK'
  BY <1>1, <1>2, <1>3, <1>4, SigAssumption DEF IInv, ProcessOK, AlarmOK, AlarmNeverKills
<1>10. DeathOK'
  BY <1>1, <1>2, <1>3, <1>4, SigAssumption DEF IInv, ProcessOK, DeathOK, DeathNoticed
<1>11. TimerOK'
  BY <1>1, <1>2, <1>3, <1>4, SigAssumption DEF IInv, TimerOK
<1>. QED  BY <1>5, <1>6, <1>7, <1>8, <1>9, <1>10, <1>11 DEF IInv

LEMMA SleepUnblocksOK ==
  ASSUME IInv, SleepUnblocks, UNCHANGED <<signalVars, jobVars>>
  PROVE  IInv'
<1>1. call \in Calls /\ call.op \in Ops /\ call.pc \in 0 .. 5 /\ call.num \in Int
  BY CallTypes DEF IInv, ProcessOK
<1>2. /\ call' \in Calls /\ call'.op = call.op /\ call'.pc = 5 /\ call'.sig = call.sig
      /\ call'.num = call.num /\ UNCHANGED omask
  BY <1>1, Moving DEF SleepUnblocks, Goto
<1>3. call.op = "sleep" /\ call.pc = 4 /\ blocked' = omask
  BY DEF SleepUnblocks, At
<1>4. UNCHANGED <<disp, pending, killed, timer, itimer_flag, nap, left, cnts, owed, flags,
                  ohands, unsets, asked, kids, fresh>>
  BY DEF SleepUnblocks, signalVars, counting, saved, timerVars, jobVars
<1>5. ProcessOK'
  BY <1>1, <1>2, <1>3, <1>4, SigAssumption DEF IInv, ProcessOK
<1>6. TimerTypes'
  BY <1>1, <1>2, <1>3, <1>4, SigAssumption DEF IInv, TimerTypes
<1>7. CountOK'
  BY <1>1, <1>2, <1>3, <1>4, SigAssumption DEF IInv, ProcessOK, CountOK, CountsHonest
<1>8. MaskOK'
  BY <1>1, <1>2, <1>3, <1>4, SigAssumption DEF IInv, MaskOK, Blocks, Pausing
<1>9. AlarmOK'
  BY <1>1, <1>2, <1>3, <1>4, SigAssumption DEF IInv, ProcessOK, AlarmOK, AlarmNeverKills
<1>10. DeathOK'
  BY <1>1, <1>2, <1>3, <1>4, SigAssumption DEF IInv, ProcessOK, DeathOK, DeathNoticed
<1>11. TimerOK'
  BY <1>1, <1>2, <1>3, <1>4, SigAssumption DEF IInv, TimerOK
<1>. QED  BY <1>5, <1>6, <1>7, <1>8, <1>9, <1>10, <1>11 DEF IInv

LEMMA SleepDisarmsOK ==
  ASSUME IInv, SleepDisarms, UNCHANGED <<signalVars, jobVars>>
  PROVE  IInv'
<1>1. /\ call' \in Calls /\ call'.op = "idle" /\ omask' = {}
  BY Returning DEF SleepDisarms
<1>2. call.op = "sleep" /\ call.pc = 5 /\ timer' = "off" /\ nap' = {}
  BY DEF SleepDisarms, At
<1>3. UNCHANGED <<disp, blocked, pending, killed, itimer_flag, left, cnts, owed, flags, ohands,
                  unsets, asked, kids, fresh>>
  BY DEF SleepDisarms, process, signalVars, counting, saved, jobVars
<1>4. ProcessOK'
  BY <1>1, <1>2, <1>3, SigAssumption DEF IInv, ProcessOK
<1>5. TimerTypes'
  BY <1>1, <1>2, <1>3, SigAssumption DEF IInv, TimerTypes
<1>6. CountOK'
  BY <1>1, <1>2, <1>3, SigAssumption DEF IInv, ProcessOK, CountOK, CountsHonest
<1>7. MaskOK'
  BY <1>1, <1>2, <1>3, SigAssumption DEF IInv, MaskOK, Blocks, Pausing
<1>8. AlarmOK'
  BY <1>1, <1>2, <1>3, SigAssumption DEF IInv, ProcessOK, AlarmOK, AlarmNeverKills
<1>9. DeathOK'
  BY <1>1, <1>2, <1>3, SigAssumption DEF IInv, ProcessOK, DeathOK, DeathNoticed
<1>10. TimerOK'
  BY <1>1, <1>2, <1>3, SigAssumption DEF IInv, TimerOK
<1>. QED  BY <1>4, <1>5, <1>6, <1>7, <1>8, <1>9, <1>10 DEF IInv

LEMMA SetAlarmMovesOK ==
  ASSUME IInv, SetAlarmReads \/ SetAlarmClears, UNCHANGED <<signalVars, jobVars>>
  PROVE  IInv'
<1>1. call \in Calls /\ call.op \in Ops /\ call.pc \in 0 .. 5 /\ call.num \in Int
  BY CallTypes DEF IInv, ProcessOK
<1>2. call.op = "set_alarm" /\ \E i \in 1 .. 2 :
        /\ call' \in Calls /\ call'.op = call.op /\ call'.pc = i /\ call'.sig = call.sig
        /\ call'.num = call.num /\ UNCHANGED omask
  BY <1>1, Moving DEF SetAlarmReads, SetAlarmClears, Goto, At
<1>3. itimer_flag' \in {itimer_flag, FALSE}
  BY DEF SetAlarmReads, SetAlarmClears, timerVars
<1>4. UNCHANGED <<disp, blocked, pending, killed, timer, nap, left, cnts, owed, flags, ohands,
                  unsets, asked, kids, fresh>>
  BY DEF SetAlarmReads, SetAlarmClears, process, signalVars, counting, saved, timerVars, jobVars
<1>5. ProcessOK'
  BY <1>1, <1>2, <1>3, <1>4, SigAssumption DEF IInv, ProcessOK
<1>6. TimerTypes'
  BY <1>1, <1>2, <1>3, <1>4, SigAssumption DEF IInv, TimerTypes
<1>7. CountOK'
  BY <1>1, <1>2, <1>3, <1>4, SigAssumption DEF IInv, ProcessOK, CountOK, CountsHonest
<1>8. MaskOK'
  BY <1>1, <1>2, <1>3, <1>4, SigAssumption DEF IInv, MaskOK, Blocks, Pausing
<1>9. AlarmOK'
  BY <1>1, <1>2, <1>3, <1>4, SigAssumption DEF IInv, ProcessOK, AlarmOK, AlarmNeverKills
<1>10. DeathOK'
  BY <1>1, <1>2, <1>3, <1>4, SigAssumption DEF IInv, ProcessOK, DeathOK, DeathNoticed
<1>11. TimerOK'
  BY <1>1, <1>2, <1>3, <1>4, SigAssumption DEF IInv, TimerOK
<1>. QED  BY <1>5, <1>6, <1>7, <1>8, <1>9, <1>10, <1>11 DEF IInv

LEMMA SetAlarmArmsOK ==
  ASSUME IInv, SetAlarmArms, UNCHANGED <<signalVars, jobVars>>
  PROVE  IInv'
<1>1. call \in Calls /\ call.op \in Ops /\ call.pc \in 0 .. 5 /\ call.num \in Int
  BY CallTypes DEF IInv, ProcessOK
<1>2. /\ call' \in Calls /\ call'.op = "idle" /\ omask' = {} /\ call.op = "set_alarm"
  BY Returning DEF SetAlarmArms, At
<1>3. \/ timer' = "alarm" /\ call.num > 0
      \/ timer' = "off"
      \/ UNCHANGED timer
  BY <1>1 DEF SetAlarmArms
<1>4. UNCHANGED <<disp, blocked, pending, killed, itimer_flag, nap, left, cnts, owed, flags,
                  ohands, unsets, asked, kids, fresh>>
  BY DEF SetAlarmArms, process, signalVars, counting, saved, jobVars
<1>5. ProcessOK'
  BY <1>1, <1>2, <1>3, <1>4, SigAssumption DEF IInv, ProcessOK
<1>6. TimerTypes'
  BY <1>1, <1>2, <1>3, <1>4, SigAssumption DEF IInv, TimerTypes
<1>7. CountOK'
  BY <1>1, <1>2, <1>3, <1>4, SigAssumption DEF IInv, ProcessOK, CountOK, CountsHonest
<1>8. MaskOK'
  BY <1>1, <1>2, <1>3, <1>4, SigAssumption DEF IInv, MaskOK, Blocks, Pausing
<1>9. AlarmOK'
  BY <1>1, <1>2, <1>3, <1>4, SigAssumption DEF IInv, ProcessOK, AlarmOK, AlarmNeverKills
<1>10. DeathOK'
  BY <1>1, <1>2, <1>3, <1>4, SigAssumption DEF IInv, ProcessOK, DeathOK, DeathNoticed
<1>11. TimerOK'
  BY <1>1, <1>2, <1>3, <1>4, SigAssumption DEF IInv, TimerOK
<1>. QED  BY <1>5, <1>6, <1>7, <1>8, <1>9, <1>10, <1>11 DEF IInv

LEMMA PauseEndsOK ==
  ASSUME IInv, PauseEnds, UNCHANGED <<signalVars, jobVars>>
  PROVE  IInv'
<1>1. /\ call' \in Calls /\ call'.op = "idle" /\ omask' = {} /\ call.op = "pause" /\ call.pc = 1
  BY Returning DEF PauseEnds, At
<1>2. UNCHANGED <<disp, blocked, pending, killed, timer, itimer_flag, nap, left, cnts, owed,
                  flags, ohands, unsets, asked, kids, fresh>>
  BY DEF PauseEnds, process, signalVars, counting, saved, timerVars, jobVars
<1>3. ProcessOK'
  BY <1>1, <1>2, SigAssumption DEF IInv, ProcessOK
<1>4. TimerTypes'
  BY <1>1, <1>2, SigAssumption DEF IInv, TimerTypes
<1>5. CountOK'
  BY <1>1, <1>2, SigAssumption DEF IInv, ProcessOK, CountOK, CountsHonest
<1>6. MaskOK'
  BY <1>1, <1>2, SigAssumption DEF IInv, MaskOK, Blocks, Pausing
<1>7. AlarmOK'
  BY <1>1, <1>2, SigAssumption DEF IInv, ProcessOK, AlarmOK, AlarmNeverKills
<1>8. DeathOK'
  BY <1>1, <1>2, SigAssumption DEF IInv, ProcessOK, DeathOK, DeathNoticed
<1>9. TimerOK'
  BY <1>1, <1>2, SigAssumption DEF IInv, TimerOK
<1>. QED  BY <1>3, <1>4, <1>5, <1>6, <1>7, <1>8, <1>9 DEF IInv

LEMMA ConsOK ==
  ASSUME IInv, Cons, UNCHANGED <<signalVars, timerVars>>
  PROVE  IInv'
<1>1. "cons" \in Ops /\ CHLD \in Sig /\ 0 \in Int /\ "_jobOPOPdeath" \in Handlers
  BY SigAssumption DEF Ops, Handlers
<1>2. /\ call' \in Calls /\ call'.op = "cons" /\ call'.pc = 0 /\ call'.sig = CHLD /\ call'.num = 0
      /\ UNCHANGED omask
  BY <1>1, Calling DEF Cons, Begins
<1>3. /\ disp' \in [Sig -> Handlers \cup {"dfl"}] /\ disp'[CHLD] # "dfl"
      /\ \A f \in Sig \ {CHLD} : disp'[f] = disp[f]
      /\ pending' = pending
  BY <1>1, Installing DEF Cons, IInv, ProcessOK
<1>4. UNCHANGED <<blocked, killed, kids, fresh, cnts, owed, flags, ohands, unsets, asked, timer,
                  itimer_flag, nap, left>> /\ call.op = "idle"
  BY DEF Cons, Free, signalVars, counting, saved, timerVars, jobVars
<1>5. ProcessOK'
  BY <1>1, <1>2, <1>3, <1>4, SigAssumption DEF IInv, ProcessOK
<1>6. TimerTypes'
  BY <1>1, <1>2, <1>3, <1>4, SigAssumption DEF IInv, TimerTypes
<1>7. CountOK'
  BY <1>1, <1>2, <1>3, <1>4, SigAssumption DEF IInv, ProcessOK, CountOK, CountsHonest
<1>8. MaskOK'
  BY <1>1, <1>2, <1>3, <1>4, SigAssumption DEF IInv, MaskOK, Blocks, Pausing
<1>9. AlarmOK'
  BY <1>1, <1>2, <1>3, <1>4, SigAssumption DEF IInv, ProcessOK, AlarmOK, AlarmNeverKills
<1>10. DeathOK'
  BY <1>1, <1>2, <1>3, <1>4, SigAssumption DEF IInv, ProcessOK, DeathOK, DeathNoticed
<1>11. TimerOK'
  BY <1>1, <1>2, <1>3, <1>4, SigAssumption DEF IInv, TimerOK
<1>. QED  BY <1>5, <1>6, <1>7, <1>8, <1>9, <1>10, <1>11 DEF IInv

LEMMA JobSigOK ==
  ASSUME IInv, NEW c \in Kid, JobSig(c), UNCHANGED <<signalVars, timerVars>>
  PROVE  IInv'
<1>1. CHLD \in Sig /\ Raised(CHLD) /\ kids[c] # "none"
  BY SigAssumption DEF JobSig, Becomes, Alive
<1>2. /\ pending' \in SUBSET Sig
      /\ pending \subseteq pending' /\ pending' \subseteq pending \cup {CHLD}
      /\ disp[CHLD] # "dfl" => CHLD \in pending'
  BY <1>1, Raising DEF IInv, ProcessOK
<1>3. /\ \E state \in {"stopped", "running", "zombie"} : kids' = [kids EXCEPT ![c] = state]
      /\ fresh' = fresh \/ fresh' = fresh \cup {c}
  BY DEF JobSig, Becomes
<1>4. UNCHANGED <<disp, blocked, killed, call, omask, cnts, owed, flags, ohands, unsets, asked, timer,
                  itimer_flag, nap, left>> /\ call.op = "idle"
  BY DEF JobSig, Free, thread, signalVars, counting, saved, timerVars
<1>5. ProcessOK'
  BY <1>1, <1>2, <1>3, <1>4, SigAssumption DEF IInv, ProcessOK
<1>6. TimerTypes'
  BY <1>1, <1>2, <1>3, <1>4, SigAssumption DEF IInv, TimerTypes
<1>7. CountOK'
  BY <1>1, <1>2, <1>3, <1>4, SigAssumption DEF IInv, ProcessOK, CountOK, CountsHonest
<1>8. MaskOK'
  BY <1>1, <1>2, <1>3, <1>4, SigAssumption DEF IInv, MaskOK, Blocks, Pausing
<1>9. AlarmOK'
  BY <1>1, <1>2, <1>3, <1>4, SigAssumption DEF IInv, ProcessOK, AlarmOK, AlarmNeverKills
<1>10. DeathOK'
  BY <1>1, <1>2, <1>3, <1>4, SigAssumption DEF IInv, ProcessOK, DeathOK, DeathNoticed
<1>11. TimerOK'
  BY <1>1, <1>2, <1>3, <1>4, SigAssumption DEF IInv, TimerOK
<1>. QED  BY <1>5, <1>6, <1>7, <1>8, <1>9, <1>10, <1>11 DEF IInv

LEMMA WaitOK ==
  ASSUME IInv, NEW op \in Waits, NEW c \in Kid, Wait(op, c), UNCHANGED <<signalVars, timerVars>>
  PROVE  IInv'
<1>1. op \in Ops /\ op \notin {"idle", "get", "sleep", "set_alarm", "pause", "cons"}
      /\ CHLD \in Sig /\ c \in Int
  BY SigAssumption, KidAssumption DEF Ops, Waits
<1>2. /\ call' \in Calls /\ call'.op = op /\ call'.pc = 0 /\ call'.sig = CHLD /\ call'.num = c
      /\ UNCHANGED omask
  BY <1>1, Calling DEF Wait, Begins
<1>3. UNCHANGED <<disp, blocked, pending, killed, kids, fresh, cnts, owed, flags, ohands,
                  unsets, asked, timer, itimer_flag, nap, left>> /\ call.op = "idle"
  BY DEF Wait, Free, process, jobVars, signalVars, counting, saved, timerVars
<1>4. ProcessOK'
  BY <1>1, <1>2, <1>3, SigAssumption DEF IInv, ProcessOK
<1>5. TimerTypes'
  BY <1>1, <1>2, <1>3, SigAssumption DEF IInv, TimerTypes
<1>6. CountOK'
  BY <1>1, <1>2, <1>3, SigAssumption DEF IInv, ProcessOK, CountOK, CountsHonest
<1>7. MaskOK'
  BY <1>1, <1>2, <1>3, SigAssumption DEF IInv, MaskOK, Blocks, Pausing
<1>8. AlarmOK'
  BY <1>1, <1>2, <1>3, SigAssumption DEF IInv, ProcessOK, AlarmOK, AlarmNeverKills
<1>9. DeathOK'
  BY <1>1, <1>2, <1>3, SigAssumption DEF IInv, ProcessOK, DeathOK, DeathNoticed
<1>10. TimerOK'
  BY <1>1, <1>2, <1>3, SigAssumption DEF IInv, TimerOK
<1>. QED  BY <1>4, <1>5, <1>6, <1>7, <1>8, <1>9, <1>10 DEF IInv

LEMMA CallEndsOK ==
  ASSUME IInv, ConsFails \/ WaitFails \/ NothingYet, UNCHANGED <<signalVars, timerVars>>
  PROVE  IInv'
<1>1. /\ call' \in Calls /\ call'.op = "idle" /\ omask' = {}
  BY Returning DEF ConsFails, WaitFails, NothingYet
<1>2. call.op = "cons" \/ call.op \in Waits
  BY DEF ConsFails, WaitFails, NothingYet, InWait, At
<1>3. call.op \notin {"get", "sleep", "set_alarm", "pause"}
  BY <1>2 DEF Waits
<1>4. UNCHANGED <<disp, blocked, pending, killed, kids, fresh, cnts, owed, flags, ohands,
                  unsets, asked, timer, itimer_flag, nap, left>>
  BY DEF ConsFails, WaitFails, NothingYet, process, jobVars, signalVars, counting, saved,
  timerVars
<1>5. ProcessOK'
  BY <1>1, <1>3, <1>4, SigAssumption DEF IInv, ProcessOK
<1>6. TimerTypes'
  BY <1>1, <1>3, <1>4, SigAssumption DEF IInv, TimerTypes
<1>7. CountOK'
  BY <1>1, <1>3, <1>4, SigAssumption DEF IInv, ProcessOK, CountOK, CountsHonest
<1>8. MaskOK'
  BY <1>1, <1>3, <1>4, SigAssumption DEF IInv, MaskOK, Blocks, Pausing
<1>9. AlarmOK'
  BY <1>1, <1>3, <1>4, SigAssumption DEF IInv, ProcessOK, AlarmOK, AlarmNeverKills
<1>10. DeathOK'
  BY <1>1, <1>3, <1>4, SigAssumption DEF IInv, ProcessOK, DeathOK, DeathNoticed
<1>11. TimerOK'
  BY <1>1, <1>3, <1>4, SigAssumption DEF IInv, TimerOK
<1>. QED  BY <1>5, <1>6, <1>7, <1>8, <1>9, <1>10, <1>11 DEF IInv

LEMMA ForkOK ==
  ASSUME IInv, NEW c \in Kid, Fork(c), UNCHANGED <<signalVars, timerVars>>
  PROVE  IInv'
<1>1. /\ call' \in Calls /\ call'.op = "idle" /\ omask' = {} /\ call.op = "cons"
  BY Returning DEF Fork, At
<1>2. kids' = [kids EXCEPT ![c] = "running"]
  BY DEF Fork
<1>3. UNCHANGED <<disp, blocked, pending, killed, fresh, cnts, owed, flags, ohands, unsets, asked,
                  timer, itimer_flag, nap, left>>
  BY DEF Fork, process, signalVars, counting, saved, timerVars
<1>4. ProcessOK'
  BY <1>1, <1>2, <1>3, SigAssumption DEF IInv, ProcessOK
<1>5. TimerTypes'
  BY <1>1, <1>2, <1>3, SigAssumption DEF IInv, TimerTypes
<1>6. CountOK'
  BY <1>1, <1>2, <1>3, SigAssumption DEF IInv, ProcessOK, CountOK, CountsHonest
<1>7. MaskOK'
  BY <1>1, <1>2, <1>3, SigAssumption DEF IInv, MaskOK, Blocks, Pausing
<1>8. AlarmOK'
  BY <1>1, <1>2, <1>3, SigAssumption DEF IInv, ProcessOK, AlarmOK, AlarmNeverKills
<1>9. DeathOK'
  BY <1>1, <1>2, <1>3, SigAssumption DEF IInv, ProcessOK, DeathOK, DeathNoticed
<1>10. TimerOK'
  BY <1>1, <1>2, <1>3, SigAssumption DEF IInv, TimerOK
<1>. QED  BY <1>4, <1>5, <1>6, <1>7, <1>8, <1>9, <1>10 DEF IInv

LEMMA WaitReapsOK ==
  ASSUME IInv, NEW c \in Kid, WaitReaps(c), UNCHANGED <<signalVars, timerVars>>
  PROVE  IInv'
<1>1. call.op \in Waits /\ kids[c] # "none"
  BY DEF WaitReaps, InWait, Zombies
<1>2. call.op \notin {"get", "sleep", "set_alarm", "pause", "cons"}
  BY <1>1 DEF Waits
<1>3. \/ UNCHANGED <<call, omask>>
      \/ /\ call' \in Calls /\ call'.op = "idle" /\ omask' = {}
  BY Returning DEF WaitReaps, thread
<1>4. kids' = [kids EXCEPT ![c] = "reaped"]
  BY DEF WaitReaps
<1>5. UNCHANGED <<disp, blocked, pending, killed, fresh, cnts, owed, flags, ohands, unsets, asked,
                  timer, itimer_flag, nap, left>>
  BY DEF WaitReaps, process, signalVars, counting, saved, timerVars
<1>6. ProcessOK'
  BY <1>1, <1>2, <1>3, <1>4, <1>5, SigAssumption DEF IInv, ProcessOK
<1>7. TimerTypes'
  BY <1>1, <1>2, <1>3, <1>4, <1>5, SigAssumption DEF IInv, TimerTypes
<1>8. CountOK'
  BY <1>1, <1>2, <1>3, <1>4, <1>5, SigAssumption DEF IInv, ProcessOK, CountOK, CountsHonest
<1>9. MaskOK'
  BY <1>1, <1>2, <1>3, <1>4, <1>5, SigAssumption DEF IInv, MaskOK, Blocks, Pausing
<1>10. AlarmOK'
  BY <1>1, <1>2, <1>3, <1>4, <1>5, SigAssumption DEF IInv, ProcessOK, AlarmOK, AlarmNeverKills
<1>11. DeathOK'
  BY <1>1, <1>2, <1>3, <1>4, <1>5, SigAssumption DEF IInv, ProcessOK, DeathOK, DeathNoticed
<1>12. TimerOK'
  BY <1>1, <1>2, <1>3, <1>4, <1>5, SigAssumption DEF IInv, TimerOK
<1>. QED  BY <1>6, <1>7, <1>8, <1>9, <1>10, <1>11, <1>12 DEF IInv

LEMMA RingsOK ==
  ASSUME IInv, Rings
  PROVE  IInv'
<1>1. ALRM \in Sig /\ ALRM # CHLD /\ Raised(ALRM)
  BY SigAssumption DEF Rings, TimerFires
<1>2. pending' \in SUBSET Sig /\ pending' = pending \cup {ALRM}
  BY <1>1, Raising DEF IInv, ProcessOK
<1>3. /\ timer # "off" /\ timer \in {"off", "sleep", "alarm"} /\ timer' = "off"
      /\ timer = "sleep" => call.op = "sleep" /\ call.pc \in {2, 3, 4, 5}
  BY DEF Rings, TimerFires, IInv, TimerOK
<1>4. timer = "sleep" => call.pc > 1
  BY <1>3
<1>5. timer = "sleep" => nap' # {}
  BY <1>3, <1>4 DEF Rings, TimerFires
<1>6. nap' = nap \/ nap' # {}
  BY DEF Rings, TimerFires
<1>7. nap' \in SUBSET {"alarm was set", "own timer", "another signal"}
  BY DEF Rings, TimerFires, IInv, TimerTypes
<1>8. UNCHANGED <<disp, blocked, killed, call, omask, itimer_flag, left, kids, fresh, cnts,
                  owed, flags, ohands, unsets, asked>>
  BY DEF Rings, TimerFires, thread, jobVars, signalVars, counting, saved
<1>9. ProcessOK'
  BY <1>1, <1>2, <1>3, <1>8, SigAssumption DEF IInv, ProcessOK
<1>10. TimerTypes'
  BY <1>7, <1>8 DEF IInv, TimerTypes
<1>11. CountOK'
  BY <1>1, <1>2, <1>3, <1>8, SigAssumption DEF IInv, ProcessOK, CountOK, CountsHonest
<1>12. MaskOK'
  BY <1>1, <1>2, <1>3, <1>8, SigAssumption DEF IInv, MaskOK, Blocks, Pausing
<1>13. AlarmOK'
  BY <1>1, <1>2, <1>3, <1>8, SigAssumption DEF IInv, ProcessOK, AlarmOK, AlarmNeverKills
<1>14. DeathOK'
  BY <1>1, <1>2, <1>3, <1>8, SigAssumption DEF IInv, ProcessOK, DeathOK, DeathNoticed
<1>15. TimerOK'
  BY <1>2, <1>3, <1>5, <1>6, <1>8 DEF IInv, TimerOK
<1>. QED  BY <1>9, <1>10, <1>11, <1>12, <1>13, <1>14, <1>15 DEF IInv

LEMMA DiesOK ==
  ASSUME IInv, NEW c \in Kid, Dies(c), UNCHANGED <<signalVars, timerVars>>
  PROVE  IInv'
<1>1. CHLD \in Sig /\ Raised(CHLD) /\ kids[c] = "running"
  BY SigAssumption DEF Dies, Becomes
<1>2. /\ pending' \in SUBSET Sig
      /\ pending \subseteq pending' /\ pending' \subseteq pending \cup {CHLD}
      /\ disp[CHLD] # "dfl" => CHLD \in pending'
  BY <1>1, Raising DEF IInv, ProcessOK
<1>3. kids' = [kids EXCEPT ![c] = "zombie"] /\ fresh' = fresh \cup {c}
  BY DEF Dies, Becomes
<1>4. UNCHANGED <<disp, blocked, killed, call, omask, cnts, owed, flags, ohands, unsets, asked, timer,
                  itimer_flag, nap, left>>
  BY DEF Dies, thread, signalVars, counting, saved, timerVars
<1>5. ProcessOK'
  BY <1>1, <1>2, <1>3, <1>4, SigAssumption DEF IInv, ProcessOK
<1>6. TimerTypes'
  BY <1>1, <1>2, <1>3, <1>4, SigAssumption DEF IInv, TimerTypes
<1>7. CountOK'
  BY <1>1, <1>2, <1>3, <1>4, SigAssumption DEF IInv, ProcessOK, CountOK, CountsHonest
<1>8. MaskOK'
  BY <1>1, <1>2, <1>3, <1>4, SigAssumption DEF IInv, MaskOK, Blocks, Pausing
<1>9. AlarmOK'
  BY <1>1, <1>2, <1>3, <1>4, SigAssumption DEF IInv, ProcessOK, AlarmOK, AlarmNeverKills
<1>10. DeathOK'
  BY <1>1, <1>2, <1>3, <1>4, SigAssumption DEF IInv, ProcessOK, DeathOK, DeathNoticed
<1>11. TimerOK'
  BY <1>1, <1>2, <1>3, <1>4, SigAssumption DEF IInv, TimerOK
<1>. QED  BY <1>5, <1>6, <1>7, <1>8, <1>9, <1>10, <1>11 DEF IInv

LEMMA KillsOK ==
  ASSUME IInv, killed = {}, NEW g \in Due, pending' = pending \ {g}, disp[g] = "dfl", Kills(g)
  PROVE  IInv'
<1>1. g \in pending /\ g \in Sig /\ killed' = {g}
  BY DEF Due, Kills, IInv, ProcessOK
<1>2. UNCHANGED <<disp, blocked, call, omask, cnts, owed, flags, ohands, unsets, asked, timer,
                  itimer_flag, nap, left, kids, fresh>>
  BY DEF Kills, thread, signalVars, counting, saved, timerVars, jobVars
<1>3. ProcessOK'
  BY <1>1, <1>2, SigAssumption DEF IInv, ProcessOK
<1>4. TimerTypes'
  BY <1>1, <1>2, SigAssumption DEF IInv, TimerTypes
<1>5. CountOK'
  BY <1>1, <1>2, SigAssumption DEF IInv, ProcessOK, CountOK, CountsHonest
<1>6. MaskOK'
  BY <1>1, <1>2, SigAssumption DEF IInv, MaskOK, Blocks, Pausing
<1>7. AlarmOK'
  BY <1>1, <1>2, SigAssumption DEF IInv, ProcessOK, AlarmOK, AlarmNeverKills
<1>8. DeathOK'
  BY <1>1, <1>2, SigAssumption DEF IInv, ProcessOK, DeathOK, DeathNoticed
<1>9. TimerOK'
  BY <1>1, <1>2, SigAssumption DEF IInv, TimerOK
<1>. QED  BY <1>3, <1>4, <1>5, <1>6, <1>7, <1>8, <1>9 DEF IInv

LEMMA HandlesOK ==
  ASSUME IInv, killed = {}, NEW g \in Due, pending' = pending \ {g}, disp[g] # "dfl", Handles(g)
  PROVE  IInv'
<1>1. call \in Calls /\ call.op \in Ops /\ call.pc \in 0 .. 5 /\ call.num \in Int
  BY CallTypes DEF IInv, ProcessOK
<1>2. g \in pending /\ g \in Sig
  BY DEF Due, IInv, ProcessOK
<1>3. cnts \in [Sig -> Nat] /\ owed \in [Sig -> Int]
  BY DEF IInv, CountOK
<1>4. /\ cnts' \in [Sig -> Nat] /\ owed' \in [Sig -> Int]
      /\ \A f \in Sig : \/ cnts'[f] = cnts[f] /\ owed'[f] = owed[f]
                        \/ cnts'[f] = cnts[f] + 1 /\ owed'[f] = owed[f] + 1
  <2>1. \/ /\ cnts' = [cnts EXCEPT ![g] = cnts[g] + 1]
           /\ owed' = [owed EXCEPT ![g] = owed[g] + 1]
        \/ UNCHANGED <<cnts, owed>>
    BY DEF Handles, Hand, counting
  <2>2. CASE UNCHANGED <<cnts, owed>>
    BY <1>3, <2>2
  <2>3. CASE /\ cnts' = [cnts EXCEPT ![g] = cnts[g] + 1]
             /\ owed' = [owed EXCEPT ![g] = owed[g] + 1]
    BY <1>2, <1>3, <2>3
  <2>. QED  BY <2>1, <2>2, <2>3
<1>5. UNCHANGED <<disp, killed, flags, ohands, unsets, asked, timer, left, kids>>
  BY DEF Handles, saved
<1>6. itimer_flag' \in BOOLEAN /\ nap' \in SUBSET {"alarm was set", "own timer", "another signal"}
  BY DEF Handles, Alarm, Noted, IInv, TimerTypes
<1>7. /\ nap # {} => nap' # {}
      /\ call.op = "sleep" /\ g # ALRM => nap' # {}
  BY DEF Handles, Noted
<1>8. fresh' = IF g = CHLD THEN {} ELSE fresh
  BY DEF Handles, Death
<1>9. CASE Waiting
  <2>1. \/ call.op = "sleep" /\ call.pc = 3
        \/ call.op = "pause" /\ call.pc = 0
    BY <1>9 DEF Waiting
  <2>2. blocked' = omask /\ omask' = blocked /\ call' = [call EXCEPT !.pc = call.pc + 1]
    BY <1>9 DEF Handles, Wakes, Swaps
  <2>3. /\ call' \in Calls /\ call'.op = call.op /\ call'.pc = call.pc + 1
        /\ call'.sig = call.sig /\ call'.num = call.num
    BY <1>1, <2>1, <2>2, Moving
  <2>4. \/ call.op = "sleep" /\ call.pc = 3 /\ call'.op = "sleep" /\ call'.pc = 4
        \/ call.op = "pause" /\ call.pc = 0 /\ call'.op = "pause" /\ call'.pc = 1
    BY <2>1, <2>3
  <2>5. ProcessOK'
    BY <1>2, <1>5, <2>2, <2>3 DEF IInv, ProcessOK
  <2>6. TimerTypes'
    BY <1>5, <1>6 DEF IInv, TimerTypes
  <2>7. CountOK'
    BY <1>2, <1>4, <2>4 DEF IInv, ProcessOK, CountOK, CountsHonest
  <2>8. MaskOK'
    BY <1>5, <2>2, <2>4 DEF IInv, MaskOK, Blocks, Pausing
  <2>9. AlarmOK'
    BY <1>2, <1>5, <2>4, SigAssumption DEF IInv, AlarmOK, AlarmNeverKills
  <2>10. DeathOK'
    BY <1>2, <1>5, <1>8, <2>4, SigAssumption DEF IInv, DeathOK, DeathNoticed
  <2>11. call.op = "sleep" => nap' # {}
    BY <1>2, <1>7, <2>1 DEF IInv, MaskOK, Blocks, Pausing, TimerOK, TimerTypes, Due
  <2>12. TimerOK'
    BY <1>5, <2>4, <2>11 DEF IInv, TimerOK
  <2>. QED  BY <2>5, <2>6, <2>7, <2>8, <2>9, <2>10, <2>12 DEF IInv
<1>10. CASE ~Waiting
  <2>1. UNCHANGED <<blocked, call, omask>>
    BY <1>10 DEF Handles, Wakes, thread
  <2>2. ProcessOK'
    BY <1>2, <1>5, <2>1 DEF IInv, ProcessOK
  <2>3. TimerTypes'
    BY <1>5, <1>6 DEF IInv, TimerTypes
  <2>4. call.op = "get" => call.num \in Int /\ call.sig \in Sig
    BY CallTypes DEF IInv, ProcessOK
  <2>5. CountOK'
    BY <1>4, <2>1, <2>4 DEF IInv, CountOK, CountsHonest
  <2>6. MaskOK'
    BY <1>5, <2>1 DEF IInv, MaskOK, Blocks, Pausing
  <2>7. AlarmOK'
    BY <1>2, <1>5, <2>1, SigAssumption DEF IInv, AlarmOK, AlarmNeverKills
  <2>8. DeathOK'
    BY <1>2, <1>5, <1>8, <2>1, SigAssumption DEF IInv, DeathOK, DeathNoticed
  <2>9. TimerOK'
    BY <1>5, <1>7, <2>1 DEF IInv, TimerOK
  <2>. QED  BY <2>2, <2>3, <2>5, <2>6, <2>7, <2>8, <2>9 DEF IInv
<1>. QED  BY <1>9, <1>10


-----------------------------------------------------------------------------
(* All of them together *)

LEMMA InitOK ==
  ASSUME Init
  PROVE  IInv
<1>1. call.op = "idle" /\ call.pc = 0 /\ call.sig = ALRM /\ call.num = 0 /\ call \in Calls
  BY SigAssumption DEF Init, ProcessInit, Idle, Call, Calls, Ops
<1>2. ProcessOK
  BY <1>1, SigAssumption DEF Init, ProcessInit, SignalsInit, ProcessOK
<1>3. TimerTypes
  BY DEF Init, TimersInit, TimerTypes
<1>4. CountOK
  BY <1>1 DEF Init, SignalsInit, CountOK, CountsHonest
<1>5. MaskOK
  BY <1>1 DEF Init, ProcessInit, TimersInit, MaskOK, Blocks, Pausing
<1>6. AlarmOK
  BY <1>1 DEF Init, ProcessInit, TimersInit, AlarmOK, AlarmNeverKills
<1>7. DeathOK
  BY <1>1 DEF Init, JobsInit, DeathOK, DeathNoticed
<1>8. TimerOK
  BY <1>1 DEF Init, TimersInit, TimerOK
<1>. QED  BY <1>2, <1>3, <1>4, <1>5, <1>6, <1>7, <1>8 DEF IInv

LEMMA StutterOK ==
  ASSUME IInv, UNCHANGED vars
  PROVE  IInv'
<1>1. UNCHANGED <<disp, blocked, pending, killed, call, omask, cnts, owed, flags, ohands, unsets, asked,
                  timer, itimer_flag, nap, left, kids, fresh>>
  BY DEF vars, process, thread, signalVars, counting, saved, timerVars, jobVars
<1>2. ProcessOK'  BY <1>1 DEF IInv, ProcessOK
<1>3. TimerTypes'  BY <1>1 DEF IInv, TimerTypes
<1>4. CountOK'  BY <1>1 DEF IInv, CountOK, CountsHonest
<1>5. MaskOK'  BY <1>1 DEF IInv, MaskOK, Blocks, Pausing
<1>6. AlarmOK'  BY <1>1 DEF IInv, AlarmOK, AlarmNeverKills
<1>7. DeathOK'  BY <1>1 DEF IInv, DeathOK, DeathNoticed
<1>8. TimerOK'  BY <1>1 DEF IInv, TimerOK
<1>. QED  BY <1>2, <1>3, <1>4, <1>5, <1>6, <1>7, <1>8 DEF IInv

LEMMA NextOK ==
  ASSUME IInv, [Next]_vars
  PROVE  IInv'
<1>1. CASE Deliver
  BY <1>1, KillsOK, HandlesOK DEF Deliver
<1>2. CASE SignalCalls
  BY <1>2, SetOK, UnsetOK, GetOK DEF SignalCalls
<1>3. CASE TimerCalls
  BY <1>3, PauseOK, SleepOK, SetAlarmOK DEF TimerCalls
<1>4. CASE JobCalls
  BY <1>4, ConsOK, JobSigOK, WaitOK DEF JobCalls
<1>5. CASE CallSteps
  <2>1. CASE GetClears /\ UNCHANGED <<timerVars, jobVars>>
    BY <2>1, GetClearsOK
  <2>2. CASE TimerSteps /\ UNCHANGED <<signalVars, jobVars>>
    BY <2>2, SleepBlocksOK, SleepArmsOK, SleepPausesOK, SleepUnblocksOK, SleepDisarmsOK,
       SetAlarmMovesOK, SetAlarmArmsOK, PauseEndsOK DEF TimerSteps
  <2>3. CASE JobSteps /\ UNCHANGED <<signalVars, timerVars>>
    BY <2>3, CallEndsOK, ForkOK, WaitReapsOK DEF JobSteps
  <2>. QED  BY <1>5, <2>1, <2>2, <2>3 DEF CallSteps
<1>6. CASE Rings
  BY <1>6, RingsOK
<1>7. CASE KidDies
  BY <1>7, DiesOK DEF KidDies
<1>8. CASE UNCHANGED vars
  BY <1>8, StutterOK
<1>. QED  BY <1>1, <1>2, <1>3, <1>4, <1>5, <1>6, <1>7, <1>8 DEF Next

-----------------------------------------------------------------------------
(* Theorems *)

\* Whatever the client calls and whenever signals come, the invariant holds.
THEOREM Invariance == Spec => []IInv
<1>1. Init => IInv  BY InitOK
<1>2. IInv /\ [Next]_vars => IInv'  BY NextOK
<1>. QED  BY <1>1, <1>2, PTL DEF Spec

\* Every variable of the program keeps its type: handlers, masks and counts stay what the
\* calls take them for.
THEOREM TypeCorrect == Spec => []TypeOK
<1>1. IInv => TypeOK
  <2> SUFFICES ASSUME IInv PROVE TypeOK
    OBVIOUS
  <2>1. call.op \in Ops
    BY CallTypes DEF IInv, ProcessOK
  <2>2. /\ disp \in [Sig -> Handlers \cup {"dfl"}] /\ ohands \in [Sig -> Handlers \cup {"dfl"}]
        /\ blocked \subseteq Sig /\ pending \subseteq Sig /\ killed \subseteq Sig
        /\ flags \subseteq Sig /\ unsets \subseteq Sig /\ asked \subseteq Sig
    BY DEF IInv, ProcessOK
  <2>3. cnts \in [Sig -> Nat] /\ owed \in [Sig -> Int]
    BY DEF IInv, CountOK
  <2>4. /\ itimer_flag \in BOOLEAN /\ left \subseteq {ALRM}
        /\ nap \subseteq {"alarm was set", "own timer", "another signal"}
    BY DEF IInv, TimerTypes
  <2>5. timer \in {"off", "sleep", "alarm"}
    BY DEF IInv, TimerOK
  <2>6. /\ kids \in [Kid -> {"none", "running", "stopped", "zombie", "reaped"}]
        /\ fresh \subseteq Kid
    BY DEF IInv, DeathOK
  <2>. QED  BY <2>1, <2>2, <2>3, <2>4, <2>5, <2>6 DEF TypeOK, Ops
<1>. QED  BY <1>1, Invariance, PTL

\* _signal$get returns no occurrence twice and none that was not there.
THEOREM CountsAreHonest == Spec => []CountsHonest
<1>1. IInv => CountsHonest  BY DEF IInv, CountOK
<1>. QED  BY <1>1, Invariance, PTL

\* No call leaves a signal blocked that the client has not asked to be put on hold, but a _sleep
\* of a negative time, which leaves SIGALRM.
THEOREM MasksAreRestored == Spec => []MaskRestored
<1>1. IInv => MaskRestored  BY DEF IInv, MaskOK, Blocks, Pausing, MaskRestored
<1>. QED  BY <1>1, Invariance, PTL

\* However sleep, _set_alarm and pause follow one another, the timer does not end the program
\* by the default action of SIGALRM, unless the client has unset the signal.
THEOREM AlarmsNeverKill == Spec => []AlarmNeverKills
<1>1. IInv => AlarmNeverKills  BY DEF IInv, AlarmOK
<1>. QED  BY <1>1, Invariance, PTL

\* The death of a job is signalled until a handler has run, however soon after the fork it is.
THEOREM DeathsAreNoticed == Spec => []DeathNoticed
<1>1. IInv => DeathNoticed  BY DEF IInv, DeathOK
<1>. QED  BY <1>1, Invariance, PTL

\* sleep returns for a reason: its own timer, another signal, or an alarm set before it.
THEOREM SleepsLast == Spec => SleepLasts
<1>1. IInv /\ [Next]_vars
      => [call.op = "sleep" /\ call.pc = 5 /\ call'.op = "idle" => nap # {}]_vars
  BY DEF IInv, TimerOK
<1>. QED  BY <1>1, Invariance, PTL DEF Spec, SleepLasts
=============================================================================
