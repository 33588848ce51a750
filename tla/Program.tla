------------------------------ MODULE Program ------------------------------
(***************************************************************************)
(* A program that uses _signal, _job, sleep, _set_alarm and pause          *)
(* together.  They share the signal handlers, the mask and the timer.      *)
(***************************************************************************)
EXTENDS Signals, Timers, Jobs

CONSTANTS
  Counted,     \* the signals the client sets, unsets and gets
  MaxOwed      \* bound: no call raises a signal that is owed this often

ASSUME ProgramAssumption == Counted \subseteq Sig /\ MaxOwed \in Nat

vars == <<process, thread, signalVars, timerVars, jobVars>>

Init == ProcessInit /\ SignalsInit /\ TimersInit /\ JobsInit

\* The default action of SIGALRM ends the program.
Kills(g) ==
  /\ killed' = killed \cup {g}
  /\ UNCHANGED <<disp, blocked, thread, signalVars, timerVars, jobVars>>

\* A handler runs, and what the thread waits for in sigpause has come.
Handles(g) ==
  /\ IF disp[g] = "_signalOPhand" THEN Hand(g) ELSE UNCHANGED counting
  /\ Alarm(disp[g])
  /\ IF g = CHLD THEN Death ELSE UNCHANGED fresh
  /\ Wakes /\ Noted(g)
  /\ UNCHANGED <<disp, killed, saved, timer, left, kids>>

\* A signal is delivered.
Deliver ==
  /\ killed = {}
  /\ \E g \in Due :
       /\ pending' = pending \ {g}
       /\ IF disp[g] = "dfl" THEN Kills(g) ELSE Handles(g)

\* The client's calls.
SignalCalls ==
  /\ \E g \in Counted : (\E hold \in BOOLEAN : Set(g, hold)) \/ Unset(g) \/ Get(g)
  /\ UNCHANGED <<timerVars, jobVars>>

TimerCalls ==
  /\ owed[ALRM] < MaxOwed
  /\ \/ Pause
     \/ \E num \in {-1, 0, 1} : (num # 0 /\ Sleep(num)) \/ SetAlarm(num)
  /\ UNCHANGED <<signalVars, jobVars>>

JobCalls ==
  /\ \/ Cons
     \/ owed[CHLD] < MaxOwed /\ \E c \in Kid : JobSig(c)
     \/ \E op \in Waits, c \in Kid : Wait(op, c)
  /\ UNCHANGED <<signalVars, timerVars>>

\* The call that runs goes on.
CallSteps ==
  \/ GetClears /\ UNCHANGED <<timerVars, jobVars>>
  \/ TimerSteps /\ UNCHANGED <<signalVars, jobVars>>
  \/ JobSteps /\ UNCHANGED <<signalVars, timerVars>>

Rings == TimerFires /\ UNCHANGED <<signalVars, jobVars>>

KidDies == killed = {} /\ \E c \in Kid : Dies(c) /\ UNCHANGED <<signalVars, timerVars>>

Next == Deliver \/ SignalCalls \/ TimerCalls \/ JobCalls \/ CallSteps \/ Rings \/ KidDies

\* The program gets the processor, a signal that is not blocked is delivered, and the timer
\* expires.  That a job ends is not assumed.
Spec ==
  /\ Init /\ [][Next]_vars
  /\ WF_vars(CallSteps) /\ WF_vars(Deliver) /\ WF_vars(Rings)

-----------------------------------------------------------------------------
(* Properties *)

Done == call.op = "idle" \/ killed # {}

\* Between two calls no signal is blocked that the client has not asked to be put on hold, but
\* SIGALRM after a _sleep of a negative time.
MaskRestored == call.op = "idle" => blocked \subseteq asked \cup left

\* sleep returns, however the alarm falls: blocking SIGALRM closes the gap before sigpause.
SleepWakes == call.op = "sleep" ~> (Done \/ left # {})

\* sleep returns for a reason: its own timer, another signal, or an alarm that was set before.
\* No timer that an earlier sleep has left can end it.
SleepLasts ==
  [][call.op = "sleep" /\ call.pc = 5 /\ call'.op = "idle" => nap # {}]_vars

\* The timer ends the program only when the client has unset SIGALRM.
AlarmNeverKills == ALRM \in killed => ALRM \in unsets

\* The handler is in place before there is a job: every death is signalled until a handler has
\* run, unless the client has unset SIGCHLD.
DeathNoticed == fresh # {} /\ CHLD \notin unsets => CHLD \in pending

\* A wait returns once the job it waits for is dead, or no job is left.
CanEnd ==
  /\ call.op \in Waits
  /\ \/ Alive = {}
     \/ IF call.op \in Picky THEN kids[call.num] = "zombie" ELSE Zombies # {}
WaitReturns == CanEnd ~> Done

\* wait0 returns whatever the jobs do.
Wait0Returns == call.op = "wait0" ~> Done

TypeOK ==
  /\ disp \in [Sig -> Handlers \cup {"dfl"}] /\ ohands \in [Sig -> Handlers \cup {"dfl"}]
  /\ blocked \subseteq Sig /\ pending \subseteq Sig /\ killed \subseteq Sig
  /\ flags \subseteq Sig /\ unsets \subseteq Sig /\ asked \subseteq Sig
  /\ cnts \in [Sig -> Nat] /\ owed \in [Sig -> Int]
  /\ timer \in {"off", "sleep", "alarm"} /\ itimer_flag \in BOOLEAN /\ left \subseteq {ALRM}
  /\ nap \subseteq {"alarm was set", "own timer", "another signal"}
  /\ kids \in [Kid -> {"none", "running", "stopped", "zombie", "reaped"}]
  /\ fresh \subseteq Kid
  /\ call.op \in {"idle", "get", "sleep", "set_alarm", "pause", "cons"} \cup Waits
=============================================================================
