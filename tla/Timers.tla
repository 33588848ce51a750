------------------------------- MODULE Timers -------------------------------
(***************************************************************************)
(* The users of the one interval timer: sleep and _sleep (sleep.c,         *)
(* _sleep.c), _set_alarm (_set_alarm.c); and pause (pause.c), all in       *)
(* code/libasm/Opt.  Each installs its own handler for SIGALRM and leaves  *)
(* it there.  Arming the timer again replaces what it was armed for.       *)
(*                                                                         *)
(* sleep blocks SIGALRM before it arms the timer, and waits in sigpause    *)
(* with its old mask, so that an alarm between the two is not missed.  Any *)
(* signal that is handled ends it.                                         *)
(***************************************************************************)
EXTENDS UnixProcess

VARIABLES
  timer,        \* what the timer is armed for: "off", "sleep" or "alarm"
  itimer_flag,  \* the alarm has rung
  nap,          \* what happened in the sleep that runs, for the properties
  left          \* what a _sleep of negative length has left blocked

timerVars == <<timer, itimer_flag, nap, left>>

TimersInit == timer = "off" /\ itimer_flag = FALSE /\ nap = {} /\ left = {}

-----------------------------------------------------------------------------
(* sleep and _sleep; num is -1 when the time asked for is negative *)

\* sigaction.
Sleep(num) ==
  /\ Free
  /\ Installs(ALRM, "sleep_alarm")
  /\ Begins("sleep", ALRM, num)
  /\ nap' = IF timer = "alarm" THEN {"alarm was set"} ELSE {}
  /\ UNCHANGED <<blocked, killed, timer, itimer_flag, left>>

SleepBlocks_Mutant ==     \* the alarm may come before sigpause
  /\ At("sleep", 0)
  /\ call' = [call EXCEPT !.pc = 1] /\ omask' = blocked
  /\ UNCHANGED <<process, timerVars>>

\* omask = sigblock(SIGALRM).
SleepBlocks ==
  /\ At("sleep", 0)
  /\ blocked' = blocked \cup {ALRM}
  /\ call' = [call EXCEPT !.pc = 1] /\ omask' = blocked
  /\ UNCHANGED <<disp, pending, killed, timerVars>>

\* setitimer.  It refuses a negative time, and sleep returns with SIGALRM blocked.
SleepArms ==
  /\ At("sleep", 1)
  /\ \/ call.num >= 0 /\ timer' = "sleep" /\ Goto(2) /\ UNCHANGED <<nap, left>>
     \/ call.num < 0 /\ left' = {ALRM} /\ nap' = {} /\ Returns /\ UNCHANGED timer
  /\ UNCHANGED <<process, itimer_flag>>

\* sigpause, before and after it waits: the mask is changed, and the old one kept.
Swaps(mask) == blocked' = mask /\ omask' = blocked

Waiting == (call.op = "sleep" /\ call.pc = 3) \/ (call.op = "pause" /\ call.pc = 0)

SleepPauses ==
  /\ At("sleep", 2)
  /\ Swaps(omask)
  /\ call' = [call EXCEPT !.pc = 3]
  /\ UNCHANGED <<disp, pending, killed, timerVars>>

\* A handler has run: sigpause puts the mask back that it found.
Wakes ==
  IF Waiting THEN Swaps(omask) /\ call' = [call EXCEPT !.pc = @ + 1]
  ELSE UNCHANGED <<blocked, thread>>

SleepUnblocks_Mutant ==     \* the mask is left as sigpause found it
  /\ At("sleep", 4)
  /\ Goto(5)
  /\ UNCHANGED <<process, timerVars>>

\* sigsetmask(omask).
SleepUnblocks ==
  /\ At("sleep", 4)
  /\ blocked' = omask
  /\ Goto(5)
  /\ UNCHANGED <<disp, pending, killed, timerVars>>

SleepDisarms_Mutant ==     \* the timer is not stopped when another signal ended the sleep
  /\ At("sleep", 5)
  /\ Returns
  /\ UNCHANGED <<process, timerVars>>

SleepDisarms_Mutant2 ==     \* the default action is put back while the timer is armed
  /\ At("sleep", 5)
  /\ disp' = [disp EXCEPT ![ALRM] = "dfl"]
  /\ Returns
  /\ UNCHANGED <<blocked, pending, killed, timerVars>>

\* setitimer(0).
SleepDisarms ==
  /\ At("sleep", 5)
  /\ timer' = "off" /\ nap' = {}
  /\ Returns
  /\ UNCHANGED <<process, itimer_flag, left>>

-----------------------------------------------------------------------------
(* _set_alarm and pause *)

\* sigaction, when an alarm is asked for; num is 0 to take it back.
SetAlarm(num) ==
  /\ Free
  /\ IF num > 0 THEN Installs(ALRM, "clu_alarm") ELSE UNCHANGED <<disp, pending>>
  /\ Begins("set_alarm", ALRM, num)
  /\ UNCHANGED <<blocked, killed, timerVars>>

\* ans->tf = itimer_flag; itimer_flag = false: two stores, and a ring between them is lost.
SetAlarmReads == At("set_alarm", 0) /\ Goto(1) /\ UNCHANGED <<process, timerVars>>

SetAlarmClears ==
  /\ At("set_alarm", 1)
  /\ itimer_flag' = FALSE
  /\ Goto(2)
  /\ UNCHANGED <<process, timer, nap, left>>

\* setitimer, which refuses a negative time.
SetAlarmArms ==
  /\ At("set_alarm", 2)
  /\ timer' = CASE call.num > 0 -> "alarm" [] call.num = 0 -> "off" [] OTHER -> timer
  /\ Returns
  /\ UNCHANGED <<process, itimer_flag, nap, left>>

\* pause: sigpause(0).
Pause ==
  /\ Free
  /\ Swaps({})
  /\ call' = Call("pause", ALRM, 0)
  /\ UNCHANGED <<disp, pending, killed, timerVars>>

PauseEnds == At("pause", 1) /\ Returns /\ UNCHANGED <<process, timerVars>>

-----------------------------------------------------------------------------

\* The timer expires.
TimerFires ==
  /\ killed = {} /\ timer # "off"
  /\ timer' = "off"
  /\ Raised(ALRM)
  /\ nap' = IF timer = "sleep" /\ call.op = "sleep" /\ call.pc > 1 THEN nap \cup {"own timer"} ELSE nap
  /\ UNCHANGED <<disp, blocked, killed, thread, itimer_flag, left>>

\* The handlers: clu_alarm sets the flag, sleep_alarm does nothing.
Alarm(h) == itimer_flag' = (itimer_flag \/ h = "clu_alarm")

\* What a sleep remembers of a signal that was handled.
Noted(g) == nap' = IF g # ALRM /\ call.op = "sleep" THEN nap \cup {"another signal"} ELSE nap

TimerSteps ==
  SleepBlocks \/ SleepArms \/ SleepPauses \/ SleepUnblocks \/ SleepDisarms
  \/ SetAlarmReads \/ SetAlarmClears \/ SetAlarmArms \/ PauseEnds
=============================================================================
