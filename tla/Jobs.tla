-------------------------------- MODULE Jobs --------------------------------
(***************************************************************************)
(* The cluster _job, code/libasm/Opt/_job.c: a program starts processes,   *)
(* signals them and waits for them.  dead_set installs the handler of      *)
(* SIGCHLD, without SA_NOCLDSTOP: a job that dies, stops or goes on raises *)
(* the signal.  The handler counts; several that are pending together      *)
(* count once, so the count is left out here.                              *)
(*                                                                         *)
(* All the waits but wait0 call wait(), whatever they have put into the    *)
(* status word before: they block, and never hear of a job that stopped.   *)
(***************************************************************************)
EXTENDS UnixProcess

CONSTANT Kid     \* the jobs: positive numbers

ASSUME KidAssumption == Kid \subseteq Nat \ {0}

VARIABLES
  kids,     \* kids[c]: "none", "running", "stopped", "zombie" or "reaped"
  fresh     \* the jobs that died since a handler of SIGCHLD last ran

jobVars == <<kids, fresh>>

JobsInit == kids = [c \in Kid |-> "none"] /\ fresh = {}

Alive == {c \in Kid : kids[c] \in {"running", "stopped"}}
Zombies == {c \in Kid : kids[c] = "zombie"}
Known == {c \in Kid : kids[c] # "none"}

-----------------------------------------------------------------------------
(* cons, cone, fork: a job is started *)

Cons_Mutant ==     \* dead_set is not called
  /\ Free
  /\ Begins("cons", CHLD, 0)
  /\ UNCHANGED <<process, jobVars>>

\* dead_set.  What cons does with its arguments may fail, before the fork.
Cons ==
  /\ Free
  /\ Installs(CHLD, "_jobOPOPdeath")
  /\ Begins("cons", CHLD, 0)
  /\ UNCHANGED <<blocked, killed, jobVars>>

ConsFails == At("cons", 0) /\ Returns /\ UNCHANGED <<process, jobVars>>

Fork(c) ==
  /\ At("cons", 0) /\ kids[c] = "none"
  /\ kids' = [kids EXCEPT ![c] = "running"]
  /\ Returns
  /\ UNCHANGED <<process, fresh>>

-----------------------------------------------------------------------------
(* What happens to a job *)

Becomes(c, state) == kids' = [kids EXCEPT ![c] = state] /\ Raised(CHLD)

Dies(c) ==
  /\ kids[c] = "running"
  /\ Becomes(c, "zombie")
  /\ fresh' = fresh \cup {c}
  /\ UNCHANGED <<disp, blocked, killed, thread>>

\* sig: the client stops a job, lets it go on, or kills it.
JobSig(c) ==
  /\ Free
  /\ \/ kids[c] = "running" /\ Becomes(c, "stopped") /\ UNCHANGED fresh
     \/ kids[c] = "stopped" /\ Becomes(c, "running") /\ UNCHANGED fresh
     \/ c \in Alive /\ Becomes(c, "zombie") /\ fresh' = fresh \cup {c}
  /\ UNCHANGED <<disp, blocked, killed, thread>>

\* The handler.
Death == fresh' = {}

-----------------------------------------------------------------------------
(* wait, run, wait0, any_wait, any_wait0 *)

Waits == {"wait", "run", "wait0", "any_wait", "any_wait0"}

\* The waits for one job; the others take any.
Picky == {"wait", "run", "wait0"}

Wait(op, c) ==
  /\ Free /\ c \in Known
  /\ Begins(op, CHLD, c)
  /\ UNCHANGED <<process, jobVars>>

InWait == Runs /\ call.op \in Waits

\* wait() gives a dead job.  One that is not the job waited for is forgotten.
WaitReaps(c) ==
  /\ InWait /\ c \in Zombies
  /\ kids' = [kids EXCEPT ![c] = "reaped"]
  /\ IF call.op \in Picky /\ c # call.num THEN UNCHANGED thread ELSE Returns
  /\ UNCHANGED <<process, fresh>>

WaitFails_Mutant ==     \* every error is taken for an interrupt
  /\ InWait /\ Zombies \cup Alive = {}
  /\ UNCHANGED <<process, thread, jobVars>>

\* ECHILD: there is no job to wait for.
WaitFails ==
  /\ InWait /\ Zombies \cup Alive = {}
  /\ Returns
  /\ UNCHANGED <<process, jobVars>>

NothingYet_Mutant ==     \* wait3 is called without WNOHANG
  /\ InWait /\ call.op = "wait0" /\ Zombies = {} /\ Alive # {}
  /\ UNCHANGED <<process, thread, jobVars>>

\* wait3 with WNOHANG: the answer is -1.
NothingYet ==
  /\ InWait /\ call.op = "wait0" /\ Zombies = {} /\ Alive # {}
  /\ Returns
  /\ UNCHANGED <<process, jobVars>>

JobSteps ==
  \/ ConsFails \/ WaitFails \/ NothingYet
  \/ \E c \in Kid : Fork(c) \/ WaitReaps(c)
=============================================================================
