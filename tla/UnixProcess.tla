---------------------------- MODULE UnixProcess ----------------------------
(***************************************************************************)
(* What the operating system does for the program's signals, as the        *)
(* modules Signals, Timers and Jobs use it, and the one thread they share. *)
(*                                                                         *)
(* A signal is pending from when it is raised until it is delivered; two   *)
(* of one kind that are pending together are one.  A pending signal that   *)
(* is not blocked is delivered before the thread takes another step, and   *)
(* its handler runs to its end then (Program, Deliver).                    *)
(***************************************************************************)
EXTENDS Integers, FiniteSets

CONSTANTS
  Sig,        \* the signals
  ALRM, CHLD  \* two of them: SIGALRM, SIGCHLD

ASSUME SigAssumption == ALRM \in Sig /\ CHLD \in Sig /\ ALRM # CHLD

VARIABLES
  disp,       \* disp[g]: what is done at g, "dfl" or the handler
  blocked,    \* the signal mask
  pending,    \* signals raised and not yet delivered
  killed,     \* the signals whose default action has ended the program
  call,       \* the library procedure that runs, and its local variables
  omask       \* one of these: the mask it will put back

process == <<disp, blocked, pending, killed>>
thread == <<call, omask>>

Handlers == {"_signalOPhand", "sleep_alarm", "clu_alarm", "_jobOPOPdeath"}

\* A call of op at its first step; num is a count, a time or a job.
Call(op, sig, num) == [op |-> op, pc |-> 0, sig |-> sig, num |-> num]

Idle == Call("idle", ALRM, 0)

\* Signals to be delivered now.
Due == pending \ blocked

\* The thread may take a step.
Runs == killed = {} /\ Due = {}

\* The client calls a procedure.
Free == Runs /\ call.op = "idle"

At(op, pc) == Runs /\ call.op = op /\ call.pc = pc

\* By default SIGCHLD is ignored.
Ignores(g) == g = CHLD /\ disp[g] = "dfl"

Raised(g) == pending' = IF Ignores(g) THEN pending ELSE pending \cup {g}

\* sigaction; one that comes to be ignored is no longer pending.
Installs(g, h) ==
  /\ disp' = [disp EXCEPT ![g] = h]
  /\ pending' = IF h = "dfl" /\ g = CHLD THEN pending \ {g} ELSE pending

Begins(op, sig, num) == call' = Call(op, sig, num) /\ UNCHANGED omask

Goto(pc) == call' = [call EXCEPT !.pc = pc] /\ UNCHANGED omask

Returns == call' = Idle /\ omask' = {}

ProcessInit ==
  /\ disp = [g \in Sig |-> "dfl"]
  /\ blocked = {}
  /\ pending = {}
  /\ killed = {}
  /\ call = Idle
  /\ omask = {}
=============================================================================
