------------------------------ MODULE Signals ------------------------------
(***************************************************************************)
(* The cluster _signal, code/libasm/Opt/_signal.c: a program counts the    *)
(* occurrences of signals.                                                 *)
(*                                                                         *)
(* set tests ~hold.tf and ~(flags & bit) with ~ for "not"; both are true   *)
(* whatever the operands.  So a signal is never put on hold: set installs  *)
(* the handler whatever hold is, and a second set saves the handler of the *)
(* first.  unset tests flags && bit: true when any signal is set.          *)
(***************************************************************************)
EXTENDS UnixProcess

VARIABLES
  cnts,      \* _signalOPcnts
  flags,     \* _signalOPflags: the signals set and not unset
  ohands,    \* _signalOPohands: the saved handlers
  owed,      \* how many more occurrences there were than get has returned
  unsets,    \* the signals the client has unset
  asked      \* the signals the client has asked to be put on hold, and not taken off since

counting == <<cnts, owed>>
saved == <<flags, ohands, unsets, asked>>
signalVars == <<counting, saved>>

SignalsInit ==
  /\ cnts = [g \in Sig |-> 0]
  /\ flags = {}
  /\ ohands = [g \in Sig |-> "dfl"]
  /\ owed = [g \in Sig |-> 0]
  /\ unsets = {}
  /\ asked = {}

\* The handler.
Hand(g) ==
  /\ cnts' = [cnts EXCEPT ![g] = @ + 1]
  /\ owed' = [owed EXCEPT ![g] = @ + 1]

\* The test ~hold.tf is true of both values of hold.
Set(g, hold) ==
  /\ Free
  /\ Installs(g, "_signalOPhand")
  /\ flags' = flags \cup {g}
  /\ ohands' = [ohands EXCEPT ![g] = disp[g]]
  /\ asked' = IF hold THEN asked \cup {g} ELSE asked \ {g}
  /\ UNCHANGED <<blocked, killed, thread, counting, unsets>>

Unset(g) ==
  /\ Free
  /\ IF flags = {} THEN UNCHANGED <<disp, pending>> ELSE Installs(g, ohands[g])
  /\ flags' = flags \ {g}
  /\ unsets' = unsets \cup {g}
  /\ asked' = asked \ {g}
  /\ UNCHANGED <<blocked, killed, thread, counting, ohands>>

\* get reads the count,
Get(g) ==
  /\ Free
  /\ Begins("get", g, cnts[g])
  /\ UNCHANGED <<process, signalVars>>

GetClears_Mutant ==     \* the count is not cleared
  /\ At("get", 0)
  /\ owed' = [owed EXCEPT ![call.sig] = @ - call.num]
  /\ Returns
  /\ UNCHANGED <<process, cnts, saved>>

\* and clears it: what is counted in between is never returned.
GetClears ==
  /\ At("get", 0)
  /\ cnts' = [cnts EXCEPT ![call.sig] = 0]
  /\ owed' = [owed EXCEPT ![call.sig] = @ - call.num]
  /\ Returns
  /\ UNCHANGED <<process, saved>>

-----------------------------------------------------------------------------
(* Properties *)

\* get returns no occurrence twice and none that was not there.
CountsHonest == \A g \in Sig : cnts[g] <= owed[g]

\* lib/_signal.spc, set: "place signal on hold if hold = TRUE", and get: "get number of
\* occurrences of signal since last get call".  A client that has put a signal on hold may call
\* get without fear of the handler: no step makes an occurrence of it one that no get returns.
HeldNotLost ==
  [][\A g \in asked : owed'[g] - cnts'[g] = owed[g] - cnts[g]]_<<cnts, owed>>
=============================================================================
