------------------------------ MODULE Scripted ------------------------------
(***************************************************************************)
(* A stream that is read (InputStream) and a file stream that scripts it   *)
(* (OutputStream): sys/clu/stream.clu, script.  Each operation that gives  *)
(* text to the client writes that text to the script stream before it      *)
(* returns, and script drops the not_possible of the script stream; getl   *)
(* scripts its newline separately.  Between calls the client may flush the *)
(* script stream or change its buffering.                                  *)
(***************************************************************************)
EXTENDS InputStream, OutputStream

VARIABLE passed     \* the text of the running call has been given to puts

vars == <<inputVars, outputVars, passed>>

Scripting == call.op \in {"script", "scriptl"}

\* The reading side: the client's calls and their reads.
Read ==
  /\ ~Scripting /\ Quiet
  /\ Client \/ GetSteps
  /\ UNCHANGED <<outputVars, passed>>

Passed_Mutant == IF call.op = "scriptl" THEN <<Newline>> ELSE call.temp     \* getl's text is lost

\* The text the running call passes to its script stream.
Passed == call.temp

\* script calls puts,
ScriptPuts ==
  /\ Scripting /\ ~passed
  /\ Puts(Passed)
  /\ passed' = TRUE
  /\ UNCHANGED inputVars

\* and goes on when it has returned, or signalled.
ScriptReturns ==
  /\ Scripting /\ passed /\ Quiet
  /\ Script
  /\ passed' = FALSE
  /\ UNCHANGED outputVars

Write == PutSteps /\ UNCHANGED <<inputVars, passed>>

ScriptClient == call.op = "idle" /\ OutputClient /\ UNCHANGED <<inputVars, passed>>

Init == InputInit /\ OutputInit /\ passed = FALSE

Next == Read \/ ScriptPuts \/ ScriptReturns \/ Write \/ ScriptClient

Spec == Init /\ [][Next]_vars

-----------------------------------------------------------------------------
(* Properties *)

\* lib/stream.spc, add_script: "All subsequent input from and output to s1 will also be
\* output to s2": the script has all the text the client was given, the newlines of getl
\* too, each once, as long as no puts to it has failed and the client has not gone back.
ScriptExact ==
  call.op = "idle" /\ Quiet /\ ~dropped /\ ~wtorn /\ resets = 0 => file \o Buffered = given

Running == call.op # "idle" \/ ~Quiet

\* How far the running call is from its return,
Stage ==
  CASE call.op = "idle" -> 0
    [] call.op = "script" -> IF passed THEN 1 ELSE 2
    [] call.op = "scriptl" -> IF passed THEN 3 ELSE 4
    [] OTHER -> 5

\* and the text its loop has still to read, or to write.
Remaining == Len(text) - pos + (IF Quiet THEN 0 ELSE 1 + Len(put.str))

\* Every operation returns: whatever a read or a write gives, and if it fails, a step of a call
\* brings it nearer to its end, so that the loops of get and put end.  (A call that could take
\* no step would be a deadlock.)
CallsAdvance ==
  [][Running => Stage' < Stage \/ (Stage' = Stage /\ Remaining' < Remaining)]_vars
=============================================================================
