-------------------------- MODULE MCToolExecution --------------------------
(* Instances of ToolExecution for TLC.                                     *)
EXTENDS ToolExecution, TLC

CONSTANTS j1, j2, d1, s1, s2

\* Two mutators that share an output target and a session_destroy, all queued
\* on one session.
SameSessionOf == (j1 :> s1) @@ (j2 :> s1) @@ (d1 :> s1)
SameOutputsOf == (j1 :> {1}) @@ (j2 :> {1, 2})

\* Two sessions whose jobs write the same two targets, one being destroyed.
CrossSessionOf == (j1 :> s1) @@ (j2 :> s2) @@ (d1 :> s1)
CrossOutputsOf == (j1 :> {1, 2}) @@ (j2 :> {1, 2})

\* Every failure the coordinator undoes.
HandledFaults == FaultKinds \ UnhandledFaults
=============================================================================
