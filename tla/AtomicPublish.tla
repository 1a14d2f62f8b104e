---------------------------- MODULE AtomicPublish ----------------------------
(***************************************************************************)
(* What the coordinator promises of a job's outputs: as far as anyone can  *)
(* recover, either all of them appear in one step or none ever does.       *)
(***************************************************************************)
CONSTANT Stages    \* the declared outputs of a job

VARIABLES
    view,      \* what is, or can be put back, at each output's target
    wanted,    \* the outputs the worker produced
    result     \* "pending", then "completed" or "error"

Init ==
    /\ view \in [Stages -> { "absent", "original" }]
    /\ wanted \in SUBSET Stages
    /\ result = "pending"

Commit ==
    /\ result = "pending"
    /\ result' = "completed"
    /\ view' = [k \in Stages |-> IF k \in wanted THEN "new" ELSE view[k]]
    /\ UNCHANGED wanted

Abort ==
    /\ result = "pending"
    /\ result' = "error"
    /\ UNCHANGED << view, wanted >>

Next == Commit \/ Abort

Spec == Init /\ [][Next]_<< view, wanted, result >>
=============================================================================
