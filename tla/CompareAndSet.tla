---------------------------- MODULE CompareAndSet ----------------------------
(***************************************************************************)
(* What the transaction runtime promises of the primary design: a preview  *)
(* becomes the primary design in one step, only if it passed its checks    *)
(* and the design is the one it was previewed against, and a preview that  *)
(* was installed or dropped never leaves that state.                       *)
(***************************************************************************)
CONSTANTS Txs, Contents, Sound

VARIABLES
    value,      \* the primary design
    outcome,    \* transaction -> "none", "open", "installed" or "dropped"
    parent,     \* transaction -> the design it was previewed against
    candidate   \* transaction -> the design it proposes

vars == << value, outcome, parent, candidate >>

Init ==
    /\ value \in Contents
    /\ outcome = [t \in Txs |-> "none"]
    /\ parent \in [Txs -> Contents]
    /\ candidate \in [Txs -> Contents]

Preview(t) ==
    /\ outcome[t] = "none"
    /\ outcome' = [outcome EXCEPT ![t] = "open"]
    /\ parent' = [parent EXCEPT ![t] = value]
    /\ \E c \in Contents : candidate' = [candidate EXCEPT ![t] = c]
    /\ UNCHANGED value

Install(t) ==
    /\ outcome[t] = "open"
    /\ value = parent[t]
    /\ candidate[t] \in Sound
    /\ value' = candidate[t]
    /\ outcome' = [outcome EXCEPT ![t] = "installed"]
    /\ UNCHANGED << parent, candidate >>

\* A transaction may be given up alone, or several with an unsaved edit when
\* the server restarts.
Drop ==
    /\ \E D \in SUBSET { t \in Txs : outcome[t] = "open" } :
           outcome' = [t \in Txs |-> IF t \in D THEN "dropped" ELSE outcome[t]]
    /\ value' \in Contents
    /\ UNCHANGED << parent, candidate >>

\* An edit outside any transaction.
Change ==
    /\ value' \in Contents
    /\ UNCHANGED << outcome, parent, candidate >>

Next == (\E t \in Txs : Preview(t) \/ Install(t)) \/ Drop \/ Change

Spec == Init /\ [][Next]_vars
=============================================================================
