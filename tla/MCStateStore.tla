---------------------------- MODULE MCStateStore ----------------------------
(* Instances of StateStore for TLC.                                         *)
EXTENDS StateStore, TLC

CONSTANTS p1, p2, s1, s2, a, b, x, y

\* One design of one session exists in the legacy layout.
OneLegacy == { <<s1, a>> }
OneLegacyOf == [k \in OneLegacy |-> x]

\* The processes are interchangeable.
Symmetry == Permutations(Procs)
=============================================================================
