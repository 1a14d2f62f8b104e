---------------------------- MODULE MCReleaseGate ----------------------------
(* Instances of ReleaseGate for TLC.                                         *)
EXTENDS ReleaseGate, TLC

CONSTANTS r1, r2, good, fine, bad, v1, v2, i1, e1

TwoPass == [k \in Checks |-> {good, fine}]

\* Edits and checks, reviews, or some of both by two clients at once; the whole
\* way from a review over an edit to an export by one.
CallMixes ==
    { << 5, 0, {r1, r2} >>, << 0, 4, {r1, r2} >>, << 2, 2, {r1, r2} >>, << 3, 3, {r1} >> }
Checking == { << 3, 0, {r1, r2} >> }
Reviewing == { << 0, 3, {r1, r2} >> }

\* Two designs that pass every check, the review ids and the requests are
\* interchangeable.
Symmetry == Permutations({good, fine}) \cup Permutations(Reviews) \cup Permutations(Requests)
=============================================================================
