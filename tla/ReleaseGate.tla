----------------------------- MODULE ReleaseGate -----------------------------
(***************************************************************************)
(* The release gate of one design: ERC and DRC evidence bound to a hash of *)
(* the design, review sessions with checklists and terminal decisions, and *)
(* the exports that need all of them.                                      *)
(*                                                                         *)
(* Requests are calls of one REST server, which run in a thread pool, take *)
(* no lock and share its memory: the steps of several calls interleave.    *)
(* An MCP server on the same database reads the durable session and        *)
(* exports in a worker without a state store.  An edit writes memory and   *)
(* its durable record in one step here, with the record left out when the  *)
(* write raises: a kill in between is that and Restart.                    *)
(***************************************************************************)
EXTENDS Naturals

CONSTANTS
    Requests,    \* the calls the REST server can have in progress
    Contents,    \* designs, as far as release_design_state_hash tells them apart
    Passing,     \* check -> the designs that pass it
    Covered,     \* designs whose components have all their evidence
    Risky,       \* designs that have it only after a risky-package review
    Reviews,     \* review session ids
    Items,       \* checklist items
    Blocking,    \* the blocking ones
    Externals,   \* approval ids that no review issued
    Faults,      \* the records whose durable write may raise
    Budgets,     \* bounds << edits and checks, review calls, requests used >>
    None

Checks == { "erc", "drc" }
FaultKinds == { "design", "evidence", "review", "gate" }
Approving == { "approve", "accept-risk" }
Denying == { "reject", "request-repair", "rollback" }
Marks == { "pending", "approved", "rejected", "waived" }

ASSUME ReleaseAssumption ==
    /\ Passing \in [Checks -> SUBSET Contents]
    /\ Covered \subseteq Contents /\ Risky \subseteq Contents
    /\ Blocking \subseteq Items
    /\ Externals \cap Reviews = {}
    /\ Faults \subseteq FaultKinds
    /\ Budgets \subseteq Nat \X Nat \X SUBSET Requests
    /\ None \notin Contents \cup Approving \cup Denying

VARIABLES
    design,     \* the design in the REST server's memory
    evidence,   \* session["erc_evidence"], session["drc_evidence"]
    status,     \* session["validation_status"]: a copy of both
    review,     \* the review cache; of its decisions the latest
    bindings,   \* session["release_approval_bindings"], never written to disk
    dDesign, dEvidence, dStatus, dReview,   \* the durable records
    pc, val,    \* per request: next step and its operand
    left,       \* what remains of the behaviour's budget
    clock,      \* decisions made so far: the time and the id of the next one
    decided,    \* review -> the decision a caller was told, or None
    exported,   \* the export the last step made: what, under which approval,
                \* by which server; or None
    contended,  \* reviews that two calls changed at once
    crossed     \* the design was edited, or a review decided, while another
                \* call was between reading and acting on it

memory == << design, evidence, status, review, bindings >>
disk == << dDesign, dEvidence, dStatus, dReview >>
calls == << pc, val, left, clock >>
ghosts == << contended, crossed >>
vars == << memory, disk, calls, decided, exported, ghosts >>

Evidence == [hash : Contents, ok : BOOLEAN]
Unchecked == [k \in Checks |-> None]
Statuses == [Checks -> Evidence \cup {None}]
Decisions == Approving \cup Denying
ReviewRecord == [hash : Contents, marks : [Items -> Marks],
                 decision : Decisions \cup {None}, at : Nat]
Told == [decision : Decisions, at : Nat] \cup {None}

\* An approval id is an external one or that of an approving decision.
Approvals == Externals \cup Nat
Bindings == [approval : Approvals, hash : Contents, seen : Decisions \cup {None}]

Operands ==
    [check : Checks, ok : BOOLEAN]
    \cup [check : Checks, entry : Evidence]
    \cup [copy : Statuses]
    \cup [review : Reviews, item : Items, mark : Marks]
    \cup [review : Reviews, decision : Decisions]
    \cup [review : Reviews, told : Told]
    \cup [review : Reviews, told : Told, record : ReviewRecord]
    \cup [identity : Bindings]
    \cup [approval : Approvals]

Exports == [content : Contents, approval : Approvals, via : { "rest", "mcp" }]

ASSUME NoneIsNotARecord == None \notin Evidence \cup ReviewRecord \cup Exports

ReviewSteps == { "mark", "decide", "dump", "save" }
GateSteps == { "admitted", "gated" }
Steps == { "idle", "checked", "saveEvidence", "recorded", "saveStatus" } \cup ReviewSteps \cup GateSteps

TypeOK ==
    /\ design \in Contents /\ dDesign \in Contents
    /\ { evidence, status, dEvidence, dStatus } \subseteq Statuses
    /\ { review, dReview } \subseteq [Reviews -> ReviewRecord \cup {None}]
    /\ bindings \subseteq Bindings
    /\ pc \in [Requests -> Steps]
    /\ val \in [Requests -> Operands \cup {None}]
    /\ left \in Nat \X Nat \X SUBSET Requests
    /\ clock \in Nat
    /\ decided \in [Reviews -> Told]
    /\ exported \in Exports \cup {None}
    /\ contended \subseteq Reviews
    /\ crossed \in BOOLEAN

Init ==
    /\ design \in Contents /\ dDesign = design
    /\ evidence = Unchecked /\ status = Unchecked
    /\ dEvidence = Unchecked /\ dStatus = Unchecked
    /\ review = [v \in Reviews |-> None] /\ dReview = review
    /\ bindings = {}
    /\ pc = [r \in Requests |-> "idle"]
    /\ val = [r \in Requests |-> None]
    /\ left \in Budgets
    /\ clock = 0
    /\ decided = [v \in Reviews |-> None]
    /\ exported = None
    /\ contended = {} /\ crossed = FALSE

Saves(kind, saved) == saved \/ kind \in Faults

Work == left[1] > 0 /\ left' = << left[1] - 1, left[2], left[3] >>
ReviewCall == left[2] > 0 /\ left' = << left[1], left[2] - 1, left[3] >>

Goto(r, step, operand) ==
    /\ pc' = [pc EXCEPT ![r] = step]
    /\ val' = [val EXCEPT ![r] = operand]

\* The call returns or raises.
Finish(r) == Goto(r, "idle", None)

-----------------------------------------------------------------------------
(* Edits and checks *)

\* An edit in place by another tool of the session.
EditDesign(r, c, saved) ==
    /\ Work
    /\ Saves("design", saved)
    /\ pc[r] = "idle"
    /\ c # design
    /\ design' = c
    /\ dDesign' = IF saved THEN c ELSE dDesign
    /\ UNCHANGED << evidence, status, review, bindings, dEvidence, dStatus, dReview,
                    pc, val, clock, decided >>

\* tool_erc_validate or the DRC tool: the engine has run on the design.
RunCheck(r, k) ==
    /\ Work
    /\ pc[r] = "idle"
    /\ Goto(r, "checked", [check |-> k, ok |-> design \in Passing[k]])
    /\ UNCHANGED << memory, disk, clock, decided >>

\* The evidence takes the hash of the design the session holds now.
RecordEvidence(r) ==
    LET e == [hash |-> design, ok |-> val[r].ok] IN
    /\ pc[r] = "checked"
    /\ evidence' = [evidence EXCEPT ![val[r].check] = e]
    /\ Goto(r, "saveEvidence", [check |-> val[r].check, entry |-> e])
    /\ UNCHANGED << design, status, review, bindings, disk, left, clock, decided >>

SaveEvidence(r, saved) ==
    /\ Saves("evidence", saved)
    /\ pc[r] = "saveEvidence"
    /\ IF saved
       THEN /\ dEvidence' = [dEvidence EXCEPT ![val[r].check] = val[r].entry]
            /\ Goto(r, "recorded", None)
       ELSE Finish(r) /\ UNCHANGED dEvidence
    /\ UNCHANGED << memory, dDesign, dStatus, dReview, left, clock, decided >>

RecordStatus(r) ==
    /\ pc[r] = "recorded"
    /\ status' = evidence
    /\ Goto(r, "saveStatus", [copy |-> evidence])
    /\ UNCHANGED << design, evidence, review, bindings, disk, left, clock, decided >>

SaveStatus(r, saved) ==
    /\ Saves("evidence", saved)
    /\ pc[r] = "saveStatus"
    /\ dStatus' = IF saved THEN val[r].copy ELSE dStatus
    /\ Finish(r)
    /\ UNCHANGED << memory, dDesign, dEvidence, dReview, left, clock, decided >>

-----------------------------------------------------------------------------
(* Review sessions: check, change the cached object, dump it, save the dump *)

SetReview(v, record) ==
    /\ review' = [review EXCEPT ![v] = record]
    /\ UNCHANGED << design, evidence, status, bindings, disk, decided >>

create_review_session(r, v) ==
    /\ ReviewCall
    /\ pc[r] = "idle"
    /\ review[v] = None /\ dReview[v] = None
    /\ SetReview(v, [hash |-> design, marks |-> [i \in Items |-> "pending"],
                     decision |-> None, at |-> 0])
    /\ Goto(r, "dump", [review |-> v, told |-> None])
    /\ UNCHANGED clock

\* Mutant: a finalized review session can be changed.
MutableMutant(v) == review[v] # None

Mutable(v) == review[v] # None /\ review[v].decision = None

\* approve_checklist_item, reject_checklist_item and add_waiver.
MarkItem(r, v, i, mark) ==
    /\ ReviewCall
    /\ pc[r] = "idle"
    /\ Mutable(v)
    /\ Goto(r, "mark", [review |-> v, item |-> i, mark |-> mark])
    /\ UNCHANGED << memory, disk, clock, decided >>

SetMark(r) ==
    LET v == val[r].review IN
    /\ pc[r] = "mark"
    /\ SetReview(v, [review[v] EXCEPT !.marks[val[r].item] = val[r].mark])
    /\ Goto(r, "dump", [review |-> v, told |-> None])
    /\ UNCHANGED << left, clock >>

MayDecide(v, d) ==
    LET marks == review[v].marks IN
    d \in Approving =>
        /\ \A i \in Items : marks[i] # "rejected"
        /\ \A i \in Blocking : marks[i] \in { "approved", "waived" }
        /\ d = "accept-risk" => \E i \in Items : marks[i] = "waived"

resolve_decision(r, v, d) ==
    /\ ReviewCall
    /\ pc[r] = "idle"
    /\ Mutable(v)
    /\ MayDecide(v, d)
    /\ Goto(r, "decide", [review |-> v, decision |-> d])
    /\ UNCHANGED << memory, disk, clock, decided >>

\* session.decisions.append: the new decision is the latest one.
AppendDecision(r) ==
    LET v == val[r].review
        d == [decision |-> val[r].decision, at |-> clock + 1] IN
    /\ pc[r] = "decide"
    /\ clock' = clock + 1
    /\ SetReview(v, [review[v] EXCEPT !.decision = d.decision, !.at = d.at])
    /\ Goto(r, "dump", [review |-> v, told |-> d])
    /\ UNCHANGED left

\* session.model_dump ...
DumpReview(r) ==
    /\ pc[r] = "dump"
    /\ Goto(r, "save", [review |-> val[r].review, told |-> val[r].told,
                        record |-> review[val[r].review]])
    /\ UNCHANGED << memory, disk, left, clock, decided >>

\* ... and upsert_session_record; only then is the decision answered.
SaveReview(r, saved) ==
    LET v == val[r].review IN
    /\ Saves("review", saved)
    /\ pc[r] = "save"
    /\ dReview' = IF saved THEN [dReview EXCEPT ![v] = val[r].record] ELSE dReview
    /\ decided' = IF saved /\ val[r].told # None
                  THEN [decided EXCEPT ![v] = val[r].told] ELSE decided
    /\ Finish(r)
    /\ UNCHANGED << memory, dDesign, dEvidence, dStatus, left, clock >>

-----------------------------------------------------------------------------
(* The gate and the exports *)

\* Decided reviews of this state, latest first.
Terminal == { v \in Reviews : review[v] # None /\ review[v].decision # None }
Latest(S) == CHOOSE v \in S : \A w \in S : review[w].at <= review[v].at

\* Mutant: an approval that matches is current whatever state it is for.
ReviewEvidenceMutant(c, a) ==
    LET current == { v \in Terminal : review[v].hash = c }
        shown == IF current = {} THEN None ELSE review[Latest(current)].decision
    IN  IF shown \in Denying THEN [is |-> "blocked", decision |-> shown]
        ELSE [is |-> "approved", decision |-> shown]

\* resolve_engineering_review_evidence: "blocked", "stale", "approved" or
\* "pending", and the decision the evidence shows.
ReviewEvidence(c, a) ==
    LET current == { v \in Terminal : review[v].hash = c }
        matching == { v \in Terminal : review[v].decision \in Approving /\ review[v].at = a }
        shown == IF current = {} THEN None ELSE review[Latest(current)].decision
    IN  IF shown \in Denying THEN [is |-> "blocked", decision |-> shown]
        ELSE IF matching # {}
             THEN [is |-> IF matching \subseteq current THEN "approved" ELSE "stale",
                   decision |-> review[CHOOSE v \in matching : TRUE].decision]
             ELSE [is |-> "pending", decision |-> shown]

\* Mutant: the hash the evidence was recorded for is not compared.
CurrentMutant(s, c) == \A k \in Checks : s[k] # None /\ s[k].ok

\* require_current_validation on a validation status.
Current(s, c) == \A k \in Checks : s[k] # None /\ s[k].hash = c /\ s[k].ok

CoverageComplete(c, reviewed) == c \in Covered \/ (c \in Risky /\ reviewed)

\* Every id that is presented: a decision's id can be read through GET as soon
\* as the decision is in the cache, saved or not.
Presented == Externals \cup 1..clock

\* _require_release_gate reads the validation status, the hash and the reviews ...
AdmitRelease(r, a) ==
    LET e == ReviewEvidence(design, a) IN
    /\ pc[r] = "idle"
    /\ e.is \notin { "blocked", "stale" }
    /\ Current(status, design)
    /\ Goto(r, "admitted", [identity |-> [approval |-> a, hash |-> design, seen |-> e.decision]])
    /\ UNCHANGED << memory, disk, left, clock, decided >>

\* ... then looks at the components and the fabrication policy (a profile in the
\* DRC evidence or an approved skip, `policy`) and binds the approval.  The
\* binding stays when the record write raises.
BindApproval(r, policy, reviewed, saved) ==
    LET identity == val[r].identity IN
    /\ Saves("gate", saved)
    /\ pc[r] = "admitted"
    /\ IF /\ CoverageComplete(design, reviewed)
          /\ policy
          /\ \A b \in bindings : b.approval = identity.approval => b = identity
       THEN /\ bindings' = bindings \cup {identity}
            /\ IF saved THEN Goto(r, "gated", [approval |-> identity.approval]) ELSE Finish(r)
       ELSE Finish(r) /\ UNCHANGED bindings
    /\ UNCHANGED << design, evidence, status, review, disk, left, clock, decided >>

\* The export writes the object the session holds.
ExportFiles(r) ==
    /\ pc[r] = "gated"
    /\ exported' = [content |-> design, approval |-> val[r].approval, via |-> "rest"]
    /\ Finish(r)
    /\ UNCHANGED << memory, disk, left, clock, decided >>

\* The same tool in a worker of an MCP server that has just loaded the
\* session: there is no review store, so the review status is "pending", and
\* no binding yet.
IsolatedExport(a, reviewed) ==
    /\ Current(dStatus, dDesign)
    /\ CoverageComplete(dDesign, reviewed)
    /\ exported' = [content |-> dDesign, approval |-> a, via |-> "mcp"]
    /\ UNCHANGED << memory, disk, calls, decided >>

\* Mutant: a restarted server does not read review sessions back.
RestartMutant ==
    /\ design' = dDesign /\ evidence' = dEvidence /\ status' = dStatus
    /\ review' = [v \in Reviews |-> None]
    /\ bindings' = {}
    /\ pc' = [r \in Requests |-> "idle"]
    /\ val' = [r \in Requests |-> None]
    /\ UNCHANGED << disk, left, clock, decided >>

\* The REST server is killed and started again.
Restart ==
    /\ design' = dDesign /\ evidence' = dEvidence /\ status' = dStatus /\ review' = dReview
    /\ bindings' = {}
    /\ pc' = [r \in Requests |-> "idle"]
    /\ val' = [r \in Requests |-> None]
    /\ UNCHANGED << disk, left, clock, decided >>

-----------------------------------------------------------------------------
(* The history variables, which no action reads.                            *)

\* r changes what another call has read and will act on.
Crosses(r) ==
    \E q \in Requests \ {r} :
        \/ design' # design /\ pc[q] \in GateSteps \cup { "checked" }
        \/ pc[r] = "decide" /\ pc[q] \in GateSteps

Contention ==
    { v \in Reviews : \E r, q \in Requests :
        /\ r # q
        /\ pc[r] \in ReviewSteps /\ val[r].review = v
        /\ pc[q] \in ReviewSteps /\ val[q].review = v }

Remember(r) ==
    /\ crossed' = (crossed \/ Crosses(r))
    /\ contended' = contended \cup Contention'

ReviewStep(r) ==
    \/ \E v \in Reviews : \/ create_review_session(r, v)
                          \/ \E i \in Items, mark \in Marks \ {"pending"} : MarkItem(r, v, i, mark)
                          \/ \E d \in Decisions : resolve_decision(r, v, d)
    \/ SetMark(r) \/ AppendDecision(r) \/ DumpReview(r)
    \/ \E saved \in BOOLEAN : SaveReview(r, saved)

CheckStep(r) ==
    \/ \E c \in Contents, saved \in BOOLEAN : EditDesign(r, c, saved)
    \/ \E k \in Checks : RunCheck(r, k)
    \/ RecordEvidence(r) \/ RecordStatus(r)
    \/ \E saved \in BOOLEAN : SaveEvidence(r, saved) \/ SaveStatus(r, saved)

GateStep(r) ==
    \/ \E a \in Presented : AdmitRelease(r, a)
    \/ \E policy, reviewed, saved \in BOOLEAN : BindApproval(r, policy, reviewed, saved)

RequestStep(r) ==
    /\ \/ (ReviewStep(r) \/ CheckStep(r) \/ GateStep(r)) /\ exported' = None
       \/ ExportFiles(r)
    /\ Remember(r)

OtherStep ==
    /\ \/ \E a \in Presented, reviewed \in BOOLEAN : IsolatedExport(a, reviewed)
       \/ Restart /\ exported' = None
    /\ UNCHANGED ghosts

Next == (\E r \in left[3] : RequestStep(r)) \/ OtherStep

Spec == Init /\ [][Next]_vars

-----------------------------------------------------------------------------
(* Properties *)

\* Whatever is exported, by the REST server or by an MCP server that loaded the
\* session from disk, passes ERC and DRC as it stands: evidence, its copy in
\* the validation status and the design are saved one by one, and no failed
\* write, restart or other call pairs a verdict with another design, unless an
\* edit came between a check and its record or between a gate and its export.
ReleasedIsSound ==
    exported # None /\ ~ crossed =>
        /\ \A k \in Checks : exported.content \in Passing[k]
        /\ exported.content \in Covered \cup Risky

\* An approval that a reviewer was given releases, from the REST server, only
\* the state that was reviewed, also after edits and restarts that lost the
\* binding of the approval.
ApprovalReleasesReviewedState ==
    exported # None /\ ~ crossed =>
        \A v \in Reviews \ contended :
            /\ exported.via = "rest"
            /\ decided[v] # None /\ decided[v].at = exported.approval
            /\ decided[v].decision \in Approving
            => dReview[v].hash = exported.content

\* A decision a reviewer was told is final: no call and no restart changes or
\* drops it, in memory or on disk, whatever calls on other reviews overlap.
DecisionsAreFinal ==
    \A v \in Reviews \ contended :
        decided[v] # None =>
            /\ review[v] # None
            /\ review[v].decision = decided[v].decision /\ review[v].at = decided[v].at
            /\ dReview[v] = review[v]

\* A denying decision a reviewer was told about holds until a later decision
\* on the same state.
Denied(c) ==
    \E v \in Reviews \ contended :
        /\ decided[v] # None /\ decided[v].decision \in Denying /\ dReview[v].hash = c
        /\ \A w \in Terminal : review[w].hash = c => review[w].at <= review[v].at

\* The REST server never exports a state that a reviewer denied before the
\* gate, whatever approval the caller presents; a restart does not forget the
\* denial.
DeniedIsNotReleased ==
    [][exported' # None /\ exported'.via = "rest" /\ ~ crossed => ~ Denied(exported'.content)]_vars

\* The same of every export, whichever server makes it.
DenialBlocksEveryExport ==
    [][exported' # None /\ ~ crossed => ~ Denied(exported'.content)]_vars

\* _record_erc_evidence, "Record ERC evidence bound to the exact design state it
\* evaluated": evidence that passed carries the hash of a design that passes.
EvidenceIsBound ==
    \A k \in Checks : evidence[k] # None /\ evidence[k].ok => evidence[k].hash \in Passing[k]

\* resolve_decision, "Record one immutable, state-bound terminal engineering
\* review decision": a decision that was answered stays the review's decision.
DecisionIsImmutable ==
    \A v \in Reviews : decided[v] # None /\ review[v] # None => review[v].at = decided[v].at
=============================================================================
