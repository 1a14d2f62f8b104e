------------------------- MODULE ReleaseGateProofs -------------------------
(***************************************************************************)
(* Theorems about the release gate, for any number of overlapping calls,   *)
(* any set of designs, checks' verdicts, reviews, checklists and write     *)
(* failures, and any restarts.                                             *)
(***************************************************************************)
EXTENDS ReleaseGate, TLAPS, WellFoundedInduction

-----------------------------------------------------------------------------
(* The inductive invariants.                                               *)

\* The operand a call carries from one step to the next.
Operand(r) ==
    /\ pc[r] = "checked" => val[r] \in [check : Checks, ok : BOOLEAN]
    /\ pc[r] = "saveEvidence" => val[r] \in [check : Checks, entry : Evidence]
    /\ pc[r] = "saveStatus" => val[r] \in [copy : Statuses]
    /\ pc[r] = "mark" => val[r] \in [review : Reviews, item : Items, mark : Marks]
    /\ pc[r] = "decide" => val[r] \in [review : Reviews, decision : Decisions]
    /\ pc[r] = "dump" => val[r] \in [review : Reviews, told : Told]
    /\ pc[r] = "save" => val[r] \in [review : Reviews, told : Told, record : ReviewRecord]
    /\ pc[r] = "admitted" => val[r] \in [identity : Bindings]
    /\ pc[r] = "gated" => val[r] \in [approval : Approvals]
    /\ pc[r] \in { "mark", "decide", "dump" } => review[val[r].review] # None

\* Without overlapping calls on v, an answered decision is the one in memory
\* and on disk ...
Settled(v) ==
    decided[v] # None =>
        /\ review[v] # None
        /\ review[v].decision = decided[v].decision /\ review[v].at = decided[v].at
        /\ dReview[v] = review[v]

\* ... because a call that works on v finds it as it left it.
ReviewTail(r) ==
    /\ pc[r] \in { "mark", "decide" } => review[val[r].review].decision = None
    /\ pc[r] \in { "dump", "save" } /\ val[r].told # None =>
          /\ review[val[r].review] # None
          /\ review[val[r].review].decision = val[r].told.decision
          /\ review[val[r].review].at = val[r].told.at
    /\ pc[r] = "save" => val[r].record = review[val[r].review]

\* The decisions of v in memory, on disk and in a dump under way are dated ...
Copies(v) ==
    { review[v], dReview[v] }
    \cup { val[r].record : r \in { q \in Requests : pc[q] = "save" /\ val[q].review = v } }
Dates(v) == { x.at : x \in { y \in Copies(v) : y # None /\ y.decision # None } }

\* ... and no two reviews are decided at the same time, whatever overlaps.
Dated ==
    /\ \A v \in Reviews : \A n \in Dates(v) : n <= clock
    /\ \A v, w \in Reviews : v # w => Dates(v) \cap Dates(w) = {}

ReviewInv ==
    /\ TypeOK
    /\ Contention \subseteq contended
    /\ Dated
    /\ \A r \in Requests : Operand(r)
    /\ \A v \in Reviews \ contended : Settled(v)
    /\ \A r \in Requests : pc[r] \in ReviewSteps /\ val[r].review \notin contended => ReviewTail(r)

\* Evidence that says ok is for a design that passes.
Truthful(s) == \A k \in Checks : s[k] # None /\ s[k].ok => s[k].hash \in Passing[k]

\* The latest decision on c, answered or not, is a denial.
Refused(c) ==
    \E v \in Terminal :
        /\ review[v].decision \in Denying /\ review[v].hash = c
        /\ \A w \in Terminal : review[w].hash = c => review[w].at <= review[v].at

\* An approval with id a is for the state c.
Matches(a, c) ==
    \A v \in Terminal : review[v].decision \in Approving /\ review[v].at = a => review[v].hash = c

Asked(r) == IF pc[r] = "admitted" THEN val[r].identity.approval ELSE val[r].approval

\* What a call may rely on as long as nobody edits or decides in between.
CheckTail(r) ==
    /\ pc[r] = "checked" => (val[r].ok => design \in Passing[val[r].check])
    /\ pc[r] = "saveEvidence" =>
          (val[r].entry.ok => val[r].entry.hash \in Passing[val[r].check])
    /\ pc[r] = "saveStatus" => Truthful(val[r].copy)

GateTail(r) ==
    pc[r] \in GateSteps =>
        /\ \A k \in Checks : design \in Passing[k]
        /\ ~ Refused(design)
        /\ Matches(Asked(r), design)
        /\ pc[r] = "gated" => design \in Covered \cup Risky

Bound ==
    /\ Truthful(evidence) /\ Truthful(status) /\ Truthful(dEvidence) /\ Truthful(dStatus)
    /\ \A r \in Requests : CheckTail(r)
    /\ \A r \in Requests : GateTail(r)

GateInv ==
    /\ ReviewInv
    /\ crossed \/ Bound
    /\ ReleasedIsSound
    /\ ApprovalReleasesReviewedState

-----------------------------------------------------------------------------
(* The clock.                                                              *)

\* A set of numbers with an upper bound has a greatest element.
LEMMA BoundedHasMax ==
    ASSUME NEW S \in SUBSET Nat, S # {}, NEW b \in Nat, \A m \in S : m <= b
    PROVE  \E n \in S : \A m \in S : m <= n
<1> DEFINE U == { k \in Nat : \A m \in S : m <= k }
<1>1. U \subseteq Nat /\ U # {}
  OBVIOUS
<1>2. PICK k \in U : \A y \in U : ~ (<< y, k >> \in OpToRel(<, Nat))
  BY <1>1, NatLessThanWellFounded, WFMin, Zenon
<1>3. \A y \in U : ~ (y < k)
  BY <1>1, <1>2 DEF OpToRel
<1>4. CASE k = 0
  <2>1. \A m \in S : m = 0
    BY <1>4
  <2>2. PICK n \in S : TRUE
    OBVIOUS
  <2> QED
    BY <2>1, <2>2
<1>5. CASE k # 0
  <2>1. k - 1 \in Nat /\ k - 1 \notin U
    BY <1>3, <1>5
  <2>2. PICK m \in S : ~ (m <= k - 1)
    BY <2>1
  <2>3. m = k
    BY <2>1, <2>2
  <2> QED
    BY <2>3
<1> QED
  BY <1>4, <1>5


-----------------------------------------------------------------------------
(* The shape of a step.                                                    *)

\* The call that steps goes on with one operand, or only edits the design.
LEMMA StepShape ==
    ASSUME NEW r, RequestStep(r)
    PROVE  (\E step, operand : Goto(r, step, operand)) \/ UNCHANGED << pc, val >>
<1>1. CASE ReviewStep(r)
  BY <1>1 DEF ReviewStep, create_review_session, MarkItem, resolve_decision, SetMark,
     AppendDecision, DumpReview, SaveReview, Finish
<1>2. CASE CheckStep(r)
  BY <1>2 DEF CheckStep, EditDesign, RunCheck, RecordEvidence, RecordStatus, SaveEvidence,
     SaveStatus, Finish
<1>3. CASE GateStep(r)
  BY <1>3 DEF GateStep, AdmitRelease, BindApproval, Finish
<1>4. CASE ExportFiles(r)
  BY <1>4 DEF ExportFiles, Finish
<1> QED
  BY <1>1, <1>2, <1>3, <1>4 DEF RequestStep

LEMMA Frame ==
    ASSUME TypeOK, NEW r \in Requests, RequestStep(r), NEW s \in Requests, s # r
    PROVE  pc'[s] = pc[s] /\ val'[s] = val[s]
BY StepShape DEF Goto, TypeOK

\* What a request may have changed of the reviews: a step of a review call.
LEMMA ReviewChanges ==
    ASSUME NEW r, RequestStep(r)
    PROVE  \/ UNCHANGED << review, dReview, decided, clock >>
           \/ \E v \in Reviews : create_review_session(r, v)
           \/ SetMark(r) \/ AppendDecision(r) \/ \E saved \in BOOLEAN : SaveReview(r, saved)
<1> USE DEF memory, disk
<1>1. CASE ReviewStep(r)
  BY <1>1 DEF ReviewStep, MarkItem, resolve_decision, DumpReview
<1>2. CASE CheckStep(r)
  BY <1>2
     DEF CheckStep, EditDesign, RunCheck, RecordEvidence, RecordStatus, SaveEvidence, SaveStatus
<1>3. CASE GateStep(r)
  BY <1>3 DEF GateStep, AdmitRelease, BindApproval
<1>4. CASE ExportFiles(r)
  BY <1>4 DEF ExportFiles
<1> QED
  BY <1>1, <1>2, <1>3, <1>4 DEF RequestStep

-----------------------------------------------------------------------------
(* Types.                                                                  *)

LEMMA LatestExists ==
    ASSUME TypeOK, Dated, NEW S \in SUBSET Terminal, S # {}
    PROVE  Latest(S) \in S /\ \A w \in S : review[w].at <= review[Latest(S)].at
<1> DEFINE T == { review[v].at : v \in S }
<1>1. \A v \in S : v \in Reviews /\ review[v] \in ReviewRecord /\ review[v].at \in Dates(v)
  BY DEF Terminal, TypeOK, Dates, Copies
<1>2. T \in SUBSET Nat /\ T # {} /\ \A m \in T : m <= clock
  BY <1>1 DEF ReviewRecord, Dated
<1>3. PICK n \in T : \A m \in T : m <= n
  BY <1>2, BoundedHasMax DEF TypeOK
<1>4. \E v \in S : \A w \in S : review[w].at <= review[v].at
  BY <1>3
<1> QED
  BY <1>4 DEF Latest

LEMMA EvidenceType ==
    ASSUME TypeOK, Dated, NEW c, NEW a
    PROVE  ReviewEvidence(c, a).decision \in Decisions \cup {None}
<1> DEFINE current == { v \in Terminal : review[v].hash = c }
           matching == { v \in Terminal : review[v].decision \in Approving /\ review[v].at = a }
           shown == IF current = {} THEN None ELSE review[Latest(current)].decision
           match == review[CHOOSE v \in matching : TRUE].decision
<1>1. \A v \in Terminal : review[v].decision \in Decisions \cup {None}
  BY DEF Terminal, TypeOK, ReviewRecord
<1>2. shown \in Decisions \cup {None}
  BY <1>1, LatestExists
<1>3. matching # {} => match \in Decisions \cup {None}
  BY <1>1
<1> HIDE DEF shown, match
<1>4. ReviewEvidence(c, a).decision = shown \/ (matching # {} /\ ReviewEvidence(c, a).decision = match)
  BY DEF ReviewEvidence, shown, match
<1> QED
  BY <1>2, <1>3, <1>4

LEMMA WorkType ==
    ASSUME TypeOK, Work \/ ReviewCall
    PROVE  left' \in Nat \X Nat \X SUBSET Requests
BY DEF TypeOK, Work, ReviewCall

\* A call that finishes, and one that goes on with an operand.
LEMMA FinishType ==
    ASSUME TypeOK, NEW r \in Requests, Finish(r)
    PROVE  /\ pc' \in [Requests -> Steps] /\ val' \in [Requests -> Operands \cup {None}]
           /\ pc'[r] = "idle"
BY DEF TypeOK, Finish, Goto, Steps

LEMMA GotoType ==
    ASSUME TypeOK, NEW r \in Requests, NEW step \in Steps, NEW operand \in Operands \cup {None},
           Goto(r, step, operand)
    PROVE  /\ pc' \in [Requests -> Steps] /\ val' \in [Requests -> Operands \cup {None}]
           /\ pc'[r] = step /\ val'[r] = operand
BY DEF TypeOK, Goto

\* What one step of a call leaves: typed state and a typed operand.
Typed(r) ==
    /\ { design', dDesign' } \subseteq Contents
    /\ { evidence', status', dEvidence', dStatus' } \subseteq Statuses
    /\ { review', dReview' } \subseteq [Reviews -> ReviewRecord \cup {None}]
    /\ bindings' \subseteq Bindings
    /\ pc' \in [Requests -> Steps] /\ val' \in [Requests -> Operands \cup {None}]
    /\ left' \in Nat \X Nat \X SUBSET Requests
    /\ clock' \in Nat
    /\ decided' \in [Reviews -> Told]
    /\ Operand(r)'

LEMMA ReviewTypes == ASSUME ReviewInv, NEW r \in Requests, ReviewStep(r) PROVE Typed(r)
<1> USE DEF memory, disk
<1>0. TypeOK /\ Operand(r)
  BY DEF ReviewInv
<1>1. ASSUME NEW v \in Reviews, create_review_session(r, v) PROVE Typed(r)
  <2> DEFINE q == [hash |-> design, marks |-> [i \in Items |-> "pending"], decision |-> None, at |-> 0]
             o == [review |-> v, told |-> None]
  <2>1. q \in ReviewRecord
    BY <1>0 DEF TypeOK, ReviewRecord, Marks
  <2>2. o \in [review : Reviews, told : Told] /\ o.review = v
    BY DEF Told
  <2>3. q # None
    BY <2>1, NoneIsNotARecord
  <2>4. review' = [review EXCEPT ![v] = q] /\ Goto(r, "dump", o)
    BY <1>1 DEF create_review_session, SetReview
  <2> HIDE DEF q, o
  <2>5. /\ pc' \in [Requests -> Steps] /\ val' \in [Requests -> Operands \cup {None}]
        /\ pc'[r] = "dump" /\ val'[r] = o
    BY <1>0, <2>2, <2>4, GotoType DEF Steps, ReviewSteps, Operands
  <2>6. review' \in [Reviews -> ReviewRecord \cup {None}] /\ review'[v] # None
    BY <1>0, <2>1, <2>3, <2>4 DEF TypeOK
  <2>7. Operand(r)'
    BY <2>2, <2>5, <2>6 DEF Operand
  <2> QED
    BY <1>0, <1>1, <2>5, <2>6, <2>7, WorkType DEF create_review_session, SetReview, Typed, TypeOK
<1>2. ASSUME NEW v \in Reviews, NEW i \in Items, NEW mark \in Marks, MarkItem(r, v, i, mark)
      PROVE  Typed(r)
  <2> DEFINE o == [review |-> v, item |-> i, mark |-> mark]
  <2>1. o \in [review : Reviews, item : Items, mark : Marks] /\ o.review = v
    OBVIOUS
  <2>2. Goto(r, "mark", o) /\ review' = review /\ review[v] # None
    BY <1>2 DEF MarkItem, Mutable
  <2> HIDE DEF o
  <2>3. /\ pc' \in [Requests -> Steps] /\ val' \in [Requests -> Operands \cup {None}]
        /\ pc'[r] = "mark" /\ val'[r] = o
    BY <1>0, <2>1, <2>2, GotoType DEF Steps, ReviewSteps, Operands
  <2>4. Operand(r)'
    BY <2>1, <2>2, <2>3 DEF Operand
  <2> QED
    BY <1>0, <1>2, <2>3, <2>4, WorkType DEF MarkItem, Typed, TypeOK
<1>3. ASSUME NEW v \in Reviews, NEW d \in Decisions, resolve_decision(r, v, d) PROVE Typed(r)
  <2> DEFINE o == [review |-> v, decision |-> d]
  <2>1. o \in [review : Reviews, decision : Decisions] /\ o.review = v
    OBVIOUS
  <2>2. Goto(r, "decide", o) /\ review' = review /\ review[v] # None
    BY <1>3 DEF resolve_decision, Mutable
  <2> HIDE DEF o
  <2>3. /\ pc' \in [Requests -> Steps] /\ val' \in [Requests -> Operands \cup {None}]
        /\ pc'[r] = "decide" /\ val'[r] = o
    BY <1>0, <2>1, <2>2, GotoType DEF Steps, ReviewSteps, Operands
  <2>4. Operand(r)'
    BY <2>1, <2>2, <2>3 DEF Operand
  <2> QED
    BY <1>0, <1>3, <2>3, <2>4, WorkType DEF resolve_decision, Typed, TypeOK
<1>4. ASSUME SetMark(r) PROVE Typed(r)
  <2> DEFINE v == val[r].review
             q == [review[v] EXCEPT !.marks[val[r].item] = val[r].mark]
             o == [review |-> v, told |-> None]
  <2>1. v \in Reviews /\ val[r].item \in Items /\ val[r].mark \in Marks /\ review[v] \in ReviewRecord
    BY <1>0, <1>4 DEF SetMark, Operand, TypeOK
  <2>2. q \in ReviewRecord
    BY <2>1 DEF ReviewRecord
  <2>3. o \in [review : Reviews, told : Told] /\ o.review = v
    BY <2>1 DEF Told
  <2>4. q # None
    BY <2>2, NoneIsNotARecord
  <2>5. review' = [review EXCEPT ![v] = q] /\ Goto(r, "dump", o)
    BY <1>4 DEF SetMark, SetReview
  <2>u. UNCHANGED << design, evidence, status, bindings, disk, decided, left, clock >>
    BY <1>4 DEF SetMark, SetReview
  <2> HIDE DEF v, q, o
  <2>6. /\ pc' \in [Requests -> Steps] /\ val' \in [Requests -> Operands \cup {None}]
        /\ pc'[r] = "dump" /\ val'[r] = o
    BY <1>0, <2>3, <2>5, GotoType DEF Steps, ReviewSteps, Operands
  <2>7. review' \in [Reviews -> ReviewRecord \cup {None}] /\ review'[v] # None
    BY <1>0, <2>1, <2>2, <2>4, <2>5 DEF TypeOK
  <2>8. Operand(r)'
    BY <2>3, <2>6, <2>7 DEF Operand
  <2> QED
    BY <1>0, <2>u, <2>6, <2>7, <2>8 DEF Typed, TypeOK
<1>5. ASSUME AppendDecision(r) PROVE Typed(r)
  <2> DEFINE v == val[r].review
             d == [decision |-> val[r].decision, at |-> clock + 1]
             q == [review[v] EXCEPT !.decision = d.decision, !.at = d.at]
             o == [review |-> v, told |-> d]
  <2>1. v \in Reviews /\ val[r].decision \in Decisions /\ review[v] \in ReviewRecord /\ clock + 1 \in Nat
    BY <1>0, <1>5 DEF AppendDecision, Operand, TypeOK
  <2>2. q \in ReviewRecord
    BY <2>1 DEF ReviewRecord
  <2>3. d \in [decision : Decisions, at : Nat]
    BY <2>1
  <2>4. o \in [review : Reviews, told : Told] /\ o.review = v
    BY <2>1, <2>3 DEF Told
  <2>5. q # None
    BY <2>2, NoneIsNotARecord
  <2>6. review' = [review EXCEPT ![v] = q] /\ Goto(r, "dump", o) /\ clock' = clock + 1
    BY <1>5 DEF AppendDecision, SetReview
  <2>u. UNCHANGED << design, evidence, status, bindings, disk, decided, left >>
    BY <1>5 DEF AppendDecision, SetReview
  <2> HIDE DEF v, d, q, o
  <2>7. /\ pc' \in [Requests -> Steps] /\ val' \in [Requests -> Operands \cup {None}]
        /\ pc'[r] = "dump" /\ val'[r] = o
    BY <1>0, <2>4, <2>6, GotoType DEF Steps, ReviewSteps, Operands
  <2>8. review' \in [Reviews -> ReviewRecord \cup {None}] /\ review'[v] # None
    BY <1>0, <2>1, <2>2, <2>5, <2>6 DEF TypeOK
  <2>9. Operand(r)'
    BY <2>4, <2>7, <2>8 DEF Operand
  <2> QED
    BY <1>0, <2>1, <2>6, <2>u, <2>7, <2>8, <2>9 DEF Typed, TypeOK
<1>6. ASSUME DumpReview(r) PROVE Typed(r)
  <2> DEFINE o == [review |-> val[r].review, told |-> val[r].told, record |-> review[val[r].review]]
  <2>1. o \in [review : Reviews, told : Told, record : ReviewRecord]
    BY <1>0, <1>6 DEF DumpReview, Operand, TypeOK
  <2>2. Goto(r, "save", o)
    BY <1>6 DEF DumpReview
  <2> HIDE DEF o
  <2>3. /\ pc' \in [Requests -> Steps] /\ val' \in [Requests -> Operands \cup {None}]
        /\ pc'[r] = "save" /\ val'[r] = o
    BY <1>0, <2>1, <2>2, GotoType DEF Steps, ReviewSteps, Operands
  <2>4. Operand(r)'
    BY <2>1, <2>3 DEF Operand
  <2> QED
    BY <1>0, <1>6, <2>3, <2>4 DEF DumpReview, Typed, TypeOK
<1>7. ASSUME NEW saved \in BOOLEAN, SaveReview(r, saved) PROVE Typed(r)
  <2>1. val[r].review \in Reviews /\ val[r].record \in ReviewRecord /\ val[r].told \in Told
    BY <1>0, <1>7 DEF SaveReview, Operand
  <2>2. dReview' \in [Reviews -> ReviewRecord \cup {None}] /\ decided' \in [Reviews -> Told]
    BY <1>0, <1>7, <2>1 DEF SaveReview, TypeOK
  <2>3. /\ pc' \in [Requests -> Steps] /\ val' \in [Requests -> Operands \cup {None}]
        /\ pc'[r] = "idle"
    BY <1>0, <1>7, FinishType DEF SaveReview
  <2> QED
    BY <1>0, <1>7, <2>2, <2>3 DEF SaveReview, Typed, TypeOK, Operand
<1> QED
  BY <1>1, <1>2, <1>3, <1>4, <1>5, <1>6, <1>7 DEF ReviewStep

LEMMA CheckTypes == ASSUME ReviewInv, NEW r \in Requests, CheckStep(r) PROVE Typed(r)
<1> USE DEF memory, disk
<1>0. TypeOK /\ Operand(r)
  BY DEF ReviewInv
<1>1. ASSUME NEW c \in Contents, NEW saved \in BOOLEAN, EditDesign(r, c, saved) PROVE Typed(r)
  BY <1>0, <1>1, WorkType DEF EditDesign, Typed, TypeOK, Operand
<1>2. ASSUME NEW k \in Checks, RunCheck(r, k) PROVE Typed(r)
  <2> DEFINE o == [check |-> k, ok |-> design \in Passing[k]]
  <2>1. o \in [check : Checks, ok : BOOLEAN]
    OBVIOUS
  <2>2. Goto(r, "checked", o)
    BY <1>2 DEF RunCheck
  <2> HIDE DEF o
  <2>3. /\ pc' \in [Requests -> Steps] /\ val' \in [Requests -> Operands \cup {None}]
        /\ pc'[r] = "checked" /\ val'[r] = o
    BY <1>0, <2>1, <2>2, GotoType DEF Steps, Operands
  <2>4. Operand(r)'
    BY <2>1, <2>3 DEF Operand
  <2> QED
    BY <1>0, <1>2, <2>3, <2>4, WorkType DEF RunCheck, Typed, TypeOK
<1>3. ASSUME RecordEvidence(r) PROVE Typed(r)
  <2> DEFINE e == [hash |-> design, ok |-> val[r].ok]
             o == [check |-> val[r].check, entry |-> e]
  <2>1. e \in Evidence /\ val[r].check \in Checks
    BY <1>0, <1>3 DEF RecordEvidence, Operand, TypeOK, Evidence
  <2>2. o \in [check : Checks, entry : Evidence]
    BY <2>1
  <2>3. evidence' = [evidence EXCEPT ![val[r].check] = e] /\ Goto(r, "saveEvidence", o)
    BY <1>3 DEF RecordEvidence
  <2> HIDE DEF e, o
  <2>4. /\ pc' \in [Requests -> Steps] /\ val' \in [Requests -> Operands \cup {None}]
        /\ pc'[r] = "saveEvidence" /\ val'[r] = o
    BY <1>0, <2>2, <2>3, GotoType DEF Steps, Operands
  <2>5. Operand(r)'
    BY <2>2, <2>4 DEF Operand
  <2>6. evidence' \in Statuses
    BY <1>0, <2>1, <2>3 DEF TypeOK, Statuses
  <2> QED
    BY <1>0, <1>3, <2>4, <2>5, <2>6 DEF RecordEvidence, Typed, TypeOK
<1>4. ASSUME NEW saved \in BOOLEAN, SaveEvidence(r, saved) PROVE Typed(r)
  <2>1. val[r].check \in Checks /\ val[r].entry \in Evidence
    BY <1>0, <1>4 DEF SaveEvidence, Operand
  <2>2. dEvidence' \in Statuses
    BY <1>0, <1>4, <2>1 DEF SaveEvidence, TypeOK, Statuses
  <2>3. /\ pc' \in [Requests -> Steps] /\ val' \in [Requests -> Operands \cup {None}]
        /\ pc'[r] \in { "idle", "recorded" }
    BY <1>0, <1>4, FinishType, GotoType DEF SaveEvidence, Steps
  <2> QED
    BY <1>0, <1>4, <2>2, <2>3 DEF SaveEvidence, Typed, TypeOK, Operand
<1>5. ASSUME RecordStatus(r) PROVE Typed(r)
  <2> DEFINE o == [copy |-> evidence]
  <2>1. o \in [copy : Statuses]
    BY <1>0 DEF TypeOK
  <2>2. Goto(r, "saveStatus", o)
    BY <1>5 DEF RecordStatus
  <2> HIDE DEF o
  <2>3. /\ pc' \in [Requests -> Steps] /\ val' \in [Requests -> Operands \cup {None}]
        /\ pc'[r] = "saveStatus" /\ val'[r] = o
    BY <1>0, <2>1, <2>2, GotoType DEF Steps, Operands
  <2>4. Operand(r)'
    BY <2>1, <2>3 DEF Operand
  <2> QED
    BY <1>0, <1>5, <2>3, <2>4 DEF RecordStatus, Typed, TypeOK
<1>6. ASSUME NEW saved \in BOOLEAN, SaveStatus(r, saved) PROVE Typed(r)
  <2>1. val[r].copy \in Statuses
    BY <1>0, <1>6 DEF SaveStatus, Operand
  <2>2. /\ pc' \in [Requests -> Steps] /\ val' \in [Requests -> Operands \cup {None}]
        /\ pc'[r] = "idle"
    BY <1>0, <1>6, FinishType DEF SaveStatus
  <2> QED
    BY <1>0, <1>6, <2>1, <2>2 DEF SaveStatus, Typed, TypeOK, Operand
<1> QED
  BY <1>1, <1>2, <1>3, <1>4, <1>5, <1>6 DEF CheckStep

LEMMA GateTypes == ASSUME ReviewInv, NEW r \in Requests, GateStep(r) PROVE Typed(r)
<1> USE DEF memory, disk
<1>0. TypeOK /\ Dated /\ Operand(r)
  BY DEF ReviewInv
<1>1. ASSUME NEW a \in Presented, AdmitRelease(r, a) PROVE Typed(r)
  <2> DEFINE d == ReviewEvidence(design, a).decision
             b == [approval |-> a, hash |-> design, seen |-> d]
             o == [identity |-> b]
  <2>1. d \in Decisions \cup {None}
    BY <1>0, EvidenceType
  <2>2. Goto(r, "admitted", o)
    BY <1>1 DEF AdmitRelease
  <2> HIDE DEF d
  <2>3. a \in Approvals
    BY <1>0 DEF Presented, Approvals, TypeOK
  <2>4. o \in [identity : Bindings]
    BY <1>0, <2>1, <2>3 DEF TypeOK, Bindings
  <2> HIDE DEF o
  <2>5. /\ pc' \in [Requests -> Steps] /\ val' \in [Requests -> Operands \cup {None}]
        /\ pc'[r] = "admitted" /\ val'[r] = o
    BY <1>0, <2>2, <2>4, GotoType DEF Steps, GateSteps, Operands
  <2>6. Operand(r)'
    BY <2>4, <2>5 DEF Operand
  <2> QED
    BY <1>0, <1>1, <2>5, <2>6 DEF AdmitRelease, Typed, TypeOK
<1>2. ASSUME NEW policy \in BOOLEAN, NEW reviewed \in BOOLEAN, NEW saved \in BOOLEAN,
             BindApproval(r, policy, reviewed, saved)
      PROVE  Typed(r)
  <2> DEFINE o == [approval |-> val[r].identity.approval]
  <2>1. val[r].identity \in Bindings
    BY <1>0, <1>2 DEF BindApproval, Operand
  <2>2. o \in [approval : Approvals]
    BY <2>1 DEF Bindings
  <2>3. Finish(r) \/ Goto(r, "gated", o)
    BY <1>2 DEF BindApproval
  <2>4. bindings' \subseteq Bindings
    BY <1>0, <1>2, <2>1 DEF BindApproval, TypeOK
  <2> HIDE DEF o
  <2>5. /\ pc' \in [Requests -> Steps] /\ val' \in [Requests -> Operands \cup {None}]
        /\ pc'[r] = "idle" \/ (pc'[r] = "gated" /\ val'[r] = o)
    BY <1>0, <2>2, <2>3, FinishType, GotoType DEF Steps, GateSteps, Operands
  <2>6. Operand(r)'
    BY <2>2, <2>5 DEF Operand
  <2> QED
    BY <1>0, <1>2, <2>4, <2>5, <2>6 DEF BindApproval, Typed, TypeOK
<1> QED
  BY <1>1, <1>2 DEF GateStep

LEMMA RequestTypes == ASSUME ReviewInv, NEW r \in Requests, RequestStep(r) PROVE Typed(r)
<1>0. TypeOK /\ Operand(r)
  BY DEF ReviewInv
<1>1. CASE ExportFiles(r)
  <2>1. /\ pc' \in [Requests -> Steps] /\ val' \in [Requests -> Operands \cup {None}]
        /\ pc'[r] = "idle"
    BY <1>0, <1>1, FinishType DEF ExportFiles
  <2> QED
    BY <1>0, <1>1, <2>1 DEF ExportFiles, memory, disk, Typed, TypeOK, Operand
<1> QED
  BY <1>1, ReviewTypes, CheckTypes, GateTypes DEF RequestStep

\* An export is typed, and the bookkeeping too.
LEMMA ExportTypes ==
    ASSUME ReviewInv, Next
    PROVE  exported' \in Exports \cup {None} /\ contended' \subseteq Reviews /\ crossed' \in BOOLEAN
<1>0. TypeOK /\ \A r \in Requests : Operand(r)
  BY DEF ReviewInv
<1>1. ASSUME NEW r \in Requests, ExportFiles(r) PROVE exported' \in Exports
  <2>1. design \in Contents /\ val[r].approval \in Approvals
    BY <1>0, <1>1 DEF ExportFiles, Operand, TypeOK
  <2>2. exported' = [content |-> design, approval |-> val[r].approval, via |-> "rest"]
    BY <1>1 DEF ExportFiles
  <2> QED
    BY <2>1, <2>2 DEF Exports
<1>2. ASSUME NEW a \in Presented, NEW reviewed \in BOOLEAN, IsolatedExport(a, reviewed)
      PROVE  exported' \in Exports
  <2>1. dDesign \in Contents /\ a \in Approvals
    BY <1>0 DEF TypeOK, Presented, Approvals
  <2>2. exported' = [content |-> dDesign, approval |-> a, via |-> "mcp"]
    BY <1>2 DEF IsolatedExport
  <2> QED
    BY <2>1, <2>2 DEF Exports
<1>3. ASSUME NEW r \in left[3], RequestStep(r)
      PROVE  exported' \in Exports \cup {None} /\ contended' \subseteq Reviews /\ crossed' \in BOOLEAN
  <2>1. r \in Requests
    BY <1>0 DEF TypeOK
  <2>2. Contention' \subseteq Reviews /\ Crosses(r) \in BOOLEAN
    BY DEF Contention, Crosses
  <2>3. exported' \in Exports \cup {None}
    BY <1>1, <1>3, <2>1 DEF RequestStep
  <2> QED
    BY <1>0, <1>3, <2>2, <2>3 DEF RequestStep, Remember, TypeOK
<1>4. ASSUME OtherStep
      PROVE  exported' \in Exports \cup {None} /\ contended' \subseteq Reviews /\ crossed' \in BOOLEAN
  BY <1>0, <1>2, <1>4 DEF OtherStep, ghosts, TypeOK
<1> QED
  BY <1>3, <1>4 DEF Next

LEMMA TypeStep == ASSUME ReviewInv, [Next]_vars PROVE TypeOK'
<1>0. TypeOK
  BY DEF ReviewInv
<1>1. CASE UNCHANGED vars
  BY <1>0, <1>1 DEF vars, memory, disk, calls, ghosts, TypeOK
<1>2. ASSUME NEW r \in left[3], RequestStep(r) PROVE TypeOK'
  <2>1. r \in Requests
    BY <1>0 DEF TypeOK
  <2>2. Typed(r)
    BY <1>2, <2>1, RequestTypes
  <2>3. exported' \in Exports \cup {None} /\ contended' \subseteq Reviews /\ crossed' \in BOOLEAN
    BY <1>2, ExportTypes DEF Next
  <2> QED
    BY <2>2, <2>3 DEF Typed, TypeOK
<1>3. CASE OtherStep
  <2>1. exported' \in Exports \cup {None} /\ contended' \subseteq Reviews /\ crossed' \in BOOLEAN
    BY <1>3, ExportTypes DEF Next
  <2>2. CASE Restart
    BY <1>0, <2>1, <2>2 DEF Restart, disk, TypeOK, Steps
  <2>3. ASSUME NEW a, NEW reviewed, IsolatedExport(a, reviewed) PROVE TypeOK'
    BY <1>0, <2>1, <2>3 DEF IsolatedExport, memory, disk, calls, TypeOK
  <2> QED
    BY <1>3, <2>2, <2>3 DEF OtherStep
<1> QED
  BY <1>1, <1>2, <1>3 DEF Next

-----------------------------------------------------------------------------
(* Reviews and decisions.                                                  *)

\* A review once in memory stays there until a restart.
LEMMA ReviewStays ==
    ASSUME ReviewInv, NEW r \in Requests, RequestStep(r), NEW v \in Reviews, review[v] # None
    PROVE  review'[v] # None
<1>0. TypeOK /\ Operand(r)
  BY DEF ReviewInv
<1>1. Typed(r)
  BY RequestTypes
<1>2. ASSUME NEW w \in Reviews, create_review_session(r, w) PROVE review'[v] # None
  BY <1>0, <1>2 DEF create_review_session, SetReview, TypeOK
<1>3. ASSUME SetMark(r) PROVE review'[v] # None
  <2>1. pc'[r] = "dump" /\ val'[r].review = val[r].review
    BY <1>0, <1>3 DEF SetMark, Goto, TypeOK
  <2>2. v # val[r].review => review'[v] = review[v]
    BY <1>0, <1>3 DEF SetMark, SetReview, TypeOK
  <2> QED
    BY <1>1, <2>1, <2>2 DEF Typed, Operand
<1>4. ASSUME AppendDecision(r) PROVE review'[v] # None
  <2>1. pc'[r] = "dump" /\ val'[r].review = val[r].review
    BY <1>0, <1>4 DEF AppendDecision, Goto, TypeOK
  <2>2. v # val[r].review => review'[v] = review[v]
    BY <1>0, <1>4 DEF AppendDecision, SetReview, TypeOK
  <2> QED
    BY <1>1, <2>1, <2>2 DEF Typed, Operand
<1>5. ASSUME NEW saved \in BOOLEAN, SaveReview(r, saved) PROVE review'[v] # None
  BY <1>5 DEF SaveReview, memory
<1> QED
  BY <1>2, <1>3, <1>4, <1>5, ReviewChanges

LEMMA OperandStep == ASSUME ReviewInv, [Next]_vars, NEW s \in Requests PROVE Operand(s)'
<1>0. TypeOK /\ Operand(s)
  BY DEF ReviewInv
<1>1. ASSUME NEW r \in left[3], RequestStep(r) PROVE Operand(s)'
  <2>0. r \in Requests
    BY <1>0 DEF TypeOK
  <2>1. CASE r = s
    BY <1>1, <2>1, RequestTypes DEF Typed
  <2>2. CASE r # s
    <3>1. pc'[s] = pc[s] /\ val'[s] = val[s]
      BY <1>0, <1>1, <2>0, <2>2, Frame
    <3>2. pc[s] \in { "mark", "decide", "dump" } => val[s].review \in Reviews
      BY <1>0 DEF Operand
    <3>3. pc[s] \in { "mark", "decide", "dump" } => review'[val[s].review] # None
      BY <1>0, <1>1, <2>0, <3>2, ReviewStays DEF Operand
    <3> QED
      BY <1>0, <3>1, <3>3 DEF Operand
  <2> QED
    BY <2>1, <2>2
<1>2. CASE UNCHANGED << pc, val, review >>
  BY <1>0, <1>2 DEF Operand
<1>3. CASE Restart
  BY <1>3 DEF Restart, Operand
<1> QED
  BY <1>1, <1>2, <1>3 DEF Next, OtherStep, IsolatedExport, vars, memory, calls

\* Every overlap is remembered.
LEMMA ContentionStep ==
    ASSUME ReviewInv, [Next]_vars
    PROVE  Contention' \subseteq contended' /\ contended \subseteq contended' /\ (crossed => crossed')
<1>0. TypeOK /\ Contention \subseteq contended
  BY DEF ReviewInv
<1>1. ASSUME NEW r \in left[3], RequestStep(r)
      PROVE  Contention' \subseteq contended' /\ contended \subseteq contended' /\ (crossed => crossed')
  BY <1>1 DEF RequestStep, Remember
<1>2. CASE UNCHANGED << pc, val, contended, crossed >>
  <2>1. Contention' = Contention
    BY <1>2 DEF Contention
  <2> QED
    BY <1>0, <1>2, <2>1
<1>3. CASE Restart /\ UNCHANGED ghosts
  <2>1. Contention' = {}
    BY <1>3 DEF Restart, Contention, ReviewSteps
  <2> QED
    BY <1>3, <2>1 DEF ghosts
<1> QED
  BY <1>1, <1>2, <1>3 DEF Next, OtherStep, IsolatedExport, vars, calls, ghosts

\* A step of call r works on the review of its operand before or after it.
LEMMA ReviewTouched ==
    ASSUME ReviewInv, NEW r \in Requests, RequestStep(r), NEW v \in Reviews,
           review'[v] # review[v] \/ dReview'[v] # dReview[v] \/ decided'[v] # decided[v]
    PROVE  \/ pc'[r] = "dump" /\ val'[r].review = v /\ UNCHANGED << dReview, decided >>
           \/ pc[r] = "save" /\ val[r].review = v /\ review' = review
<1>0. TypeOK /\ Operand(r)
  BY DEF ReviewInv
<1>1. ASSUME NEW w \in Reviews, create_review_session(r, w)
      PROVE  pc'[r] = "dump" /\ val'[r].review = v /\ UNCHANGED << dReview, decided >>
  BY <1>0, <1>1 DEF create_review_session, SetReview, Goto, disk, TypeOK
<1>2. ASSUME SetMark(r)
      PROVE  pc'[r] = "dump" /\ val'[r].review = v /\ UNCHANGED << dReview, decided >>
  BY <1>0, <1>2 DEF SetMark, SetReview, Goto, disk, TypeOK
<1>3. ASSUME AppendDecision(r)
      PROVE  pc'[r] = "dump" /\ val'[r].review = v /\ UNCHANGED << dReview, decided >>
  BY <1>0, <1>3 DEF AppendDecision, SetReview, Goto, disk, TypeOK
<1>4. ASSUME NEW saved \in BOOLEAN, SaveReview(r, saved)
      PROVE  pc[r] = "save" /\ val[r].review = v /\ review' = review
  <2>1. pc[r] = "save" /\ val[r].review \in Reviews /\ review' = review
    BY <1>0, <1>4 DEF SaveReview, Operand, memory
  <2>2. v # val[r].review => dReview'[v] = dReview[v] /\ decided'[v] = decided[v]
    BY <1>0, <1>4, <2>1 DEF SaveReview, TypeOK
  <2> QED
    BY <2>1, <2>2
<1> QED
  BY <1>1, <1>2, <1>3, <1>4, ReviewChanges

\* What a review call has in hand, while no other works on its review.
Held(r) == pc[r] \in ReviewSteps /\ val[r].review \notin contended => ReviewTail(r)

LEMMA OwnTail ==
    ASSUME ReviewInv, NEW r \in Requests, RequestStep(r), contended \subseteq contended'
    PROVE  Held(r)'
<1>0. TypeOK /\ Operand(r) /\ Held(r)
  BY DEF ReviewInv, Held
<1> USE DEF memory, disk
<1>1. ASSUME NEW v \in Reviews, create_review_session(r, v) PROVE Held(r)'
  <2>1. pc'[r] = "dump" /\ val'[r] = [review |-> v, told |-> None]
    BY <1>0, <1>1 DEF create_review_session, Goto, TypeOK
  <2>2. val'[r].told = None
    BY <2>1
  <2> QED
    BY <2>1, <2>2 DEF Held, ReviewTail
<1>2. ASSUME NEW v \in Reviews, NEW i \in Items, NEW mark \in Marks, MarkItem(r, v, i, mark)
      PROVE  Held(r)'
  <2>1. pc'[r] = "mark" /\ val'[r] = [review |-> v, item |-> i, mark |-> mark] /\ review' = review
    BY <1>0, <1>2 DEF MarkItem, Goto, TypeOK
  <2>2. val'[r].review = v /\ review[v].decision = None
    BY <1>2, <2>1 DEF MarkItem, Mutable
  <2> QED
    BY <2>1, <2>2 DEF Held, ReviewTail
<1>3. ASSUME NEW v \in Reviews, NEW d \in Decisions, resolve_decision(r, v, d) PROVE Held(r)'
  <2>1. pc'[r] = "decide" /\ val'[r] = [review |-> v, decision |-> d] /\ review' = review
    BY <1>0, <1>3 DEF resolve_decision, Goto, TypeOK
  <2>2. val'[r].review = v /\ review[v].decision = None
    BY <1>3, <2>1 DEF resolve_decision, Mutable
  <2> QED
    BY <2>1, <2>2 DEF Held, ReviewTail
<1>4. ASSUME SetMark(r) PROVE Held(r)'
  <2>1. pc'[r] = "dump" /\ val'[r] = [review |-> val[r].review, told |-> None]
    BY <1>0, <1>4 DEF SetMark, Goto, TypeOK
  <2>2. val'[r].told = None
    BY <2>1
  <2> QED
    BY <2>1, <2>2 DEF Held, ReviewTail
<1>5. ASSUME AppendDecision(r) PROVE Held(r)'
  <2> DEFINE v == val[r].review
             d == [decision |-> val[r].decision, at |-> clock + 1]
             q == [review[v] EXCEPT !.decision = d.decision, !.at = d.at]
  <2>1. v \in Reviews /\ review[v] \in ReviewRecord
    BY <1>0, <1>5 DEF AppendDecision, Operand, TypeOK
  <2>2. pc'[r] = "dump" /\ val'[r] = [review |-> v, told |-> d] /\ review'[v] = q
    BY <1>0, <1>5, <2>1 DEF AppendDecision, SetReview, Goto, TypeOK
  <2>3. q.decision = d.decision /\ q.at = d.at
    BY <2>1 DEF ReviewRecord
  <2>4. review'[v] # None
    BY <1>0, <1>5, <2>1, ReviewStays DEF AppendDecision, Operand
  <2> HIDE DEF q, d, v
  <2>5. val'[r].review = v /\ val'[r].told = d
    BY <2>2
  <2> QED
    BY <2>2, <2>3, <2>4, <2>5 DEF Held, ReviewTail
<1>6. ASSUME DumpReview(r) PROVE Held(r)'
  <2> DEFINE v == val[r].review
             o == [review |-> v, told |-> val[r].told, record |-> review[v]]
  <2>1. pc'[r] = "save" /\ val'[r] = o /\ review' = review /\ pc[r] = "dump"
    BY <1>0, <1>6 DEF DumpReview, Goto, TypeOK
  <2>2. o.review = v /\ o.told = val[r].told /\ o.record = review[v]
    OBVIOUS
  <2> HIDE DEF o
  <2> QED
    BY <1>0, <2>1, <2>2 DEF Held, ReviewTail, ReviewSteps
<1>7. ASSUME pc'[r] \notin ReviewSteps PROVE Held(r)'
  BY <1>7 DEF Held
<1>8. ASSUME NEW saved \in BOOLEAN, SaveReview(r, saved) PROVE pc'[r] \notin ReviewSteps
  BY <1>0, <1>8, FinishType DEF SaveReview, ReviewSteps
<1>9. CASE ReviewStep(r)
  BY <1>1, <1>2, <1>3, <1>4, <1>5, <1>6, <1>7, <1>8, <1>9 DEF ReviewStep
<1>10. ASSUME NEW c \in Contents, NEW saved \in BOOLEAN, EditDesign(r, c, saved)
       PROVE  pc'[r] \notin ReviewSteps
  BY <1>10 DEF EditDesign, ReviewSteps
<1>11. CASE GateStep(r) \/ ExportFiles(r) \/ (\E k \in Checks : RunCheck(r, k))
            \/ RecordEvidence(r) \/ RecordStatus(r)
            \/ \E saved \in BOOLEAN : SaveEvidence(r, saved) \/ SaveStatus(r, saved)
  <2>1. pc'[r] \in { "idle", "checked", "saveEvidence", "recorded", "saveStatus", "admitted", "gated" }
    BY <1>0, <1>11 DEF GateStep, AdmitRelease, BindApproval, ExportFiles, RunCheck,
       RecordEvidence, RecordStatus, SaveEvidence, SaveStatus, Finish, Goto, TypeOK
  <2> QED
    BY <1>7, <2>1 DEF ReviewSteps
<1> QED
  BY <1>7, <1>9, <1>10, <1>11 DEF RequestStep, CheckStep

LEMMA TailStep == ASSUME ReviewInv, [Next]_vars, NEW s \in Requests PROVE Held(s)'
<1>0. TypeOK /\ Operand(s) /\ Held(s)
  BY DEF ReviewInv, Held
<1>c. Contention' \subseteq contended' /\ contended \subseteq contended'
  BY ContentionStep
<1>1. ASSUME NEW r \in left[3], RequestStep(r) PROVE Held(s)'
  <2>0. r \in Requests
    BY <1>0 DEF TypeOK
  <2>1. CASE r = s
    BY <1>1, <1>c, <2>0, <2>1, OwnTail
  <2>2. CASE r # s
    <3> SUFFICES ASSUME pc[s] \in ReviewSteps, val[s].review \notin contended'
                 PROVE  ReviewTail(s)'
      BY <1>0, <1>1, <2>0, <2>2, Frame DEF Held
    <3>1. pc'[s] = pc[s] /\ val'[s] = val[s]
      BY <1>0, <1>1, <2>0, <2>2, Frame
    <3>2. val[s].review \in Reviews
      BY <1>0 DEF Operand, ReviewSteps
    <3>3. ReviewTail(s)
      BY <1>0, <1>c DEF Held
    <3>4. ~ (pc'[r] = "dump" /\ val'[r].review = val[s].review)
      BY <1>c, <2>0, <2>2, <3>1, <3>2 DEF Contention, ReviewSteps
    <3>5. review'[val[s].review] = review[val[s].review]
      BY <1>1, <2>0, <3>2, <3>4, ReviewTouched
    <3> QED
      BY <3>1, <3>3, <3>5 DEF ReviewTail
  <2> QED
    BY <2>1, <2>2
<1>2. CASE UNCHANGED << pc, val, review >>
  BY <1>0, <1>c, <1>2 DEF Held, ReviewTail
<1>3. CASE Restart
  BY <1>3 DEF Restart, Held, ReviewSteps
<1> QED
  BY <1>1, <1>2, <1>3 DEF Next, OtherStep, IsolatedExport, vars, memory, calls

LEMMA SettledStep ==
    ASSUME ReviewInv, [Next]_vars, NEW v \in Reviews, v \notin contended'
    PROVE  Settled(v)'
<1>c. Contention' \subseteq contended' /\ contended \subseteq contended'
  BY ContentionStep
<1>0. TypeOK /\ Settled(v) /\ v \notin contended
  BY <1>c DEF ReviewInv
<1>1. ASSUME NEW r \in left[3], RequestStep(r) PROVE Settled(v)'
  <2>0. r \in Requests /\ Operand(r) /\ Held(r)
    BY <1>0 DEF TypeOK, ReviewInv, Held
  <2>1. CASE UNCHANGED << review, dReview, decided >>
    BY <1>0, <2>1 DEF Settled
  <2>2. ASSUME NEW w \in Reviews, create_review_session(r, w) PROVE Settled(v)'
    <3>1. v # w => UNCHANGED << review[v], dReview[v], decided[v] >>
      BY <1>0, <2>2 DEF create_review_session, SetReview, disk, TypeOK
    <3>2. v = w => decided[v] = None /\ decided' = decided
      BY <1>0, <2>2 DEF create_review_session, SetReview, Settled
    <3> QED
      BY <1>0, <3>1, <3>2 DEF Settled
  <2>3. ASSUME SetMark(r) \/ AppendDecision(r) PROVE Settled(v)'
    <3>1. val[r].review \in Reviews /\ pc[r] \in { "mark", "decide" } /\ decided' = decided /\ dReview' = dReview
      BY <2>0, <2>3 DEF SetMark, AppendDecision, SetReview, Operand, disk
    <3>2. v # val[r].review => review'[v] = review[v]
      BY <1>0, <2>3, <3>1 DEF SetMark, AppendDecision, SetReview, TypeOK
    <3>3. CASE v = val[r].review
      <4>1. review[v].decision = None
        BY <1>0, <2>0, <3>1, <3>3 DEF Held, ReviewTail, ReviewSteps
      <4>2. decided[v] # None => decided[v].decision # None
        BY <1>0, ReleaseAssumption DEF TypeOK, Told, Decisions
      <4> QED
        BY <1>0, <3>1, <4>1, <4>2 DEF Settled
    <3> QED
      BY <1>0, <3>1, <3>2, <3>3 DEF Settled
  <2>4. ASSUME NEW saved \in BOOLEAN, SaveReview(r, saved) PROVE Settled(v)'
    <3>1. pc[r] = "save" /\ val[r].review \in Reviews /\ review' = review
      BY <2>0, <2>4 DEF SaveReview, Operand, memory
    <3>2. v # val[r].review => dReview'[v] = dReview[v] /\ decided'[v] = decided[v]
      BY <1>0, <2>4, <3>1 DEF SaveReview, TypeOK
    <3>3. CASE v = val[r].review
      <4>1. ReviewTail(r)
        BY <1>0, <2>0, <3>1, <3>3 DEF Held, ReviewSteps
      <4>2. val[r].record = review[v]
        BY <3>1, <3>3, <4>1 DEF ReviewTail
      <4>3. dReview'[v] = IF saved THEN review[v] ELSE dReview[v]
        BY <1>0, <2>4, <3>1, <3>3, <4>2 DEF SaveReview, TypeOK
      <4>4. decided'[v] = IF saved /\ val[r].told # None THEN val[r].told ELSE decided[v]
        BY <1>0, <2>4, <3>1, <3>3 DEF SaveReview, TypeOK
      <4>5. val[r].told # None =>
               /\ review[v] # None
               /\ review[v].decision = val[r].told.decision /\ review[v].at = val[r].told.at
        BY <3>1, <3>3, <4>1 DEF ReviewTail
      <4> QED
        BY <1>0, <3>1, <4>3, <4>4, <4>5 DEF Settled
    <3> QED
      BY <1>0, <3>1, <3>2, <3>3 DEF Settled
  <2> QED
    BY <1>1, <2>0, <2>1, <2>2, <2>3, <2>4, ReviewChanges
<1>2. CASE UNCHANGED << review, dReview, decided >>
  BY <1>0, <1>2 DEF Settled
<1>3. CASE Restart
  BY <1>0, <1>3 DEF Restart, disk, Settled
<1> QED
  BY <1>1, <1>2, <1>3 DEF Next, OtherStep, IsolatedExport, vars, memory, disk

\* A step dates at most the review it decides, and with a time of its own.
LEMMA DatesStep ==
    ASSUME ReviewInv, NEW r \in Requests, RequestStep(r), NEW v \in Reviews, NEW n \in Dates(v)'
    PROVE  \/ n \in Dates(v)
           \/ pc[r] = "decide" /\ val[r].review = v /\ n = clock + 1 /\ clock' = clock + 1
<1>0. TypeOK /\ Operand(r)
  BY DEF ReviewInv
<1>1. PICK x \in Copies(v)' : x # None /\ x.decision # None /\ x.at = n
  BY DEF Dates
<1>2. ASSUME NEW y \in Copies(v), y # None, y.decision # None, y.at = n PROVE n \in Dates(v)
  BY <1>2 DEF Dates
<1>d. review[v] \in Copies(v) /\ dReview[v] \in Copies(v)
  BY DEF Copies
<1>e. ASSUME NEW s \in Requests, pc[s] = "save", val[s].review = v PROVE val[s].record \in Copies(v)
  BY <1>e DEF Copies
<1>3. ASSUME x = review'[v]
      PROVE  n \in Dates(v) \/ (pc[r] = "decide" /\ val[r].review = v /\ n = clock + 1 /\ clock' = clock + 1)
  <2>1. CASE review'[v] = review[v]
    BY <1>1, <1>2, <1>3, <1>d, <2>1
  <2>2. ASSUME NEW w \in Reviews, create_review_session(r, w), review'[v] # review[v] PROVE FALSE
    <3>1. review'[v] = [hash |-> design, marks |-> [i \in Items |-> "pending"], decision |-> None, at |-> 0]
      BY <1>0, <2>2 DEF create_review_session, SetReview, TypeOK
    <3> QED
      BY <1>1, <1>3, <3>1
  <2>3. ASSUME SetMark(r), review'[v] # review[v] PROVE n \in Dates(v)
    <3>1. v = val[r].review /\ review[v] \in ReviewRecord /\ review[v] # None
      BY <1>0, <2>3 DEF SetMark, SetReview, Operand, TypeOK
    <3>2. review'[v] = [review[v] EXCEPT !.marks[val[r].item] = val[r].mark]
      BY <1>0, <2>3, <3>1 DEF SetMark, SetReview, TypeOK
    <3>3. review'[v].decision = review[v].decision /\ review'[v].at = review[v].at
      BY <3>1, <3>2 DEF ReviewRecord
    <3> QED
      BY <1>1, <1>2, <1>3, <1>d, <3>1, <3>3
  <2>4. ASSUME AppendDecision(r), review'[v] # review[v]
        PROVE  pc[r] = "decide" /\ val[r].review = v /\ n = clock + 1 /\ clock' = clock + 1
    <3> DEFINE d == [decision |-> val[r].decision, at |-> clock + 1]
    <3>1. v = val[r].review /\ review[v] \in ReviewRecord /\ pc[r] = "decide" /\ clock' = clock + 1
      BY <1>0, <2>4 DEF AppendDecision, SetReview, Operand, TypeOK
    <3>2. review'[v] = [review[v] EXCEPT !.decision = d.decision, !.at = d.at]
      BY <1>0, <2>4, <3>1 DEF AppendDecision, SetReview, TypeOK
    <3>3. review'[v].at = clock + 1
      BY <3>1, <3>2 DEF ReviewRecord
    <3> QED
      BY <1>1, <1>3, <3>1, <3>3
  <2>5. ASSUME NEW saved \in BOOLEAN, SaveReview(r, saved) PROVE review' = review
    BY <2>5 DEF SaveReview, memory
  <2> QED
    BY <2>1, <2>2, <2>3, <2>4, <2>5, ReviewChanges
<1>4. ASSUME x = dReview'[v] PROVE n \in Dates(v)
  <2>1. CASE dReview'[v] = dReview[v]
    BY <1>1, <1>2, <1>4, <1>d, <2>1
  <2>2. CASE dReview'[v] # dReview[v]
    <3>1. PICK saved \in BOOLEAN : SaveReview(r, saved)
      BY <2>2, ReviewChanges DEF create_review_session, SetMark, AppendDecision, SetReview, disk
    <3>2. pc[r] = "save" /\ val[r].review = v /\ dReview'[v] = val[r].record
      BY <1>0, <2>2, <3>1 DEF SaveReview, Operand, TypeOK
    <3> QED
      BY <1>1, <1>2, <1>4, <1>e, <3>2
  <2> QED
    BY <2>1, <2>2
<1>5. ASSUME NEW s \in Requests, pc'[s] = "save", val'[s].review = v, x = val'[s].record
      PROVE  n \in Dates(v)
  <2>1. CASE s # r
    <3>1. pc[s] = "save" /\ val[s].review = v /\ val[s].record = x
      BY <1>0, <1>5, <2>1, Frame
    <3> QED
      BY <1>1, <1>2, <1>e, <3>1
  <2>2. CASE s = r
    <3>1. pc'[r] = "save"
      BY <1>5, <2>2
    <3>2. DumpReview(r)
      <4>1. CASE ReviewStep(r)
        BY <1>0, <3>1, <4>1 DEF ReviewStep, create_review_session, MarkItem, resolve_decision,
           SetMark, AppendDecision, SaveReview, Goto, Finish, TypeOK
      <4>2. CASE CheckStep(r)
        BY <1>0, <3>1, <4>2 DEF CheckStep, EditDesign, RunCheck, RecordEvidence, RecordStatus,
           SaveEvidence, SaveStatus, Goto, Finish, TypeOK
      <4>3. CASE GateStep(r) \/ ExportFiles(r)
        BY <1>0, <3>1, <4>3
           DEF GateStep, AdmitRelease, BindApproval, ExportFiles, Goto, Finish, TypeOK
      <4> QED
        BY <4>1, <4>2, <4>3 DEF RequestStep
    <3>3. val'[r] = [review |-> val[r].review, told |-> val[r].told, record |-> review[val[r].review]]
      BY <1>0, <3>2 DEF DumpReview, Goto, TypeOK
    <3>4. x = review[v]
      BY <1>5, <2>2, <3>3
    <3> QED
      BY <1>1, <1>2, <1>d, <3>4
  <2> QED
    BY <2>1, <2>2
<1>6. \/ x = review'[v] \/ x = dReview'[v]
      \/ \E s \in Requests : pc'[s] = "save" /\ val'[s].review = v /\ x = val'[s].record
  BY DEF Copies
<1> QED
  BY <1>3, <1>4, <1>5, <1>6

LEMMA DatedStep == ASSUME ReviewInv, [Next]_vars PROVE Dated'
<1>0. TypeOK /\ Dated /\ clock \in Nat
  BY DEF ReviewInv, TypeOK
<1>t. \A v \in Reviews : \A n \in Dates(v) : n \in Nat
  <2> SUFFICES ASSUME NEW v \in Reviews, NEW x \in Copies(v), x # None PROVE x.at \in Nat
    BY DEF Dates
  <2>1. \A s \in Requests : Operand(s)
    BY DEF ReviewInv
  <2>2. x \in ReviewRecord
    BY <1>0, <2>1 DEF Copies, Operand, TypeOK
  <2> QED
    BY <2>2 DEF ReviewRecord
<1>1. ASSUME NEW r \in left[3], RequestStep(r) PROVE Dated'
  <2>0. r \in Requests
    BY <1>0 DEF TypeOK
  <2>1. clock' \in { clock, clock + 1 }
    BY <1>1, ReviewChanges DEF create_review_session, SetMark, AppendDecision, SaveReview
  <2>2. ASSUME NEW v \in Reviews, NEW n \in Dates(v)'
        PROVE  /\ n <= clock'
               /\ n \in Dates(v) \/ (pc[r] = "decide" /\ val[r].review = v /\ n = clock + 1)
    <3>1. n \in Dates(v) \/ (pc[r] = "decide" /\ val[r].review = v /\ n = clock + 1 /\ clock' = clock + 1)
      BY <1>1, <2>0, DatesStep
    <3>2. n \in Dates(v) => n \in Nat /\ n <= clock
      BY <1>0, <1>t DEF Dated
    <3> QED
      BY <1>0, <2>1, <3>1, <3>2
  <2>3. ASSUME NEW v \in Reviews, NEW w \in Reviews, v # w, NEW n \in Dates(v)', n \in Dates(w)'
        PROVE  FALSE
    <3>1. n \in Dates(v) \/ (val[r].review = v /\ n = clock + 1)
      BY <2>2, <2>3
    <3>2. n \in Dates(w) \/ (val[r].review = w /\ n = clock + 1)
      BY <2>2, <2>3
    <3>3. clock + 1 \notin Dates(v) \cup Dates(w)
      BY <1>0, <1>t DEF Dated
    <3> QED
      BY <1>0, <2>3, <3>1, <3>2, <3>3 DEF Dated
  <2> QED
    BY <2>2, <2>3 DEF Dated
<1>2. CASE UNCHANGED << pc, val, review, dReview, clock >>
  <2>1. \A v \in Reviews : Dates(v)' = Dates(v)
    BY <1>2 DEF Dates, Copies
  <2> QED
    BY <1>0, <1>2, <2>1 DEF Dated
<1>3. CASE Restart
  <2>1. ASSUME NEW v \in Reviews PROVE Dates(v)' \subseteq Dates(v)
    <3>1. Copies(v)' = { dReview[v] }
      BY <1>3 DEF Restart, disk, Copies
    <3>2. dReview[v] \in Copies(v)
      BY DEF Copies
    <3> QED
      BY <3>1, <3>2 DEF Dates
  <2>2. clock' = clock
    BY <1>3 DEF Restart
  <2> QED
    BY <1>0, <2>1, <2>2 DEF Dated
<1> QED
  BY <1>1, <1>2, <1>3 DEF Next, OtherStep, IsolatedExport, vars, memory, disk, calls

LEMMA ReviewInit == Init => ReviewInv
<1> SUFFICES ASSUME Init PROVE ReviewInv
  OBVIOUS
<1>1. TypeOK
  <2>1. crossed \in BOOLEAN /\ Unchecked \in Statuses /\ left \in Nat \X Nat \X SUBSET Requests
    BY ReleaseAssumption DEF Init, Unchecked, Statuses
  <2> QED
    BY <2>1 DEF Init, TypeOK, Steps, Told
<1>2. Contention = {}
  BY DEF Init, Contention, ReviewSteps
<1>3. \A v \in Reviews : Dates(v) = {}
  <2>1. \A v \in Reviews : Copies(v) = {None}
    BY DEF Init, Copies
  <2> QED
    BY <2>1 DEF Dates
<1>4. \A r \in Requests : Operand(r) /\ pc[r] \notin ReviewSteps
  BY DEF Init, Operand, ReviewSteps
<1>5. \A v \in Reviews : Settled(v)
  BY DEF Init, Settled
<1> QED
  BY <1>1, <1>2, <1>3, <1>4, <1>5 DEF ReviewInv, Dated

LEMMA ReviewInvStep == ASSUME ReviewInv, [Next]_vars PROVE ReviewInv'
<1>1. TypeOK' /\ Contention' \subseteq contended' /\ Dated'
  BY TypeStep, ContentionStep, DatedStep
<1>2. \A r \in Requests : Operand(r)' /\ Held(r)'
  BY OperandStep, TailStep
<1>3. \A v \in Reviews \ contended' : Settled(v)'
  BY SettledStep
<1> QED
  BY <1>1, <1>2, <1>3 DEF ReviewInv, Held

\* Every behaviour keeps the invariant of the reviews, whatever calls overlap
\* between their checks, changes, dumps and saves: no two reviews are decided
\* at the same time, and as long as two calls do not overlap on one review,
\* each finds it as it left it and an answered decision is the one in memory
\* and on disk.
THEOREM ReviewsAreSettled == Spec => []ReviewInv
<1>1. ReviewInv /\ [Next]_vars => ReviewInv'
  BY ReviewInvStep
<1> QED
  BY <1>1, ReviewInit, PTL DEF Spec

\* A decision a reviewer was told is not changed or dropped by any call or
\* restart, unless two calls overlapped on its review.
THEOREM DecisionsAreFinalHolds == Spec => []DecisionsAreFinal
<1>1. ReviewInv => DecisionsAreFinal
  BY DEF ReviewInv, Settled, DecisionsAreFinal
<1> QED
  BY <1>1, ReviewsAreSettled, PTL

-----------------------------------------------------------------------------
(* The gate.                                                               *)

\* Only a step that decides changes what the gate reads of the reviews.
Undecided ==
    /\ Terminal' = Terminal
    /\ \A v \in Terminal : /\ review'[v].decision = review[v].decision
                           /\ review'[v].hash = review[v].hash
                           /\ review'[v].at = review[v].at

LEMMA DecisionsKept ==
    ASSUME ReviewInv, NEW r \in Requests, RequestStep(r), pc[r] # "decide"
    PROVE  Undecided
<1>0. TypeOK /\ Operand(r)
  BY DEF ReviewInv
<1>1. CASE review' = review
  BY <1>1 DEF Undecided, Terminal
<1>2. ASSUME NEW w \in Reviews, create_review_session(r, w) PROVE Undecided
  <2> DEFINE q == [hash |-> design, marks |-> [i \in Items |-> "pending"], decision |-> None, at |-> 0]
  <2>1. review[w] = None /\ review' = [review EXCEPT ![w] = q] /\ q.decision = None
    BY <1>2 DEF create_review_session, SetReview
  <2> HIDE DEF q
  <2>2. review'[w] = q /\ \A v \in Reviews \ {w} : review'[v] = review[v]
    BY <1>0, <2>1 DEF TypeOK
  <2> QED
    BY <2>1, <2>2 DEF Undecided, Terminal
<1>3. ASSUME SetMark(r) PROVE Undecided
  <2> DEFINE w == val[r].review
             q == [review[w] EXCEPT !.marks[val[r].item] = val[r].mark]
  <2>1. w \in Reviews /\ review[w] \in ReviewRecord /\ review[w] # None
    BY <1>0, <1>3 DEF SetMark, Operand, TypeOK
  <2>2. review' = [review EXCEPT ![w] = q]
    BY <1>3 DEF SetMark, SetReview
  <2>3. q.hash = review[w].hash /\ q.decision = review[w].decision /\ q.at = review[w].at
    BY <2>1 DEF ReviewRecord
  <2>4. review'[w] # None
    BY <2>1, ReviewStays
  <2> HIDE DEF w, q
  <2>5. review'[w] = q /\ \A v \in Reviews \ {w} : review'[v] = review[v]
    BY <1>0, <2>1, <2>2 DEF TypeOK
  <2> QED
    BY <2>1, <2>3, <2>4, <2>5 DEF Undecided, Terminal
<1>4. ASSUME AppendDecision(r) PROVE FALSE
  BY <1>4 DEF AppendDecision
<1>5. ASSUME NEW saved \in BOOLEAN, SaveReview(r, saved) PROVE review' = review
  BY <1>5 DEF SaveReview, memory
<1> QED
  BY <1>1, <1>2, <1>3, <1>4, <1>5, ReviewChanges

\* What the gate finds out: the state is not refused, the approval is not for
\* another state, and the checks passed on it.
LEMMA GateRefuses ==
    ASSUME ReviewInv, NEW a, ReviewEvidence(design, a).is \notin { "blocked", "stale" }
    PROVE  ~ Refused(design) /\ Matches(a, design)
<1> DEFINE current == { v \in Terminal : review[v].hash = design }
           matching == { v \in Terminal : review[v].decision \in Approving /\ review[v].at = a }
           shown == IF current = {} THEN None ELSE review[Latest(current)].decision
<1>0. TypeOK /\ Dated
  BY DEF ReviewInv
<1>1. shown \notin Denying
  BY DEF ReviewEvidence
<1>2. matching # {} => matching \subseteq current
  BY <1>1 DEF ReviewEvidence
<1>3. Matches(a, design)
  BY <1>2 DEF Matches
<1>4. ASSUME NEW v \in Terminal, review[v].decision \in Denying, review[v].hash = design,
             \A w \in Terminal : review[w].hash = design => review[w].at <= review[v].at
      PROVE  FALSE
  <2>1. PICK l : l = Latest(current)
    OBVIOUS
  <2>2. l \in current /\ review[v].at <= review[l].at
    BY <1>0, <1>4, <2>1, LatestExists
  <2>3. review[l].at <= review[v].at
    BY <1>4, <2>2
  <2>4. /\ v \in Reviews /\ review[v].at \in Nat /\ review[v].at \in Dates(v)
        /\ l \in Reviews /\ review[l].at \in Nat /\ review[l].at \in Dates(l)
    BY <1>0, <2>2 DEF Terminal, TypeOK, ReviewRecord, Dates, Copies
  <2>5. review[v].at = review[l].at
    BY <2>2, <2>3, <2>4
  <2>6. v = l
    BY <1>0, <2>4, <2>5 DEF Dated
  <2> QED
    BY <1>1, <1>4, <2>1, <2>2, <2>6
<1> QED
  BY <1>3, <1>4 DEF Refused

LEMMA CurrentPasses ==
    ASSUME NEW s, NEW c, Truthful(s), Current(s, c)
    PROVE  \A k \in Checks : c \in Passing[k]
BY DEF Truthful, Current

\* An answered denial is one that the gate sees.
LEMMA DeniedIsRefused == ASSUME ReviewInv, NEW c, Denied(c) PROVE Refused(c)
<1>1. PICK v \in Reviews \ contended :
          /\ decided[v] # None /\ decided[v].decision \in Denying /\ dReview[v].hash = c
          /\ \A w \in Terminal : review[w].hash = c => review[w].at <= review[v].at
  BY DEF Denied
<1>2. Settled(v)
  BY <1>1 DEF ReviewInv
<1>3. review[v] # None /\ review[v].decision \in Denying /\ review[v].hash = c
  BY <1>1, <1>2 DEF Settled
<1>4. v \in Terminal
  BY <1>1, <1>3, ReleaseAssumption DEF Terminal
<1> QED
  BY <1>1, <1>3, <1>4 DEF Refused

\* Verdicts stay with the design they are about, in memory, in the copies and
\* in what a call carries.
LEMMA TruthStep ==
    ASSUME ReviewInv, Bound, NEW r \in Requests, RequestStep(r)
    PROVE  (Truthful(evidence) /\ Truthful(status) /\ Truthful(dEvidence) /\ Truthful(dStatus))'
<1> USE DEF memory, disk
<1>0. /\ TypeOK /\ Operand(r) /\ CheckTail(r)
      /\ Truthful(evidence) /\ Truthful(status) /\ Truthful(dEvidence) /\ Truthful(dStatus)
  BY DEF ReviewInv, Bound
<1> DEFINE Goal == (Truthful(evidence) /\ Truthful(status) /\ Truthful(dEvidence) /\ Truthful(dStatus))'
<1>1. CASE UNCHANGED << evidence, status, dEvidence, dStatus >>
  BY <1>0, <1>1 DEF Truthful
<1>2. ASSUME RecordEvidence(r) PROVE Goal
  <2> DEFINE e == [hash |-> design, ok |-> val[r].ok]
  <2>1. val[r].check \in Checks /\ (e.ok => e.hash \in Passing[val[r].check])
    BY <1>0, <1>2 DEF RecordEvidence, Operand, CheckTail
  <2>2. evidence' = [evidence EXCEPT ![val[r].check] = e] /\ UNCHANGED << status, dEvidence, dStatus >>
    BY <1>2 DEF RecordEvidence
  <2> HIDE DEF e
  <2>3. \A k \in Checks : evidence'[k] = IF k = val[r].check THEN e ELSE evidence[k]
    BY <1>0, <2>1, <2>2 DEF TypeOK, Statuses
  <2> QED
    BY <1>0, <2>1, <2>2, <2>3 DEF Truthful
<1>3. ASSUME NEW saved \in BOOLEAN, SaveEvidence(r, saved) PROVE Goal
  <2>1. /\ val[r].check \in Checks
        /\ val[r].entry.ok => val[r].entry.hash \in Passing[val[r].check]
    BY <1>0, <1>3 DEF SaveEvidence, Operand, CheckTail
  <2>2. /\ dEvidence' = dEvidence \/ dEvidence' = [dEvidence EXCEPT ![val[r].check] = val[r].entry]
        /\ UNCHANGED << evidence, status, dStatus >>
    BY <1>3 DEF SaveEvidence
  <2>3. \A k \in Checks : dEvidence'[k] \in { dEvidence[k] }
                          \/ (k = val[r].check /\ dEvidence'[k] = val[r].entry)
    BY <1>0, <2>1, <2>2 DEF TypeOK, Statuses
  <2> QED
    BY <1>0, <2>1, <2>2, <2>3 DEF Truthful
<1>4. ASSUME RecordStatus(r) PROVE Goal
  BY <1>0, <1>4 DEF RecordStatus, Truthful
<1>5. ASSUME NEW saved \in BOOLEAN, SaveStatus(r, saved) PROVE Goal
  <2>1. /\ dStatus' = dStatus \/ dStatus' = val[r].copy
        /\ UNCHANGED << evidence, status, dEvidence >> /\ Truthful(val[r].copy)
    BY <1>0, <1>5 DEF SaveStatus, CheckTail
  <2> QED
    BY <1>0, <2>1 DEF Truthful
<1>6. CASE ReviewStep(r) \/ GateStep(r) \/ ExportFiles(r)
  <2>1. UNCHANGED << evidence, status, dEvidence, dStatus >>
    BY <1>6 DEF ReviewStep, create_review_session, MarkItem, resolve_decision, SetMark,
       AppendDecision, DumpReview, SaveReview, SetReview, GateStep, AdmitRelease, BindApproval,
       ExportFiles
  <2> QED
    BY <1>1, <2>1
<1>7. CASE (\E c \in Contents, saved \in BOOLEAN : EditDesign(r, c, saved)) \/ \E k \in Checks : RunCheck(r, k)
  <2>1. UNCHANGED << evidence, status, dEvidence, dStatus >>
    BY <1>7 DEF EditDesign, RunCheck
  <2> QED
    BY <1>1, <2>1
<1> QED
  BY <1>2, <1>3, <1>4, <1>5, <1>6, <1>7 DEF RequestStep, CheckStep

LEMMA OwnCheck ==
    ASSUME ReviewInv, Bound, NEW r \in Requests, RequestStep(r)
    PROVE  CheckTail(r)'
<1> USE DEF memory, disk
<1>0. TypeOK /\ Operand(r) /\ CheckTail(r) /\ Truthful(evidence)
  BY DEF ReviewInv, Bound
<1>1. ASSUME pc'[r] \notin { "checked", "saveEvidence", "saveStatus" } PROVE CheckTail(r)'
  BY <1>1 DEF CheckTail
<1>2. ASSUME NEW k \in Checks, RunCheck(r, k) PROVE CheckTail(r)'
  <2> DEFINE o == [check |-> k, ok |-> design \in Passing[k]]
  <2>1. pc'[r] = "checked" /\ val'[r] = o /\ design' = design
    BY <1>0, <1>2 DEF RunCheck, Goto, TypeOK
  <2>2. o.check = k /\ (o.ok => design \in Passing[k])
    OBVIOUS
  <2> QED
    BY <2>1, <2>2 DEF CheckTail
<1>3. ASSUME RecordEvidence(r) PROVE CheckTail(r)'
  <2> DEFINE e == [hash |-> design, ok |-> val[r].ok]
             o == [check |-> val[r].check, entry |-> e]
  <2>1. pc'[r] = "saveEvidence" /\ val'[r] = o
    BY <1>0, <1>3 DEF RecordEvidence, Goto, TypeOK
  <2>2. o.check = val[r].check /\ o.entry.hash = design /\ o.entry.ok = val[r].ok
    OBVIOUS
  <2>3. val[r].ok => design \in Passing[val[r].check]
    BY <1>0, <1>3 DEF RecordEvidence, CheckTail
  <2> HIDE DEF o
  <2> QED
    BY <2>1, <2>2, <2>3 DEF CheckTail
<1>4. ASSUME RecordStatus(r) PROVE CheckTail(r)'
  <2>1. pc'[r] = "saveStatus" /\ val'[r] = [copy |-> evidence]
    BY <1>0, <1>4 DEF RecordStatus, Goto, TypeOK
  <2>2. val'[r].copy = evidence
    BY <2>1
  <2> QED
    BY <1>0, <2>1, <2>2 DEF CheckTail, Truthful
<1>5. CASE ReviewStep(r)
  <2>1. pc'[r] \in { "idle", "mark", "decide", "dump", "save" }
    BY <1>0, <1>5 DEF ReviewStep, create_review_session, MarkItem, resolve_decision, SetMark,
       AppendDecision, DumpReview, SaveReview, Goto, Finish, TypeOK
  <2> QED
    BY <1>1, <2>1
<1>6. CASE GateStep(r) \/ ExportFiles(r) \/ \E saved \in BOOLEAN : SaveEvidence(r, saved) \/ SaveStatus(r, saved)
  <2>1. pc'[r] \in { "idle", "recorded", "admitted", "gated" }
    BY <1>0, <1>6 DEF GateStep, AdmitRelease, BindApproval, ExportFiles, SaveEvidence,
       SaveStatus, Goto, Finish, TypeOK
  <2> QED
    BY <1>1, <2>1
<1>7. ASSUME NEW c \in Contents, NEW saved \in BOOLEAN, EditDesign(r, c, saved) PROVE CheckTail(r)'
  BY <1>1, <1>7 DEF EditDesign
<1> QED
  BY <1>2, <1>3, <1>4, <1>5, <1>6, <1>7 DEF RequestStep, CheckStep

LEMMA OwnGate ==
    ASSUME ReviewInv, Bound, NEW r \in Requests, RequestStep(r)
    PROVE  GateTail(r)'
<1> USE DEF memory, disk
<1>0. TypeOK /\ Operand(r) /\ GateTail(r) /\ Truthful(status)
  BY DEF ReviewInv, Bound
<1>1. ASSUME pc'[r] \notin GateSteps PROVE GateTail(r)'
  BY <1>1 DEF GateTail
<1>2. ASSUME NEW a \in Presented, AdmitRelease(r, a) PROVE GateTail(r)'
  <2> DEFINE o == [identity |-> [approval |-> a, hash |-> design,
                                 seen |-> ReviewEvidence(design, a).decision]]
  <2>1. pc'[r] = "admitted" /\ val'[r] = o /\ UNCHANGED << design, review >>
    BY <1>0, <1>2 DEF AdmitRelease, Goto, TypeOK
  <2>2. o.identity.approval = a
    OBVIOUS
  <2> HIDE DEF o
  <2>3. ~ Refused(design) /\ Matches(a, design)
    BY <1>2, GateRefuses DEF AdmitRelease
  <2>4. \A k \in Checks : design \in Passing[k]
    BY <1>0, <1>2, CurrentPasses DEF AdmitRelease
  <2>5. Asked(r)' = a
    BY <2>1, <2>2 DEF Asked
  <2>6. ~ Refused(design)' /\ Matches(a, design)'
    BY <2>1, <2>3 DEF Refused, Matches, Terminal
  <2> QED
    BY <2>1, <2>4, <2>5, <2>6 DEF GateTail, Matches
<1>3. ASSUME NEW policy \in BOOLEAN, NEW reviewed \in BOOLEAN, NEW saved \in BOOLEAN,
             BindApproval(r, policy, reviewed, saved), pc'[r] \in GateSteps
      PROVE  GateTail(r)'
  <2>1. /\ pc[r] = "admitted" /\ CoverageComplete(design, reviewed)
        /\ Goto(r, "gated", [approval |-> val[r].identity.approval])
        /\ UNCHANGED << design, review >>
    BY <1>0, <1>3, FinishType DEF BindApproval, GateSteps
  <2>2. pc'[r] = "gated" /\ val'[r].approval = val[r].identity.approval
    BY <1>0, <2>1 DEF Goto, TypeOK
  <2>3. design \in Covered \cup Risky
    BY <2>1 DEF CoverageComplete
  <2>4. PICK a : a = Asked(r)
    OBVIOUS
  <2>5. Asked(r)' = a
    BY <2>1, <2>2, <2>4 DEF Asked
  <2>6. (\A k \in Checks : design \in Passing[k]) /\ ~ Refused(design) /\ Matches(a, design)
    BY <1>0, <2>1, <2>4 DEF GateTail, GateSteps
  <2>7. ~ Refused(design)' /\ Matches(a, design)'
    BY <2>1, <2>6 DEF Refused, Matches, Terminal
  <2> QED
    BY <2>1, <2>2, <2>3, <2>5, <2>6, <2>7 DEF GateTail, Matches
<1>4. CASE ReviewStep(r) \/ ExportFiles(r)
  <2>1. pc'[r] \in { "idle", "mark", "decide", "dump", "save" }
    BY <1>0, <1>4 DEF ReviewStep, create_review_session, MarkItem, resolve_decision, SetMark,
       AppendDecision, DumpReview, SaveReview, ExportFiles, Goto, Finish, TypeOK
  <2> QED
    BY <1>1, <2>1 DEF GateSteps
<1>5. CASE CheckStep(r)
  <2>1. pc'[r] \in { "idle", "checked", "saveEvidence", "recorded", "saveStatus" }
    BY <1>0, <1>5 DEF CheckStep, EditDesign, RunCheck, RecordEvidence, RecordStatus, SaveEvidence,
       SaveStatus, Goto, Finish, TypeOK
  <2> QED
    BY <1>1, <2>1 DEF GateSteps
<1> QED
  BY <1>1, <1>2, <1>3, <1>4, <1>5 DEF RequestStep, GateStep

\* A call keeps what it relies on through the steps of the others, as long as
\* none of them crosses it.
LEMMA OtherTails ==
    ASSUME ReviewInv, Bound, NEW r \in Requests, RequestStep(r), ~ crossed',
           NEW s \in Requests, s # r
    PROVE  CheckTail(s)' /\ GateTail(s)'
<1>0. TypeOK /\ CheckTail(s) /\ GateTail(s)
  BY DEF ReviewInv, Bound
<1>1. pc'[s] = pc[s] /\ val'[s] = val[s]
  BY <1>0, Frame
<1>2. ~ Crosses(r)
  BY DEF RequestStep, Remember
<1>3. pc[s] \in GateSteps \cup { "checked" } => design' = design
  BY <1>2 DEF Crosses
<1>4. CheckTail(s)'
  BY <1>0, <1>1, <1>3 DEF CheckTail, Truthful
<1>5. ASSUME pc[s] \in GateSteps PROVE GateTail(s)'
  <2>1. pc[r] # "decide" /\ design' = design
    BY <1>2, <1>3, <1>5 DEF Crosses
  <2>2. Undecided
    BY <2>1, DecisionsKept
  <2>3. PICK a : a = Asked(s)
    OBVIOUS
  <2>4. Asked(s)' = a
    BY <1>1, <2>3 DEF Asked
  <2>5. /\ \A k \in Checks : design \in Passing[k]
        /\ ~ Refused(design) /\ Matches(a, design)
        /\ pc[s] = "gated" => design \in Covered \cup Risky
    BY <1>0, <1>5, <2>3 DEF GateTail
  <2>6. ~ Refused(design)'
    BY <2>1, <2>2, <2>5 DEF Refused, Undecided
  <2>7. Matches(a, design)'
    BY <2>1, <2>2, <2>5 DEF Matches, Undecided
  <2> QED
    BY <1>1, <2>1, <2>4, <2>5, <2>6, <2>7 DEF GateTail, Matches
<1> QED
  BY <1>1, <1>4, <1>5 DEF GateTail

LEMMA BoundStep == ASSUME GateInv, [Next]_vars PROVE crossed' \/ Bound'
<1> SUFFICES ASSUME ~ crossed' PROVE Bound'
  OBVIOUS
<1>0. ReviewInv /\ TypeOK /\ Bound
  BY ContentionStep DEF GateInv, ReviewInv
<1>1. ASSUME NEW r \in left[3], RequestStep(r) PROVE Bound'
  <2>0. r \in Requests
    BY <1>0 DEF TypeOK
  <2>1. (Truthful(evidence) /\ Truthful(status) /\ Truthful(dEvidence) /\ Truthful(dStatus))'
    BY <1>0, <1>1, <2>0, TruthStep
  <2>2. \A s \in Requests : CheckTail(s)' /\ GateTail(s)'
    BY <1>0, <1>1, <2>0, OwnCheck, OwnGate, OtherTails
  <2> QED
    BY <2>1, <2>2 DEF Bound
<1>2. CASE UNCHANGED << memory, disk, pc, val >>
  BY <1>0, <1>2
     DEF memory, disk, Bound, Truthful, CheckTail, GateTail, Asked, Matches, Refused, Terminal
<1>3. CASE Restart
  <2>1. \A s \in Requests : CheckTail(s)' /\ GateTail(s)'
    BY <1>3 DEF Restart, CheckTail, GateTail, GateSteps
  <2>2. evidence' = dEvidence /\ status' = dStatus /\ UNCHANGED << dEvidence, dStatus >>
    BY <1>3 DEF Restart, disk
  <2> QED
    BY <1>0, <2>1, <2>2 DEF Bound, Truthful
<1> QED
  BY <1>1, <1>2, <1>3 DEF Next, OtherStep, IsolatedExport, vars, calls

\* What a step exports: the design in memory by a gated call, or the design
\* on disk by a worker of an MCP server.
LEMMA ExportComes ==
    ASSUME ReviewInv, Next, exported' # None
    PROVE  \/ \E r \in Requests :
                 /\ pc[r] = "gated" /\ UNCHANGED << review, dReview, decided >>
                 /\ exported' = [content |-> design, approval |-> val[r].approval, via |-> "rest"]
           \/ \E a \in Presented, reviewed \in BOOLEAN :
                 /\ Current(dStatus, dDesign) /\ CoverageComplete(dDesign, reviewed)
                 /\ exported' = [content |-> dDesign, approval |-> a, via |-> "mcp"]
<1>1. left[3] \subseteq Requests
  BY DEF ReviewInv, TypeOK
<1>2. \/ \E r \in Requests : ExportFiles(r)
      \/ \E a \in Presented, reviewed \in BOOLEAN : IsolatedExport(a, reviewed)
  BY <1>1 DEF Next, RequestStep, OtherStep
<1>3. ASSUME NEW r \in Requests, ExportFiles(r)
      PROVE  /\ pc[r] = "gated" /\ UNCHANGED << review, dReview, decided >>
             /\ exported' = [content |-> design, approval |-> val[r].approval, via |-> "rest"]
  BY <1>3 DEF ExportFiles, memory, disk
<1> QED
  BY <1>2, <1>3 DEF IsolatedExport

LEMMA ExportStep ==
    ASSUME GateInv, [Next]_vars
    PROVE  ReleasedIsSound' /\ ApprovalReleasesReviewedState'
<1>0. ReviewInv /\ (crossed => crossed') /\ contended \subseteq contended'
  BY ContentionStep DEF GateInv
<1>1. CASE UNCHANGED vars
  BY <1>1 DEF GateInv, ReleasedIsSound, ApprovalReleasesReviewedState, vars, memory, disk, ghosts
<1>2. CASE Next
  <2>1. CASE exported' = None \/ crossed'
    BY <2>1 DEF ReleasedIsSound, ApprovalReleasesReviewedState
  <2>2. ASSUME ~ crossed', NEW r \in Requests, pc[r] = "gated",
               UNCHANGED << review, dReview, decided >>,
               exported' = [content |-> design, approval |-> val[r].approval, via |-> "rest"]
        PROVE  ReleasedIsSound' /\ ApprovalReleasesReviewedState'
    <3>1. GateTail(r)
      BY <1>0, <2>2 DEF GateInv, Bound
    <3>2. exported'.content = design /\ exported'.approval = val[r].approval
      BY <2>2
    <3>3. /\ \A k \in Checks : design \in Passing[k]
          /\ design \in Covered \cup Risky /\ Matches(val[r].approval, design)
      BY <2>2, <3>1 DEF GateTail, GateSteps, Asked
    <3>4. ASSUME NEW v \in Reviews \ contended', decided[v] # None,
                 decided[v].at = val[r].approval, decided[v].decision \in Approving
          PROVE  dReview[v].hash = design
      <4>1. Settled(v)
        BY <1>0, <3>4 DEF ReviewInv
      <4>2. v \in Terminal
        BY <3>4, <4>1, ReleaseAssumption DEF Settled, Terminal
      <4> QED
        BY <3>3, <3>4, <4>1, <4>2 DEF Matches, Settled
    <3> QED
      BY <2>2, <3>2, <3>3, <3>4 DEF ReleasedIsSound, ApprovalReleasesReviewedState
  <2>3. ASSUME ~ crossed', NEW a, NEW reviewed \in BOOLEAN, Current(dStatus, dDesign),
               CoverageComplete(dDesign, reviewed),
               exported' = [content |-> dDesign, approval |-> a, via |-> "mcp"]
        PROVE  ReleasedIsSound' /\ ApprovalReleasesReviewedState'
    <3>1. Truthful(dStatus)
      BY <1>0, <2>3 DEF GateInv, Bound
    <3>2. (\A k \in Checks : dDesign \in Passing[k]) /\ dDesign \in Covered \cup Risky
      BY <2>3, <3>1, CurrentPasses DEF CoverageComplete
    <3>3. exported'.content = dDesign /\ exported'.via = "mcp"
      BY <2>3
    <3> QED
      BY <3>2, <3>3 DEF ReleasedIsSound, ApprovalReleasesReviewedState
  <2> QED
    BY <1>0, <1>2, <2>1, <2>2, <2>3, ExportComes
<1> QED
  BY <1>1, <1>2

LEMMA GateInit == Init => GateInv
<1> SUFFICES ASSUME Init PROVE GateInv
  OBVIOUS
<1>1. Bound
  BY DEF Init, Bound, Unchecked, Truthful, CheckTail, GateTail, GateSteps
<1> QED
  BY <1>1, ReviewInit DEF GateInv, Init, ReleasedIsSound, ApprovalReleasesReviewedState

\* Every behaviour keeps the invariant of the gate, whatever calls overlap:
\* unless one edits or decides between another's reading and acting, verdicts
\* stay with the design they are about and a call that the gate admitted has a
\* design that passes, is not refused and matches the approval.
THEOREM GateIsSound == Spec => []GateInv
<1>1. ASSUME GateInv, [Next]_vars PROVE GateInv'
  <2>1. ReviewInv'
    BY <1>1, ReviewInvStep DEF GateInv
  <2>2. crossed' \/ Bound'
    BY <1>1, BoundStep
  <2>3. ReleasedIsSound' /\ ApprovalReleasesReviewedState'
    BY <1>1, ExportStep
  <2> QED
    BY <2>1, <2>2, <2>3 DEF GateInv
<1> QED
  BY <1>1, GateInit, PTL DEF Spec

\* Whatever is exported passes ERC and DRC and has its evidence, unless an edit
\* came between a check and its record or between a gate and its export.
THEOREM ReleasedIsSoundHolds == Spec => []ReleasedIsSound
<1>1. GateInv => ReleasedIsSound
  BY DEF GateInv
<1> QED
  BY <1>1, GateIsSound, PTL

\* The approval of a review releases only the state that was reviewed, with
\* the same exception.
THEOREM ApprovalReleasesReviewedStateHolds == Spec => []ApprovalReleasesReviewedState
<1>1. GateInv => ApprovalReleasesReviewedState
  BY DEF GateInv
<1> QED
  BY <1>1, GateIsSound, PTL

\* The REST server never exports a state that a reviewer denied before the
\* gate: a restart does not forget the denial, and an approval of another
\* review does not override it.
THEOREM DeniedIsNotReleasedHolds == Spec => DeniedIsNotReleased
<1>1. ASSUME GateInv, [Next]_vars
      PROVE  [exported' # None /\ exported'.via = "rest" /\ ~ crossed => ~ Denied(exported'.content)]_vars
  <2> SUFFICES ASSUME Next, exported' # None, exported'.via = "rest", ~ crossed
               PROVE  ~ Denied(exported'.content)
    BY <1>1
  <2>0. ReviewInv /\ Bound
    BY <1>1 DEF GateInv
  <2>1. PICK r \in Requests :
            /\ pc[r] = "gated"
            /\ exported' = [content |-> design, approval |-> val[r].approval, via |-> "rest"]
    BY <2>0, ExportComes
  <2>2. GateTail(r) /\ exported'.content = design
    BY <2>0, <2>1 DEF Bound
  <2>3. ~ Refused(design)
    BY <2>1, <2>2 DEF GateTail, GateSteps
  <2> QED
    BY <2>0, <2>2, <2>3, DeniedIsRefused
<1> QED
  BY <1>1, GateIsSound, PTL DEF Spec, DeniedIsNotReleased
=============================================================================
