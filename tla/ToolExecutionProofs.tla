------------------------ MODULE ToolExecutionProofs ------------------------
(* Proofs about ToolExecution for every set of calls, sessions and targets. *)
EXTENDS ToolExecution, SequenceTheorems, FiniteSetTheorems, WellFoundedInduction, TLAPS

LEMMA RemoveIndexType ==
    ASSUME NEW S, NEW q \in Seq(S), NEW i \in 1..Len(q)
    PROVE  RemoveIndex(q, i) \in Seq(S)
<1>1. SubSeq(q, 1, i - 1) \in Seq(S)
  <2>1. 1 \in 1..Len(q)+1 /\ i - 1 \in 0..Len(q)
    BY LenProperties
  <2> QED BY <2>1, SubSeqProperties, LenProperties
<1>2. SubSeq(q, i + 1, Len(q)) \in Seq(S)
  BY SubSeqProperties, LenProperties
<1> QED BY <1>1, <1>2, ConcatProperties DEF RemoveIndex

LEMMA InitTypeOK == Init => TypeOK
<1> SUFFICES ASSUME Init PROVE TypeOK
  OBVIOUS
<1> USE ConstantsAssumption
<1>1. /\ pc \in [Actors -> PCs] /\ owner \in [Locks -> Actors \cup {None}]
      /\ waiters \in [Locks -> Seq(Actors)]
      /\ live \subseteq Sessions /\ destroyed \subseteq Sessions
  BY DEF Init, PCs
<1>2. /\ designs \in [Sessions -> SUBSET Jobs]
      /\ audit \in [Sessions -> SUBSET Events]
      /\ file \in [Targets -> Files]
      /\ clone \in [Jobs -> [designs : SUBSET Jobs, audit : SUBSET Events]]
  BY DEF Init, Files, NoClone
<1>3. /\ staging \in [Jobs -> [outputs : SUBSET Targets, response : Responses]]
      /\ worker \in [Jobs -> WorkerStates] /\ killer \subseteq Jobs
      /\ outcome \in [Jobs -> [status : Statuses, worker_terminated : BOOLEAN]]
      /\ cancels \in [Actors -> 0..MaxCancels]
  BY DEF Init, NoStaging, Responses, WorkerStates, Statuses
<1> QED BY <1>1, <1>2, <1>3 DEF TypeOK

LEMMA FinishType ==
    ASSUME TypeOK, NEW j \in Jobs, NEW status \in Statuses,
           NEW terminated \in BOOLEAN, Finish(j, status, terminated)
    PROVE  /\ pc' \in [Actors -> PCs]
           /\ owner' \in [Locks -> Actors \cup {None}]
           /\ clone' \in [Jobs -> [designs : SUBSET Jobs, audit : SUBSET Events]]
           /\ staging' \in [Jobs -> [outputs : SUBSET Targets, response : Responses]]
           /\ outcome' \in [Jobs -> [status : Statuses, worker_terminated : BOOLEAN]]
<1>1. pc' \in [Actors -> PCs]
  BY DEF TypeOK, Finish, Goto, PCs, Actors
<1>2. owner' \in [Locks -> Actors \cup {None}]
  BY DEF TypeOK, Finish, Released
<1>3. clone' \in [Jobs -> [designs : SUBSET Jobs, audit : SUBSET Events]]
  BY DEF TypeOK, Finish, NoClone
<1>4. staging' \in [Jobs -> [outputs : SUBSET Targets, response : Responses]]
  BY DEF TypeOK, Finish, NoStaging, Responses
<1>5. outcome' \in [Jobs -> [status : Statuses, worker_terminated : BOOLEAN]]
  BY DEF TypeOK, Finish
<1> QED BY <1>1, <1>2, <1>3, <1>4, <1>5

LEMMA RecordType ==
    ASSUME TypeOK, NEW j \in Jobs, NEW D \in SUBSET Decisions, Record(j, D)
    PROVE  audit' \in [Sessions -> SUBSET Events]
BY ConstantsAssumption DEF TypeOK, Record, Events, Actors

LEMMA CoordinatorErrorType ==
    ASSUME TypeOK, NEW j \in Jobs, CoordinatorError(j)
    PROVE  /\ pc' \in [Actors -> PCs]
           /\ owner' \in [Locks -> Actors \cup {None}]
           /\ clone' \in [Jobs -> [designs : SUBSET Jobs, audit : SUBSET Events]]
           /\ staging' \in [Jobs -> [outputs : SUBSET Targets, response : Responses]]
           /\ outcome' \in [Jobs -> [status : Statuses, worker_terminated : BOOLEAN]]
           /\ audit' \in [Sessions -> SUBSET Events]
<1>1. Finish(j, "error", TRUE) /\ "error" \in Statuses
  BY DEF CoordinatorError, Statuses
<1>2. audit' \in [Sessions -> SUBSET Events]
  <2>1. CASE Record(j, {"error", "rollback"})
    BY <2>1, RecordType DEF Decisions
  <2>2. CASE UNCHANGED audit
    BY <2>2 DEF TypeOK
  <2> QED BY <2>1, <2>2 DEF CoordinatorError
<1> QED BY <1>1, <1>2, FinishType

LEMMA EnqueueType ==
    ASSUME NEW q \in [Locks -> Seq(Actors)], NEW l \in Locks, NEW a \in Actors
    PROVE  Enqueue(q, l, a) \in [Locks -> Seq(Actors)]
BY DEF Enqueue

LEMMA DequeueType ==
    ASSUME NEW q \in [Locks -> Seq(Actors)], NEW l \in Locks, q[l] # << >>
    PROVE  Dequeue(q, l) \in [Locks -> Seq(Actors)]
BY DEF Dequeue

LEMMA EnqueueNextTargetType ==
    ASSUME NEW q \in [Locks -> Seq(Actors)], NEW j \in Jobs, NEW held
    PROVE  EnqueueNextTarget(q, j, held) \in [Locks -> Seq(Actors)]
BY DEF EnqueueNextTarget, Actors

LEMMA SessionOfType ==
    /\ \A a \in Actors : SessionOf[a] \in Sessions /\ SessionOf[a] \in Locks
    /\ \A j \in Jobs : j \in Actors /\ OutputsOf[j] \subseteq Targets
    /\ \A d \in Destroyers : d \in Actors
    /\ Targets \subseteq Locks
BY ConstantsAssumption DEF Actors, Locks

\* Steps before the worker runs keep every variable in its type.
LEMMA StartupTypeOK ==
    ASSUME TypeOK, NEW j \in Jobs,
           CallTool(j) \/ EnterSession(j) \/ AcquireOutput(j) \/ StartWorker(j)
             \/ SpawnThread(j) \/ WorkerStarted(j)
    PROVE  TypeOK'
<1> USE SessionOfType
<1>1. CASE CallTool(j)
  <2> DEFINE s == SessionOf[j]
  <2>0. pc' \in [Actors -> PCs]
    BY <1>1 DEF CallTool, Goto, TypeOK, PCs
  <2>1. CASE IsSessionDestroyed(s)
    <3>1. outcome' \in [Jobs -> [status : Statuses, worker_terminated : BOOLEAN]]
      <4>1. outcome' = [outcome EXCEPT ![j] =
                          [status |-> "rejected", worker_terminated |-> FALSE]]
        BY <1>1, <2>1 DEF CallTool
      <4> QED BY <4>1 DEF TypeOK, Statuses
    <3> QED BY <1>1, <2>0, <2>1, <3>1 DEF CallTool, TypeOK
  <2>2. CASE ~IsSessionDestroyed(s)
    <3>1. waiters' \in [Locks -> Seq(Actors)]
      <4>1. s \in Locks /\ j \in Actors /\ waiters \in [Locks -> Seq(Actors)]
        BY DEF TypeOK
      <4>2. waiters' = Enqueue(waiters, s, j)
        BY <1>1, <2>2 DEF CallTool
      <4> QED BY <4>1, <4>2, EnqueueType
    <3>2. audit' \in [Sessions -> SUBSET Events]
      BY <1>1, <2>2, RecordType DEF CallTool, Decisions
    <3> QED BY <1>1, <2>0, <2>2, <3>1, <3>2 DEF CallTool, TypeOK
  <2> QED BY <2>1, <2>2
<1>2. CASE EnterSession(j)
  <2> DEFINE s == SessionOf[j]
  <2>1. Dequeue(waiters, s) \in [Locks -> Seq(Actors)]
    BY <1>2, DequeueType DEF EnterSession, Grantable, TypeOK
  <2>2. CASE Finish(j, "conflict", FALSE) /\ waiters' = Dequeue(waiters, s) /\ UNCHANGED audit
    BY <1>2, <2>1, <2>2, FinishType DEF EnterSession, TypeOK, Statuses
  <2>3. CASE Finish(j, "raised", FALSE) /\ waiters' = Dequeue(waiters, s) /\ UNCHANGED audit
    BY <1>2, <2>1, <2>3, FinishType DEF EnterSession, TypeOK, Statuses
  <2>4. CASE CoordinatorError(j) /\ waiters' = Dequeue(waiters, s)
    BY <1>2, <2>1, <2>4, CoordinatorErrorType DEF EnterSession, TypeOK
  <2>5. CASE /\ Goto(j, "wait_output")
             /\ owner' = [owner EXCEPT ![s] = j]
             /\ waiters' = EnqueueNextTarget(Dequeue(waiters, s), j, {})
             /\ UNCHANGED << audit, clone, staging, outcome >>
    <3>1. waiters' \in [Locks -> Seq(Actors)]
      BY <2>1, <2>5, EnqueueNextTargetType
    <3> QED BY <1>2, <2>5, <3>1 DEF EnterSession, Goto, TypeOK, PCs
  <2> QED BY <1>2, <2>2, <2>3, <2>4, <2>5 DEF EnterSession
<1>3. CASE AcquireOutput(j)
  <2>1. PICK t \in OutputsOf[j] :
           /\ Grantable(t, j)
           /\ owner' = [owner EXCEPT ![t] = j]
           /\ waiters' = EnqueueNextTarget(Dequeue(waiters, t), j, Held(j) \cup {t})
    BY <1>3 DEF AcquireOutput
  <2>2. waiters' \in [Locks -> Seq(Actors)]
    BY <2>1, DequeueType, EnqueueNextTargetType DEF Grantable, TypeOK
  <2> QED BY <1>3, <2>1, <2>2 DEF AcquireOutput, TypeOK
<1>4. CASE StartWorker(j)
  <2>1. CASE CoordinatorError(j) /\ UNCHANGED worker
    BY <1>4, <2>1, CoordinatorErrorType DEF StartWorker, TypeOK
  <2>a. CASE /\ Finish(j, "error", TRUE)
             /\ \E D \in {{"start", "error", "rollback"}, {"start"}} : Record(j, D)
             /\ UNCHANGED worker
    <3>1. PICK D \in SUBSET Decisions : Record(j, D)
      BY <2>a DEF Decisions
    <3>2. audit' \in [Sessions -> SUBSET Events]
      BY <3>1, RecordType
    <3>3. "error" \in Statuses
      BY DEF Statuses
    <3> QED BY <1>4, <2>a, <3>2, <3>3, FinishType DEF StartWorker, TypeOK
  <2>2. CASE /\ Goto(j, "spawning")
             /\ Record(j, {"start"})
             /\ clone' = [clone EXCEPT ![j] =
                            CloneSession(SessionOf[j],
                                         audit[SessionOf[j]] \cup {<<j, "start">>})]
             /\ worker' = [worker EXCEPT ![j] = "spawning"]
             /\ UNCHANGED << owner, staging, outcome >>
    <3>1. audit' \in [Sessions -> SUBSET Events]
      BY <2>2, RecordType DEF Decisions
    <3>2. <<j, "start">> \in Events
      BY DEF Events, Decisions
    <3>3. clone' \in [Jobs -> [designs : SUBSET Jobs, audit : SUBSET Events]]
      <4>1. clone' = [clone EXCEPT ![j] = [designs |-> designs[SessionOf[j]],
                        audit |-> audit[SessionOf[j]] \cup {<<j, "start">>}]]
        BY <2>2 DEF CloneSession
      <4>2. /\ designs[SessionOf[j]] \in SUBSET Jobs
            /\ audit[SessionOf[j]] \cup {<<j, "start">>} \in SUBSET Events
        BY <3>2 DEF TypeOK
      <4> QED BY <4>1, <4>2 DEF TypeOK
    <3> QED BY <1>4, <2>2, <3>1, <3>3 DEF StartWorker, Goto, TypeOK, PCs, WorkerStates
  <2> QED BY <1>4, <2>1, <2>a, <2>2 DEF StartWorker
<1>5. CASE SpawnThread(j)
  BY <1>5 DEF SpawnThread, TypeOK, WorkerStates
<1>6. CASE WorkerStarted(j)
  <2>1. CASE CoordinatorError(j) /\ UNCHANGED killer
    BY <1>6, <2>1, CoordinatorErrorType DEF WorkerStarted, TypeOK
  <2>2. CASE ~(CoordinatorError(j) /\ UNCHANGED killer)
    BY <1>6, <2>2 DEF WorkerStarted, Goto, TypeOK, PCs
  <2> QED BY <2>1, <2>2
<1> QED BY <1>1, <1>2, <1>3, <1>4, <1>5, <1>6

\* Steps of the worker, of its threads and of the coordinator that waits for
\* them, up to the commit, keep every variable in its type.
LEMMA WorkerTypeOK ==
    ASSUME TypeOK, NEW j \in Jobs,
           \/ WorkerExit(j) \/ DescendantWrites(j) \/ TerminateThread(j) \/ PipesClose(j)
           \/ CommunicationEnds(j) \/ DeadlineElapses(j)
           \/ CancelledSpawnReturns(j) \/ TerminationRecorded(j)
           \/ CoordinatorErrorEnds(j) \/ WorkerFailed(j)
    PROVE  TypeOK'
<1> USE SessionOfType
<1>1. CASE WorkerExit(j)
  <2>1. staging' \in [Jobs -> [outputs : SUBSET Targets, response : Responses]]
    <3>1. \/ staging' = staging
          \/ \E outputs \in SUBSET OutputsOf[j], response \in Responses :
                staging' = [staging EXCEPT ![j] =
                              [outputs |-> outputs, response |-> response]]
      BY <1>1 DEF WorkerExit
    <3>2. ASSUME NEW outputs \in SUBSET OutputsOf[j], NEW response \in Responses
          PROVE  [outputs |-> outputs, response |-> response]
                    \in [outputs : SUBSET Targets, response : Responses]
      <4>1. outputs \in SUBSET Targets
        OBVIOUS
      <4> QED BY <4>1
    <3>3. \/ staging' = staging
          \/ \E left \in [outputs : SUBSET Targets, response : Responses] :
                staging' = [staging EXCEPT ![j] = left]
      BY <3>1, <3>2
    <3> QED BY <3>3 DEF TypeOK
  <2>2. worker' \in [Jobs -> WorkerStates]
    BY <1>1 DEF WorkerExit, TypeOK, WorkerStates
  <2> QED BY <1>1, <2>1, <2>2 DEF WorkerExit, TypeOK
<1>2. CASE DescendantWrites(j)
  <2>1. staging' \in [Jobs -> [outputs : SUBSET Targets, response : Responses]]
    <3>1. PICK t \in OutputsOf[j] :
             staging' = [staging EXCEPT ![j].outputs = @ \cup {t}]
      BY <1>2 DEF DescendantWrites
    <3>2. /\ staging[j] \in [outputs : SUBSET Targets, response : Responses]
          /\ t \in Targets
      BY DEF TypeOK
    <3>3. [staging[j] EXCEPT !.outputs = @ \cup {t}]
             \in [outputs : SUBSET Targets, response : Responses]
      BY <3>2
    <3>4. staging' = [staging EXCEPT ![j] = [staging[j] EXCEPT !.outputs = @ \cup {t}]]
      BY <3>1 DEF TypeOK
    <3> QED BY <3>3, <3>4 DEF TypeOK
  <2> QED BY <1>2, <2>1 DEF DescendantWrites, TypeOK
<1>3. CASE TerminateThread(j) \/ PipesClose(j)
  BY <1>3 DEF TerminateThread, PipesClose, TypeOK, WorkerStates
<1>4. CASE CommunicationEnds(j)
  BY <1>4 DEF CommunicationEnds, Goto, TypeOK, PCs
<1>5. CASE DeadlineElapses(j)
  BY <1>5 DEF DeadlineElapses, Goto, TypeOK, PCs
<1>6. CASE CancelledSpawnReturns(j)
  <2>1. CASE CoordinatorError(j) /\ UNCHANGED killer
    BY <1>6, <2>1, CoordinatorErrorType DEF CancelledSpawnReturns, TypeOK
  <2>2. CASE ~(CoordinatorError(j) /\ UNCHANGED killer)
    BY <1>6, <2>2 DEF CancelledSpawnReturns, Goto, TypeOK, PCs
  <2> QED BY <2>1, <2>2
<1>7. CASE TerminationRecorded(j)
  <2> DEFINE status == IF pc[j] = "timing_out" THEN "timeout" ELSE "cancelled"
             decision == IF pc[j] = "timing_out" THEN "timeout" ELSE "cancel"
  <2>1. CASE /\ Finish(j, status, worker[j] = "stopped")
             /\ Record(j, {decision, "worker_terminated", "rollback"})
    <3>1. status \in Statuses /\ (worker[j] = "stopped") \in BOOLEAN
      BY DEF Statuses
    <3>2. {decision, "worker_terminated", "rollback"} \in SUBSET Decisions
      BY DEF Decisions
    <3>3. audit' \in [Sessions -> SUBSET Events]
      BY <2>1, <3>2, RecordType
    <3> QED BY <1>7, <2>1, <3>1, <3>3, FinishType DEF TerminationRecorded, TypeOK
  <2>2. CASE CoordinatorError(j)
    BY <1>7, <2>2, CoordinatorErrorType DEF TerminationRecorded, TypeOK
  <2> QED BY <1>7, <2>1, <2>2 DEF TerminationRecorded
<1>8. CASE CoordinatorErrorEnds(j)
  <2>1. CASE /\ Finish(j, "error", worker[j] = "stopped")
             /\ Record(j, {"worker_terminated", "error", "rollback"})
    <3>1. audit' \in [Sessions -> SUBSET Events]
      BY <2>1, RecordType DEF Decisions
    <3>2. "error" \in Statuses /\ (worker[j] = "stopped") \in BOOLEAN
      BY DEF Statuses
    <3> QED BY <1>8, <2>1, <3>1, <3>2, FinishType DEF CoordinatorErrorEnds, TypeOK
  <2>2. CASE Finish(j, "raised", FALSE) /\ UNCHANGED audit
    <3>1. "raised" \in Statuses
      BY DEF Statuses
    <3> QED BY <1>8, <2>2, <3>1, FinishType DEF CoordinatorErrorEnds, TypeOK
  <2> QED BY <1>8, <2>1, <2>2 DEF CoordinatorErrorEnds
<1>9. CASE WorkerFailed(j)
  BY <1>9, CoordinatorErrorType DEF WorkerFailed, TypeOK
<1> QED BY <1>1, <1>2, <1>3, <1>4, <1>5, <1>6, <1>7, <1>8, <1>9

\* The commit, with or without a fault, keeps every variable in its type.
LEMMA CommitTypeOK ==
    ASSUME TypeOK, NEW j \in Jobs, Commit(j)
    PROVE  TypeOK'
<1> USE SessionOfType
<1>1. Published(j) \in [Targets -> Files]
  BY DEF Published, TypeOK, Files
<1>2. ReplacedDesigns(j) \in [Sessions -> SUBSET Jobs]
  BY DEF ReplacedDesigns, TypeOK
<1>3. <<j, "commit">> \in Events /\ clone[j].audit \in SUBSET Events
  BY DEF Events, Decisions, TypeOK
<1>4. MergedAudit(j) \in [Sessions -> SUBSET Events]
  BY <1>3 DEF MergedAudit, TypeOK
<1>5. "completed" \in Statuses /\ "raised" \in Statuses
  BY DEF Statuses
<1>6. UNCHANGED << waiters, live, destroyed, worker, killer, cancels >>
  BY DEF Commit
<1>7. CASE CommitSucceeds(j)
  BY <1>1, <1>2, <1>4, <1>5, <1>6, <1>7, FinishType DEF CommitSucceeds, TypeOK
<1>8. CASE CommitRollsBack(j)
  BY <1>6, <1>8, CoordinatorErrorType DEF CommitRollsBack, TypeOK
<1>9. CASE CommittingJournalFails(j)
  BY <1>1, <1>6, <1>9, CoordinatorErrorType DEF CommittingJournalFails, TypeOK
<1>10. CASE StateReplaceEscapes(j)
  <2>1. audit' \in [Sessions -> SUBSET Events]
    BY <1>3, <1>10 DEF StateReplaceEscapes, TypeOK
  <2>2. designs' \in [Sessions -> SUBSET Jobs]
    BY <1>10 DEF StateReplaceEscapes, TypeOK
  <2> QED BY <1>1, <1>5, <1>6, <1>10, <2>1, <2>2, FinishType
          DEF StateReplaceEscapes, TypeOK
<1>11. CASE CommitEventEscapes(j)
  BY <1>1, <1>2, <1>4, <1>5, <1>6, <1>11, FinishType DEF CommitEventEscapes, TypeOK
<1> QED BY <1>7, <1>8, <1>9, <1>10, <1>11 DEF Commit

\* A cancellation keeps every variable in its type, wherever it strikes.
LEMMA CancelTypeOK ==
    ASSUME TypeOK,
           \/ \E j \in Jobs : CancelWorking(j) \/ CancelCleanup(j)
           \/ \E a \in Actors : CancelWaiting(a)
    PROVE  TypeOK'
<1> USE SessionOfType
<1>1. ASSUME NEW a \in Actors, Cancelled(a)
      PROVE  cancels' \in [Actors -> 0..MaxCancels]
  BY <1>1, ConstantsAssumption DEF Cancelled, TypeOK
<1>2. ASSUME NEW j \in Jobs, CancelWorking(j) PROVE TypeOK'
  <2>1. cancels' \in [Actors -> 0..MaxCancels]
    BY <1>1, <1>2 DEF CancelWorking
  <2> QED BY <1>2, <2>1 DEF CancelWorking, Goto, TypeOK, PCs
<1>3. ASSUME NEW j \in Jobs, CancelCleanup(j) PROVE TypeOK'
  <2>1. cancels' \in [Actors -> 0..MaxCancels]
    BY <1>1, <1>3 DEF CancelCleanup
  <2>2. "cancelled" \in Statuses
    BY DEF Statuses
  <2> QED BY <1>3, <2>1, <2>2, FinishType DEF CancelCleanup, TypeOK
<1>4. ASSUME NEW a \in Actors, CancelWaiting(a) PROVE TypeOK'
  <2>1. cancels' \in [Actors -> 0..MaxCancels]
    BY <1>1, <1>4 DEF CancelWaiting
  <2>2. waiters' \in [Locks -> Seq(Actors)]
    <3>0. PICK l \in Locks : \E i \in 1..Len(waiters[l]) :
             waiters' = [waiters EXCEPT ![l] = RemoveIndex(@, i)]
      BY <1>4 DEF CancelWaiting
    <3>1. PICK i \in 1..Len(waiters[l]) :
             waiters' = [waiters EXCEPT ![l] = RemoveIndex(@, i)]
      BY <3>0
    <3>2. waiters \in [Locks -> Seq(Actors)] /\ waiters[l] \in Seq(Actors)
      BY DEF TypeOK
    <3>3. RemoveIndex(waiters[l], i) \in Seq(Actors)
      BY <3>2, RemoveIndexType
    <3> QED BY <3>1, <3>2, <3>3
  <2>3. "cancelled" \in Statuses
    BY DEF Statuses
  <2>4. CASE a \in Jobs
    BY <1>4, <2>1, <2>2, <2>3, <2>4, FinishType DEF CancelWaiting, TypeOK
  <2>5. CASE a \notin Jobs
    <3>1. pc' \in [Actors -> PCs]
      <4>1. Goto(a, "done")
        BY <1>4, <2>5 DEF CancelWaiting
      <4> QED BY <4>1 DEF Goto, TypeOK, PCs
    <3>2. UNCHANGED << owner, clone, staging, outcome, live, destroyed, designs,
                       audit, file, worker, killer >>
      BY <1>4, <2>5 DEF CancelWaiting
    <3> QED BY <2>1, <2>2, <3>1, <3>2 DEF TypeOK
  <2> QED BY <2>4, <2>5
<1> QED BY <1>2, <1>3, <1>4

\* session_destroy keeps every variable in its type.
LEMMA DestroyTypeOK ==
    ASSUME TypeOK, NEW d \in Destroyers, CallDestroy(d) \/ Destroy(d)
    PROVE  TypeOK'
<1> USE SessionOfType
<1> DEFINE s == SessionOf[d]
<1>0. s \in Locks /\ s \in Sessions /\ d \in Actors /\ waiters \in [Locks -> Seq(Actors)]
  BY DEF TypeOK
<1>1. CASE CallDestroy(d)
  <2>1. waiters' \in [Locks -> Seq(Actors)]
    <3>1. waiters' = waiters \/ waiters' = Enqueue(waiters, s, d)
      BY <1>1 DEF CallDestroy
    <3> QED BY <1>0, <3>1, EnqueueType
  <2> QED BY <1>1, <2>1 DEF CallDestroy, Goto, TypeOK, PCs
<1>2. CASE Destroy(d)
  <2>1. waiters' \in [Locks -> Seq(Actors)]
    BY <1>0, <1>2, DequeueType DEF Destroy, Grantable
  <2>2. /\ live' \subseteq Sessions /\ destroyed' \subseteq Sessions
        /\ designs' \in [Sessions -> SUBSET Jobs]
        /\ audit' \in [Sessions -> SUBSET Events]
    BY <1>0, <1>2 DEF Destroy, TypeOK
  <2>3. pc' \in [Actors -> PCs]
    BY <1>2 DEF Destroy, Goto, TypeOK, PCs
  <2> QED BY <1>2, <2>1, <2>2, <2>3 DEF Destroy, TypeOK
<1> QED BY <1>1, <1>2

LEMMA NextTypeOK == TypeOK /\ [Next]_vars => TypeOK'
<1> SUFFICES ASSUME TypeOK, [Next]_vars PROVE TypeOK'
  OBVIOUS
<1>1. CASE UNCHANGED vars
  BY <1>1 DEF vars, TypeOK
<1>2. ASSUME NEW j \in Jobs, CallTool(j) \/ SpawnThread(j) PROVE TypeOK'
  BY <1>2, StartupTypeOK
<1>3. ASSUME NEW j \in Jobs, JobStep(j) PROVE TypeOK'
  BY <1>3, StartupTypeOK, WorkerTypeOK, CommitTypeOK DEF JobStep
<1>4. ASSUME NEW j \in Jobs,
             \/ TerminateThread(j) \/ PipesClose(j)
             \/ WorkerExit(j) \/ DescendantWrites(j)
      PROVE  TypeOK'
  BY <1>4, WorkerTypeOK
<1>5. CASE \/ \E j \in Jobs : CancelWorking(j) \/ CancelCleanup(j)
           \/ \E a \in Actors : CancelWaiting(a)
  BY <1>5, CancelTypeOK
<1>6. ASSUME NEW d \in Destroyers, CallDestroy(d) \/ Destroy(d) PROVE TypeOK'
  BY <1>6, DestroyTypeOK
<1> QED BY <1>1, <1>2, <1>3, <1>4, <1>5, <1>6 DEF Next, Quiescent

\* Whatever the number of calls, sessions and targets and whichever failures
\* occur, every variable of the coordinator stays in its type.
THEOREM TypeCorrect == Spec => []TypeOK
BY InitTypeOK, NextTypeOK, PTL DEF Spec

-----------------------------------------------------------------------------
(***************************************************************************)
(* What a step does to the state the safety properties speak of.  Next has *)
(* some forty disjuncts; with respect to safetyVars each of them has one   *)
(* of the effects below, and the invariants are proved effect by effect.   *)
(***************************************************************************)
safetyVars == << pc, owner, live, destroyed, designs, audit, file, clone,
                 staging, outcome >>

\* The events a step may record for a job that has not committed.
OtherDecisions == Decisions \ {"commit"}

\* A call is rejected at once.
Rejects(j) ==
    /\ pc[j] = "idle"
    /\ pc' = [pc EXCEPT ![j] = "done"]
    /\ outcome' = [outcome EXCEPT ![j] =
                     [status |-> "rejected", worker_terminated |-> FALSE]]
    /\ UNCHANGED << owner, live, destroyed, designs, audit, file, clone, staging >>

\* A call is queued on the lock of a session that was not destroyed.
Queues(j) ==
    /\ pc[j] = "idle" /\ SessionOf[j] \notin destroyed
    /\ pc' = [pc EXCEPT ![j] = "wait_session"]
    /\ live' = live \cup {SessionOf[j]}
    /\ audit' = [audit EXCEPT ![SessionOf[j]] = @ \cup {<<j, "allow">>}]
    /\ UNCHANGED << owner, destroyed, designs, file, clone, staging, outcome >>

\* The session lock is free and taken.
Enters(j) ==
    /\ pc[j] = "wait_session" /\ SessionOf[j] \notin destroyed
    /\ owner[SessionOf[j]] = None
    /\ pc' = [pc EXCEPT ![j] = "wait_output"]
    /\ owner' = [owner EXCEPT ![SessionOf[j]] = j]
    /\ UNCHANGED << live, destroyed, designs, audit, file, clone, staging, outcome >>

\* A free output lock is taken.
Acquires(j) ==
    /\ \E t \in Targets : owner[t] = None /\ owner' = [owner EXCEPT ![t] = j]
    /\ UNCHANGED << pc, live, destroyed, designs, audit, file, clone, staging, outcome >>

\* The session is cloned and the worker is started with every lock held.
Starts(j) ==
    /\ pc[j] = "wait_output" /\ \A t \in OutputsOf[j] : owner[t] = j
    /\ pc' = [pc EXCEPT ![j] = "spawning"]
    /\ audit' = [audit EXCEPT ![SessionOf[j]] = @ \cup {<<j, "start">>}]
    /\ clone' = [clone EXCEPT ![j] =
                   [designs |-> designs[SessionOf[j]],
                    audit |-> audit[SessionOf[j]] \cup {<<j, "start">>}]]
    /\ UNCHANGED << owner, live, destroyed, designs, file, staging, outcome >>

\* The coordinator goes from one await to another while it owns a worker.
Moves(j) ==
    /\ pc[j] \in InWorker
    /\ \E p \in InWorker : pc' = [pc EXCEPT ![j] = p]
    /\ UNCHANGED << owner, live, destroyed, designs, audit, file, clone,
                    staging, outcome >>

\* The worker or a descendant of it writes to the staging directory.
Stages(j) ==
    /\ \E r \in [outputs : SUBSET OutputsOf[j], response : Responses] :
          staging' = [staging EXCEPT ![j] = r]
    /\ UNCHANGED << pc, owner, live, destroyed, designs, audit, file, clone, outcome >>

\* The parts of leaving a call that every outcome shares.
Leaves(j) ==
    /\ pc[j] \in PCs \ {"idle", "done"}
    /\ pc' = [pc EXCEPT ![j] = "done"]
    /\ owner' = Released(j)
    /\ clone' = [clone EXCEPT ![j] = NoClone]
    /\ staging' = [staging EXCEPT ![j] = NoStaging]
    /\ UNCHANGED << live, destroyed >>

\* The call ends with nothing published.
Ends(j) ==
    /\ Leaves(j)
    /\ \E r \in [status : Statuses \ {"completed"}, worker_terminated : BOOLEAN] :
          outcome' = [outcome EXCEPT ![j] = r]
    /\ \/ UNCHANGED audit
       \/ /\ pc[j] \in InSession \/ SessionOf[j] \notin destroyed
          /\ \E D \in SUBSET OtherDecisions :
                audit' = [audit EXCEPT ![SessionOf[j]] = @ \cup ({j} \X D)]
    /\ UNCHANGED << designs, file >>

\* The call ends with everything published.
Commits(j) ==
    /\ pc[j] \in InWorker /\ worker[j] = "stopped"
    /\ Leaves(j)
    /\ outcome' = [outcome EXCEPT ![j] =
                     [status |-> "completed", worker_terminated |-> TRUE]]
    /\ file' = Published(j)
    /\ designs' = ReplacedDesigns(j)
    /\ audit' = MergedAudit(j)

\* A failure that the coordinator does not undo strikes the commit.
Escapes(j) ==
    /\ Faults \cap UnhandledFaults # {}
    /\ pc[j] \in InWorker
    /\ Leaves(j)
    /\ \E X \in SUBSET Jobs : designs' = [designs EXCEPT ![SessionOf[j]] = X]
    /\ \E E \in SUBSET Events : audit' = [audit EXCEPT ![SessionOf[j]] = @ \cup E]

\* session_destroy moves without touching a session.
DestroyerMoves(d) ==
    /\ \E p \in PCs : pc' = [pc EXCEPT ![d] = p]
    /\ UNCHANGED << owner, live, destroyed, designs, audit, file, clone,
                    staging, outcome >>

\* session_destroy removes a session whose lock is free.
Destroys(d) ==
    /\ owner[SessionOf[d]] = None
    /\ \E p \in PCs : pc' = [pc EXCEPT ![d] = p]
    /\ destroyed' = destroyed \cup {SessionOf[d]}
    /\ live' = live \ {SessionOf[d]}
    /\ designs' = [designs EXCEPT ![SessionOf[d]] = {}]
    /\ audit' = [audit EXCEPT ![SessionOf[d]] = {}]
    /\ UNCHANGED << owner, file, clone, staging, outcome >>

Effect(j) ==
    \/ Rejects(j) \/ Queues(j) \/ Enters(j) \/ Acquires(j) \/ Starts(j)
    \/ Moves(j) \/ Stages(j) \/ Ends(j) \/ Commits(j) \/ Escapes(j)

\* Staged outputs are declared outputs.
StagingDeclared == \A j \in Jobs : staging[j].outputs \subseteq OutputsOf[j]

LEMMA FinishEnds ==
    ASSUME TypeOK, NEW j \in Jobs, NEW status \in Statuses \ {"completed"},
           NEW terminated \in BOOLEAN, Finish(j, status, terminated),
           pc[j] \in PCs \ {"idle", "done"},
           UNCHANGED << live, destroyed, designs, file >>,
           \/ UNCHANGED audit
           \/ /\ pc[j] \in InSession \/ SessionOf[j] \notin destroyed
              /\ \E D \in SUBSET OtherDecisions : Record(j, D)
    PROVE  Ends(j)
<1>1. Leaves(j)
  BY DEF Finish, Leaves, Goto
<1>2. \E r \in [status : Statuses \ {"completed"}, worker_terminated : BOOLEAN] :
         outcome' = [outcome EXCEPT ![j] = r]
  BY DEF Finish
<1> QED BY <1>1, <1>2 DEF Ends, Record

LEMMA CoordinatorErrorEffect ==
    ASSUME TypeOK, NEW j \in Jobs, CoordinatorError(j),
           pc[j] \in PCs \ {"idle", "done"},
           pc[j] \in InSession \/ SessionOf[j] \notin destroyed,
           UNCHANGED << live, destroyed, designs, file >>
    PROVE  Ends(j)
<1>1. Finish(j, "error", TRUE)
  BY DEF CoordinatorError
<1>2. "error" \in Statuses \ {"completed"} /\ {"error", "rollback"} \in SUBSET OtherDecisions
  BY DEF Statuses, OtherDecisions, Decisions
<1>3. UNCHANGED audit \/ \E D \in SUBSET OtherDecisions : Record(j, D)
  BY <1>2 DEF CoordinatorError
<1> QED BY <1>1, <1>2, <1>3, FinishEnds

\* Up to the start of the worker.
LEMMA StartupEffect ==
    ASSUME TypeOK, NEW j \in Jobs,
           CallTool(j) \/ EnterSession(j) \/ AcquireOutput(j) \/ StartWorker(j)
             \/ SpawnThread(j) \/ WorkerStarted(j)
    PROVE  Effect(j) \/ UNCHANGED safetyVars
<1> USE SessionOfType
<1> DEFINE s == SessionOf[j]
<1>1. CASE CallTool(j)
  <2>1. CASE IsSessionDestroyed(s)
    BY <1>1, <2>1 DEF CallTool, Goto, Rejects, Effect
  <2>2. CASE ~IsSessionDestroyed(s)
    <3>1. {j} \X {"allow"} = {<<j, "allow">>}
      OBVIOUS
    <3> QED BY <1>1, <2>2, <3>1
            DEF CallTool, Goto, Record, IsSessionDestroyed, Queues, Effect
  <2> QED BY <2>1, <2>2
<1>2. CASE EnterSession(j)
  <2>1. /\ pc[j] = "wait_session" /\ owner[s] = None
        /\ UNCHANGED << live, destroyed, designs, file >>
    BY <1>2 DEF EnterSession, Grantable
  <2>2. pc[j] \in PCs \ {"idle", "done"}
    BY <2>1 DEF PCs
  <2>3. CASE Finish(j, "conflict", FALSE) /\ UNCHANGED audit
    BY <2>1, <2>2, <2>3, FinishEnds DEF Statuses, Effect
  <2>4. CASE Finish(j, "raised", FALSE) /\ UNCHANGED audit
    BY <2>1, <2>2, <2>4, FinishEnds DEF Statuses, Effect
  <2>5. CASE ~IsSessionDestroyed(s) /\ CoordinatorError(j)
    BY <2>1, <2>2, <2>5, CoordinatorErrorEffect DEF IsSessionDestroyed, Effect
  <2>6. CASE /\ ~IsSessionDestroyed(s)
             /\ Goto(j, "wait_output")
             /\ owner' = [owner EXCEPT ![s] = j]
             /\ UNCHANGED << audit, clone, staging, outcome >>
    BY <2>1, <2>6 DEF Goto, IsSessionDestroyed, Enters, Effect
  <2> QED BY <1>2, <2>3, <2>4, <2>5, <2>6 DEF EnterSession
<1>3. CASE AcquireOutput(j)
  <2>1. PICK t \in OutputsOf[j] :
           Grantable(t, j) /\ owner' = [owner EXCEPT ![t] = j]
    BY <1>3 DEF AcquireOutput
  <2> QED BY <1>3, <2>1 DEF AcquireOutput, Grantable, Acquires, Effect
<1>4. CASE StartWorker(j)
  <2>1. /\ pc[j] = "wait_output" /\ Held(j) = OutputsOf[j]
        /\ UNCHANGED << live, destroyed, designs, file >>
    BY <1>4 DEF StartWorker
  <2>2. CASE CoordinatorError(j)
    <3>1. pc[j] \in InSession /\ pc[j] \in PCs \ {"idle", "done"}
      BY <2>1 DEF InSession, PCs
    <3> QED BY <2>1, <2>2, <3>1, CoordinatorErrorEffect DEF Effect
  <2>a. CASE /\ Finish(j, "error", TRUE)
             /\ \E D \in {{"start", "error", "rollback"}, {"start"}} : Record(j, D)
    <3>1. pc[j] \in InSession /\ pc[j] \in PCs \ {"idle", "done"}
      BY <2>1 DEF InSession, PCs
    <3>2. \E D \in SUBSET OtherDecisions : Record(j, D)
      BY <2>a DEF OtherDecisions, Decisions
    <3>3. "error" \in Statuses \ {"completed"}
      BY DEF Statuses
    <3> QED BY <2>1, <2>a, <3>1, <3>2, <3>3, FinishEnds DEF Effect
  <2>3. CASE /\ Goto(j, "spawning")
             /\ Record(j, {"start"})
             /\ clone' = [clone EXCEPT ![j] =
                            CloneSession(s, audit[s] \cup {<<j, "start">>})]
             /\ UNCHANGED << owner, staging, outcome >>
    <3>1. {j} \X {"start"} = {<<j, "start">>}
      OBVIOUS
    <3>2. \A t \in OutputsOf[j] : owner[t] = j
      BY <2>1 DEF Held
    <3> QED BY <2>1, <2>3, <3>1, <3>2
            DEF Goto, Record, CloneSession, Starts, Effect
  <2> QED BY <1>4, <2>2, <2>a, <2>3 DEF StartWorker
<1>5. CASE SpawnThread(j)
  BY <1>5 DEF SpawnThread, safetyVars
<1>6. CASE WorkerStarted(j)
  <2>1. /\ pc[j] = "spawning"
        /\ UNCHANGED << live, destroyed, designs, file >>
    BY <1>6 DEF WorkerStarted
  <2>2. /\ pc[j] \in InSession /\ pc[j] \in InWorker
        /\ pc[j] \in PCs \ {"idle", "done"}
    BY <2>1 DEF InSession, InWorker, PCs
  <2>3. CASE CoordinatorError(j)
    BY <2>1, <2>2, <2>3, CoordinatorErrorEffect DEF Effect
  <2>4. CASE ~CoordinatorError(j)
    <3>1. "communicating" \in InWorker /\ "failing" \in InWorker
      BY DEF InSession, InWorker, PCs
    <3>2. \E p \in InWorker : pc' = [pc EXCEPT ![j] = p]
      BY <1>6, <2>4, <3>1 DEF WorkerStarted, Goto
    <3> QED BY <1>6, <2>1, <2>2, <2>4, <3>2 DEF WorkerStarted, Moves, Effect
  <2> QED BY <2>3, <2>4
<1> QED BY <1>1, <1>2, <1>3, <1>4, <1>5, <1>6

\* While the worker runs, and when it or its coordinator gives up.
LEMMA WorkerEffect ==
    ASSUME TypeOK, StagingDeclared, NEW j \in Jobs,
           \/ WorkerExit(j) \/ DescendantWrites(j) \/ TerminateThread(j) \/ PipesClose(j)
           \/ CommunicationEnds(j) \/ DeadlineElapses(j)
           \/ CancelledSpawnReturns(j) \/ TerminationRecorded(j)
           \/ CoordinatorErrorEnds(j) \/ WorkerFailed(j)
           \/ CancelWorking(j) \/ CancelCleanup(j)
    PROVE  Effect(j) \/ UNCHANGED safetyVars
<1> USE SessionOfType
<1>0. { "spawning", "cancel_spawn", "communicating", "timing_out", "cancelling",
        "finishing", "failing" } \subseteq InWorker
  BY DEF InSession, InWorker, PCs
<1>a. \A p \in InWorker : p \in InSession /\ p \in PCs \ {"idle", "done"}
  BY DEF InSession, InWorker
<1>b. "error" \in Statuses \ {"completed"} /\ "raised" \in Statuses \ {"completed"}
      /\ "timeout" \in Statuses \ {"completed"} /\ "cancelled" \in Statuses \ {"completed"}
  BY DEF Statuses
<1>1. CASE WorkerExit(j)
  <2>1. CASE UNCHANGED staging
    BY <1>1, <2>1 DEF WorkerExit, safetyVars
  <2>2. CASE ~UNCHANGED staging
    <3>1. PICK outs \in SUBSET OutputsOf[j], r \in Responses :
             staging' = [staging EXCEPT ![j] = [outputs |-> outs, response |-> r]]
      BY <1>1, <2>2 DEF WorkerExit
    <3>2. [outputs |-> outs, response |-> r]
             \in [outputs : SUBSET OutputsOf[j], response : Responses]
      OBVIOUS
    <3> QED BY <1>1, <3>1, <3>2 DEF WorkerExit, Stages, Effect
  <2> QED BY <2>1, <2>2
<1>2. CASE DescendantWrites(j)
  <2>1. PICK t \in OutputsOf[j] :
           staging' = [staging EXCEPT ![j].outputs = @ \cup {t}]
    BY <1>2 DEF DescendantWrites
  <2>2. staging' = [staging EXCEPT ![j] = [staging[j] EXCEPT !.outputs = @ \cup {t}]]
    BY <2>1 DEF TypeOK
  <2>3. /\ staging[j] \in [outputs : SUBSET Targets, response : Responses]
        /\ staging[j].outputs \subseteq OutputsOf[j]
    BY DEF TypeOK, StagingDeclared
  <2>4. [staging[j] EXCEPT !.outputs = @ \cup {t}]
           \in [outputs : SUBSET OutputsOf[j], response : Responses]
    BY <2>3
  <2> QED BY <1>2, <2>2, <2>4 DEF DescendantWrites, Stages, Effect
<1>3. CASE TerminateThread(j) \/ PipesClose(j)
  BY <1>3 DEF TerminateThread, PipesClose, safetyVars
<1>4. CASE CommunicationEnds(j)
  BY <1>0, <1>4 DEF CommunicationEnds, Goto, Moves, Effect
<1>5. CASE DeadlineElapses(j)
  BY <1>0, <1>5 DEF DeadlineElapses, Goto, Moves, Effect
<1>6. CASE CancelledSpawnReturns(j)
  <2>1. CASE CoordinatorError(j)
    BY <1>0, <1>a, <1>6, <2>1, CoordinatorErrorEffect DEF CancelledSpawnReturns, Effect
  <2>2. CASE ~CoordinatorError(j)
    BY <1>0, <1>6, <2>2 DEF CancelledSpawnReturns, Goto, Moves, Effect
  <2> QED BY <2>1, <2>2
<1>7. CASE TerminationRecorded(j)
  <2> DEFINE status == IF pc[j] = "timing_out" THEN "timeout" ELSE "cancelled"
             decision == IF pc[j] = "timing_out" THEN "timeout" ELSE "cancel"
             D == {decision, "worker_terminated", "rollback"}
  <2>0. /\ pc[j] \in InSession /\ pc[j] \in PCs \ {"idle", "done"}
        /\ UNCHANGED << live, destroyed, designs, file >>
    BY <1>0, <1>a, <1>7 DEF TerminationRecorded
  <2>1. CASE Finish(j, status, worker[j] = "stopped") /\ Record(j, D)
    <3>1. status \in Statuses \ {"completed"} /\ (worker[j] = "stopped") \in BOOLEAN
      BY <1>b
    <3>2. D \in SUBSET OtherDecisions
      BY DEF OtherDecisions, Decisions
    <3> HIDE DEF status, D
    <3> QED BY <2>0, <2>1, <3>1, <3>2, FinishEnds DEF Effect
  <2>2. CASE CoordinatorError(j)
    BY <2>0, <2>2, CoordinatorErrorEffect DEF Effect
  <2> QED BY <1>7, <2>1, <2>2 DEF TerminationRecorded
<1>8. CASE CoordinatorErrorEnds(j)
  <2>0. /\ pc[j] \in InSession /\ pc[j] \in PCs \ {"idle", "done"}
        /\ UNCHANGED << live, destroyed, designs, file >>
    BY <1>0, <1>a, <1>8 DEF CoordinatorErrorEnds
  <2>1. CASE /\ Finish(j, "error", worker[j] = "stopped")
             /\ Record(j, {"worker_terminated", "error", "rollback"})
    <3>1. /\ {"worker_terminated", "error", "rollback"} \in SUBSET OtherDecisions
          /\ (worker[j] = "stopped") \in BOOLEAN
      BY DEF OtherDecisions, Decisions
    <3> QED BY <1>b, <2>0, <2>1, <3>1, FinishEnds DEF Effect
  <2>2. CASE Finish(j, "raised", FALSE) /\ UNCHANGED audit
    BY <1>b, <2>0, <2>2, FinishEnds DEF Effect
  <2> QED BY <1>8, <2>1, <2>2 DEF CoordinatorErrorEnds
<1>9. CASE WorkerFailed(j)
  BY <1>0, <1>a, <1>9, CoordinatorErrorEffect DEF WorkerFailed, Effect
<1>10. CASE CancelWorking(j)
  BY <1>0, <1>10 DEF CancelWorking, Goto, Moves, Effect
<1>11. CASE CancelCleanup(j)
  <2>0. /\ pc[j] \in PCs \ {"idle", "done"} /\ Finish(j, "cancelled", FALSE)
        /\ UNCHANGED << live, destroyed, designs, file, audit >>
    BY <1>0, <1>a, <1>11 DEF CancelCleanup
  <2> QED BY <1>b, <2>0, FinishEnds DEF Effect
<1> QED BY <1>1, <1>2, <1>3, <1>4, <1>5, <1>6, <1>7, <1>8, <1>9, <1>10, <1>11

\* The commit, in all its variants.
LEMMA CommitEffect ==
    ASSUME TypeOK, NEW j \in Jobs, Commit(j)
    PROVE  Effect(j)
<1> USE SessionOfType
<1>1. /\ pc[j] = "finishing" /\ worker[j] = "stopped"
      /\ UNCHANGED << live, destroyed >>
  BY DEF Commit, ReadyToCommit
<1>2. /\ pc[j] \in InWorker /\ pc[j] \in InSession
      /\ pc[j] \in PCs \ {"idle", "done"}
  BY <1>1 DEF InSession, InWorker, PCs
<1>3. ASSUME NEW status, NEW terminated, Finish(j, status, terminated)
      PROVE  Leaves(j)
  BY <1>1, <1>2, <1>3 DEF Finish, Goto, Leaves
<1>4. /\ clone[j].audit \in SUBSET Events /\ <<j, "commit">> \in Events
      /\ clone[j].designs \in SUBSET Jobs
  BY DEF TypeOK, Events, Decisions
<1>5. CASE CommitSucceeds(j)
  <2>1. Leaves(j)
    BY <1>3, <1>5 DEF CommitSucceeds
  <2> QED BY <1>1, <1>2, <1>5, <2>1 DEF CommitSucceeds, Finish, Commits, Effect
<1>6. CASE CommitRollsBack(j)
  BY <1>1, <1>2, <1>6, CoordinatorErrorEffect DEF CommitRollsBack, Effect
<1>7. CASE CommittingJournalFails(j)
  <2>1. Leaves(j) /\ Faults \cap UnhandledFaults # {}
    BY <1>3, <1>7 DEF CommittingJournalFails, CoordinatorError, UnhandledFaults
  <2>2. \E X \in SUBSET Jobs : designs' = [designs EXCEPT ![SessionOf[j]] = X]
    <3>1. designs' = [designs EXCEPT ![SessionOf[j]] = designs[SessionOf[j]]]
      BY <1>7 DEF CommittingJournalFails, TypeOK
    <3> QED BY <3>1 DEF TypeOK
  <2>3. \E E \in SUBSET Events : audit' = [audit EXCEPT ![SessionOf[j]] = @ \cup E]
    <3>1. CASE Record(j, {"error", "rollback"})
      <4>1. {j} \X {"error", "rollback"} \in SUBSET Events
        BY DEF Events, Decisions
      <4> QED BY <3>1, <4>1 DEF Record
    <3>2. CASE UNCHANGED audit
      <4>1. audit' = [audit EXCEPT ![SessionOf[j]] = @ \cup {}]
        BY <3>2 DEF TypeOK
      <4> QED BY <4>1
    <3> QED BY <1>7, <3>1, <3>2 DEF CommittingJournalFails, CoordinatorError
  <2> QED BY <1>2, <2>1, <2>2, <2>3 DEF Escapes, Effect
<1>8. CASE StateReplaceEscapes(j)
  <2>1. Leaves(j) /\ Faults \cap UnhandledFaults # {}
    BY <1>3, <1>8 DEF StateReplaceEscapes, UnhandledFaults
  <2>2. designs' = [designs EXCEPT ![SessionOf[j]] = {}]
    BY <1>8 DEF StateReplaceEscapes
  <2>3. audit' = [audit EXCEPT ![SessionOf[j]] = @ \cup clone[j].audit]
    BY <1>8 DEF StateReplaceEscapes
  <2> QED BY <1>2, <1>4, <2>1, <2>2, <2>3 DEF Escapes, Effect
<1>9. CASE CommitEventEscapes(j)
  <2>1. Leaves(j) /\ Faults \cap UnhandledFaults # {}
    BY <1>3, <1>9 DEF CommitEventEscapes, UnhandledFaults
  <2>2. \E X \in SUBSET Jobs : designs' = [designs EXCEPT ![SessionOf[j]] = X]
    <3>1. clone[j].designs \cup {j} \in SUBSET Jobs
      BY <1>4
    <3> QED BY <1>9, <3>1 DEF CommitEventEscapes, ReplacedDesigns
  <2>3. \E E \in SUBSET Events : audit' = [audit EXCEPT ![SessionOf[j]] = @ \cup E]
    <3>1. audit' = [audit EXCEPT ![SessionOf[j]] =
                      @ \cup (clone[j].audit \cup {<<j, "commit">>})]
      BY <1>9 DEF CommitEventEscapes, MergedAudit
    <3>2. clone[j].audit \cup {<<j, "commit">>} \in SUBSET Events
      BY <1>4
    <3> QED BY <3>1, <3>2
  <2> QED BY <1>2, <2>1, <2>2, <2>3 DEF Escapes, Effect
<1> QED BY <1>5, <1>6, <1>7, <1>8, <1>9 DEF Commit

\* Every step has one of the effects.
LEMMA NextEffect ==
    ASSUME TypeOK, StagingDeclared, [Next]_vars
    PROVE  \/ \E j \in Jobs : Effect(j)
           \/ \E d \in Destroyers : DestroyerMoves(d) \/ Destroys(d)
           \/ UNCHANGED safetyVars
<1> USE SessionOfType
<1>1. CASE UNCHANGED vars
  BY <1>1 DEF vars, safetyVars
<1>2. ASSUME NEW j \in Jobs,
             \/ CallTool(j) \/ JobStep(j) \/ SpawnThread(j) \/ TerminateThread(j)
             \/ PipesClose(j) \/ WorkerExit(j) \/ DescendantWrites(j)
             \/ CancelWorking(j) \/ CancelCleanup(j)
      PROVE  Effect(j) \/ UNCHANGED safetyVars
  BY <1>2, StartupEffect, WorkerEffect, CommitEffect DEF JobStep
<1>3. ASSUME NEW a \in Actors, CancelWaiting(a)
      PROVE  \/ a \in Jobs /\ Effect(a)
             \/ a \in Destroyers /\ DestroyerMoves(a)
  <2>1. pc[a] \in {"wait_session", "wait_output"}
    BY <1>3 DEF CancelWaiting
  <2>2. UNCHANGED << live, destroyed, designs, audit, file >>
    BY <1>3 DEF CancelWaiting
  <2>3. CASE a \in Jobs
    <3>1. Finish(a, "cancelled", FALSE)
      BY <1>3, <2>3 DEF CancelWaiting
    <3>2. pc[a] \in PCs \ {"idle", "done"} /\ "cancelled" \in Statuses \ {"completed"}
      BY <2>1 DEF PCs, Statuses
    <3>3. Ends(a)
      BY <2>2, <2>3, <3>1, <3>2, FinishEnds
    <3> QED BY <2>3, <3>3 DEF Effect
  <2>4. CASE a \notin Jobs
    <3>1. Goto(a, "done") /\ UNCHANGED << owner, clone, staging, outcome >>
      BY <1>3, <2>4 DEF CancelWaiting
    <3>2. "done" \in PCs /\ a \in Destroyers
      BY <2>4 DEF PCs, Actors
    <3> QED BY <2>2, <3>1, <3>2 DEF Goto, DestroyerMoves
  <2> QED BY <2>3, <2>4
<1>4. ASSUME NEW d \in Destroyers, CallDestroy(d) PROVE DestroyerMoves(d)
  <2>1. "done" \in PCs /\ "wait_session" \in PCs
    BY DEF PCs
  <2> QED BY <1>4, <2>1 DEF CallDestroy, Goto, DestroyerMoves
<1>5. ASSUME NEW d \in Destroyers, Destroy(d) PROVE DestroyerMoves(d) \/ Destroys(d)
  <2>1. "done" \in PCs
    BY DEF PCs
  <2> QED BY <1>5, <2>1 DEF Destroy, Grantable, Goto, DestroyerMoves, Destroys
<1> QED BY <1>1, <1>2, <1>3, <1>4, <1>5 DEF Next, Quiescent

-----------------------------------------------------------------------------
(***************************************************************************)
(* The locks.  FreshClone and DestroyedStaysGone are not inductive: both   *)
(* need that whoever is inside a session holds its lock.                   *)
(***************************************************************************)
SessionLockHeld ==
    \A j \in Jobs : pc[j] \in InSession => owner[SessionOf[j]] = j

OutputLocksHeld ==
    \A j \in Jobs : pc[j] \in InWorker => \A t \in OutputsOf[j] : owner[t] = j

IsolationInv ==
    /\ TypeOK /\ StagingDeclared
    /\ SessionLockHeld /\ OutputLocksHeld
    /\ FreshClone /\ DestroyedStaysGone

LEMMA PCFacts ==
    /\ InWorker \subseteq InSession /\ InSession \subseteq PCs
    /\ "idle" \notin InSession /\ "wait_session" \notin InSession
    /\ "done" \notin InSession
    /\ "wait_output" \in InSession /\ "wait_output" \notin InWorker
    /\ "spawning" \in InWorker
    /\ \A j \in Jobs : j # None /\ j \notin Destroyers
    /\ \A s \in Sessions, t \in Targets : s # t
BY ConstantsAssumption DEF InSession, InWorker, PCs, Actors

LEMMA InitIsolation == Init => IsolationInv
<1> SUFFICES ASSUME Init PROVE IsolationInv
  OBVIOUS
<1>1. TypeOK
  BY InitTypeOK
<1>2. \A j \in Jobs : pc[j] = "idle" /\ staging[j].outputs = {}
  BY SessionOfType DEF Init, NoStaging
<1>3. destroyed = {}
  BY DEF Init
<1> QED BY <1>1, <1>2, <1>3, PCFacts
        DEF IsolationInv, StagingDeclared, SessionLockHeld, OutputLocksHeld,
            FreshClone, DestroyedStaysGone, InWorker

\* Locks are released only by the call that leaves and granted only when free.
LEMMA LocksStep ==
    ASSUME IsolationInv, [Next]_vars
    PROVE  SessionLockHeld' /\ OutputLocksHeld' /\ StagingDeclared'
<1> USE SessionOfType, PCFacts
<1>0. TypeOK /\ StagingDeclared /\ SessionLockHeld /\ OutputLocksHeld
  BY DEF IsolationInv
<1>1. ASSUME NEW j \in Jobs, Effect(j)
      PROVE  SessionLockHeld' /\ OutputLocksHeld' /\ StagingDeclared'
  <2>1. CASE Rejects(j) \/ Queues(j)
    <3>1. /\ \A i \in Jobs : pc'[i] \in InSession => pc'[i] = pc[i]
          /\ owner' = owner /\ staging' = staging
      BY <1>0, <2>1 DEF Rejects, Queues, TypeOK
    <3> QED BY <1>0, <3>1 DEF SessionLockHeld, OutputLocksHeld, StagingDeclared
  <2>2. CASE Enters(j)
    BY <1>0, <2>2 DEF Enters, TypeOK, SessionLockHeld, OutputLocksHeld,
                      StagingDeclared
  <2>3. CASE Acquires(j)
    BY <1>0, <2>3 DEF Acquires, TypeOK, SessionLockHeld, OutputLocksHeld,
                      StagingDeclared
  <2>4. CASE Starts(j)
    BY <1>0, <2>4 DEF Starts, TypeOK, SessionLockHeld, OutputLocksHeld,
                      StagingDeclared
  <2>5. CASE Moves(j)
    BY <1>0, <2>5 DEF Moves, TypeOK, SessionLockHeld, OutputLocksHeld,
                      StagingDeclared
  <2>6. CASE Stages(j)
    BY <1>0, <2>6 DEF Stages, TypeOK, SessionLockHeld, OutputLocksHeld,
                      StagingDeclared
  <2>7. CASE Leaves(j)
    <3>1. /\ pc'[j] = "done" /\ \A i \in Jobs \ {j} : pc'[i] = pc[i]
          /\ \A l \in Locks : owner[l] # j => owner'[l] = owner[l]
      BY <1>0, <2>7 DEF Leaves, Released, TypeOK
    <3>2. StagingDeclared'
      BY <1>0, <2>7 DEF Leaves, NoStaging, TypeOK, StagingDeclared
    <3> QED BY <1>0, <3>1, <3>2 DEF SessionLockHeld, OutputLocksHeld
  <2> QED BY <1>1, <2>1, <2>2, <2>3, <2>4, <2>5, <2>6, <2>7
          DEF Effect, Ends, Commits, Escapes
<1>2. ASSUME NEW d \in Destroyers, DestroyerMoves(d) \/ Destroys(d)
      PROVE  SessionLockHeld' /\ OutputLocksHeld' /\ StagingDeclared'
  <2>1. /\ \A i \in Jobs : pc'[i] = pc[i]
        /\ owner' = owner /\ staging' = staging
    BY <1>0, <1>2 DEF DestroyerMoves, Destroys, TypeOK
  <2> QED BY <1>0, <2>1 DEF SessionLockHeld, OutputLocksHeld, StagingDeclared
<1>3. CASE UNCHANGED safetyVars
  BY <1>0, <1>3 DEF safetyVars, SessionLockHeld, OutputLocksHeld, StagingDeclared
<1> QED BY <1>0, <1>1, <1>2, <1>3, NextEffect

\* Two jobs of one session are never inside it together.
LEMMA SessionExclusive ==
    ASSUME SessionLockHeld, NEW i \in Jobs, NEW j \in Jobs,
           pc[i] \in InSession, pc[j] \in InSession, SessionOf[i] = SessionOf[j]
    PROVE  i = j
BY DEF SessionLockHeld

LEMMA FreshCloneStep ==
    ASSUME IsolationInv, [Next]_vars
    PROVE  FreshClone'
<1> USE SessionOfType, PCFacts
<1>0. TypeOK /\ StagingDeclared /\ SessionLockHeld /\ FreshClone
  BY DEF IsolationInv
<1>1. ASSUME NEW j \in Jobs, Effect(j)
      PROVE  FreshClone'
  <2>1. CASE Rejects(j) \/ Queues(j) \/ Enters(j)
    <3>1. /\ \A i \in Jobs : pc'[i] \in InWorker => pc'[i] = pc[i]
          /\ designs' = designs /\ clone' = clone
      BY <1>0, <2>1 DEF Rejects, Queues, Enters, TypeOK
    <3> QED BY <1>0, <3>1 DEF FreshClone
  <2>2. CASE Starts(j)
    BY <1>0, <2>2 DEF Starts, TypeOK, FreshClone
  <2>3. CASE Acquires(j) \/ Moves(j) \/ Stages(j)
    BY <1>0, <2>3 DEF Acquires, Moves, Stages, TypeOK, FreshClone
  <2>4. CASE Leaves(j) /\ UNCHANGED designs
    BY <1>0, <2>4 DEF Leaves, TypeOK, FreshClone
  <2>5. CASE /\ Leaves(j) /\ pc[j] \in InWorker
             /\ \E X : designs' = [designs EXCEPT ![SessionOf[j]] = X]
    <3>1. SUFFICES ASSUME NEW i \in Jobs, pc'[i] \in InWorker
                   PROVE  clone'[i].designs = designs'[SessionOf[i]]
      BY DEF FreshClone
    <3>2. i # j /\ pc[i] = pc[i]' /\ clone'[i] = clone[i]
      BY <1>0, <2>5, <3>1 DEF Leaves, TypeOK
    <3>3. SessionOf[i] # SessionOf[j]
      BY <1>0, <2>5, <3>1, <3>2, SessionExclusive
    <3>4. designs'[SessionOf[i]] = designs[SessionOf[i]]
      BY <1>0, <2>5, <3>3 DEF TypeOK
    <3> QED BY <1>0, <3>1, <3>2, <3>4 DEF FreshClone
  <2> QED BY <1>1, <2>1, <2>2, <2>3, <2>4, <2>5
          DEF Effect, Ends, Commits, Escapes, ReplacedDesigns
<1>2. ASSUME NEW d \in Destroyers, DestroyerMoves(d) PROVE FreshClone'
  BY <1>0, <1>2 DEF DestroyerMoves, TypeOK, FreshClone
<1>3. ASSUME NEW d \in Destroyers, Destroys(d) PROVE FreshClone'
  <2>1. \A i \in Jobs : pc'[i] = pc[i]
    BY <1>0, <1>3 DEF Destroys, TypeOK
  <2>2. \A i \in Jobs : pc[i] \in InWorker => SessionOf[i] # SessionOf[d]
    BY <1>0, <1>3 DEF Destroys, SessionLockHeld
  <2> QED BY <1>0, <1>3, <2>1, <2>2 DEF Destroys, TypeOK, FreshClone
<1>4. CASE UNCHANGED safetyVars
  BY <1>0, <1>4 DEF safetyVars, FreshClone
<1> QED BY <1>0, <1>1, <1>2, <1>3, <1>4, NextEffect

LEMMA DestroyedStep ==
    ASSUME IsolationInv, [Next]_vars
    PROVE  DestroyedStaysGone'
<1> USE SessionOfType, PCFacts
<1>0. TypeOK /\ StagingDeclared /\ SessionLockHeld /\ DestroyedStaysGone
  BY DEF IsolationInv
<1>1. ASSUME NEW j \in Jobs, Effect(j)
      PROVE  DestroyedStaysGone'
  <2>1. CASE Rejects(j)
    BY <1>0, <2>1 DEF Rejects, TypeOK, DestroyedStaysGone
  <2>2. CASE Queues(j)
    BY <1>0, <2>2 DEF Queues, TypeOK, DestroyedStaysGone
  <2>3. CASE Enters(j)
    BY <1>0, <2>3 DEF Enters, TypeOK, DestroyedStaysGone
  <2>4. CASE Acquires(j) \/ Moves(j) \/ Stages(j)
    BY <1>0, <2>4 DEF Acquires, Moves, Stages, TypeOK, DestroyedStaysGone
  <2>5. CASE Starts(j)
    BY <1>0, <2>5 DEF Starts, TypeOK, DestroyedStaysGone
  <2>6. CASE Leaves(j)
    <3>1. /\ \A i \in Jobs : pc'[i] \in InSession => pc[i] \in InSession
          /\ destroyed' = destroyed /\ live' = live
      BY <1>0, <2>6 DEF Leaves, TypeOK
    <3>2. CASE UNCHANGED << designs, audit >>
      BY <1>0, <3>1, <3>2 DEF DestroyedStaysGone
    <3>3. CASE SessionOf[j] \notin destroyed
      <4>1. \A s \in Sessions : s # SessionOf[j] =>
                designs'[s] = designs[s] /\ audit'[s] = audit[s]
        BY <1>0, <1>1, <2>6, PCFacts
           DEF Effect, Rejects, Queues, Enters, Acquires, Starts, Moves, Stages,
               Ends, Commits, Escapes, ReplacedDesigns, MergedAudit, TypeOK
      <4> QED BY <1>0, <3>1, <3>3, <4>1 DEF DestroyedStaysGone, TypeOK
    <3>4. pc[j] \in InSession => SessionOf[j] \notin destroyed
      BY <1>0 DEF DestroyedStaysGone
    <3>5. UNCHANGED << designs, audit >> \/ SessionOf[j] \notin destroyed
      BY <1>0, <1>1, <2>6, <3>4, PCFacts
         DEF Effect, Rejects, Queues, Enters, Acquires, Starts, Moves, Stages,
             Ends, Commits, Escapes, TypeOK
    <3> QED BY <3>2, <3>3, <3>5
  <2> QED BY <1>1, <2>1, <2>2, <2>3, <2>4, <2>5, <2>6
          DEF Effect, Ends, Commits, Escapes
<1>2. ASSUME NEW d \in Destroyers, DestroyerMoves(d) PROVE DestroyedStaysGone'
  BY <1>0, <1>2 DEF DestroyerMoves, TypeOK, DestroyedStaysGone
<1>3. ASSUME NEW d \in Destroyers, Destroys(d) PROVE DestroyedStaysGone'
  <2>1. \A i \in Jobs : pc'[i] = pc[i]
    BY <1>0, <1>3 DEF Destroys, TypeOK
  <2>2. \A i \in Jobs : SessionOf[i] = SessionOf[d] => pc[i] \notin InSession
    BY <1>0, <1>3 DEF Destroys, SessionLockHeld
  <2> QED BY <1>0, <1>3, <2>1, <2>2 DEF Destroys, TypeOK, DestroyedStaysGone
<1>4. CASE UNCHANGED safetyVars
  BY <1>0, <1>4 DEF safetyVars, DestroyedStaysGone
<1> QED BY <1>0, <1>1, <1>2, <1>3, <1>4, NextEffect

LEMMA NextIsolation == IsolationInv /\ [Next]_vars => IsolationInv'
BY NextTypeOK, LocksStep, FreshCloneStep, DestroyedStep DEF IsolationInv

LEMMA Isolation == Spec => []IsolationInv
BY InitIsolation, NextIsolation, PTL DEF Spec

\* Whatever fails and whoever is cancelled, a job's clone of the designs is
\* current while it owns a worker: no commit overwrites another one.
THEOREM NoLostUpdate == Spec => []FreshClone
<1>1. IsolationInv => FreshClone
  BY DEF IsolationInv
<1> QED BY <1>1, Isolation, PTL

\* Whatever fails and whoever is cancelled, a destroyed session stays gone.
THEOREM NoResurrection == Spec => []DestroyedStaysGone
<1>1. IsolationInv => DestroyedStaysGone
  BY DEF IsolationInv
<1> QED BY <1>1, Isolation, PTL

LEMMA AppendGrows ==
    ASSUME TypeOK, NEW r \in Sessions, NEW X, audit' = [audit EXCEPT ![r] = @ \cup X]
    PROVE  \A s \in Sessions : audit[s] \subseteq audit'[s]
BY DEF TypeOK

\* The audit stream of a session is append-only until the session is destroyed,
\* although the worker sends back a stream that was forked from an older one.
THEOREM AuditIsAppendOnly == Spec => AuditPreserved
<1> DEFINE Grows == \A s \in Sessions : s \notin destroyed' => audit[s] \subseteq audit'[s]
<1>1. IsolationInv /\ [Next]_vars => [Grows]_vars
  <2> SUFFICES ASSUME IsolationInv, [Next]_vars PROVE Grows
    OBVIOUS
  <2> USE SessionOfType
  <2>0. TypeOK /\ StagingDeclared
    BY DEF IsolationInv
  <2>1. ASSUME NEW j \in Jobs, Effect(j) PROVE Grows
    <3>1. CASE UNCHANGED audit
      BY <3>1
    <3>2. CASE Queues(j) \/ Starts(j)
      BY <2>0, <3>2, AppendGrows DEF Queues, Starts
    <3>3. CASE Ends(j)
      BY <2>0, <3>3, AppendGrows DEF Ends
    <3>4. CASE Commits(j)
      BY <2>0, <3>4 DEF Commits, MergedAudit, TypeOK
    <3>5. CASE Escapes(j)
      BY <2>0, <3>5 DEF Escapes, TypeOK
    <3> QED BY <2>1, <3>1, <3>2, <3>3, <3>4, <3>5
            DEF Effect, Rejects, Enters, Acquires, Moves, Stages
  <2>2. ASSUME NEW d \in Destroyers, DestroyerMoves(d) \/ Destroys(d) PROVE Grows
    BY <2>0, <2>2 DEF DestroyerMoves, Destroys, TypeOK
  <2>3. CASE UNCHANGED safetyVars
    BY <2>3 DEF safetyVars
  <2> QED BY <2>0, <2>1, <2>2, <2>3, NextEffect
<1> QED BY <1>1, Isolation, PTL DEF AuditPreserved, Spec

-----------------------------------------------------------------------------
(***************************************************************************)
(* Atomicity, when none of the failures occurs that the coordinator does   *)
(* not undo.                                                               *)
(***************************************************************************)
\* A call that has not returned has no outcome and no terminal event yet.
NoOutcomeYet ==
    \A j \in Jobs : pc[j] # "done" =>
        /\ outcome[j].status = "none"
        /\ <<j, "commit">> \notin audit[SessionOf[j]]
        /\ <<j, "rollback">> \notin audit[SessionOf[j]]

\* The worker's copy of the audit stream holds nothing the session's has not.
CloneAuditKnown ==
    \A j \in Jobs : pc[j] \in InWorker => clone[j].audit \subseteq audit[SessionOf[j]]

AtomicityInv == AllOrNothing /\ AuditTellsTruth /\ NoOutcomeYet /\ CloneAuditKnown

LEMMA InitAtomicity == Init => AtomicityInv
<1> SUFFICES ASSUME Init PROVE AtomicityInv
  OBVIOUS
<1>1. /\ \A s \in Sessions : designs[s] = {} /\ audit[s] = {}
      /\ \A j \in Jobs : outcome[j].status = "none" /\ pc[j] = "idle"
  BY SessionOfType DEF Init
<1>2. \A t \in Targets, j \in Jobs : file[t] # j
  BY ConstantsAssumption DEF Init
<1> QED BY <1>1, <1>2, SessionOfType, PCFacts
        DEF AtomicityInv, AllOrNothing, AuditTellsTruth, NoOutcomeYet, CloneAuditKnown

\* Steps that publish nothing and end no call.
LEMMA QuietAtomicity ==
    ASSUME TypeOK, AtomicityInv, NEW j \in Jobs,
           Queues(j) \/ Enters(j) \/ Acquires(j) \/ Starts(j) \/ Moves(j) \/ Stages(j)
    PROVE  AtomicityInv'
<1> USE SessionOfType, PCFacts
<1>1. UNCHANGED << designs, file, destroyed, outcome >>
  BY DEF Queues, Enters, Acquires, Starts, Moves, Stages
<1>2. \A i \in Jobs, s \in Sessions :
         /\ <<i, "commit">> \in audit'[s] <=> <<i, "commit">> \in audit[s]
         /\ <<i, "rollback">> \in audit'[s] <=> <<i, "rollback">> \in audit[s]
         /\ audit[s] \subseteq audit'[s]
  <2>1. CASE UNCHANGED audit
    BY <2>1
  <2>2. CASE audit' = [audit EXCEPT ![SessionOf[j]] = @ \cup {<<j, "allow">>}]
    BY <2>2 DEF TypeOK
  <2>3. CASE audit' = [audit EXCEPT ![SessionOf[j]] = @ \cup {<<j, "start">>}]
    BY <2>3 DEF TypeOK
  <2> QED BY <2>1, <2>2, <2>3 DEF Queues, Enters, Acquires, Starts, Moves, Stages
<1>3. \A i \in Jobs : pc'[i] # "done" => pc[i] # "done"
  BY DEF Queues, Enters, Acquires, Starts, Moves, Stages, TypeOK
<1>4. AllOrNothing'
  BY <1>1 DEF AtomicityInv, AllOrNothing
<1>5. AuditTellsTruth'
  BY <1>1, <1>2 DEF AtomicityInv, AuditTellsTruth
<1>6. NoOutcomeYet'
  BY <1>1, <1>2, <1>3 DEF AtomicityInv, NoOutcomeYet
<1>7. CloneAuditKnown'
  <2>1. CASE Starts(j)
    <3>1. /\ \A i \in Jobs \ {j} : pc'[i] = pc[i] /\ clone'[i] = clone[i]
          /\ clone'[j].audit = audit'[SessionOf[j]]
      <4>1. \A i \in Jobs \ {j} : pc'[i] = pc[i] /\ clone'[i] = clone[i]
        BY <2>1 DEF Starts, TypeOK
      <4>2. clone'[j].audit = audit[SessionOf[j]] \cup {<<j, "start">>}
        BY <2>1 DEF Starts, TypeOK
      <4>3. audit'[SessionOf[j]] = audit[SessionOf[j]] \cup {<<j, "start">>}
        BY <2>1 DEF Starts, TypeOK
      <4> QED BY <4>1, <4>2, <4>3
    <3> QED BY <1>2, <3>1 DEF AtomicityInv, CloneAuditKnown
  <2>2. CASE ~Starts(j)
    <3>1. /\ clone' = clone
          /\ \A i \in Jobs : pc'[i] \in InWorker => pc[i] \in InWorker
      <4>1. CASE Queues(j)
        BY <4>1 DEF Queues, TypeOK
      <4>2. CASE Enters(j)
        BY <4>2 DEF Enters, TypeOK
      <4>3. CASE Acquires(j) \/ Moves(j) \/ Stages(j)
        BY <4>3 DEF Acquires, Moves, Stages, TypeOK
      <4> QED BY <2>2, <4>1, <4>2, <4>3
    <3> QED BY <1>2, <3>1 DEF AtomicityInv, CloneAuditKnown
  <2> QED BY <2>1, <2>2
<1> QED BY <1>4, <1>5, <1>6, <1>7 DEF AtomicityInv

\* A call that ends without "completed".
LEMMA EndsAtomicity ==
    ASSUME TypeOK, AtomicityInv, NEW j \in Jobs, Rejects(j) \/ Ends(j)
    PROVE  AtomicityInv'
<1> USE SessionOfType, PCFacts
<1>1. UNCHANGED << designs, file, destroyed >>
  BY DEF Rejects, Ends, Leaves
<1>2. /\ pc[j] # "done" /\ outcome'[j].status # "completed"
      /\ \A i \in Jobs \ {j} : pc'[i] = pc[i] /\ outcome'[i] = outcome[i] /\ clone'[i] = clone[i]
      /\ pc'[j] = "done"
  <2>1. CASE Rejects(j)
    BY <2>1 DEF Rejects, TypeOK
  <2>2. CASE Ends(j)
    BY <2>2 DEF Ends, Leaves, TypeOK
  <2> QED BY <2>1, <2>2
<1>3. /\ \A s \in Sessions : audit[s] \subseteq audit'[s]
      /\ \A s \in Sessions : <<j, "commit">> \in audit'[s] <=> <<j, "commit">> \in audit[s]
      /\ \A i \in Jobs \ {j}, s \in Sessions, x \in Decisions :
            <<i, x>> \in audit'[s] <=> <<i, x>> \in audit[s]
  <2>1. CASE UNCHANGED audit
    BY <2>1
  <2>2. CASE ~UNCHANGED audit
    <3>1. PICK D \in SUBSET OtherDecisions :
             audit' = [audit EXCEPT ![SessionOf[j]] = @ \cup ({j} \X D)]
      BY <2>2 DEF Rejects, Ends
    <3>2. <<j, "commit">> \notin {j} \X D
      BY DEF OtherDecisions
    <3> QED BY <3>1, <3>2, AppendGrows DEF TypeOK
  <2> QED BY <2>1, <2>2
<1>4. /\ j \notin designs[SessionOf[j]] /\ \A t \in Targets : file[t] # j
      /\ <<j, "commit">> \notin audit[SessionOf[j]]
  BY <1>2 DEF AtomicityInv, AllOrNothing, NoOutcomeYet
<1>5. AllOrNothing'
  BY <1>1, <1>2, <1>4 DEF AtomicityInv, AllOrNothing
<1>6. AuditTellsTruth'
  <2>1. "commit" \in Decisions /\ "rollback" \in Decisions
    BY DEF Decisions
  <2> QED BY <1>1, <1>3, <1>4, <2>1 DEF AtomicityInv, AuditTellsTruth
<1>7. NoOutcomeYet'
  <2>1. "commit" \in Decisions /\ "rollback" \in Decisions
    BY DEF Decisions
  <2> QED BY <1>2, <1>3, <2>1 DEF AtomicityInv, NoOutcomeYet
<1>8. CloneAuditKnown'
  BY <1>2, <1>3 DEF AtomicityInv, CloneAuditKnown
<1> QED BY <1>5, <1>6, <1>7, <1>8 DEF AtomicityInv

\* A call that completes.
LEMMA CommitsAtomicity ==
    ASSUME IsolationInv, AtomicityInv, NEW j \in Jobs, Commits(j)
    PROVE  AtomicityInv'
<1> USE SessionOfType, PCFacts
<1> DEFINE r == SessionOf[j]
<1>0. /\ TypeOK /\ pc[j] \in InWorker /\ pc[j] # "done" /\ UNCHANGED destroyed
      /\ r \in Sessions
  BY DEF IsolationInv, Commits, Leaves
<1>1. /\ clone[j].designs = designs[r] /\ clone[j].audit \subseteq audit[r]
  BY <1>0 DEF IsolationInv, FreshClone, AtomicityInv, CloneAuditKnown
<1>2. /\ designs'[r] = designs[r] \cup {j}
      /\ \A s \in Sessions \ {r} : designs'[s] = designs[s]
  BY <1>0, <1>1 DEF Commits, ReplacedDesigns, TypeOK
<1>3. /\ audit'[r] = audit[r] \cup {<<j, "commit">>}
      /\ \A s \in Sessions \ {r} : audit'[s] = audit[s]
  BY <1>0, <1>1 DEF Commits, MergedAudit, TypeOK
<1>4. \A i \in Jobs \ {j}, t \in Targets : file'[t] = i => file[t] = i
  BY <1>0 DEF Commits, Published, TypeOK
<1>5. /\ outcome'[j].status = "completed" /\ pc'[j] = "done"
      /\ \A i \in Jobs \ {j} : pc'[i] = pc[i] /\ outcome'[i] = outcome[i] /\ clone'[i] = clone[i]
  BY <1>0 DEF Commits, Leaves, TypeOK
<1>6. AllOrNothing'
  BY <1>0, <1>2, <1>4, <1>5 DEF AtomicityInv, AllOrNothing
<1>7. AuditTellsTruth'
  <2>1. <<j, "rollback">> \notin audit'[r]
    BY <1>0, <1>3 DEF AtomicityInv, NoOutcomeYet
  <2>2. ASSUME NEW i \in Jobs, SessionOf[i] \notin destroyed'
        PROVE  /\ <<i, "commit">> \in audit'[SessionOf[i]] <=> i \in designs'[SessionOf[i]]
               /\ <<i, "rollback">> \in audit'[SessionOf[i]] =>
                     /\ <<i, "commit">> \notin audit'[SessionOf[i]]
                     /\ \A t \in Targets : file'[t] # i
    <3>1. CASE i = j
      BY <1>2, <1>3, <2>1, <3>1
    <3>2. CASE i # j
      <4>1. /\ \A x \in {"commit", "rollback"} :
                  <<i, x>> \in audit'[SessionOf[i]] <=> <<i, x>> \in audit[SessionOf[i]]
            /\ i \in designs'[SessionOf[i]] <=> i \in designs[SessionOf[i]]
        BY <1>2, <1>3, <3>2
      <4> QED BY <1>0, <1>4, <2>2, <3>2, <4>1 DEF AtomicityInv, AuditTellsTruth
    <3> QED BY <3>1, <3>2
  <2> QED BY <2>2 DEF AuditTellsTruth
<1>8. NoOutcomeYet'
  <2>1. SUFFICES ASSUME NEW i \in Jobs, pc'[i] # "done"
                 PROVE  /\ outcome'[i].status = "none"
                        /\ <<i, "commit">> \notin audit'[SessionOf[i]]
                        /\ <<i, "rollback">> \notin audit'[SessionOf[i]]
    BY DEF NoOutcomeYet
  <2>2. i # j /\ pc[i] # "done"
    BY <1>5, <2>1
  <2> QED BY <1>3, <1>5, <2>1, <2>2 DEF AtomicityInv, NoOutcomeYet
<1>9. CloneAuditKnown'
  BY <1>3, <1>5 DEF AtomicityInv, CloneAuditKnown
<1> QED BY <1>6, <1>7, <1>8, <1>9 DEF AtomicityInv

\* session_destroy.
LEMMA DestroyAtomicity ==
    ASSUME IsolationInv, AtomicityInv, NEW d \in Destroyers,
           DestroyerMoves(d) \/ Destroys(d)
    PROVE  AtomicityInv'
<1> USE SessionOfType, PCFacts
<1>0. TypeOK /\ SessionLockHeld
  BY DEF IsolationInv
<1>1. (\A i \in Jobs : pc'[i] = pc[i]) /\ UNCHANGED << file, clone, outcome >>
  BY <1>0 DEF DestroyerMoves, Destroys, TypeOK
<1>2. CASE DestroyerMoves(d)
  BY <1>1, <1>2 DEF DestroyerMoves, AtomicityInv, AllOrNothing, AuditTellsTruth,
                    NoOutcomeYet, CloneAuditKnown
<1>3. CASE Destroys(d)
  <2>1. /\ \A s \in Sessions \ {SessionOf[d]} :
              designs'[s] = designs[s] /\ audit'[s] = audit[s]
        /\ designs'[SessionOf[d]] = {} /\ audit'[SessionOf[d]] = {}
        /\ destroyed' = destroyed \cup {SessionOf[d]}
    BY <1>0, <1>3 DEF Destroys, TypeOK
  <2>2. \A i \in Jobs : pc[i] \in InWorker => SessionOf[i] # SessionOf[d]
    BY <1>0, <1>3 DEF Destroys, SessionLockHeld
  <2>3. AllOrNothing'
    BY <1>1, <2>1 DEF AtomicityInv, AllOrNothing
  <2>4. AuditTellsTruth'
    BY <1>1, <2>1 DEF AtomicityInv, AuditTellsTruth
  <2>5. NoOutcomeYet'
    BY <1>1, <2>1 DEF AtomicityInv, NoOutcomeYet
  <2>6. CloneAuditKnown'
    BY <1>1, <2>1, <2>2 DEF AtomicityInv, CloneAuditKnown
  <2> QED BY <2>3, <2>4, <2>5, <2>6 DEF AtomicityInv
<1> QED BY <1>2, <1>3

LEMMA Atomicity ==
    ASSUME Faults \cap UnhandledFaults = {}
    PROVE  Spec => []AtomicityInv
<1>1. IsolationInv /\ AtomicityInv /\ [Next]_vars => AtomicityInv'
  <2> SUFFICES ASSUME IsolationInv, AtomicityInv, [Next]_vars PROVE AtomicityInv'
    OBVIOUS
  <2>0. TypeOK /\ StagingDeclared
    BY DEF IsolationInv
  <2>1. ASSUME NEW j \in Jobs, Effect(j) PROVE AtomicityInv'
    BY <2>0, <2>1, QuietAtomicity, EndsAtomicity, CommitsAtomicity DEF Effect, Escapes
  <2>2. CASE UNCHANGED safetyVars
    BY <2>2 DEF safetyVars, AtomicityInv, AllOrNothing, AuditTellsTruth,
                NoOutcomeYet, CloneAuditKnown
  <2> QED BY <2>0, <2>1, <2>2, DestroyAtomicity, NextEffect
<1> QED BY <1>1, InitAtomicity, Isolation, PTL DEF Spec

\* A call that does not complete leaves neither designs nor files behind, and a
\* completed one is in its session, as long as only failures occur that the
\* coordinator undoes.
THEOREM CallsAreAtomic ==
    ASSUME Faults \cap UnhandledFaults = {}
    PROVE  Spec => []AllOrNothing
<1>1. AtomicityInv => AllOrNothing
  BY DEF AtomicityInv
<1> QED BY <1>1, Atomicity, PTL

\* Under the same failures the audit stream agrees with what was published.
THEOREM AuditIsTrue ==
    ASSUME Faults \cap UnhandledFaults = {}
    PROVE  Spec => []AuditTellsTruth
<1>1. AtomicityInv => AuditTellsTruth
  BY DEF AtomicityInv
<1> QED BY <1>1, Atomicity, PTL

\* Under the same failures a target changes only in the commit of the job that
\* holds its lock and whose process group is gone.
THEOREM OutputsChangeInCommits ==
    ASSUME Faults \cap UnhandledFaults = {}
    PROVE  Spec => PublicationIsCommit
<1> DEFINE InCommit ==
      \A t \in Targets : file'[t] # file[t] =>
          \E j \in Jobs :
             /\ file'[t] = j
             /\ owner[t] = j
             /\ ~WorkerAlive(j)
             /\ j \in designs'[SessionOf[j]]
<1>1. IsolationInv /\ [Next]_vars => [InCommit]_vars
  <2> SUFFICES ASSUME IsolationInv, [Next]_vars PROVE InCommit
    OBVIOUS
  <2> USE SessionOfType
  <2>0. TypeOK /\ StagingDeclared /\ OutputLocksHeld
    BY DEF IsolationInv
  <2>1. CASE UNCHANGED file
    BY <2>1
  <2>2. ASSUME NEW j \in Jobs, Commits(j) PROVE InCommit
    <3>1. /\ \A t \in Targets : file'[t] # file[t] => t \in OutputsOf[j] /\ file'[t] = j
      BY <2>0, <2>2 DEF Commits, Published, StagingDeclared, TypeOK
    <3>2. \A t \in OutputsOf[j] : owner[t] = j
      BY <2>0, <2>2 DEF Commits, OutputLocksHeld
    <3>3. ~WorkerAlive(j)
      BY <2>2 DEF Commits, WorkerAlive
    <3>4. j \in designs'[SessionOf[j]]
      BY <2>0, <2>2 DEF Commits, ReplacedDesigns, TypeOK
    <3> QED BY <3>1, <3>2, <3>3, <3>4
  <2>3. ASSUME NEW j \in Jobs, Effect(j) PROVE UNCHANGED file \/ Commits(j)
    BY <2>3 DEF Effect, Rejects, Queues, Enters, Acquires, Starts, Moves, Stages,
                Ends, Escapes
  <2>4. ASSUME NEW d \in Destroyers, DestroyerMoves(d) \/ Destroys(d)
        PROVE  UNCHANGED file
    BY <2>4 DEF DestroyerMoves, Destroys
  <2>5. CASE UNCHANGED safetyVars
    BY <2>1, <2>5 DEF safetyVars
  <2> QED BY <2>0, <2>1, <2>2, <2>3, <2>4, <2>5, NextEffect
<1> QED BY <1>1, Isolation, PTL DEF PublicationIsCommit, Spec

-----------------------------------------------------------------------------
(***************************************************************************)
(* Termination.  An outcome is built from what the coordinator knows of    *)
(* the process group, so the invariant says what it may rely on at each    *)
(* await: before the start there is no worker, and a clean-up await ends   *)
(* with the group stopped or gone but for its pipes, unless a descendant   *)
(* can survive SIGKILL.                                                    *)
(***************************************************************************)
BeforeStart == { "idle", "wait_session", "wait_output" }
Cleanup == { "timing_out", "cancelling", "finishing", "failing" }
Gone == { "none", "failed", "stopped" }

Reaped(j) ==
    /\ pc[j] # "done" => ~outcome[j].worker_terminated
    /\ pc[j] \in BeforeStart => worker[j] = "none" /\ j \notin killer
    /\ pc[j] \in Cleanup => \/ j \in killer
                           \/ worker[j] = "stopped"
                           \/ Draining(j)
    /\ outcome[j].worker_terminated => worker[j] \in Gone

ReapedInv == \A j \in Jobs : Reaped(j)

\* A step leaves what Reaped says of job i alone.
Untouched(i) ==
    /\ pc'[i] = pc[i] /\ outcome'[i] = outcome[i] /\ worker'[i] = worker[i]
    /\ i \in killer <=> i \in killer'

LEMMA UntouchedReaped ==
    ASSUME NEW i, Reaped(i), Untouched(i) PROVE Reaped(i)'
BY DEF Untouched, Reaped, Draining

\* A call that leaves reports a termination only when no process is left.
LEMMA FinishReaped ==
    ASSUME TypeOK, NEW j \in Jobs, NEW status \in Statuses, NEW terminated \in BOOLEAN,
           Finish(j, status, terminated), terminated => worker[j] \in Gone,
           UNCHANGED worker, killer' \in {killer, killer \cup {j}}
    PROVE  Reaped(j)' /\ \A i \in Jobs \ {j} : Untouched(i)
<1> USE SessionOfType
<1>1. /\ pc' = [pc EXCEPT ![j] = "done"]
      /\ outcome' = [outcome EXCEPT ![j] =
                       [status |-> status, worker_terminated |-> terminated]]
  BY DEF Finish, Goto
<1>2. pc'[j] = "done" /\ outcome'[j].worker_terminated = terminated
  BY <1>1 DEF TypeOK
<1>3. \A i \in Jobs \ {j} : pc'[i] = pc[i] /\ outcome'[i] = outcome[i]
  BY <1>1 DEF TypeOK
<1>4. Reaped(j)'
  BY <1>2 DEF Reaped, BeforeStart, Cleanup
<1> QED BY <1>3, <1>4 DEF Untouched

LEMMA CoordinatorErrorReaped ==
    ASSUME TypeOK, NEW j \in Jobs, CoordinatorError(j), worker[j] \in Gone,
           UNCHANGED worker, killer' \in {killer, killer \cup {j}}
    PROVE  Reaped(j)' /\ \A i \in Jobs \ {j} : Untouched(i)
<1>1. Finish(j, "error", TRUE) /\ "error" \in Statuses
  BY DEF CoordinatorError, Statuses
<1> QED BY <1>1, FinishReaped

\* The coordinator goes on: what the next await relies on holds.
LEMMA GotoReaped ==
    ASSUME TypeOK, NEW j \in Jobs, Reaped(j), pc[j] # "done", NEW to, Goto(j, to),
           UNCHANGED outcome, killer' \in {killer, killer \cup {j}},
           \A i \in Jobs \ {j} : worker'[i] = worker[i],
           to \in BeforeStart => worker'[j] = "none" /\ j \notin killer',
           to \in Cleanup => j \in killer' \/ worker'[j] = "stopped"
    PROVE  Reaped(j)' /\ \A i \in Jobs \ {j} : Untouched(i)
<1> USE SessionOfType
<1>1. pc'[j] = to /\ \A i \in Jobs \ {j} : pc'[i] = pc[i]
  BY DEF TypeOK, Goto
<1>2. ~outcome'[j].worker_terminated
  BY DEF Reaped
<1> QED BY <1>1, <1>2 DEF Reaped, Untouched

\* Up to the start of the worker.
LEMMA StartupReaped ==
    ASSUME TypeOK, NEW j \in Jobs, Reaped(j),
           CallTool(j) \/ EnterSession(j) \/ AcquireOutput(j) \/ StartWorker(j)
             \/ WorkerStarted(j)
    PROVE  Reaped(j)' /\ \A i \in Jobs \ {j} : Untouched(i)
<1> USE SessionOfType
<1>0. /\ "idle" \in BeforeStart /\ "wait_session" \in BeforeStart /\ "wait_output" \in BeforeStart
      /\ BeforeStart \cap Cleanup = {} /\ "none" \in Gone /\ "failed" \in Gone
      /\ "spawning" \notin BeforeStart /\ "spawning" \notin Cleanup
      /\ "communicating" \notin BeforeStart /\ "communicating" \notin Cleanup
      /\ "failing" \notin BeforeStart
      /\ "conflict" \in Statuses /\ "raised" \in Statuses
  BY DEF BeforeStart, Cleanup, Gone, Statuses
<1>1. CASE CallTool(j)
  <2>1. /\ pc[j] = "idle" /\ UNCHANGED << worker, killer >>
        /\ worker[j] = "none" /\ j \notin killer
    BY <1>0, <1>1 DEF CallTool, Reaped
  <2>2. CASE Goto(j, "wait_session") /\ UNCHANGED outcome
    BY <1>0, <2>1, <2>2, GotoReaped
  <2>3. CASE /\ Goto(j, "done")
             /\ outcome' = [outcome EXCEPT ![j] =
                              [status |-> "rejected", worker_terminated |-> FALSE]]
    <3>1. pc'[j] = "done" /\ outcome'[j].worker_terminated = FALSE
      BY <2>3 DEF TypeOK, Goto
    <3>2. \A i \in Jobs \ {j} : pc'[i] = pc[i] /\ outcome'[i] = outcome[i]
      BY <2>3 DEF TypeOK, Goto
    <3>3. Reaped(j)'
      BY <3>1 DEF Reaped, BeforeStart, Cleanup
    <3> QED BY <2>1, <3>2, <3>3 DEF Untouched
  <2> QED BY <1>1, <2>2, <2>3 DEF CallTool
<1>2. CASE EnterSession(j)
  <2>1. /\ pc[j] = "wait_session" /\ UNCHANGED << worker, killer >>
        /\ worker[j] = "none" /\ j \notin killer
    BY <1>0, <1>2 DEF EnterSession, Reaped
  <2>2. CASE Finish(j, "conflict", FALSE)
    BY <1>0, <2>1, <2>2, FinishReaped
  <2>3. CASE Finish(j, "raised", FALSE)
    BY <1>0, <2>1, <2>3, FinishReaped
  <2>4. CASE CoordinatorError(j)
    BY <1>0, <2>1, <2>4, CoordinatorErrorReaped
  <2>5. CASE Goto(j, "wait_output") /\ UNCHANGED outcome
    BY <1>0, <2>1, <2>5, GotoReaped
  <2> QED BY <1>2, <2>2, <2>3, <2>4, <2>5 DEF EnterSession
<1>3. CASE AcquireOutput(j)
  BY <1>3 DEF AcquireOutput, Reaped, Draining, Untouched
<1>4. CASE StartWorker(j)
  <2>1. /\ pc[j] = "wait_output" /\ UNCHANGED killer
        /\ worker[j] = "none" /\ j \notin killer
    BY <1>0, <1>4 DEF StartWorker, Reaped
  <2>2. CASE CoordinatorError(j) /\ UNCHANGED worker
    BY <1>0, <2>1, <2>2, CoordinatorErrorReaped
  <2>a. CASE Finish(j, "error", TRUE) /\ UNCHANGED worker
    <3>1. "error" \in Statuses
      BY DEF Statuses
    <3> QED BY <1>0, <2>1, <2>a, <3>1, FinishReaped
  <2>3. CASE /\ Goto(j, "spawning") /\ worker' = [worker EXCEPT ![j] = "spawning"]
             /\ UNCHANGED outcome
    <3>1. \A i \in Jobs \ {j} : worker'[i] = worker[i]
      BY <2>3 DEF TypeOK
    <3> QED BY <1>0, <2>1, <2>3, <3>1, GotoReaped
  <2> QED BY <1>4, <2>2, <2>a, <2>3 DEF StartWorker
<1>5. CASE WorkerStarted(j)
  <2>1. pc[j] = "spawning" /\ UNCHANGED worker
    BY <1>5 DEF WorkerStarted
  <2>2. CASE worker[j] = "failed" /\ CoordinatorError(j) /\ UNCHANGED killer
    BY <1>0, <2>1, <2>2, CoordinatorErrorReaped
  <2>3. CASE Goto(j, "communicating") /\ UNCHANGED << killer, outcome >>
    BY <1>0, <2>1, <2>3, GotoReaped
  <2>4. CASE Goto(j, "failing") /\ killer' = killer \cup {j} /\ UNCHANGED outcome
    BY <1>0, <2>1, <2>4, GotoReaped
  <2> QED BY <1>5, <2>2, <2>3, <2>4 DEF WorkerStarted
<1> QED BY <1>1, <1>2, <1>3, <1>4, <1>5

\* The processes themselves: a group only ever goes away.
LEMMA ProcessReaped ==
    ASSUME TypeOK, "group_survives" \notin Faults, NEW j \in Jobs, Reaped(j),
           \/ SpawnThread(j) \/ WorkerExit(j) \/ DescendantWrites(j)
           \/ TerminateThread(j) \/ PipesClose(j)
    PROVE  Reaped(j)' /\ \A i \in Jobs \ {j} : Untouched(i)
<1>1. UNCHANGED << pc, outcome >>
  BY DEF SpawnThread, WorkerExit, DescendantWrites, TerminateThread, PipesClose
<1>a. pc'[j] = pc[j] /\ outcome'[j] = outcome[j]
  BY <1>1
<1>2. \A i \in Jobs \ {j} : worker'[i] = worker[i] /\ (i \in killer <=> i \in killer')
  BY DEF SpawnThread, WorkerExit, DescendantWrites, TerminateThread, PipesClose, TypeOK
<1>3. \/ worker[j] \in {"spawning", "running"} /\ UNCHANGED killer
      \/ worker' = worker /\ UNCHANGED killer
      \/ worker'[j] = "stopped" /\ j \in killer
      \/ /\ worker'[j] = "detached" /\ j \in killer /\ worker[j] # "stopped"
         /\ pc[j] \in {"timing_out", "cancelling"}
      \/ worker[j] = "detached" /\ worker'[j] = "stopped" /\ UNCHANGED killer
  BY DEF SpawnThread, WorkerExit, DescendantWrites, TerminateThread, PipesClose, TypeOK
<1>4. CASE worker[j] \in {"spawning", "running"} /\ UNCHANGED killer
  <2>1. pc[j] \notin BeforeStart /\ ~outcome[j].worker_terminated
    BY <1>4 DEF Reaped, Gone
  <2>2. pc[j] \in Cleanup => j \in killer
    BY <1>4 DEF Reaped, Draining
  <2> QED BY <1>1, <1>a, <1>2, <1>4, <2>1, <2>2 DEF Reaped, Untouched
<1>5. CASE worker' = worker /\ UNCHANGED killer
  BY <1>1, <1>2, <1>5 DEF Reaped, Draining, Untouched
<1>6. CASE worker'[j] = "stopped" /\ j \in killer
  <2>1. pc[j] \notin BeforeStart
    BY <1>6 DEF Reaped
  <2> QED BY <1>1, <1>2, <1>6, <2>1 DEF Reaped, Untouched, Gone
<1>7. CASE /\ worker'[j] = "detached" /\ j \in killer /\ worker[j] # "stopped"
           /\ pc[j] \in {"timing_out", "cancelling"}
  <2>1. pc[j] \notin BeforeStart /\ ~outcome[j].worker_terminated
    <3>1. pc[j] # "done" /\ pc[j] \notin BeforeStart
      BY <1>7 DEF BeforeStart
    <3> QED BY <1>7, <3>1 DEF Reaped, Gone
  <2>2. Draining(j)'
    BY <1>a, <1>7 DEF Draining
  <2> QED BY <1>1, <1>a, <1>2, <2>1, <2>2 DEF Reaped, Untouched
<1>8. CASE worker[j] = "detached" /\ worker'[j] = "stopped" /\ UNCHANGED killer
  <2>1. pc[j] \notin BeforeStart
    BY <1>8 DEF Reaped
  <2> QED BY <1>1, <1>a, <1>2, <1>8, <2>1 DEF Reaped, Untouched, Gone
<1> QED BY <1>3, <1>4, <1>5, <1>6, <1>7, <1>8

\* The clean-up awaits and the outcomes built from them.
LEMMA CleanupReaped ==
    ASSUME TypeOK, NEW j \in Jobs, Reaped(j),
           \/ CommunicationEnds(j) \/ DeadlineElapses(j) \/ CancelledSpawnReturns(j)
           \/ TerminationRecorded(j) \/ CoordinatorErrorEnds(j) \/ WorkerFailed(j)
           \/ CancelWorking(j) \/ CancelCleanup(j)
    PROVE  Reaped(j)' /\ \A i \in Jobs \ {j} : Untouched(i)
<1>0. /\ "timing_out" \in Cleanup /\ "cancelling" \in Cleanup /\ "finishing" \in Cleanup
      /\ "failing" \in Cleanup /\ BeforeStart \cap Cleanup = {}
      /\ "failed" \in Gone /\ "stopped" \in Gone
      /\ "cancel_spawn" \notin BeforeStart /\ "cancel_spawn" \notin Cleanup
      /\ "raised" \in Statuses /\ "error" \in Statuses /\ "timeout" \in Statuses
      /\ "cancelled" \in Statuses
  BY DEF BeforeStart, Cleanup, Gone, Statuses
<1>1. CASE CommunicationEnds(j)
  <2>1. /\ pc[j] = "communicating" /\ Goto(j, "finishing") /\ killer' = killer \cup {j}
        /\ UNCHANGED << worker, outcome >>
    BY <1>1 DEF CommunicationEnds
  <2> QED BY <1>0, <2>1, GotoReaped
<1>2. CASE DeadlineElapses(j)
  <2>1. /\ pc[j] = "communicating" /\ Goto(j, "timing_out") /\ killer' = killer \cup {j}
        /\ UNCHANGED << worker, outcome >>
    BY <1>2 DEF DeadlineElapses
  <2> QED BY <1>0, <2>1, GotoReaped
<1>3. CASE CancelledSpawnReturns(j)
  <2>1. pc[j] = "cancel_spawn" /\ UNCHANGED worker
    BY <1>3 DEF CancelledSpawnReturns
  <2>2. CASE worker[j] = "failed" /\ CoordinatorError(j) /\ UNCHANGED killer
    BY <1>0, <2>1, <2>2, CoordinatorErrorReaped
  <2>3. CASE Goto(j, "cancelling") /\ killer' = killer \cup {j} /\ UNCHANGED outcome
    BY <1>0, <2>1, <2>3, GotoReaped
  <2> QED BY <1>3, <2>2, <2>3 DEF CancelledSpawnReturns
<1>4. CASE TerminationRecorded(j)
  <2> DEFINE status == IF pc[j] = "timing_out" THEN "timeout" ELSE "cancelled"
  <2>1. worker[j] = "stopped" /\ UNCHANGED << worker, killer >>
    BY <1>0, <1>4 DEF TerminationRecorded, Reaped, Draining
  <2>2. status \in Statuses
    BY <1>0
  <2>3. Finish(j, status, worker[j] = "stopped") \/ CoordinatorError(j)
    BY <1>4 DEF TerminationRecorded
  <2>4. (worker[j] = "stopped") \in BOOLEAN
    OBVIOUS
  <2> HIDE DEF status
  <2> QED BY <1>0, <2>1, <2>2, <2>3, <2>4, FinishReaped, CoordinatorErrorReaped
<1>5. CASE CoordinatorErrorEnds(j)
  <2>1. UNCHANGED << worker, killer >>
    BY <1>5 DEF CoordinatorErrorEnds
  <2>2. Finish(j, "error", worker[j] = "stopped") \/ Finish(j, "raised", FALSE)
    BY <1>5 DEF CoordinatorErrorEnds
  <2>3. (worker[j] = "stopped") \in BOOLEAN
    OBVIOUS
  <2> QED BY <1>0, <2>1, <2>2, <2>3, FinishReaped
<1>6. CASE WorkerFailed(j)
  <2>1. worker[j] = "stopped" /\ UNCHANGED << worker, killer >> /\ CoordinatorError(j)
    BY <1>0, <1>6 DEF WorkerFailed, Reaped, Draining
  <2> QED BY <1>0, <2>1, CoordinatorErrorReaped
<1>7. CASE CancelWorking(j)
  <2>1. UNCHANGED << worker, outcome >>
    BY <1>7 DEF CancelWorking
  <2>2. CASE pc[j] = "spawning" /\ Goto(j, "cancel_spawn") /\ UNCHANGED killer
    BY <1>0, <2>1, <2>2, GotoReaped
  <2>3. CASE /\ pc[j] = "communicating" /\ Goto(j, "cancelling")
             /\ killer' = killer \cup {j}
    BY <1>0, <2>1, <2>3, GotoReaped
  <2> QED BY <1>7, <2>2, <2>3 DEF CancelWorking
<1>8. CASE CancelCleanup(j)
  <2>1. Finish(j, "cancelled", FALSE) /\ UNCHANGED << worker, killer >>
    BY <1>8 DEF CancelCleanup
  <2> QED BY <1>0, <2>1, FinishReaped
<1> QED BY <1>1, <1>2, <1>3, <1>4, <1>5, <1>6, <1>7, <1>8

\* Nothing commits before the group is gone.
LEMMA CommitReaped ==
    ASSUME TypeOK, NEW j \in Jobs, Commit(j)
    PROVE  Reaped(j)' /\ \A i \in Jobs \ {j} : Untouched(i)
<1>1. worker[j] = "stopped" /\ UNCHANGED << worker, killer >>
  BY DEF Commit, ReadyToCommit
<1>2. \/ Finish(j, "completed", TRUE) \/ CoordinatorError(j) \/ Finish(j, "raised", FALSE)
  BY DEF Commit, CommitSucceeds, CommitRollsBack, CommittingJournalFails,
         StateReplaceEscapes, CommitEventEscapes
<1>3. "completed" \in Statuses /\ "raised" \in Statuses /\ "stopped" \in Gone
  BY DEF Statuses, Gone
<1> QED BY <1>1, <1>2, <1>3, FinishReaped, CoordinatorErrorReaped

\* A queued call that is cancelled, and session_destroy.
LEMMA QueueReaped ==
    ASSUME TypeOK, ReapedInv,
           \/ \E a \in Actors : CancelWaiting(a)
           \/ \E d \in Destroyers : CallDestroy(d) \/ Destroy(d)
    PROVE  ReapedInv'
<1> USE SessionOfType, PCFacts
<1>1. ASSUME NEW a \in Jobs, CancelWaiting(a) PROVE ReapedInv'
  <2>1. Finish(a, "cancelled", FALSE) /\ UNCHANGED << worker, killer >>
    BY <1>1 DEF CancelWaiting
  <2>2. "cancelled" \in Statuses
    BY DEF Statuses
  <2>3. Reaped(a)' /\ \A i \in Jobs \ {a} : Untouched(i)
    BY <2>1, <2>2, FinishReaped
  <2> QED BY <2>3, UntouchedReaped DEF ReapedInv
<1>2. ASSUME NEW d \in Destroyers, CancelWaiting(d) \/ CallDestroy(d) \/ Destroy(d)
      PROVE  ReapedInv'
  <2>1. d \notin Jobs
    OBVIOUS
  <2>2. UNCHANGED << outcome, worker, killer >>
    BY <1>2, <2>1 DEF CancelWaiting, CallDestroy, Destroy
  <2>3. \E p : pc' = [pc EXCEPT ![d] = p]
    BY <1>2, <2>1 DEF CancelWaiting, CallDestroy, Destroy, Goto
  <2>4. \A i \in Jobs : Untouched(i)
    BY <2>1, <2>2, <2>3 DEF Untouched, TypeOK
  <2> QED BY <2>4, UntouchedReaped DEF ReapedInv
<1> QED BY <1>1, <1>2 DEF Actors

LEMMA NextReaped ==
    ASSUME TypeOK, "group_survives" \notin Faults, ReapedInv, [Next]_vars
    PROVE  ReapedInv'
<1>1. CASE UNCHANGED vars
  BY <1>1 DEF vars, ReapedInv, Reaped, Draining
<1>2. ASSUME NEW j \in Jobs,
             \/ CallTool(j) \/ JobStep(j) \/ SpawnThread(j) \/ TerminateThread(j)
             \/ PipesClose(j) \/ WorkerExit(j) \/ DescendantWrites(j)
             \/ CancelWorking(j) \/ CancelCleanup(j)
      PROVE  ReapedInv'
  <2>1. Reaped(j)
    BY DEF ReapedInv
  <2>2. Reaped(j)' /\ \A i \in Jobs \ {j} : Untouched(i)
    BY <1>2, <2>1, StartupReaped, ProcessReaped, CleanupReaped, CommitReaped DEF JobStep
  <2> QED BY <2>2, UntouchedReaped DEF ReapedInv
<1> QED BY <1>1, <1>2, QueueReaped DEF Next, Quiescent

LEMMA InitReaped == Init => ReapedInv
<1> SUFFICES ASSUME Init, NEW j \in Jobs PROVE Reaped(j)
  BY DEF ReapedInv
<1>1. /\ pc[j] = "idle" /\ worker[j] = "none" /\ killer = {}
      /\ ~outcome[j].worker_terminated
  BY SessionOfType DEF Init
<1> QED BY <1>1 DEF Reaped, Cleanup

\* Whoever is cancelled and whatever else fails, an outcome that reports the
\* worker as terminated is right, as long as SIGKILL reaches the whole group.
THEOREM TerminationIsConfirmed ==
    ASSUME "group_survives" \notin Faults
    PROVE  Spec => []TerminationConfirmed
<1>1. TypeOK /\ ReapedInv /\ [Next]_vars => ReapedInv'
  BY NextReaped
<1>2. ReapedInv => TerminationConfirmed
  BY DEF ReapedInv, Reaped, Gone, TerminationConfirmed, WorkerAlive
<1> QED BY <1>1, <1>2, InitReaped, TypeCorrect, PTL DEF Spec

-----------------------------------------------------------------------------
(***************************************************************************)
(* Waiting.  NoWaitCycle needs to know who can be in which queue: a call   *)
(* is queued at most once, on the lock of its session or on the smallest   *)
(* target it does not hold, and the targets it holds are smaller than the  *)
(* ones it does not.  A job that holds what another waits for thus waits   *)
(* for a larger target itself, and only finitely many calls have begun.    *)
(***************************************************************************)
In(a, q) == \E i \in 1..Len(q) : q[i] = a
NoDup(q) == \A i, k \in 1..Len(q) : q[i] = q[k] => i = k

LEMMA AppendQueue ==
    ASSUME NEW q \in Seq(Actors), NEW a \in Actors, NoDup(q), ~In(a, q)
    PROVE  NoDup(Append(q, a)) /\ \A b : In(b, Append(q, a)) => In(b, q) \/ b = a
<1> DEFINE r == Append(q, a)
<1>1. /\ Len(q) \in Nat /\ Len(r) = Len(q) + 1
      /\ \A i \in 1..Len(q) : r[i] = q[i] /\ r[i] # a
      /\ r[Len(q) + 1] = a
  BY AppendProperties, LenProperties DEF In
<1> HIDE DEF r
<1>2. \A i \in 1..Len(r) : i \in 1..Len(q) \/ i = Len(q) + 1
  BY <1>1
<1>3. NoDup(r)
  BY <1>1, <1>2 DEF NoDup
<1>4. \A b : In(b, r) => In(b, q) \/ b = a
  BY <1>1, <1>2 DEF In
<1> QED BY <1>3, <1>4 DEF r

LEMMA TailQueue ==
    ASSUME NEW q \in Seq(Actors), q # << >>, NoDup(q)
    PROVE  NoDup(Tail(q)) /\ \A b : In(b, Tail(q)) => In(b, q) /\ b # Head(q)
<1> DEFINE r == Tail(q)
<1>1. /\ Len(q) \in Nat /\ Len(q) > 0 /\ Len(r) = Len(q) - 1
      /\ \A i \in 1..Len(r) : r[i] = q[i + 1]
      /\ Head(q) = q[1]
  BY HeadTailProperties, LenProperties
<1> HIDE DEF r
<1>2. \A i \in 1..Len(r) : i + 1 \in 1..Len(q) /\ i + 1 # 1 /\ 1 \in 1..Len(q)
  BY <1>1
<1>3. NoDup(r)
  <2> SUFFICES ASSUME NEW i \in 1..Len(r), NEW k \in 1..Len(r), r[i] = r[k] PROVE i = k
    BY DEF NoDup
  <2>1. i + 1 = k + 1
    BY <1>1, <1>2 DEF NoDup
  <2> QED BY <1>1, <2>1
<1>4. \A b : In(b, r) => In(b, q) /\ b # Head(q)
  <2> SUFFICES ASSUME NEW i \in 1..Len(r) PROVE In(r[i], q) /\ r[i] # Head(q)
    BY DEF In
  <2>1. r[i] = q[i + 1] /\ i + 1 \in 1..Len(q) /\ i + 1 # 1 /\ 1 \in 1..Len(q)
    BY <1>1, <1>2
  <2> QED BY <1>1, <2>1 DEF In, NoDup
<1> QED BY <1>3, <1>4 DEF r

LEMMA RemoveQueue ==
    ASSUME NEW q \in Seq(Actors), NEW i \in 1..Len(q), NoDup(q)
    PROVE  /\ NoDup(RemoveIndex(q, i))
           /\ \A b : In(b, RemoveIndex(q, i)) => In(b, q) /\ b # q[i]
<1> DEFINE u == SubSeq(q, 1, i - 1)
           v == SubSeq(q, i + 1, Len(q))
           r == RemoveIndex(q, i)
           old(k) == IF k < i THEN k ELSE k + 1
<1>1. Len(q) \in Nat /\ \A k \in 1..Len(q) : q[k] \in Actors
  BY LenProperties
<1>2. u \in Seq(Actors) /\ Len(u) = i - 1 /\ \A k \in 1..i - 1 : u[k] = q[k]
  <2>1. 1 \in Int /\ i - 1 \in Int /\ \A k \in 1..i - 1 : q[k] \in Actors
    BY <1>1
  <2>2. /\ u \in Seq(Actors) /\ Len(u) = IF 1 <= i - 1 THEN i - 1 - 1 + 1 ELSE 0
        /\ \A k \in 1..i - 1 - 1 + 1 : u[k] = q[1 + k - 1]
    BY <2>1, SubSeqProperties
  <2>3. Len(u) = i - 1
    BY <1>1, <2>2
  <2>4. \A k \in 1..i - 1 : k \in 1..i - 1 - 1 + 1 /\ 1 + k - 1 = k
    BY <1>1
  <2> HIDE DEF u
  <2> QED BY <2>2, <2>3, <2>4
<1>3. v \in Seq(Actors) /\ Len(v) = Len(q) - i /\ \A k \in 1..Len(q) - i : v[k] = q[i + k]
  <2>1. i + 1 \in Int /\ Len(q) \in Int /\ \A k \in i + 1..Len(q) : q[k] \in Actors
    BY <1>1
  <2>2. /\ v \in Seq(Actors) /\ Len(v) = IF i + 1 <= Len(q) THEN Len(q) - (i + 1) + 1 ELSE 0
        /\ \A k \in 1..Len(q) - (i + 1) + 1 : v[k] = q[i + 1 + k - 1]
    BY <2>1, SubSeqProperties
  <2>3. Len(v) = Len(q) - i
    BY <1>1, <2>2
  <2>4. \A k \in 1..Len(q) - i : k \in 1..Len(q) - (i + 1) + 1 /\ i + 1 + k - 1 = i + k
    BY <1>1
  <2> HIDE DEF v
  <2> QED BY <2>2, <2>3, <2>4
<1>4. /\ Len(r) = Len(u) + Len(v)
      /\ \A k \in 1..Len(u) + Len(v) : r[k] = IF k <= Len(u) THEN u[k] ELSE v[k - Len(u)]
  BY <1>2, <1>3, ConcatProperties DEF RemoveIndex
<1> HIDE DEF u, v, r
<1>5. Len(r) = Len(q) - 1
  BY <1>1, <1>2, <1>3, <1>4
<1>6. ASSUME NEW k \in 1..Len(r)
      PROVE  r[k] = q[old(k)] /\ old(k) \in 1..Len(q) /\ old(k) # i
  <2>1. k \in 1..Len(u) + Len(v)
    BY <1>4
  <2>2. CASE k < i
    <3>1. k <= Len(u) /\ k \in 1..i - 1
      BY <1>1, <1>2, <1>5, <2>2
    <3> QED BY <1>1, <1>2, <1>4, <1>5, <2>1, <2>2, <3>1
  <2>3. CASE ~(k < i)
    <3>1. ~(k <= Len(u)) /\ k - Len(u) \in 1..Len(q) - i /\ i + (k - Len(u)) = k + 1
      BY <1>1, <1>2, <1>5, <2>3
    <3>2. r[k] = q[k + 1]
      BY <1>3, <1>4, <2>1, <3>1
    <3> QED BY <1>1, <1>5, <2>3, <3>2
  <2> QED BY <2>2, <2>3
<1>7. NoDup(r)
  <2> SUFFICES ASSUME NEW k \in 1..Len(r), NEW m \in 1..Len(r), r[k] = r[m] PROVE k = m
    BY DEF NoDup
  <2>1. q[old(k)] = q[old(m)] /\ old(k) \in 1..Len(q) /\ old(m) \in 1..Len(q)
    BY <1>6
  <2>2. old(k) = old(m)
    BY <2>1 DEF NoDup
  <2> QED BY <1>1, <1>5, <2>2
<1>8. ASSUME NEW k \in 1..Len(r) PROVE In(r[k], q) /\ r[k] # q[i]
  BY <1>6 DEF In, NoDup
<1> QED BY <1>7, <1>8 DEF In, r

\* Where call a stands when it is queued on lock l.
Placed(a, l) ==
    /\ l \in Sessions => pc[a] = "wait_session" /\ SessionOf[a] = l
    /\ l \in Targets => a \in Jobs /\ pc[a] = "wait_output" /\ IsNextTarget(a, Held(a), l)

QueueInv ==
    \A l \in Locks :
        NoDup(waiters[l]) /\ \A a \in Actors : WaitsFor(a, l) => Placed(a, l)

\* Output locks are held by the jobs that declared them, inside their session.
OwnsDeclared ==
    \A t \in Targets, j \in Jobs :
        owner[t] = j => t \in OutputsOf[j] /\ pc[j] \in InSession

\* _acquire_output_locks takes them in ascending order.
TakenInOrder ==
    \A j \in Jobs : \A t \in Held(j), u \in OutputsOf[j] \ Held(j) : t < u

Begun == { a \in Actors : pc[a] # "idle" }

WaitInv == QueueInv /\ OwnsDeclared /\ TakenInOrder /\ IsFiniteSet(Begun)

\* A call waits in one queue only.
LEMMA OneQueue ==
    ASSUME QueueInv, NEW a \in Actors, NEW l \in Locks, NEW m \in Locks,
           WaitsFor(a, l), WaitsFor(a, m)
    PROVE  l = m
<1>1. Placed(a, l) /\ Placed(a, m)
  BY DEF QueueInv
<1>2. Locks = Sessions \cup Targets /\ Targets \subseteq Nat
  BY ConstantsAssumption DEF Locks
<1>3. CASE l \in Sessions
  BY <1>1, <1>2, <1>3 DEF Placed
<1>4. CASE l \in Targets
  <2>1. m \in Targets
    BY <1>1, <1>2, <1>4 DEF Placed
  <2>2. l <= m /\ m <= l
    BY <1>1, <1>4, <2>1 DEF Placed, IsNextTarget
  <2> QED BY <1>2, <1>4, <2>1, <2>2
<1> QED BY <1>2, <1>3, <1>4

\* A call that is at no lock is in no queue.
LEMMA NotQueued ==
    ASSUME QueueInv, NEW a \in Actors, pc[a] \notin {"wait_session", "wait_output"},
           NEW l \in Locks
    PROVE  ~WaitsFor(a, l)
BY DEF QueueInv, Placed, Locks

\* Nothing changes but the place of call a.
OnlyMoves(a) == \A b \in Actors \ {a} : pc'[b] = pc[b]

\* Call a leaves with every lock it has, and the queue it may be in.
Quits(a) ==
    /\ OnlyMoves(a) /\ pc'[a] = "done"
    /\ \A l \in Locks : owner'[l] = owner[l] \/ (owner[l] = a /\ owner'[l] = None)
    /\ a \in Jobs => \A l \in Locks : owner'[l] # a
    /\ \A l \in Locks :
          /\ NoDup(waiters'[l]) /\ ~In(a, waiters'[l])
          /\ \A b \in Actors : In(b, waiters'[l]) => In(b, waiters[l])

\* Call a, which is in no queue, goes on with the locks it has.
Proceeds(a) ==
    /\ OnlyMoves(a) /\ pc'[a] \notin {"wait_session", "wait_output"}
    /\ pc[a] \in InSession => pc'[a] \in InSession
    /\ UNCHANGED << owner, waiters >>
    /\ \A l \in Locks : ~WaitsFor(a, l)

\* Call a is queued on the lock of its session.
Asks(a) ==
    /\ OnlyMoves(a) /\ pc[a] = "idle" /\ pc'[a] = "wait_session"
    /\ UNCHANGED owner /\ waiters' = Enqueue(waiters, SessionOf[a], a)

\* Call a takes lock l and asks for the next of its targets.
Takes(a, l) ==
    /\ a \in Jobs /\ OnlyMoves(a) /\ pc'[a] = "wait_output"
    /\ \/ pc[a] = "wait_session" /\ l = SessionOf[a]
       \/ pc[a] = "wait_output" /\ l \in Targets /\ IsNextTarget(a, Held(a), l)
    /\ owner[l] = None /\ waiters[l] # << >> /\ Head(waiters[l]) = a
    /\ owner' = [owner EXCEPT ![l] = a]
    /\ \E held \in SUBSET Targets :
          /\ held = IF l \in Targets THEN Held(a) \cup {l} ELSE {}
          /\ waiters' = EnqueueNextTarget(Dequeue(waiters, l), a, held)

WaitStep(a) == Quits(a) \/ Proceeds(a) \/ Asks(a) \/ \E l \in Locks : Takes(a, l)

-----------------------------------------------------------------------------
(* What the steps keep.                                                    *)

LEMMA BegunFinite ==
    ASSUME NEW a \in Actors, OnlyMoves(a), IsFiniteSet(Begun) PROVE IsFiniteSet(Begun')
<1>1. IsFiniteSet(Begun \cup {a})
  BY FS_AddElement
<1>2. Begun' \in SUBSET (Begun \cup {a})
  BY DEF Begun, OnlyMoves
<1> QED BY <1>1, <1>2, FS_Subset

\* The queues after a step that changes the place and the locks of a only.
LEMMA QueueFrame ==
    ASSUME QueueInv, NEW a \in Actors, OnlyMoves(a),
           \A b \in Jobs \ {a} : Held(b)' = Held(b),
           \A l \in Locks : NoDup(waiters'[l]),
           \A l \in Locks, b \in Actors \ {a} : In(b, waiters'[l]) => In(b, waiters[l]),
           \A l \in Locks : In(a, waiters'[l]) => Placed(a, l)'
    PROVE  QueueInv'
<1> SUFFICES ASSUME NEW l \in Locks, NEW b \in Actors, WaitsFor(b, l)' PROVE Placed(b, l)'
  BY DEF QueueInv
<1>1. In(b, waiters'[l])
  BY DEF WaitsFor, In
<1>2. CASE b = a
  BY <1>1, <1>2
<1>3. CASE b # a
  <2>1. Placed(b, l)
    BY <1>1, <1>3 DEF QueueInv, WaitsFor, In
  <2>2. pc'[b] = pc[b] /\ (b \in Jobs => Held(b)' = Held(b))
    BY <1>3 DEF OnlyMoves
  <2> QED BY <2>1, <2>2 DEF Placed, IsNextTarget
<1> QED BY <1>2, <1>3

LEMMA QuitsKeeps ==
    ASSUME TypeOK, WaitInv, NEW a \in Actors, Quits(a) PROVE WaitInv'
<1> USE SessionOfType, PCFacts
<1>1. \A b \in Jobs \ {a} : Held(b)' = Held(b)
  <2> SUFFICES ASSUME NEW b \in Jobs \ {a}, NEW t \in OutputsOf[b]
               PROVE  owner'[t] = b <=> owner[t] = b
    BY DEF Held
  <2>1. t \in Locks
    OBVIOUS
  <2> QED BY <2>1 DEF Quits
<1>2. QueueInv'
  BY <1>1, QueueFrame DEF WaitInv, Quits
<1>3. OwnsDeclared'
  <2> SUFFICES ASSUME NEW t \in Targets, NEW j \in Jobs, owner'[t] = j
               PROVE  t \in OutputsOf[j] /\ pc'[j] \in InSession
    BY DEF OwnsDeclared
  <2>1. j # a /\ owner[t] = j
    BY DEF Quits
  <2> QED BY <2>1 DEF WaitInv, OwnsDeclared, Quits, OnlyMoves
<1>4. TakenInOrder'
  <2>1. a \in Jobs => Held(a)' = {}
    BY DEF Quits, Held
  <2> QED BY <1>1, <2>1 DEF WaitInv, TakenInOrder
<1>5. IsFiniteSet(Begun')
  BY BegunFinite DEF WaitInv, Quits
<1> QED BY <1>2, <1>3, <1>4, <1>5 DEF WaitInv

LEMMA ProceedsKeeps ==
    ASSUME TypeOK, WaitInv, NEW a \in Actors, Proceeds(a) PROVE WaitInv'
<1>1. \A b \in Jobs : Held(b)' = Held(b)
  BY DEF Proceeds, Held
<1>2. \A l \in Locks : ~In(a, waiters'[l])
  BY DEF Proceeds, WaitsFor, In
<1>3. QueueInv'
  BY <1>1, <1>2, QueueFrame DEF WaitInv, Proceeds, QueueInv
<1>4. OwnsDeclared'
  BY SessionOfType DEF WaitInv, OwnsDeclared, Proceeds, OnlyMoves
<1>5. TakenInOrder'
  BY <1>1 DEF WaitInv, TakenInOrder
<1>6. IsFiniteSet(Begun')
  BY BegunFinite DEF WaitInv, Proceeds
<1> QED BY <1>3, <1>4, <1>5, <1>6 DEF WaitInv

LEMMA AsksKeeps ==
    ASSUME TypeOK, WaitInv, NEW a \in Actors, Asks(a) PROVE WaitInv'
<1> USE SessionOfType, PCFacts
<1> DEFINE s == SessionOf[a]
<1>0. /\ s \in Sessions /\ s \in Locks /\ s \notin Targets
      /\ waiters \in [Locks -> Seq(Actors)] /\ waiters[s] \in Seq(Actors)
  BY DEF TypeOK
<1>1. \A b \in Jobs : Held(b)' = Held(b)
  BY DEF Asks, Held
<1>2. \A l \in Locks : ~In(a, waiters[l]) /\ NoDup(waiters[l])
  BY NotQueued DEF WaitInv, Asks, QueueInv, WaitsFor, In
<1>3. /\ waiters'[s] = Append(waiters[s], a)
      /\ \A l \in Locks \ {s} : waiters'[l] = waiters[l]
  BY <1>0 DEF Asks, Enqueue
<1>4. /\ NoDup(waiters'[s])
      /\ \A b : In(b, waiters'[s]) => In(b, waiters[s]) \/ b = a
  BY <1>0, <1>2, <1>3, AppendQueue
<1>5. Placed(a, s)'
  BY <1>0 DEF Placed, Asks
<1> HIDE DEF s
<1>6. \A l \in Locks : In(a, waiters'[l]) => Placed(a, l)'
  <2> SUFFICES ASSUME NEW l \in Locks, In(a, waiters'[l]) PROVE l = s
    BY <1>5
  <2> QED BY <1>2, <1>3
<1>7. QueueInv'
  <2>1. \A l \in Locks : NoDup(waiters'[l])
    BY <1>2, <1>3, <1>4
  <2>2. \A l \in Locks, b \in Actors \ {a} : In(b, waiters'[l]) => In(b, waiters[l])
    BY <1>3, <1>4
  <2> QED BY <1>1, <1>6, <2>1, <2>2, QueueFrame DEF WaitInv, Asks
<1>8. OwnsDeclared'
  BY DEF WaitInv, OwnsDeclared, Asks, OnlyMoves
<1>9. TakenInOrder'
  BY <1>1 DEF WaitInv, TakenInOrder
<1>10. IsFiniteSet(Begun')
  BY BegunFinite DEF WaitInv, Asks
<1> QED BY <1>7, <1>8, <1>9, <1>10 DEF WaitInv

LEMMA TakesKeeps ==
    ASSUME TypeOK, WaitInv, NEW a \in Actors, NEW l \in Locks, Takes(a, l) PROVE WaitInv'
<1> USE SessionOfType, PCFacts
<1> DEFINE D == Dequeue(waiters, l)
<1>0. /\ a \in Jobs /\ QueueInv /\ OwnsDeclared /\ TakenInOrder
      /\ waiters \in [Locks -> Seq(Actors)] /\ owner \in [Locks -> Actors \cup {None}]
      /\ Targets \subseteq Nat /\ owner[l] = None
  BY ConstantsAssumption DEF Takes, WaitInv, TypeOK
<1>1. PICK held \in SUBSET Targets :
         /\ held = IF l \in Targets THEN Held(a) \cup {l} ELSE {}
         /\ waiters' = EnqueueNextTarget(D, a, held)
  BY DEF Takes
<1>2. owner'[l] = a /\ \A m \in Locks \ {l} : owner'[m] = owner[m]
  BY <1>0 DEF Takes
<1>3. \A b \in Jobs \ {a} : Held(b)' = Held(b)
  <2> SUFFICES ASSUME NEW b \in Jobs \ {a}, NEW t \in OutputsOf[b]
               PROVE  owner'[t] = b <=> owner[t] = b
    BY DEF Held
  <2>1. t \in Locks
    OBVIOUS
  <2> QED BY <1>0, <1>2, <2>1
<1>4. Held(a)' = held
  <2>1. CASE l \in Targets
    <3>1. l \in OutputsOf[a]
      BY <2>1 DEF Takes, IsNextTarget
    <3>2. \A t \in OutputsOf[a] : owner'[t] = a <=> owner[t] = a \/ t = l
      BY <1>0, <1>2
    <3> QED BY <1>1, <2>1, <3>1, <3>2 DEF Held
  <2>2. CASE l \notin Targets
    <3>1. pc[a] = "wait_session"
      BY <2>2 DEF Takes
    <3>2. \A t \in OutputsOf[a] : owner[t] # a /\ t # l
      <4>1. OutputsOf[a] \subseteq Targets
        BY <1>0
      <4>2. pc[a] \notin InSession
        BY <3>1
      <4> QED BY <1>0, <2>2, <4>1, <4>2 DEF OwnsDeclared
    <3>3. \A t \in OutputsOf[a] : owner'[t] # a
      BY <1>0, <1>2, <3>2
    <3> QED BY <1>1, <2>2, <3>3 DEF Held
  <2> QED BY <2>1, <2>2
<1>5. /\ waiters[l] \in Seq(Actors) /\ waiters[l] # << >> /\ Head(waiters[l]) = a
      /\ NoDup(waiters[l]) /\ WaitsFor(a, l)
  <2>1. waiters[l] \in Seq(Actors) /\ waiters[l] # << >> /\ Head(waiters[l]) = a
    BY <1>0 DEF Takes
  <2>2. Len(waiters[l]) \in Nat /\ 1 \in 1..Len(waiters[l]) /\ waiters[l][1] = a
    BY <2>1, HeadTailProperties, LenProperties
  <2> QED BY <1>0, <2>1, <2>2 DEF QueueInv, WaitsFor
<1>6. ASSUME NEW m \in Locks
      PROVE  /\ D[m] \in Seq(Actors) /\ NoDup(D[m]) /\ ~In(a, D[m])
             /\ \A b \in Actors : In(b, D[m]) => In(b, waiters[m])
  <2>1. CASE m = l
    <3>1. D[m] = Tail(waiters[l])
      BY <1>0, <2>1 DEF Dequeue
    <3> QED BY <1>5, <2>1, <3>1, TailQueue, HeadTailProperties
  <2>2. CASE m # l
    <3>1. D[m] = waiters[m]
      BY <1>0, <2>2 DEF Dequeue
    <3>2. ~WaitsFor(a, m)
      BY <1>0, <1>5, <2>2, OneQueue
    <3> QED BY <1>0, <3>1, <3>2 DEF QueueInv, WaitsFor, In
  <2> QED BY <2>1, <2>2
<1> HIDE DEF D
<1>7. ASSUME NEW m \in Locks
      PROVE  /\ NoDup(waiters'[m])
             /\ \A b \in Actors \ {a} : In(b, waiters'[m]) => In(b, waiters[m])
             /\ In(a, waiters'[m]) => m \in Targets /\ IsNextTarget(a, held, m)
  <2>1. CASE m \in Targets /\ IsNextTarget(a, held, m)
    <3>1. waiters'[m] = Append(D[m], a)
      BY <1>1, <2>1 DEF EnqueueNextTarget
    <3> QED BY <1>6, <2>1, <3>1, AppendQueue
  <2>2. CASE ~(m \in Targets /\ IsNextTarget(a, held, m))
    <3>1. waiters'[m] = D[m]
      BY <1>1, <2>2 DEF EnqueueNextTarget
    <3> QED BY <1>6, <3>1
  <2> QED BY <2>1, <2>2
<1>8. ASSUME NEW m \in Locks, In(a, waiters'[m]) PROVE Placed(a, m)'
  <2>1. m \in Targets /\ IsNextTarget(a, held, m) /\ m \notin Sessions
    BY <1>7, <1>8
  <2>2. pc'[a] = "wait_output"
    BY DEF Takes
  <2> QED BY <1>0, <1>4, <2>1, <2>2 DEF Placed, IsNextTarget
<1>9. QueueInv'
  BY <1>0, <1>3, <1>7, <1>8, QueueFrame DEF Takes
<1>10. OwnsDeclared'
  <2> SUFFICES ASSUME NEW t \in Targets, NEW j \in Jobs, owner'[t] = j
               PROVE  t \in OutputsOf[j] /\ pc'[j] \in InSession
    BY DEF OwnsDeclared
  <2>1. CASE t = l
    BY <1>2, <2>1 DEF Takes, IsNextTarget
  <2>2. CASE t # l
    <3>1. owner[t] = j
      BY <1>2, <2>2
    <3> QED BY <1>0, <3>1 DEF OwnsDeclared, Takes, OnlyMoves
  <2> QED BY <2>1, <2>2
<1>11. TakenInOrder'
  <2>1. ASSUME NEW t \in held, NEW u \in OutputsOf[a] \ held PROVE t < u
    <3>1. l \in Targets /\ held = Held(a) \cup {l} /\ IsNextTarget(a, Held(a), l)
      BY <1>1, <2>1 DEF Takes
    <3>2. CASE t = l
      <4>1. l <= u /\ u # l /\ l \in Nat /\ u \in Nat
        BY <1>0, <2>1, <3>1 DEF IsNextTarget
      <4> QED BY <3>2, <4>1
    <3>3. CASE t \in Held(a)
      BY <1>0, <2>1, <3>1, <3>3 DEF TakenInOrder
    <3> QED BY <3>1, <3>2, <3>3
  <2> QED BY <1>0, <1>3, <1>4, <2>1 DEF TakenInOrder
<1>12. IsFiniteSet(Begun')
  BY BegunFinite DEF WaitInv, Takes
<1> QED BY <1>9, <1>10, <1>11, <1>12 DEF WaitInv

-----------------------------------------------------------------------------
(* Every step of the model is one of them.                                 *)

\* A call that is in no queue leaves.
LEMMA FinishQuits ==
    ASSUME TypeOK, WaitInv, NEW j \in Jobs, NEW status, NEW terminated,
           Finish(j, status, terminated), UNCHANGED waiters,
           \A l \in Locks : ~WaitsFor(j, l)
    PROVE  Quits(j)
<1> USE SessionOfType, PCFacts
<1>1. OnlyMoves(j) /\ pc'[j] = "done"
  BY DEF Finish, Goto, OnlyMoves, TypeOK
<1>2. \A l \in Locks : owner'[l] = IF owner[l] = j THEN None ELSE owner[l]
  BY DEF Finish, Released
<1>3. \A l \in Locks : NoDup(waiters'[l]) /\ ~In(j, waiters'[l])
  BY DEF WaitInv, QueueInv, WaitsFor, In
<1> QED BY <1>1, <1>2, <1>3 DEF Quits

\* The head of a queue leaves.
LEMMA FinishAtHead ==
    ASSUME TypeOK, WaitInv, NEW a \in Actors, NEW s \in Locks, Grantable(s, a),
           waiters' = Dequeue(waiters, s), OnlyMoves(a), pc'[a] = "done",
           \A l \in Locks : owner'[l] = owner[l] \/ (owner[l] = a /\ owner'[l] = None),
           a \in Jobs => \A l \in Locks : owner'[l] # a
    PROVE  Quits(a)
<1>1. /\ waiters \in [Locks -> Seq(Actors)] /\ waiters[s] \in Seq(Actors)
      /\ waiters[s] # << >> /\ Head(waiters[s]) = a /\ QueueInv
  BY DEF TypeOK, Grantable, WaitInv
<1>2. Len(waiters[s]) \in Nat /\ 1 \in 1..Len(waiters[s]) /\ waiters[s][1] = a
  BY <1>1, HeadTailProperties, LenProperties
<1>3. WaitsFor(a, s) /\ NoDup(waiters[s])
  BY <1>1, <1>2 DEF QueueInv, WaitsFor
<1>4. ASSUME NEW l \in Locks
      PROVE  /\ NoDup(waiters'[l]) /\ ~In(a, waiters'[l])
             /\ \A b \in Actors : In(b, waiters'[l]) => In(b, waiters[l])
  <2>1. CASE l = s
    <3>1. waiters'[l] = Tail(waiters[s])
      BY <1>1, <2>1 DEF Dequeue
    <3> QED BY <1>1, <1>3, <2>1, <3>1, TailQueue
  <2>2. CASE l # s
    <3>1. waiters'[l] = waiters[l]
      BY <1>1, <2>2 DEF Dequeue
    <3>2. ~WaitsFor(a, l)
      BY <1>1, <1>3, <2>2, OneQueue
    <3> QED BY <1>1, <3>1, <3>2 DEF QueueInv, WaitsFor, In
  <2> QED BY <2>1, <2>2
<1> QED BY <1>4 DEF Quits

\* A call that owns a worker goes on or leaves; it is in no queue.
LEMMA WorkingStep ==
    ASSUME TypeOK, WaitInv, NEW j \in Jobs, pc[j] \in InWorker, UNCHANGED waiters,
           \/ \E status, terminated : Finish(j, status, terminated)
           \/ \E to \in InWorker : Goto(j, to) /\ UNCHANGED owner
    PROVE  WaitStep(j)
<1> USE SessionOfType, PCFacts
<1>1. pc[j] \notin {"wait_session", "wait_output"}
  OBVIOUS
<1>2. \A l \in Locks : ~WaitsFor(j, l)
  BY <1>1, NotQueued DEF WaitInv
<1>3. CASE \E status, terminated : Finish(j, status, terminated)
  BY <1>2, <1>3, FinishQuits DEF WaitStep
<1>4. CASE \E to \in InWorker : Goto(j, to) /\ UNCHANGED owner
  <2>1. PICK to \in InWorker : Goto(j, to) /\ UNCHANGED owner
    BY <1>4
  <2>2. OnlyMoves(j) /\ pc'[j] = to
    BY <2>1 DEF Goto, OnlyMoves, TypeOK
  <2> QED BY <1>2, <2>1, <2>2 DEF Proceeds, WaitStep
<1> QED BY <1>3, <1>4

LEMMA WorkerWait ==
    ASSUME TypeOK, WaitInv, NEW j \in Jobs,
           \/ WorkerStarted(j) \/ CommunicationEnds(j) \/ DeadlineElapses(j)
           \/ CancelledSpawnReturns(j) \/ TerminationRecorded(j)
           \/ CoordinatorErrorEnds(j) \/ WorkerFailed(j) \/ Commit(j)
           \/ CancelWorking(j) \/ CancelCleanup(j)
    PROVE  WaitStep(j)
<1>0. { "spawning", "cancel_spawn", "communicating", "timing_out", "cancelling",
        "finishing", "failing" } \subseteq InWorker
  BY DEF InSession, InWorker, PCs
<1>1. pc[j] \in { "spawning", "cancel_spawn", "communicating", "timing_out", "cancelling",
                  "finishing", "failing" } /\ UNCHANGED waiters
  BY DEF WorkerStarted, CommunicationEnds, DeadlineElapses, CancelledSpawnReturns,
         TerminationRecorded, CoordinatorErrorEnds, WorkerFailed, Commit, ReadyToCommit,
         CancelWorking, CancelCleanup
<1>2. CoordinatorError(j) => \E status, terminated : Finish(j, status, terminated)
  BY DEF CoordinatorError
<1>3. CASE WorkerStarted(j) \/ CancelledSpawnReturns(j)
  <2>1. \/ CoordinatorError(j)
        \/ \E to \in {"communicating", "failing", "cancelling"} : Goto(j, to) /\ UNCHANGED owner
    BY <1>3 DEF WorkerStarted, CancelledSpawnReturns
  <2> QED BY <1>0, <1>1, <1>2, <2>1, WorkingStep
<1>4. CASE CommunicationEnds(j) \/ DeadlineElapses(j) \/ CancelWorking(j)
  <2>1. \E to \in {"finishing", "timing_out", "cancel_spawn", "cancelling"} :
           Goto(j, to) /\ UNCHANGED owner
    BY <1>4 DEF CommunicationEnds, DeadlineElapses, CancelWorking
  <2> QED BY <1>0, <1>1, <2>1, WorkingStep
<1>5. CASE \/ TerminationRecorded(j) \/ CoordinatorErrorEnds(j) \/ WorkerFailed(j)
           \/ Commit(j) \/ CancelCleanup(j)
  <2>1. \E status, terminated : Finish(j, status, terminated)
    BY <1>2, <1>5 DEF TerminationRecorded, CoordinatorErrorEnds, WorkerFailed, Commit,
         CommitSucceeds, CommitRollsBack, CommittingJournalFails, StateReplaceEscapes,
         CommitEventEscapes, CancelCleanup
  <2> QED BY <1>0, <1>1, <2>1, WorkingStep
<1> QED BY <1>3, <1>4, <1>5

\* The steps of a tool call up to the start of its worker.
LEMMA StartupWait ==
    ASSUME TypeOK, WaitInv, NEW j \in Jobs,
           CallTool(j) \/ EnterSession(j) \/ AcquireOutput(j) \/ StartWorker(j)
    PROVE  WaitStep(j)
<1> USE SessionOfType, PCFacts
<1> DEFINE s == SessionOf[j]
<1>1. CASE CallTool(j)
  <2>1. pc[j] = "idle" /\ UNCHANGED owner
    BY <1>1 DEF CallTool
  <2>2. CASE Goto(j, "done") /\ UNCHANGED waiters
    <3>1. OnlyMoves(j) /\ pc'[j] = "done"
      BY <2>2 DEF Goto, OnlyMoves, TypeOK
    <3>2. \A l \in Locks : ~WaitsFor(j, l)
      BY <2>1, NotQueued DEF WaitInv
    <3> QED BY <2>1, <2>2, <3>1, <3>2 DEF Proceeds, WaitStep
  <2>3. CASE Goto(j, "wait_session") /\ waiters' = Enqueue(waiters, s, j)
    <3>1. OnlyMoves(j) /\ pc'[j] = "wait_session"
      BY <2>3 DEF Goto, OnlyMoves, TypeOK
    <3> QED BY <2>1, <2>3, <3>1 DEF Asks, WaitStep
  <2> QED BY <1>1, <2>2, <2>3 DEF CallTool
<1>2. CASE EnterSession(j)
  <2>1. pc[j] = "wait_session" /\ Grantable(s, j) /\ s \in Locks /\ s \notin Targets
    BY <1>2 DEF EnterSession
  <2>2. ASSUME NEW status, NEW terminated, Finish(j, status, terminated),
               waiters' = Dequeue(waiters, s)
        PROVE  WaitStep(j)
    <3>1. OnlyMoves(j) /\ pc'[j] = "done"
      BY <2>2 DEF Finish, Goto, OnlyMoves, TypeOK
    <3>2. \A l \in Locks : owner'[l] = IF owner[l] = j THEN None ELSE owner[l]
      BY <2>2 DEF Finish, Released
    <3>3. /\ \A l \in Locks : owner'[l] = owner[l] \/ (owner[l] = j /\ owner'[l] = None)
          /\ \A l \in Locks : owner'[l] # j
      BY <3>2
    <3> QED BY <2>1, <2>2, <3>1, <3>3, FinishAtHead DEF WaitStep
  <2>3. CASE /\ Goto(j, "wait_output") /\ owner' = [owner EXCEPT ![s] = j]
             /\ waiters' = EnqueueNextTarget(Dequeue(waiters, s), j, {})
    <3>1. OnlyMoves(j) /\ pc'[j] = "wait_output"
      BY <2>3 DEF Goto, OnlyMoves, TypeOK
    <3>2. Takes(j, s)
      BY <2>1, <2>3, <3>1 DEF Takes, Grantable
    <3> QED BY <2>1, <3>2 DEF WaitStep
  <2>4. \/ /\ waiters' = Dequeue(waiters, s)
           /\ \E status, terminated : Finish(j, status, terminated)
        \/ /\ Goto(j, "wait_output") /\ owner' = [owner EXCEPT ![s] = j]
           /\ waiters' = EnqueueNextTarget(Dequeue(waiters, s), j, {})
    BY <1>2 DEF EnterSession, CoordinatorError
  <2> QED BY <2>2, <2>3, <2>4
<1>3. CASE AcquireOutput(j)
  <2>1. PICK t \in OutputsOf[j] :
           /\ IsNextTarget(j, Held(j), t) /\ Grantable(t, j)
           /\ owner' = [owner EXCEPT ![t] = j]
           /\ waiters' = EnqueueNextTarget(Dequeue(waiters, t), j, Held(j) \cup {t})
    BY <1>3 DEF AcquireOutput
  <2>2. pc[j] = "wait_output" /\ UNCHANGED pc /\ t \in Targets /\ t \in Locks
    BY <1>3 DEF AcquireOutput
  <2>3. Held(j) \cup {t} \in SUBSET Targets
    BY <2>2 DEF Held
  <2>4. OnlyMoves(j) /\ pc'[j] = "wait_output"
    BY <2>2 DEF OnlyMoves
  <2>5. Takes(j, t)
    BY <2>1, <2>2, <2>3, <2>4 DEF Takes, Grantable
  <2> QED BY <2>2, <2>5 DEF WaitStep
<1>4. CASE StartWorker(j)
  <2>1. pc[j] = "wait_output" /\ Held(j) = OutputsOf[j] /\ UNCHANGED waiters
    BY <1>4 DEF StartWorker
  <2>2. \A l \in Locks : ~WaitsFor(j, l)
    BY <2>1 DEF WaitInv, QueueInv, Placed, IsNextTarget, Locks
  <2>3. CASE \E status, terminated : Finish(j, status, terminated)
    BY <2>1, <2>2, <2>3, FinishQuits DEF WaitStep
  <2>4. CASE Goto(j, "spawning") /\ UNCHANGED owner
    <3>1. OnlyMoves(j) /\ pc'[j] = "spawning"
      BY <2>4 DEF Goto, OnlyMoves, TypeOK
    <3> QED BY <2>1, <2>2, <2>4, <3>1 DEF Proceeds, WaitStep
  <2> QED BY <1>4, <2>3, <2>4 DEF StartWorker, CoordinatorError
<1> QED BY <1>1, <1>2, <1>3, <1>4

\* A cancelled waiter leaves its queue, wherever it stands in it.
LEMMA CancelWait ==
    ASSUME TypeOK, WaitInv, NEW a \in Actors, CancelWaiting(a) PROVE WaitStep(a)
<1> USE SessionOfType, PCFacts
<1>0. PICK l \in Locks : \E i \in 1..Len(waiters[l]) :
         waiters[l][i] = a /\ waiters' = [waiters EXCEPT ![l] = RemoveIndex(@, i)]
  BY DEF CancelWaiting
<1>1. PICK i \in 1..Len(waiters[l]) :
         waiters[l][i] = a /\ waiters' = [waiters EXCEPT ![l] = RemoveIndex(@, i)]
  BY <1>0
<1>2. /\ waiters \in [Locks -> Seq(Actors)] /\ waiters[l] \in Seq(Actors)
      /\ QueueInv /\ NoDup(waiters[l]) /\ WaitsFor(a, l)
  BY <1>1 DEF TypeOK, WaitInv, QueueInv, WaitsFor
<1>3. ASSUME NEW m \in Locks
      PROVE  /\ NoDup(waiters'[m]) /\ ~In(a, waiters'[m])
             /\ \A b \in Actors : In(b, waiters'[m]) => In(b, waiters[m])
  <2>1. CASE m = l
    <3>1. waiters'[m] = RemoveIndex(waiters[l], i)
      BY <1>1, <1>2, <2>1
    <3> QED BY <1>1, <1>2, <2>1, <3>1, RemoveQueue
  <2>2. CASE m # l
    <3>1. waiters'[m] = waiters[m]
      BY <1>1, <1>2, <2>2
    <3>2. ~WaitsFor(a, m)
      BY <1>2, <2>2, OneQueue
    <3> QED BY <1>2, <3>1, <3>2 DEF QueueInv, WaitsFor, In
  <2> QED BY <2>1, <2>2
<1>4. /\ OnlyMoves(a) /\ pc'[a] = "done"
      /\ \A m \in Locks : owner'[m] = owner[m] \/ (owner[m] = a /\ owner'[m] = None)
      /\ a \in Jobs => \A m \in Locks : owner'[m] # a
  <2>1. pc' = [pc EXCEPT ![a] = "done"]
    BY DEF CancelWaiting, Finish, Goto
  <2>2. OnlyMoves(a) /\ pc'[a] = "done"
    BY <2>1 DEF OnlyMoves, TypeOK
  <2>3. CASE a \in Jobs
    <3>1. owner' = Released(a)
      BY <2>3 DEF CancelWaiting, Finish
    <3>2. \A m \in Locks : owner'[m] = IF owner[m] = a THEN None ELSE owner[m]
      BY <3>1 DEF Released
    <3> QED BY <2>2, <2>3, <3>2
  <2>4. CASE a \notin Jobs
    BY <2>2, <2>4 DEF CancelWaiting
  <2> QED BY <2>3, <2>4
<1> QED BY <1>3, <1>4 DEF Quits, WaitStep

LEMMA DestroyerWait ==
    ASSUME TypeOK, WaitInv, NEW d \in Destroyers, CallDestroy(d) \/ Destroy(d)
    PROVE  WaitStep(d)
<1> USE SessionOfType, PCFacts
<1> DEFINE s == SessionOf[d]
<1>1. UNCHANGED owner /\ d \in Actors /\ s \in Locks /\ d \notin Jobs
  BY DEF CallDestroy, Destroy
<1>2. CASE CallDestroy(d)
  <2>1. pc[d] = "idle"
    BY <1>2 DEF CallDestroy
  <2>2. CASE Goto(d, "done") /\ UNCHANGED waiters
    <3>1. OnlyMoves(d) /\ pc'[d] = "done"
      BY <2>2 DEF Goto, OnlyMoves, TypeOK
    <3>2. \A l \in Locks : ~WaitsFor(d, l)
      BY <2>1, NotQueued DEF WaitInv
    <3> QED BY <1>1, <2>1, <2>2, <3>1, <3>2 DEF Proceeds, WaitStep
  <2>3. CASE Goto(d, "wait_session") /\ waiters' = Enqueue(waiters, s, d)
    <3>1. OnlyMoves(d) /\ pc'[d] = "wait_session"
      BY <2>3 DEF Goto, OnlyMoves, TypeOK
    <3> QED BY <1>1, <2>1, <2>3, <3>1 DEF Asks, WaitStep
  <2> QED BY <1>2, <2>2, <2>3 DEF CallDestroy
<1>3. CASE Destroy(d)
  <2>1. Grantable(s, d) /\ waiters' = Dequeue(waiters, s) /\ Goto(d, "done")
    BY <1>3 DEF Destroy
  <2>2. OnlyMoves(d) /\ pc'[d] = "done"
    BY <2>1 DEF Goto, OnlyMoves, TypeOK
  <2> QED BY <1>1, <2>1, <2>2, FinishAtHead DEF WaitStep
<1> QED BY <1>2, <1>3

LEMMA NextWait == TypeOK /\ WaitInv /\ [Next]_vars => WaitInv'
<1> SUFFICES ASSUME TypeOK, WaitInv, [Next]_vars PROVE WaitInv'
  OBVIOUS
<1>1. ASSUME NEW a \in Actors, WaitStep(a) PROVE WaitInv'
  BY <1>1, QuitsKeeps, ProceedsKeeps, AsksKeeps, TakesKeeps DEF WaitStep
<1>2. CASE UNCHANGED << pc, owner, waiters >>
  <2>1. QueueInv' /\ OwnsDeclared' /\ TakenInOrder' /\ Begun' = Begun
    BY <1>2 DEF WaitInv, QueueInv, WaitsFor, Placed, IsNextTarget, Held, OwnsDeclared,
                TakenInOrder, Begun
  <2> QED BY <2>1 DEF WaitInv
<1>3. ASSUME NEW j \in Jobs,
             \/ SpawnThread(j) \/ TerminateThread(j) \/ PipesClose(j)
             \/ WorkerExit(j) \/ DescendantWrites(j)
      PROVE  WaitInv'
  BY <1>2, <1>3 DEF SpawnThread, TerminateThread, PipesClose, WorkerExit, DescendantWrites
<1>4. ASSUME NEW j \in Jobs,
             CallTool(j) \/ JobStep(j) \/ CancelWorking(j) \/ CancelCleanup(j)
      PROVE  WaitInv'
  BY <1>1, <1>4, StartupWait, WorkerWait, SessionOfType DEF JobStep
<1>5. ASSUME NEW a \in Actors, CancelWaiting(a) PROVE WaitInv'
  BY <1>1, <1>5, CancelWait
<1>6. ASSUME NEW d \in Destroyers, CallDestroy(d) \/ Destroy(d) PROVE WaitInv'
  BY <1>1, <1>6, DestroyerWait, SessionOfType
<1> QED BY <1>2, <1>3, <1>4, <1>5, <1>6 DEF Next, Quiescent, vars

LEMMA InitWait == Init => WaitInv
<1> SUFFICES ASSUME Init PROVE WaitInv
  OBVIOUS
<1> USE SessionOfType, PCFacts
<1>1. /\ \A l \in Locks : waiters[l] = << >> /\ owner[l] = None
      /\ \A a \in Actors : pc[a] = "idle"
  BY DEF Init
<1>2. QueueInv
  BY <1>1 DEF QueueInv, NoDup, WaitsFor
<1>3. OwnsDeclared /\ TakenInOrder
  BY <1>1 DEF OwnsDeclared, TakenInOrder, Held
<1>4. Begun = {}
  BY <1>1 DEF Begun
<1> QED BY <1>2, <1>3, <1>4, FS_EmptySet DEF WaitInv

\* A job that holds what somebody waits for waits, if at all, for a larger target.
LEMMA WaitsUpwards ==
    ASSUME WaitInv, NEW j \in Jobs, NEW t \in Targets, owner[t] = j,
           NEW u \in Targets, WaitsFor(j, u)
    PROVE  t < u
<1>1. Placed(j, u)
  BY SessionOfType DEF WaitInv, QueueInv
<1>2. u \in OutputsOf[j] \ Held(j)
  BY <1>1 DEF Placed, IsNextTarget
<1>3. t \in Held(j)
  BY DEF WaitInv, OwnsDeclared, Held
<1> QED BY <1>2, <1>3 DEF WaitInv, TakenInOrder

LEMMA NoCycle == WaitInv => NoWaitCycle
<1> SUFFICES ASSUME WaitInv, NEW S \in (SUBSET Jobs) \ {{}},
                    \A j \in S : \E t \in Targets : WaitsFor(j, t) /\ owner[t] \in S
             PROVE  FALSE
  BY DEF NoWaitCycle
<1> DEFINE w(j) == CHOOSE t \in Targets : WaitsFor(j, t) /\ owner[t] \in S
           above(j) == { i \in S : w(i) > w(j) }
           N == { Cardinality(above(j)) : j \in S }
<1>1. \A j \in S : w(j) \in Targets /\ WaitsFor(j, w(j)) /\ owner[w(j)] \in S /\ w(j) \in Nat
  BY ConstantsAssumption
<1>2. \A j \in S : w(j) < w(owner[w(j)])
  BY <1>1, WaitsUpwards
<1>3. IsFiniteSet(S)
  <2>1. S \in SUBSET Begun
    <3> SUFFICES ASSUME NEW j \in S PROVE pc[j] # "idle"
      BY SessionOfType DEF Begun
    <3>1. Placed(j, w(j)) /\ w(j) \in Targets
      BY <1>1, SessionOfType DEF WaitInv, QueueInv
    <3> QED BY <3>1 DEF Placed
  <2> QED BY <2>1, FS_Subset DEF WaitInv
<1> HIDE DEF w
<1>4. ASSUME NEW j \in S PROVE IsFiniteSet(above(j)) /\ Cardinality(above(j)) \in Nat
  <2>1. above(j) \in SUBSET S
    OBVIOUS
  <2> QED BY <1>3, <2>1, FS_Subset, FS_CardinalityType
<1>5. N \in SUBSET Nat /\ N # {}
  BY <1>4
<1>6. PICK k \in N : \A y \in N : ~(<< y, k >> \in OpToRel(<, Nat))
  <2> HIDE DEF N
  <2> QED BY <1>5, NatLessThanWellFounded, WFMin, Zenon
<1>7. PICK j \in S : k = Cardinality(above(j))
  OBVIOUS
<1> DEFINE i == owner[w(j)]
<1>8. i \in S /\ w(j) < w(i) /\ w(i) \in Nat /\ w(j) \in Nat
  BY <1>1, <1>2
<1>9. above(i) \in SUBSET above(j) /\ i \in above(j) /\ i \notin above(i)
  BY <1>1, <1>8
<1> HIDE DEF above, i
<1>10. Cardinality(above(i)) < Cardinality(above(j))
  <2>1. /\ Cardinality(above(i)) <= Cardinality(above(j))
        /\ Cardinality(above(j)) = Cardinality(above(i)) => above(j) = above(i)
    BY <1>4, <1>9, FS_Subset
  <2>2. Cardinality(above(i)) \in Nat /\ Cardinality(above(j)) \in Nat
    BY <1>4, <1>8
  <2> QED BY <1>9, <2>1, <2>2
<1>11. Cardinality(above(i)) \in N /\ Cardinality(above(i)) \in Nat /\ k \in Nat
  BY <1>4, <1>5, <1>8
<1>12. << Cardinality(above(i)), k >> \in OpToRel(<, Nat)
  BY <1>7, <1>10, <1>11 DEF OpToRel
<1> QED BY <1>6, <1>11, <1>12

\* Output locks never deadlock, for any number of calls, sessions and targets
\* and whoever is cancelled while it waits: following who waits for whom goes
\* up in the order of the paths.
THEOREM OutputLocksDoNotDeadlock == Spec => []NoWaitCycle
BY InitWait, NextWait, NoCycle, TypeCorrect, PTL DEF Spec
=============================================================================
