---------------------- MODULE OutputPublicationProofs ----------------------
(***************************************************************************)
(* Proofs about OutputPublication for every number of outputs and every set *)
(* of failures.  The first part holds whatever fails and whenever the      *)
(* parent is killed, the second until the undoing itself fails.            *)
(***************************************************************************)
EXTENDS OutputPublication, TLAPS

LEMMA InitTypeOK == Init => TypeOK
<1> SUFFICES ASSUME Init PROVE TypeOK
  OBVIOUS
<1>1. i \in 1..(N + 1)
  BY ConstantsAssumption DEF Init
<1>2. dir \in BOOLEAN /\ lapsed \in BOOLEAN
  BY DEF Init
<1>3. target \in [Stages -> { "absent", "original", "new" }]
  BY DEF Init
<1> QED BY <1>1, <1>2, <1>3 DEF Init, TypeOK, PCs, Phases, Stages

\* Between the two renames of a stage its target is empty.
RenameEmpty == pc = "rename" => i \in Stages /\ target[i] = "absent"

LEMMA NextTypeOK == TypeOK /\ RenameEmpty /\ [Next]_vars => TypeOK'
<1> SUFFICES ASSUME TypeOK, RenameEmpty, [Next]_vars PROVE TypeOK'
  OBVIOUS
<1>0. lapsed' \in BOOLEAN
  BY DEF TypeOK, Next, vars
<1> USE <1>0, ConstantsAssumption DEF TypeOK
<1>1. CASE JournalPublishing
  BY <1>1 DEF JournalPublishing, GiveUp, PCs, Phases, Stages
<1>2. CASE SkipStage
  BY <1>2 DEF SkipStage, PCs, Phases, Stages
<1>3. CASE BackupTarget
  BY <1>3 DEF BackupTarget, PCs, Phases, Stages
<1>4. CASE RenameStaged
  <2>1. i \in Stages
    BY <1>4 DEF RenameStaged, RenameEmpty
  <2>2. i' \in 1..(N + 1)
    BY <1>4, <2>1 DEF RenameStaged, Stages
  <2>3. target' \in [Stages -> { "absent", "original", "new" }]
    BY <1>4, <2>1 DEF RenameStaged
  <2>4. staged' \subseteq Stages /\ touched' \subseteq Stages
    BY <1>4, <2>1 DEF RenameStaged
  <2> QED BY <1>4, <2>2, <2>3, <2>4 DEF RenameStaged, PCs
<1>5. CASE JournalCommitting
  BY <1>5 DEF JournalCommitting, GiveUp, PCs, Phases, Stages
<1>6. CASE CommitState
  BY <1>6 DEF CommitState, PCs, Phases, Stages
<1>7. CASE CommitEvent
  BY <1>7 DEF CommitEvent, PCs, Phases, Stages
<1>8. CASE JournalCommitted
  BY <1>8 DEF JournalCommitted, PCs, Phases, Stages
<1>9. CASE RestoreState
  BY <1>9 DEF RestoreState, GiveUp, PCs, Phases, Stages
<1>10. CASE RollbackRemove
  BY <1>10 DEF RollbackRemove, GiveUp, PCs, Phases, Stages
<1>11. CASE RollbackPutBack
  BY <1>11 DEF RollbackPutBack, GiveUp, PCs, Phases, Stages
<1>12. CASE RollbackEnds
  BY <1>12 DEF RollbackEnds, GiveUp, PCs, Phases, Stages
<1>13. CASE Cleanup
  BY <1>13 DEF Cleanup, PCs, Phases, Stages
<1>14. CASE Crash
  BY <1>14 DEF Crash, PCs, Phases, Stages
<1>15. CASE Recover
  BY <1>15 DEF Recover, PCs, Phases, Stages
<1>16. CASE UNCHANGED vars
  BY <1>16 DEF vars
<1> QED BY <1>1, <1>2, <1>3, <1>4, <1>5, <1>6, <1>7, <1>8, <1>9, <1>10, <1>11,
           <1>12, <1>13, <1>14, <1>15, <1>16 DEF Next, Step, Ended, vars

-----------------------------------------------------------------------------
(* What holds whatever fails and whenever the parent is killed.             *)

\* A backup is the original of its target.
BackupsAreOriginals == \A k \in backup : before[k] = "original"

\* What stands at a target as the original is the original.
TargetsAreOriginals == \A k \in Stages : target[k] = "original" => before[k] = "original"

\* Whatever rollback is going to remove has its original in backups/.
TouchedCovered == dir => \A k \in touched : before[k] = "original" => k \in backup

\* An outcome is there only once the finally clause is reached.
OutcomeLate ==
    outcome # "pending" => pc \in { "cleanup", "done", "crashed", "recovered" }

FindableInv ==
    /\ BackupsAreOriginals /\ TargetsAreOriginals
    /\ RenameEmpty /\ TouchedCovered /\ OutcomeLate /\ OriginalsFindable

LEMMA InitFindable == Init => FindableInv
BY DEF Init, FindableInv, BackupsAreOriginals, TargetsAreOriginals, RenameEmpty,
       TouchedCovered, OutcomeLate, OriginalsFindable

LEMMA NextFindable == TypeOK /\ FindableInv /\ [Next]_vars => FindableInv'
<1> SUFFICES ASSUME TypeOK, FindableInv, [Next]_vars PROVE FindableInv'
  OBVIOUS
<1> USE DEF FindableInv, TypeOK, BackupsAreOriginals, TargetsAreOriginals,
        RenameEmpty, TouchedCovered, OutcomeLate, OriginalsFindable
<1>1. CASE JournalPublishing
  BY <1>1 DEF JournalPublishing, GiveUp
<1>2. CASE SkipStage
  BY <1>2 DEF SkipStage
<1>3. CASE BackupTarget
  BY <1>3 DEF BackupTarget
<1>4. CASE RenameStaged
  <2>1. i \in Stages /\ target[i] = "absent" /\ outcome # "completed"
    BY <1>4 DEF RenameStaged
  <2>2. dir /\ before[i] = "original" => i \in backup
    BY <2>1
  <2>3. CASE UNCHANGED << target, touched >>
    BY <1>4, <2>3 DEF RenameStaged
  <2>4. CASE target' = [target EXCEPT ![i] = "new"] /\ touched' = touched \cup {i}
    BY <1>4, <2>1, <2>2, <2>4 DEF RenameStaged
  <2> QED BY <1>4, <2>3, <2>4 DEF RenameStaged
<1>5. CASE JournalCommitting
  BY <1>5 DEF JournalCommitting, GiveUp
<1>6. CASE CommitState
  BY <1>6 DEF CommitState
<1>7. CASE CommitEvent
  BY <1>7 DEF CommitEvent
<1>8. CASE JournalCommitted
  BY <1>8 DEF JournalCommitted
<1>9. CASE RestoreState
  BY <1>9 DEF RestoreState, GiveUp
<1>10. CASE RollbackRemove
  BY <1>10 DEF RollbackRemove, GiveUp
<1>11. CASE RollbackPutBack
  BY <1>11 DEF RollbackPutBack, GiveUp
<1>12. CASE RollbackEnds
  BY <1>12 DEF RollbackEnds, GiveUp
<1>13. CASE Cleanup
  BY <1>13 DEF Cleanup
<1>14. CASE Crash
  BY <1>14 DEF Crash
<1>15. CASE Recover
  BY <1>15 DEF Recover
<1>16. CASE UNCHANGED vars
  BY <1>16 DEF vars
<1> QED BY <1>1, <1>2, <1>3, <1>4, <1>5, <1>6, <1>7, <1>8, <1>9, <1>10, <1>11,
           <1>12, <1>13, <1>14, <1>15, <1>16 DEF Next, Step, Ended, vars

LEMMA Findable == Spec => [](TypeOK /\ FindableInv)
<1>1. FindableInv => RenameEmpty
  BY DEF FindableInv
<1> QED BY <1>1, InitTypeOK, NextTypeOK, InitFindable, NextFindable, PTL DEF Spec

\* Whatever fails and whenever the parent is killed, the original of a target
\* is at the target or in backups/ as long as the staging directory exists.
THEOREM OriginalsAreFindable == Spec => []OriginalsFindable
<1>1. FindableInv => OriginalsFindable
  BY DEF FindableInv
<1> QED BY <1>1, Findable, PTL

-----------------------------------------------------------------------------
(* Until a failure meets the undoing itself.                                *)

\* What a committed job leaves at a target.
Final(k) == IF k \in wanted THEN "new" ELSE before[k]

Published == \A k \in Stages : target[k] = Final(k)

\* Only the stages in `touched` differ from what was there before.
UntouchedSame == \A k \in Stages \ touched : target[k] = before[k]

\* The stages below the index are published, those above it untouched.
LoopInv ==
    /\ pc = "publish" => \A k \in touched : k < i
    /\ pc = "rename" => i \in staged /\ \A k \in touched : k <= i
    /\ pc \in { "start", "publish", "rename" } =>
          /\ \A k \in Stages : k < i => target[k] = Final(k)
          /\ \A k \in Stages : k >= i => (k \in staged <=> k \in wanted)
    /\ pc \in { "commit", "event", "finish" } => Published

\* The stage being rolled back has been removed.
PutBackEmpty == pc = "put_back" => \A k \in touched : IsLast(k) => target[k] = "absent"

\* The session state goes with the point the coordinator has reached.
StateFollows ==
    /\ pc \in { "start", "publish", "rename", "commit", "rollback", "put_back" } =>
          state = "old"
    /\ pc \in { "event", "finish" } => state = "new"

\* What an outcome says of the targets and of the state.
OutcomeTrue ==
    /\ pc = "start" => i = 1 /\ touched = {}
    /\ pc \in { "cleanup", "done" } => outcome # "pending"
    /\ outcome = "error" => touched = {} /\ state = "old"
    /\ outcome = "completed" => Published /\ state = "new"
    /\ dir <=> pc # "done"
    /\ pc # "recovered"

AtomicInv ==
    /\ UntouchedSame /\ LoopInv /\ PutBackEmpty /\ StateFollows /\ OutcomeTrue

LEMMA InitAtomic == Init => AtomicInv
BY DEF Init, AtomicInv, UntouchedSame, LoopInv, Published, PutBackEmpty,
       StateFollows, OutcomeTrue, Final, Stages

LEMMA NextUntouched ==
    ~Lapses /\ TypeOK /\ FindableInv /\ AtomicInv /\ [Next]_vars => UntouchedSame'
<1> SUFFICES ASSUME ~Lapses, TypeOK, FindableInv, AtomicInv, [Next]_vars
             PROVE  UntouchedSame'
  OBVIOUS
<1> USE DEF Lapses, TypeOK, AtomicInv, UntouchedSame, PutBackEmpty, OutcomeTrue,
        FindableInv, BackupsAreOriginals, TouchedCovered, RenameEmpty
<1>1. CASE JournalPublishing
  BY <1>1 DEF JournalPublishing, GiveUp
<1>2. CASE SkipStage
  BY <1>2 DEF SkipStage
<1>3. CASE BackupTarget
  BY <1>3 DEF BackupTarget
<1>4. CASE RenameStaged
  BY <1>4 DEF RenameStaged
<1>5. CASE JournalCommitting
  BY <1>5 DEF JournalCommitting, GiveUp
<1>6. CASE CommitState
  BY <1>6 DEF CommitState
<1>7. CASE CommitEvent
  BY <1>7 DEF CommitEvent
<1>8. CASE JournalCommitted
  BY <1>8 DEF JournalCommitted
<1>9. CASE RestoreState
  BY <1>9 DEF RestoreState, GiveUp
<1>10. CASE RollbackRemove
  BY <1>10 DEF RollbackRemove, GiveUp
<1>11. CASE RollbackPutBack
  BY <1>11 DEF RollbackPutBack, GiveUp
<1>12. CASE RollbackEnds
  BY <1>12 DEF RollbackEnds, GiveUp
<1>13. CASE Cleanup
  BY <1>13 DEF Cleanup
<1>14. CASE Crash
  BY <1>14 DEF Crash
<1>15. CASE Recover
  BY <1>15 DEF Recover
<1>16. CASE UNCHANGED vars
  BY <1>16 DEF vars
<1> QED BY <1>1, <1>2, <1>3, <1>4, <1>5, <1>6, <1>7, <1>8, <1>9, <1>10, <1>11,
           <1>12, <1>13, <1>14, <1>15, <1>16 DEF Next, Step, Ended, vars

LEMMA NextLoop ==
    ~Lapses /\ TypeOK /\ FindableInv /\ AtomicInv /\ [Next]_vars => LoopInv'
<1> SUFFICES ASSUME ~Lapses, TypeOK, FindableInv, AtomicInv, [Next]_vars
             PROVE  LoopInv'
  OBVIOUS
<1> USE ConstantsAssumption DEF Lapses, TypeOK, AtomicInv, UntouchedSame, LoopInv, OutcomeTrue,
        Published, Final, Stages, FindableInv, RenameEmpty
<1>1. CASE JournalPublishing
  BY <1>1 DEF JournalPublishing, GiveUp
<1>2. CASE SkipStage
  BY <1>2 DEF SkipStage
<1>3. CASE BackupTarget
  <2>1. pc' = "rollback" \/ (pc' = "rename" /\ i' = i /\ staged' = staged)
    BY <1>3 DEF BackupTarget
  <2>2. \A k \in Stages : k # i => target'[k] = target[k]
    BY <1>3 DEF BackupTarget
  <2>3. touched' \subseteq touched \cup {i}
    BY <1>3 DEF BackupTarget
  <2>4. wanted' = wanted /\ before' = before /\ i \in staged /\ pc = "publish"
    BY <1>3 DEF BackupTarget
  <2>5. CASE pc' = "rename"
    <3>1. \A k \in touched' : k <= i'
      BY <2>1, <2>3, <2>4, <2>5
    <3>2. \A k \in Stages : k < i' => target'[k] = Final(k)'
      BY <2>1, <2>2, <2>4, <2>5
    <3> QED BY <2>1, <2>4, <2>5, <3>1, <3>2
  <2> QED BY <2>1, <2>5
<1>4. CASE RenameStaged
  <2>1. CASE pc' = "rollback"
    BY <2>1
  <2>2. CASE pc' = "publish"
    <3>1. /\ i' = i + 1 /\ target' = [target EXCEPT ![i] = "new"]
          /\ staged' = staged \ {i} /\ touched' = touched \cup {i}
          /\ wanted' = wanted /\ before' = before /\ pc = "rename"
      BY <1>4, <2>2 DEF RenameStaged
    <3>2. i \in Stages /\ i \in wanted
      BY <3>1
    <3>3. \A k \in touched' : k < i'
      BY <3>1, <3>2
    <3>4. \A k \in Stages : k < i' => target'[k] = Final(k)'
      <4> SUFFICES ASSUME NEW k \in Stages, k < i' PROVE target'[k] = Final(k)'
        OBVIOUS
      <4>1. CASE k = i
        BY <3>1, <3>2, <4>1
      <4>2. CASE k < i
        BY <3>1, <3>2, <4>2
      <4> QED BY <3>1, <4>1, <4>2
    <3>5. \A k \in Stages : k >= i' => (k \in staged' <=> k \in wanted')
      BY <3>1, <3>2
    <3> QED BY <2>2, <3>3, <3>4, <3>5
  <2> QED BY <1>4, <2>1, <2>2 DEF RenameStaged
<1>5. CASE JournalCommitting
  <2>1. CASE pc' = "cleanup"
    BY <2>1
  <2>2. CASE pc' = "commit"
    <3>1. i = N + 1 /\ pc = "publish" /\ UNCHANGED << target, wanted, before >>
      BY <1>5 DEF JournalCommitting
    <3>2. \A k \in Stages : k < i
      BY <3>1
    <3>3. \A k \in Stages : target[k] = Final(k)
      BY <3>1, <3>2
    <3>4. Published'
      BY <3>1, <3>3
    <3> QED BY <2>2, <3>4
  <2> QED BY <1>5, <2>1, <2>2 DEF JournalCommitting, GiveUp
<1>6. CASE CommitState
  BY <1>6 DEF CommitState
<1>7. CASE CommitEvent
  BY <1>7 DEF CommitEvent
<1>8. CASE JournalCommitted
  BY <1>8 DEF JournalCommitted
<1>9. CASE RestoreState
  BY <1>9 DEF RestoreState, GiveUp
<1>10. CASE RollbackRemove
  BY <1>10 DEF RollbackRemove, GiveUp
<1>11. CASE RollbackPutBack
  BY <1>11 DEF RollbackPutBack, GiveUp
<1>12. CASE RollbackEnds
  BY <1>12 DEF RollbackEnds, GiveUp
<1>13. CASE Cleanup
  BY <1>13 DEF Cleanup
<1>14. CASE Crash
  BY <1>14 DEF Crash
<1>15. CASE Recover
  BY <1>15 DEF Recover
<1>16. CASE UNCHANGED vars
  BY <1>16 DEF vars
<1> QED BY <1>1, <1>2, <1>3, <1>4, <1>5, <1>6, <1>7, <1>8, <1>9, <1>10, <1>11,
           <1>12, <1>13, <1>14, <1>15, <1>16 DEF Next, Step, Ended, vars

LEMMA NextPutBack ==
    ~Lapses /\ TypeOK /\ FindableInv /\ AtomicInv /\ [Next]_vars => PutBackEmpty'
<1> SUFFICES ASSUME ~Lapses, TypeOK, FindableInv, AtomicInv, [Next]_vars
             PROVE  PutBackEmpty'
  OBVIOUS
<1> USE DEF Lapses, TypeOK, AtomicInv, PutBackEmpty, IsLast
<1>1. CASE JournalPublishing
  BY <1>1 DEF JournalPublishing, GiveUp
<1>2. CASE SkipStage
  BY <1>2 DEF SkipStage
<1>3. CASE BackupTarget
  BY <1>3 DEF BackupTarget
<1>4. CASE RenameStaged
  BY <1>4 DEF RenameStaged
<1>5. CASE JournalCommitting
  BY <1>5 DEF JournalCommitting, GiveUp
<1>6. CASE CommitState
  BY <1>6 DEF CommitState
<1>7. CASE CommitEvent
  BY <1>7 DEF CommitEvent
<1>8. CASE JournalCommitted
  BY <1>8 DEF JournalCommitted
<1>9. CASE RestoreState
  BY <1>9 DEF RestoreState, GiveUp
<1>10. CASE RollbackRemove
  <2>1. PICK k \in touched : IsLast(k) /\ (pc' = "put_back" => target' = [target EXCEPT ![k] = "absent"])
    BY <1>10 DEF RollbackRemove, GiveUp
  <2>2. touched' = touched
    BY <1>10 DEF RollbackRemove
  <2>3. \A l \in touched : IsLast(l) => l = k
    BY <2>1 DEF Stages
  <2> QED BY <2>1, <2>2, <2>3
<1>11. CASE RollbackPutBack
  BY <1>11 DEF RollbackPutBack, GiveUp
<1>12. CASE RollbackEnds
  BY <1>12 DEF RollbackEnds, GiveUp
<1>13. CASE Cleanup
  BY <1>13 DEF Cleanup
<1>14. CASE Crash
  BY <1>14 DEF Crash
<1>15. CASE Recover
  BY <1>15 DEF Recover
<1>16. CASE UNCHANGED vars
  BY <1>16 DEF vars
<1> QED BY <1>1, <1>2, <1>3, <1>4, <1>5, <1>6, <1>7, <1>8, <1>9, <1>10, <1>11,
           <1>12, <1>13, <1>14, <1>15, <1>16 DEF Next, Step, Ended, vars

LEMMA NextState ==
    ~Lapses /\ TypeOK /\ FindableInv /\ AtomicInv /\ [Next]_vars => StateFollows'
<1> SUFFICES ASSUME ~Lapses, TypeOK, FindableInv, AtomicInv, [Next]_vars
             PROVE  StateFollows'
  OBVIOUS
<1> USE DEF Lapses, TypeOK, AtomicInv, StateFollows
<1>1. CASE JournalPublishing
  BY <1>1 DEF JournalPublishing, GiveUp
<1>2. CASE SkipStage
  BY <1>2 DEF SkipStage
<1>3. CASE BackupTarget
  BY <1>3 DEF BackupTarget
<1>4. CASE RenameStaged
  BY <1>4 DEF RenameStaged
<1>5. CASE JournalCommitting
  BY <1>5 DEF JournalCommitting, GiveUp
<1>6. CASE CommitState
  BY <1>6 DEF CommitState
<1>7. CASE CommitEvent
  BY <1>7 DEF CommitEvent
<1>8. CASE JournalCommitted
  BY <1>8 DEF JournalCommitted
<1>9. CASE RestoreState
  BY <1>9 DEF RestoreState, GiveUp
<1>10. CASE RollbackRemove
  BY <1>10 DEF RollbackRemove, GiveUp
<1>11. CASE RollbackPutBack
  BY <1>11 DEF RollbackPutBack, GiveUp
<1>12. CASE RollbackEnds
  BY <1>12 DEF RollbackEnds, GiveUp
<1>13. CASE Cleanup
  BY <1>13 DEF Cleanup
<1>14. CASE Crash
  BY <1>14 DEF Crash
<1>15. CASE Recover
  BY <1>15 DEF Recover
<1>16. CASE UNCHANGED vars
  BY <1>16 DEF vars
<1> QED BY <1>1, <1>2, <1>3, <1>4, <1>5, <1>6, <1>7, <1>8, <1>9, <1>10, <1>11,
           <1>12, <1>13, <1>14, <1>15, <1>16 DEF Next, Step, Ended, vars

LEMMA NextOutcome ==
    ~Lapses /\ TypeOK /\ FindableInv /\ AtomicInv /\ [Next]_vars => OutcomeTrue'
<1> SUFFICES ASSUME ~Lapses, TypeOK, FindableInv, AtomicInv, [Next]_vars
             PROVE  OutcomeTrue'
  OBVIOUS
<1> USE DEF Lapses, TypeOK, AtomicInv, LoopInv, UntouchedSame, StateFollows,
        OutcomeTrue, Published, Final, FindableInv, OutcomeLate
<1>1. CASE JournalPublishing
  BY <1>1 DEF JournalPublishing, GiveUp
<1>2. CASE SkipStage
  BY <1>2 DEF SkipStage
<1>3. CASE BackupTarget
  BY <1>3 DEF BackupTarget
<1>4. CASE RenameStaged
  BY <1>4 DEF RenameStaged
<1>5. CASE JournalCommitting
  BY <1>5 DEF JournalCommitting, GiveUp
<1>6. CASE CommitState
  BY <1>6 DEF CommitState
<1>7. CASE CommitEvent
  BY <1>7 DEF CommitEvent
<1>8. CASE JournalCommitted
  BY <1>8 DEF JournalCommitted
<1>9. CASE RestoreState
  BY <1>9 DEF RestoreState, GiveUp
<1>10. CASE RollbackRemove
  BY <1>10 DEF RollbackRemove, GiveUp
<1>11. CASE RollbackPutBack
  BY <1>11 DEF RollbackPutBack, GiveUp
<1>12. CASE RollbackEnds
  BY <1>12 DEF RollbackEnds, GiveUp
<1>13. CASE Cleanup
  BY <1>13 DEF Cleanup
<1>14. CASE Crash
  BY <1>14 DEF Crash
<1>15. CASE Recover
  BY <1>15 DEF Recover
<1>16. CASE UNCHANGED vars
  BY <1>16 DEF vars
<1> QED BY <1>1, <1>2, <1>3, <1>4, <1>5, <1>6, <1>7, <1>8, <1>9, <1>10, <1>11,
           <1>12, <1>13, <1>14, <1>15, <1>16 DEF Next, Step, Ended, vars

AtomicUntilLapse == lapsed \/ AtomicInv

LEMMA Atomicity == Spec => [](TypeOK /\ FindableInv /\ AtomicUntilLapse)
<1>1. Init => AtomicUntilLapse
  BY InitAtomic DEF AtomicUntilLapse
<1>2. TypeOK /\ FindableInv /\ AtomicUntilLapse /\ [Next]_vars => AtomicUntilLapse'
  <2> SUFFICES ASSUME TypeOK, FindableInv, AtomicUntilLapse, [Next]_vars, ~lapsed'
               PROVE  AtomicInv'
    BY DEF AtomicUntilLapse
  <2>1. CASE Next
    <3>1. ~lapsed /\ ~Lapses
      BY <2>1 DEF Next
    <3> QED BY <3>1, NextUntouched, NextLoop, NextPutBack, NextState, NextOutcome
            DEF AtomicUntilLapse, AtomicInv
  <2>2. CASE UNCHANGED vars
    BY <2>2 DEF AtomicUntilLapse, AtomicInv, UntouchedSame, LoopInv, Published, Final,
                PutBackEmpty, IsLast, StateFollows, OutcomeTrue, vars
  <2> QED BY <2>1, <2>2
<1> QED BY <1>1, <1>2, Findable, PTL DEF Spec

\* A job that returned published all outputs and its state, or neither, for
\* every number of outputs, failure and kill, as long as neither the restore
\* nor the rollback itself fails.
THEOREM PublicationIsAtomic == Spec => []AtomicAtEnd
<1>1. TypeOK /\ FindableInv /\ AtomicUntilLapse => AtomicAtEnd
  <2> SUFFICES ASSUME TypeOK, FindableInv, AtomicInv, pc = "done" PROVE AtomicAtEnd
    BY DEF AtomicAtEnd, AtomicUntilLapse
  <2>1. CASE outcome = "completed"
    BY <2>1 DEF AtomicInv, OutcomeTrue, Published, Final, AtomicAtEnd
  <2>2. CASE outcome = "error"
    <3>1. touched = {} /\ state = "old"
      BY <2>2 DEF AtomicInv, OutcomeTrue
    <3>2. target = before
      BY <3>1 DEF AtomicInv, UntouchedSame, TypeOK
    <3> QED BY <2>2, <3>1, <3>2 DEF AtomicAtEnd
  <2> QED BY <2>1, <2>2 DEF AtomicInv, OutcomeTrue, TypeOK
<1> QED BY <1>1, Atomicity, PTL

LEMMA ViewBefore ==
    TypeOK /\ FindableInv /\ AtomicInv /\ outcome # "completed" =>
        RecoverableView = before
<1> SUFFICES ASSUME TypeOK, FindableInv, AtomicInv, outcome # "completed"
             PROVE  RecoverableView = before
  OBVIOUS
<1>1. CASE dir
  <2>1. \A k \in Stages : RecoverableView[k] = before[k]
    BY <1>1 DEF RecoverableView, TypeOK, FindableInv, BackupsAreOriginals, OriginalsFindable
  <2> QED BY <2>1 DEF RecoverableView, TypeOK
<1>2. CASE ~dir
  <2>1. touched = {}
    BY <1>2 DEF AtomicInv, OutcomeTrue, TypeOK
  <2>2. \A k \in Stages : RecoverableView[k] = before[k]
    BY <1>2, <2>1 DEF RecoverableView, TypeOK, AtomicInv, UntouchedSame
  <2> QED BY <2>2 DEF RecoverableView, TypeOK
<1> QED BY <1>1, <1>2 DEF TypeOK

LEMMA ViewBeforeNext ==
    (TypeOK /\ FindableInv /\ AtomicInv /\ outcome # "completed" =>
        RecoverableView = before)'
BY ViewBefore, PTL

LEMMA ViewAfter ==
    ASSUME TypeOK, outcome = "completed"
    PROVE  RecoverableView = target
BY DEF RecoverableView, TypeOK

LEMMA StepRefines ==
    ASSUME TypeOK, FindableInv, AtomicInv, TypeOK', FindableInv', AtomicInv', [Next]_vars
    PROVE  [Atomic!Next]_<< RecoverableView, wanted, outcome >>
<1>1. wanted' = wanted /\ before' = before
  BY DEF Next, Step, vars, JournalPublishing, SkipStage, BackupTarget, RenameStaged,
         JournalCommitting, CommitState, CommitEvent, JournalCommitted, RestoreState,
         RollbackRemove, RollbackPutBack, RollbackEnds, Cleanup, Crash, Recover, Ended
<1>2. CASE outcome = "completed"
  <2>1. outcome' = outcome /\ target' = target
    BY <1>2 DEF FindableInv, OutcomeLate, AtomicInv, OutcomeTrue,
            Next, Step, vars, JournalPublishing, SkipStage, BackupTarget, RenameStaged,
            JournalCommitting, CommitState, CommitEvent, JournalCommitted, RestoreState,
            RollbackRemove, RollbackPutBack, RollbackEnds, Cleanup, Crash, Recover, Ended
  <2>2. RecoverableView = target /\ RecoverableView' = target'
    BY <1>2, <2>1, ViewAfter DEF RecoverableView, TypeOK
  <2> QED BY <1>1, <2>1, <2>2
<1>3. CASE outcome # "completed" /\ outcome' # "completed"
  <2>1. RecoverableView = before
    BY <1>3, ViewBefore
  <2>2. RecoverableView' = before'
    BY <1>3, ViewBeforeNext
  <2>3. outcome' = outcome \/ (outcome = "pending" /\ outcome' = "error")
    BY <1>3 DEF TypeOK, FindableInv, OutcomeLate,
            Next, Step, vars, JournalPublishing, SkipStage, BackupTarget, RenameStaged,
            JournalCommitting, CommitState, CommitEvent, JournalCommitted, RestoreState,
            RollbackRemove, RollbackPutBack, RollbackEnds, Cleanup, Crash, Recover, Ended, GiveUp
  <2> QED BY <1>1, <2>1, <2>2, <2>3 DEF Atomic!Next, Atomic!Abort
<1>4. CASE outcome # "completed" /\ outcome' = "completed"
  <2>1. RecoverableView = before
    BY <1>4, ViewBefore
  <2>2. outcome = "pending"
    BY <1>4 DEF TypeOK, FindableInv, OutcomeLate,
            Next, Step, vars, JournalPublishing, SkipStage, BackupTarget, RenameStaged,
            JournalCommitting, CommitState, CommitEvent, JournalCommitted, RestoreState,
            RollbackRemove, RollbackPutBack, RollbackEnds, Cleanup, Crash, Recover, Ended, GiveUp
  <2>3. RecoverableView' = target'
    BY <1>4 DEF RecoverableView, TypeOK
  <2>4. target' = [k \in Stages |-> IF k \in wanted THEN "new" ELSE before[k]]
    BY <1>1, <1>4 DEF AtomicInv, OutcomeTrue, Published, Final, TypeOK
  <2> QED BY <1>1, <1>4, <2>1, <2>2, <2>3, <2>4 DEF Atomic!Next, Atomic!Commit
<1> QED BY <1>2, <1>3, <1>4

\* The file operations implement publication in one step: every step of the
\* coordinator is the abstract commit, the abstract abort, or invisible, until
\* the undoing itself fails.
THEOREM PublicationRefines == Spec => PublishesAtomically
<1>1. Init => Atomic!Init
  <2> SUFFICES ASSUME Init PROVE Atomic!Init
    OBVIOUS
  <2>1. TypeOK /\ FindableInv /\ AtomicInv /\ outcome = "pending"
    BY InitTypeOK, InitFindable, InitAtomic DEF Init
  <2>2. RecoverableView = before
    BY <2>1, ViewBefore
  <2> QED BY <2>1, <2>2 DEF Atomic!Init, TypeOK
<1>2. (TypeOK /\ FindableInv /\ AtomicUntilLapse) /\ (TypeOK /\ FindableInv /\ AtomicUntilLapse)'
         /\ [Next]_vars => [lapsed' \/ Atomic!Next]_<< RecoverableView, wanted, outcome >>
  <2> SUFFICES ASSUME TypeOK, FindableInv, AtomicUntilLapse,
                      TypeOK', FindableInv', AtomicUntilLapse', [Next]_vars, ~lapsed'
               PROVE  [Atomic!Next]_<< RecoverableView, wanted, outcome >>
    OBVIOUS
  <2>1. ~lapsed
    BY DEF Next, vars
  <2> QED BY <2>1, StepRefines DEF AtomicUntilLapse
<1> QED BY <1>1, <1>2, Atomicity, PTL DEF Spec, PublishesAtomically
=============================================================================
