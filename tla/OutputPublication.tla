-------------------------- MODULE OutputPublication --------------------------
(***************************************************************************)
(* How one job's outputs are published: _commit_worker_response,           *)
(* _publish_staged_outputs, _rollback_published_outputs and the removal of *)
(* the staging directory (zaptrace/agent/execution.py), one file-system    *)
(* operation per step, with the parent process killed between any two.     *)
(* ToolExecution takes all of this as one step.                            *)
(***************************************************************************)
EXTENDS Integers

CONSTANTS
    N,       \* number of declared outputs
    Faults,  \* the operations that may raise, see FaultKinds
    Operator \* TRUE when somebody clears abandoned directories

Stages == 1..N

FaultKinds ==
    { "publishing_journal", "backup", "rename", "committing_journal", "state",
      "event", "committed_journal", "restore", "rollback" }

ASSUME ConstantsAssumption ==
    N \in Nat /\ Faults \subseteq FaultKinds /\ Operator \in BOOLEAN

VARIABLES
    pc,       \* the next operation of the coordinator
    i,        \* loop index of _publish_staged_outputs
    target,   \* content of each output's target path
    staged,   \* outputs still in the staging directory
    backup,   \* outputs whose original is in backups/
    touched,  \* outputs to undo, the list `touched` / `published`
    journal,  \* phase in recovery.json
    state,    \* the parent's session state
    outcome,  \* status of the ToolExecutionOutcome
    dir,      \* the staging directory exists
    before,   \* targets when the job started (history)
    wanted,   \* outputs the worker produced (history)
    lapsed    \* a failure met that is not undone, or the operator at work (history)

vars == << pc, i, target, staged, backup, touched, journal, state, outcome,
           dir, before, wanted, lapsed >>

PCs == { "start", "publish", "rename", "published", "commit", "event", "finish",
         "restore", "rollback", "put_back", "cleanup", "done", "crashed", "recovered" }
Phases == { "worker_running", "publishing_outputs", "committing_state", "committed" }

TypeOK ==
    /\ pc \in PCs
    /\ i \in 1..(N + 1)
    /\ target \in [Stages -> { "absent", "original", "new" }]
    /\ staged \subseteq Stages
    /\ backup \subseteq Stages
    /\ touched \subseteq Stages
    /\ journal \in Phases
    /\ state \in { "old", "new" }
    /\ outcome \in { "pending", "completed", "error" }
    /\ dir \in BOOLEAN
    /\ before \in [Stages -> { "absent", "original" }]
    /\ wanted \subseteq Stages
    /\ lapsed \in BOOLEAN

\* A completed worker response is at hand and every process of it is gone.
Init ==
    /\ pc = "start"
    /\ i = 1
    /\ target \in [Stages -> { "absent", "original" }]
    /\ staged \in SUBSET Stages
    /\ backup = {}
    /\ touched = {}
    /\ journal = "worker_running"
    /\ state = "old"
    /\ outcome = "pending"
    /\ dir = TRUE
    /\ before = target
    /\ wanted = staged
    /\ lapsed = FALSE

-----------------------------------------------------------------------------
Fails(fault) == fault \in Faults

\* An exception leaves _execute_locked: the finally clause comes next.
GiveUp == pc' = "cleanup" /\ outcome' = "error"

\* _write_recovery_journal(phase="publishing_outputs")
JournalPublishing ==
    /\ pc = "start"
    /\ \/ /\ pc' = "publish"
          /\ journal' = "publishing_outputs"
          /\ UNCHANGED outcome
       \/ /\ Fails("publishing_journal")
          /\ GiveUp
          /\ UNCHANGED journal
    /\ UNCHANGED << i, target, staged, backup, touched, state, dir, before, wanted >>

\* An output the worker did not produce is skipped.
SkipStage ==
    /\ pc = "publish" /\ i \in Stages
    /\ i \notin staged
    /\ i' = i + 1
    /\ UNCHANGED << pc, target, staged, backup, touched, journal, state,
                    outcome, dir, before, wanted >>

\* Mutant: the old target is removed instead of moved to the backup.
BackupTargetMutant ==
    /\ pc = "publish" /\ i \in Stages
    /\ i \in staged
    /\ target' = [target EXCEPT ![i] = "absent"]
    /\ touched' = IF target[i] = "original" THEN touched \cup {i} ELSE touched
    /\ pc' = "rename"
    /\ UNCHANGED << i, staged, backup, journal, state, outcome, dir, before, wanted >>

\* os.replace(target_path, backup_path) when the target exists.
BackupTarget ==
    /\ pc = "publish" /\ i \in Stages
    /\ i \in staged
    /\ \/ /\ target[i] = "original"
          /\ target' = [target EXCEPT ![i] = "absent"]
          /\ backup' = backup \cup {i}
          /\ touched' = touched \cup {i}
          /\ pc' = "rename"
       \/ /\ target[i] = "absent"
          /\ pc' = "rename"
          /\ UNCHANGED << target, backup, touched >>
       \/ /\ Fails("backup")
          /\ pc' = "rollback"
          /\ UNCHANGED << target, backup, touched >>
    /\ UNCHANGED << i, staged, journal, state, outcome, dir, before, wanted >>

\* os.replace(staged_path, target_path)
RenameStaged ==
    /\ pc = "rename"
    /\ \/ /\ target' = [target EXCEPT ![i] = "new"]
          /\ staged' = staged \ {i}
          /\ touched' = touched \cup {i}
          /\ i' = i + 1
          /\ pc' = "publish"
       \/ /\ Fails("rename")
          /\ pc' = "rollback"
          /\ UNCHANGED << i, target, staged, touched >>
    /\ UNCHANGED << backup, journal, state, outcome, dir, before, wanted >>

\* _write_recovery_journal(phase="committing_state"), before the try block.
JournalCommitting ==
    /\ pc = "publish" /\ i = N + 1
    /\ \/ /\ pc' = "commit"
          /\ journal' = "committing_state"
          /\ UNCHANGED outcome
       \/ /\ Fails("committing_journal")
          /\ GiveUp
          /\ UNCHANGED journal
    /\ UNCHANGED << i, target, staged, backup, touched, state, dir, before, wanted >>

\* _commit_session_state, which restores the previous state when it raises;
\* previous_state is still None then, so only the outputs are rolled back.
CommitState ==
    /\ pc = "commit"
    /\ \/ pc' = "event" /\ state' = "new"
       \/ Fails("state") /\ pc' = "rollback" /\ UNCHANGED state
       \/ Fails("state") /\ Fails("restore") /\ pc' = "rollback" /\ state' = "new"
    /\ UNCHANGED << i, target, staged, backup, touched, journal, outcome, dir,
                    before, wanted >>

\* Mutant: a failing commit event is not undone.
CommitEventMutant ==
    /\ pc = "event"
    /\ \/ pc' = "finish" /\ UNCHANGED outcome
       \/ Fails("event") /\ GiveUp
    /\ UNCHANGED << i, target, staged, backup, touched, journal, state, dir,
                    before, wanted >>

\* _emit_execution_event("commit")
CommitEvent ==
    /\ pc = "event"
    /\ \/ pc' = "finish"
       \/ Fails("event") /\ pc' = "restore"
    /\ UNCHANGED << i, target, staged, backup, touched, journal, state, outcome,
                    dir, before, wanted >>

\* _write_recovery_journal(phase="committed"), the last thing that can fail.
JournalCommitted ==
    /\ pc = "finish"
    /\ \/ /\ pc' = "cleanup"
          /\ journal' = "committed"
          /\ outcome' = "completed"
       \/ /\ Fails("committed_journal")
          /\ pc' = "restore"
          /\ UNCHANGED << journal, outcome >>
    /\ UNCHANGED << i, target, staged, backup, touched, state, dir, before, wanted >>

\* _restore_session_state; when it raises, the outputs are not rolled back.
RestoreState ==
    /\ pc = "restore"
    /\ \/ pc' = "rollback" /\ state' = "old" /\ UNCHANGED outcome
       \/ Fails("restore") /\ GiveUp /\ UNCHANGED state
    /\ UNCHANGED << i, target, staged, backup, touched, journal, dir, before, wanted >>

IsLast(k) == k \in touched /\ \A l \in touched : l <= k

\* Mutant: the published file is left in place when there was no original.
RollbackRemoveMutant ==
    /\ pc = "rollback"
    /\ \E k \in touched :
          /\ IsLast(k)
          /\ target' = IF k \in backup THEN [target EXCEPT ![k] = "absent"] ELSE target
    /\ pc' = "put_back"
    /\ UNCHANGED << i, staged, backup, touched, journal, state, outcome, dir,
                    before, wanted >>

\* _rollback_published_outputs, last stage first: remove what was published.
RollbackRemove ==
    /\ pc = "rollback"
    /\ \E k \in touched :
          /\ IsLast(k)
          /\ \/ /\ target' = [target EXCEPT ![k] = "absent"]
                /\ pc' = "put_back"
                /\ UNCHANGED outcome
             \/ /\ Fails("rollback") /\ target[k] # "absent"
                /\ GiveUp
                /\ UNCHANGED target
    /\ UNCHANGED << i, staged, backup, touched, journal, state, dir, before, wanted >>

\* ... and move its backup, if there is one, back to the target.
RollbackPutBack ==
    /\ pc = "put_back"
    /\ \E k \in touched :
          /\ IsLast(k)
          /\ \/ /\ target' = IF k \in backup
                             THEN [target EXCEPT ![k] = "original"] ELSE target
                /\ backup' = backup \ {k}
                /\ touched' = touched \ {k}
                /\ pc' = "rollback"
                /\ UNCHANGED outcome
             \/ /\ Fails("rollback") /\ k \in backup
                /\ GiveUp
                /\ UNCHANGED << target, backup, touched >>
    /\ UNCHANGED << i, staged, journal, state, dir, before, wanted >>

\* Everything was rolled back: the exception goes on to _execute_locked.
RollbackEnds ==
    /\ pc = "rollback" /\ touched = {}
    /\ GiveUp
    /\ UNCHANGED << i, target, staged, backup, touched, journal, state, dir,
                    before, wanted >>

\* shutil.rmtree(staging_root): staged files, backups and the journal go.
Cleanup ==
    /\ pc = "cleanup"
    /\ pc' = "done"
    /\ dir' = FALSE
    /\ staged' = {} /\ backup' = {}
    /\ UNCHANGED << i, target, touched, journal, state, outcome, before, wanted >>

\* The parent process is killed: only the file system is left.
Crash ==
    /\ pc \notin { "done", "crashed", "recovered" }
    /\ pc' = "crashed"
    /\ UNCHANGED << i, target, staged, backup, touched, journal, state, outcome,
                    dir, before, wanted >>

(***************************************************************************)
(* What docs/security/cancellation-safe-tool-execution.md tells the        *)
(* operator to do with an abandoned directory: restore the prior targets   *)
(* when it holds backups, remove it when it holds only staged outputs.     *)
(***************************************************************************)
Recover ==
    /\ pc = "crashed" /\ Operator
    /\ backup # {} \/ staged # {}
    /\ pc' = "recovered"
    /\ target' = [k \in Stages |-> IF k \in backup THEN "original" ELSE target[k]]
    /\ dir' = FALSE
    /\ staged' = {} /\ backup' = {}
    /\ UNCHANGED << i, touched, journal, state, outcome, before, wanted >>

Ended ==
    /\ pc \in { "done", "crashed", "recovered" }
    /\ UNCHANGED << pc, i, target, staged, backup, touched, journal, state, outcome,
                    dir, before, wanted >>

Step ==
    \/ JournalPublishing \/ SkipStage \/ BackupTarget \/ RenameStaged
    \/ JournalCommitting \/ CommitState \/ CommitEvent \/ JournalCommitted
    \/ RestoreState \/ RollbackRemove \/ RollbackPutBack \/ RollbackEnds
    \/ Cleanup \/ Crash \/ Recover \/ Ended

\* The steps after which outputs, their backups or the state are not put back:
\* the second journal entry, the restoration of the state or the rollback
\* itself fails, or the operator clears the directory.
Lapses ==
    \/ pc = "publish" /\ pc' = "cleanup"
    \/ pc = "commit" /\ pc' = "rollback" /\ state' = "new"
    \/ pc = "restore" /\ pc' = "cleanup"
    \/ pc \in { "rollback", "put_back" } /\ pc' = "cleanup" /\ touched # {}
    \/ pc' = "recovered"

Next == Step /\ lapsed' = (lapsed \/ Lapses)

Spec == Init /\ [][Next]_vars

-----------------------------------------------------------------------------
\* While the staging directory exists, every original is at its target or in
\* backups/, unless the job completed: whatever fails, and whenever the parent
\* is killed, the user's file can still be found.
OriginalsFindable ==
    \A k \in Stages :
        before[k] = "original" /\ dir /\ outcome # "completed" =>
            target[k] = "original" \/ k \in backup

\* A job that returned published all of its outputs and its state, or neither,
\* wherever it failed, as long as the undoing itself did not fail.
AtomicAtEnd ==
    pc = "done" /\ ~lapsed =>
        \/ /\ outcome = "completed" /\ state = "new"
           /\ \A k \in Stages : target[k] = IF k \in wanted THEN "new" ELSE before[k]
        \/ outcome = "error" /\ state = "old" /\ target = before

\* What is at a target, or can be put back there from the staging directory.
RecoverableView ==
    [k \in Stages |->
        IF outcome = "completed" \/ ~dir THEN target[k]
        ELSE IF k \in backup THEN "original"
        ELSE IF before[k] = "absent" THEN "absent"
        ELSE target[k]]

Atomic == INSTANCE AtomicPublish WITH view <- RecoverableView, result <- outcome

\* The operations implement publication in one step: as far as the files can
\* be recovered, the outputs appear together in the step that completes the
\* job, although the renames before it are visible one by one.  Up to the
\* failure of the undoing itself this holds for every failure and kill.
PublishesAtomically ==
    Atomic!Init /\ [][lapsed' \/ Atomic!Next]_<< RecoverableView, wanted, outcome >>

\* The documented clean-up of an abandoned directory gives the targets back
\* of a job that was not committed.
RecoveryRestores ==
    pc = "recovered" /\ journal # "committed" =>
        \A k \in Stages : target[k] = before[k]
=============================================================================
