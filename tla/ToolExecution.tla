--------------------------- MODULE ToolExecution ---------------------------
(***************************************************************************)
(* Cancellation-safe execution of mutating MCP tools                       *)
(* (zaptrace/agent/execution.py), the isolated worker process it starts    *)
(* (zaptrace/agent/worker.py) and session_destroy (zaptrace/mcp/server.py),*)
(* which shares the per-session lock.                                      *)
(*                                                                         *)
(* All coordinators run on one asyncio event loop, so a step of this       *)
(* module is the code between two awaits; what interleaves with it are the *)
(* other coordinators, the worker processes, the threads that start and    *)
(* terminate workers, the deadline and the caller's cancellations.         *)
(*                                                                         *)
(* Abstractions.  A session's designs are the set of jobs whose effect     *)
(* they contain; a file is the job that published it; an audit stream is   *)
(* the set of <<job, decision>> pairs it holds.  Target paths are numbers  *)
(* whose order is the sort order of the paths.                             *)
(***************************************************************************)
EXTENDS Integers, Sequences, FiniteSets

CONSTANTS
    Jobs,         \* mutating tool calls
    Destroyers,   \* session_destroy calls
    Sessions,     \* session identifiers
    Targets,      \* resolved output paths
    SessionOf,    \* the session each job or destroyer names
    OutputsOf,    \* the declared output targets of each job
    Faults,       \* the failures the environment may inject, see FaultKinds
    MaxCancels,   \* bound on the cancellations delivered to one call
    None          \* "no owner" of a lock

Actors == Jobs \cup Destroyers
Locks == Sessions \cup Targets

(***************************************************************************)
(* Where an exception can come from.  The two sqlite faults are            *)
(* sqlite3.Error, which no except clause of execution.py names.            *)
(***************************************************************************)
FaultKinds ==
    { "mkdtemp", "staging", "request", "spawn", "running_journal", "sink",
      "group_survives", "escape", "publish", "committing_journal", "commit_state",
      "commit_record", "sqlite_state", "sqlite_commit_event" }

\* The failures of a commit that execution.py does not undo.
UnhandledFaults == { "committing_journal", "sqlite_state", "sqlite_commit_event" }

ASSUME ConstantsAssumption ==
    /\ Jobs \cap Destroyers = {}
    /\ Sessions \cap Targets = {}
    /\ SessionOf \in [Actors -> Sessions]
    /\ Targets \subseteq Nat
    /\ OutputsOf \in [Jobs -> SUBSET Targets]
    /\ Faults \subseteq FaultKinds
    /\ MaxCancels \in Nat
    /\ None \notin Actors
    /\ Jobs \cap { "original", "absent" } = {}

VARIABLES
    pc,         \* where each call's coroutine is suspended
    owner,      \* holder of each session and output lock
    waiters,    \* FIFO queue of each asyncio.Lock
    live,       \* keys of runtime._sessions
    destroyed,  \* _DESTROYED_SESSION_IDS
    designs,    \* in-memory designs of each session
    audit,      \* in-memory audit_events of each session
    file,       \* content of each output target in the workspace
    clone,      \* session state serialised into each job's request.json
    staging,    \* what the worker left in each job's private directory
    worker,     \* process group of each job; "detached": it is gone, but a
                \* process that left it keeps the worker's pipes open
    killer,     \* jobs whose _terminate_worker thread is running
    outcome,    \* ToolExecutionOutcome, or the exception that left the call
    cancels     \* cancellations delivered to each call

vars == << pc, owner, waiters, live, destroyed, designs, audit, file, clone,
           staging, worker, killer, outcome, cancels >>

-----------------------------------------------------------------------------
Decisions == { "allow", "start", "commit", "timeout", "cancel",
               "worker_terminated", "error", "rollback" }
Events == Jobs \X Decisions
Statuses == { "none", "completed", "timeout", "conflict", "error",
              "cancelled", "raised", "rejected" }
Responses == { "none", "completed", "error" }
WorkerStates == { "none", "spawning", "failed", "running", "exited", "stopped",
                  "detached" }
PCs == { "idle", "wait_session", "wait_output", "spawning", "cancel_spawn",
         "communicating", "timing_out", "cancelling", "finishing", "failing",
         "done" }
Files == Jobs \cup { "original", "absent" }

NoClone == [designs |-> {}, audit |-> {}]
NoStaging == [outputs |-> {}, response |-> "none"]

\* The states in which a job is inside `async with session_execution_lock`.
InSession == PCs \ { "idle", "wait_session", "done" }
\* The states after request.json was written and the output locks were taken.
InWorker == InSession \ { "wait_output" }

TypeOK ==
    /\ pc \in [Actors -> PCs]
    /\ owner \in [Locks -> Actors \cup {None}]
    /\ waiters \in [Locks -> Seq(Actors)]
    /\ live \subseteq Sessions
    /\ destroyed \subseteq Sessions
    /\ designs \in [Sessions -> SUBSET Jobs]
    /\ audit \in [Sessions -> SUBSET Events]
    /\ file \in [Targets -> Files]
    /\ clone \in [Jobs -> [designs : SUBSET Jobs, audit : SUBSET Events]]
    /\ staging \in [Jobs -> [outputs : SUBSET Targets, response : Responses]]
    /\ worker \in [Jobs -> WorkerStates]
    /\ killer \subseteq Jobs
    /\ outcome \in [Jobs -> [status : Statuses, worker_terminated : BOOLEAN]]
    /\ cancels \in [Actors -> 0..MaxCancels]

Init ==
    /\ pc = [a \in Actors |-> "idle"]
    /\ owner = [l \in Locks |-> None]
    /\ waiters = [l \in Locks |-> << >>]
    /\ live = {}
    /\ destroyed = {}
    /\ designs = [s \in Sessions |-> {}]
    /\ audit = [s \in Sessions |-> {}]
    /\ file \in [Targets -> { "original", "absent" }]
    /\ clone = [j \in Jobs |-> NoClone]
    /\ staging = [j \in Jobs |-> NoStaging]
    /\ worker = [j \in Jobs |-> "none"]
    /\ killer = {}
    /\ outcome = [j \in Jobs |-> [status |-> "none", worker_terminated |-> FALSE]]
    /\ cancels = [a \in Actors |-> 0]

-----------------------------------------------------------------------------
(* asyncio.Lock and the pieces every coordinator path shares.              *)

Goto(a, to) == pc' = [pc EXCEPT ![a] = to]

\* asyncio.Lock hands the lock over in arrival order.
Grantable(l, a) ==
    /\ owner[l] = None
    /\ waiters[l] # << >>
    /\ Head(waiters[l]) = a

Enqueue(q, l, a) == [q EXCEPT ![l] = Append(@, a)]
Dequeue(q, l) == [q EXCEPT ![l] = Tail(@)]
RemoveIndex(q, i) == SubSeq(q, 1, i - 1) \o SubSeq(q, i + 1, Len(q))

\* Mutant: a call that was queued before the destruction is let through.
IsSessionDestroyedMutant(s) == FALSE

\* is_session_destroyed
IsSessionDestroyed(s) == s \in destroyed

Held(j) == { t \in OutputsOf[j] : owner[t] = j }

\* Mutant: locks are taken in the order the tool declares its outputs, which
\* differs between the tools of two sessions.
IsNextTargetMutant(j, held, t) ==
    /\ t \in OutputsOf[j] \ held
    /\ \A u \in OutputsOf[j] \ held :
          IF SessionOf[j] = CHOOSE s \in Sessions : TRUE THEN t <= u ELSE t >= u

\* The next lock of sorted({stage.target_path ...}) given the ones already held.
IsNextTarget(j, held, t) ==
    /\ t \in OutputsOf[j] \ held
    /\ \A u \in OutputsOf[j] \ held : t <= u

EnqueueNextTarget(q, j, held) ==
    [l \in Locks |-> IF l \in Targets /\ IsNextTarget(j, held, l)
                     THEN Append(q[l], j) ELSE q[l]]

\* _clone_session_state, with the audit stream as the start event left it.
CloneSession(s, events) == [designs |-> designs[s], audit |-> events]

Released(j) == [l \in Locks |-> IF owner[l] = j THEN None ELSE owner[l]]

Record(j, decisions) ==
    audit' = [audit EXCEPT ![SessionOf[j]] = @ \cup ({j} \X decisions)]

(***************************************************************************)
(* Leaving _execute_locked and execute_mutating_tool: the finally clause   *)
(* removes the staging directory with its backups and releases the output  *)
(* locks, `async with` releases the session lock.                          *)
(***************************************************************************)
Finish(j, status, terminated) ==
    /\ Goto(j, "done")
    /\ owner' = Released(j)
    /\ clone' = [clone EXCEPT ![j] = NoClone]
    /\ staging' = [staging EXCEPT ![j] = NoStaging]
    /\ outcome' = [outcome EXCEPT ![j] =
                     [status |-> status, worker_terminated |-> terminated]]

\* _coordinator_error_outcome when no worker leader is alive.
CoordinatorError(j) ==
    /\ Finish(j, "error", TRUE)
    /\ \/ Record(j, {"error", "rollback"})
       \/ "sink" \in Faults /\ UNCHANGED audit

-----------------------------------------------------------------------------
(* The tool call up to the start of its worker.                            *)

(***************************************************************************)
(* _sandboxed_wrapper: authorise, record the capability decision (which    *)
(* creates the session) and start waiting for the session lock.            *)
(***************************************************************************)
CallTool(j) ==
    LET s == SessionOf[j] IN
    /\ pc[j] = "idle"
    /\ \/ /\ IsSessionDestroyed(s)
          /\ Goto(j, "done")
          /\ outcome' = [outcome EXCEPT ![j] =
                           [status |-> "rejected", worker_terminated |-> FALSE]]
          /\ UNCHANGED << waiters, live, audit >>
       \/ /\ ~IsSessionDestroyed(s)
          /\ Goto(j, "wait_session")
          /\ live' = live \cup {s}
          /\ Record(j, {"allow"})
          /\ waiters' = Enqueue(waiters, s, j)
          /\ UNCHANGED outcome
    /\ UNCHANGED << owner, destroyed, designs, file, clone, staging, worker,
                    killer, cancels >>

\* Mutant: the session lock covers the destroyed check but not the job.
EnterSessionMutant(j) ==
    LET s == SessionOf[j] IN
    /\ pc[j] = "wait_session"
    /\ Grantable(s, j)
    /\ ~IsSessionDestroyed(s)
    /\ Goto(j, "wait_output")
    /\ waiters' = EnqueueNextTarget(Dequeue(waiters, s), j, {})
    /\ UNCHANGED << owner, live, destroyed, designs, audit, file, clone, staging,
                    worker, killer, outcome, cancels >>

(***************************************************************************)
(* The session lock is granted: refuse a destroyed session, otherwise make *)
(* the staging directory and ask for the first output lock.                *)
(***************************************************************************)
EnterSession(j) ==
    LET s == SessionOf[j] IN
    /\ pc[j] = "wait_session"
    /\ Grantable(s, j)
    /\ \/ /\ IsSessionDestroyed(s)
          /\ Finish(j, "conflict", FALSE)
          /\ waiters' = Dequeue(waiters, s)
          /\ UNCHANGED audit
       \/ /\ ~IsSessionDestroyed(s) /\ "mkdtemp" \in Faults
          /\ Finish(j, "raised", FALSE)
          /\ waiters' = Dequeue(waiters, s)
          /\ UNCHANGED audit
       \/ /\ ~IsSessionDestroyed(s) /\ "staging" \in Faults
          /\ CoordinatorError(j)
          /\ waiters' = Dequeue(waiters, s)
       \/ /\ ~IsSessionDestroyed(s)
          /\ Goto(j, "wait_output")
          /\ owner' = [owner EXCEPT ![s] = j]
          /\ waiters' = EnqueueNextTarget(Dequeue(waiters, s), j, {})
          /\ UNCHANGED << audit, clone, staging, outcome >>
    /\ UNCHANGED << live, destroyed, designs, file, worker, killer, cancels >>

\* _acquire_output_locks: one lock at a time, in sorted order.
AcquireOutput(j) ==
    /\ pc[j] = "wait_output"
    /\ \E t \in OutputsOf[j] :
          /\ IsNextTarget(j, Held(j), t)
          /\ Grantable(t, j)
          /\ owner' = [owner EXCEPT ![t] = j]
          /\ waiters' = EnqueueNextTarget(Dequeue(waiters, t), j, Held(j) \cup {t})
    /\ UNCHANGED << pc, live, destroyed, designs, audit, file, clone, staging,
                    worker, killer, outcome, cancels >>

(***************************************************************************)
(* All locks held: record the start, serialise a clone of the session into *)
(* request.json and hand the worker start to a thread.                     *)
(***************************************************************************)
StartWorker(j) ==
    LET s == SessionOf[j] IN
    /\ pc[j] = "wait_output"
    /\ Held(j) = OutputsOf[j]
    /\ \/ /\ "request" \in Faults
          /\ Finish(j, "error", TRUE)
          /\ \/ Record(j, {"start", "error", "rollback"})
             \/ "sink" \in Faults /\ Record(j, {"start"})
          /\ UNCHANGED worker
       \/ /\ "sink" \in Faults
          /\ CoordinatorError(j)
          /\ UNCHANGED worker
       \/ /\ Goto(j, "spawning")
          /\ Record(j, {"start"})
          /\ clone' = [clone EXCEPT ![j] =
                         CloneSession(s, audit[s] \cup {<<j, "start">>})]
          /\ worker' = [worker EXCEPT ![j] = "spawning"]
          /\ UNCHANGED << owner, staging, outcome >>
    /\ UNCHANGED << waiters, live, destroyed, designs, file, killer, cancels >>

\* The thread of _spawn_worker_sync: Popen returns a process group or raises.
SpawnThread(j) ==
    /\ worker[j] = "spawning"
    /\ \/ worker' = [worker EXCEPT ![j] = "running"]
       \/ "spawn" \in Faults /\ worker' = [worker EXCEPT ![j] = "failed"]
    /\ UNCHANGED << pc, owner, waiters, live, destroyed, designs, audit, file,
                    clone, staging, killer, outcome, cancels >>

(***************************************************************************)
(* The coordinator learns that the worker started (or did not), writes the *)
(* worker_running journal and begins to communicate with a deadline.       *)
(***************************************************************************)
WorkerStarted(j) ==
    /\ pc[j] = "spawning"
    /\ worker[j] # "spawning"
    /\ \/ /\ worker[j] = "failed"
          /\ CoordinatorError(j)
          /\ UNCHANGED killer
       \/ /\ worker[j] # "failed"
          /\ Goto(j, "communicating")
          /\ UNCHANGED << owner, audit, clone, staging, killer, outcome >>
       \/ /\ worker[j] # "failed" /\ "running_journal" \in Faults
          /\ Goto(j, "failing")
          /\ killer' = killer \cup {j}
          /\ UNCHANGED << owner, audit, clone, staging, outcome >>
    /\ UNCHANGED << waiters, live, destroyed, designs, file, worker, cancels >>

-----------------------------------------------------------------------------
(* The worker process group and the termination thread.                    *)

(***************************************************************************)
(* run_worker ends: it leaves staged outputs and a response (none at all   *)
(* when it dies first), and possibly descendants in its process group.  A  *)
(* worker that outlived its job directory leaves nothing.                  *)
(***************************************************************************)
WorkerExit(j) ==
    /\ worker[j] = "running"
    /\ \E left \in { "exited", "stopped" } :
          worker' = [worker EXCEPT ![j] = left]
    /\ IF pc[j] = "done"
       THEN UNCHANGED staging
       ELSE \E outs \in SUBSET OutputsOf[j], r \in Responses :
               staging' = [staging EXCEPT ![j] = [outputs |-> outs, response |-> r]]
    /\ UNCHANGED << pc, owner, waiters, live, destroyed, designs, audit, file,
                    clone, killer, outcome, cancels >>

\* A descendant of the worker keeps writing staged outputs after it exited.
DescendantWrites(j) ==
    /\ worker[j] = "exited"
    /\ pc[j] # "done"
    /\ \E t \in OutputsOf[j] \ staging[j].outputs :
          staging' = [staging EXCEPT ![j].outputs = @ \cup {t}]
    /\ UNCHANGED << pc, owner, waiters, live, destroyed, designs, audit, file,
                    clone, worker, killer, outcome, cancels >>

(***************************************************************************)
(* _terminate_worker_sync in its thread: SIGTERM, then SIGKILL, to the     *)
(* whole group; the leader is always reaped (its last wait has no time     *)
(* limit), a descendant may survive, and one that made a session of its    *)
(* own is not in the group at all.                                         *)
(***************************************************************************)
TerminateThread(j) ==
    /\ j \in killer
    /\ killer' = killer \ {j}
    /\ \/ worker' = [worker EXCEPT ![j] = "stopped"]
       \/ /\ "group_survives" \in Faults
          /\ worker[j] # "stopped"
          /\ worker' = [worker EXCEPT ![j] = "exited"]
       \/ /\ "escape" \in Faults
          /\ pc[j] \in { "timing_out", "cancelling" }
          /\ worker[j] # "stopped"
          /\ worker' = [worker EXCEPT ![j] = "detached"]
    /\ UNCHANGED << pc, owner, waiters, live, destroyed, designs, audit, file,
                    clone, staging, outcome, cancels >>

\* The process that left the group closes the worker's pipes, or ends.
PipesClose(j) ==
    /\ worker[j] = "detached"
    /\ worker' = [worker EXCEPT ![j] = "stopped"]
    /\ UNCHANGED << pc, owner, waiters, live, destroyed, designs, audit, file,
                    clone, staging, killer, outcome, cancels >>

-----------------------------------------------------------------------------
(* From the worker to the terminal outcome.                                *)

\* Mutant: a worker whose leader exited is not terminated again.
CommunicationEndsMutant(j) ==
    /\ pc[j] = "communicating"
    /\ worker[j] \in { "exited", "stopped" }
    /\ Goto(j, "finishing")
    /\ UNCHANGED << owner, waiters, live, destroyed, designs, audit, file,
                    clone, staging, worker, killer, outcome, cancels >>

\* process.communicate returned: the group is terminated before any commit.
CommunicationEnds(j) ==
    /\ pc[j] = "communicating"
    /\ worker[j] \in { "exited", "stopped" }
    /\ Goto(j, "finishing")
    /\ killer' = killer \cup {j}
    /\ UNCHANGED << owner, waiters, live, destroyed, designs, audit, file,
                    clone, staging, worker, outcome, cancels >>

\* Mutant: the worker is awaited without a deadline.
DeadlineElapsesMutant(j) == FALSE /\ UNCHANGED vars

\* The deadline of asyncio.wait_for elapses first, whatever the worker did.
DeadlineElapses(j) ==
    /\ pc[j] = "communicating"
    /\ Goto(j, "timing_out")
    /\ killer' = killer \cup {j}
    /\ UNCHANGED << owner, waiters, live, destroyed, designs, audit, file,
                    clone, staging, worker, outcome, cancels >>

\* _spawn_worker_cancellation_safe after a cancellation: own the process first.
CancelledSpawnReturns(j) ==
    /\ pc[j] = "cancel_spawn"
    /\ worker[j] # "spawning"
    /\ \/ /\ worker[j] = "failed"
          /\ CoordinatorError(j)
          /\ UNCHANGED killer
       \/ /\ worker[j] # "failed"
          /\ Goto(j, "cancelling")
          /\ killer' = killer \cup {j}
          /\ UNCHANGED << owner, audit, clone, staging, outcome >>
    /\ UNCHANGED << waiters, live, destroyed, designs, file, worker, cancels >>

(***************************************************************************)
(* _terminate_and_record returned to a timeout or a cancellation: the      *)
(* group is terminated and the pipes are drained, for which there is no    *)
(* deadline.  When the event sink failed it raises RuntimeError instead,   *)
(* which becomes an ordinary error outcome.                                *)
(***************************************************************************)
TerminationRecorded(j) ==
    /\ pc[j] \in { "timing_out", "cancelling" }
    /\ j \notin killer
    /\ worker[j] # "detached"
    /\ \/ LET timeout == pc[j] = "timing_out" IN
          /\ Finish(j, IF timeout THEN "timeout" ELSE "cancelled",
                    worker[j] = "stopped")
          /\ Record(j, { IF timeout THEN "timeout" ELSE "cancel",
                         "worker_terminated", "rollback" })
       \/ "sink" \in Faults /\ CoordinatorError(j)
    /\ UNCHANGED << waiters, live, destroyed, designs, file, worker, killer,
                    cancels >>

\* _coordinator_error_outcome after it terminated a live worker.
CoordinatorErrorEnds(j) ==
    /\ pc[j] = "failing"
    /\ j \notin killer
    /\ \/ /\ Finish(j, "error", worker[j] = "stopped")
          /\ Record(j, {"worker_terminated", "error", "rollback"})
       \/ /\ "sink" \in Faults
          /\ Finish(j, "raised", FALSE)
          /\ UNCHANGED audit
    /\ UNCHANGED << waiters, live, destroyed, designs, file, worker, killer,
                    cancels >>

(***************************************************************************)
(* _worker_response: a group that survived, no response, or an error       *)
(* response end the job without publishing anything.                       *)
(***************************************************************************)
WorkerFailed(j) ==
    /\ pc[j] = "finishing"
    /\ j \notin killer
    /\ worker[j] # "stopped" \/ staging[j].response # "completed"
    /\ CoordinatorError(j)
    /\ UNCHANGED << waiters, live, destroyed, designs, file, worker, killer,
                    cancels >>

Published(j) ==
    [t \in Targets |-> IF t \in staging[j].outputs THEN j ELSE file[t]]

\* Mutant: the worker's audit replaces the session's.
MergedAuditMutant(j) ==
    [audit EXCEPT ![SessionOf[j]] = clone[j].audit \cup {<<j, "commit">>}]

\* _replace_session_state(merge_current_audit=True): the worker's designs
\* replace the session's, its audit is merged with what was written meanwhile.
ReplacedDesigns(j) == [designs EXCEPT ![SessionOf[j]] = clone[j].designs \cup {j}]
MergedAudit(j) ==
    [audit EXCEPT ![SessionOf[j]] = clone[j].audit \cup @ \cup {<<j, "commit">>}]

\* Mutant: the result of terminating the process group is ignored.
ReadyToCommitMutant(j) ==
    /\ pc[j] = "finishing"
    /\ j \notin killer
    /\ staging[j].response = "completed"

\* The process group is gone and the response says "completed".
ReadyToCommit(j) ==
    /\ pc[j] = "finishing"
    /\ j \notin killer
    /\ worker[j] = "stopped"
    /\ staging[j].response = "completed"

\* _commit_worker_response without a fault.
CommitSucceeds(j) ==
    /\ Finish(j, "completed", TRUE)
    /\ file' = Published(j)
    /\ designs' = ReplacedDesigns(j)
    /\ audit' = MergedAudit(j)

\* Mutant: the published outputs are not rolled back.
CommitRollsBackMutant(j) ==
    /\ Faults \cap {"publish", "commit_state", "commit_record"} # {}
    /\ CoordinatorError(j)
    /\ file' = Published(j)
    /\ UNCHANGED designs

\* Mutant: the previous session state is not restored.
RestoreMutant(j) ==
    /\ Faults \cap {"publish", "commit_state", "commit_record"} # {}
    /\ CoordinatorError(j)
    /\ designs' = ReplacedDesigns(j)
    /\ UNCHANGED file

(***************************************************************************)
(* A listed exception from publication, state replacement, the commit      *)
(* event or the final journal write: state is restored and outputs are     *)
(* rolled back.                                                            *)
(***************************************************************************)
CommitRollsBack(j) ==
    /\ Faults \cap {"publish", "commit_state", "commit_record"} # {}
    /\ CoordinatorError(j)
    /\ UNCHANGED << file, designs >>

\* The committing_state journal write fails: it is outside the try block, so
\* the published outputs stay and the staging directory with backups goes.
CommittingJournalFails(j) ==
    /\ "committing_journal" \in Faults
    /\ CoordinatorError(j)
    /\ file' = Published(j)
    /\ UNCHANGED designs

\* replace_all raises sqlite3.Error after current.clear(): nothing catches it.
StateReplaceEscapes(j) ==
    /\ "sqlite_state" \in Faults
    /\ Finish(j, "raised", FALSE)
    /\ file' = Published(j)
    /\ designs' = [designs EXCEPT ![SessionOf[j]] = {}]
    /\ audit' = [audit EXCEPT ![SessionOf[j]] = clone[j].audit \cup @]

\* The durable half of the commit event raises sqlite3.Error after the event
\* was appended in memory: the commit stands, the call raises.
CommitEventEscapes(j) ==
    /\ "sqlite_commit_event" \in Faults
    /\ Finish(j, "raised", FALSE)
    /\ file' = Published(j)
    /\ designs' = ReplacedDesigns(j)
    /\ audit' = MergedAudit(j)

Commit(j) ==
    /\ ReadyToCommit(j)
    /\ \/ CommitSucceeds(j)
       \/ CommitRollsBack(j)
       \/ CommittingJournalFails(j)
       \/ StateReplaceEscapes(j)
       \/ CommitEventEscapes(j)
    /\ UNCHANGED << waiters, live, destroyed, worker, killer, cancels >>

-----------------------------------------------------------------------------
(* Caller cancellation.                                                    *)

Cancelled(a) ==
    /\ cancels[a] < MaxCancels
    /\ cancels' = [cancels EXCEPT ![a] = @ + 1]

\* Cancelled while queued for a lock: leave the queue, release what is held.
CancelWaiting(a) ==
    /\ Cancelled(a)
    /\ \/ pc[a] = "wait_session"
       \/ pc[a] = "wait_output" /\ Held(a) # OutputsOf[a]
    /\ \E l \in Locks : \E i \in 1..Len(waiters[l]) :
          /\ waiters[l][i] = a
          /\ waiters' = [waiters EXCEPT ![l] = RemoveIndex(@, i)]
    /\ IF a \in Jobs
       THEN Finish(a, "cancelled", FALSE)
       ELSE Goto(a, "done") /\ UNCHANGED << owner, clone, staging, outcome >>
    /\ UNCHANGED << live, destroyed, designs, audit, file, worker, killer >>

\* Mutant: a cancellation while the worker runs leaves without terminating it.
CancelWorkingMutant(j) ==
    /\ Cancelled(j)
    /\ pc[j] \in { "spawning", "communicating" }
    /\ Finish(j, "cancelled", FALSE)
    /\ UNCHANGED << waiters, live, destroyed, designs, audit, file, worker, killer >>

\* Cancelled while the worker is starting or running: clean up first.
CancelWorking(j) ==
    /\ Cancelled(j)
    /\ \/ /\ pc[j] = "spawning"
          /\ Goto(j, "cancel_spawn")
          /\ UNCHANGED killer
       \/ /\ pc[j] = "communicating"
          /\ Goto(j, "cancelling")
          /\ killer' = killer \cup {j}
    /\ UNCHANGED << owner, waiters, live, destroyed, designs, audit, file,
                    clone, staging, worker, outcome >>

\* Cancelled inside a clean-up await: CancelledError leaves at once, the
\* thread that starts or terminates the worker is left to itself.
CancelCleanup(j) ==
    /\ Cancelled(j)
    /\ pc[j] \in { "cancel_spawn", "timing_out", "cancelling", "finishing", "failing" }
    /\ Finish(j, "cancelled", FALSE)
    /\ UNCHANGED << waiters, live, destroyed, designs, audit, file, worker, killer >>

-----------------------------------------------------------------------------
(* session_destroy.                                                        *)

\* Authorised against the session's object record, then queued on its lock.
CallDestroy(d) ==
    LET s == SessionOf[d] IN
    /\ pc[d] = "idle"
    /\ \/ /\ s \notin live
          /\ Goto(d, "done")
          /\ UNCHANGED waiters
       \/ /\ s \in live
          /\ Goto(d, "wait_session")
          /\ waiters' = Enqueue(waiters, s, d)
    /\ UNCHANGED << owner, live, destroyed, designs, audit, file, clone,
                    staging, worker, killer, outcome, cancels >>

\* Under the session lock: mark destroyed, then drop every record of it.
Destroy(d) ==
    LET s == SessionOf[d] IN
    /\ pc[d] = "wait_session"
    /\ Grantable(s, d)
    /\ Goto(d, "done")
    /\ waiters' = Dequeue(waiters, s)
    /\ \/ /\ s \notin live
          /\ UNCHANGED << live, destroyed, designs, audit >>
       \/ /\ s \in live
          /\ destroyed' = destroyed \cup {s}
          /\ live' = live \ {s}
          /\ designs' = [designs EXCEPT ![s] = {}]
          /\ audit' = [audit EXCEPT ![s] = {}]
    /\ UNCHANGED << owner, file, clone, staging, worker, killer, outcome, cancels >>

-----------------------------------------------------------------------------
JobStep(j) ==
    \/ EnterSession(j) \/ AcquireOutput(j) \/ StartWorker(j)
    \/ WorkerStarted(j) \/ CommunicationEnds(j) \/ DeadlineElapses(j)
    \/ CancelledSpawnReturns(j) \/ TerminationRecorded(j)
    \/ CoordinatorErrorEnds(j) \/ WorkerFailed(j) \/ Commit(j)

AllDone == \A a \in Actors : pc[a] = "done"

\* Every call has returned; what is left are threads and stray processes.
Quiescent == AllDone /\ UNCHANGED vars

Next ==
    \/ \E j \in Jobs :
          \/ CallTool(j) \/ JobStep(j)
          \/ SpawnThread(j) \/ TerminateThread(j) \/ PipesClose(j)
          \/ WorkerExit(j) \/ DescendantWrites(j)
          \/ CancelWorking(j) \/ CancelCleanup(j)
    \/ \E a \in Actors : CancelWaiting(a)
    \/ \E d \in Destroyers : CallDestroy(d) \/ Destroy(d)
    \/ Quiescent

Spec == Init /\ [][Next]_vars

(***************************************************************************)
(* The event loop runs every ready coroutine, the deadline elapses and     *)
(* the spawn and termination threads return: SIGKILL ends the leader, so   *)
(* that it can be reaped.  Nothing is assumed of the worker (it may hang   *)
(* for ever), of processes that left its group, of callers or of           *)
(* cancellations.                                                          *)
(***************************************************************************)
Fairness ==
    /\ \A j \in Jobs : WF_vars(JobStep(j))
    /\ \A j \in Jobs : WF_vars(SpawnThread(j))
    /\ \A j \in Jobs : WF_vars(TerminateThread(j))
    /\ \A d \in Destroyers : WF_vars(Destroy(d))

FairSpec == Spec /\ Fairness

-----------------------------------------------------------------------------
(* Safety.                                                                 *)

\* No lost update: while a job owns a worker, the designs it serialised into
\* request.json are still the designs of its session, so replacing the
\* session's designs by the worker's at commit overwrites nobody's commit.
FreshClone ==
    \A j \in Jobs :
        pc[j] \in InWorker => clone[j].designs = designs[SessionOf[j]]

\* A call that ended in anything but "completed" left no trace: neither the
\* session's designs nor any output target carries its effect; a completed
\* one is in its session unless that session was destroyed since.
AllOrNothing ==
    \A j \in Jobs :
        LET s == SessionOf[j] IN
        /\ outcome[j].status # "completed" =>
              j \notin designs[s] /\ \A t \in Targets : file[t] # j
        /\ outcome[j].status = "completed" =>
              j \in designs[s] \/ s \in destroyed

\* A destroyed session is never resurrected: it stays out of the session
\* table with no designs and no audit stream, and no job works on it.
DestroyedStaysGone ==
    \A s \in destroyed :
        /\ s \notin live
        /\ designs[s] = {} /\ audit[s] = {}
        /\ \A j \in Jobs : SessionOf[j] = s => pc[j] \notin InSession

\* The audit stream of a live session tells what happened to a job: "commit"
\* exactly when its effect is in the designs, never together with "rollback".
AuditTellsTruth ==
    \A j \in Jobs :
        LET s == SessionOf[j] IN
        s \notin destroyed =>
            /\ <<j, "commit">> \in audit[s] <=> j \in designs[s]
            /\ <<j, "rollback">> \in audit[s] =>
                  <<j, "commit">> \notin audit[s] /\ \A t \in Targets : file[t] # j

WorkerAlive(j) == worker[j] \in { "spawning", "running", "exited" }

\* An outcome (and the lifecycle events built from it) that reports
\* worker_terminated=True is right: no member of the process group is left.
TerminationConfirmed ==
    \A j \in Jobs : outcome[j].worker_terminated => ~WorkerAlive(j)

\* CancelledError reaches the caller only after the process group is gone.
CancelledAfterTermination ==
    \A j \in Jobs : outcome[j].status = "cancelled" => ~WorkerAlive(j)

WaitsFor(j, t) == \E i \in 1..Len(waiters[t]) : waiters[t][i] = j

\* Output locks never deadlock: no set of jobs waits for locks that are all
\* held inside the set (the sorted acquisition order is what prevents it).
NoWaitCycle ==
    \A S \in (SUBSET Jobs) \ {{}} :
        ~ \A j \in S : \E t \in Targets : WaitsFor(j, t) /\ owner[t] \in S

(* What no step may do.                                                    *)

\* An output target changes only in the step that also commits the designs of
\* the job that wrote it, while that job holds the target's lock and after
\* the last process that could still write to its staging area is gone.
PublicationIsCommit ==
    [][\A t \in Targets : file'[t] # file[t] =>
          \E j \in Jobs :
             /\ file'[t] = j
             /\ owner[t] = j
             /\ ~WorkerAlive(j)
             /\ j \in designs'[SessionOf[j]]]_vars

\* Audit events recorded while a worker runs survive its commit: the stream
\* of a session only grows until the session is destroyed.
AuditPreserved ==
    [][\A s \in Sessions : s \notin destroyed' => audit[s] \subseteq audit'[s]]_vars

(* Liveness, under FairSpec.                                               *)

\* The drain of the worker's pipes has no deadline: a call whose worker's
\* descendant left the process group waits until it closes the pipes.
Draining(j) == pc[j] \in { "timing_out", "cancelling" } /\ worker[j] = "detached"

\* Every call that was accepted returns, whatever its worker does within its
\* process group: only a drain that some descendant outside the group holds
\* up can keep a call, or the calls queued behind its locks, waiting.
CallsReturn ==
    \A a \in Actors : (pc[a] # "idle") ~> (pc[a] = "done" \/ \E j \in Jobs : Draining(j))

\* Every process group that was started is eventually gone.
WorkersReaped ==
    \A j \in Jobs : (worker[j] = "running") ~> (worker[j] \in { "stopped", "detached" })
=============================================================================
