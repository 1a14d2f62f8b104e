# ZapTrace: TLA+ models, model checking and proofs

ZapTrace lets agents design circuit boards through MCP tools, a REST API, an SDK and
a local review server. Tool calls run in separate processes and may be cancelled, time
out, fail or be killed at any moment, while other calls, other sessions and other
server processes go on; what may be manufactured is decided from evidence and approvals
that were given earlier, for a design that may have changed since. This project models
the parts that have to keep designs, files, records and decisions consistent while that
happens, checks them with TLC on small instances and proves the properties that matter
most with TLAPS for instances of every size.

Paths are relative to the repository; `execution.py` is `zaptrace/agent/execution.py`,
`state_store.py` is `zaptrace/core/state_store.py`, `scripts/...` is the directory of that
name at the root of the repository.

## 1. Inventory

### The parts that carry state

| Part | State | Operations | Modelled |
|---|---|---|---|
| Isolated tool execution (`agent/execution.py`, `agent/worker.py`) | session locks, output locks, destroyed sessions, in-memory sessions, worker process groups, staging directories | call a tool, acquire locks, start, communicate, time out, cancel, terminate, commit, roll back, destroy a session | `ToolExecution` |
| Publication of outputs (`agent/execution.py`) | targets, staged files, backups, recovery journal | write journal, back up, rename, roll back, clean up | `OutputPublication` |
| Durable state store (`core/state_store*.py`, `core/session_store.py`, `agent/tool_impls/runtime.py`) | SQLite tables for sessions, blobs, versions, heads, records; one mapping per process and session | store, replace all, load, snapshot, audit, delete, import of the older file layout | `StateStore` (partly) |
| Design transactions (`agent/tool_impls/transactions.py`, `runtime.py`) | snapshots and transaction records in the session and in the store, the primary design | preview, validate, commit, roll back, snapshot, restore, confirm, edit | `DesignTransactions` |
| Review workflow and release gate (`review/*.py`, `security/release.py`, `agent/tool_impls/verification.py`) | review sessions, marks, decisions, ERC and DRC evidence, approval bindings | check, open a review, mark, decide, gate, export | `ReleaseGate` |
| Review Studio server (`scripts/review_studio_local_server.py`, `review_studio_library.py`, `review_studio_workspace.py`) | worker lock, job and output tables, staging and result folders, library manifest | start, work, download, discard, import, restore, delete, shut down | `ReviewStudio` |
| Verify and repair (`pipeline/verify_repair*.py`, `synthesis/repair.py`) | candidate design, gate evidence, history, iteration | gate, repair, stop | `VerifyRepair` |
| Abuse control (`api/abuse_control.py`, the middleware of `api/server.py`) | hits per key, last clean-up | check, inspect, clean up | `RateLimiter`, `RestService` |
| Artifact store (`api/storage.py`) | payload and manifest files, records and references in the database | create, protect, release, delete, expire | `ArtifactStore`, `RestService` |
| Object ownership (`security/objects.py`) | owner records in memory and in the store | register, authorise, remove with children | planned |
| Workflow checkpoints (`agent/workflow.py`) | steps, position, checkpoint file | start, complete, abort, resume | planned |
| Candidates (`agent/candidates.py`) | candidates and their states | add, score, reject, select | planned |
| Multi-domain loop (`pipeline/multi_domain_loop.py`) | design, iteration count, gate results | verify, repair, stop | planned |
| Sandbox and replay (`security/sandbox.py`, `security/replay.py`) | counters, limits, log | check, record, remove | planned |

The rest of the repository (routing and placement, electrical analyses, rule checks,
synthesis, importers and exporters, component library, supply clients, viewers,
benchmarks, the Rust kernels, release scripts) is computation or file formats
without a protocol: a call takes a design and returns a result. `PROJECT.json` lists
each of these parts with the reason it is not modelled.

### How the parts interact

All MCP calls run as coroutines of one asyncio event loop. A mutating call takes the
lock of its session, then the locks of its output paths in sorted order, serialises
the session into `request.json`, starts `zaptrace.agent.worker` in its own process
group and waits for it in a thread. The worker never touches shared state: it writes
outputs into a private staging directory and a response file. The parent then
terminates what is left of the process group, renames the outputs into place,
replaces the session's state, which writes through `PersistentDesignDict` into SQLite,
and appends an audit event, which opens the store again. `session_destroy` takes the
same session lock. Several server processes may share one database file; they share
nothing else. Every use of the store outside the mapping constructs a new
`SQLiteStateStore`, and every construction runs the import of the older file layout.

The REST API takes a different way. Its middleware (limiter, authentication, body limit)
runs in the event loop; the handlers are plain functions in a thread pool and call the
tool implementations in process, *without* the session lock. Their records (transactions,
snapshots, evidence, reviews, artifacts) are written to memory and to the database in
separate steps. A tool that runs in a worker instead gets a session without a state
store: what it adds to the session exists in the parent's memory until the parent writes
the designs, and reviews are invisible to it. The release gate joins the evidence of the
checks, the review decisions and the approval a caller presents, each bound to a hash of
the design it was made for.

The Review Studio server shares nothing with these. It runs one KiCad child at a time
under a non-blocking lock that travels from the handler's thread to a worker's thread.
The verify/repair loop is one synchronous call with callbacks into gate and repair
adapters, which an embedder may replace.

### What is hard, and what correctness means

* *Interleavings.* Between two awaits of a call every other call may run. Right means:
  no commit overwrites another one, no call revives a destroyed session, no audit event
  is lost, locks never form a cycle.
* *Cancellation and timeouts* arrive at any await, also inside the clean-up of an earlier
  one. Right means: a call that did not complete left nothing behind, every call returns
  unless a process outside its worker's group holds its pipes, and no worker outlives the
  report that it was terminated.
* *Partial failure and kills.* Renames, journal writes and transactions fail one by one,
  and the parent may be killed between any two. Right means: all outputs and the state or
  none of them, and the user's files can always be found.
* *Shared database.* Right means: a lineage never forks, history is immutable, nothing in
  use is collected, and memory agrees with what a restart would load.
* *Stale decisions.* Between a check and the use of its result the design may be edited,
  restored or reloaded. Right means: a commit replaces the design it was previewed
  against, evidence never speaks for another design, a denial outlives restarts.
* *Hand-over and clean-up.* A lock that one thread takes and another returns, staged files
  whose owner fails or dies. Right means: one holder, always returned, only verified
  results served, nothing private left behind.
* *Loops and windows.* Right means: the loop ends, reports what it returns and calls
  nothing converged that a gate did not see; lazy pruning decides as if nothing had been
  pruned lazily.

The list of hazards, each at the line where it bites and with the properties that cover
it, is in `PROJECT.json`.

## 2. Modules

| Module | Role |
|---|---|
| `ToolExecution` | the coordinators, workers, threads, cancellations and `session_destroy` |
| `OutputPublication` | one publication, one file-system operation per step |
| `AtomicPublish` | what a publication promises: all outputs appear in one step, or none does |
| `StateStore` | the database, the mappings in front of it, and the processes that share it |
| `DesignTransactions` | snapshots and preview transactions, as overlapping REST calls or as isolated MCP calls |
| `CompareAndSet` | what a commit promises: one compare-and-set of the primary design |
| `ReleaseGate` | evidence, reviews, approvals and exports of one design, on a REST and an MCP server |
| `ReviewStudio` | handler threads, worker threads and native children of the local server, and its library |
| `VerifyRepair` | the loop, its gate and repair adapters and its evidence |
| `ServerClock` | the clock the next two share |
| `RateLimiter` | the table of hits with its lazy and periodic pruning |
| `SlidingWindow` | what the limiter promises: a decision over all admissions of the window |
| `ArtifactStore` | artifact files, records and references, one call or transaction per step |
| `RestService` | composes `RateLimiter` and `ArtifactStore` behind the middleware |
| `MC...` | constants for TLC |
| `...Proofs` | theorems and proofs |

### ToolExecution

A step is the code between two awaits of one coroutine. `pc` is the await at which a
call is suspended:

| `pc` | suspended in |
|---|---|
| `wait_session` | `async with session_execution_lock` |
| `wait_output` | `_acquire_output_locks` |
| `spawning`, `cancel_spawn` | the shielded spawn, before and after a cancellation |
| `communicating` | `asyncio.wait_for` on `process.communicate` |
| `timing_out`, `cancelling` | `_terminate_and_record` |
| `finishing` | `_terminate_worker` after the leader exited |
| `failing` | `_coordinator_error_outcome` terminating a live worker |

`owner` and `waiters` are the `asyncio.Lock`s with their FIFO queues. `designs`, `audit`
and `live` are the in-memory sessions, `clone` is what went into `request.json`, `staging`
what the worker left, `worker` its process group (`exited`: the leader is gone,
descendants are not; `detached`: the group is gone, but a process that left it keeps the
worker's pipes open) and `killer` the jobs whose termination thread is running. A worker
may respond, fail, die without a response, hang for ever or leave descendants that keep
writing. `Faults` selects the operations that may raise; `UnhandledFaults` are the three
whose effect on a commit the code does not undo. Designs are the set of jobs whose
effect they contain and a file is the job that wrote it, so that a lost or a leaked
effect is visible. The persistence of sessions is in `StateStore`; here a session that
is not in memory is one that was never used.

### OutputPublication

ToolExecution takes `_commit_worker_response` as one step, because no await is inside
it. OutputPublication opens that step: journal, backup, rename, state, event, journal,
and the rollback in reverse order, each able to raise, and `Crash` between any two.
`lapsed` remembers that a failure was met which is not undone (the second journal entry,
the restoration of the state, the rollback itself), or that an operator was at work.
`Recover` is what `docs/security/cancellation-safe-tool-execution.md` tells an operator
to do with an abandoned directory. `before` and `wanted` are history variables.
`AtomicPublish` is the abstract specification; the refinement maps the targets to
`RecoverableView`: what is there or, as long as the staging directory exists, can be put
back.

### StateStore

A `BEGIN IMMEDIATE` transaction is one step. `versions`, `heads`, `blobs`, `snaps` and
`sessions` are the tables; a version carries its parent and the operation that wrote it.
`mem` is the `PersistentDesignDict` of each process and session. A commit writes the
database and then memory, an assignment memory and then the database, and `replace_all` its
transaction and then the mapping: each half is a step, so that a kill or another process
comes between. When `replace_all` raises, the session has already been cleared and keeps an
ordinary dict or none (`LoseMapping`); such sessions are `adrift`. `op` is the operation a
process is constructing a store for: the construction walks the manifests of the older
file layout (`todo`) and checks (`ImportCheck`) and imports (`ImportStore`) each in two
separate connections, as `_import_legacy_filesystem` does; the operation's own
transaction follows. `Restart` kills and restarts a process. `dirty` marks designs whose
last assignment raised, and `deleted` the sessions a process deleted: both are history.
Content and its hash are one value, and a version id is the number of the transaction
that wrote it.

### DesignTransactions

`design`, `state`, `passed`, `history` and `snaps` are one session's memory, the `d...`
variables their durable copies. On the `direct` surface a call is a sequence of steps, one
per statement that changes memory or runs a transaction (`pc`, `key`, `val`): the preview
and its record; ERC on the candidate, the verdict and its record; the parent-hash comparison
of the commit, `PersistentDesignDict`'s durable write, its assignment, the record, the
history entry; and likewise snapshot, restore, confirm and the edits that do not go through
a transaction. A durable write in `Faults` may raise; the call then ends where it is. On the
`mcp` surface (`IsolatedStep`) a call is one step, because `ToolExecution` serialises it,
and only the design becomes durable. `Restart` reloads memory from disk. `installed`,
`acked` and `kept` are history: what was really stored, and what callers were told. `cut`
collects the transactions whose commit ended between the store and the record, `contended`
the transactions and labels on which two calls overlapped, and `crossed` says that two calls
wrote the design at once or one wrote it during another's preview; no action reads them. The
refinement maps the primary design to the durable head from the moment a commit has written
it.

### ReleaseGate

`evidence` and `status` are the ERC/DRC evidence and its copy in `validation_status`;
`review` the review cache; `bindings` the approvals the gate has seen with the hash it saw
them for, which are kept in memory only. A check is five steps (run, record the evidence, save
it, copy it into the status, save the copy), a review call four (check, change the cached
object, dump it, save the dump) and an export three (read status, hash and reviews; look at
the components and bind the approval; write): between any two another call of the thread
pool may run. Any approval id that a decision in the cache has can be presented
(`Presented`), whether the decision was saved or not, because `GET` shows it.
`IsolatedExport` is the MCP server's export from the durable session, in a worker that has
no review store. Component coverage, risky packages and the fabrication policy are the
sets and flags the gate of `security/release.py` looks at. `clock` numbers the decisions:
it is both their time and their id. `left` bounds the calls of a behaviour and says which
requests make them. `contended` and `crossed` are history, as in `DesignTransactions`: two
calls changed one review at once; an edit or a decision fell between a call's reading and
its acting.

### ReviewStudio

`req`, `worker` and `child` are where each handler thread, worker thread and native process
stands; `locked` is `worker_lock`; `job`, `reg`, `kind` and `name` the server's
dictionaries; `staged` and `output` the folders on disk; `manifest` is `projects.json`. A
section under the short `lock` is one step. A body is read after the lock was taken
(`ReadBody`); a handler may die with the lock (`leaked`). A timeout kills the direct child
alone, and what that was running goes on (`stray`) and may write once more (`spent`); a
folder may resist its removal. The three draft features (copper, PCB, ECO) share their
actions and differ where their code does, for instance in what a failure removes. Each
behaviour has one element of `Workloads`: which faults it meets and which calls its clients
make.

### VerifyRepair

A design is the set of defects its engines would report; its hash is the design. The gate
adapters are the operators `erc_gate` ... `proof_pack_gate`, which turn defects into
findings by the policy's rules; a gate may also raise, answer for another domain or for
another state of the design, skip the whole or a part of its check, return evidence whose
flags kept their defaults, or be missing. `ApplyAdapter` is the ERC registry, which
also runs on findings the gate left to people, or a custom adapter that edits as it likes.
`Decide`, `RepairError` and `FinishCycle` follow `_run_iterations` branch by branch.

### RateLimiter, ArtifactStore, RestService

A reference is a pair of an artifact and the proof or release that refers to it; releasing
one leaves the others. Every limiter method holds its lock and is one action; `admitted` is
the history the abstract `SlidingWindow` decides from. The artifact store has no lock:
`thread` says at which file-system call or transaction each handler stands, `created`,
`removing`, `early`, `late` and `broken` record what callers were told and which removals
overlapped or were cut short. `RestService` admits a request through the limiter, starts its
handler in a thread, and looks the limiter up again for the headers of the answer. `Kill`
empties the limiter and stops every thread.

## 3. Runs

| Run | Instance | What it shows |
|---|---|---|
| `exec_atomicity` | two sessions, one being destroyed, both calls write the same two targets; every failure the code undoes, two cancellations | `AllOrNothing`, `AuditTellsTruth`, `PublicationIsCommit`, `NoWaitCycle` |
| `exec_reaping` | two calls and a `session_destroy` on one session, failures, one cancellation each, under fairness | `FreshClone`: no commit overwrites another; `DestroyedStaysGone`; `AuditPreserved`; `TerminationConfirmed`; `CallsReturn`; `WorkersReaped` |
| `exec_sqlite_fault` | `sqlite3.Error` in the commit | violates `AllOrNothing` |
| `publish` | three outputs, every failure, the undoing's own included, kills, the operator's clean-up | `OriginalsFindable`, `AtomicAtEnd`, `PublishesAtomically` (refinement of `AtomicPublish`) |
| `store_shared` | two processes, one session, an old file, restarts, failures | `LineageLinear`, `HistoryImmutable` |
| `store_single` | one process, two sessions sharing contents, restarts, failures | `ForeignKeysHold`, `MemoryIsDurable` |
| `tx_calls` | two overlapping REST calls, or MCP calls, every durable write may raise, restarts | `CommitIsCompareAndSet` (refinement of `CompareAndSet`), `AnswersAreDurable`, `RecordsAreHonest` |
| `tx_stale` | two overlapping REST calls | violates `StaleNeverInstalled` |
| `gate_calls` | two overlapping REST calls beside an MCP server, failing writes, restarts | `ReleasedIsSound`, `ApprovalReleasesReviewedState`, `DecisionsAreFinal`, `DeniedIsNotReleased` |
| `studio` | two clients, two jobs, two library names, each fault with the calls it meets | `OneNativeJob`, `ServedIsVerified`, `FailedLeavesNothing`, `LibraryIsWhole`, `LockReturns` |
| `verify_repair` | every starting design over six kinds of defect, two domains, failing gates, the ERC registry and an arbitrary adapter | `TypeOK` with the budget, `ReportBindsResult`, `ConvergedIsClean`, `EvidenceChain`, `AttemptDiscarded`, `Terminates` |
| `rest_service` | three clients at a full table; two threads that create, protect, release, delete and expire two artifacts, with kills and failures | `DecidesAsSlidingWindow` (refinement of `SlidingWindow`), `ListedIsWhole`, `ProtectedIsKept`, `NoGhostRecord`, `TypeOK` with the table's capacity |

`TypeOK` of the other modules, `DeletedHoldsOnlyImports` (`StateStoreSingle.cfg`) and
`WindowBound` (`RestServiceArtifacts.cfg`, proved below) hold on the same instances and can be
added to those configurations.

**Exceptions.** Several properties name what they do not speak of, with a variable that only
remembers whether it happened, so that the run covers everything else: the calls that
overlap in `tx_calls` and `gate_calls` include all pairs, and `contended` and `crossed` take
out the one overlap that breaks the claim. Each exception is a case the code really has;
section 5 lists them with the configuration that shows the property failing without it.

**Bounds.** Two calls and one destroyer are every pair of actors that can meet on a
lock; a third call only repeats a pair. Two targets are the least with a wrong lock
order. `MaxCancels = 2` reaches a cancellation inside the clean-up of another; more are
delivered at the same awaits. Three outputs are the least with one before, one at and
one after the failing one. `MaxStamp` is the number of design transactions: with 3, a
head is written, replaced and restored after a failed commit, or an import meets two
writes. One old file and one design name per session suffice for the store: designs of
one session share only `replace_all`.

Transactions of one design meet only in the design, so one transaction beside edits,
snapshots and restarts shows what another one would do to it; two contents, one passing, are
the least with a stale parent and a failing candidate. The gate's budgets allow either five
edits and checks (pass, change, pass, change back, export) by two clients, four review calls
(open, mark, decide, and one more) by two clients, two of each by two clients, or three of
each by one, who goes from a review over an edit to an export; two passing designs are the
least for which evidence or approval can be taken for another design's, and they and the
review ids are symmetric. Two Studio clients are the holder and the one refused or
overlapping; two jobs are one being discarded and one that starts; the workloads pair each
fault with the calls that have code for it, since one behaviour with every fault and call is
out of reach. Six defects cover the ways the loop treats a finding; `MaxIterations = 2` has
a cycle that is followed by another and by the exhausted budget; at most one gate fails per
pass; `MaxEdit` bounds one adapter's edit, and two adapters act in a cycle. `Limit = MaxKeys
= Window = 2` with three clients fills both the window and the table, and `CleanupInterval =
3` keeps the lazy and the periodic pruning apart. The artifact workloads start three
handlers, with clean-up, protection and kills in workloads of their own; one with two
references of an artifact starts a fourth. The theorems below do not depend on any of these
bounds.

**Deadlock** is checked unless the system may stop. A finished `ToolExecution` or
`OutputPublication` stutters explicitly (`Quiescent`, `Ended`); a store never stops. The
check is off in `studio` (a server that was shut down, or whose workload is used up, is
quiet), `verify_repair` (the run returns) and `rest_service` (the workload ends).

**Fairness** (`FairSpec` of ToolExecution). The event loop runs every ready coroutine, so
each call's own steps are weakly fair; these include the deadline of `asyncio.wait_for`,
which is a timer. The thread that starts a worker ends when `Popen` returns; the one that
terminates it has its own time limits up to the last wait for the leader, which SIGKILL
ends; `session_destroy` is a coroutine too. Nothing is assumed of workers (they may hang),
of processes that left a worker's group (the drain of the pipes may wait for them for ever,
and `CallsReturn` says so), of callers or of cancellations. Weak fairness is enough because
the locks are FIFO. In `ReviewStudio` the steps of handler and worker threads are weakly
fair, the time limit on a child included, and so are the children themselves where the
workload has no `hang`. A client sends its body only where the workload has no `stall`,
since no timeout of the server bounds that wait; a stray KiCad, calls, faults and restarts
are not fair either. `VerifyRepair` is one thread whose adapters return or raise, so
`WF_vars(Next)` says only that it goes on.

## 4. What is proved

Each `...Proofs` module holds an inductive invariant and the theorems that follow. The
theorems assume the named assumptions on the constants and nothing about their size.

**ToolExecutionProofs.** `NextEffect` reduces the steps to a dozen effects on the
variables the safety properties mention (queue, enter, acquire, start, move, stage, end,
commit, escape, destroy), and the invariants are proved over the effects. `FreshClone`
is not inductive by itself: one has to know that a job between its session lock and its
end owns that lock, and that staged outputs are declared ones whose locks the job holds.
So `IsolationInv` is `TypeOK`, `StagingDeclared`, `SessionLockHeld`, `OutputLocksHeld`,
`FreshClone` and `DestroyedStaysGone`. `AtomicityInv` adds that a call that has not
returned has no outcome and no terminal event, and that a worker's copy of the audit
stream holds nothing its session's does not.

* `TypeCorrect`, `NoLostUpdate` (`FreshClone`), `NoResurrection` (`DestroyedStaysGone`),
  `AuditIsAppendOnly` (`AuditPreserved`): under every failure and any number of
  cancellations.
* `CallsAreAtomic` (`AllOrNothing`), `AuditIsTrue` (`AuditTellsTruth`) and
  `OutputsChangeInCommits` (`PublicationIsCommit`): when none of `UnhandledFaults` occurs.
* `TerminationIsConfirmed` (`TerminationConfirmed`): unless a process group survives SIGKILL
  (`"group_survives"`, see section 5). `ReapedInv` says that no call has a worker before it
  starts one, that a call awaits the end of a clean-up only while its group is stopped or
  its termination thread is running, and that an outcome which reports a termination belongs
  to a call whose group is gone.
* `OutputLocksDoNotDeadlock` (`NoWaitCycle`): for any number of calls and targets, whatever
  fails and whoever is cancelled. `WaitInv` says that a queue holds nobody twice and only calls
  that are suspended there, that a target's owner declared it and is inside its session, that
  whatever a job owns is smaller than whatever it has still to take, and that only finitely
  many calls have begun. Around a circle the targets waited for would grow without end; in a finite
  set of jobs the one that waits for the largest breaks it.

**OutputPublicationProofs.** `OriginalsAreFindable` holds for every failure and a kill at
any point; the strengthening says where each original is at each point of the loop.
`PublicationIsAtomic` and `PublicationRefines` have no hypothesis either: every failure may
occur, and the claim stops at the step that is `lapsed`, where the undoing itself failed or
an operator began. Until then `AtomicInv` says that stages below the loop index are
published and those above it untouched, that only `touched` stages differ from what was
there, that the stage being put back is empty, and how state and outcome follow the
position. The refinement shows that each step is the abstract commit, the abstract abort,
or invisible through `RecoverableView`.

**StateStoreProofs.** Every step of a process is one of five effects on the tables
(`TableStep`), so that the tables need no knowledge of the processes apart from their
types. `TableInv` joins types, `ForeignKeysHold`, `LineageLinear` and `Numbered` (every
version is older than the clock and younger than its parent, which makes the new head
newest and childless). The processes need `SnapshotReady`: a process about to write a
snapshot has a design to write.

* `StoreTypeCorrect`, `NoForeignKeyTrips` (`ForeignKeysHold`), `LineageNeverForks`
  (`LineageLinear`), `HistoryIsImmutable` (`HistoryImmutable`): for any number of
  processes, sessions, designs and old files.
* `MemoryIsDurableHolds` (`MemoryIsDurable`): for one process (`OneProcess`), any sessions,
  designs, old files, failures and kills. Two processes that loaded one session do overwrite
  each other's heads, so the hypothesis is needed. The property leaves out a design whose
  write is between its two halves, one whose last assignment raised (`dirty`), and a session
  whose `replace_all` raised after its mapping had been cleared (`adrift`). `DurableInv` joins
  `InMemory` (every other design in memory is its head's content) with `Underway` (what each
  half of a write knows of the other: a session being loaded, a mapping being saved or
  restored, an import). The import of old
  files runs in the construction of every store, under sessions that are loaded; it does no
  harm because every old design of a loaded session already has a head.

**VerifyRepairProofs.** For every set of defects, policy, list of adapters, edit and budget:

* `ReportIsBound` (`ReportBindsResult`). Strengthening: after the first pass the current
  gates are bound to the candidate at every step, not only at the end; the error path keeps
  that because it rebuilds the one gate it replaces with the candidate's hash.
* `EvidenceIsComplete` (`EvidenceChain`). The chain is inductive only with `Position`: how
  the length of the history follows the loop variable at each point of the loop, which
  makes the index of an entry the iteration its repairs are recorded under, and with what
  `Untyped` guarantees, that a changed working copy has at least one application.
* `ConvergenceIsEarned` (`ConvergedIsClean`). `PassingIsClean` goes through the ways a gate
  call can end and the seven gate adapters: gates that all pass are results of adapters that
  ran and found nothing to repair automatically, and, where the flags of the evidence follow
  its findings, found warnings only. Evidence that kept its default flags, and a part of a
  check that was skipped beside a warning, are not excluded (section 5). `CleanInv` adds
  that there is no stop reason before the end and that no other branch produces this one.

* `LoopTypes` (`TypeOK`): the budget caps the iterations used and the passes recorded, which
  needs the bound on the iteration at each point of the loop.
* `AttemptIsDiscarded` (`AttemptDiscarded`). Strengthening: `Judged`, every gate a repair may
  follow ran on the candidate or was skipped, so that the gates kept after a failed cycle are
  those of the design that is returned.

**DesignTransactionsProofs.** For any number of overlapping calls, since REST calls hold no
session lock, beside restarts and failing writes. `TxInv` says that every overlap is
remembered (`OverlapInv`); of each transaction on which no two calls met, that its record in
memory is at least as far as the one on disk, which is at least as far as what a caller was
told, that final records agree (`RecordInv`), and how the record follows the installation of
the candidate (`InstallInv`); of each such snapshot that what a caller was told is on disk
(`SnapInv`); and of each call in progress what its remaining steps may rely on (`CallInv`):
about its record while nobody else works on it, and about the design, for instance that it is
still the parent when a commit stores its candidate, while no other call writes.

* `RecordsAreHonestHolds` (`RecordsAreHonest`), both ways: what is recorded as committed was
  installed and had passed, whatever overlaps; what was installed is recorded as committed
  and never as rolled back or rejected, except on `contended` transactions and those whose
  commit was `cut` between the store and the record.
* `AnswersAreDurableHolds` (`AnswersAreDurable`), outside `contended`.
* `CommitRefinesCompareAndSet` (`CommitIsCompareAndSet`): until two writes of the design
  cross or two calls work on one transaction, every step maps to one of `CompareAndSet` or to
  a stutter. The durable write of a commit is the abstract step; the assignment in memory
  that follows it is invisible, and so is a restart between the two.

**ReleaseGateProofs.** Also for any number of overlapping requests, with every read, change
and save of a review, a check and an export a step of its own. `ReviewInv` says that every
overlap on a review is remembered (`Contention`), that decisions have their own numbers, none
of them in the future (`Dated`), and, for a review on which no two calls met, that a
decision on disk is the one in memory and the one a caller was told (`Settled`) and what the
call in progress holds in its hands (`Operand`, `ReviewTail`). `GateInv` adds `Bound`, which
lasts until an edit or a decision falls between a call's reading and its acting: evidence
that says ok, in memory, in the validation status and on disk, is for a design that passes,
and what a check or an export carries from one step to the next is still so.

* `DecisionsAreFinalHolds` (`DecisionsAreFinal`), outside `contended`.
* `ReleasedIsSoundHolds` (`ReleasedIsSound`), `ApprovalReleasesReviewedStateHolds`
  (`ApprovalReleasesReviewedState`), `DeniedIsNotReleasedHolds` (`DeniedIsNotReleased`): until
  a call has `crossed` another; beside an MCP server, failing writes and restarts.

**ReviewStudioProofs.** No hypothesis but the assumptions on the constants: any number of
clients, jobs and names and every workload. `StudioInv` gives the life of a job id
(`JobLife`: fresh until staged, judged once, recorded as what it was judged), what a handler
may rely on at each point of its call (`HandlerLife`) and how the folders follow the child
and the verdict (`JobFiles`). `OneNativeJob` is a part of it: where the lock is handed from
handler to worker and back, the invariant has to say that the holder is unique. It is about
the lock alone: a KiCad that outlived its child or its server may run beside a new job.

* `OneNativeJobHolds` (`OneNativeJob`), `ServedIsVerifiedHolds` (`ServedIsVerified`),
  `FailedLeavesNothingHolds` (`FailedLeavesNothing`).
  The last excepts folders that resisted removal and output a stray KiCad wrote later.
* `LibraryIsWholeHolds` (`LibraryIsWhole`). `LibraryInv` adds, as long as the server lives,
  that rows are *kept*: their review has both folders and its child or its verdict vouches
  for it, or the row is of an import that failed after it was registered; and that the copy
  of the manifest a child or a deletion has read is still the manifest when it writes, which
  is what the worker lock is for.

**RestServiceProofs.** No hypothesis either. `ServiceInv` joins four parts. `StoreInv` says
for each artifact what every thread at work on it knows (`BuildingOf`, `OneCreatorOf`), that
the directory goes last (`FilesOf`), that no removal is past its check while a reference
that was registered in time protects the artifact (`KeptOf`), and which thread still owes
the deletion of a record (`GhostOf`). `LimiterInv` says that a key's recent hits are exactly
its recent admissions, one to one and in order. `ServingOK` says that a busy thread answers
a client, and `WindowsOK` bounds the admissions of every window.

* `ServiceTypes` (`TypeOK`), `ListedIsWholeHolds` (`ListedIsWhole`), `ProtectedIsKeptHolds`
  (`ProtectedIsKept`), `NoGhostRecordHolds` (`NoGhostRecord`), `WindowBoundHolds`.
* `LimiterImplementsWindow` (`DecidesAsSlidingWindow`): the table with its lazy and periodic
  pruning refines `SlidingWindow`, which decides from every admission ever made.

**The hypotheses.** `OneProcess` says that at most one process has the database, and
`CallsAreAtomic`, `TerminationIsConfirmed` and their kin exclude named members of `Faults`;
there are no others. For each of these TLC finds a counterexample to the property when the
hypothesis is dropped (two members of `Procs`, or the excluded fault; see section 5). What a
theorem does not speak of is otherwise said in its property, by the history variables of
section 3. Two assumptions on constants serve the proofs: in `ReviewStudio` that `None` and
`External` differ from ids, names and job states, in `ReleaseGate` that `None` is no record.
TLC evaluates both.

**Only model-checked:** liveness (`CallsReturn`, `WorkersReaped`, `LockReturns`, `Terminates`),
which is outside what TLAPS proves. Every invariant, action property and refinement the
passing runs check is proved. Not proved is `DeletedHoldsOnlyImports`, which no run lists.

## 5. Observations

Where the code and a document, comment or test disagree. Two are runs of the project:

* `exec_sqlite_fault`: `sqlite3.Error` is in no `except` of `execution.py`, so outputs (and
  sometimes state) stay behind a call that raised.
* `tx_stale`, `StaleNeverInstalled`: a REST request that edits the design between another
  one's parent-hash comparison and its store is overwritten
  (`docs/strategy/transaction-runtime.md:31`). This is what `crossed` excepts.

The others are reproduced by a configuration kept beside the module, which TLC ends with a
counterexample:

* `ToolExecutionCancelFinishing.cfg`, `CancelledAfterTermination`: a cancellation that
  arrives while the coordinator stops the descendants of a finished worker is re-raised
  before they are gone.
* `OutputPublicationRecovery.cfg`, `RecoveryRestores`: an output that replaced nothing
  leaves no backup, so the documented clean-up takes a directory of a half-published job for
  one that published nothing.
* `StateStoreImportAgain.cfg`, `DeletedStaysDeleted`: the old file of a destroyed session is
  imported again by the next store that is constructed.
* `StateStoreImportRace.cfg`, `ImportSupersedesNothing`: the import checks for a head in one
  connection and writes in another, and can put the old payload over a newer design.
* `StateStoreAdrift.cfg`, `MappingIsKept`: a replacement clears the session before
  `replace_all`, so when that raises the session is left with an ordinary dict, and what is
  then assigned gets no version (`docs/storage/persistent-state.md:48`). This is what `adrift`
  excepts.
* `DesignTransactionsCutCommit.cfg`, `RolledBackIsUnapplied`: a commit that ends between the
  store and the record leaves an installed transaction open, which can then be rolled back,
  though the document says `rolled_back` means "without mutating the primary state"
  (`docs/strategy/transaction-runtime.md:17`). This is what `cut` excepts.
* `ReleaseGateThreads.cfg`, `EvidenceIsBound`: the hash is taken after the check, so an edit
  by another request comes between (`zaptrace/agent/tool_impls/runtime.py:336` says "bound
  to the exact design state it evaluated"). This, and the same gap between gate and export,
  is what `crossed` excepts.
* `ReleaseGateRivals.cfg`, `DecisionIsImmutable`: two requests that decide one review both
  pass the check and the later one replaces the decision (`zaptrace/review/workflow.py:342`
  calls it immutable). This is what `contended` excepts.
* `ReleaseGateMcp.cfg`, `DenialBlocksEveryExport`: a worker has no review store, so an
  export through MCP does not see a denial (`docs/product/review-studio.md:252`).
* `ReviewStudioCard.cfg`, `FailedImportLeavesNoCard`: the child registers a review before it
  renders the library; when the second step fails, a failed import has a card
  (the comment at `scripts/review_studio_local_server.py:1892` excludes it).
* `VerifyRepairSkipped.cfg`, `SkippedNeverPasses`: a skip beside a warning has the verdict
  of the warning, and evidence that kept its default flags passes with the verdict skipped
  (`verify_repair_models.py:238`: skipped evidence "never becomes an autonomous pass").
* `RestServiceLateReference.cfg`, `RemovalFailsClosed`: a reference registered between a
  removal's check and the removal does not protect
  (`docs/storage/persistent-state.md:120`). This is what `late` excepts.
* `GateErrorsAreNamed` added to `VerifyRepairRelease.cfg`: a gate that fails after a repair
  can end the run as `no-progress` or `iteration-budget-exhausted`
  (`docs/benchmarks/release-verify-repair-convergence.md:38`).

Reached by the same models with other constants, and the reason the passing runs exclude
them:

* the `committing_state` journal is written outside the block that rolls back
  (`Faults = {"committing_journal"}`, `AllOrNothing`);
* a rollback that fails half-way is followed by the removal of the remaining backups: this,
  that journal and a failed restoration of the state are what `lapsed` excepts in `AtomicAtEnd`;
* a process group that survives SIGKILL is reported as terminated, since the outcome asks
  the leader only (`Faults = {"group_survives"}`, `TerminationConfirmed`);
* two processes that loaded one session overwrite each other's heads
  (`StateStoreShared.cfg`, `MemoryIsDurable`);
* a second cancellation while a cancelled spawn is being collected leaves a worker without
  an owner (`MaxCancels = 2`, `WorkersReaped`);
* snapshots and transactions made through MCP are not durable: `AnswersAreDurable` is
  claimed for the direct surface;
* a removal that overlaps the creation leaves its record behind (`early` in
  `NoGhostRecord`);
* a process that left the worker's group and keeps its pipes open holds up the drain after a
  timeout or a cancellation, which has no deadline, and every call behind its locks
  (`CallsReturn` without `Draining`);
* a client that stops sending its body keeps `worker_lock`, and so does a handler that an
  uncaught exception ends after it took the lock (`LockReturns` names both);
* a KiCad that outlives the child it was started by may write into a folder that was just
  removed (`FailedLeavesNothing` without `spent`).

Hazards that no module reaches yet and that are not in `PROJECT.json`: output paths of
different calls that contain each other (`execution.py:232`); a durable deletion that raises
after the session left memory (`mcp/server.py:813`); an audit event that inserts the row of
a destroyed session again (`state_store_records.py:390`); two processes writing their whole
mapping with `replace_all` (`session_store.py:220`); a kill inside a migration
(`state_store.py:91`); `restore_from_backup` under open connections (`state_store.py:450`).

## 6. Plan

Done: what every tool call passes through (`ToolExecution`, `OutputPublication`,
`StateStore`), what decides whether a design may be released (`DesignTransactions`,
`ReleaseGate`, `ReviewStudio`, `VerifyRepair`), and the REST server's limits and artifacts.
Next, in this order:

1. Proofs: `DeletedHoldsOnlyImports`, and the commit step of `ToolExecution` as the abstract
   step of `AtomicPublish`.
2. `ObjectAccess`: ownership with cascaded removal and what a restart reloads.
3. `StateStore` with backup and restore, object-access rows and the records of the modules
   that now stand beside it.
4. `WorkflowCheckpoint`, `Candidates`, `MultiDomainLoop` and `Sandbox`.
5. A composition of `ToolExecution` with `OutputPublication`: the commit step refined by
   the operations inside it, with nested output paths of different calls.

## 7. Not modelled

* The contents of designs, files, events and messages, and everything that computes them.
* Most of the repository's 121,000 lines: placement and routing, electrical analyses, rule
  predicates, synthesis, component tables, importers and exporters, release and benchmark
  scripts. They compute a result from a design, have no state between calls and no second
  actor; a model of them would repeat their formulas. The models here therefore cover a
  small share of the lines, and that share is where state, failure and concurrency are.
* Inside `DesignTransactions` and `ReleaseGate`: more than one design of a session, who may
  call what, and the contents of checks, reports and exports.
* Inside `ReviewStudio`: request validation (a call may simply be refused), polling and
  pages, which only read, and the native tools themselves.
* Inside `VerifyRepair`: the engines behind the gates, the report file and its digest.
* Inside `RestService`: authentication, client addresses, CORS, the other routes, and a
  wall clock that steps back.
* Inside `ToolExecution`: output paths of different calls that contain each other (their
  locks are independent in the code), and failures of the event loop itself.
* Inside `StateStore`: migrations, backup and restore, object-access and artifact rows,
  records other than snapshots, busy time-outs as anything but a failed transaction, and
  `SessionDesignStore`, the writer of the older file layout, which only tests still construct.
* Processes that load the same session and overwrite each other's memory: the model allows
  it, and `store_shared` shows that the lineage keeps both, but which one wins is left open
  by the documents.
