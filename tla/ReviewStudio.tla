---------------------------- MODULE ReviewStudio ----------------------------
(***************************************************************************)
(* The local Review Studio server (scripts/review_studio_local_server.py)  *)
(* and the project library it keeps (review_studio_library.py,             *)
(* review_studio_workspace.py).                                            *)
(*                                                                         *)
(* Every HTTP call has a thread of its own.  A call that needs KiCad takes *)
(* worker_lock without blocking (409 when it is held), stages its input    *)
(* under a fresh job id, registers the job and hands the lock over to a    *)
(* worker thread, which waits for a native child process, cleans up,       *)
(* records the outcome and releases the lock.  Export, audit, inspection   *)
(* and deletion keep the lock in the handler.  The dictionaries of jobs    *)
(* and outputs are guarded by the short `lock': each section under it is   *)
(* one step here.  Children of an import rewrite the library manifest and  *)
(* outlive a server that dies; the KiCad process that a child runs may     *)
(* outlive the child.                                                      *)
(***************************************************************************)
EXTENDS Naturals

CONSTANTS
    Requests,       \* threads that serve HTTP calls, one call at a time each
    Jobs,           \* job ids (uuid4), each used once
    Names,          \* display names of library entries (their slugs)
    Workloads,      \* pairs: the faults a behaviour may meet, the calls it makes
    None,           \* no job, no name, an absent manifest row
    External        \* a review registered from outside the workspace

\* "thread": the operating system refuses a new thread;  "hang": a child
\* exceeds its timeout;  "die": the server process is killed or shut down;
\* "edit": the user changes the evidence of the external review;  "stall": a
\* client does not send the body it announced;  "error": a handler meets a
\* RuntimeError, such as the RecursionError of a deeply nested body;
\* "render": the page of the library cannot be written;  "keep": a folder
\* cannot be removed.
FaultNames == {"thread", "hang", "die", "edit", "stall", "error", "render", "keep"}

VARIABLES
    faults,     \* what this behaviour may meet, fixed
    calls,      \* the calls its clients make besides downloads and discards
    server,     \* "up", "stopping" (shutdown answered) or "down"
    locked,     \* worker_lock
    req,        \* what each handler thread is doing
    job,        \* ReviewLocalServer.jobs: the state of each id
    reg,        \* ids in the output dictionary of their kind
    kind,       \* which feature the id belongs to (its folder on disk)
    name,       \* display name an import runs under
    staged,     \* ids whose staging folder exists
    output,     \* the result folder of each id
    child,      \* the native process of each job
    seen,       \* the manifest an import's child has read
    worker,     \* the worker thread of each job
    verdict,    \* the `result' state a worker has settled on
    manifest,   \* projects.json: the review each name stands for
    extOk       \* the external review still matches its registration

jobVars  == <<job, reg, kind, name>>
diskVars == <<staged, output>>
runVars  == <<child, seen, worker, verdict>>
libVars  == <<manifest, extOk>>
vars == <<faults, calls, server, locked, req, jobVars, diskVars, runVars, libVars>>

Drafts == {"copper", "pcb", "eco"}
Kinds  == Drafts \cup {"import"}
Starts == Drafts \cup {"import", "restore"}
Calls  == Starts \cup {"delete", "inline"}   \* inline: export, audit, inspection

ASSUME SentinelsAreNotIds ==
    /\ None \notin Jobs \cup Names /\ External \notin Jobs /\ External # None
    /\ None \notin Kinds \cup {"complete", "failed"}
    /\ Requests \cap Jobs = {}

ASSUME WorkloadsAreKnown == Workloads \subseteq (SUBSET FaultNames) \X (SUBSET Calls)

NoRows == [n \in Names |-> None]
Idle == [pc |-> "idle", op |-> None, j |-> None, body |-> None, rows |-> NoRows]

----------------------------------------------------------------------------
(* The library. *)

\* _read_projects succeeds: every registered review is there and unchanged.
Readable(rows) ==
    \A n \in Names : /\ rows[n] \in Jobs => output[rows[n]] = "full"
                     /\ rows[n] = External => extOk

Listed(j) == \E n \in Names : manifest[n] = j

\* How render_workspace ends: it raises when a row is not readable, or after
\* reading, when index.html cannot be built or written.
Rendered(ok) ==
    IF ok THEN Readable(manifest) ELSE ~Readable(manifest) \/ "render" \in faults

\* Whether shutil.rmtree leaves the folder behind.
Leaves == IF "keep" \in faults THEN BOOLEAN ELSE {FALSE}

Less(S, j, left) == IF left THEN S ELSE S \ {j}

Init ==
    /\ \E w \in Workloads : faults = w[1] /\ calls = w[2]
    /\ server = "up" /\ locked = FALSE
    /\ req = [r \in Requests |-> Idle]
    /\ job = [j \in Jobs |-> "unused"] /\ reg = {}
    /\ kind = [j \in Jobs |-> None] /\ name = [j \in Jobs |-> None]
    /\ staged = {} /\ output = [j \in Jobs |-> "absent"]
    /\ child = [j \in Jobs |-> "none"] /\ seen = [j \in Jobs |-> NoRows]
    /\ worker = [j \in Jobs |-> "none"] /\ verdict = [j \in Jobs |-> None]
    /\ manifest \in [Names -> {None, External}] /\ extOk = TRUE

----------------------------------------------------------------------------
(* Taking the lock, and calls that keep it in the handler. *)

\* worker_lock.acquire(blocking=False); a held lock is answered with 409 and
\* changes nothing.  The body is read afterwards, with the lock.
Acquire(r, op) ==
    /\ server # "down" /\ req[r] = Idle /\ ~locked
    /\ op \in calls
    /\ locked' = TRUE
    /\ req' = [req EXCEPT ![r] = [Idle EXCEPT !.pc = "body", !.op = op]]
    /\ UNCHANGED <<faults, calls, server, jobVars, diskVars, runVars, libVars>>

\* rfile.read(length): no deadline bounds it.
ReadBody(r) ==
    /\ req[r].pc = "body"
    /\ req' = [req EXCEPT ![r].pc = "held"]
    /\ UNCHANGED <<faults, calls, server, locked, jobVars, diskVars, runVars, libVars>>

\* Export, audit and inspection answer and release in `finally'; so does any
\* start or deletion that is refused, after removing what it staged.
Release(r) ==
    /\ req[r].pc \in {"held", "staged"}
    /\ \E left \in Leaves : staged' = Less(staged, req[r].j, left)
    /\ locked' = FALSE
    /\ req' = [req EXCEPT ![r] = Idle]
    /\ UNCHANGED <<faults, calls, server, jobVars, output, runVars, libVars>>

----------------------------------------------------------------------------
(* Starting a job. *)

\* A fresh id and its staging folder.  Restoring reads the library and
\* refuses a name that it already has; importing does not look.
Stage(r, j, n) ==
    /\ req[r].pc = "held" /\ req[r].op \in Starts
    /\ job[j] = "unused" /\ kind[j] = None
    /\ req[r].op = "restore" => Readable(manifest) /\ manifest[n] = None
    /\ staged' = staged \cup {j}
    /\ kind' = [kind EXCEPT ![j] = IF req[r].op = "restore" THEN "import" ELSE req[r].op]
    /\ name' = [name EXCEPT ![j] = IF kind'[j] = "import" THEN n ELSE None]
    /\ req' = [req EXCEPT ![r].pc = "staged", ![r].j = j]
    /\ UNCHANGED <<faults, calls, server, locked, job, reg, output, runVars, libVars>>

\* jobs[id] and the output dictionary of the kind, under `lock'.
Register(r) ==
    /\ req[r].pc = "staged"
    /\ job' = [job EXCEPT ![req[r].j] = "running"]
    /\ reg' = reg \cup {req[r].j}
    /\ req' = [req EXCEPT ![r].pc = "registered"]
    /\ UNCHANGED <<faults, calls, server, locked, kind, name, diskVars, runVars, libVars>>

\* Mutant: the handler's `finally' releases the lock it has handed over.
StartWorkerMutant(r) ==
    /\ req[r].pc = "registered"
    /\ worker' = [worker EXCEPT ![req[r].j] = "waiting"]
    /\ child' = [child EXCEPT ![req[r].j] = "build"]
    /\ req' = [req EXCEPT ![r] = Idle]
    /\ locked' = FALSE
    /\ UNCHANGED <<faults, calls, server, jobVars, diskVars, seen, verdict, libVars>>

\* thread.start(): from here the worker owns the lock.
StartWorker(r) ==
    /\ req[r].pc = "registered"
    /\ worker' = [worker EXCEPT ![req[r].j] = "waiting"]
    /\ child' = [child EXCEPT ![req[r].j] = "build"]
    /\ req' = [req EXCEPT ![r] = Idle]
    /\ UNCHANGED <<faults, calls, server, locked, jobVars, diskVars, seen, verdict, libVars>>

\* The two ECO handlers do not catch a RuntimeError: the handler's thread dies
\* with the lock.  In the others it is one more refusal.
HandlerError(r) ==
    /\ "error" \in faults /\ req[r].pc \in {"held", "staged"}
    /\ req[r].op \in {"pcb", "eco"}
    /\ req' = [req EXCEPT ![r].pc = "leaked"]
    /\ UNCHANGED <<faults, calls, server, locked, jobVars, diskVars, runVars, libVars>>

\* thread.start() raises RuntimeError, with the same outcome in the two ECO
\* handlers.  The others clean up and release, and the job stays registered
\* as running.
StartFails(r) ==
    /\ "thread" \in faults /\ req[r].pc = "registered"
    /\ IF req[r].op \in {"pcb", "eco"}
       THEN /\ req' = [req EXCEPT ![r].pc = "leaked"]
            /\ UNCHANGED <<locked, staged>>
       ELSE /\ req' = [req EXCEPT ![r] = Idle]
            /\ locked' = FALSE
            /\ \E left \in Leaves : staged' = Less(staged, req[r].j, left)
    /\ UNCHANGED <<faults, calls, server, jobVars, output, runVars, libVars>>

----------------------------------------------------------------------------
(* The native child.  Only an import's child touches the library.          *)

Running == {"build", "plot", "read", "write", "render"}

ChildBuild(j) ==
    /\ child[j] = "build"
    /\ output' = [output EXCEPT ![j] = "partial"]
    /\ child' = [child EXCEPT ![j] = "plot"]
    /\ UNCHANGED <<faults, calls, server, locked, req, jobVars, staged, seen, worker, verdict, libVars>>

ChildBuilt(j) ==
    /\ child[j] = "plot"
    /\ \/ /\ output' = [output EXCEPT ![j] = "full"]
          /\ child' = [child EXCEPT ![j] = IF kind[j] = "import" THEN "read" ELSE "ok"]
       \/ /\ child' = [child EXCEPT ![j] = "bad"]
          /\ UNCHANGED output
    /\ UNCHANGED <<faults, calls, server, locked, req, jobVars, staged, seen, worker, verdict, libVars>>

\* _append_projects: reads the manifest, keeps the other rows, replaces it.
ChildRead(j) ==
    /\ child[j] = "read"
    /\ IF output[j] = "full"
       THEN child' = [child EXCEPT ![j] = "write"] /\ seen' = [seen EXCEPT ![j] = manifest]
       ELSE child' = [child EXCEPT ![j] = "bad"] /\ UNCHANGED seen
    /\ UNCHANGED <<faults, calls, server, locked, req, jobVars, diskVars, worker, verdict, libVars>>

ChildWrite(j) ==
    /\ child[j] = "write"
    /\ manifest' = [seen[j] EXCEPT ![name[j]] = j]
    /\ seen' = [seen EXCEPT ![j] = NoRows]
    /\ child' = [child EXCEPT ![j] = "render"]
    /\ UNCHANGED <<faults, calls, server, locked, req, jobVars, diskVars, worker, verdict, extOk>>

\* render_workspace; the row stays registered when it raises.
ChildRender(j) ==
    /\ child[j] = "render"
    /\ \E ok \in BOOLEAN : /\ Rendered(ok)
                           /\ child' = [child EXCEPT ![j] = IF ok THEN "ok" ELSE "bad"]
    /\ UNCHANGED <<faults, calls, server, locked, req, jobVars, diskVars, seen, worker, verdict, libVars>>

ChildStep(j) ==
    ChildBuild(j) \/ ChildBuilt(j) \/ ChildRead(j) \/ ChildWrite(j) \/ ChildRender(j)

\* The kicad-cli process of a child that was killed ends some time later, and
\* may have put its files back into the folder by then.
StrayEnds(j) ==
    /\ child[j] = "stray"
    /\ \/ child' = [child EXCEPT ![j] = "none"] /\ UNCHANGED output
       \/ child' = [child EXCEPT ![j] = "spent"] /\ output' = [output EXCEPT ![j] = "partial"]
    /\ UNCHANGED <<faults, calls, server, locked, req, jobVars, staged, seen, worker, verdict, libVars>>

----------------------------------------------------------------------------
(* The worker thread. *)

\* The child has exited.  A draft is complete only if its evidence also
\* matches the request; an import's exit code decides alone.
WorkerJudge(j) ==
    /\ worker[j] = "waiting" /\ child[j] \in {"ok", "bad"}
    /\ \E v \in {"complete", "failed"} :
          /\ child[j] = "bad" => v = "failed"
          /\ (child[j] = "ok" /\ kind[j] = "import") => v = "complete"
          /\ verdict' = [verdict EXCEPT ![j] = v]
    /\ child' = [child EXCEPT ![j] = "none"]
    /\ worker' = [worker EXCEPT ![j] = "cleanup"]
    /\ UNCHANGED <<faults, calls, server, locked, req, jobVars, diskVars, seen, libVars>>

\* subprocess.TimeoutExpired: the child is killed wherever it is, and only the
\* child: what it runs itself goes on.  The schematic ECO runs in the worker
\* and its children are direct.
WorkerTimeout(j) ==
    /\ "hang" \in faults /\ worker[j] = "waiting" /\ child[j] \in Running
    /\ \E rest \in {"none", "stray"} :
          /\ rest = "stray" => kind[j] # "eco" /\ child[j] \in {"build", "plot"}
          /\ child' = [child EXCEPT ![j] = rest]
    /\ seen' = [seen EXCEPT ![j] = NoRows]
    /\ verdict' = [verdict EXCEPT ![j] = "failed"]
    /\ worker' = [worker EXCEPT ![j] = "cleanup"]
    /\ UNCHANGED <<faults, calls, server, locked, req, jobVars, diskVars, libVars>>

\* Mutants: the results of a failed job stay; the staged sources of a
\* reviewed import go.
KeepFailedMutant(j) ==
    /\ worker[j] = "cleanup"
    /\ staged' = IF kind[j] = "import" /\ verdict[j] = "complete" THEN staged ELSE staged \ {j}
    /\ worker' = [worker EXCEPT ![j] = "record"]
    /\ UNCHANGED <<faults, calls, server, locked, req, jobVars, output, child, seen, verdict, libVars>>

DropStagedMutant(j) ==
    /\ worker[j] = "cleanup"
    /\ output' = IF verdict[j] = "failed" THEN [output EXCEPT ![j] = "absent"] ELSE output
    /\ staged' = staged \ {j}
    /\ worker' = [worker EXCEPT ![j] = "record"]
    /\ UNCHANGED <<faults, calls, server, locked, req, jobVars, child, seen, verdict, libVars>>

\* The first part of `finally': folders.  A reviewed import keeps its staged
\* sources for export.
WorkerCleanup(j) ==
    /\ worker[j] = "cleanup"
    /\ \E left \in Leaves :
          output' = IF verdict[j] = "failed" /\ ~left THEN [output EXCEPT ![j] = "absent"] ELSE output
    /\ \E left \in Leaves :
          staged' = Less(staged, j, left \/ (kind[j] = "import" /\ verdict[j] = "complete"))
    /\ worker' = [worker EXCEPT ![j] = "record"]
    /\ UNCHANGED <<faults, calls, server, locked, req, jobVars, child, seen, verdict, libVars>>

\* Mutant: a failed job returns before the release.
WorkerRecordMutant(j) ==
    /\ worker[j] = "record"
    /\ job' = [job EXCEPT ![j] = verdict[j]]
    /\ reg' = IF verdict[j] = "failed" /\ kind[j] \in Drafts THEN reg \ {j} ELSE reg
    /\ worker' = [worker EXCEPT ![j] = IF verdict[j] = "failed" THEN "none" ELSE "release"]
    /\ UNCHANGED <<faults, calls, server, locked, req, kind, name, diskVars, child, seen, verdict, libVars>>

\* The second: jobs[id].update under `lock', which raises KeyError for a job
\* that is gone and then never reaches the release.
WorkerRecord(j) ==
    /\ worker[j] = "record"
    /\ IF job[j] = "running"
       THEN /\ job' = [job EXCEPT ![j] = verdict[j]]
            /\ reg' = IF verdict[j] = "failed" /\ kind[j] \in Drafts THEN reg \ {j} ELSE reg
            /\ worker' = [worker EXCEPT ![j] = "release"]
       ELSE worker' = [worker EXCEPT ![j] = "none"] /\ UNCHANGED <<job, reg>>
    /\ UNCHANGED <<faults, calls, server, locked, req, kind, name, diskVars, child, seen, verdict, libVars>>

WorkerRelease(j) ==
    /\ worker[j] = "release"
    /\ locked' = FALSE
    /\ worker' = [worker EXCEPT ![j] = "none"]
    /\ UNCHANGED <<faults, calls, server, req, jobVars, diskVars, child, seen, verdict, libVars>>

WorkerStep(j) ==
    WorkerJudge(j) \/ WorkerTimeout(j) \/ WorkerCleanup(j) \/ WorkerRecord(j) \/ WorkerRelease(j)

----------------------------------------------------------------------------
(* Downloads and discards. *)

\* Copper results are read while `lock' is held.
ServeCopper(r, j) ==
    /\ server # "down" /\ req[r] = Idle
    /\ kind[j] = "copper" /\ j \in reg /\ job[j] = "complete" /\ output[j] # "absent"
    /\ req' = [req EXCEPT ![r] = [Idle EXCEPT !.pc = "replied", !.j = j, !.body = output[j]]]
    /\ UNCHANGED <<faults, calls, server, locked, jobVars, diskVars, runVars, libVars>>

\* Mutant: the state of the job is not looked at.
LookUpMutant(r, j) ==
    /\ server # "down" /\ req[r] = Idle
    /\ kind[j] \in {"pcb", "eco"} /\ j \in reg
    /\ req' = [req EXCEPT ![r] = [Idle EXCEPT !.pc = "reading", !.j = j]]
    /\ UNCHANGED <<faults, calls, server, locked, jobVars, diskVars, runVars, libVars>>

\* The ECO downloads look the folder up under `lock' and read it afterwards.
LookUp(r, j) ==
    /\ server # "down" /\ req[r] = Idle
    /\ kind[j] \in {"pcb", "eco"} /\ j \in reg /\ job[j] = "complete"
    /\ req' = [req EXCEPT ![r] = [Idle EXCEPT !.pc = "reading", !.j = j]]
    /\ UNCHANGED <<faults, calls, server, locked, jobVars, diskVars, runVars, libVars>>

ReadFile(r) ==
    /\ req[r].pc = "reading"
    /\ req' = [req EXCEPT ![r] = IF output[req[r].j] = "absent" THEN Idle
                                 ELSE [@ EXCEPT !.pc = "replied", !.body = output[req[r].j]]]
    /\ UNCHANGED <<faults, calls, server, locked, jobVars, diskVars, runVars, libVars>>

EndReply(r) ==
    /\ req[r].pc = "replied"
    /\ req' = [req EXCEPT ![r] = Idle]
    /\ UNCHANGED <<faults, calls, server, locked, jobVars, diskVars, runVars, libVars>>

Discardable(j) == job[j] \in {"complete", "failed"}

\* The discard of feature k pops the job whatever its kind, and the output
\* only from the dictionary of k; then the folder is removed outside `lock',
\* and nothing refers to it any more if that fails.
Discard(r, k, j) ==
    /\ server # "down" /\ req[r] = Idle /\ k \in Drafts
    /\ Discardable(j)
    /\ job' = [job EXCEPT ![j] = "absent"]
    /\ IF kind[j] = k /\ j \in reg
       THEN /\ reg' = reg \ {j}
            /\ req' = [req EXCEPT ![r] = [Idle EXCEPT !.pc = "erasing", !.j = j]]
       ELSE UNCHANGED <<reg, req>>
    /\ UNCHANGED <<faults, calls, server, locked, kind, name, diskVars, runVars, libVars>>

Erase(r) ==
    /\ req[r].pc = "erasing"
    /\ \E left \in Leaves :
          output' = IF left THEN output ELSE [output EXCEPT ![req[r].j] = "absent"]
    /\ req' = [req EXCEPT ![r] = Idle]
    /\ UNCHANGED <<faults, calls, server, locked, jobVars, staged, runVars, libVars>>

----------------------------------------------------------------------------
(* Deleting a review of the library, with worker_lock held. *)

\* _record: one row, a readable library and both managed folders.
DeleteRecord(r, n) ==
    /\ req[r].pc = "held" /\ req[r].op = "delete"
    /\ Readable(manifest) /\ manifest[n] \in staged
    /\ req' = [req EXCEPT ![r].pc = "unlisting", ![r].j = manifest[n], ![r].rows = manifest]
    /\ UNCHANGED <<faults, calls, server, locked, jobVars, diskVars, runVars, libVars>>

\* The manifest without the row, renamed over the old one.
DeleteUnlist(r) ==
    /\ req[r].pc = "unlisting"
    /\ manifest' = [n \in Names |-> IF req[r].rows[n] = req[r].j THEN None ELSE req[r].rows[n]]
    /\ req' = [req EXCEPT ![r].pc = "rendering"]
    /\ UNCHANGED <<faults, calls, server, locked, jobVars, diskVars, runVars, extOk>>

\* render_workspace; when it raises, the old manifest comes back.
DeleteRender(r) ==
    /\ req[r].pc = "rendering"
    /\ \/ /\ Rendered(TRUE)
          /\ req' = [req EXCEPT ![r].pc = "removing"]
          /\ UNCHANGED <<locked, manifest>>
       \/ /\ Rendered(FALSE)
          /\ manifest' = req[r].rows
          /\ locked' = FALSE
          /\ req' = [req EXCEPT ![r] = Idle]
    /\ UNCHANGED <<faults, calls, server, jobVars, diskVars, runVars, extOk>>

\* First the review, then the staged sources; a folder that stays ends it.
DeleteRemove(r) ==
    /\ req[r].pc = "removing"
    /\ \E review, sources \in Leaves :
          /\ review => sources
          /\ output' = IF review THEN output ELSE [output EXCEPT ![req[r].j] = "absent"]
          /\ staged' = Less(staged, req[r].j, sources)
    /\ locked' = FALSE
    /\ req' = [req EXCEPT ![r] = Idle]
    /\ UNCHANGED <<faults, calls, server, jobVars, runVars, libVars>>

----------------------------------------------------------------------------
(* The process. *)

\* A shutdown is refused while worker_lock is held; otherwise it is answered
\* and a thread stops the server some time later.
Shutdown(r) ==
    /\ "die" \in faults /\ server = "up" /\ req[r] = Idle /\ ~locked
    /\ server' = "stopping"
    /\ UNCHANGED <<faults, calls, locked, req, jobVars, diskVars, runVars, libVars>>

\* The process ends, by shutdown or by a signal: daemon threads, locks and
\* dictionaries go; native children go on, of the in-process ECO the one that
\* it was waiting for.
Die ==
    /\ "die" \in faults /\ server # "down"
    /\ server' = "down" /\ locked' = FALSE
    /\ req' = [r \in Requests |-> Idle]
    /\ job' = [j \in Jobs |-> IF job[j] = "unused" THEN "unused" ELSE "absent"]
    /\ reg' = {}
    /\ worker' = [j \in Jobs |-> "none"]
    /\ child' = [j \in Jobs |-> IF kind[j] # "eco" THEN child[j]
                               ELSE IF child[j] \in {"build", "plot"} THEN "stray"
                               ELSE IF child[j] \in {"ok", "bad"} THEN "none" ELSE child[j]]
    /\ UNCHANGED <<faults, calls, kind, name, diskVars, seen, verdict, libVars>>

\* ReviewLocalServer.__init__: the copper folders of earlier processes go.
Restart ==
    /\ server = "down"
    /\ server' = "up"
    /\ output' = [j \in Jobs |-> IF kind[j] = "copper" THEN "absent" ELSE output[j]]
    /\ staged' = {j \in staged : kind[j] # "copper"}
    /\ UNCHANGED <<faults, calls, locked, req, jobVars, runVars, libVars>>

\* The user edits or repairs the evidence of the external review.
EditExternal ==
    /\ "edit" \in faults
    /\ extOk' = ~extOk
    /\ UNCHANGED <<faults, calls, server, locked, req, jobVars, diskVars, runVars, manifest>>

----------------------------------------------------------------------------
HandlerStep(r) ==
    \/ Release(r) \/ HandlerError(r) \/ Register(r) \/ StartWorker(r) \/ StartFails(r)
    \/ ReadFile(r) \/ EndReply(r) \/ Erase(r)
    \/ DeleteUnlist(r) \/ DeleteRender(r) \/ DeleteRemove(r)
    \/ \E j \in Jobs, n \in Names : Stage(r, j, n)
    \/ \E n \in Names : DeleteRecord(r, n)

Call(r) ==
    \/ \E op \in Calls : Acquire(r, op)
    \/ \E j \in Jobs : ServeCopper(r, j) \/ LookUp(r, j)
    \/ \E j \in Jobs, k \in Drafts : Discard(r, k, j)
    \/ Shutdown(r)

Next ==
    \/ \E r \in Requests : Call(r) \/ ReadBody(r) \/ HandlerStep(r)
    \/ \E j \in Jobs : ChildStep(j) \/ StrayEnds(j) \/ WorkerStep(j)
    \/ Die \/ Restart \/ EditExternal

\* Threads that are running go on running, a client that does not stall sends
\* its body, and a child that does not hang ends by itself; a stray process
\* need not.  Nobody has to call.
Fairness ==
    /\ \A r \in Requests : WF_vars("stall" \notin faults /\ ReadBody(r))
    /\ \A r \in Requests : WF_vars(HandlerStep(r))
    /\ \A j \in Jobs : WF_vars(WorkerStep(j))
    /\ \A j \in Jobs : WF_vars("hang" \notin faults /\ ChildStep(j))

Spec == Init /\ [][Next]_vars /\ Fairness

----------------------------------------------------------------------------
(* Properties. *)

Rows == [Names -> Jobs \cup {None, External}]

Handlers ==
    [pc : {"idle", "body", "held", "staged", "registered", "leaked", "reading", "replied",
           "erasing", "unlisting", "rendering", "removing"},
     op : Calls \cup {None},
     j : Jobs \cup {None},
     body : {None, "partial", "full"},
     rows : Rows]

\* The types of the variables.
TypeOK ==
    /\ faults \in SUBSET FaultNames /\ calls \in SUBSET Calls
    /\ server \in {"up", "stopping", "down"}
    /\ locked \in BOOLEAN
    /\ req \in [Requests -> Handlers]
    /\ job \in [Jobs -> {"unused", "running", "complete", "failed", "absent"}]
    /\ reg \in SUBSET Jobs
    /\ kind \in [Jobs -> Kinds \cup {None}]
    /\ name \in [Jobs -> Names \cup {None}]
    /\ staged \in SUBSET Jobs
    /\ output \in [Jobs -> {"absent", "partial", "full"}]
    /\ child \in [Jobs -> Running \cup {"none", "ok", "bad", "stray", "spent"}]
    /\ seen \in [Jobs -> Rows]
    /\ worker \in [Jobs -> {"none", "waiting", "cleanup", "record", "release"}]
    /\ verdict \in [Jobs -> {None, "complete", "failed"}]
    /\ manifest \in Rows
    /\ extOk \in BOOLEAN

Holding == {"body", "held", "staged", "registered", "leaked", "unlisting", "rendering", "removing"}

Holders == {r \in Requests : req[r].pc \in Holding} \cup {j \in Jobs : worker[j] # "none"}

\* worker_lock is held exactly when one handler or one worker has it, and
\* never by two: it is handed from the handler to the worker, comes back on
\* every path, and no path releases a lock that another call holds.
OneNativeJob ==
    /\ locked <=> Holders # {}
    /\ \A x, y \in Holders : x = y

\* What a download sends belongs to a job whose worker verified it, whole,
\* however discards, workers and other downloads interleave.
ServedIsVerified ==
    \A r \in Requests : req[r].pc = "replied" =>
        req[r].body = "full" /\ verdict[req[r].j] = "complete"

\* A job reported failed has lost its address, if it is a draft, its staged
\* sources and its results, unless a folder could not be removed or KiCad
\* outlived the child that timed out and wrote once more.
FailedLeavesNothing ==
    \A j \in Jobs : job[j] = "failed" =>
        /\ kind[j] \in Drafts => j \notin reg
        /\ "keep" \notin faults => j \notin staged
        /\ "keep" \notin faults /\ child[j] # "spent" => output[j] = "absent"

\* As long as the server lives, every row of the library has its review and
\* its sources, however imports, restores and deletions follow on each other
\* and fail.  The one exception is the row of an import that failed after it
\* was registered, because it was cut short, the page could not be rendered
\* or other evidence had changed.
LibraryIsWhole ==
    "die" \notin faults =>
        \A n \in Names : manifest[n] \in Jobs =>
            \/ output[manifest[n]] = "full" /\ manifest[n] \in staged
            \/ /\ verdict[manifest[n]] = "failed"
               /\ faults \cap {"hang", "render", "edit"} # {}

\* "A bad or incomplete native import never leaves a publicly selectable
\* card": a failed import has no row in the library.
FailedImportLeavesNoCard ==
    \A j \in Jobs : job[j] = "failed" => ~Listed(j)

\* The lock comes back: whoever has it gives it up, unless its thread died
\* with it, it waits for a client that has stalled, or the server is gone.
LockReturns ==
    locked ~> \/ ~locked \/ server = "down"
              \/ \E r \in Requests : \/ req[r].pc = "leaked"
                                     \/ "stall" \in faults /\ req[r].pc = "body"
=============================================================================
