------------------------- MODULE ReviewStudioProofs -------------------------
(***************************************************************************)
(* Theorems about the local Review Studio server, for any number of        *)
(* handler threads, jobs and library names and for every workload.         *)
(***************************************************************************)
EXTENDS ReviewStudio, TLAPS

-----------------------------------------------------------------------------
(* The inductive invariant.                                                *)

\* The life of a job id: fresh until it is staged, judged once, recorded by
\* its worker as what it was judged.
JobLife(j) ==
    /\ kind[j] = None =>
          job[j] = "unused" /\ verdict[j] = None /\ child[j] = "none" /\ worker[j] = "none"
    /\ kind[j] = "import" => name[j] \in Names
    /\ worker[j] \in {"waiting", "cleanup", "record"} => job[j] = "running"
    /\ worker[j] = "waiting" => verdict[j] = None
    /\ worker[j] \in {"cleanup", "record", "release"} => verdict[j] # None
    /\ verdict[j] # None => child[j] \in {"none", "stray", "spent"}
    /\ verdict[j] = "complete" => child[j] = "none"
    /\ job[j] \in {"complete", "failed"} => verdict[j] = job[j]

\* What a handler thread may rely on at each point of its call.
HandlerLife(r) ==
    LET q == req[r]
    IN  /\ q.pc \in {"body", "held"} => q.j = None
        /\ q.pc \in {"staged", "registered"} =>
              /\ q.j \in Jobs /\ kind[q.j] # None /\ verdict[q.j] = None
              /\ child[q.j] = "none" /\ worker[q.j] = "none"
              /\ job[q.j] = IF q.pc = "staged" THEN "unused" ELSE "running"
        /\ q.pc \in {"reading", "replied"} => q.j \in Jobs /\ verdict[q.j] = "complete"
        /\ q.pc = "replied" => q.body = "full"
        /\ q.pc = "erasing" => q.j \in Jobs /\ kind[q.j] \in Drafts /\ verdict[q.j] # None
        /\ q.pc \in {"unlisting", "rendering", "removing"} => q.j \in Jobs

\* What the clean-up of a failed job leaves on disk.
Cleaned(j) ==
    "keep" \notin faults => j \notin staged /\ (child[j] # "spent" => output[j] = "absent")

\* The folders of a job follow its child and its verdict.
JobFiles(j) ==
    /\ child[j] \in {"read", "write", "render", "ok"} => output[j] # "partial"
    /\ verdict[j] = "complete" => output[j] # "partial"
    /\ verdict[j] = "failed" /\ worker[j] = "record" => Cleaned(j)
    /\ job[j] = "failed" => Cleaned(j) /\ (kind[j] \in Drafts => j \notin reg)

StudioInv ==
    /\ TypeOK
    /\ OneNativeJob
    /\ \A j \in Jobs : JobLife(j)
    /\ \A r \in Requests : HandlerLife(r)
    /\ \A j \in Jobs : JobFiles(j)

\* The server lives: what the library relies on.
Quiet == "die" \notin faults

\* What may fail an import after its row was registered.
Failing == faults \cap {"hang", "render", "edit"} # {}

\* A review that has its folders, and that its child or its verdict vouches
\* for, or the row that a failed import left.
Kept(x) ==
    x \in Jobs =>
        /\ kind[x] = "import"
        /\ \/ /\ output[x] = "full" /\ x \in staged
              /\ \/ verdict[x] = "complete" \/ child[x] \in {"render", "ok"}
                 \/ child[x] = "bad" /\ Failing
           \/ verdict[x] = "failed" /\ Failing

LibraryJob(j) ==
    /\ child[j] \notin {"none", "stray", "spent"} => worker[j] = "waiting"
    /\ worker[j] = "waiting" => j \in staged
    /\ child[j] \in {"read", "write", "render"} => kind[j] = "import"
    /\ child[j] \in {"read", "write", "render", "ok"} => output[j] = "full"
    /\ child[j] = "write" => seen[j] = manifest

LibraryHandler(r) ==
    LET q == req[r]
    IN  /\ q.pc \in {"staged", "registered"} => q.j \in staged
        /\ q.pc = "unlisting" => q.rows = manifest
        /\ q.pc = "rendering" => \A n \in Names : Kept(q.rows[n])
        /\ q.pc \in {"rendering", "removing"} => \A n \in Names : manifest[n] # q.j

LibraryInv ==
    Quiet =>
        /\ server # "down" /\ ("edit" \notin faults => extOk)
        /\ \A n \in Names : Kept(manifest[n])
        /\ \A j \in Jobs : LibraryJob(j)
        /\ \A r \in Requests : LibraryHandler(r)

-----------------------------------------------------------------------------
(* Types, and what each action does to the handler that takes it.          *)

LEMMA NoRowsType == NoRows \in Rows
BY DEF NoRows, Rows

LEMMA IdleType == Idle \in Handlers
BY NoRowsType DEF Idle, Handlers

LEMMA TypeInit == Init => TypeOK
<1> SUFFICES ASSUME Init PROVE TypeOK
  OBVIOUS
<1>1. faults \in SUBSET FaultNames /\ calls \in SUBSET Calls
  BY WorkloadsAreKnown DEF Init
<1>2. manifest \in Rows /\ req \in [Requests -> Handlers] /\ seen \in [Jobs -> Rows]
  BY IdleType, NoRowsType DEF Init, Rows
<1> QED
  BY <1>1, <1>2 DEF Init, TypeOK

\* Handler r, and no other, moves to point pc with job j.
Moved(r, pc, j) ==
    /\ req' \in [Requests -> Handlers]
    /\ \A s \in Requests : s # r => req'[s] = req[s]
    /\ req'[r].pc = pc /\ req'[r].j = j

LEMMA AcquireMoves ==
    ASSUME TypeOK, NEW r \in Requests, NEW op \in Calls, Acquire(r, op)
    PROVE  Moved(r, "body", None)
BY IdleType DEF TypeOK, Acquire, Handlers, Moved, Idle

LEMMA ReadBodyMoves ==
    ASSUME TypeOK, NEW r \in Requests, ReadBody(r)
    PROVE  Moved(r, "held", req[r].j)
<1>1. req \in [Requests -> Handlers]
  BY DEF TypeOK, ReadBody
<1>2. req' = [req EXCEPT ![r] = [@ EXCEPT !.pc = "held"]]
  BY DEF ReadBody
<1> QED
  BY <1>1, <1>2 DEF Handlers, Moved

LEMMA HandlerErrorMoves ==
    ASSUME TypeOK, NEW r \in Requests, HandlerError(r)
    PROVE  Moved(r, "leaked", req[r].j)
<1>1. req \in [Requests -> Handlers]
  BY DEF TypeOK, HandlerError
<1>2. req' = [req EXCEPT ![r] = [@ EXCEPT !.pc = "leaked"]]
  BY DEF HandlerError
<1> QED
  BY <1>1, <1>2 DEF Handlers, Moved

LEMMA ReleaseMoves ==
    ASSUME TypeOK, NEW r \in Requests, Release(r)
    PROVE  Moved(r, "idle", None)
BY IdleType DEF TypeOK, Release, Handlers, Moved, Idle

LEMMA StageMoves ==
    ASSUME TypeOK, NEW r \in Requests, NEW j \in Jobs, NEW n \in Names, Stage(r, j, n)
    PROVE  Moved(r, "staged", j)
<1>1. req \in [Requests -> Handlers]
  BY DEF TypeOK, Stage
<1>2. req' = [req EXCEPT ![r] = [@ EXCEPT !.pc = "staged", !.j = j]]
  BY DEF Stage
<1> QED
  BY <1>1, <1>2 DEF Handlers, Moved

LEMMA RegisterMoves ==
    ASSUME TypeOK, NEW r \in Requests, Register(r)
    PROVE  Moved(r, "registered", req[r].j)
<1>1. req \in [Requests -> Handlers]
  BY DEF TypeOK, Register
<1>2. req' = [req EXCEPT ![r] = [@ EXCEPT !.pc = "registered"]]
  BY DEF Register
<1> QED
  BY <1>1, <1>2 DEF Handlers, Moved

LEMMA StartWorkerMoves ==
    ASSUME TypeOK, NEW r \in Requests, StartWorker(r)
    PROVE  Moved(r, "idle", None)
BY IdleType DEF TypeOK, StartWorker, Handlers, Moved, Idle

LEMMA ServeCopperMoves ==
    ASSUME TypeOK, NEW r \in Requests, NEW j \in Jobs, ServeCopper(r, j)
    PROVE  Moved(r, "replied", j) /\ req'[r].body = output[j]
BY IdleType DEF TypeOK, ServeCopper, Handlers, Moved, Idle

LEMMA LookUpMoves ==
    ASSUME TypeOK, NEW r \in Requests, NEW j \in Jobs, LookUp(r, j)
    PROVE  Moved(r, "reading", j)
BY IdleType DEF TypeOK, LookUp, Handlers, Moved, Idle

LEMMA EndReplyMoves ==
    ASSUME TypeOK, NEW r \in Requests, EndReply(r)
    PROVE  Moved(r, "idle", None)
BY IdleType DEF TypeOK, EndReply, Handlers, Moved, Idle

LEMMA EraseMoves ==
    ASSUME TypeOK, NEW r \in Requests, Erase(r)
    PROVE  Moved(r, "idle", None)
BY IdleType DEF TypeOK, Erase, Handlers, Moved, Idle

LEMMA DeleteRecordMoves ==
    ASSUME TypeOK, NEW r \in Requests, NEW n \in Names, DeleteRecord(r, n)
    PROVE  Moved(r, "unlisting", manifest[n]) /\ req'[r].rows = manifest
<1>1. req \in [Requests -> Handlers] /\ manifest[n] \in Jobs /\ manifest \in Rows
  BY DEF TypeOK, DeleteRecord
<1>2. req' = [req EXCEPT ![r] = [@ EXCEPT !.pc = "unlisting", !.j = manifest[n], !.rows = manifest]]
  BY DEF DeleteRecord
<1> QED
  BY <1>1, <1>2 DEF Handlers, Moved

LEMMA DeleteUnlistMoves ==
    ASSUME TypeOK, NEW r \in Requests, DeleteUnlist(r)
    PROVE  Moved(r, "rendering", req[r].j) /\ req'[r].rows = req[r].rows
<1>1. req \in [Requests -> Handlers]
  BY DEF TypeOK, DeleteUnlist
<1>2. req' = [req EXCEPT ![r] = [@ EXCEPT !.pc = "rendering"]]
  BY DEF DeleteUnlist
<1> QED
  BY <1>1, <1>2 DEF Handlers, Moved

LEMMA DeleteRemoveMoves ==
    ASSUME TypeOK, NEW r \in Requests, DeleteRemove(r)
    PROVE  Moved(r, "idle", None)
BY IdleType DEF TypeOK, DeleteRemove, Handlers, Moved, Idle

LEMMA StartFailsMoves ==
    ASSUME TypeOK, NEW r \in Requests, StartFails(r)
    PROVE  IF req[r].op \in {"pcb", "eco"} THEN Moved(r, "leaked", req[r].j)
                                           ELSE Moved(r, "idle", None)
BY IdleType DEF TypeOK, StartFails, Handlers, Moved, Idle

LEMMA ReadFileMoves ==
    ASSUME TypeOK, NEW r \in Requests, HandlerLife(r), ReadFile(r)
    PROVE  \/ Moved(r, "idle", None)
           \/ /\ output[req[r].j] # "absent" /\ Moved(r, "replied", req[r].j)
              /\ req'[r].body = output[req[r].j]
<1>1. /\ req \in [Requests -> Handlers] /\ req[r].j \in Jobs
      /\ output[req[r].j] \in {"absent", "partial", "full"}
  BY DEF TypeOK, ReadFile, HandlerLife
<1>2. CASE output[req[r].j] = "absent"
  BY <1>1, <1>2, IdleType DEF ReadFile, Moved, Idle
<1>3. CASE output[req[r].j] # "absent"
  <2>1. req' = [req EXCEPT ![r] = [@ EXCEPT !.pc = "replied", !.body = output[req[r].j]]]
    BY <1>3 DEF ReadFile
  <2> QED
    BY <1>1, <1>3, <2>1 DEF Handlers, Moved
<1> QED
  BY <1>2, <1>3

LEMMA DeleteRenderMoves ==
    ASSUME TypeOK, NEW r \in Requests, DeleteRender(r)
    PROVE  \/ Moved(r, "removing", req[r].j) /\ locked' = locked /\ manifest' = manifest
           \/ Moved(r, "idle", None) /\ locked' = FALSE /\ manifest' = req[r].rows
<1>1. req \in [Requests -> Handlers]
  BY DEF TypeOK, DeleteRender
<1>2. CASE req' = [req EXCEPT ![r].pc = "removing"] /\ UNCHANGED <<locked, manifest>>
  <2>1. req' = [req EXCEPT ![r] = [@ EXCEPT !.pc = "removing"]]
    BY <1>2
  <2> QED
    BY <1>1, <1>2, <2>1 DEF Handlers, Moved
<1>3. CASE req' = [req EXCEPT ![r] = Idle] /\ locked' = FALSE /\ manifest' = req[r].rows
  BY <1>1, <1>3, IdleType DEF Moved, Idle
<1> QED
  BY <1>2, <1>3 DEF DeleteRender

LEMMA DiscardMoves ==
    ASSUME TypeOK, NEW r \in Requests, NEW k \in Drafts, NEW j \in Jobs, Discard(r, k, j)
    PROVE  \/ req' = req
           \/ Moved(r, "erasing", j) /\ kind[j] = k
<1>1. req \in [Requests -> Handlers]
  BY DEF TypeOK
<1>2. [Idle EXCEPT !.pc = "erasing", !.j = j] \in Handlers
  BY IdleType DEF Handlers
<1>3. CASE kind[j] = k /\ j \in reg
  BY <1>1, <1>2, <1>3 DEF Discard, Moved, Idle
<1>4. CASE ~(kind[j] = k /\ j \in reg)
  BY <1>4 DEF Discard
<1> QED
  BY <1>3, <1>4

-----------------------------------------------------------------------------
(* The parts of StudioInv, each kept by every step.                        *)

LEMMA TypeStep == StudioInv /\ [Next]_vars => TypeOK'
<1> SUFFICES ASSUME StudioInv, [Next]_vars PROVE TypeOK'
  OBVIOUS
<1> USE DEF jobVars, diskVars, runVars, libVars
<1>0. TypeOK
  BY DEF StudioInv
<1>1. ASSUME NEW r \in Requests, NEW op \in Calls, Acquire(r, op) PROVE TypeOK'
  <2>1. req' \in [Requests -> Handlers]
    BY <1>0, <1>1, AcquireMoves DEF Moved
  <2> QED
    BY <1>0, <1>1, <2>1, NoRowsType, IdleType
       DEF Rows, Acquire, TypeOK, Kinds, Starts, Drafts, Calls, Running
<1>2. ASSUME NEW r \in Requests, Release(r) PROVE TypeOK'
  <2>1. req' \in [Requests -> Handlers]
    BY <1>0, <1>2, ReleaseMoves DEF Moved
  <2> QED
    BY <1>0, <1>2, <2>1 DEF Release, Less, Leaves, TypeOK, Kinds, Starts, Drafts, Calls, Running
<1>3. ASSUME NEW r \in Requests, NEW j \in Jobs, NEW n \in Names, Stage(r, j, n) PROVE TypeOK'
  <2>1. req' \in [Requests -> Handlers]
    BY <1>0, <1>3, StageMoves DEF Moved
  <2> QED
    BY <1>0, <1>3, <2>1 DEF Stage, TypeOK, Kinds, Starts, Drafts, Calls, Running
<1>4. ASSUME NEW r \in Requests, Register(r) PROVE TypeOK'
  <2>1. HandlerLife(r) /\ req[r].j \in Jobs
    BY <1>4 DEF StudioInv, Register, HandlerLife
  <2>2. req' \in [Requests -> Handlers]
    BY <1>0, <1>4, <2>1, RegisterMoves DEF Moved
  <2> QED
    BY <1>0, <1>4, <2>1, <2>2 DEF Register, TypeOK, Kinds, Starts, Drafts, Calls, Running
<1>5. ASSUME NEW r \in Requests, StartWorker(r) PROVE TypeOK'
  <2>1. req' \in [Requests -> Handlers]
    BY <1>0, <1>5, StartWorkerMoves DEF Moved
  <2> QED
    BY <1>0, <1>5, <2>1 DEF StartWorker, TypeOK, Kinds, Starts, Drafts, Calls, Running
<1>6. ASSUME NEW r \in Requests, StartFails(r) PROVE TypeOK'
  <2>1. req' \in [Requests -> Handlers]
    BY <1>0, <1>6, StartFailsMoves DEF Moved
  <2> QED
    BY <1>0, <1>6, <2>1 DEF StartFails, Less, Leaves, TypeOK, Kinds, Starts, Drafts, Calls, Running
<1>7. ASSUME NEW j \in Jobs, ChildBuild(j) PROVE TypeOK'
  BY <1>0, <1>7 DEF ChildBuild, TypeOK, Kinds, Starts, Drafts, Calls, Running
<1>8. ASSUME NEW j \in Jobs, ChildBuilt(j) PROVE TypeOK'
  BY <1>0, <1>8 DEF ChildBuilt, TypeOK, Kinds, Starts, Drafts, Calls, Running
<1>9. ASSUME NEW j \in Jobs, ChildRead(j) PROVE TypeOK'
  BY <1>0, <1>9 DEF ChildRead, TypeOK, Running
<1>10. ASSUME NEW j \in Jobs, ChildWrite(j) PROVE TypeOK'
  BY <1>0, <1>10, NoRowsType, IdleType
     DEF Rows, ChildWrite, TypeOK, Kinds, Starts, Drafts, Calls, Running
<1>11. ASSUME NEW j \in Jobs, ChildRender(j) PROVE TypeOK'
  BY <1>0, <1>11 DEF ChildRender, TypeOK, Kinds, Starts, Drafts, Calls, Running
<1>12. ASSUME NEW j \in Jobs, WorkerJudge(j) PROVE TypeOK'
  BY <1>0, <1>12 DEF WorkerJudge, TypeOK, Kinds, Starts, Drafts, Calls, Running
<1>13. ASSUME NEW j \in Jobs, WorkerTimeout(j) PROVE TypeOK'
  BY <1>0, <1>13, NoRowsType, IdleType
     DEF Rows, WorkerTimeout, TypeOK, Kinds, Starts, Drafts, Calls, Running
<1>14. ASSUME NEW j \in Jobs, WorkerCleanup(j) PROVE TypeOK'
  BY <1>0, <1>14 DEF WorkerCleanup, Less, Leaves, TypeOK, Kinds, Starts, Drafts, Calls, Running
<1>15. ASSUME NEW j \in Jobs, WorkerRecord(j) PROVE TypeOK'
  <2>1. JobLife(j) /\ verdict[j] # None
    BY <1>15 DEF StudioInv, WorkerRecord, JobLife
  <2> QED
    BY <1>0, <1>15, <2>1 DEF WorkerRecord, TypeOK, Kinds, Starts, Drafts, Calls, Running
<1>16. ASSUME NEW j \in Jobs, WorkerRelease(j) PROVE TypeOK'
  BY <1>0, <1>16 DEF WorkerRelease, TypeOK, Kinds, Starts, Drafts, Calls, Running
<1>17. ASSUME NEW r \in Requests, NEW j \in Jobs, ServeCopper(r, j) PROVE TypeOK'
  <2>1. req' \in [Requests -> Handlers]
    BY <1>0, <1>17, ServeCopperMoves DEF Moved
  <2> QED
    BY <1>0, <1>17, <2>1 DEF ServeCopper, TypeOK, Kinds, Starts, Drafts, Calls, Running
<1>18. ASSUME NEW r \in Requests, NEW j \in Jobs, LookUp(r, j) PROVE TypeOK'
  <2>1. req' \in [Requests -> Handlers]
    BY <1>0, <1>18, LookUpMoves DEF Moved
  <2> QED
    BY <1>0, <1>18, <2>1 DEF LookUp, TypeOK, Kinds, Starts, Drafts, Calls, Running
<1>19. ASSUME NEW r \in Requests, ReadFile(r) PROVE TypeOK'
  <2>1. HandlerLife(r)
    BY <1>19 DEF StudioInv, ReadFile, HandlerLife
  <2>2. req' \in [Requests -> Handlers]
    BY <1>0, <1>19, <2>1, ReadFileMoves DEF Moved
  <2> QED
    BY <1>0, <1>19, <2>1, <2>2 DEF ReadFile, TypeOK, Kinds, Starts, Drafts, Calls, Running
<1>20. ASSUME NEW r \in Requests, EndReply(r) PROVE TypeOK'
  <2>1. req' \in [Requests -> Handlers]
    BY <1>0, <1>20, EndReplyMoves DEF Moved
  <2> QED
    BY <1>0, <1>20, <2>1 DEF EndReply, TypeOK, Kinds, Starts, Drafts, Calls, Running
<1>21. ASSUME NEW r \in Requests, NEW k \in Drafts, NEW j \in Jobs, Discard(r, k, j)
       PROVE TypeOK'
  <2>1. req' \in [Requests -> Handlers]
    BY <1>0, <1>21, DiscardMoves DEF Moved, TypeOK
  <2> QED
    BY <1>0, <1>21, <2>1 DEF Discard, TypeOK, Kinds, Starts, Drafts, Calls, Running
<1>22. ASSUME NEW r \in Requests, Erase(r) PROVE TypeOK'
  <2>1. req' \in [Requests -> Handlers]
    BY <1>0, <1>22, EraseMoves DEF Moved
  <2> QED
    BY <1>0, <1>22, <2>1 DEF Erase, TypeOK, Kinds, Starts, Drafts, Calls, Running
<1>23. ASSUME NEW r \in Requests, NEW n \in Names, DeleteRecord(r, n) PROVE TypeOK'
  <2>1. req' \in [Requests -> Handlers]
    BY <1>0, <1>23, DeleteRecordMoves DEF Moved
  <2> QED
    BY <1>0, <1>23, <2>1, NoRowsType, IdleType
       DEF Rows, DeleteRecord, TypeOK, Kinds, Starts, Drafts, Calls, Running
<1>24. ASSUME NEW r \in Requests, DeleteUnlist(r) PROVE TypeOK'
  <2>1. req' \in [Requests -> Handlers]
    BY <1>0, <1>24, DeleteUnlistMoves DEF Moved
  <2>2. req[r].rows \in Rows
    BY <1>0 DEF TypeOK, Handlers
  <2>3. manifest' \in Rows
    BY <1>24, <2>2 DEF DeleteUnlist, Rows
  <2> QED
    BY <1>0, <1>24, <2>1, <2>3 DEF DeleteUnlist, TypeOK
<1>25. ASSUME NEW r \in Requests, DeleteRender(r) PROVE TypeOK'
  <2>1. req' \in [Requests -> Handlers]
    BY <1>0, <1>25, DeleteRenderMoves DEF Moved
  <2>2. req[r].rows \in Rows
    BY <1>0 DEF TypeOK, Handlers
  <2>3. manifest' \in Rows /\ locked' \in BOOLEAN
    BY <1>0, <1>25, <2>2 DEF DeleteRender, TypeOK
  <2> QED
    BY <1>0, <1>25, <2>1, <2>3 DEF DeleteRender, TypeOK
<1>26. ASSUME NEW r \in Requests, DeleteRemove(r) PROVE TypeOK'
  <2>1. req' \in [Requests -> Handlers]
    BY <1>0, <1>26, DeleteRemoveMoves DEF Moved
  <2> QED
    BY <1>0, <1>26, <2>1
       DEF DeleteRemove, Less, Leaves, TypeOK, Kinds, Starts, Drafts, Calls, Running
<1>27. ASSUME NEW r \in Requests, Shutdown(r) PROVE TypeOK'
  BY <1>0, <1>27 DEF Shutdown, TypeOK, Kinds, Starts, Drafts, Calls, Running
<1>28. ASSUME Die PROVE TypeOK'
  BY <1>0, <1>28, NoRowsType, IdleType
     DEF Rows, Die, TypeOK, Kinds, Starts, Drafts, Calls, Running
<1>29. ASSUME Restart PROVE TypeOK'
  BY <1>0, <1>29 DEF Restart, TypeOK, Kinds, Starts, Drafts, Calls, Running
<1>30. ASSUME EditExternal PROVE TypeOK'
  BY <1>0, <1>30 DEF EditExternal, TypeOK, Kinds, Starts, Drafts, Calls, Running
<1>31. CASE UNCHANGED vars
  BY <1>0, <1>31 DEF vars, TypeOK, Kinds, Starts, Drafts, Calls, Running
<1>32. ASSUME NEW r \in Requests, ReadBody(r) PROVE TypeOK'
  <2>1. req' \in [Requests -> Handlers]
    BY <1>0, <1>32, ReadBodyMoves DEF Moved
  <2> QED
    BY <1>0, <1>32, <2>1 DEF ReadBody, TypeOK
<1>33. ASSUME NEW r \in Requests, HandlerError(r) PROVE TypeOK'
  <2>1. req' \in [Requests -> Handlers]
    BY <1>0, <1>33, HandlerErrorMoves DEF Moved
  <2> QED
    BY <1>0, <1>33, <2>1 DEF HandlerError, TypeOK
<1>34. ASSUME NEW j \in Jobs, StrayEnds(j) PROVE TypeOK'
  BY <1>0, <1>34 DEF StrayEnds, TypeOK
<1> QED
  BY <1>1, <1>2, <1>3, <1>4, <1>5, <1>6, <1>7, <1>8, <1>9, <1>10, <1>11, <1>12, <1>13, <1>14,
     <1>15, <1>16, <1>17, <1>18, <1>19, <1>20, <1>21, <1>22, <1>23, <1>24, <1>25, <1>26, <1>27,
     <1>28, <1>29, <1>30, <1>31, <1>32, <1>33, <1>34
     DEF Next, Call, HandlerStep, ChildStep, WorkerStep

LEMMA LifeStep == StudioInv /\ [Next]_vars => \A x \in Jobs : JobLife(x)'
<1> SUFFICES ASSUME StudioInv, [Next]_vars, NEW x \in Jobs PROVE JobLife(x)'
  OBVIOUS
<1> USE DEF jobVars, diskVars, runVars, libVars
<1>0. TypeOK /\ JobLife(x)
  BY DEF StudioInv
<1>1. ASSUME NEW r \in Requests, NEW op \in Calls, Acquire(r, op) PROVE JobLife(x)'
  BY <1>0, <1>1, SentinelsAreNotIds DEF Acquire, TypeOK, JobLife, Drafts
<1>2. ASSUME NEW r \in Requests, Release(r) PROVE JobLife(x)'
  BY <1>0, <1>2, SentinelsAreNotIds DEF Release, TypeOK, JobLife, Drafts
<1>3. ASSUME NEW r \in Requests, NEW j \in Jobs, NEW n \in Names, Stage(r, j, n)
      PROVE JobLife(x)'
  BY <1>0, <1>3, SentinelsAreNotIds DEF Stage, TypeOK, JobLife, Drafts
<1>4. ASSUME NEW r \in Requests, Register(r) PROVE JobLife(x)'
  <2>1. HandlerLife(r)
    BY DEF StudioInv
  <2> QED
    BY <1>0, <1>4, <2>1, SentinelsAreNotIds DEF Register, HandlerLife, TypeOK, JobLife, Drafts
<1>5. ASSUME NEW r \in Requests, StartWorker(r) PROVE JobLife(x)'
  <2>1. HandlerLife(r)
    BY DEF StudioInv
  <2> QED
    BY <1>0, <1>5, <2>1, SentinelsAreNotIds
       DEF StartWorker, HandlerLife, TypeOK, JobLife, Drafts
<1>6. ASSUME NEW r \in Requests, StartFails(r) PROVE JobLife(x)'
  BY <1>0, <1>6, SentinelsAreNotIds DEF StartFails, TypeOK, JobLife, Drafts
<1>7. ASSUME NEW j \in Jobs, ChildBuild(j) PROVE JobLife(x)'
  BY <1>0, <1>7, SentinelsAreNotIds DEF ChildBuild, TypeOK, JobLife, Drafts
<1>8. ASSUME NEW j \in Jobs, ChildBuilt(j) PROVE JobLife(x)'
  BY <1>0, <1>8, SentinelsAreNotIds DEF ChildBuilt, TypeOK, JobLife, Drafts
<1>9. ASSUME NEW j \in Jobs, ChildRead(j) PROVE JobLife(x)'
  BY <1>0, <1>9, SentinelsAreNotIds DEF ChildRead, TypeOK, JobLife, Drafts
<1>10. ASSUME NEW j \in Jobs, ChildWrite(j) PROVE JobLife(x)'
  BY <1>0, <1>10, SentinelsAreNotIds DEF ChildWrite, TypeOK, JobLife, Drafts
<1>11. ASSUME NEW j \in Jobs, ChildRender(j) PROVE JobLife(x)'
  BY <1>0, <1>11, SentinelsAreNotIds DEF ChildRender, TypeOK, JobLife, Drafts
<1>12. ASSUME NEW j \in Jobs, WorkerJudge(j) PROVE JobLife(x)'
  <2>1. JobLife(j)
    BY DEF StudioInv
  <2>2. CASE x = j
    BY <1>0, <1>12, <2>1, <2>2, SentinelsAreNotIds
       DEF WorkerJudge, TypeOK, JobLife, Running, Drafts
  <2>3. CASE x # j
    BY <1>0, <1>12, <2>3 DEF WorkerJudge, TypeOK, JobLife
  <2> QED
    BY <2>2, <2>3
<1>13. ASSUME NEW j \in Jobs, WorkerTimeout(j) PROVE JobLife(x)'
  <2>1. JobLife(j)
    BY DEF StudioInv
  <2>2. CASE x = j
    BY <1>0, <1>13, <2>1, <2>2, SentinelsAreNotIds
       DEF WorkerTimeout, TypeOK, JobLife, Running, Drafts
  <2>3. CASE x # j
    BY <1>0, <1>13, <2>3 DEF WorkerTimeout, TypeOK, JobLife
  <2> QED
    BY <2>2, <2>3
<1>14. ASSUME NEW j \in Jobs, WorkerCleanup(j) PROVE JobLife(x)'
  BY <1>0, <1>14, SentinelsAreNotIds DEF WorkerCleanup, TypeOK, JobLife, Drafts
<1>15. ASSUME NEW j \in Jobs, WorkerRecord(j) PROVE JobLife(x)'
  BY <1>0, <1>15, SentinelsAreNotIds DEF WorkerRecord, TypeOK, JobLife, Drafts
<1>16. ASSUME NEW j \in Jobs, WorkerRelease(j) PROVE JobLife(x)'
  BY <1>0, <1>16, SentinelsAreNotIds DEF WorkerRelease, TypeOK, JobLife, Drafts
<1>17. ASSUME NEW r \in Requests, NEW j \in Jobs, ServeCopper(r, j) PROVE JobLife(x)'
  BY <1>0, <1>17, SentinelsAreNotIds DEF ServeCopper, TypeOK, JobLife, Drafts
<1>18. ASSUME NEW r \in Requests, NEW j \in Jobs, LookUp(r, j) PROVE JobLife(x)'
  BY <1>0, <1>18, SentinelsAreNotIds DEF LookUp, TypeOK, JobLife, Drafts
<1>19. ASSUME NEW r \in Requests, ReadFile(r) PROVE JobLife(x)'
  BY <1>0, <1>19, SentinelsAreNotIds DEF ReadFile, TypeOK, JobLife, Drafts
<1>20. ASSUME NEW r \in Requests, EndReply(r) PROVE JobLife(x)'
  BY <1>0, <1>20, SentinelsAreNotIds DEF EndReply, TypeOK, JobLife, Drafts
<1>21. ASSUME NEW r \in Requests, NEW k \in Drafts, NEW j \in Jobs, Discard(r, k, j)
       PROVE JobLife(x)'
  <2>1. JobLife(j)
    BY DEF StudioInv
  <2>2. CASE x = j
    BY <1>0, <1>21, <2>1, <2>2, SentinelsAreNotIds
       DEF Discard, TypeOK, JobLife, Discardable, Running, Drafts
  <2>3. CASE x # j
    BY <1>0, <1>21, <2>3 DEF Discard, TypeOK, JobLife, Discardable
  <2> QED
    BY <2>2, <2>3
<1>22. ASSUME NEW r \in Requests, Erase(r) PROVE JobLife(x)'
  BY <1>0, <1>22, SentinelsAreNotIds DEF Erase, TypeOK, JobLife, Drafts
<1>23. ASSUME NEW r \in Requests, NEW n \in Names, DeleteRecord(r, n) PROVE JobLife(x)'
  BY <1>0, <1>23, SentinelsAreNotIds DEF DeleteRecord, TypeOK, JobLife, Drafts
<1>24. ASSUME NEW r \in Requests, DeleteUnlist(r) PROVE JobLife(x)'
  BY <1>0, <1>24, SentinelsAreNotIds DEF DeleteUnlist, TypeOK, JobLife, Drafts
<1>25. ASSUME NEW r \in Requests, DeleteRender(r) PROVE JobLife(x)'
  BY <1>0, <1>25, SentinelsAreNotIds DEF DeleteRender, TypeOK, JobLife, Drafts
<1>26. ASSUME NEW r \in Requests, DeleteRemove(r) PROVE JobLife(x)'
  BY <1>0, <1>26, SentinelsAreNotIds DEF DeleteRemove, TypeOK, JobLife, Drafts
<1>27. ASSUME NEW r \in Requests, Shutdown(r) PROVE JobLife(x)'
  BY <1>0, <1>27, SentinelsAreNotIds DEF Shutdown, TypeOK, JobLife, Drafts
<1>28. ASSUME Die PROVE JobLife(x)'
  BY <1>0, <1>28, SentinelsAreNotIds DEF Die, TypeOK, JobLife, Drafts
<1>29. ASSUME Restart PROVE JobLife(x)'
  BY <1>0, <1>29, SentinelsAreNotIds DEF Restart, TypeOK, JobLife, Drafts
<1>30. ASSUME EditExternal PROVE JobLife(x)'
  BY <1>0, <1>30, SentinelsAreNotIds DEF EditExternal, TypeOK, JobLife, Drafts
<1>31. CASE UNCHANGED vars
  BY <1>0, <1>31 DEF vars, TypeOK, JobLife, Drafts
<1>32. ASSUME NEW r \in Requests, ReadBody(r) PROVE JobLife(x)'
  BY <1>0, <1>32 DEF ReadBody, TypeOK, JobLife
<1>33. ASSUME NEW r \in Requests, HandlerError(r) PROVE JobLife(x)'
  BY <1>0, <1>33 DEF HandlerError, TypeOK, JobLife
<1>34. ASSUME NEW j \in Jobs, StrayEnds(j) PROVE JobLife(x)'
  BY <1>0, <1>34, SentinelsAreNotIds DEF StrayEnds, TypeOK, JobLife
<1> QED
  BY <1>1, <1>2, <1>3, <1>4, <1>5, <1>6, <1>7, <1>8, <1>9, <1>10, <1>11, <1>12, <1>13, <1>14,
     <1>15, <1>16, <1>17, <1>18, <1>19, <1>20, <1>21, <1>22, <1>23, <1>24, <1>25, <1>26, <1>27,
     <1>28, <1>29, <1>30, <1>31, <1>32, <1>33, <1>34
     DEF Next, Call, HandlerStep, ChildStep, WorkerStep

LEMMA FilesStep == StudioInv /\ [Next]_vars => \A x \in Jobs : JobFiles(x)'
<1> SUFFICES ASSUME StudioInv, [Next]_vars, NEW x \in Jobs PROVE JobFiles(x)'
  OBVIOUS
<1> USE DEF jobVars, diskVars, runVars, libVars
<1>0. TypeOK /\ JobLife(x) /\ JobFiles(x)
  BY DEF StudioInv
<1>1. ASSUME NEW r \in Requests, NEW op \in Calls, Acquire(r, op) PROVE JobFiles(x)'
  BY <1>0, <1>1, SentinelsAreNotIds DEF Acquire, TypeOK, JobLife, JobFiles, Cleaned, Drafts
<1>2. ASSUME NEW r \in Requests, Release(r) PROVE JobFiles(x)'
  BY <1>0, <1>2, SentinelsAreNotIds
     DEF Release, Less, Leaves, TypeOK, JobLife, JobFiles, Cleaned, Drafts
<1>3. ASSUME NEW r \in Requests, NEW j \in Jobs, NEW n \in Names, Stage(r, j, n)
      PROVE JobFiles(x)'
  BY <1>0, <1>3, SentinelsAreNotIds DEF Stage, TypeOK, JobLife, JobFiles, Cleaned, Drafts
<1>4. ASSUME NEW r \in Requests, Register(r) PROVE JobFiles(x)'
  <2>1. HandlerLife(r)
    BY DEF StudioInv
  <2> QED
    BY <1>0, <1>4, <2>1, SentinelsAreNotIds
       DEF Register, HandlerLife, TypeOK, JobLife, JobFiles, Cleaned, Drafts
<1>5. ASSUME NEW r \in Requests, StartWorker(r) PROVE JobFiles(x)'
  <2>1. HandlerLife(r)
    BY DEF StudioInv
  <2> QED
    BY <1>0, <1>5, <2>1, SentinelsAreNotIds
       DEF StartWorker, HandlerLife, TypeOK, JobLife, JobFiles, Cleaned, Drafts
<1>6. ASSUME NEW r \in Requests, StartFails(r) PROVE JobFiles(x)'
  BY <1>0, <1>6, SentinelsAreNotIds
     DEF StartFails, Less, Leaves, TypeOK, JobLife, JobFiles, Cleaned, Drafts
<1>7. ASSUME NEW j \in Jobs, ChildBuild(j) PROVE JobFiles(x)'
  <2>1. JobLife(j)
    BY DEF StudioInv
  <2>2. CASE x = j
    BY <1>0, <1>7, <2>1, <2>2, SentinelsAreNotIds
       DEF ChildBuild, TypeOK, JobLife, JobFiles, Cleaned, Running, Drafts
  <2>3. CASE x # j
    BY <1>0, <1>7, <2>3 DEF ChildBuild, TypeOK, JobLife, JobFiles, Cleaned
  <2> QED
    BY <2>2, <2>3
<1>8. ASSUME NEW j \in Jobs, ChildBuilt(j) PROVE JobFiles(x)'
  <2>1. JobLife(j)
    BY DEF StudioInv
  <2>2. CASE x = j
    BY <1>0, <1>8, <2>1, <2>2, SentinelsAreNotIds
       DEF ChildBuilt, TypeOK, JobLife, JobFiles, Cleaned, Running, Drafts
  <2>3. CASE x # j
    BY <1>0, <1>8, <2>3 DEF ChildBuilt, TypeOK, JobLife, JobFiles, Cleaned
  <2> QED
    BY <2>2, <2>3
<1>9. ASSUME NEW j \in Jobs, ChildRead(j) PROVE JobFiles(x)'
  BY <1>0, <1>9, SentinelsAreNotIds DEF ChildRead, TypeOK, JobLife, JobFiles, Cleaned, Drafts
<1>10. ASSUME NEW j \in Jobs, ChildWrite(j) PROVE JobFiles(x)'
  BY <1>0, <1>10, SentinelsAreNotIds DEF ChildWrite, TypeOK, JobLife, JobFiles, Cleaned, Drafts
<1>11. ASSUME NEW j \in Jobs, ChildRender(j) PROVE JobFiles(x)'
  BY <1>0, <1>11, SentinelsAreNotIds DEF ChildRender, TypeOK, JobLife, JobFiles, Cleaned, Drafts
<1>12. ASSUME NEW j \in Jobs, WorkerJudge(j) PROVE JobFiles(x)'
  BY <1>0, <1>12, SentinelsAreNotIds DEF WorkerJudge, TypeOK, JobLife, JobFiles, Cleaned, Drafts
<1>13. ASSUME NEW j \in Jobs, WorkerTimeout(j) PROVE JobFiles(x)'
  BY <1>0, <1>13, SentinelsAreNotIds DEF WorkerTimeout, TypeOK, JobLife, JobFiles, Cleaned, Drafts
<1>14. ASSUME NEW j \in Jobs, WorkerCleanup(j) PROVE JobFiles(x)'
  <2>1. CASE x = j /\ verdict[j] = "failed" /\ "keep" \notin faults
    <3>1. output'[j] = "absent" /\ j \notin staged'
      BY <1>0, <1>14, <2>1 DEF WorkerCleanup, Less, Leaves, TypeOK
    <3> QED
      BY <1>0, <1>14, <2>1, <3>1, SentinelsAreNotIds
         DEF WorkerCleanup, TypeOK, JobLife, JobFiles, Cleaned
  <2>2. CASE x = j /\ "keep" \in faults
    BY <1>0, <1>14, <2>2, SentinelsAreNotIds
       DEF WorkerCleanup, TypeOK, JobLife, JobFiles, Cleaned
  <2>3. CASE x = j /\ verdict[j] # "failed"
    BY <1>0, <1>14, <2>3, SentinelsAreNotIds
       DEF WorkerCleanup, TypeOK, JobLife, JobFiles, Cleaned
  <2>4. CASE x # j
    BY <1>0, <1>14, <2>4 DEF WorkerCleanup, Less, Leaves, TypeOK, JobFiles, Cleaned
  <2> QED
    BY <2>1, <2>2, <2>3, <2>4
<1>15. ASSUME NEW j \in Jobs, WorkerRecord(j) PROVE JobFiles(x)'
  BY <1>0, <1>15, SentinelsAreNotIds DEF WorkerRecord, TypeOK, JobLife, JobFiles, Cleaned, Drafts
<1>16. ASSUME NEW j \in Jobs, WorkerRelease(j) PROVE JobFiles(x)'
  BY <1>0, <1>16, SentinelsAreNotIds DEF WorkerRelease, TypeOK, JobLife, JobFiles, Cleaned, Drafts
<1>17. ASSUME NEW r \in Requests, NEW j \in Jobs, ServeCopper(r, j) PROVE JobFiles(x)'
  BY <1>0, <1>17, SentinelsAreNotIds DEF ServeCopper, TypeOK, JobLife, JobFiles, Cleaned, Drafts
<1>18. ASSUME NEW r \in Requests, NEW j \in Jobs, LookUp(r, j) PROVE JobFiles(x)'
  BY <1>0, <1>18, SentinelsAreNotIds DEF LookUp, TypeOK, JobLife, JobFiles, Cleaned, Drafts
<1>19. ASSUME NEW r \in Requests, ReadFile(r) PROVE JobFiles(x)'
  BY <1>0, <1>19, SentinelsAreNotIds DEF ReadFile, TypeOK, JobLife, JobFiles, Cleaned, Drafts
<1>20. ASSUME NEW r \in Requests, EndReply(r) PROVE JobFiles(x)'
  BY <1>0, <1>20, SentinelsAreNotIds DEF EndReply, TypeOK, JobLife, JobFiles, Cleaned, Drafts
<1>21. ASSUME NEW r \in Requests, NEW k \in Drafts, NEW j \in Jobs, Discard(r, k, j)
       PROVE JobFiles(x)'
  BY <1>0, <1>21, SentinelsAreNotIds DEF Discard, TypeOK, JobLife, JobFiles, Cleaned, Drafts
<1>22. ASSUME NEW r \in Requests, Erase(r) PROVE JobFiles(x)'
  BY <1>0, <1>22, SentinelsAreNotIds
     DEF Erase, Less, Leaves, TypeOK, JobLife, JobFiles, Cleaned, Drafts
<1>23. ASSUME NEW r \in Requests, NEW n \in Names, DeleteRecord(r, n) PROVE JobFiles(x)'
  BY <1>0, <1>23, SentinelsAreNotIds DEF DeleteRecord, TypeOK, JobLife, JobFiles, Cleaned, Drafts
<1>24. ASSUME NEW r \in Requests, DeleteUnlist(r) PROVE JobFiles(x)'
  BY <1>0, <1>24, SentinelsAreNotIds DEF DeleteUnlist, TypeOK, JobLife, JobFiles, Cleaned, Drafts
<1>25. ASSUME NEW r \in Requests, DeleteRender(r) PROVE JobFiles(x)'
  BY <1>0, <1>25, SentinelsAreNotIds DEF DeleteRender, TypeOK, JobLife, JobFiles, Cleaned, Drafts
<1>26. ASSUME NEW r \in Requests, DeleteRemove(r) PROVE JobFiles(x)'
  BY <1>0, <1>26, SentinelsAreNotIds
     DEF DeleteRemove, Less, Leaves, TypeOK, JobLife, JobFiles, Cleaned, Drafts
<1>27. ASSUME NEW r \in Requests, Shutdown(r) PROVE JobFiles(x)'
  BY <1>0, <1>27, SentinelsAreNotIds DEF Shutdown, TypeOK, JobLife, JobFiles, Cleaned, Drafts
<1>28. ASSUME Die PROVE JobFiles(x)'
  BY <1>0, <1>28, SentinelsAreNotIds DEF Die, TypeOK, JobLife, JobFiles, Cleaned, Drafts
<1>29. ASSUME Restart PROVE JobFiles(x)'
  BY <1>0, <1>29, SentinelsAreNotIds DEF Restart, TypeOK, JobLife, JobFiles, Cleaned, Drafts
<1>30. ASSUME EditExternal PROVE JobFiles(x)'
  BY <1>0, <1>30, SentinelsAreNotIds DEF EditExternal, TypeOK, JobLife, JobFiles, Cleaned, Drafts
<1>31. CASE UNCHANGED vars
  BY <1>0, <1>31 DEF vars, TypeOK, JobLife, JobFiles, Cleaned, Drafts
<1>32. ASSUME NEW r \in Requests, ReadBody(r) PROVE JobFiles(x)'
  BY <1>0, <1>32 DEF ReadBody, TypeOK, JobFiles, Cleaned, Cleaned
<1>33. ASSUME NEW r \in Requests, HandlerError(r) PROVE JobFiles(x)'
  BY <1>0, <1>33 DEF HandlerError, TypeOK, JobFiles, Cleaned, Cleaned
<1>34. ASSUME NEW j \in Jobs, StrayEnds(j) PROVE JobFiles(x)'
  BY <1>0, <1>34, SentinelsAreNotIds DEF StrayEnds, TypeOK, JobLife, JobFiles, Cleaned, Cleaned
<1> QED
  BY <1>1, <1>2, <1>3, <1>4, <1>5, <1>6, <1>7, <1>8, <1>9, <1>10, <1>11, <1>12, <1>13, <1>14,
     <1>15, <1>16, <1>17, <1>18, <1>19, <1>20, <1>21, <1>22, <1>23, <1>24, <1>25, <1>26, <1>27,
     <1>28, <1>29, <1>30, <1>31, <1>32, <1>33, <1>34
     DEF Next, Call, HandlerStep, ChildStep, WorkerStep

\* A handler that does not move keeps its facts when its job is left alone.
LEMMA HandlerFrame ==
    ASSUME NEW s \in Requests, HandlerLife(s), req'[s] = req[s],
           req[s].j \in Jobs =>
              /\ kind'[req[s].j] = kind[req[s].j] /\ job'[req[s].j] = job[req[s].j]
              /\ verdict'[req[s].j] = verdict[req[s].j]
              /\ child'[req[s].j] = child[req[s].j] /\ worker'[req[s].j] = worker[req[s].j]
    PROVE  HandlerLife(s)'
BY DEF HandlerLife

\* Two handlers never hold worker_lock at once, nor a handler and a worker.
LEMMA OneHolder ==
    ASSUME OneNativeJob, NEW r \in Requests, req[r].pc \in Holding
    PROVE  /\ \A s \in Requests : req[s].pc \in Holding => s = r
           /\ \A j \in Jobs : worker[j] = "none"
BY SentinelsAreNotIds DEF OneNativeJob, Holders

LEMMA HandStep == StudioInv /\ [Next]_vars => \A s \in Requests : HandlerLife(s)'
<1> SUFFICES ASSUME StudioInv, [Next]_vars, NEW s \in Requests PROVE HandlerLife(s)'
  OBVIOUS
<1> USE DEF jobVars, diskVars, runVars, libVars
<1>0. TypeOK /\ HandlerLife(s)
  BY DEF StudioInv
<1>1. ASSUME NEW r \in Requests, NEW op \in Calls, Acquire(r, op) PROVE HandlerLife(s)'
  <2>1. TypeOK /\ HandlerLife(r)
    BY DEF StudioInv
  <2>2. Moved(r, "body", None)
    BY <1>1, <2>1, AcquireMoves
  <2>3. CASE s = r
    BY <1>0, <1>1, <2>1, <2>2, <2>3, SentinelsAreNotIds
       DEF Acquire, TypeOK, HandlerLife, JobLife, JobFiles, Moved, Drafts
  <2>4. CASE s # r
    BY <1>0, <1>1, <2>1, <2>2, <2>4, SentinelsAreNotIds
       DEF Acquire, TypeOK, HandlerLife, JobLife, Moved, Drafts
  <2> QED
    BY <2>3, <2>4
<1>2. ASSUME NEW r \in Requests, Release(r) PROVE HandlerLife(s)'
  <2>1. TypeOK /\ HandlerLife(r)
    BY DEF StudioInv
  <2>2. Moved(r, "idle", None)
    BY <1>2, <2>1, ReleaseMoves
  <2>3. CASE s = r
    BY <1>0, <1>2, <2>1, <2>2, <2>3, SentinelsAreNotIds
       DEF Release, TypeOK, HandlerLife, JobLife, JobFiles, Moved, Drafts
  <2>4. CASE s # r
    BY <1>0, <1>2, <2>1, <2>2, <2>4, SentinelsAreNotIds
       DEF Release, TypeOK, HandlerLife, JobLife, Moved, Drafts
  <2> QED
    BY <2>3, <2>4
<1>3. ASSUME NEW r \in Requests, NEW j \in Jobs, NEW n \in Names, Stage(r, j, n)
      PROVE HandlerLife(s)'
  <2>1. TypeOK /\ HandlerLife(r) /\ JobLife(j)
    BY DEF StudioInv
  <2>2. Moved(r, "staged", j)
    BY <1>3, <2>1, StageMoves
  <2>3. /\ kind[j] = None /\ kind'[j] \in Kinds /\ \A x \in Jobs : x # j => kind'[x] = kind[x]
        /\ UNCHANGED <<job, verdict, child, worker>>
    BY <1>3, <2>1 DEF Stage, TypeOK, Kinds, Starts
  <2>4. CASE s = r
    BY <1>3, <2>1, <2>2, <2>3, <2>4, SentinelsAreNotIds DEF HandlerLife, JobLife, Stage, Moved
  <2>5. CASE s # r
    <3>1. req'[s] = req[s]
      BY <2>2, <2>5 DEF Moved
    <3>2. CASE req[s].j = j
      BY <1>0, <2>3, <3>1, <3>2, SentinelsAreNotIds DEF HandlerLife, Kinds, Drafts
    <3>3. CASE req[s].j # j
      BY <1>0, <2>3, <3>1, <3>3, HandlerFrame
    <3> QED
      BY <3>2, <3>3
  <2> QED
    BY <2>4, <2>5
<1>4. ASSUME NEW r \in Requests, Register(r) PROVE HandlerLife(s)'
  <2>1. TypeOK /\ HandlerLife(r) /\ OneNativeJob
    BY DEF StudioInv
  <2>2. Moved(r, "registered", req[r].j)
    BY <1>4, <2>1, RegisterMoves
  <2>3. CASE s = r
    BY <1>4, <2>1, <2>2, <2>3 DEF Register, TypeOK, HandlerLife, Moved
  <2>4. CASE s # r
    <3>1. req'[s] = req[s] /\ req[s].pc \notin Holding
      BY <1>4, <2>1, <2>2, <2>4, OneHolder DEF Moved, Register, Holding
    <3> QED
      BY <1>0, <1>4, <3>1 DEF HandlerLife, Register, Holding
  <2> QED
    BY <2>3, <2>4
<1>5. ASSUME NEW r \in Requests, StartWorker(r) PROVE HandlerLife(s)'
  <2>1. TypeOK /\ OneNativeJob
    BY DEF StudioInv
  <2>2. Moved(r, "idle", None)
    BY <1>5, <2>1, StartWorkerMoves
  <2>3. CASE s = r
    BY <2>2, <2>3 DEF HandlerLife, Moved
  <2>4. CASE s # r
    <3>1. req'[s] = req[s] /\ req[s].pc \notin Holding
      BY <1>5, <2>1, <2>2, <2>4, OneHolder DEF Moved, StartWorker, Holding
    <3> QED
      BY <1>0, <1>5, <3>1 DEF HandlerLife, StartWorker, Holding
  <2> QED
    BY <2>3, <2>4
<1>6. ASSUME NEW r \in Requests, StartFails(r) PROVE HandlerLife(s)'
  <2>1. TypeOK /\ HandlerLife(r)
    BY DEF StudioInv
  <2>2. Moved(r, "leaked", req[r].j) \/ Moved(r, "idle", None)
    BY <1>6, <2>1, StartFailsMoves
  <2>3. CASE s = r
    BY <1>0, <1>6, <2>1, <2>2, <2>3, SentinelsAreNotIds
       DEF StartFails, TypeOK, HandlerLife, JobLife, JobFiles, Moved, Drafts
  <2>4. CASE s # r
    BY <1>0, <1>6, <2>1, <2>2, <2>4, SentinelsAreNotIds
       DEF StartFails, TypeOK, HandlerLife, JobLife, Moved, Drafts
  <2> QED
    BY <2>3, <2>4
<1>7. ASSUME NEW j \in Jobs, ChildBuild(j) PROVE HandlerLife(s)'
  <2>1. JobLife(j)
    BY DEF StudioInv
  <2> QED
    BY <1>0, <1>7, <2>1, SentinelsAreNotIds
       DEF ChildBuild, TypeOK, HandlerLife, JobLife, Running
<1>8. ASSUME NEW j \in Jobs, ChildBuilt(j) PROVE HandlerLife(s)'
  <2>1. JobLife(j)
    BY DEF StudioInv
  <2> QED
    BY <1>0, <1>8, <2>1, SentinelsAreNotIds
       DEF ChildBuilt, TypeOK, HandlerLife, JobLife, Running
<1>9. ASSUME NEW j \in Jobs, ChildRead(j) PROVE HandlerLife(s)'
  <2>1. JobLife(j)
    BY DEF StudioInv
  <2> QED
    BY <1>0, <1>9, <2>1, SentinelsAreNotIds DEF ChildRead, TypeOK, HandlerLife, JobLife, Running
<1>10. ASSUME NEW j \in Jobs, ChildWrite(j) PROVE HandlerLife(s)'
  <2>1. JobLife(j)
    BY DEF StudioInv
  <2> QED
    BY <1>0, <1>10, <2>1, SentinelsAreNotIds
       DEF ChildWrite, TypeOK, HandlerLife, JobLife, Running
<1>11. ASSUME NEW j \in Jobs, ChildRender(j) PROVE HandlerLife(s)'
  <2>1. JobLife(j)
    BY DEF StudioInv
  <2> QED
    BY <1>0, <1>11, <2>1, SentinelsAreNotIds
       DEF ChildRender, TypeOK, HandlerLife, JobLife, Running
<1>12. ASSUME NEW j \in Jobs, WorkerJudge(j) PROVE HandlerLife(s)'
  <2>1. JobLife(j)
    BY DEF StudioInv
  <2> QED
    BY <1>0, <1>12, <2>1, SentinelsAreNotIds
       DEF WorkerJudge, TypeOK, HandlerLife, JobLife, Running
<1>13. ASSUME NEW j \in Jobs, WorkerTimeout(j) PROVE HandlerLife(s)'
  <2>1. JobLife(j)
    BY DEF StudioInv
  <2> QED
    BY <1>0, <1>13, <2>1, SentinelsAreNotIds
       DEF WorkerTimeout, TypeOK, HandlerLife, JobLife, Running
<1>14. ASSUME NEW j \in Jobs, WorkerCleanup(j) PROVE HandlerLife(s)'
  <2>1. JobLife(j)
    BY DEF StudioInv
  <2> QED
    BY <1>0, <1>14, <2>1, SentinelsAreNotIds
       DEF WorkerCleanup, TypeOK, HandlerLife, JobLife, Running
<1>15. ASSUME NEW j \in Jobs, WorkerRecord(j) PROVE HandlerLife(s)'
  <2>1. JobLife(j)
    BY DEF StudioInv
  <2> QED
    BY <1>0, <1>15, <2>1, SentinelsAreNotIds
       DEF WorkerRecord, TypeOK, HandlerLife, JobLife, Running
<1>16. ASSUME NEW j \in Jobs, WorkerRelease(j) PROVE HandlerLife(s)'
  <2>1. JobLife(j)
    BY DEF StudioInv
  <2> QED
    BY <1>0, <1>16, <2>1, SentinelsAreNotIds
       DEF WorkerRelease, TypeOK, HandlerLife, JobLife, Running
<1>17. ASSUME NEW r \in Requests, NEW j \in Jobs, ServeCopper(r, j) PROVE HandlerLife(s)'
  <2>1. TypeOK /\ HandlerLife(r) /\ JobLife(j) /\ JobFiles(j)
    BY DEF StudioInv
  <2>2. Moved(r, "replied", j) /\ req'[r].body = output[j]
    BY <1>17, <2>1, ServeCopperMoves
  <2>3. CASE s = r
    BY <1>0, <1>17, <2>1, <2>2, <2>3, SentinelsAreNotIds
       DEF ServeCopper, TypeOK, HandlerLife, JobLife, JobFiles, Moved, Drafts
  <2>4. CASE s # r
    BY <1>0, <1>17, <2>1, <2>2, <2>4, SentinelsAreNotIds
       DEF ServeCopper, TypeOK, HandlerLife, JobLife, Moved, Drafts
  <2> QED
    BY <2>3, <2>4
<1>18. ASSUME NEW r \in Requests, NEW j \in Jobs, LookUp(r, j) PROVE HandlerLife(s)'
  <2>1. TypeOK /\ HandlerLife(r) /\ JobLife(j) /\ JobFiles(j)
    BY DEF StudioInv
  <2>2. Moved(r, "reading", j)
    BY <1>18, <2>1, LookUpMoves
  <2>3. CASE s = r
    BY <1>0, <1>18, <2>1, <2>2, <2>3, SentinelsAreNotIds
       DEF LookUp, TypeOK, HandlerLife, JobLife, JobFiles, Moved, Drafts
  <2>4. CASE s # r
    BY <1>0, <1>18, <2>1, <2>2, <2>4, SentinelsAreNotIds
       DEF LookUp, TypeOK, HandlerLife, JobLife, Moved, Drafts
  <2> QED
    BY <2>3, <2>4
<1>19. ASSUME NEW r \in Requests, ReadFile(r) PROVE HandlerLife(s)'
  <2>1. TypeOK /\ HandlerLife(r) /\ (req[r].j \in Jobs => JobFiles(req[r].j))
    BY DEF StudioInv
  <2>2. \/ Moved(r, "idle", None)
        \/ /\ output[req[r].j] # "absent" /\ Moved(r, "replied", req[r].j)
           /\ req'[r].body = output[req[r].j]
    BY <1>19, <2>1, ReadFileMoves
  <2>3. /\ req[r].j \in Jobs /\ verdict[req[r].j] = "complete"
        /\ output[req[r].j] \in {"absent", "full"}
    BY <1>19, <2>1 DEF ReadFile, HandlerLife, JobFiles, TypeOK
  <2>4. UNCHANGED <<job, kind, verdict, child, worker>>
    BY <1>19 DEF ReadFile
  <2>5. CASE s = r
    BY <2>2, <2>3, <2>4, <2>5 DEF HandlerLife, Moved
  <2>6. CASE s # r
    BY <1>0, <2>2, <2>4, <2>6 DEF HandlerLife, Moved
  <2> QED
    BY <2>5, <2>6
<1>20. ASSUME NEW r \in Requests, EndReply(r) PROVE HandlerLife(s)'
  <2>1. TypeOK /\ HandlerLife(r)
    BY DEF StudioInv
  <2>2. Moved(r, "idle", None)
    BY <1>20, <2>1, EndReplyMoves
  <2>3. CASE s = r
    BY <1>0, <1>20, <2>1, <2>2, <2>3, SentinelsAreNotIds
       DEF EndReply, TypeOK, HandlerLife, JobLife, JobFiles, Moved, Drafts
  <2>4. CASE s # r
    BY <1>0, <1>20, <2>1, <2>2, <2>4, SentinelsAreNotIds
       DEF EndReply, TypeOK, HandlerLife, JobLife, Moved, Drafts
  <2> QED
    BY <2>3, <2>4
<1>21. ASSUME NEW r \in Requests, NEW k \in Drafts, NEW j \in Jobs, Discard(r, k, j)
       PROVE HandlerLife(s)'
  <2>1. TypeOK /\ JobLife(j)
    BY DEF StudioInv
  <2>2. (req' = req) \/ (Moved(r, "erasing", j) /\ kind[j] = k)
    BY <1>21, <2>1, DiscardMoves
  <2>3. /\ job[j] \in {"complete", "failed"} /\ \A x \in Jobs : x # j => job'[x] = job[x]
        /\ verdict[j] # None /\ UNCHANGED <<kind, verdict, child, worker>>
    BY <1>21, <2>1, SentinelsAreNotIds DEF Discard, Discardable, TypeOK, JobLife
  <2>4. CASE req'[s] = req[s]
    BY <1>0, <2>3, <2>4 DEF HandlerLife
  <2>5. CASE s = r /\ Moved(r, "erasing", j) /\ kind[j] = k
    BY <2>3, <2>5 DEF HandlerLife, Moved
  <2> QED
    BY <2>2, <2>4, <2>5 DEF Moved
<1>22. ASSUME NEW r \in Requests, Erase(r) PROVE HandlerLife(s)'
  <2>1. TypeOK /\ HandlerLife(r)
    BY DEF StudioInv
  <2>2. Moved(r, "idle", None)
    BY <1>22, <2>1, EraseMoves
  <2>3. CASE s = r
    BY <1>0, <1>22, <2>1, <2>2, <2>3, SentinelsAreNotIds
       DEF Erase, TypeOK, HandlerLife, JobLife, JobFiles, Moved, Drafts
  <2>4. CASE s # r
    BY <1>0, <1>22, <2>1, <2>2, <2>4, SentinelsAreNotIds
       DEF Erase, TypeOK, HandlerLife, JobLife, Moved, Drafts
  <2> QED
    BY <2>3, <2>4
<1>23. ASSUME NEW r \in Requests, NEW n \in Names, DeleteRecord(r, n) PROVE HandlerLife(s)'
  <2>1. TypeOK /\ HandlerLife(r)
    BY DEF StudioInv
  <2>2. Moved(r, "unlisting", manifest[n]) /\ req'[r].rows = manifest
    BY <1>23, <2>1, DeleteRecordMoves
  <2>3. CASE s = r
    BY <1>0, <1>23, <2>1, <2>2, <2>3, SentinelsAreNotIds
       DEF DeleteRecord, TypeOK, HandlerLife, JobLife, JobFiles, Moved, Drafts
  <2>4. CASE s # r
    BY <1>0, <1>23, <2>1, <2>2, <2>4, SentinelsAreNotIds
       DEF DeleteRecord, TypeOK, HandlerLife, JobLife, Moved, Drafts
  <2> QED
    BY <2>3, <2>4
<1>24. ASSUME NEW r \in Requests, DeleteUnlist(r) PROVE HandlerLife(s)'
  <2>1. TypeOK /\ HandlerLife(r)
    BY DEF StudioInv
  <2>2. Moved(r, "rendering", req[r].j) /\ req'[r].rows = req[r].rows
    BY <1>24, <2>1, DeleteUnlistMoves
  <2>3. CASE s = r
    BY <1>0, <1>24, <2>1, <2>2, <2>3, SentinelsAreNotIds
       DEF DeleteUnlist, TypeOK, HandlerLife, JobLife, JobFiles, Moved, Drafts
  <2>4. CASE s # r
    BY <1>0, <1>24, <2>1, <2>2, <2>4, SentinelsAreNotIds
       DEF DeleteUnlist, TypeOK, HandlerLife, JobLife, Moved, Drafts
  <2> QED
    BY <2>3, <2>4
<1>25. ASSUME NEW r \in Requests, DeleteRender(r) PROVE HandlerLife(s)'
  <2>1. TypeOK /\ HandlerLife(r)
    BY DEF StudioInv
  <2>2. Moved(r, "removing", req[r].j) \/ Moved(r, "idle", None)
    BY <1>25, <2>1, DeleteRenderMoves
  <2>3. CASE s = r
    BY <1>0, <1>25, <2>1, <2>2, <2>3, SentinelsAreNotIds
       DEF DeleteRender, TypeOK, HandlerLife, JobLife, JobFiles, Moved, Drafts
  <2>4. CASE s # r
    BY <1>0, <1>25, <2>1, <2>2, <2>4, SentinelsAreNotIds
       DEF DeleteRender, TypeOK, HandlerLife, JobLife, Moved, Drafts
  <2> QED
    BY <2>3, <2>4
<1>26. ASSUME NEW r \in Requests, DeleteRemove(r) PROVE HandlerLife(s)'
  <2>1. TypeOK /\ HandlerLife(r)
    BY DEF StudioInv
  <2>2. Moved(r, "idle", None)
    BY <1>26, <2>1, DeleteRemoveMoves
  <2>3. CASE s = r
    BY <1>0, <1>26, <2>1, <2>2, <2>3, SentinelsAreNotIds
       DEF DeleteRemove, TypeOK, HandlerLife, JobLife, JobFiles, Moved, Drafts
  <2>4. CASE s # r
    BY <1>0, <1>26, <2>1, <2>2, <2>4, SentinelsAreNotIds
       DEF DeleteRemove, TypeOK, HandlerLife, JobLife, Moved, Drafts
  <2> QED
    BY <2>3, <2>4
<1>27. ASSUME NEW r \in Requests, Shutdown(r) PROVE HandlerLife(s)'
  BY <1>0, <1>27, SentinelsAreNotIds DEF Shutdown, TypeOK, HandlerLife, Idle
<1>28. ASSUME Die PROVE HandlerLife(s)'
  BY <1>0, <1>28, SentinelsAreNotIds DEF Die, TypeOK, HandlerLife, Idle
<1>29. ASSUME Restart PROVE HandlerLife(s)'
  BY <1>0, <1>29, SentinelsAreNotIds DEF Restart, TypeOK, HandlerLife, Idle
<1>30. ASSUME EditExternal PROVE HandlerLife(s)'
  BY <1>0, <1>30, SentinelsAreNotIds DEF EditExternal, TypeOK, HandlerLife, Idle
<1>31. CASE UNCHANGED vars
  BY <1>0, <1>31 DEF vars, HandlerLife
<1>32. ASSUME NEW r \in Requests, ReadBody(r) PROVE HandlerLife(s)'
  <2>1. TypeOK /\ HandlerLife(r)
    BY DEF StudioInv
  <2>2. Moved(r, "held", req[r].j) /\ UNCHANGED <<job, kind, verdict, child, worker>>
    BY <1>32, <2>1, ReadBodyMoves DEF ReadBody
  <2>3. CASE s = r
    BY <1>32, <2>1, <2>2, <2>3 DEF ReadBody, HandlerLife, Moved
  <2>4. CASE s # r
    BY <1>0, <2>2, <2>4 DEF HandlerLife, Moved
  <2> QED
    BY <2>3, <2>4
<1>33. ASSUME NEW r \in Requests, HandlerError(r) PROVE HandlerLife(s)'
  <2>1. TypeOK /\ HandlerLife(r)
    BY DEF StudioInv
  <2>2. Moved(r, "leaked", req[r].j) /\ UNCHANGED <<job, kind, verdict, child, worker>>
    BY <1>33, <2>1, HandlerErrorMoves DEF HandlerError
  <2>3. CASE s = r
    BY <1>33, <2>1, <2>2, <2>3 DEF HandlerError, HandlerLife, Moved
  <2>4. CASE s # r
    BY <1>0, <2>2, <2>4 DEF HandlerLife, Moved
  <2> QED
    BY <2>3, <2>4
<1>34. ASSUME NEW j \in Jobs, StrayEnds(j) PROVE HandlerLife(s)'
  BY <1>0, <1>34 DEF StrayEnds, TypeOK, HandlerLife
<1> QED
  BY <1>1, <1>2, <1>3, <1>4, <1>5, <1>6, <1>7, <1>8, <1>9, <1>10, <1>11, <1>12, <1>13, <1>14,
     <1>15, <1>16, <1>17, <1>18, <1>19, <1>20, <1>21, <1>22, <1>23, <1>24, <1>25, <1>26, <1>27,
     <1>28, <1>29, <1>30, <1>31, <1>32, <1>33, <1>34
     DEF Next, Call, HandlerStep, ChildStep, WorkerStep

LEMMA OneWorker ==
    ASSUME OneNativeJob, NEW j \in Jobs, worker[j] # "none"
    PROVE  /\ \A s \in Requests : req[s].pc \notin Holding
           /\ \A i \in Jobs : worker[i] # "none" => i = j
BY SentinelsAreNotIds DEF OneNativeJob, Holders

\* The lock stays where it is, comes back, or is with one thread.
LEMMA LockStays ==
    ASSUME OneNativeJob, locked' = locked,
           \A s \in Requests : req'[s].pc \in Holding <=> req[s].pc \in Holding,
           \A j \in Jobs : worker'[j] # "none" <=> worker[j] # "none"
    PROVE  OneNativeJob'
<1>1. Holders' = Holders
  BY DEF Holders
<1> QED
  BY <1>1 DEF OneNativeJob

LEMMA LockReturned ==
    ASSUME locked' = FALSE, \A s \in Requests : req'[s].pc \notin Holding,
           \A j \in Jobs : worker'[j] = "none"
    PROVE  OneNativeJob'
<1>1. Holders' = {}
  BY DEF Holders
<1> QED
  BY <1>1 DEF OneNativeJob

LEMMA LockWithHandler ==
    ASSUME locked' = TRUE, NEW r \in Requests, req'[r].pc \in Holding,
           \A s \in Requests : s # r => req'[s].pc \notin Holding,
           \A j \in Jobs : worker'[j] = "none"
    PROVE  OneNativeJob'
<1>1. Holders' = {r}
  BY DEF Holders
<1> QED
  BY <1>1 DEF OneNativeJob

LEMMA LockWithWorker ==
    ASSUME locked' = TRUE, NEW j \in Jobs, worker'[j] # "none",
           \A s \in Requests : req'[s].pc \notin Holding,
           \A i \in Jobs : i # j => worker'[i] = "none"
    PROVE  OneNativeJob'
<1>1. Holders' = {j}
  BY DEF Holders
<1> QED
  BY <1>1 DEF OneNativeJob

LEMMA LockStep == StudioInv /\ [Next]_vars => OneNativeJob'
<1> SUFFICES ASSUME StudioInv, [Next]_vars PROVE OneNativeJob'
  OBVIOUS
<1> USE DEF jobVars, diskVars, runVars, libVars
<1>0. TypeOK /\ OneNativeJob
  BY DEF StudioInv
<1>1. ASSUME NEW r \in Requests, NEW op \in Calls, Acquire(r, op) PROVE OneNativeJob'
  <2>1. Moved(r, "body", None)
    BY <1>0, <1>1, AcquireMoves
  <2>2. locked' = TRUE /\ worker' = worker /\ Holders = {}
    BY <1>0, <1>1 DEF Acquire, OneNativeJob
  <2> QED
    BY <2>1, <2>2, LockWithHandler DEF Moved, Holding, Holders
<1>2. ASSUME NEW r \in Requests, Release(r) PROVE OneNativeJob'
  <2>1. Moved(r, "idle", None) /\ req[r].pc \in Holding /\ locked' = FALSE /\ worker' = worker
    BY <1>0, <1>2, ReleaseMoves DEF Release, Holding
  <2> QED
    BY <1>0, <2>1, OneHolder, LockReturned DEF Moved, Holding
<1>3. ASSUME NEW r \in Requests, NEW j \in Jobs, NEW n \in Names, Stage(r, j, n)
      PROVE OneNativeJob'
  <2>1. Moved(r, "staged", j)
    BY <1>0, <1>3, StageMoves
  <2> QED
    BY <1>0, <1>3, <2>1, LockStays DEF Stage, Moved, Holding, Idle
<1>4. ASSUME NEW r \in Requests, Register(r) PROVE OneNativeJob'
  <2>1. Moved(r, "registered", req[r].j)
    BY <1>0, <1>4, RegisterMoves
  <2> QED
    BY <1>0, <1>4, <2>1, LockStays DEF Register, Moved, Holding, Idle
<1>5. ASSUME NEW r \in Requests, StartWorker(r) PROVE OneNativeJob'
  <2>1. HandlerLife(r)
    BY DEF StudioInv
  <2>2. Moved(r, "idle", None) /\ req[r].pc \in Holding /\ locked' = locked /\ req[r].j \in Jobs
    BY <1>0, <1>5, <2>1, StartWorkerMoves DEF StartWorker, Holding, HandlerLife
  <2>3. locked' = TRUE /\ \A s \in Requests : req'[s].pc \notin Holding
    BY <1>0, <2>2, OneHolder DEF Moved, Holding, OneNativeJob, Holders
  <2>4. /\ worker'[req[r].j] # "none"
        /\ \A i \in Jobs : i # req[r].j => worker'[i] = "none"
    BY <1>0, <1>5, <2>2, OneHolder DEF StartWorker, TypeOK
  <2> QED
    BY <2>2, <2>3, <2>4, LockWithWorker
<1>6. ASSUME NEW r \in Requests, StartFails(r) PROVE OneNativeJob'
  <2>1. req[r].pc \in Holding /\ worker' = worker
    BY <1>0, <1>6 DEF StartFails, Holding
  <2>2. \/ Moved(r, "leaked", req[r].j) /\ locked' = locked
        \/ Moved(r, "idle", None) /\ locked' = FALSE
    BY <1>0, <1>6, StartFailsMoves DEF StartFails, Moved
  <2>3. CASE Moved(r, "leaked", req[r].j) /\ locked' = locked
    BY <1>0, <2>1, <2>3, LockStays DEF Moved, Holding
  <2>4. CASE Moved(r, "idle", None) /\ locked' = FALSE
    BY <1>0, <2>1, <2>4, OneHolder, LockReturned DEF Moved, Holding
  <2> QED
    BY <2>2, <2>3, <2>4
<1>7. ASSUME NEW j \in Jobs, ChildBuild(j) PROVE OneNativeJob'
  BY <1>0, <1>7, LockStays DEF ChildBuild, TypeOK
<1>8. ASSUME NEW j \in Jobs, ChildBuilt(j) PROVE OneNativeJob'
  BY <1>0, <1>8, LockStays DEF ChildBuilt, TypeOK
<1>9. ASSUME NEW j \in Jobs, ChildRead(j) PROVE OneNativeJob'
  BY <1>0, <1>9, LockStays DEF ChildRead, TypeOK
<1>10. ASSUME NEW j \in Jobs, ChildWrite(j) PROVE OneNativeJob'
  BY <1>0, <1>10, LockStays DEF ChildWrite, TypeOK
<1>11. ASSUME NEW j \in Jobs, ChildRender(j) PROVE OneNativeJob'
  BY <1>0, <1>11, LockStays DEF ChildRender, TypeOK
<1>12. ASSUME NEW j \in Jobs, WorkerJudge(j) PROVE OneNativeJob'
  BY <1>0, <1>12, LockStays DEF WorkerJudge, TypeOK
<1>13. ASSUME NEW j \in Jobs, WorkerTimeout(j) PROVE OneNativeJob'
  BY <1>0, <1>13, LockStays DEF WorkerTimeout, TypeOK
<1>14. ASSUME NEW j \in Jobs, WorkerCleanup(j) PROVE OneNativeJob'
  BY <1>0, <1>14, LockStays DEF WorkerCleanup, TypeOK
<1>15. ASSUME NEW j \in Jobs, WorkerRecord(j) PROVE OneNativeJob'
  <2>1. JobLife(j)
    BY DEF StudioInv
  <2>2. worker'[j] # "none"
    BY <1>0, <1>15, <2>1 DEF WorkerRecord, TypeOK, JobLife
  <2> QED
    BY <1>0, <1>15, <2>2, LockStays DEF WorkerRecord, TypeOK
<1>16. ASSUME NEW j \in Jobs, WorkerRelease(j) PROVE OneNativeJob'
  <2>1. /\ worker[j] # "none" /\ worker'[j] = "none" /\ locked' = FALSE /\ req' = req
        /\ \A i \in Jobs : i # j => worker'[i] = worker[i]
    BY <1>0, <1>16 DEF WorkerRelease, TypeOK
  <2> QED
    BY <1>0, <2>1, OneWorker, LockReturned
<1>17. ASSUME NEW r \in Requests, NEW j \in Jobs, ServeCopper(r, j) PROVE OneNativeJob'
  <2>1. Moved(r, "replied", j) /\ req'[r].body = output[j]
    BY <1>0, <1>17, ServeCopperMoves
  <2> QED
    BY <1>0, <1>17, <2>1, LockStays DEF ServeCopper, Moved, Holding, Idle
<1>18. ASSUME NEW r \in Requests, NEW j \in Jobs, LookUp(r, j) PROVE OneNativeJob'
  <2>1. Moved(r, "reading", j)
    BY <1>0, <1>18, LookUpMoves
  <2> QED
    BY <1>0, <1>18, <2>1, LockStays DEF LookUp, Moved, Holding, Idle
<1>19. ASSUME NEW r \in Requests, ReadFile(r) PROVE OneNativeJob'
  <2>1. Moved(r, "idle", None) \/ Moved(r, "replied", req[r].j)
    BY <1>0, <1>19, ReadFileMoves DEF StudioInv
  <2> QED
    BY <1>0, <1>19, <2>1, LockStays DEF ReadFile, Moved, Holding, Idle
<1>20. ASSUME NEW r \in Requests, EndReply(r) PROVE OneNativeJob'
  <2>1. Moved(r, "idle", None)
    BY <1>0, <1>20, EndReplyMoves
  <2> QED
    BY <1>0, <1>20, <2>1, LockStays DEF EndReply, Moved, Holding, Idle
<1>21. ASSUME NEW r \in Requests, NEW k \in Drafts, NEW j \in Jobs, Discard(r, k, j)
       PROVE OneNativeJob'
  <2>1. (req' = req) \/ (Moved(r, "erasing", j) /\ kind[j] = k)
    BY <1>0, <1>21, DiscardMoves
  <2> QED
    BY <1>0, <1>21, <2>1, LockStays DEF Discard, Moved, Holding, Idle
<1>22. ASSUME NEW r \in Requests, Erase(r) PROVE OneNativeJob'
  <2>1. Moved(r, "idle", None)
    BY <1>0, <1>22, EraseMoves
  <2> QED
    BY <1>0, <1>22, <2>1, LockStays DEF Erase, Moved, Holding, Idle
<1>23. ASSUME NEW r \in Requests, NEW n \in Names, DeleteRecord(r, n) PROVE OneNativeJob'
  <2>1. Moved(r, "unlisting", manifest[n]) /\ req'[r].rows = manifest
    BY <1>0, <1>23, DeleteRecordMoves
  <2> QED
    BY <1>0, <1>23, <2>1, LockStays DEF DeleteRecord, Moved, Holding, Idle
<1>24. ASSUME NEW r \in Requests, DeleteUnlist(r) PROVE OneNativeJob'
  <2>1. Moved(r, "rendering", req[r].j) /\ req'[r].rows = req[r].rows
    BY <1>0, <1>24, DeleteUnlistMoves
  <2> QED
    BY <1>0, <1>24, <2>1, LockStays DEF DeleteUnlist, Moved, Holding, Idle
<1>25. ASSUME NEW r \in Requests, DeleteRender(r) PROVE OneNativeJob'
  <2>1. req[r].pc \in Holding /\ worker' = worker
    BY <1>0, <1>25 DEF DeleteRender, Holding
  <2>2. \/ Moved(r, "removing", req[r].j) /\ locked' = locked
        \/ Moved(r, "idle", None) /\ locked' = FALSE
    BY <1>0, <1>25, DeleteRenderMoves DEF DeleteRender, Moved
  <2>3. CASE Moved(r, "removing", req[r].j) /\ locked' = locked
    BY <1>0, <2>1, <2>3, LockStays DEF Moved, Holding
  <2>4. CASE Moved(r, "idle", None) /\ locked' = FALSE
    BY <1>0, <2>1, <2>4, OneHolder, LockReturned DEF Moved, Holding
  <2> QED
    BY <2>2, <2>3, <2>4
<1>26. ASSUME NEW r \in Requests, DeleteRemove(r) PROVE OneNativeJob'
  <2>1. Moved(r, "idle", None) /\ req[r].pc \in Holding /\ locked' = FALSE /\ worker' = worker
    BY <1>0, <1>26, DeleteRemoveMoves DEF DeleteRemove, Holding
  <2> QED
    BY <1>0, <2>1, OneHolder, LockReturned DEF Moved, Holding
<1>27. ASSUME NEW r \in Requests, Shutdown(r) PROVE OneNativeJob'
  BY <1>0, <1>27, LockStays DEF Shutdown, TypeOK
<1>28. ASSUME Die PROVE OneNativeJob'
  BY <1>28, LockReturned DEF Die, Holding, Idle
<1>29. ASSUME Restart PROVE OneNativeJob'
  BY <1>0, <1>29, LockStays DEF Restart, TypeOK
<1>30. ASSUME EditExternal PROVE OneNativeJob'
  BY <1>0, <1>30, LockStays DEF EditExternal, TypeOK
<1>31. CASE UNCHANGED vars
  BY <1>0, <1>31, LockStays DEF vars
<1>32. ASSUME NEW r \in Requests, ReadBody(r) PROVE OneNativeJob'
  <2>1. Moved(r, "held", req[r].j)
    BY <1>0, <1>32, ReadBodyMoves
  <2> QED
    BY <1>0, <1>32, <2>1, LockStays DEF ReadBody, Moved, Holding
<1>33. ASSUME NEW r \in Requests, HandlerError(r) PROVE OneNativeJob'
  <2>1. Moved(r, "leaked", req[r].j)
    BY <1>0, <1>33, HandlerErrorMoves
  <2> QED
    BY <1>0, <1>33, <2>1, LockStays DEF HandlerError, Moved, Holding
<1>34. ASSUME NEW j \in Jobs, StrayEnds(j) PROVE OneNativeJob'
  BY <1>0, <1>34, LockStays DEF StrayEnds, TypeOK
<1> QED
  BY <1>1, <1>2, <1>3, <1>4, <1>5, <1>6, <1>7, <1>8, <1>9, <1>10, <1>11, <1>12, <1>13, <1>14,
     <1>15, <1>16, <1>17, <1>18, <1>19, <1>20, <1>21, <1>22, <1>23, <1>24, <1>25, <1>26, <1>27,
     <1>28, <1>29, <1>30, <1>31, <1>32, <1>33, <1>34
     DEF Next, Call, HandlerStep, ChildStep, WorkerStep

-----------------------------------------------------------------------------
(* The library: what it relies on is kept by every step.                   *)

\* Without hangs, failing pages and edits the library can always be read.
LEMMA QuietReadable == TypeOK /\ LibraryInv /\ Quiet /\ ~Failing => Readable(manifest)
BY DEF TypeOK, Rows, LibraryInv, Kept, Readable, Failing

\* Kept(x) after the step.
KeptNext(x) ==
    x \in Jobs =>
        /\ kind'[x] = "import"
        /\ \/ /\ output'[x] = "full" /\ x \in staged'
              /\ \/ verdict'[x] = "complete" \/ child'[x] \in {"render", "ok"}
                 \/ child'[x] = "bad" /\ Failing
           \/ verdict'[x] = "failed" /\ Failing

\* A review that is vouched for stays so until its own deletion removes it.
LEMMA KeptStep ==
    ASSUME StudioInv, LibraryInv, Quiet, [Next]_vars, NEW x \in Jobs, Kept(x),
           \A r \in Requests : req[r].pc = "removing" => req[r].j # x
    PROVE  KeptNext(x)
<1> USE DEF jobVars, diskVars, runVars, libVars
<1>0. TypeOK /\ JobLife(x) /\ Kept(x) /\ LibraryInv /\ Quiet /\ server # "down"
  BY DEF StudioInv, LibraryInv
<1>1. ASSUME NEW r \in Requests, NEW op \in Calls, Acquire(r, op) PROVE KeptNext(x)
  BY <1>0, <1>1 DEF Acquire, TypeOK, JobLife, Kept, KeptNext
<1>2. ASSUME NEW r \in Requests, Release(r) PROVE KeptNext(x)
  <2>1. HandlerLife(r)
    BY DEF StudioInv
  <2> QED
    BY <1>0, <1>2, <2>1, SentinelsAreNotIds
       DEF Release, Less, Leaves, HandlerLife, Drafts, TypeOK, JobLife, Kept, KeptNext
<1>3. ASSUME NEW r \in Requests, NEW j \in Jobs, NEW n \in Names, Stage(r, j, n)
      PROVE KeptNext(x)
  BY <1>0, <1>3, SentinelsAreNotIds DEF Stage, TypeOK, JobLife, Kept, KeptNext
<1>4. ASSUME NEW r \in Requests, Register(r) PROVE KeptNext(x)
  BY <1>0, <1>4 DEF Register, TypeOK, JobLife, Kept, KeptNext
<1>5. ASSUME NEW r \in Requests, StartWorker(r) PROVE KeptNext(x)
  <2>1. HandlerLife(r)
    BY DEF StudioInv
  <2> QED
    BY <1>0, <1>5, <2>1, SentinelsAreNotIds
       DEF StartWorker, HandlerLife, Drafts, TypeOK, JobLife, Kept, KeptNext
<1>6. ASSUME NEW r \in Requests, StartFails(r) PROVE KeptNext(x)
  <2>1. HandlerLife(r)
    BY DEF StudioInv
  <2> QED
    BY <1>0, <1>6, <2>1, SentinelsAreNotIds
       DEF StartFails, Less, Leaves, HandlerLife, Drafts, TypeOK, JobLife, Kept, KeptNext
<1>7. ASSUME NEW j \in Jobs, ChildBuild(j) PROVE KeptNext(x)
  <2>1. CASE x = j
    BY <1>0, <1>7, <2>1, SentinelsAreNotIds DEF ChildBuild, TypeOK, JobLife, Kept, KeptNext
  <2>2. CASE x # j
    BY <1>0, <1>7, <2>2 DEF ChildBuild, TypeOK, JobLife, Kept, KeptNext
  <2> QED
    BY <2>1, <2>2
<1>8. ASSUME NEW j \in Jobs, ChildBuilt(j) PROVE KeptNext(x)
  BY <1>0, <1>8 DEF ChildBuilt, TypeOK, JobLife, Kept, KeptNext
<1>9. ASSUME NEW j \in Jobs, ChildRead(j) PROVE KeptNext(x)
  BY <1>0, <1>9 DEF ChildRead, TypeOK, JobLife, Kept, KeptNext
<1>10. ASSUME NEW j \in Jobs, ChildWrite(j) PROVE KeptNext(x)
  BY <1>0, <1>10 DEF ChildWrite, TypeOK, JobLife, Kept, KeptNext
<1>11. ASSUME NEW j \in Jobs, ChildRender(j) PROVE KeptNext(x)
  <2>1. child'[j] = "ok" \/ (child'[j] = "bad" /\ Failing)
    BY <1>0, <1>11, QuietReadable DEF ChildRender, Rendered, TypeOK, Failing
  <2>2. child[j] = "render" /\ verdict[j] = None
    BY <1>11, SentinelsAreNotIds DEF ChildRender, StudioInv, JobLife, TypeOK
  <2> QED
    BY <1>0, <1>11, <2>1, <2>2, SentinelsAreNotIds DEF ChildRender, TypeOK, JobLife, Kept, KeptNext
<1>12. ASSUME NEW j \in Jobs, WorkerJudge(j) PROVE KeptNext(x)
  <2>1. CASE x = j
    BY <1>0, <1>12, <2>1, SentinelsAreNotIds DEF WorkerJudge, TypeOK, JobLife, Kept, KeptNext
  <2>2. CASE x # j
    BY <1>0, <1>12, <2>2 DEF WorkerJudge, TypeOK, JobLife, Kept, KeptNext
  <2> QED
    BY <2>1, <2>2
<1>13. ASSUME NEW j \in Jobs, WorkerTimeout(j) PROVE KeptNext(x)
  <2>1. Failing
    BY <1>13 DEF WorkerTimeout, Failing
  <2> QED
    BY <1>0, <1>13, <2>1, SentinelsAreNotIds DEF WorkerTimeout, TypeOK, JobLife, Kept, KeptNext
<1>14. ASSUME NEW j \in Jobs, WorkerCleanup(j) PROVE KeptNext(x)
  BY <1>0, <1>14 DEF WorkerCleanup, Less, Leaves, TypeOK, JobLife, Kept, KeptNext
<1>15. ASSUME NEW j \in Jobs, WorkerRecord(j) PROVE KeptNext(x)
  BY <1>0, <1>15 DEF WorkerRecord, TypeOK, JobLife, Kept, KeptNext
<1>16. ASSUME NEW j \in Jobs, WorkerRelease(j) PROVE KeptNext(x)
  BY <1>0, <1>16 DEF WorkerRelease, TypeOK, JobLife, Kept, KeptNext
<1>17. ASSUME NEW r \in Requests, NEW j \in Jobs, ServeCopper(r, j) PROVE KeptNext(x)
  BY <1>0, <1>17 DEF ServeCopper, TypeOK, JobLife, Kept, KeptNext
<1>18. ASSUME NEW r \in Requests, NEW j \in Jobs, LookUp(r, j) PROVE KeptNext(x)
  BY <1>0, <1>18 DEF LookUp, TypeOK, JobLife, Kept, KeptNext
<1>19. ASSUME NEW r \in Requests, ReadFile(r) PROVE KeptNext(x)
  BY <1>0, <1>19 DEF ReadFile, TypeOK, JobLife, Kept, KeptNext
<1>20. ASSUME NEW r \in Requests, EndReply(r) PROVE KeptNext(x)
  BY <1>0, <1>20 DEF EndReply, TypeOK, JobLife, Kept, KeptNext
<1>21. ASSUME NEW r \in Requests, NEW k \in Drafts, NEW j \in Jobs, Discard(r, k, j)
       PROVE KeptNext(x)
  BY <1>0, <1>21 DEF Discard, TypeOK, JobLife, Kept, KeptNext
<1>22. ASSUME NEW r \in Requests, Erase(r) PROVE KeptNext(x)
  <2>1. HandlerLife(r)
    BY DEF StudioInv
  <2> QED
    BY <1>0, <1>22, <2>1, SentinelsAreNotIds
       DEF Erase, HandlerLife, Drafts, TypeOK, JobLife, Kept, KeptNext
<1>23. ASSUME NEW r \in Requests, NEW n \in Names, DeleteRecord(r, n) PROVE KeptNext(x)
  BY <1>0, <1>23 DEF DeleteRecord, TypeOK, JobLife, Kept, KeptNext
<1>24. ASSUME NEW r \in Requests, DeleteUnlist(r) PROVE KeptNext(x)
  BY <1>0, <1>24 DEF DeleteUnlist, TypeOK, JobLife, Kept, KeptNext
<1>25. ASSUME NEW r \in Requests, DeleteRender(r) PROVE KeptNext(x)
  BY <1>0, <1>25 DEF DeleteRender, TypeOK, JobLife, Kept, KeptNext
<1>26. ASSUME NEW r \in Requests, DeleteRemove(r) PROVE KeptNext(x)
  BY <1>0, <1>26 DEF DeleteRemove, Less, Leaves, TypeOK, JobLife, Kept, KeptNext
<1>27. ASSUME NEW r \in Requests, Shutdown(r) PROVE KeptNext(x)
  BY <1>0, <1>27 DEF Shutdown, TypeOK, JobLife, Kept, KeptNext
<1>28. ASSUME Die PROVE KeptNext(x)
  BY <1>0, <1>28 DEF Die, Quiet
<1>29. ASSUME Restart PROVE KeptNext(x)
  BY <1>0, <1>29 DEF Restart, Quiet
<1>30. ASSUME EditExternal PROVE KeptNext(x)
  BY <1>0, <1>30 DEF EditExternal, Kept, KeptNext
<1>31. CASE UNCHANGED vars
  BY <1>0, <1>31 DEF vars, Kept, KeptNext
<1>32. ASSUME NEW r \in Requests, ReadBody(r) PROVE KeptNext(x)
  BY <1>0, <1>32 DEF ReadBody, TypeOK, JobLife, Kept, KeptNext
<1>33. ASSUME NEW r \in Requests, HandlerError(r) PROVE KeptNext(x)
  BY <1>0, <1>33 DEF HandlerError, TypeOK, JobLife, Kept, KeptNext
<1>34. ASSUME NEW j \in Jobs, StrayEnds(j) PROVE KeptNext(x)
  BY <1>0, <1>34, SentinelsAreNotIds DEF StrayEnds, TypeOK, JobLife, Kept, KeptNext, Failing
<1> QED
  BY <1>1, <1>2, <1>3, <1>4, <1>5, <1>6, <1>7, <1>8, <1>9, <1>10, <1>11, <1>12, <1>13, <1>14,
     <1>15, <1>16, <1>17, <1>18, <1>19, <1>20, <1>21, <1>22, <1>23, <1>24, <1>25, <1>26, <1>27,
     <1>28, <1>29, <1>30, <1>31, <1>32, <1>33, <1>34
     DEF Next, Call, HandlerStep, ChildStep, WorkerStep

LEMMA LibraryJobStep ==
    ASSUME StudioInv, LibraryInv, Quiet, [Next]_vars, NEW x \in Jobs
    PROVE  LibraryJob(x)'
<1> USE DEF jobVars, diskVars, runVars, libVars
<1>0. /\ TypeOK /\ OneNativeJob /\ JobLife(x) /\ JobFiles(x)
      /\ LibraryInv /\ LibraryJob(x) /\ Quiet /\ server # "down"
  BY DEF StudioInv, LibraryInv
<1>1. ASSUME NEW r \in Requests, NEW op \in Calls, Acquire(r, op) PROVE LibraryJob(x)'
  BY <1>0, <1>1 DEF Acquire, TypeOK, LibraryJob
<1>2. ASSUME NEW r \in Requests, Release(r) PROVE LibraryJob(x)'
  <2>1. worker[x] = "none"
    BY <1>0, <1>2, OneHolder DEF Release, Less, Leaves, Holding
  <2> QED
    BY <1>0, <1>2, <2>1 DEF Release, Less, Leaves, TypeOK, LibraryJob
<1>3. ASSUME NEW r \in Requests, NEW j \in Jobs, NEW n \in Names, Stage(r, j, n)
      PROVE LibraryJob(x)'
  BY <1>0, <1>3 DEF Stage, TypeOK, LibraryJob, JobLife
<1>4. ASSUME NEW r \in Requests, Register(r) PROVE LibraryJob(x)'
  BY <1>0, <1>4 DEF Register, TypeOK, LibraryJob
<1>5. ASSUME NEW r \in Requests, StartWorker(r) PROVE LibraryJob(x)'
  <2>1. HandlerLife(r) /\ LibraryHandler(r)
    BY <1>0 DEF StudioInv, LibraryInv
  <2> QED
    BY <1>0, <1>5, <2>1 DEF StartWorker, HandlerLife, LibraryHandler, TypeOK, LibraryJob
<1>6. ASSUME NEW r \in Requests, StartFails(r) PROVE LibraryJob(x)'
  <2>1. worker[x] = "none"
    BY <1>0, <1>6, OneHolder DEF StartFails, Less, Leaves, Holding
  <2> QED
    BY <1>0, <1>6, <2>1 DEF StartFails, Less, Leaves, TypeOK, LibraryJob
<1>7. ASSUME NEW j \in Jobs, ChildBuild(j) PROVE LibraryJob(x)'
  BY <1>0, <1>7 DEF ChildBuild, TypeOK, LibraryJob, JobLife, JobFiles
<1>8. ASSUME NEW j \in Jobs, ChildBuilt(j) PROVE LibraryJob(x)'
  BY <1>0, <1>8 DEF ChildBuilt, TypeOK, LibraryJob, JobLife, JobFiles
<1>9. ASSUME NEW j \in Jobs, ChildRead(j) PROVE LibraryJob(x)'
  BY <1>0, <1>9 DEF ChildRead, TypeOK, LibraryJob, JobLife, JobFiles
<1>10. ASSUME NEW j \in Jobs, ChildWrite(j) PROVE LibraryJob(x)'
  <2>1. LibraryJob(j)
    BY <1>0 DEF LibraryInv
  <2>2. CASE x = j
    BY <1>0, <1>10, <2>2 DEF ChildWrite, TypeOK, LibraryJob
  <2>3. CASE x # j
    <3>1. worker[x] = "none"
      BY <1>0, <1>10, <2>1, <2>3, OneWorker DEF ChildWrite, LibraryJob
    <3> QED
      BY <1>0, <1>10, <2>3, <3>1 DEF ChildWrite, TypeOK, LibraryJob
  <2> QED
    BY <2>2, <2>3
<1>11. ASSUME NEW j \in Jobs, ChildRender(j) PROVE LibraryJob(x)'
  BY <1>0, <1>11 DEF ChildRender, TypeOK, LibraryJob
<1>12. ASSUME NEW j \in Jobs, WorkerJudge(j) PROVE LibraryJob(x)'
  BY <1>0, <1>12 DEF WorkerJudge, TypeOK, LibraryJob, JobLife
<1>13. ASSUME NEW j \in Jobs, WorkerTimeout(j) PROVE LibraryJob(x)'
  BY <1>0, <1>13 DEF WorkerTimeout, TypeOK, LibraryJob, JobLife
<1>14. ASSUME NEW j \in Jobs, WorkerCleanup(j) PROVE LibraryJob(x)'
  BY <1>0, <1>14 DEF WorkerCleanup, Less, Leaves, TypeOK, LibraryJob, JobLife
<1>15. ASSUME NEW j \in Jobs, WorkerRecord(j) PROVE LibraryJob(x)'
  BY <1>0, <1>15 DEF WorkerRecord, TypeOK, LibraryJob, JobLife
<1>16. ASSUME NEW j \in Jobs, WorkerRelease(j) PROVE LibraryJob(x)'
  BY <1>0, <1>16 DEF WorkerRelease, TypeOK, LibraryJob, JobLife
<1>17. ASSUME NEW r \in Requests, NEW j \in Jobs, ServeCopper(r, j) PROVE LibraryJob(x)'
  BY <1>0, <1>17 DEF ServeCopper, TypeOK, LibraryJob
<1>18. ASSUME NEW r \in Requests, NEW j \in Jobs, LookUp(r, j) PROVE LibraryJob(x)'
  BY <1>0, <1>18 DEF LookUp, TypeOK, LibraryJob
<1>19. ASSUME NEW r \in Requests, ReadFile(r) PROVE LibraryJob(x)'
  BY <1>0, <1>19 DEF ReadFile, TypeOK, LibraryJob
<1>20. ASSUME NEW r \in Requests, EndReply(r) PROVE LibraryJob(x)'
  BY <1>0, <1>20 DEF EndReply, TypeOK, LibraryJob
<1>21. ASSUME NEW r \in Requests, NEW k \in Drafts, NEW j \in Jobs, Discard(r, k, j)
       PROVE LibraryJob(x)'
  BY <1>0, <1>21 DEF Discard, TypeOK, LibraryJob
<1>22. ASSUME NEW r \in Requests, Erase(r) PROVE LibraryJob(x)'
  <2>1. HandlerLife(r)
    BY DEF StudioInv
  <2> QED
    BY <1>0, <1>22, <2>1 DEF Erase, HandlerLife, JobLife, TypeOK, LibraryJob
<1>23. ASSUME NEW r \in Requests, NEW n \in Names, DeleteRecord(r, n) PROVE LibraryJob(x)'
  BY <1>0, <1>23 DEF DeleteRecord, TypeOK, LibraryJob
<1>24. ASSUME NEW r \in Requests, DeleteUnlist(r) PROVE LibraryJob(x)'
  <2>1. worker[x] = "none"
    BY <1>0, <1>24, OneHolder DEF DeleteUnlist, Holding
  <2> QED
    BY <1>0, <1>24, <2>1 DEF DeleteUnlist, TypeOK, LibraryJob
<1>25. ASSUME NEW r \in Requests, DeleteRender(r) PROVE LibraryJob(x)'
  <2>1. worker[x] = "none"
    BY <1>0, <1>25, OneHolder DEF DeleteRender, Holding
  <2> QED
    BY <1>0, <1>25, <2>1 DEF DeleteRender, TypeOK, LibraryJob
<1>26. ASSUME NEW r \in Requests, DeleteRemove(r) PROVE LibraryJob(x)'
  <2>1. worker[x] = "none"
    BY <1>0, <1>26, OneHolder DEF DeleteRemove, Less, Leaves, Holding
  <2> QED
    BY <1>0, <1>26, <2>1 DEF DeleteRemove, Less, Leaves, TypeOK, LibraryJob
<1>27. ASSUME NEW r \in Requests, Shutdown(r) PROVE LibraryJob(x)'
  BY <1>0, <1>27 DEF Shutdown, TypeOK, LibraryJob
<1>28. ASSUME Die PROVE LibraryJob(x)'
  BY <1>0, <1>28 DEF Die, Quiet
<1>29. ASSUME Restart PROVE LibraryJob(x)'
  BY <1>0, <1>29 DEF Restart, Quiet
<1>30. ASSUME EditExternal PROVE LibraryJob(x)'
  BY <1>0, <1>30 DEF EditExternal, TypeOK, LibraryJob
<1>31. CASE UNCHANGED vars
  BY <1>0, <1>31 DEF vars, LibraryJob
<1>32. ASSUME NEW r \in Requests, ReadBody(r) PROVE LibraryJob(x)'
  BY <1>0, <1>32 DEF ReadBody, TypeOK, LibraryJob
<1>33. ASSUME NEW r \in Requests, HandlerError(r) PROVE LibraryJob(x)'
  BY <1>0, <1>33 DEF HandlerError, TypeOK, LibraryJob
<1>34. ASSUME NEW j \in Jobs, StrayEnds(j) PROVE LibraryJob(x)'
  BY <1>0, <1>34 DEF StrayEnds, TypeOK, LibraryJob
<1> QED
  BY <1>1, <1>2, <1>3, <1>4, <1>5, <1>6, <1>7, <1>8, <1>9, <1>10, <1>11, <1>12, <1>13, <1>14,
     <1>15, <1>16, <1>17, <1>18, <1>19, <1>20, <1>21, <1>22, <1>23, <1>24, <1>25, <1>26, <1>27,
     <1>28, <1>29, <1>30, <1>31, <1>32, <1>33, <1>34
     DEF Next, Call, HandlerStep, ChildStep, WorkerStep

LEMMA LibraryHandlerStep ==
    ASSUME StudioInv, LibraryInv, Quiet, [Next]_vars, NEW s \in Requests
    PROVE  LibraryHandler(s)'
<1> USE DEF jobVars, diskVars, runVars, libVars
<1>0. /\ TypeOK /\ OneNativeJob
      /\ LibraryInv /\ LibraryHandler(s) /\ Quiet /\ server # "down"
  BY DEF StudioInv, LibraryInv
<1>k. req[s].pc = "rendering" => \A n \in Names : KeptNext(req[s].rows[n])
  <2> SUFFICES ASSUME req[s].pc = "rendering", NEW n \in Names PROVE KeptNext(req[s].rows[n])
    OBVIOUS
  <2>1. \A p \in Requests : req[p].pc # "removing"
    BY <1>0, OneHolder DEF Holding
  <2>2. \A x \in Jobs : Kept(x) => KeptNext(x)
    BY <1>0, <2>1, KeptStep
  <2>3. Kept(req[s].rows[n])
    BY <1>0 DEF LibraryHandler
  <2> QED
    BY <2>2, <2>3 DEF KeptNext
<1>1. ASSUME NEW r \in Requests, NEW op \in Calls, Acquire(r, op) PROVE LibraryHandler(s)'
  <2>1. Moved(r, "body", None)
    BY <1>0, <1>1, AcquireMoves
  <2>2. CASE s # r
    BY <1>0, <1>1, <1>k, <2>1, <2>2 DEF Acquire, Moved, LibraryHandler, Kept, KeptNext, Failing
  <2>3. CASE s = r
    BY <2>1, <2>3 DEF Moved, LibraryHandler
  <2> QED
    BY <2>2, <2>3
<1>2. ASSUME NEW r \in Requests, Release(r) PROVE LibraryHandler(s)'
  <2>1. Moved(r, "idle", None)
    BY <1>0, <1>2, ReleaseMoves
  <2>2. CASE s # r
    <3>1. req'[s] = req[s] /\ req[s].pc \notin Holding
      BY <1>0, <1>2, <2>1, <2>2, OneHolder DEF Release, Moved, Holding
    <3> QED
      BY <3>1 DEF LibraryHandler, Holding
  <2>3. CASE s = r
    BY <2>1, <2>3 DEF Moved, LibraryHandler
  <2> QED
    BY <2>2, <2>3
<1>3. ASSUME NEW r \in Requests, NEW j \in Jobs, NEW n \in Names, Stage(r, j, n)
      PROVE LibraryHandler(s)'
  <2>1. Moved(r, "staged", j)
    BY <1>0, <1>3, StageMoves
  <2>2. CASE s # r
    <3>1. req'[s] = req[s] /\ req[s].pc \notin Holding
      BY <1>0, <1>3, <2>1, <2>2, OneHolder DEF Stage, Moved, Holding
    <3> QED
      BY <3>1 DEF LibraryHandler, Holding
  <2>3. CASE s = r
    BY <1>0, <1>3, <2>1, <2>3 DEF Stage, Moved, LibraryHandler
  <2> QED
    BY <2>2, <2>3
<1>4. ASSUME NEW r \in Requests, Register(r) PROVE LibraryHandler(s)'
  <2>1. Moved(r, "registered", req[r].j)
    BY <1>0, <1>4, RegisterMoves
  <2>2. CASE s # r
    <3>1. req'[s] = req[s] /\ req[s].pc \notin Holding
      BY <1>0, <1>4, <2>1, <2>2, OneHolder DEF Register, Moved, Holding
    <3> QED
      BY <3>1 DEF LibraryHandler, Holding
  <2>3. CASE s = r
    BY <1>0, <1>4, <2>1, <2>3 DEF Register, Moved, LibraryHandler
  <2> QED
    BY <2>2, <2>3
<1>5. ASSUME NEW r \in Requests, StartWorker(r) PROVE LibraryHandler(s)'
  <2>1. Moved(r, "idle", None)
    BY <1>0, <1>5, StartWorkerMoves
  <2>2. CASE s # r
    <3>1. req'[s] = req[s] /\ req[s].pc \notin Holding
      BY <1>0, <1>5, <2>1, <2>2, OneHolder DEF StartWorker, Moved, Holding
    <3> QED
      BY <3>1 DEF LibraryHandler, Holding
  <2>3. CASE s = r
    BY <2>1, <2>3 DEF Moved, LibraryHandler
  <2> QED
    BY <2>2, <2>3
<1>6. ASSUME NEW r \in Requests, StartFails(r) PROVE LibraryHandler(s)'
  <2>1. Moved(r, "leaked", req[r].j) \/ Moved(r, "idle", None)
    BY <1>0, <1>6, StartFailsMoves
  <2>2. CASE s # r
    <3>1. req'[s] = req[s] /\ req[s].pc \notin Holding
      BY <1>0, <1>6, <2>1, <2>2, OneHolder DEF StartFails, Moved, Holding
    <3> QED
      BY <3>1 DEF LibraryHandler, Holding
  <2>3. CASE s = r
    BY <2>1, <2>3 DEF Moved, LibraryHandler
  <2> QED
    BY <2>2, <2>3
<1>7. ASSUME NEW j \in Jobs, ChildBuild(j) PROVE LibraryHandler(s)'
  <2>1. LibraryJob(j)
    BY <1>0 DEF LibraryInv
  <2>2. req' = req /\ worker[j] # "none"
    BY <1>7, <2>1 DEF ChildBuild, LibraryJob
  <2>3. req[s].pc \notin Holding
    BY <1>0, <2>2, OneWorker
  <2> QED
    BY <2>2, <2>3 DEF LibraryHandler, Holding
<1>8. ASSUME NEW j \in Jobs, ChildBuilt(j) PROVE LibraryHandler(s)'
  <2>1. LibraryJob(j)
    BY <1>0 DEF LibraryInv
  <2>2. req' = req /\ worker[j] # "none"
    BY <1>8, <2>1 DEF ChildBuilt, LibraryJob
  <2>3. req[s].pc \notin Holding
    BY <1>0, <2>2, OneWorker
  <2> QED
    BY <2>2, <2>3 DEF LibraryHandler, Holding
<1>9. ASSUME NEW j \in Jobs, ChildRead(j) PROVE LibraryHandler(s)'
  <2>1. LibraryJob(j)
    BY <1>0 DEF LibraryInv
  <2>2. req' = req /\ worker[j] # "none"
    BY <1>9, <2>1 DEF ChildRead, LibraryJob
  <2>3. req[s].pc \notin Holding
    BY <1>0, <2>2, OneWorker
  <2> QED
    BY <2>2, <2>3 DEF LibraryHandler, Holding
<1>10. ASSUME NEW j \in Jobs, ChildWrite(j) PROVE LibraryHandler(s)'
  <2>1. LibraryJob(j)
    BY <1>0 DEF LibraryInv
  <2>2. req' = req /\ worker[j] # "none"
    BY <1>10, <2>1 DEF ChildWrite, LibraryJob
  <2>3. req[s].pc \notin Holding
    BY <1>0, <2>2, OneWorker
  <2> QED
    BY <2>2, <2>3 DEF LibraryHandler, Holding
<1>11. ASSUME NEW j \in Jobs, ChildRender(j) PROVE LibraryHandler(s)'
  <2>1. LibraryJob(j)
    BY <1>0 DEF LibraryInv
  <2>2. req' = req /\ worker[j] # "none"
    BY <1>11, <2>1 DEF ChildRender, LibraryJob
  <2>3. req[s].pc \notin Holding
    BY <1>0, <2>2, OneWorker
  <2> QED
    BY <2>2, <2>3 DEF LibraryHandler, Holding
<1>12. ASSUME NEW j \in Jobs, WorkerJudge(j) PROVE LibraryHandler(s)'
  <2>1. req' = req /\ worker[j] # "none"
    BY <1>12 DEF WorkerJudge
  <2>2. req[s].pc \notin Holding
    BY <1>0, <2>1, OneWorker
  <2> QED
    BY <2>1, <2>2 DEF LibraryHandler, Holding
<1>13. ASSUME NEW j \in Jobs, WorkerTimeout(j) PROVE LibraryHandler(s)'
  <2>1. req' = req /\ worker[j] # "none"
    BY <1>13 DEF WorkerTimeout
  <2>2. req[s].pc \notin Holding
    BY <1>0, <2>1, OneWorker
  <2> QED
    BY <2>1, <2>2 DEF LibraryHandler, Holding
<1>14. ASSUME NEW j \in Jobs, WorkerCleanup(j) PROVE LibraryHandler(s)'
  <2>1. req' = req /\ worker[j] # "none"
    BY <1>14 DEF WorkerCleanup
  <2>2. req[s].pc \notin Holding
    BY <1>0, <2>1, OneWorker
  <2> QED
    BY <2>1, <2>2 DEF LibraryHandler, Holding
<1>15. ASSUME NEW j \in Jobs, WorkerRecord(j) PROVE LibraryHandler(s)'
  <2>1. req' = req /\ worker[j] # "none"
    BY <1>15 DEF WorkerRecord
  <2>2. req[s].pc \notin Holding
    BY <1>0, <2>1, OneWorker
  <2> QED
    BY <2>1, <2>2 DEF LibraryHandler, Holding
<1>16. ASSUME NEW j \in Jobs, WorkerRelease(j) PROVE LibraryHandler(s)'
  <2>1. req' = req /\ worker[j] # "none"
    BY <1>16 DEF WorkerRelease
  <2>2. req[s].pc \notin Holding
    BY <1>0, <2>1, OneWorker
  <2> QED
    BY <2>1, <2>2 DEF LibraryHandler, Holding
<1>17. ASSUME NEW r \in Requests, NEW j \in Jobs, ServeCopper(r, j) PROVE LibraryHandler(s)'
  <2>1. Moved(r, "replied", j) /\ req'[r].body = output[j]
    BY <1>0, <1>17, ServeCopperMoves
  <2>2. CASE s # r
    BY <1>0, <1>17, <1>k, <2>1, <2>2 DEF ServeCopper, Moved, LibraryHandler, Kept, KeptNext, Failing
  <2>3. CASE s = r
    BY <2>1, <2>3 DEF Moved, LibraryHandler
  <2> QED
    BY <2>2, <2>3
<1>18. ASSUME NEW r \in Requests, NEW j \in Jobs, LookUp(r, j) PROVE LibraryHandler(s)'
  <2>1. Moved(r, "reading", j)
    BY <1>0, <1>18, LookUpMoves
  <2>2. CASE s # r
    BY <1>0, <1>18, <1>k, <2>1, <2>2 DEF LookUp, Moved, LibraryHandler, Kept, KeptNext, Failing
  <2>3. CASE s = r
    BY <2>1, <2>3 DEF Moved, LibraryHandler
  <2> QED
    BY <2>2, <2>3
<1>19. ASSUME NEW r \in Requests, ReadFile(r) PROVE LibraryHandler(s)'
  <2>1. Moved(r, "idle", None) \/ Moved(r, "replied", req[r].j)
    BY <1>0, <1>19, ReadFileMoves DEF StudioInv
  <2>2. CASE s # r
    BY <1>0, <1>19, <1>k, <2>1, <2>2 DEF ReadFile, Moved, LibraryHandler, Kept, KeptNext, Failing
  <2>3. CASE s = r
    BY <2>1, <2>3 DEF Moved, LibraryHandler
  <2> QED
    BY <2>2, <2>3
<1>20. ASSUME NEW r \in Requests, EndReply(r) PROVE LibraryHandler(s)'
  <2>1. Moved(r, "idle", None)
    BY <1>0, <1>20, EndReplyMoves
  <2>2. CASE s # r
    BY <1>0, <1>20, <1>k, <2>1, <2>2 DEF EndReply, Moved, LibraryHandler, Kept, KeptNext, Failing
  <2>3. CASE s = r
    BY <2>1, <2>3 DEF Moved, LibraryHandler
  <2> QED
    BY <2>2, <2>3
<1>21. ASSUME NEW r \in Requests, NEW k \in Drafts, NEW j \in Jobs, Discard(r, k, j)
       PROVE LibraryHandler(s)'
  <2>1. (req' = req) \/ (Moved(r, "erasing", j) /\ kind[j] = k)
    BY <1>0, <1>21, DiscardMoves
  <2>2. CASE s # r
    BY <1>0, <1>21, <1>k, <2>1, <2>2 DEF Discard, Moved, LibraryHandler, Kept, KeptNext, Failing
  <2>3. CASE s = r
    BY <1>0, <1>21, <1>k, <2>1, <2>3 DEF Discard, Moved, LibraryHandler, Kept, KeptNext, Failing
  <2> QED
    BY <2>2, <2>3
<1>22. ASSUME NEW r \in Requests, Erase(r) PROVE LibraryHandler(s)'
  <2>1. Moved(r, "idle", None)
    BY <1>0, <1>22, EraseMoves
  <2>2. CASE s # r
    BY <1>0, <1>22, <1>k, <2>1, <2>2 DEF Erase, Moved, LibraryHandler, Kept, KeptNext, Failing
  <2>3. CASE s = r
    BY <2>1, <2>3 DEF Moved, LibraryHandler
  <2> QED
    BY <2>2, <2>3
<1>23. ASSUME NEW r \in Requests, NEW n \in Names, DeleteRecord(r, n) PROVE LibraryHandler(s)'
  <2>1. Moved(r, "unlisting", manifest[n]) /\ req'[r].rows = manifest
    BY <1>0, <1>23, DeleteRecordMoves
  <2>2. CASE s # r
    <3>1. req'[s] = req[s] /\ req[s].pc \notin Holding
      BY <1>0, <1>23, <2>1, <2>2, OneHolder DEF DeleteRecord, Moved, Holding
    <3> QED
      BY <3>1 DEF LibraryHandler, Holding
  <2>3. CASE s = r
    BY <1>0, <1>23, <2>1, <2>3 DEF DeleteRecord, Moved, LibraryHandler
  <2> QED
    BY <2>2, <2>3
<1>24. ASSUME NEW r \in Requests, DeleteUnlist(r) PROVE LibraryHandler(s)'
  <2>1. Moved(r, "rendering", req[r].j) /\ req'[r].rows = req[r].rows
    BY <1>0, <1>24, DeleteUnlistMoves
  <2>2. CASE s # r
    <3>1. req'[s] = req[s] /\ req[s].pc \notin Holding
      BY <1>0, <1>24, <2>1, <2>2, OneHolder DEF DeleteUnlist, Moved, Holding
    <3> QED
      BY <3>1 DEF LibraryHandler, Holding
  <2>3. CASE s = r
    <3>1. /\ req[s].rows = manifest /\ req[s].pc = "unlisting" /\ req'[s].pc = "rendering"
          /\ req'[s].j = req[s].j /\ req'[s].rows = manifest /\ manifest \in Rows
      BY <1>0, <1>24, <2>1, <2>3 DEF DeleteUnlist, Moved, LibraryHandler, TypeOK
    <3>2. \A n \in Names : manifest'[n] # req[s].j
      <4>1. HandlerLife(s)
        BY DEF StudioInv
      <4> QED
        BY <1>0, <1>24, <2>3, <3>1, <4>1, SentinelsAreNotIds DEF DeleteUnlist, HandlerLife
    <3>3. \A p \in Requests : req[p].pc # "removing"
      BY <1>0, <3>1, OneHolder DEF Holding
    <3>4. \A x \in Jobs : Kept(x) => KeptNext(x)
      BY <1>0, <3>3, KeptStep
    <3>5. \A n \in Names : manifest[n] \in Jobs => Kept(manifest[n])
      BY <1>0 DEF LibraryInv
    <3>6. \A n \in Names : KeptNext(manifest[n])
      BY <3>4, <3>5 DEF KeptNext
    <3>7. faults' = faults
      BY <1>24 DEF DeleteUnlist
    <3>8. (\A n \in Names : Kept(req[s].rows[n]))'
      BY <3>1, <3>6, <3>7 DEF Kept, KeptNext, Failing
    <3> QED
      BY <3>1, <3>2, <3>8 DEF LibraryHandler
  <2> QED
    BY <2>2, <2>3
<1>25. ASSUME NEW r \in Requests, DeleteRender(r) PROVE LibraryHandler(s)'
  <2>1. Moved(r, "removing", req[r].j) \/ Moved(r, "idle", None)
    BY <1>0, <1>25, DeleteRenderMoves
  <2>2. CASE s # r
    <3>1. req'[s] = req[s] /\ req[s].pc \notin Holding
      BY <1>0, <1>25, <2>1, <2>2, OneHolder DEF DeleteRender, Moved, Holding
    <3> QED
      BY <3>1 DEF LibraryHandler, Holding
  <2>3. CASE s = r
    <3>1. \/ req'[s].pc = "idle"
          \/ req'[s].pc = "removing" /\ req'[s].j = req[s].j /\ manifest' = manifest
      BY <1>0, <1>25, <2>3, DeleteRenderMoves DEF DeleteRender, Moved
    <3> QED
      BY <1>0, <1>25, <2>3, <3>1 DEF DeleteRender, LibraryHandler
  <2> QED
    BY <2>2, <2>3
<1>26. ASSUME NEW r \in Requests, DeleteRemove(r) PROVE LibraryHandler(s)'
  <2>1. Moved(r, "idle", None)
    BY <1>0, <1>26, DeleteRemoveMoves
  <2>2. CASE s # r
    <3>1. req'[s] = req[s] /\ req[s].pc \notin Holding
      BY <1>0, <1>26, <2>1, <2>2, OneHolder DEF DeleteRemove, Moved, Holding
    <3> QED
      BY <3>1 DEF LibraryHandler, Holding
  <2>3. CASE s = r
    BY <2>1, <2>3 DEF Moved, LibraryHandler
  <2> QED
    BY <2>2, <2>3
<1>27. ASSUME NEW r \in Requests, Shutdown(r) PROVE LibraryHandler(s)'
  BY <1>0, <1>27, <1>k DEF Shutdown, LibraryHandler, Kept, KeptNext, Failing
<1>28. ASSUME Die PROVE LibraryHandler(s)'
  BY <1>0, <1>28 DEF Die, Quiet
<1>29. ASSUME Restart PROVE LibraryHandler(s)'
  BY <1>0, <1>29 DEF Restart, Quiet
<1>30. ASSUME EditExternal PROVE LibraryHandler(s)'
  BY <1>0, <1>30, <1>k DEF EditExternal, LibraryHandler, Kept, KeptNext, Failing
<1>31. CASE UNCHANGED vars
  BY <1>0, <1>31, <1>k DEF vars, LibraryHandler, Kept, KeptNext, Failing
<1>32. ASSUME NEW r \in Requests, ReadBody(r) PROVE LibraryHandler(s)'
  <2>1. Moved(r, "held", req[r].j) /\ req[r].pc \in Holding
    BY <1>0, <1>32, ReadBodyMoves DEF ReadBody, Holding
  <2>2. CASE s # r
    <3>1. req'[s] = req[s] /\ req[s].pc \notin Holding
      BY <1>0, <2>1, <2>2, OneHolder DEF Moved
    <3> QED
      BY <3>1 DEF LibraryHandler, Holding
  <2>3. CASE s = r
    BY <2>1, <2>3 DEF Moved, LibraryHandler
  <2> QED
    BY <2>2, <2>3
<1>33. ASSUME NEW r \in Requests, HandlerError(r) PROVE LibraryHandler(s)'
  <2>1. Moved(r, "leaked", req[r].j) /\ req[r].pc \in Holding
    BY <1>0, <1>33, HandlerErrorMoves DEF HandlerError, Holding
  <2>2. CASE s # r
    <3>1. req'[s] = req[s] /\ req[s].pc \notin Holding
      BY <1>0, <2>1, <2>2, OneHolder DEF Moved
    <3> QED
      BY <3>1 DEF LibraryHandler, Holding
  <2>3. CASE s = r
    BY <2>1, <2>3 DEF Moved, LibraryHandler
  <2> QED
    BY <2>2, <2>3
<1>34. ASSUME NEW j \in Jobs, StrayEnds(j) PROVE LibraryHandler(s)'
  BY <1>0, <1>34, <1>k DEF StrayEnds, LibraryHandler, Kept, KeptNext, Failing
<1> QED
  BY <1>1, <1>2, <1>3, <1>4, <1>5, <1>6, <1>7, <1>8, <1>9, <1>10, <1>11, <1>12, <1>13, <1>14,
     <1>15, <1>16, <1>17, <1>18, <1>19, <1>20, <1>21, <1>22, <1>23, <1>24, <1>25, <1>26, <1>27,
     <1>28, <1>29, <1>30, <1>31, <1>32, <1>33, <1>34
     DEF Next, Call, HandlerStep, ChildStep, WorkerStep

-----------------------------------------------------------------------------
(* The library as a whole.                                                 *)

\* Only the child of an import and a deletion rewrite the manifest; the
\* faults of a behaviour are fixed, and without them the server stays up.
LEMMA QuietStep ==
    ASSUME [Next]_vars
    PROVE  /\ faults' = faults
           /\ Quiet => (server # "down" => server' # "down")
           /\ "edit" \notin faults => extOk' = extOk
           /\ \/ manifest' = manifest
              \/ \E j \in Jobs : ChildWrite(j)
              \/ \E r \in Requests : DeleteUnlist(r) \/ DeleteRender(r)
<1> USE DEF jobVars, diskVars, runVars, libVars
<1>1. ASSUME NEW r \in Requests, Call(r) \/ ReadBody(r)
      PROVE  /\ faults' = faults /\ manifest' = manifest /\ extOk' = extOk
             /\ server # "down" => server' # "down"
  BY <1>1 DEF Call, ReadBody, Acquire, ServeCopper, LookUp, Discard, Shutdown
<1>2. ASSUME NEW r \in Requests, HandlerStep(r)
      PROVE  /\ faults' = faults /\ server' = server /\ extOk' = extOk
             /\ manifest' = manifest \/ DeleteUnlist(r) \/ DeleteRender(r)
  BY <1>2
     DEF HandlerStep, Release, HandlerError, Register, StartWorker, StartFails, ReadFile,
         EndReply, Erase,
              DeleteUnlist, DeleteRender, DeleteRemove, Stage, DeleteRecord
<1>3. ASSUME NEW j \in Jobs, ChildStep(j) \/ StrayEnds(j)
      PROVE  /\ faults' = faults /\ server' = server /\ extOk' = extOk
             /\ manifest' = manifest \/ ChildWrite(j)
  BY <1>3 DEF ChildStep, StrayEnds, ChildBuild, ChildBuilt, ChildRead, ChildWrite, ChildRender
<1>4. ASSUME NEW j \in Jobs, WorkerStep(j)
      PROVE  faults' = faults /\ server' = server /\ extOk' = extOk /\ manifest' = manifest
  BY <1>4 DEF WorkerStep, WorkerJudge, WorkerTimeout, WorkerCleanup, WorkerRecord, WorkerRelease
<1>5. CASE Die \/ Restart \/ EditExternal
  BY <1>5 DEF Die, Restart, EditExternal, Quiet
<1>6. CASE UNCHANGED vars
  BY <1>6 DEF vars
<1> QED
  BY <1>1, <1>2, <1>3, <1>4, <1>5, <1>6 DEF Next

LEMMA ManifestStep ==
    ASSUME StudioInv, LibraryInv, Quiet, [Next]_vars
    PROVE  (\A n \in Names : Kept(manifest[n]))'
<1>0. TypeOK /\ OneNativeJob /\ LibraryInv /\ Quiet
  BY DEF StudioInv
<1> SUFFICES ASSUME NEW n \in Names PROVE KeptNext(manifest'[n])
  BY QuietStep DEF Kept, KeptNext, Failing
<1>1. \A m \in Names : Kept(manifest[m])
  BY <1>0 DEF LibraryInv
<1>2. CASE manifest' = manifest
  <2>1. \A r \in Requests : req[r].pc = "removing" => req[r].j # manifest[n]
    BY <1>0 DEF LibraryInv, LibraryHandler
  <2> SUFFICES ASSUME manifest[n] \in Jobs PROVE KeptNext(manifest[n])
    BY <1>2 DEF KeptNext
  <2> DEFINE x == manifest[n]
  <2>2. x \in Jobs /\ Kept(x) /\ \A r \in Requests : req[r].pc = "removing" => req[r].j # x
    BY <1>1, <2>1
  <2> HIDE DEF x
  <2>3. KeptNext(x)
    BY <1>0, <2>2, KeptStep
  <2> QED
    BY <2>3 DEF x
<1>3. ASSUME NEW j \in Jobs, ChildWrite(j) PROVE KeptNext(manifest'[n])
  <2>1. LibraryJob(j) /\ JobLife(j)
    BY <1>0 DEF LibraryInv, StudioInv
  <2>2. /\ kind[j] = "import" /\ name[j] \in Names /\ output[j] = "full" /\ j \in staged
        /\ seen[j] = manifest /\ worker[j] # "none"
    BY <1>3, <2>1 DEF ChildWrite, LibraryJob, JobLife
  <2>3. KeptNext(j)
    BY <1>0, <1>3, <2>2 DEF ChildWrite, KeptNext, TypeOK, jobVars, diskVars
  <2>4. \A r \in Requests : req[r].pc # "removing"
    BY <1>0, <2>2, OneWorker DEF Holding
  <2>5. \A x \in Jobs : Kept(x) => KeptNext(x)
    BY <1>0, <2>4, KeptStep
  <2>6. KeptNext(manifest[n])
    BY <1>1, <2>5 DEF KeptNext
  <2>7. manifest'[n] = j \/ manifest'[n] = manifest[n]
    BY <1>0, <1>3, <2>2 DEF ChildWrite, TypeOK, Rows
  <2> QED
    BY <2>3, <2>6, <2>7
<1>4. ASSUME NEW r \in Requests, DeleteUnlist(r) \/ DeleteRender(r) PROVE KeptNext(manifest'[n])
  <2>1. \A s \in Requests : req[s].pc # "removing"
    BY <1>0, <1>4, OneHolder DEF DeleteUnlist, DeleteRender, Holding
  <2>2. \A x \in Jobs : Kept(x) => KeptNext(x)
    BY <1>0, <2>1, KeptStep
  <2>3. LibraryHandler(r)
    BY <1>0 DEF LibraryInv
  <2>4. manifest'[n] = None \/ manifest'[n] = manifest[n]
        \/ (manifest'[n] = req[r].rows[n] /\ Kept(req[r].rows[n]))
    BY <1>4, <2>3 DEF DeleteUnlist, DeleteRender, LibraryHandler
  <2>5. ASSUME NEW y, Kept(y) PROVE KeptNext(y)
    BY <2>2, <2>5 DEF KeptNext
  <2> QED
    BY <1>1, <2>2, <2>4, SentinelsAreNotIds DEF KeptNext
<1> QED
  BY <1>2, <1>3, <1>4, QuietStep

LEMMA LibraryStep == StudioInv /\ LibraryInv /\ [Next]_vars => LibraryInv'
<1> SUFFICES ASSUME StudioInv, LibraryInv, [Next]_vars, Quiet' PROVE LibraryInv'
  BY DEF LibraryInv
<1>1. Quiet /\ server # "down" /\ ("edit" \notin faults => extOk)
  BY QuietStep DEF Quiet, LibraryInv
<1>2. server' # "down" /\ ("edit" \notin faults' => extOk')
  BY <1>1, QuietStep
<1>3. (\A n \in Names : Kept(manifest[n]))'
  BY <1>1, ManifestStep
<1>4. \A x \in Jobs : LibraryJob(x)'
  BY <1>1, LibraryJobStep
<1>5. \A s \in Requests : LibraryHandler(s)'
  BY <1>1, LibraryHandlerStep
<1> QED
  BY <1>2, <1>3, <1>4, <1>5 DEF LibraryInv

-----------------------------------------------------------------------------
(* The theorems.                                                           *)

LEMMA StudioInit == Init => StudioInv /\ LibraryInv
<1> SUFFICES ASSUME Init PROVE StudioInv /\ LibraryInv
  OBVIOUS
<1>1. TypeOK
  BY TypeInit
<1>2. OneNativeJob
  BY DEF Init, OneNativeJob, Holders, Holding, Idle
<1>3. \A j \in Jobs : JobLife(j) /\ JobFiles(j)
  BY SentinelsAreNotIds DEF Init, JobLife, JobFiles, Cleaned, Kinds
<1>4. \A r \in Requests : HandlerLife(r)
  BY DEF Init, HandlerLife, Idle
<1>5. \A n \in Names : Kept(manifest[n])
  BY SentinelsAreNotIds DEF Init, Kept
<1>6. (\A j \in Jobs : LibraryJob(j)) /\ (\A r \in Requests : LibraryHandler(r))
  BY DEF Init, LibraryJob, LibraryHandler, Idle
<1> QED
  BY <1>1, <1>2, <1>3, <1>4, <1>5, <1>6 DEF Init, StudioInv, LibraryInv

LEMMA StudioStep == StudioInv /\ [Next]_vars => StudioInv'
BY TypeStep, LockStep, LifeStep, HandStep, FilesStep DEF StudioInv

\* Every behaviour of the server keeps the inductive invariants.
THEOREM StudioInvariant == Spec => [](StudioInv /\ LibraryInv)
BY StudioInit, StudioStep, LibraryStep, PTL DEF Spec

\* worker_lock is held exactly while one handler or worker has it, whatever
\* the threads, faults and restarts: no path releases another call's lock.
THEOREM OneNativeJobHolds == Spec => []OneNativeJob
<1>1. StudioInv => OneNativeJob
  BY DEF StudioInv
<1> QED
  BY <1>1, StudioInvariant, PTL

\* What a download sends is whole and was verified by the job's worker.
THEOREM ServedIsVerifiedHolds == Spec => []ServedIsVerified
<1>1. StudioInv => ServedIsVerified
  BY DEF StudioInv, HandlerLife, ServedIsVerified
<1> QED
  BY <1>1, StudioInvariant, PTL

\* A job reported failed has left no address, and no sources and no results
\* either where the folders could be removed and no KiCad process of its
\* timed-out child wrote once more.
THEOREM FailedLeavesNothingHolds == Spec => []FailedLeavesNothing
<1>1. StudioInv => FailedLeavesNothing
  BY DEF StudioInv, JobFiles, Cleaned, FailedLeavesNothing
<1> QED
  BY <1>1, StudioInvariant, PTL

\* As long as the server lives, every row of the library has its review and
\* its sources, or is the row of an import that failed after it was
\* registered: imports and deletions rewrite the manifest one at a time.
THEOREM LibraryIsWholeHolds == Spec => []LibraryIsWhole
<1>1. LibraryInv => LibraryIsWhole
  BY DEF LibraryInv, LibraryIsWhole, Quiet, Kept, Failing
<1> QED
  BY <1>1, StudioInvariant, PTL
=============================================================================
