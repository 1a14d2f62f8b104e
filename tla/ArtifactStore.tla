--------------------------- MODULE ArtifactStore ---------------------------
(***************************************************************************)
(* The REST artifact store of zaptrace/api/storage.py with the artifact    *)
(* and reference records it keeps in the state store.  The handlers are    *)
(* plain functions, so the server runs each request in a thread of its     *)
(* pool and nothing serialises them: every file-system call and every      *)
(* transaction is a step.  The server may be killed between any two.       *)
(***************************************************************************)
EXTENDS ServerClock, Integers, FiniteSets

CONSTANTS
    Artifacts,   \* the identifiers token_urlsafe will produce
    Sessions,    \* design sessions
    References,  \* the proofs and releases that may refer to an artifact
    Threads,     \* threads of the server's pool
    Retention,   \* ZAPTRACE_API_ARTIFACT_RETENTION_SECONDS
    StoreFaults, \* the calls that may fail: "disk", "sqlite"
    None

ASSUME StoreAssumption ==
    /\ IsFiniteSet(Artifacts) /\ IsFiniteSet(Threads)
    /\ Retention \in Nat
    /\ StoreFaults \subseteq {"disk", "sqlite"}
    /\ None \notin Artifacts \cup Sessions \cup References

VARIABLES
    files,    \* what exists of each artifact's directory
    record,   \* session and creation time in the manifest
    rows,     \* artifacts with an "artifact" record in the state store
    refs,     \* active "artifact-reference" records: artifact and reference
    thread,   \* what each thread of the pool is doing
    created,  \* artifacts whose creation was answered with success (history)
    removing, \* artifacts some removal has selected (history)
    early,    \* removals selected before the creation was answered (history)
    late,     \* references registered after a removal's check (history)
    broken    \* artifacts whose removal was cut short (history)

storeVars == <<files, record, rows, refs, thread, created, removing, early, late, broken>>

Idle == [op |-> "idle", pc |-> "", session |-> None, artifact |-> None,
         reference |-> None, rest |-> {}, current |-> 0]
Whole == {"dir", "payload", "manifest"}

StoreInit ==
    /\ files = [a \in Artifacts |-> {}]
    /\ record = [a \in Artifacts |-> [session |-> None, time |-> 0]]
    /\ rows = {} /\ refs = {}
    /\ thread = [t \in Threads |-> Idle]
    /\ created = {} /\ removing = {} /\ early = {} /\ late = {} /\ broken = {}

-----------------------------------------------------------------------------
At(t, op, pc) == thread[t].op = op /\ thread[t].pc = pc
Goto(t, pc) == thread' = [thread EXCEPT ![t].pc = pc]
Answer(t) == thread' = [thread EXCEPT ![t] = Idle]

history == <<created, removing, early, late, broken>>

\* _iter_manifests and _read_manifest: the artifacts a scan finds.
Listed(session) ==
    {a \in Artifacts : "manifest" \in files[a] /\ record[a].session = session}

\* A request handler starts in a free thread.
StartCall(t, op, session, artifact, reference) ==
    /\ thread[t] = Idle
    /\ thread' = [thread EXCEPT ![t] =
          [Idle EXCEPT !.op = op, !.pc = "start", !.session = session,
                       !.artifact = artifact, !.reference = reference]]
    /\ UNCHANGED <<files, record, rows, refs, history>>

-----------------------------------------------------------------------------
(* store_text.                                                             *)

NewArtifactDir(t) ==
    /\ At(t, "create", "start")
    /\ \E a \in Artifacts :
          /\ a \notin removing \cup created /\ files[a] = {}
          /\ files' = [files EXCEPT ![a] = {"dir"}]
          /\ thread' = [thread EXCEPT ![t].pc = "payload", ![t].artifact = a]
    /\ UNCHANGED <<record, rows, refs, history>>

WritePayloadMutant(t) ==
    /\ At(t, "create", "payload")
    /\ files' = [files EXCEPT ![thread[t].artifact] = @ \cup {"manifest"}]
    /\ Goto(t, "manifest")
    /\ UNCHANGED <<record, rows, refs, history>>

WritePayload(t) ==
    /\ At(t, "create", "payload")
    /\ files' = [files EXCEPT ![thread[t].artifact] = @ \cup {"payload"}]
    /\ Goto(t, "manifest")
    /\ UNCHANGED <<record, rows, refs, history>>

WriteManifest(t) ==
    /\ At(t, "create", "manifest")
    /\ files' = [files EXCEPT ![thread[t].artifact] = @ \cup {"manifest"}]
    /\ record' = [record EXCEPT ![thread[t].artifact] =
                     [session |-> thread[t].session, time |-> now]]
    /\ Goto(t, "record")
    /\ UNCHANGED <<rows, refs, history>>

\* upsert_session_record, then the answer.
RecordArtifact(t) ==
    /\ At(t, "create", "record")
    /\ rows' = rows \cup {thread[t].artifact}
    /\ created' = created \cup {thread[t].artifact}
    /\ Answer(t)
    /\ UNCHANGED <<files, record, refs, removing, early, late, broken>>

\* A write raises: the handler fails and leaves what is there.
CreateFails(t) ==
    /\ \/ At(t, "create", "payload") /\ "disk" \in StoreFaults
       \/ At(t, "create", "manifest") /\ "disk" \in StoreFaults
       \/ At(t, "create", "record") /\ "sqlite" \in StoreFaults
    /\ Answer(t)
    /\ UNCHANGED <<files, record, rows, refs, history>>

-----------------------------------------------------------------------------
(* protect_artifact and release_artifact_reference.                        *)

FindToProtect(t) ==
    /\ At(t, "protect", "start")
    /\ IF thread[t].artifact \in Listed(thread[t].session)
       THEN Goto(t, "register") ELSE Answer(t)
    /\ UNCHANGED <<files, record, rows, refs, history>>

\* A removal of the artifact is past its protection check.
BeingRemoved(a) ==
    \E u \in Threads : /\ thread[u].artifact = a
                       /\ thread[u].pc \in {"scan", "remove", "forget"}

RegisterReference(t) ==
    /\ At(t, "protect", "register")
    /\ LET a == thread[t].artifact
           reference == <<a, thread[t].reference>>
       IN  /\ refs' = refs \cup {reference}
           /\ late' = IF BeingRemoved(a) \/ files[a] # Whole THEN late \cup {reference} ELSE late
    /\ Answer(t)
    /\ UNCHANGED <<files, record, rows, created, removing, early, broken>>

\* Only this reference; the artifact's others remain.
ReleaseReference(t) ==
    /\ At(t, "release", "start")
    /\ refs' = refs \ {<<thread[t].artifact, thread[t].reference>>}
    /\ late' = late \ {<<thread[t].artifact, thread[t].reference>>}
    /\ Answer(t)
    /\ UNCHANGED <<files, record, rows, created, removing, early, broken>>

-----------------------------------------------------------------------------
(* delete_artifact and cleanup_expired.                                    *)

Protected(a) == \E reference \in References : <<a, reference>> \in refs

\* The protection is looked up before the manifests are scanned.
DeleteChecks(t) ==
    /\ At(t, "delete", "start")
    /\ IF Protected(thread[t].artifact) THEN Answer(t) ELSE Goto(t, "scan")
    /\ UNCHANGED <<files, record, rows, refs, history>>

Select(a) ==
    /\ removing' = removing \cup {a}
    /\ early' = IF a \in created THEN early ELSE early \cup {a}

DeleteScans(t) ==
    /\ At(t, "delete", "scan")
    /\ LET a == thread[t].artifact
       IN  IF a \in Listed(thread[t].session)
           THEN Goto(t, "remove") /\ Select(a)
           ELSE Answer(t) /\ UNCHANGED <<removing, early>>
    /\ UNCHANGED <<files, record, rows, refs, created, late, broken>>

\* cleanup_expired reads the clock and lists the manifests once, and then
\* takes them one by one.
CleanupLists(t) ==
    /\ At(t, "cleanup", "start")
    /\ thread' = [thread EXCEPT ![t].rest = Listed(thread[t].session), ![t].pc = "next",
                                ![t].current = now]
    /\ UNCHANGED <<files, record, rows, refs, history>>

Expired(a, current) == current - record[a].time >= Retention

CleanupTakesMutant(t, a) ==
    /\ At(t, "cleanup", "next") /\ a \in thread[t].rest
    /\ IF "manifest" \in files[a] /\ Expired(a, thread[t].current)
       THEN /\ thread' = [thread EXCEPT ![t].rest = @ \ {a}, ![t].pc = "remove", ![t].artifact = a]
            /\ Select(a)
       ELSE /\ thread' = [thread EXCEPT ![t].rest = @ \ {a}]
            /\ UNCHANGED <<removing, early>>
    /\ UNCHANGED <<files, record, rows, refs, created, late, broken>>

CleanupTakes(t, a) ==
    /\ At(t, "cleanup", "next") /\ a \in thread[t].rest
    /\ IF "manifest" \in files[a] /\ Expired(a, thread[t].current) /\ ~Protected(a)
       THEN /\ thread' = [thread EXCEPT ![t].rest = @ \ {a}, ![t].pc = "remove", ![t].artifact = a]
            /\ Select(a)
       ELSE /\ thread' = [thread EXCEPT ![t].rest = @ \ {a}]
            /\ UNCHANGED <<removing, early>>
    /\ UNCHANGED <<files, record, rows, refs, created, late, broken>>

CleanupEnds(t) ==
    /\ At(t, "cleanup", "next") /\ thread[t].rest = {}
    /\ Answer(t)
    /\ UNCHANGED <<files, record, rows, refs, history>>

\* shutil.rmtree unlinks the two files in the order the directory lists them
\* and then removes the directory.
Unlink(t) ==
    /\ thread[t].pc = "remove"
    /\ LET a == thread[t].artifact
       IN  \E f \in files[a] :
              /\ f = "dir" => files[a] = {"dir"}
              /\ files' = [files EXCEPT ![a] = @ \ {f}]
              /\ IF f = "dir" THEN Goto(t, "forget") ELSE UNCHANGED thread
    /\ UNCHANGED <<record, rows, refs, history>>

\* Another removal got there first: delete_artifact raises (always when the
\* directory is gone, and on older Pythons when a file in it is), and
\* cleanup_expired ignores the error.
Vanished(t) ==
    /\ thread[t].pc = "remove"
    /\ LET a == thread[t].artifact
       IN  \/ /\ files[a] = {}
              /\ IF thread[t].op = "delete" THEN Answer(t) ELSE Goto(t, "forget")
              /\ UNCHANGED broken
           \/ /\ files[a] # {} /\ thread[t].op = "delete"
              /\ \E u \in Threads \ {t} : thread[u].artifact = a /\ thread[u].pc = "remove"
              /\ Answer(t)
              /\ broken' = broken \cup {a}
    /\ UNCHANGED <<files, record, rows, refs, created, removing, early, late>>

\* rmtree fails: delete_artifact raises, cleanup_expired goes on as if the
\* payload were gone.
UnlinkFails(t) ==
    /\ thread[t].pc = "remove" /\ "disk" \in StoreFaults
    /\ files[thread[t].artifact] # {}
    /\ IF thread[t].op = "delete" THEN Answer(t) ELSE Goto(t, "forget")
    /\ broken' = broken \cup {thread[t].artifact}
    /\ UNCHANGED <<files, record, rows, refs, created, removing, early, late>>

Forgotten(t) ==
    IF thread[t].op = "delete" THEN Answer(t)
    ELSE thread' = [thread EXCEPT ![t].pc = "next", ![t].artifact = None]

ForgetMutant(t) ==
    /\ thread[t].pc = "forget"
    /\ Forgotten(t)
    /\ rows' = IF thread[t].op = "delete" THEN rows \ {thread[t].artifact} ELSE rows
    /\ UNCHANGED <<files, record, refs, history>>

\* delete_session_record.
Forget(t) ==
    /\ thread[t].pc = "forget"
    /\ rows' = rows \ {thread[t].artifact}
    /\ Forgotten(t)
    /\ UNCHANGED <<files, record, refs, history>>

ForgetFails(t) ==
    /\ thread[t].pc = "forget" /\ "sqlite" \in StoreFaults
    /\ Answer(t)
    /\ broken' = broken \cup {thread[t].artifact}
    /\ UNCHANGED <<files, record, rows, refs, created, removing, early, late>>

-----------------------------------------------------------------------------
\* The session is destroyed by another surface: its records go in one
\* transaction and the payloads stay.
DestroySession(s) ==
    LET own == {a \in Artifacts : record[a].session = s}
    IN  /\ own # {}
        /\ rows' = rows \ own
        /\ refs' = refs \ (own \X References)
        /\ late' = late \ (own \X References)
        /\ UNCHANGED <<files, record, thread, created, removing, early, broken>>

\* The server is killed; another one starts on the same directories.
CrashStore ==
    /\ \E t \in Threads : thread[t] # Idle
    /\ thread' = [t \in Threads |-> Idle]
    /\ broken' = broken \cup {thread[t].artifact : t \in {u \in Threads : thread[u].pc \in {"remove", "forget"}}}
    /\ UNCHANGED <<files, record, rows, refs, created, removing, early, late>>

ThreadStep(t) ==
    \/ NewArtifactDir(t) \/ WritePayload(t) \/ WriteManifest(t) \/ RecordArtifact(t)
    \/ CreateFails(t)
    \/ FindToProtect(t) \/ RegisterReference(t) \/ ReleaseReference(t)
    \/ DeleteChecks(t) \/ DeleteScans(t)
    \/ CleanupLists(t) \/ (\E a \in Artifacts : CleanupTakes(t, a)) \/ CleanupEnds(t)
    \/ Unlink(t) \/ Vanished(t) \/ UnlinkFails(t) \/ Forget(t) \/ ForgetFails(t)

-----------------------------------------------------------------------------
ThreadRecords ==
    [op : {"idle", "create", "protect", "release", "delete", "cleanup"},
     pc : {"", "start", "payload", "manifest", "record", "register", "scan", "next",
           "remove", "forget"},
     session : Sessions \cup {None}, artifact : Artifacts \cup {None},
     reference : References \cup {None}, rest : SUBSET Artifacts, current : Nat]

StoreTypeOK ==
    /\ files \in [Artifacts -> SUBSET Whole]
    /\ record \in [Artifacts -> [session : Sessions \cup {None}, time : Nat]]
    /\ {rows, created, removing, early} \subseteq SUBSET Artifacts
    /\ {refs, late} \subseteq SUBSET (Artifacts \X References)
    /\ thread \in [Threads -> ThreadRecords]

\* An artifact that a listing shows, or whose creation was answered, has its
\* payload and its manifest until a removal selects it, also when the server
\* is killed in the middle of a creation or a write fails.
ListedIsWhole ==
    \A a \in Artifacts \ removing :
        "manifest" \in files[a] \/ a \in created => files[a] = Whole

\* A reference registered while no removal is past its check keeps every file
\* of its artifact, through clean-ups, deletions and the release of other
\* references, until it is released itself or the session destroyed.
ProtectedIsKept == \A reference \in refs \ late : files[reference[1]] = Whole

\* "Expiration cleanup skips an artifact while an active proof or release
\* reference exists.  Explicit deletion also fails closed for protected
\* artifacts": whatever has a reference is whole.
RemovalFailsClosed == \A reference \in refs : files[reference[1]] = Whole

\* The state store holds a record of an artifact without files only while
\* its removal is under way, after a removal that was cut short (a kill, a
\* disk or database error, two deletions at once), or when the removal began
\* before the creation was answered.
NoGhostRecord ==
    \A a \in rows : "manifest" \notin files[a] =>
        \/ a \in broken \cup early
        \/ \E t \in Threads : thread[t].artifact = a /\ thread[t].pc \in {"remove", "forget"}

=============================================================================
