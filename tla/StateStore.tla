----------------------------- MODULE StateStore -----------------------------
(***************************************************************************)
(* The durable side of design sessions: SQLiteStateStore                   *)
(* (zaptrace/core/state_store.py and state_store_records.py), the          *)
(* PersistentDesignDict in front of it (zaptrace/core/session_store.py)    *)
(* and the runtime helpers that construct a store for every use            *)
(* (zaptrace/agent/tool_impls/runtime.py), as used by several processes    *)
(* that share one database file.                                           *)
(*                                                                         *)
(* A BEGIN IMMEDIATE transaction is one step, and so is what it leaves in  *)
(* the mapping: a write through the mapping takes two.  Constructing a     *)
(* store runs the legacy import, which checks for a head in one connection *)
(* and writes in another: those are two steps per legacy design, and every *)
(* operation that constructs a store runs them before its own transaction. *)
(*                                                                         *)
(* Abstractions.  A design payload and the SHA-256 that names its blob are *)
(* one value of Contents.  A version id is the number of the transaction   *)
(* that wrote it, which with session and design name is unique; 0 is NULL. *)
(* A session keeps one snapshot label per design.                          *)
(***************************************************************************)
EXTENDS Integers, FiniteSets

CONSTANTS
    Procs,       \* processes sharing the database
    Sessions,    \* session identifiers
    Names,       \* design names
    Contents,    \* design payloads
    Legacy,      \* the <<session, name>> pairs with a legacy manifest
    LegacyOf,    \* the payload in each legacy current.json
    Faults,      \* transactions that may raise, see FaultKinds
    MaxStamp,    \* bound on the number of design transactions
    Nothing      \* no design, no content

\* sqlite: store_design raises; replace: replace_session_designs raises;
\* delete: delete_session raises; event: the commit event or the committed
\* journal raises a listed exception.
FaultKinds == { "sqlite", "replace", "delete", "event" }

ASSUME ConstantsAssumption ==
    /\ Legacy \subseteq Sessions \X Names
    /\ LegacyOf \in [Legacy -> Contents]
    /\ Faults \subseteq FaultKinds
    /\ MaxStamp \in Nat
    /\ Nothing \notin Contents
    /\ Nothing \notin Legacy

VARIABLES
    sessions,   \* rows of table sessions
    blobs,      \* rows of content_blobs
    versions,   \* rows of design_versions, by session and name
    heads,      \* rows of design_heads: version id, or 0 for no row
    snaps,      \* snapshot rows of session_records: content id
    clock,      \* number of design transactions so far
    loaded,     \* keys of each process's _sessions
    mem,        \* each process's PersistentDesignDict of each session
    destroyed,  \* each process's _DESTROYED_SESSION_IDS
    op,         \* the operation a process has a store under construction for
    todo,       \* legacy manifests that construction has not looked at yet
    pending,    \* legacy manifest found without a head, about to be stored
    adrift,     \* sessions whose "designs" are not the durable mapping any more
    dirty,      \* <<session, name>> whose last write of this process failed
    deleted     \* sessions this process deleted durably since it started

vars == << sessions, blobs, versions, heads, snaps, clock, loaded, mem,
           destroyed, op, todo, pending, adrift, dirty, deleted >>
tables == << sessions, blobs, versions, heads, snaps, clock >>

Operations == { "mapping-assignment", "tool-commit", "worker-commit",
                "worker-state-restore", "legacy-filesystem-import" }
Stamps == 1..MaxStamp
Versions == [stamp : Stamps, content : Contents, parent : 0..MaxStamp,
             operation : Operations]
Maybe == Contents \cup {Nothing}
Designs == [Names -> Maybe]
Kinds == { "none", "load", "hydrate", "audit", "snapshot", "drop", "destroy",
           "assign", "write", "refresh", "event", "restore", "restored" }
NoDesigns == [n \in Names |-> Nothing]
Idle == [kind |-> "none"]
NamedOps == [kind : {"load", "hydrate", "audit", "destroy"}, session : Sessions]
DesignOps == [kind : {"snapshot", "drop"}, session : Sessions, name : Names]
WriteOps == [kind : {"assign", "write"}, session : Sessions, name : Names,
             content : Contents]
CommitOps == [kind : {"event", "restore"}, session : Sessions, saved : Designs]
RefreshOps == [kind : {"refresh", "restored"}, session : Sessions, saved : Designs,
               designs : Designs]

TypeOK ==
    /\ sessions \subseteq Sessions
    /\ blobs \subseteq Contents
    /\ versions \in [Sessions -> [Names -> SUBSET Versions]]
    /\ heads \in [Sessions -> [Names -> 0..MaxStamp]]
    /\ snaps \in [Sessions -> Designs]
    /\ clock \in 0..MaxStamp
    /\ loaded \in [Procs -> SUBSET Sessions]
    /\ mem \in [Procs -> [Sessions -> Designs]]
    /\ destroyed \in [Procs -> SUBSET Sessions]
    /\ op \in [Procs -> {Idle} \cup NamedOps \cup DesignOps \cup WriteOps
                         \cup CommitOps \cup RefreshOps]
    /\ todo \in [Procs -> SUBSET Legacy]
    /\ pending \in [Procs -> Legacy \cup {Nothing}]
    /\ adrift \in [Procs -> SUBSET Sessions]
    /\ dirty \in [Procs -> SUBSET (Sessions \X Names)]
    /\ deleted \in [Procs -> SUBSET Sessions]

\* An empty database next to the legacy files, and freshly started processes.
Init ==
    /\ sessions = {}
    /\ blobs = {}
    /\ versions = [s \in Sessions |-> [n \in Names |-> {}]]
    /\ heads = [s \in Sessions |-> [n \in Names |-> 0]]
    /\ snaps = [s \in Sessions |-> NoDesigns]
    /\ clock = 0
    /\ loaded = [p \in Procs |-> {}]
    /\ mem = [p \in Procs |-> [s \in Sessions |-> NoDesigns]]
    /\ destroyed = [p \in Procs |-> {}]
    /\ op = [p \in Procs |-> Idle]
    /\ todo = [p \in Procs |-> {}]
    /\ pending = [p \in Procs |-> Nothing]
    /\ adrift = [p \in Procs |-> {}]
    /\ dirty = [p \in Procs |-> {}]
    /\ deleted = [p \in Procs |-> {}]

-----------------------------------------------------------------------------
(* Transactions of SQLiteStateStore.                                       *)

\* The payload of the current head of each design.
HeadContent(s, n) ==
    IF heads[s][n] = 0 THEN Nothing
    ELSE (CHOOSE v \in versions[s][n] : v.stamp = heads[s][n]).content

LoadDesigns(s) == [n \in Names |-> HeadContent(s, n)]

Given(designs) == { n \in Names : designs[n] # Nothing }

\* Mutant: the version is recorded but the head is not moved.
StoreDesignsMutant(s, designs, kept, operation) ==
    /\ clock < MaxStamp
    /\ clock' = clock + 1
    /\ sessions' = sessions \cup {s}
    /\ blobs' = blobs \cup { designs[n] : n \in Given(designs) }
    /\ versions' = [versions EXCEPT ![s] = [n \in Names |->
            IF n \in Given(designs)
            THEN versions[s][n] \cup
                   {[stamp |-> clock + 1, content |-> designs[n],
                     parent |-> heads[s][n], operation |-> operation]}
            ELSE versions[s][n]]]
    /\ heads' = [heads EXCEPT ![s] = [n \in Names |->
            IF n \in Given(designs) /\ heads[s][n] = 0 THEN clock + 1
            ELSE IF n \in Given(designs) \cup kept THEN heads[s][n] ELSE 0]]
    /\ UNCHANGED snaps

\* Mutant: the new version replaces the one it supersedes.
PruneMutant(s, designs, kept, operation) ==
    /\ clock < MaxStamp
    /\ clock' = clock + 1
    /\ sessions' = sessions \cup {s}
    /\ blobs' = blobs \cup { designs[n] : n \in Given(designs) }
    /\ versions' = [versions EXCEPT ![s] = [n \in Names |->
            IF n \in Given(designs)
            THEN {[stamp |-> clock + 1, content |-> designs[n],
                   parent |-> heads[s][n], operation |-> operation]}
            ELSE versions[s][n]]]
    /\ heads' = [heads EXCEPT ![s] = [n \in Names |->
            IF n \in Given(designs) THEN clock + 1
            ELSE IF n \in kept THEN heads[s][n] ELSE 0]]
    /\ UNCHANGED snaps

(***************************************************************************)
(* store_design and replace_session_designs: every given design becomes a  *)
(* new version whose parent is the head it replaces.  The heads of the     *)
(* other designs stay when they are in kept and are deleted otherwise.     *)
(***************************************************************************)
StoreDesigns(s, designs, kept, operation) ==
    /\ clock < MaxStamp
    /\ clock' = clock + 1
    /\ sessions' = sessions \cup {s}
    /\ blobs' = blobs \cup { designs[n] : n \in Given(designs) }
    /\ versions' = [versions EXCEPT ![s] = [n \in Names |->
            IF n \in Given(designs)
            THEN versions[s][n] \cup
                   {[stamp |-> clock + 1, content |-> designs[n],
                     parent |-> heads[s][n], operation |-> operation]}
            ELSE versions[s][n]]]
    /\ heads' = [heads EXCEPT ![s] = [n \in Names |->
            IF n \in Given(designs) THEN clock + 1
            ELSE IF n \in kept THEN heads[s][n] ELSE 0]]
    /\ UNCHANGED snaps

Only(n, c) == [m \in Names |-> IF m = n THEN c ELSE Nothing]

StoreDesign(s, n, c, operation) == StoreDesigns(s, Only(n, c), Names, operation)

\* Mutant: the heads of designs that are not given are left in place.
ReplaceSessionDesignsMutant(s, designs, operation) ==
    StoreDesigns(s, designs, Names, operation)

ReplaceSessionDesigns(s, designs, operation) ==
    StoreDesigns(s, designs, {}, operation)

\* Mutant: snapshot rows are forgotten when unreferenced blobs are deleted.
ReferencedOutsideMutant(s) ==
    { c \in blobs : \E t \in Sessions \ {s}, n \in Names :
         \E v \in versions[t][n] : v.content = c }

\* The blobs some version or snapshot outside session s refers to.
ReferencedOutside(s) ==
    { c \in blobs : \E t \in Sessions \ {s}, n \in Names :
         (\E v \in versions[t][n] : v.content = c) \/ snaps[t][n] = c }

\* delete_session: the session's rows, then every blob nothing refers to.
DeleteSession(s) ==
    /\ sessions' = sessions \ {s}
    /\ versions' = [versions EXCEPT ![s] = [n \in Names |-> {}]]
    /\ heads' = [heads EXCEPT ![s] = [n \in Names |-> 0]]
    /\ snaps' = [snaps EXCEPT ![s] = NoDesigns]
    /\ blobs' = ReferencedOutside(s)
    /\ UNCHANGED clock

-----------------------------------------------------------------------------
(* Constructing a store: _import_legacy_filesystem.                        *)

Goto(p, o) == op' = [op EXCEPT ![p] = o]

\* SQLiteStateStore(root) for the operation o.
Construct(p, o) ==
    /\ Goto(p, o)
    /\ todo' = [todo EXCEPT ![p] = Legacy]

Constructed(p) == todo[p] = {} /\ pending[p] = Nothing

\* current_design_identity, in a connection of its own.
ImportCheck(p) ==
    /\ pending[p] = Nothing
    /\ \E k \in todo[p] :
          \/ /\ heads[k[1]][k[2]] # 0
             /\ todo' = [todo EXCEPT ![p] = @ \ {k}]
             /\ UNCHANGED pending
          \/ /\ heads[k[1]][k[2]] = 0
             /\ pending' = [pending EXCEPT ![p] = k]
             /\ UNCHANGED todo
    /\ UNCHANGED << tables, loaded, mem, destroyed, op, adrift, dirty, deleted >>

\* store_design(record_duplicate=False): an equal head is left as it is.
ImportStore(p) ==
    /\ pending[p] # Nothing
    /\ LET k == pending[p] IN
       /\ todo' = [todo EXCEPT ![p] = @ \ {k}]
       /\ \/ /\ HeadContent(k[1], k[2]) = LegacyOf[k]
             /\ UNCHANGED tables
          \/ /\ HeadContent(k[1], k[2]) # LegacyOf[k]
             /\ StoreDesign(k[1], k[2], LegacyOf[k], "legacy-filesystem-import")
    /\ pending' = [pending EXCEPT ![p] = Nothing]
    /\ UNCHANGED << loaded, mem, destroyed, op, adrift, dirty, deleted >>

-----------------------------------------------------------------------------
(* Operations that construct a store first.                                *)

\* _get_session raises SessionDestroyedError for a destroyed session.
MayLoad(p, s) == s \notin loaded[p] /\ s \notin destroyed[p]

\* _get_session for a session that is not in memory.
BeginLoad(p, s) ==
    /\ op[p] = Idle
    /\ MayLoad(p, s)
    /\ Construct(p, [kind |-> "load", session |-> s])
    /\ UNCHANGED << tables, loaded, mem, destroyed, pending, adrift, dirty, deleted >>

\* make_design_mapping reads the heads; hydration constructs another store.
Load(p) ==
    /\ op[p].kind = "load" /\ Constructed(p)
    /\ LET s == op[p].session IN
       /\ mem' = [mem EXCEPT ![p][s] = LoadDesigns(s)]
       /\ Construct(p, [kind |-> "hydrate", session |-> s])
    /\ UNCHANGED << tables, loaded, destroyed, pending, adrift, dirty, deleted >>

\* _hydrate_persistent_session is done: the session is in the table.
Hydrate(p) ==
    /\ op[p].kind = "hydrate" /\ Constructed(p)
    /\ loaded' = [loaded EXCEPT ![p] = @ \cup {op[p].session}]
    /\ Goto(p, Idle)
    /\ UNCHANGED << tables, mem, destroyed, todo, pending, adrift, dirty, deleted >>

\* An authorization or audit event about a session, destroyed or not.
BeginAudit(p, s) ==
    /\ op[p] = Idle
    /\ Construct(p, [kind |-> "audit", session |-> s])
    /\ UNCHANGED << tables, loaded, mem, destroyed, pending, adrift, dirty, deleted >>

\* append_audit_event ensures the session row.
AppendAudit(p) ==
    /\ op[p].kind = "audit" /\ Constructed(p)
    /\ sessions' = sessions \cup {op[p].session}
    /\ Goto(p, Idle)
    /\ UNCHANGED << blobs, versions, heads, snaps, clock, loaded, mem, destroyed,
                    todo, pending, adrift, dirty, deleted >>

\* tool_design_snapshot, or tool_design_commit dropping the snapshot.
BeginSnapshot(p, s, n) ==
    /\ op[p] = Idle
    /\ s \in loaded[p]
    /\ \/ /\ mem[p][s][n] # Nothing
          /\ Construct(p, [kind |-> "snapshot", session |-> s, name |-> n])
       \/ Construct(p, [kind |-> "drop", session |-> s, name |-> n])
    /\ UNCHANGED << tables, loaded, mem, destroyed, pending, adrift, dirty, deleted >>

\* upsert_design_record: blob and record in one transaction.
UpsertSnapshot(p) ==
    /\ op[p].kind = "snapshot" /\ Constructed(p)
    /\ LET s == op[p].session
           n == op[p].name IN
       /\ sessions' = sessions \cup {s}
       /\ blobs' = blobs \cup {mem[p][s][n]}
       /\ snaps' = [snaps EXCEPT ![s][n] = mem[p][s][n]]
    /\ Goto(p, Idle)
    /\ UNCHANGED << versions, heads, clock, loaded, mem, destroyed, todo,
                    pending, adrift, dirty, deleted >>

\* delete_session_records: the blob stays until a session is deleted.
DropSnapshot(p) ==
    /\ op[p].kind = "drop" /\ Constructed(p)
    /\ snaps' = [snaps EXCEPT ![op[p].session][op[p].name] = Nothing]
    /\ Goto(p, Idle)
    /\ UNCHANGED << sessions, blobs, versions, heads, clock, loaded, mem,
                    destroyed, todo, pending, adrift, dirty, deleted >>

\* session_destroy under the session lock: memory first.
BeginDestroy(p, s) ==
    /\ op[p] = Idle
    /\ s \in loaded[p]
    /\ destroyed' = [destroyed EXCEPT ![p] = @ \cup {s}]
    /\ loaded' = [loaded EXCEPT ![p] = @ \ {s}]
    /\ mem' = [mem EXCEPT ![p][s] = NoDesigns]
    /\ adrift' = [adrift EXCEPT ![p] = @ \ {s}]
    /\ dirty' = [dirty EXCEPT ![p] = @ \ ({s} \X Names)]
    /\ Construct(p, [kind |-> "destroy", session |-> s])
    /\ UNCHANGED << tables, pending, deleted >>

\* _delete_persistent_session
Destroy(p) ==
    /\ op[p].kind = "destroy" /\ Constructed(p)
    /\ \/ /\ DeleteSession(op[p].session)
          /\ deleted' = [deleted EXCEPT ![p] = @ \cup {op[p].session}]
       \/ /\ "delete" \in Faults
          /\ UNCHANGED << tables, deleted >>
    /\ Goto(p, Idle)
    /\ UNCHANGED << loaded, mem, destroyed, todo, pending, adrift, dirty >>

-----------------------------------------------------------------------------
(* Writes through the PersistentDesignDict, which keeps its store.  A      *)
(* session that is adrift has an ordinary dict, or none, in its place.     *)

Remember(p, s, n, c) == mem' = [mem EXCEPT ![p][s][n] = c]

Clean(p, s, n) == dirty' = [dirty EXCEPT ![p] = @ \ {<<s, n>>}]

\* _set_design, commit_design: the database first, memory only when it did
\* not raise.
CommitDesign(p, s, n, c) ==
    /\ op[p] = Idle
    /\ s \in loaded[p]
    /\ \/ /\ s \in adrift[p]
          /\ Remember(p, s, n, c)
          /\ UNCHANGED << tables, op >>
       \/ /\ s \notin adrift[p]
          /\ StoreDesign(s, n, c, "tool-commit")
          /\ Goto(p, [kind |-> "assign", session |-> s, name |-> n, content |-> c])
          /\ UNCHANGED mem
    /\ UNCHANGED << loaded, destroyed, todo, pending, adrift, dirty, deleted >>

\* dict.__setitem__ of commit_design
AssignDesign(p) ==
    /\ op[p].kind = "assign"
    /\ Remember(p, op[p].session, op[p].name, op[p].content)
    /\ Clean(p, op[p].session, op[p].name)
    /\ Goto(p, Idle)
    /\ UNCHANGED << tables, loaded, destroyed, todo, pending, adrift, deleted >>

\* __setitem__, and persist after an edit in place: memory first.
SetItem(p, s, n, c) ==
    /\ op[p] = Idle
    /\ s \in loaded[p]
    /\ Remember(p, s, n, c)
    /\ \/ s \in adrift[p] /\ UNCHANGED op
       \/ /\ s \notin adrift[p]
          /\ Goto(p, [kind |-> "write", session |-> s, name |-> n, content |-> c])
    /\ UNCHANGED << tables, loaded, destroyed, todo, pending, adrift, dirty, deleted >>

\* _write, which may raise.
WriteDesign(p) ==
    /\ op[p].kind = "write"
    /\ LET s == op[p].session
           n == op[p].name IN
       \/ /\ StoreDesign(s, n, op[p].content, "mapping-assignment")
          /\ Clean(p, s, n)
       \/ /\ "sqlite" \in Faults
          /\ dirty' = [dirty EXCEPT ![p] = @ \cup {<<s, n>>}]
          /\ UNCHANGED tables
    /\ Goto(p, Idle)
    /\ UNCHANGED << loaded, mem, destroyed, todo, pending, adrift, deleted >>

\* replace_all after its transaction: the whole mapping.
RefreshMapping(p) ==
    /\ mem' = [mem EXCEPT ![p][op[p].session] = op[p].designs]
    /\ dirty' = [dirty EXCEPT ![p] = @ \ ({op[p].session} \X Names)]

\* _replace_session_state cleared the session before replace_all raised: it
\* has lost its mapping and holds the given designs, in memory only.
LoseMapping(p, s, designs) ==
    /\ adrift' = [adrift EXCEPT ![p] = @ \cup {s}]
    /\ mem' = [mem EXCEPT ![p][s] = designs]
    /\ dirty' = [dirty EXCEPT ![p] = @ \ ({s} \X Names)]

(***************************************************************************)
(* _commit_session_state of a worker that changed or added one design.     *)
(* When replace_all raises a listed exception, _restore_session_state puts *)
(* the previous designs into an ordinary dict; sqlite3.Error is not listed *)
(* and leaves none.                                                        *)
(***************************************************************************)
WorkerCommit(p, s, n, c) ==
    LET designs == [mem[p][s] EXCEPT ![n] = c] IN
    /\ op[p] = Idle
    /\ s \in loaded[p]
    /\ \/ /\ s \in adrift[p]
          /\ mem' = [mem EXCEPT ![p][s] = designs]
          /\ Construct(p, [kind |-> "event", session |-> s, saved |-> mem[p][s]])
          /\ UNCHANGED << tables, adrift, dirty >>
       \/ /\ s \notin adrift[p]
          /\ ReplaceSessionDesigns(s, designs, "worker-commit")
          /\ Goto(p, [kind |-> "refresh", session |-> s, saved |-> mem[p][s],
                      designs |-> designs])
          /\ UNCHANGED << mem, todo, adrift, dirty >>
       \/ /\ s \notin adrift[p] /\ "replace" \in Faults
          /\ \E left \in { mem[p][s], NoDesigns } : LoseMapping(p, s, left)
          /\ UNCHANGED << tables, op, todo >>
    /\ UNCHANGED << loaded, destroyed, pending, deleted >>

\* The mapping is refreshed; the commit event comes next and constructs a store.
CommitRefresh(p) ==
    /\ op[p].kind = "refresh"
    /\ RefreshMapping(p)
    /\ Construct(p, [kind |-> "event", session |-> op[p].session, saved |-> op[p].saved])
    /\ UNCHANGED << tables, loaded, destroyed, pending, adrift, deleted >>

\* The commit event is appended and the committed journal written, or one
\* of the two raises and _restore_session_state comes next.
CommitEvent(p) ==
    /\ op[p].kind = "event" /\ Constructed(p)
    /\ \/ sessions' = sessions \cup {op[p].session} /\ Goto(p, Idle)
       \/ /\ "event" \in Faults
          /\ sessions' \in { sessions, sessions \cup {op[p].session} }
          /\ Goto(p, [kind |-> "restore", session |-> op[p].session,
                      saved |-> op[p].saved])
    /\ UNCHANGED << blobs, versions, heads, snaps, clock, loaded, mem, destroyed,
                    todo, pending, adrift, dirty, deleted >>

\* _restore_session_state: the previous designs become new versions.
WorkerRestore(p) ==
    /\ op[p].kind = "restore"
    /\ LET s == op[p].session
           saved == op[p].saved IN
       \/ /\ s \in adrift[p]
          /\ mem' = [mem EXCEPT ![p][s] = saved]
          /\ Goto(p, Idle)
          /\ UNCHANGED << tables, adrift, dirty >>
       \/ /\ s \notin adrift[p]
          /\ ReplaceSessionDesigns(s, saved, "worker-state-restore")
          /\ Goto(p, [kind |-> "restored", session |-> s, saved |-> saved,
                      designs |-> saved])
          /\ UNCHANGED << mem, adrift, dirty >>
       \/ /\ s \notin adrift[p] /\ "replace" \in Faults
          /\ LoseMapping(p, s, NoDesigns)
          /\ Goto(p, Idle)
          /\ UNCHANGED tables
    /\ UNCHANGED << loaded, destroyed, todo, pending, deleted >>

\* The mapping is refreshed, the call reports its error.
RestoreRefresh(p) ==
    /\ op[p].kind = "restored"
    /\ RefreshMapping(p)
    /\ Goto(p, Idle)
    /\ UNCHANGED << tables, loaded, destroyed, todo, pending, adrift, deleted >>

\* The process is killed and started again; SQLite keeps what was committed.
Restart(p) ==
    /\ loaded' = [loaded EXCEPT ![p] = {}]
    /\ mem' = [mem EXCEPT ![p] = [s \in Sessions |-> NoDesigns]]
    /\ destroyed' = [destroyed EXCEPT ![p] = {}]
    /\ Goto(p, Idle)
    /\ todo' = [todo EXCEPT ![p] = {}]
    /\ pending' = [pending EXCEPT ![p] = Nothing]
    /\ adrift' = [adrift EXCEPT ![p] = {}]
    /\ dirty' = [dirty EXCEPT ![p] = {}]
    /\ deleted' = [deleted EXCEPT ![p] = {}]
    /\ UNCHANGED tables

Next ==
    \E p \in Procs :
       \/ ImportCheck(p) \/ ImportStore(p)
       \/ Load(p) \/ Hydrate(p) \/ AppendAudit(p)
       \/ UpsertSnapshot(p) \/ DropSnapshot(p) \/ Destroy(p)
       \/ AssignDesign(p) \/ WriteDesign(p) \/ CommitRefresh(p) \/ CommitEvent(p)
       \/ WorkerRestore(p) \/ RestoreRefresh(p) \/ Restart(p)
       \/ \E s \in Sessions :
             \/ BeginLoad(p, s) \/ BeginAudit(p, s) \/ BeginDestroy(p, s)
             \/ \E n \in Names :
                   \/ BeginSnapshot(p, s, n)
                   \/ \E c \in Contents :
                         \/ CommitDesign(p, s, n, c)
                         \/ SetItem(p, s, n, c)
                         \/ WorkerCommit(p, s, n, c)

Spec == Init /\ [][Next]_vars

-----------------------------------------------------------------------------
(* Whatever the processes do, and however they interleave.                 *)

\* No transaction ever trips a foreign key: heads, parents and snapshots of
\* every session refer to rows that exist, also after another session that
\* shares content with it was deleted.
ForeignKeysHold ==
    \A s \in Sessions, n \in Names :
        /\ heads[s][n] # 0 => \E v \in versions[s][n] : v.stamp = heads[s][n]
        /\ \A v \in versions[s][n] :
              /\ s \in sessions /\ v.content \in blobs
              /\ v.parent # 0 => \E u \in versions[s][n] : u.stamp = v.parent
        /\ snaps[s][n] # Nothing => s \in sessions /\ snaps[s][n] \in blobs

\* The lineage of a design never forks: a version has at most one child, the
\* head has none and is the newest version.
LineageLinear ==
    \A s \in Sessions, n \in Names :
        /\ \A u, v \in versions[s][n] :
              /\ u.stamp = v.stamp => u = v
              /\ u.parent # 0 /\ u.parent = v.parent => u = v
        /\ heads[s][n] # 0 =>
              \A v \in versions[s][n] : v.stamp <= heads[s][n] /\ v.parent # heads[s][n]

\* Committed history is immutable: versions of a session disappear only all
\* together, in the transaction that deletes the session.
HistoryImmutable ==
    [][\A s \in Sessions :
          \/ \A n \in Names : versions[s][n] \subseteq versions'[s][n]
          \/ s \notin sessions' /\ \A n \in Names : versions'[s][n] = {}]_vars

(* For one process that has the database to itself.                        *)

\* A write of design n is between its two halves.
Writing(p, s, n) ==
    \/ op[p].kind \in {"assign", "write"} /\ op[p].session = s /\ op[p].name = n
    \/ op[p].kind \in {"refresh", "restored"} /\ op[p].session = s

\* What a process holds in memory is what a restart would load, except for
\* designs that are being written or whose last assignment raised, and for
\* sessions that a failed replacement has cut off from the store: neither a
\* failed or restored commit nor an import under a loaded session parts them.
MemoryIsDurable ==
    \A p \in Procs : \A s \in loaded[p] \ adrift[p], n \in Names :
        <<s, n>> \notin dirty[p] /\ ~Writing(p, s, n) => mem[p][s][n] = HeadContent(s, n)

\* What came back into a session after its deletion was only ever imported
\* from legacy files: no write of the process reaches a deleted session.
DeletedHoldsOnlyImports ==
    \A p \in Procs : \A s \in deleted[p], n \in Names :
        /\ s \notin loaded[p] /\ snaps[s][n] = Nothing
        /\ \A v \in versions[s][n] : v.operation = "legacy-filesystem-import"

(* What the documentation says.                                            *)

\* "Each committed mutation receives a distinct immutable version ID": a
\* session in memory keeps the mapping that writes through to the store.
MappingIsKept == \A p \in Procs : adrift[p] = {}

\* A deleted session stays deleted: session_destroy "removes the durable
\* session, design heads and lineage".
DeletedStaysDeleted ==
    \A p \in Procs : \A s \in deleted[p], n \in Names : versions[s][n] = {}

\* The import happens once, into an empty place: it never replaces a head.
ImportSupersedesNothing ==
    \A s \in Sessions, n \in Names : \A v \in versions[s][n] :
        v.operation = "legacy-filesystem-import" => v.parent = 0
=============================================================================
