-------------------------- MODULE DesignTransactions --------------------------
(***************************************************************************)
(* Design snapshots and preview transactions of one design of one session. *)
(*                                                                         *)
(* A call made through the SDK or the REST API runs in the server process, *)
(* one statement after another; the REST handlers run in a thread pool and *)
(* take no lock, so every element of Requests is a call in progress and    *)
(* the steps of several calls interleave.  A call made through MCP runs in *)
(* an isolated worker without a state store, and the parent then replaces  *)
(* the session's memory and the durable designs in one step.               *)
(***************************************************************************)
EXTENDS Naturals

CONSTANTS
    Requests,   \* the calls the server process can have in progress
    Txs,        \* transaction ids, each issued once
    Labels,     \* snapshot labels
    Contents,   \* designs, as far as design_state_hash tells them apart
    Sound,      \* the designs whose ERC passes
    Faults,     \* the durable writes that may raise
    Surfaces,   \* how the server may be driven: "direct", "mcp"
    Budgets,    \* pairs: how many direct calls on transactions and designs,
                \* and how many on snapshots, are made
    None

FaultKinds == { "record", "store", "snapshot" }
States == { "none", "previewed", "validated", "rejected", "committed", "rolled_back" }
DroppedStates == { "none", "rejected", "rolled_back" }

ASSUME TransactionAssumption ==
    /\ Sound \subseteq Contents
    /\ Faults \subseteq FaultKinds
    /\ Surfaces \subseteq { "direct", "mcp" }
    /\ Budgets \subseteq [1 .. 2 -> Nat]
    /\ None \notin Contents
    /\ None \notin Labels \cup Txs

VARIABLES
    surface,     \* fixed when the server starts
    design,      \* session["designs"][name]
    results,     \* the design the session's check results belong to
    state,       \* session["transactions"][t]["state"]
    passed,      \* session["transactions"][t]["validation"]["status"] = "passed"
    history,     \* session["transaction_history"], as a set of << t, state >>
    snaps,       \* session["snapshots"][name][l] with its ancillary results
    dDesign, dState, dPassed, dHistory, dSnaps,   \* the same, durable
    parent,      \* parent_state_hash, fixed by the preview
    candidate,   \* candidate_design, fixed by the preview
    pc, key, val,   \* per request: next step, transaction or label, operand
    budget,      \* the direct calls that may still be made
    used,        \* transaction ids issued so far
    installed,   \* transactions whose candidate was stored as the design
    acked,       \* transaction -> last state a call returned
    kept,        \* label -> content a call returned as captured, or None
    cut,         \* installed transactions whose commit ended unrecorded
    contended,   \* transactions and labels on which two calls overlapped
    crossed      \* a call that writes the design overlapped one that
                 \* writes it too or previews against it

session == << design, results, state, passed, history, snaps >>
durable == << dDesign, dState, dPassed, dHistory, dSnaps >>
plan == << parent, candidate, used >>
calls == << pc, key, val, budget >>
told == << acked, kept >>
overlaps == << contended, crossed >>
vars == << surface, session, durable, plan, calls, installed, told, cut, overlaps >>

Snapshots == (Contents \X (Contents \cup {None})) \cup {None}
Steps == { "idle", "previewPersist", "erc", "verdict", "verdictPersist", "rejectPersist",
           "commitStore", "commitMemory", "commitRecord", "finalPersist", "finalHistory",
           "editPersist", "replaceStore", "replaceMemory", "snapPersist", "restoreStore",
           "restoreMemory", "confirmDelete" }

TypeOK ==
    /\ surface \in Surfaces
    /\ design \in Contents /\ dDesign \in Contents
    /\ results \in Contents \cup {None}
    /\ state \in [Txs -> States] /\ dState \in [Txs -> States]
    /\ passed \in [Txs -> BOOLEAN] /\ dPassed \in [Txs -> BOOLEAN]
    /\ history \in SUBSET (Txs \X States)
    /\ dHistory \in [Txs -> States]
    /\ snaps \in [Labels -> Snapshots] /\ dSnaps \in [Labels -> Snapshots]
    /\ parent \in [Txs -> Contents] /\ candidate \in [Txs -> Contents]
    /\ pc \in [Requests -> Steps]
    /\ key \in [Requests -> Txs \cup Labels \cup {None}]
    /\ val \in [Requests -> Snapshots \cup Contents \cup States]
    /\ budget \in [1 .. 2 -> Nat]
    /\ used \subseteq Txs /\ installed \subseteq used
    /\ acked \in [Txs -> States]
    /\ kept \in [Labels -> Snapshots]
    /\ cut \subseteq installed
    /\ contended \subseteq Txs \cup Labels
    /\ crossed \in BOOLEAN

Init ==
    /\ surface \in Surfaces
    /\ design \in Contents /\ dDesign = design
    /\ results = None
    /\ state = [t \in Txs |-> "none"] /\ dState = state
    /\ passed = [t \in Txs |-> FALSE] /\ dPassed = passed
    /\ history = {} /\ dHistory = [t \in Txs |-> "none"]
    /\ snaps = [l \in Labels |-> None] /\ dSnaps = snaps
    /\ parent = [t \in Txs |-> design] /\ candidate = [t \in Txs |-> design]
    /\ pc = [r \in Requests |-> "idle"]
    /\ key = [r \in Requests |-> None]
    /\ val = [r \in Requests |-> None]
    /\ budget \in Budgets
    /\ used = {} /\ installed = {}
    /\ acked = [t \in Txs |-> "none"]
    /\ kept = [l \in Labels |-> None]
    /\ cut = {} /\ contended = {} /\ crossed = FALSE

-----------------------------------------------------------------------------
(* Calls *)

Purse(step) == IF step \in { "snapPersist", "restoreStore", "confirmDelete" } THEN 2 ELSE 1

Start(r, step, k, v) ==
    /\ surface = "direct" /\ pc[r] = "idle"
    /\ budget[Purse(step)] > 0
    /\ budget' = [budget EXCEPT ![Purse(step)] = @ - 1]
    /\ pc' = [pc EXCEPT ![r] = step]
    /\ key' = [key EXCEPT ![r] = k]
    /\ val' = [val EXCEPT ![r] = v]

Goto(r, step) ==
    /\ pc' = [pc EXCEPT ![r] = step]
    /\ UNCHANGED << key, val, budget >>

\* The call returns or raises.
Finish(r) ==
    /\ pc' = [pc EXCEPT ![r] = "idle"]
    /\ key' = [key EXCEPT ![r] = None]
    /\ val' = [val EXCEPT ![r] = None]
    /\ UNCHANGED budget

Ack(t, s) == acked' = [acked EXCEPT ![t] = s]

\* A durable write of the call raises: SQLite rolls its transaction back.
Raise(r) ==
    /\ \/ /\ "record" \in Faults
          /\ pc[r] \in { "previewPersist", "verdictPersist", "rejectPersist",
                         "finalPersist", "finalHistory" }
       \/ "store" \in Faults /\ pc[r] \in { "commitStore", "editPersist", "replaceStore",
                                            "restoreStore" }
       \/ "snapshot" \in Faults /\ pc[r] \in { "snapPersist", "confirmDelete" }
    /\ Finish(r)
    /\ UNCHANGED << surface, session, durable, plan, installed, told >>

-----------------------------------------------------------------------------
(* Transactions *)

NewRecord(t, c) ==
    /\ t \notin used
    /\ used' = used \cup {t}
    /\ parent' = [parent EXCEPT ![t] = design]
    /\ candidate' = [candidate EXCEPT ![t] = c]
    /\ state' = [state EXCEPT ![t] = "previewed"]
    /\ passed' = [passed EXCEPT ![t] = FALSE]
    /\ UNCHANGED << design, results, history, snaps >>

tool_design_transaction_preview(r, t, c) ==
    /\ Start(r, "previewPersist", t, None)
    /\ NewRecord(t, c)
    /\ UNCHANGED << surface, durable, installed, told >>

PersistRecord(t) ==
    /\ dState' = [dState EXCEPT ![t] = state[t]]
    /\ dPassed' = [dPassed EXCEPT ![t] = passed[t]]
    /\ UNCHANGED << dDesign, dHistory, dSnaps >>

\* _persist_transaction as the last write of a preview or a validation.
PersistAndReturn(r) ==
    LET t == key[r] IN
    /\ pc[r] \in { "previewPersist", "verdictPersist" }
    /\ PersistRecord(t)
    /\ Ack(t, state[t])
    /\ Finish(r)
    /\ UNCHANGED << surface, session, plan, installed, kept >>

CanValidate(t) == state[t] \in { "previewed", "validated" }

tool_design_transaction_validate(r, t) ==
    /\ CanValidate(t)
    /\ Start(r, "erc", t, None)
    /\ UNCHANGED << surface, session, durable, plan, installed, told >>

\* runner.run(candidate) has returned; record["validation"] is assigned first.
RunErc(r) ==
    LET t == key[r] IN
    /\ pc[r] = "erc"
    /\ passed' = [passed EXCEPT ![t] = candidate[t] \in Sound]
    /\ Goto(r, "verdict")
    /\ UNCHANGED << surface, design, results, state, history, snaps, durable, plan, installed, told >>

SetVerdict(r) ==
    LET t == key[r] IN
    /\ pc[r] = "verdict"
    /\ state' = [state EXCEPT ![t] = IF candidate[t] \in Sound THEN "validated" ELSE "rejected"]
    /\ Goto(r, "verdictPersist")
    /\ UNCHANGED << surface, design, results, passed, history, snaps, durable, plan, installed, told >>

\* Mutant: a preview may be committed without validation.
CanCommitMutant(t) == CanValidate(t)

CanCommit(t) == state[t] = "validated" /\ passed[t]

\* Mutant: the parent hash is not compared.
tool_design_transaction_commitMutant(r, t) ==
    /\ CanCommit(t)
    /\ Start(r, "commitStore", t, candidate[t])
    /\ UNCHANGED << surface, session, durable, plan, installed, told >>

\* The caller gave a non-empty approval_id.
tool_design_transaction_commit(r, t) ==
    /\ CanCommit(t)
    /\ IF design = parent[t]
       THEN /\ Start(r, "commitStore", t, candidate[t])
            /\ UNCHANGED state
       ELSE /\ Start(r, "rejectPersist", t, None)
            /\ state' = [state EXCEPT ![t] = "rejected"]
    /\ UNCHANGED << surface, design, results, passed, history, snaps, durable, plan, installed, told >>

\* The stale transaction was rejected; the call ends with ValueError.
PersistRejection(r) ==
    /\ pc[r] = "rejectPersist"
    /\ PersistRecord(key[r])
    /\ Finish(r)
    /\ UNCHANGED << surface, session, plan, installed, told >>

\* commit_design: the durable head first ...
StoreCandidate(r) ==
    LET t == key[r] IN
    /\ pc[r] = "commitStore"
    /\ dDesign' = val[r]
    /\ installed' = installed \cup {t}
    /\ Goto(r, "commitMemory")
    /\ UNCHANGED << surface, session, dState, dPassed, dHistory, dSnaps, plan, told >>

\* ... then the mapping in memory.
SetCandidate(r) ==
    /\ pc[r] = "commitMemory"
    /\ design' = val[r]
    /\ Goto(r, "commitRecord")
    /\ UNCHANGED << surface, results, state, passed, history, snaps, durable, plan, installed, told >>

Conclude(t, s) ==
    /\ state' = [state EXCEPT ![t] = s]
    /\ history' = history \cup { << t, s >> }

RecordCommit(r) ==
    LET t == key[r] IN
    /\ pc[r] = "commitRecord"
    /\ Conclude(t, "committed")
    /\ pc' = [pc EXCEPT ![r] = "finalPersist"]
    /\ val' = [val EXCEPT ![r] = "committed"]
    /\ UNCHANGED << key, budget >>
    /\ UNCHANGED << surface, design, results, passed, snaps, durable, plan, installed, told >>

CanRollBack(t) == state[t] \notin { "none", "committed" }

tool_design_transaction_rollback(r, t) ==
    /\ CanRollBack(t)
    /\ Start(r, "finalPersist", t, "rolled_back")
    /\ Conclude(t, "rolled_back")
    /\ UNCHANGED << surface, design, results, passed, snaps, durable, plan, installed, told >>

\* Mutant: only the history entry is written.
PersistFinalMutant(r) ==
    /\ pc[r] = "finalPersist"
    /\ Goto(r, "finalHistory")
    /\ UNCHANGED << surface, session, durable, plan, installed, told >>

PersistFinal(r) ==
    /\ pc[r] = "finalPersist"
    /\ PersistRecord(key[r])
    /\ Goto(r, "finalHistory")
    /\ UNCHANGED << surface, session, plan, installed, told >>

\* _persist_transaction_history writes the public record the call took.
PersistHistory(r) ==
    LET t == key[r] IN
    /\ pc[r] = "finalHistory"
    /\ dHistory' = [dHistory EXCEPT ![t] = val[r]]
    /\ Ack(t, val[r])
    /\ Finish(r)
    /\ UNCHANGED << surface, session, dDesign, dState, dPassed, dSnaps, plan, installed, kept >>

-----------------------------------------------------------------------------
(* Edits outside transactions, and snapshots *)

\* tool_board_update, tool_component_add and tool_component_remove change the
\* design in memory and then persist whatever the mapping holds.
EditInPlace(r, c) ==
    /\ c # design
    /\ Start(r, "editPersist", None, None)
    /\ design' = c
    /\ UNCHANGED << surface, results, state, passed, history, snaps, durable, plan, installed, told >>

PersistEdit(r) ==
    /\ pc[r] = "editPersist"
    /\ dDesign' = design
    /\ Finish(r)
    /\ UNCHANGED << surface, session, dState, dPassed, dHistory, dSnaps, plan, installed, told >>

\* tool_design_parse_str and tool_design_parse_file.
ReplaceDesign(r, c) ==
    /\ Start(r, "replaceStore", None, << c, results >>)
    /\ UNCHANGED << surface, session, durable, plan, installed, told >>

\* tool_erc_run and its like leave results for the design they read.
CheckDesign ==
    /\ results' = design
    /\ UNCHANGED << surface, design, state, passed, history, snaps, durable, plan, calls, installed, told >>

tool_design_snapshot(r, l) ==
    /\ Start(r, "snapPersist", l, << design, results >>)
    /\ snaps' = [snaps EXCEPT ![l] = << design, results >>]
    /\ UNCHANGED << surface, design, results, state, passed, history, durable, plan, installed, told >>

PersistSnapshot(r) ==
    LET l == key[r] IN
    /\ pc[r] = "snapPersist"
    /\ dSnaps' = [dSnaps EXCEPT ![l] = val[r]]
    /\ kept' = [kept EXCEPT ![l] = val[r]]
    /\ Finish(r)
    /\ UNCHANGED << surface, session, dDesign, dState, dPassed, dHistory, plan, installed, acked >>

tool_design_rollback(r, l) ==
    /\ snaps[l] # None
    /\ Start(r, "restoreStore", l, snaps[l])
    /\ UNCHANGED << surface, session, durable, plan, installed, told >>

\* commit_design again, of a restored snapshot or a parsed design.
StoreOther(r) ==
    /\ pc[r] \in { "replaceStore", "restoreStore" }
    /\ dDesign' = val[r][1]
    /\ Goto(r, IF pc[r] = "replaceStore" THEN "replaceMemory" ELSE "restoreMemory")
    /\ UNCHANGED << surface, session, dState, dPassed, dHistory, dSnaps, plan, installed, told >>

SetOther(r) ==
    /\ pc[r] \in { "replaceMemory", "restoreMemory" }
    /\ design' = val[r][1]
    /\ results' = IF pc[r] = "restoreMemory" THEN val[r][2] ELSE results
    /\ Finish(r)
    /\ UNCHANGED << surface, state, passed, history, snaps, durable, plan, installed, told >>

Without(f, ls) == [l \in Labels |-> IF l \in ls THEN None ELSE f[l]]
Chosen(l) == IF l = None THEN Labels ELSE {l}

\* One label has to exist; without a label every snapshot of the design goes.
tool_design_commit(r, l) ==
    /\ l # None => snaps[l] # None
    /\ Start(r, "confirmDelete", l, None)
    /\ snaps' = Without(snaps, Chosen(l))
    /\ kept' = Without(kept, Chosen(l))
    /\ UNCHANGED << surface, design, results, state, passed, history, durable, plan, installed, acked >>

DeleteSnapshots(r) ==
    /\ pc[r] = "confirmDelete"
    /\ dSnaps' = Without(dSnaps, Chosen(key[r]))
    /\ Finish(r)
    /\ UNCHANGED << surface, session, dDesign, dState, dPassed, dHistory, plan, installed, told >>

-----------------------------------------------------------------------------
(* The same tools in an isolated worker: _get_state_store answers None, the *)
(* worker's session replaces the parent's, and only designs become durable. *)
(* A tool that raises leaves everything as it was.                          *)

Isolated == surface = "mcp" /\ UNCHANGED << surface, dState, dPassed, dHistory, dSnaps, calls >>

IsolatedPreview(t, c) ==
    /\ Isolated
    /\ NewRecord(t, c)
    /\ Ack(t, "previewed")
    /\ UNCHANGED << dDesign, installed, kept >>

IsolatedValidate(t) ==
    /\ Isolated
    /\ CanValidate(t)
    /\ passed' = [passed EXCEPT ![t] = candidate[t] \in Sound]
    /\ state' = [state EXCEPT ![t] = IF candidate[t] \in Sound THEN "validated" ELSE "rejected"]
    /\ Ack(t, state'[t])
    /\ UNCHANGED << design, results, history, snaps, dDesign, plan, installed, kept >>

IsolatedCommit(t) ==
    /\ Isolated
    /\ CanCommit(t) /\ design = parent[t]
    /\ design' = candidate[t] /\ dDesign' = candidate[t]
    /\ installed' = installed \cup {t}
    /\ Conclude(t, "committed")
    /\ Ack(t, "committed")
    /\ UNCHANGED << results, passed, snaps, plan, kept >>

IsolatedRollback(t) ==
    /\ Isolated
    /\ CanRollBack(t)
    /\ Conclude(t, "rolled_back")
    /\ Ack(t, "rolled_back")
    /\ UNCHANGED << design, results, passed, snaps, dDesign, plan, installed, kept >>

\* An edit, a parsed design or a restored snapshot.
IsolatedChange(c, a) ==
    /\ Isolated
    /\ design' = c /\ dDesign' = c
    /\ results' = a
    /\ UNCHANGED << state, passed, history, snaps, plan, installed, told >>

IsolatedSnapshot(l) ==
    /\ Isolated
    /\ snaps' = [snaps EXCEPT ![l] = << design, results >>]
    /\ kept' = [kept EXCEPT ![l] = << design, results >>]
    /\ UNCHANGED << design, results, state, passed, history, dDesign, plan, installed, acked >>

IsolatedConfirm(l) ==
    /\ Isolated
    /\ l # None => snaps[l] # None
    /\ snaps' = Without(snaps, Chosen(l))
    /\ kept' = Without(kept, Chosen(l))
    /\ UNCHANGED << design, results, state, passed, history, dDesign, plan, installed, acked >>

-----------------------------------------------------------------------------
\* The server is killed and started again; _hydrate_persistent_session and
\* make_design_mapping rebuild the session from the durable records.
Restart ==
    /\ design' = dDesign /\ results' = None
    /\ state' = dState /\ passed' = dPassed
    /\ history' = { << t, dHistory[t] >> : t \in { u \in Txs : dHistory[u] # "none" } }
    /\ snaps' = dSnaps
    /\ pc' = [r \in Requests |-> "idle"]
    /\ key' = [r \in Requests |-> None]
    /\ val' = [r \in Requests |-> None]
    /\ UNCHANGED << surface, durable, plan, budget, installed, told >>

DirectStep(r) ==
    \/ \E t \in Txs : \/ \E c \in Contents : tool_design_transaction_preview(r, t, c)
                     \/ tool_design_transaction_validate(r, t)
                     \/ tool_design_transaction_commit(r, t)
                     \/ tool_design_transaction_rollback(r, t)
    \/ \E c \in Contents : EditInPlace(r, c) \/ ReplaceDesign(r, c)
    \/ \E l \in Labels : tool_design_snapshot(r, l) \/ tool_design_rollback(r, l)
    \/ \E l \in Labels \cup {None} : tool_design_commit(r, l)
    \/ PersistAndReturn(r) \/ RunErc(r) \/ SetVerdict(r) \/ PersistRejection(r)
    \/ StoreCandidate(r) \/ SetCandidate(r) \/ RecordCommit(r)
    \/ PersistFinal(r) \/ PersistHistory(r)
    \/ PersistEdit(r) \/ PersistSnapshot(r) \/ StoreOther(r) \/ SetOther(r)
    \/ DeleteSnapshots(r) \/ Raise(r)

IsolatedStep ==
    \/ \E t \in Txs : \/ \E c \in Contents : IsolatedPreview(t, c)
                     \/ IsolatedValidate(t) \/ IsolatedCommit(t) \/ IsolatedRollback(t)
    \/ \E c \in Contents : IsolatedChange(c, results)
    \/ \E l \in Labels : \/ snaps[l] # None /\ IsolatedChange(snaps[l][1], snaps[l][2])
                        \/ IsolatedSnapshot(l)
    \/ \E l \in Labels \cup {None} : IsolatedConfirm(l)

(* The history variables, which no action reads.                            *)

WriteSteps == { "commitStore", "commitMemory", "editPersist", "replaceStore", "replaceMemory",
                "restoreStore", "restoreMemory" }

Touches(r) == IF pc[r] = "confirmDelete" THEN Chosen(key[r]) ELSE {key[r]} \ {None}

Contention ==
    { k \in Txs \cup Labels : \E r, q \in Requests : r # q /\ k \in Touches(r) \cap Touches(q) }

Crossing ==
    \E r, q \in Requests :
        r # q /\ pc[r] \in WriteSteps /\ pc[q] \in WriteSteps \cup { "previewPersist" }

\* The candidate is stored and the durable record does not say so yet.
Unrecorded(r) ==
    \/ pc[r] \in { "commitMemory", "commitRecord" }
    \/ pc[r] = "finalPersist" /\ val[r] = "committed"

Remember ==
    /\ cut' = cut \cup { key[r] : r \in { q \in Requests : Unrecorded(q) /\ pc'[q] = "idle" } }
    /\ contended' = contended \cup Contention'
    /\ crossed' = (crossed \/ Crossing')

Step == (\E r \in Requests : DirectStep(r)) \/ IsolatedStep \/ CheckDesign \/ Restart

Next == Step /\ Remember

Spec == Init /\ [][Next]_vars

-----------------------------------------------------------------------------
(* Properties *)

\* An install is visible from the moment the durable head has it: a kill may
\* come before the mapping in memory is set.
Current ==
    IF \E r \in Requests : pc[r] \in { "commitMemory", "replaceMemory", "restoreMemory" }
    THEN dDesign ELSE design

Outcome(t) ==
    IF t \in installed THEN "installed"
    ELSE IF t \notin used THEN "none"
    ELSE IF state[t] \in DroppedStates /\ dState[t] \in DroppedStates THEN "dropped"
    ELSE "open"

Abstract == INSTANCE CompareAndSet WITH
    value <- Current,
    outcome <- [t \in Txs |-> Outcome(t)]

\* Unless two calls write the design at once or two calls work on the same
\* transaction, and whatever else overlaps, the commit (a check of the parent
\* hash, a durable store, an assignment and two record writes, any of which
\* may raise, and a kill between any two) implements one compare-and-set of
\* the primary design by a candidate that passed its checks; a dropped
\* transaction stays dropped.
CommitIsCompareAndSet ==
    /\ Abstract!Init
    /\ [][crossed' \/ contended' \cap Txs # {} \/ Abstract!Next]_(Abstract!vars)

Rank == [none |-> 0, previewed |-> 1, validated |-> 2, rejected |-> 2,
         committed |-> 3, rolled_back |-> 3]

\* What a call on the SDK or REST surface returned is on disk, so no restart
\* takes an answer back: neither a transaction's final state and its history
\* entry nor a snapshot the caller has not confirmed away, as long as no other
\* call worked on the same transaction or snapshot meanwhile.
AnswersAreDurable ==
    surface = "direct" =>
        /\ \A t \in Txs \ contended :
            /\ Rank[dState[t]] >= Rank[acked[t]]
            /\ Rank[acked[t]] = 3 => dState[t] = acked[t] /\ dHistory[t] = acked[t]
        /\ \A l \in Labels \ contended : kept[l] # None => dSnaps[l] = kept[l]

\* The record of a transaction and the design's past agree.  Whatever calls
\* overlap, only an installed candidate is recorded as committed, in memory or
\* on disk, and only one that passed its checks is installed.  While no two
\* calls overlap on t, the history entry repeats the durable record, and an
\* installed candidate is recorded as committed and never as rolled back or
\* rejected, unless its commit ended between the store and the record.
RecordsAreHonest ==
    \A t \in Txs :
        /\ "committed" \in { state[t], dState[t] } => t \in installed
        /\ t \in installed => candidate[t] \in Sound
        /\ t \notin contended =>
              /\ dHistory[t] # "none" => dHistory[t] = dState[t]
              /\ t \in installed \ cut =>
                    /\ { state[t], dState[t] } \cap { "rejected", "rolled_back" } = {}
                    /\ surface = "direct" =>
                          \/ state[t] = "committed"
                          \/ \E r \in Requests : key[r] = t /\ Unrecorded(r)

\* docs/strategy/transaction-runtime.md, "The parent-state hash check prevents
\* stale previews from overwriting a primary design that changed after preview":
\* a candidate is stored only while the primary design is its parent.
StaleNeverInstalled ==
    [][\A t \in installed' \ installed : design = parent[t]]_vars

\* The same document of rolled_back, "The candidate was rejected without mutating
\* the primary state": a transaction that was installed is never recorded so.
RolledBackIsUnapplied ==
    \A t \in installed : state[t] # "rolled_back"
=============================================================================
