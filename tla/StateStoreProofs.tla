-------------------------- MODULE StateStoreProofs --------------------------
(***************************************************************************)
(* Proofs about StateStore for any number of processes, sessions, designs  *)
(* and legacy files.  Every step does one of five things to the tables     *)
(* (TableStep); the invariants of the tables are shown for each of them.   *)
(***************************************************************************)
EXTENDS StateStore, TLAPS

Ops == {Idle} \cup NamedOps \cup DesignOps \cup WriteOps \cup CommitOps
         \cup RefreshOps

LEMMA OpSession ==
    ASSUME NEW o \in Ops, o.kind # "none"
    PROVE  o.session \in Sessions
BY DEF Ops, Idle, NamedOps, DesignOps, WriteOps, CommitOps, RefreshOps

LEMMA OpName ==
    ASSUME NEW o \in Ops, o.kind \in {"snapshot", "drop"}
    PROVE  o.session \in Sessions /\ o.name \in Names
BY DEF Ops, Idle, NamedOps, DesignOps, WriteOps, CommitOps, RefreshOps

LEMMA OpSaved ==
    ASSUME NEW o \in Ops, o.kind \in {"event", "restore"}
    PROVE  o.session \in Sessions /\ o.saved \in Designs
BY DEF Ops, Idle, NamedOps, DesignOps, WriteOps, CommitOps, RefreshOps

LEMMA OpWrite ==
    ASSUME NEW o \in Ops, o.kind \in {"assign", "write"}
    PROVE  o.session \in Sessions /\ o.name \in Names /\ o.content \in Contents
BY DEF Ops, Idle, NamedOps, DesignOps, WriteOps, CommitOps, RefreshOps

LEMMA OpRefresh ==
    ASSUME NEW o \in Ops, o.kind \in {"refresh", "restored"}
    PROVE  o.session \in Sessions /\ o.saved \in Designs /\ o.designs \in Designs
BY DEF Ops, Idle, NamedOps, DesignOps, WriteOps, CommitOps, RefreshOps

LEMMA LegacyKey ==
    ASSUME NEW k \in Legacy
    PROVE  k[1] \in Sessions /\ k[2] \in Names /\ LegacyOf[k] \in Contents
BY ConstantsAssumption

LEMMA OnlyDesigns ==
    ASSUME NEW n \in Names, NEW c \in Contents
    PROVE  Only(n, c) \in Designs
BY DEF Only, Designs, Maybe

-----------------------------------------------------------------------------
(* What a step may do to the process side.                                 *)

\* A snapshot operation is under way only for a design that is in memory.
SnapshotReady ==
    \A p \in Procs : op[p].kind = "snapshot" =>
        mem[p][op[p].session][op[p].name] # Nothing

ProcType ==
    /\ loaded \in [Procs -> SUBSET Sessions]
    /\ mem \in [Procs -> [Sessions -> Designs]]
    /\ destroyed \in [Procs -> SUBSET Sessions]
    /\ op \in [Procs -> Ops]
    /\ todo \in [Procs -> SUBSET Legacy]
    /\ pending \in [Procs -> Legacy \cup {Nothing}]
    /\ adrift \in [Procs -> SUBSET Sessions]
    /\ dirty \in [Procs -> SUBSET (Sessions \X Names)]
    /\ deleted \in [Procs -> SUBSET Sessions]

\* A transaction that stores designs.
Stores ==
    \E s \in Sessions, designs \in Designs, kept \in SUBSET Names,
       operation \in Operations : StoreDesigns(s, designs, kept, operation)

Deletes == \E s \in Sessions : DeleteSession(s)

Snapshots ==
    /\ \E s \in Sessions, n \in Names, c \in Contents :
          /\ sessions' = sessions \cup {s}
          /\ blobs' = blobs \cup {c}
          /\ snaps' = [snaps EXCEPT ![s][n] = c]
    /\ UNCHANGED << versions, heads, clock >>

Drops ==
    /\ \E s \in Sessions, n \in Names : snaps' = [snaps EXCEPT ![s][n] = Nothing]
    /\ UNCHANGED << sessions, blobs, versions, heads, clock >>

Ensures ==
    /\ \E s \in Sessions : sessions' \in {sessions, sessions \cup {s}}
    /\ UNCHANGED << blobs, versions, heads, snaps, clock >>

TableStep == Stores \/ Deletes \/ Snapshots \/ Drops \/ Ensures \/ UNCHANGED tables

LEMMA StoreOne ==
    ASSUME NEW s \in Sessions, NEW n \in Names, NEW c \in Contents,
           NEW operation \in Operations, StoreDesign(s, n, c, operation)
    PROVE  Stores
<1>1. Only(n, c) \in Designs
  BY OnlyDesigns
<1>2. StoreDesigns(s, Only(n, c), Names, operation)
  BY DEF StoreDesign
<1> QED BY <1>1, <1>2 DEF Stores

LEMMA StoreAll ==
    ASSUME NEW s \in Sessions, NEW designs \in Designs,
           NEW operation \in Operations, ReplaceSessionDesigns(s, designs, operation)
    PROVE  Stores
BY DEF ReplaceSessionDesigns, Stores

\* Every step does one of five things to the tables.
LEMMA NextTables == ProcType /\ SnapshotReady /\ [Next]_vars => TableStep
<1> SUFFICES ASSUME ProcType, SnapshotReady, [Next]_vars PROVE TableStep
  OBVIOUS
<1>1. ASSUME NEW p \in Procs, ImportCheck(p) PROVE TableStep
  BY <1>1 DEF ImportCheck, TableStep
<1>2. ASSUME NEW p \in Procs, ImportStore(p) PROVE TableStep
  <2>1. pending[p] \in Legacy
    BY <1>2 DEF ImportStore, ProcType
  <2>2. "legacy-filesystem-import" \in Operations
    BY DEF Operations
  <2> QED BY <1>2, <2>1, <2>2, LegacyKey, StoreOne DEF ImportStore, TableStep
<1>3. ASSUME NEW p \in Procs, Load(p) \/ Hydrate(p) PROVE TableStep
  BY <1>3 DEF Load, Hydrate, TableStep
<1>4. ASSUME NEW p \in Procs, AppendAudit(p) PROVE TableStep
  <2>1. op[p].session \in Sessions
    BY <1>4, OpSession DEF AppendAudit, ProcType
  <2> QED BY <1>4, <2>1 DEF AppendAudit, TableStep, Ensures
<1>5. ASSUME NEW p \in Procs, UpsertSnapshot(p) PROVE TableStep
  <2>1. op[p].session \in Sessions /\ op[p].name \in Names
    BY <1>5, OpName DEF UpsertSnapshot, ProcType
  <2>2. mem[p][op[p].session][op[p].name] \in Contents
    BY <1>5, <2>1 DEF UpsertSnapshot, ProcType, SnapshotReady, Designs, Maybe
  <2> QED BY <1>5, <2>1, <2>2 DEF UpsertSnapshot, TableStep, Snapshots
<1>6. ASSUME NEW p \in Procs, DropSnapshot(p) PROVE TableStep
  <2>1. op[p].session \in Sessions /\ op[p].name \in Names
    BY <1>6, OpName DEF DropSnapshot, ProcType
  <2> QED BY <1>6, <2>1 DEF DropSnapshot, TableStep, Drops
<1>7. ASSUME NEW p \in Procs, Destroy(p) PROVE TableStep
  <2>1. op[p].session \in Sessions
    BY <1>7, OpSession DEF Destroy, ProcType
  <2> QED BY <1>7, <2>1 DEF Destroy, TableStep, Deletes
<1>8. ASSUME NEW p \in Procs, CommitEvent(p) PROVE TableStep
  <2>1. op[p].session \in Sessions
    BY <1>8, OpSession DEF CommitEvent, ProcType
  <2> QED BY <1>8, <2>1 DEF CommitEvent, TableStep, Ensures
<1>9. ASSUME NEW p \in Procs, WorkerRestore(p) PROVE TableStep
  <2>1. op[p].session \in Sessions /\ op[p].saved \in Designs
    BY <1>9, OpSaved DEF WorkerRestore, ProcType
  <2>2. "worker-state-restore" \in Operations
    BY DEF Operations
  <2> QED BY <1>9, <2>1, <2>2, StoreAll DEF WorkerRestore, TableStep
<1>10. ASSUME NEW p \in Procs, Restart(p) PROVE TableStep
  BY <1>10 DEF Restart, TableStep
<1>11. ASSUME NEW p \in Procs, NEW s \in Sessions,
              BeginLoad(p, s) \/ BeginAudit(p, s) \/ BeginDestroy(p, s)
       PROVE  TableStep
  BY <1>11 DEF BeginLoad, BeginAudit, BeginDestroy, TableStep
<1>12. ASSUME NEW p \in Procs, NEW s \in Sessions, NEW n \in Names,
              BeginSnapshot(p, s, n)
       PROVE  TableStep
  BY <1>12 DEF BeginSnapshot, TableStep
<1>13. ASSUME NEW p \in Procs, NEW s \in Sessions, NEW n \in Names,
              NEW c \in Contents, CommitDesign(p, s, n, c)
       PROVE  TableStep
  <2>1. "tool-commit" \in Operations
    BY DEF Operations
  <2> QED BY <1>13, <2>1, StoreOne DEF CommitDesign, TableStep
<1>14. ASSUME NEW p \in Procs, NEW s \in Sessions, NEW n \in Names,
              NEW c \in Contents, SetItem(p, s, n, c)
       PROVE  TableStep
  BY <1>14 DEF SetItem, TableStep
<1>a. ASSUME NEW p \in Procs, WriteDesign(p) PROVE TableStep
  <2>1. /\ op[p].session \in Sessions /\ op[p].name \in Names
        /\ op[p].content \in Contents
    BY <1>a, OpWrite DEF WriteDesign, ProcType
  <2>2. "mapping-assignment" \in Operations
    BY DEF Operations
  <2> QED BY <1>a, <2>1, <2>2, StoreOne DEF WriteDesign, TableStep
<1>b. ASSUME NEW p \in Procs, AssignDesign(p) \/ CommitRefresh(p) \/ RestoreRefresh(p)
      PROVE  TableStep
  BY <1>b DEF AssignDesign, CommitRefresh, RestoreRefresh, TableStep
<1>15. ASSUME NEW p \in Procs, NEW s \in Sessions, NEW n \in Names,
              NEW c \in Contents, WorkerCommit(p, s, n, c)
       PROVE  TableStep
  <2>1. "worker-commit" \in Operations
    BY DEF Operations
  <2>2. [mem[p][s] EXCEPT ![n] = c] \in Designs
    BY DEF ProcType, Designs, Maybe
  <2> QED BY <1>15, <2>1, <2>2, StoreAll DEF WorkerCommit, TableStep
<1>16. CASE UNCHANGED vars
  BY <1>16 DEF vars, tables, TableStep
<1> QED BY <1>1, <1>2, <1>3, <1>4, <1>5, <1>6, <1>7, <1>8, <1>9, <1>10, <1>11,
           <1>12, <1>13, <1>14, <1>15, <1>16, <1>a, <1>b DEF Next

-----------------------------------------------------------------------------
(* The types of the tables and the numbering of versions.                  *)

TableType ==
    /\ sessions \subseteq Sessions
    /\ blobs \subseteq Contents
    /\ versions \in [Sessions -> [Names -> SUBSET Versions]]
    /\ heads \in [Sessions -> [Names -> 0..MaxStamp]]
    /\ snaps \in [Sessions -> Designs]
    /\ clock \in 0..MaxStamp

\* The clock is ahead of every version, and a version of its parent.
Numbered ==
    \A s \in Sessions, n \in Names :
        \A v \in versions[s][n] : v.stamp <= clock /\ v.parent < v.stamp

TableInv == TableType /\ Numbered /\ ForeignKeysHold /\ LineageLinear

LEMMA SetSnapType ==
    ASSUME TableType, NEW s \in Sessions, NEW n \in Names, NEW c \in Maybe
    PROVE  [snaps EXCEPT ![s][n] = c] \in [Sessions -> Designs]
<1>1. [snaps[s] EXCEPT ![n] = c] \in Designs
  BY DEF TableType, Designs
<1> QED BY <1>1 DEF TableType

\* The row a storing transaction appends for one design.
NewRow(s, designs, n, operation) ==
    [stamp |-> clock + 1, content |-> designs[n], parent |-> heads[s][n],
     operation |-> operation]

\* The transaction appends a row to design n of session t and moves its head.
RowAppended(s, designs, operation, t, n) ==
    /\ t = s /\ designs[n] \in Contents
    /\ versions'[t][n] = versions[t][n] \cup {NewRow(s, designs, n, operation)}
    /\ NewRow(s, designs, n, operation) \in Versions
    /\ heads'[t][n] = clock + 1

\* The transaction keeps the rows of design n and keeps or deletes its head.
RowsKept(t, n) ==
    versions'[t][n] = versions[t][n] /\ heads'[t][n] \in {heads[t][n], 0}

\* What a storing transaction leaves in the rows of one design.
LEMMA StoredRows ==
    ASSUME TableType, NEW s \in Sessions, NEW designs \in Designs,
           NEW kept \in SUBSET Names, NEW operation \in Operations,
           StoreDesigns(s, designs, kept, operation), NEW t \in Sessions, NEW n \in Names
    PROVE  RowAppended(s, designs, operation, t, n) \/ RowsKept(t, n)
<1> USE ConstantsAssumption
<1>1. clock + 1 \in Stamps /\ heads[s][n] \in 0..MaxStamp
  BY DEF StoreDesigns, TableType, Stamps
<1>2. CASE t = s /\ designs[n] # Nothing
  <2>1. designs[n] \in Contents
    BY <1>2 DEF Designs, Maybe
  <2>2. [stamp |-> clock + 1, content |-> designs[n],
         parent |-> heads[s][n], operation |-> operation] \in Versions
    BY <1>1, <2>1 DEF Versions
  <2>3. versions'[t][n] = versions[t][n] \cup
          {[stamp |-> clock + 1, content |-> designs[n],
            parent |-> heads[s][n], operation |-> operation]}
    BY <1>2 DEF StoreDesigns, Given, TableType
  <2>4. heads'[t][n] = clock + 1
    BY <1>2 DEF StoreDesigns, Given, TableType
  <2> QED BY <1>2, <2>1, <2>2, <2>3, <2>4 DEF RowAppended, NewRow
<1>3. CASE t = s /\ designs[n] = Nothing
  BY <1>3 DEF StoreDesigns, Given, TableType, RowsKept
<1>4. CASE t # s
  BY <1>4 DEF StoreDesigns, TableType, RowsKept
<1> QED BY <1>2, <1>3, <1>4

LEMMA StoresType ==
    ASSUME TableType, Stores PROVE TableType'
<1> USE ConstantsAssumption
<1> PICK s \in Sessions, designs \in Designs, kept \in SUBSET Names,
         operation \in Operations : StoreDesigns(s, designs, kept, operation)
  BY DEF Stores
<1>1. sessions' \subseteq Sessions /\ clock' \in 0..MaxStamp /\ snaps' = snaps
  BY DEF StoreDesigns, TableType
<1>2. blobs' \subseteq Contents
  BY DEF StoreDesigns, TableType, Given, Designs, Maybe
<1>3. versions' \in [Sessions -> [Names -> SUBSET Versions]]
  <2> DEFINE new == [n \in Names |-> IF n \in Given(designs)
            THEN versions[s][n] \cup
                   {[stamp |-> clock + 1, content |-> designs[n],
                     parent |-> heads[s][n], operation |-> operation]}
            ELSE versions[s][n]]
  <2>1. versions' = [versions EXCEPT ![s] = new]
    BY DEF StoreDesigns
  <2>2. ASSUME NEW n \in Names PROVE new[n] \in SUBSET Versions
    <3>1. versions'[s][n] = new[n]
      BY <2>1 DEF TableType
    <3>2. versions[s][n] \in SUBSET Versions
      BY DEF TableType
    <3>3. \/ RowAppended(s, designs, operation, s, n)
          \/ RowsKept(s, n)
      BY StoredRows
    <3> QED BY <3>1, <3>2, <3>3 DEF RowAppended, RowsKept
  <2>3. new \in [Names -> SUBSET Versions]
    BY <2>2
  <2> QED BY <2>1, <2>3 DEF TableType
<1>4. heads' \in [Sessions -> [Names -> 0..MaxStamp]]
  <2> DEFINE new == [n \in Names |-> IF n \in Given(designs) THEN clock + 1
                                    ELSE IF n \in kept THEN heads[s][n] ELSE 0]
  <2>1. heads' = [heads EXCEPT ![s] = new]
    BY DEF StoreDesigns
  <2>2. new \in [Names -> 0..MaxStamp]
    BY DEF StoreDesigns, TableType
  <2> QED BY <2>1, <2>2 DEF TableType
<1> QED BY <1>1, <1>2, <1>3, <1>4 DEF TableType

LEMMA TablesType == TableType /\ TableStep => TableType'
<1> SUFFICES ASSUME TableType, TableStep PROVE TableType'
  OBVIOUS
<1>1. CASE Stores
  BY <1>1, StoresType
<1>2. CASE Deletes
  <2> PICK s \in Sessions : DeleteSession(s)
    BY <1>2 DEF Deletes
  <2>1. NoDesigns \in Designs
    BY DEF NoDesigns, Designs, Maybe
  <2>2. snaps' \in [Sessions -> Designs]
    BY <2>1 DEF DeleteSession, TableType
  <2>3. [n \in Names |-> {}] \in [Names -> SUBSET Versions]
    OBVIOUS
  <2>4. versions' \in [Sessions -> [Names -> SUBSET Versions]]
    BY <2>3 DEF DeleteSession, TableType
  <2>5. heads' \in [Sessions -> [Names -> 0..MaxStamp]]
    BY ConstantsAssumption DEF DeleteSession, TableType
  <2> QED BY <2>2, <2>4, <2>5 DEF DeleteSession, TableType, ReferencedOutside
<1>3. CASE Snapshots
  <2> PICK s \in Sessions, n \in Names, c \in Contents :
          /\ sessions' = sessions \cup {s}
          /\ blobs' = blobs \cup {c}
          /\ snaps' = [snaps EXCEPT ![s][n] = c]
    BY <1>3 DEF Snapshots
  <2>1. snaps' \in [Sessions -> Designs]
    BY SetSnapType DEF Maybe
  <2> QED BY <1>3, <2>1 DEF Snapshots, TableType
<1>4. CASE Drops
  <2>1. snaps' \in [Sessions -> Designs]
    BY <1>4, SetSnapType DEF Drops, Maybe
  <2> QED BY <1>4, <2>1 DEF Drops, TableType
<1>5. CASE Ensures
  BY <1>5 DEF Ensures, TableType
<1>6. CASE UNCHANGED tables
  BY <1>6 DEF tables, TableType
<1> QED BY <1>1, <1>2, <1>3, <1>4, <1>5, <1>6 DEF TableStep

-----------------------------------------------------------------------------
(* The invariants of the tables.                                           *)

LEMMA StoresNumbered ==
    ASSUME TableInv, Stores PROVE Numbered'
<1> USE ConstantsAssumption
<1> PICK s \in Sessions, designs \in Designs, kept \in SUBSET Names,
         operation \in Operations : StoreDesigns(s, designs, kept, operation)
  BY DEF Stores
<1>1. clock' = clock + 1 /\ clock \in Nat
  BY DEF StoreDesigns, TableInv, TableType
<1> SUFFICES ASSUME NEW t \in Sessions, NEW n \in Names, NEW v \in versions'[t][n]
             PROVE  v.stamp <= clock' /\ v.parent < v.stamp
  BY DEF Numbered
<1>2. heads[s][n] \in Nat /\ heads[s][n] <= clock
  <2>1. heads[s][n] \in 0..MaxStamp
    BY DEF TableInv, TableType
  <2>2. CASE heads[s][n] # 0
    <3>1. PICK u \in versions[s][n] : u.stamp = heads[s][n]
      BY <2>2 DEF TableInv, ForeignKeysHold
    <3> QED BY <2>1, <3>1 DEF TableInv, Numbered
  <2> QED BY <1>1, <2>1, <2>2
<1>3. CASE v \in versions[t][n]
  <2>1. v.stamp <= clock /\ v.parent < v.stamp
    BY <1>3 DEF TableInv, Numbered
  <2>2. v.stamp \in Nat
    BY <1>3 DEF TableInv, TableType, Versions, Stamps
  <2> QED BY <1>1, <2>1, <2>2
<1>4. CASE v = NewRow(s, designs, n, operation)
  BY <1>1, <1>2, <1>4 DEF NewRow
<1>5. TableType
  BY DEF TableInv
<1>6. RowAppended(s, designs, operation, t, n) \/ RowsKept(t, n)
  BY <1>5, StoredRows
<1> QED BY <1>3, <1>4, <1>6 DEF RowAppended, RowsKept

LEMMA StoresKeys ==
    ASSUME TableInv, Stores PROVE ForeignKeysHold'
<1> PICK s \in Sessions, designs \in Designs, kept \in SUBSET Names,
         operation \in Operations : StoreDesigns(s, designs, kept, operation)
  BY DEF Stores
<1>1. /\ sessions' = sessions \cup {s} /\ snaps' = snaps
      /\ blobs' = blobs \cup { designs[n] : n \in Given(designs) }
  BY DEF StoreDesigns
<1> SUFFICES ASSUME NEW t \in Sessions, NEW n \in Names
    PROVE /\ heads'[t][n] # 0 => \E v \in versions'[t][n] : v.stamp = heads'[t][n]
          /\ \A v \in versions'[t][n] :
                /\ t \in sessions' /\ v.content \in blobs'
                /\ v.parent # 0 => \E u \in versions'[t][n] : u.stamp = v.parent
          /\ snaps'[t][n] # Nothing => t \in sessions' /\ snaps'[t][n] \in blobs'
  BY DEF ForeignKeysHold
<1>2. /\ heads[t][n] # 0 => \E v \in versions[t][n] : v.stamp = heads[t][n]
      /\ \A v \in versions[t][n] :
            /\ t \in sessions /\ v.content \in blobs
            /\ v.parent # 0 => \E u \in versions[t][n] : u.stamp = v.parent
      /\ snaps[t][n] # Nothing => t \in sessions /\ snaps[t][n] \in blobs
  BY DEF TableInv, ForeignKeysHold
<1>3. CASE RowsKept(t, n)
  BY <1>1, <1>2, <1>3 DEF RowsKept
<1>4. CASE RowAppended(s, designs, operation, t, n)
  <2>1. designs[n] \in blobs'
    <3>1. n \in Given(designs)
      BY <1>4, ConstantsAssumption DEF Given, RowAppended
    <3> QED BY <1>1, <3>1
  <2>2. t \in sessions'
    BY <1>1, <1>4 DEF RowAppended
  <2>3. \E v \in versions'[t][n] : v.stamp = heads'[t][n]
    <3>1. /\ NewRow(s, designs, n, operation) \in versions'[t][n]
          /\ NewRow(s, designs, n, operation).stamp = heads'[t][n]
      BY <1>4 DEF RowAppended, NewRow
    <3> QED BY <3>1
  <2>4. ASSUME NEW v \in versions'[t][n]
        PROVE  /\ v.content \in blobs'
               /\ v.parent # 0 => \E u \in versions'[t][n] : u.stamp = v.parent
    <3>1. CASE v \in versions[t][n]
      BY <1>1, <1>2, <1>4, <3>1 DEF RowAppended
    <3>2. CASE v.content = designs[n] /\ v.parent = heads[t][n]
      BY <1>2, <1>4, <2>1, <3>2 DEF RowAppended
    <3> QED BY <1>4, <3>1, <3>2 DEF RowAppended, NewRow
  <2> QED BY <1>1, <1>2, <2>2, <2>3, <2>4
<1>5. TableType
  BY DEF TableInv
<1>6. RowAppended(s, designs, operation, t, n) \/ RowsKept(t, n)
  BY <1>5, StoredRows
<1> QED BY <1>3, <1>4, <1>6 DEF RowAppended, RowsKept

LEMMA StoresLinear ==
    ASSUME TableInv, Stores PROVE LineageLinear'
<1> USE ConstantsAssumption
<1> PICK s \in Sessions, designs \in Designs, kept \in SUBSET Names,
         operation \in Operations : StoreDesigns(s, designs, kept, operation)
  BY DEF Stores
<1> SUFFICES ASSUME NEW t \in Sessions, NEW n \in Names
    PROVE /\ \A u, v \in versions'[t][n] :
                /\ u.stamp = v.stamp => u = v
                /\ u.parent # 0 /\ u.parent = v.parent => u = v
          /\ heads'[t][n] # 0 =>
                \A v \in versions'[t][n] :
                   v.stamp <= heads'[t][n] /\ v.parent # heads'[t][n]
  BY DEF LineageLinear
<1>1. /\ \A u, v \in versions[t][n] :
            /\ u.stamp = v.stamp => u = v
            /\ u.parent # 0 /\ u.parent = v.parent => u = v
      /\ heads[t][n] # 0 =>
            \A v \in versions[t][n] : v.stamp <= heads[t][n] /\ v.parent # heads[t][n]
  BY DEF TableInv, LineageLinear
<1>2. CASE RowsKept(t, n)
  BY <1>1, <1>2 DEF RowsKept
<1> DEFINE new == NewRow(s, designs, n, operation)
<1>3. CASE /\ t = s /\ versions'[t][n] = versions[t][n] \cup {new}
           /\ heads'[t][n] = clock + 1
  <2>1. clock \in Nat
    BY DEF TableInv, TableType
  <2>2. \A v \in versions[t][n] : /\ v.stamp \in Nat /\ v.parent \in Nat
                                  /\ v.stamp <= clock /\ v.parent < v.stamp
    BY DEF TableInv, TableType, Numbered, Versions, Stamps
  <2>3. new.stamp = clock + 1 /\ new.parent = heads[t][n]
    BY <1>3 DEF NewRow
  <2>4. \A v \in versions[t][n] :
           v.stamp # new.stamp /\ (new.parent # 0 => v.parent # new.parent)
    BY <1>1, <2>1, <2>2, <2>3
  <2>5. heads[t][n] \in Nat /\ heads[t][n] <= clock
    <3>1. heads[t][n] \in Nat
      BY DEF TableInv, TableType
    <3>2. CASE heads[t][n] # 0
      <4>1. PICK u \in versions[t][n] : u.stamp = heads[t][n]
        BY <3>2 DEF TableInv, ForeignKeysHold
      <4> QED BY <2>2, <4>1
    <3> QED BY <2>1, <3>1, <3>2
  <2>6. \A u, v \in versions'[t][n] :
           /\ u.stamp = v.stamp => u = v
           /\ u.parent # 0 /\ u.parent = v.parent => u = v
    BY <1>1, <1>3, <2>4
  <2>7. \A v \in versions'[t][n] : v.stamp <= clock + 1 /\ v.parent # clock + 1
    BY <1>3, <2>1, <2>2, <2>3, <2>5
  <2> QED BY <1>3, <2>6, <2>7
<1>5. TableType
  BY DEF TableInv
<1>6. RowAppended(s, designs, operation, t, n) \/ RowsKept(t, n)
  BY <1>5, StoredRows
<1> QED BY <1>2, <1>3, <1>6 DEF RowAppended, RowsKept

LEMMA TablesInv == TableInv /\ TableStep => TableInv'
<1> SUFFICES ASSUME TableInv, TableStep PROVE TableInv'
  OBVIOUS
<1>0. TableType'
  BY TablesType DEF TableInv
<1>1. CASE Stores
  BY <1>0, <1>1, StoresNumbered, StoresKeys, StoresLinear DEF TableInv
<1>2. CASE Deletes
  <2> PICK s \in Sessions : DeleteSession(s)
    BY <1>2 DEF Deletes
  <2>1. \A n \in Names : versions'[s][n] = {} /\ heads'[s][n] = 0 /\ snaps'[s][n] = Nothing
    BY DEF DeleteSession, NoDesigns, TableInv, TableType
  <2>2. \A t \in Sessions : t # s =>
            versions'[t] = versions[t] /\ heads'[t] = heads[t] /\ snaps'[t] = snaps[t]
    BY DEF DeleteSession, TableInv, TableType
  <2>3. clock' = clock /\ \A t \in sessions : t # s => t \in sessions'
    BY DEF DeleteSession
  <2>4. Numbered'
    BY <2>1, <2>2, <2>3 DEF TableInv, Numbered
  <2>5. LineageLinear'
    BY <2>1, <2>2 DEF TableInv, LineageLinear
  <2>6. \A t \in Sessions, n \in Names : t # s =>
            /\ \A v \in versions[t][n] : v.content \in blobs'
            /\ snaps[t][n] # Nothing => snaps[t][n] \in blobs'
    BY DEF TableInv, ForeignKeysHold, DeleteSession, ReferencedOutside
  <2>7. ForeignKeysHold'
    BY <2>1, <2>2, <2>3, <2>6 DEF TableInv, ForeignKeysHold
  <2> QED BY <1>0, <2>4, <2>5, <2>7 DEF TableInv
<1>3. CASE Snapshots
  <2>1. versions' = versions /\ heads' = heads /\ clock' = clock
    BY <1>3 DEF Snapshots
  <2>2. Numbered' /\ LineageLinear'
    BY <2>1 DEF TableInv, Numbered, LineageLinear
  <2>3. ForeignKeysHold'
    <3> PICK s \in Sessions, n \in Names, c \in Contents :
          /\ sessions' = sessions \cup {s}
          /\ blobs' = blobs \cup {c}
          /\ snaps' = [snaps EXCEPT ![s][n] = c]
      BY <1>3 DEF Snapshots
    <3>1. \A t \in Sessions, m \in Names :
             snaps'[t][m] = IF t = s /\ m = n THEN c ELSE snaps[t][m]
      BY DEF TableInv, TableType, Designs
    <3> QED BY <2>1, <3>1 DEF TableInv, ForeignKeysHold
  <2> QED BY <1>0, <2>2, <2>3 DEF TableInv
<1>4. CASE Drops
  <2>1. /\ versions' = versions /\ heads' = heads /\ clock' = clock
        /\ sessions' = sessions /\ blobs' = blobs
    BY <1>4 DEF Drops
  <2>2. \A t \in Sessions, m \in Names : snaps'[t][m] \in {snaps[t][m], Nothing}
    BY <1>4 DEF Drops, TableInv, TableType, Designs
  <2> QED BY <1>0, <2>1, <2>2 DEF TableInv, Numbered, LineageLinear, ForeignKeysHold
<1>5. CASE Ensures
  <2>1. /\ versions' = versions /\ heads' = heads /\ clock' = clock
        /\ snaps' = snaps /\ blobs' = blobs /\ sessions \subseteq sessions'
    BY <1>5 DEF Ensures
  <2> QED BY <1>0, <2>1 DEF TableInv, Numbered, LineageLinear, ForeignKeysHold
<1>6. CASE UNCHANGED tables
  BY <1>0, <1>6 DEF tables, TableInv, Numbered, LineageLinear, ForeignKeysHold
<1> QED BY <1>1, <1>2, <1>3, <1>4, <1>5, <1>6 DEF TableStep

LEMMA InitTables == Init => TableInv
<1> SUFFICES ASSUME Init PROVE TableInv
  OBVIOUS
<1>1. TableType
  BY ConstantsAssumption DEF Init, TableType, NoDesigns, Designs, Maybe
<1>2. Numbered /\ ForeignKeysHold /\ LineageLinear
  BY DEF Init, Numbered, ForeignKeysHold, LineageLinear, NoDesigns
<1> QED BY <1>1, <1>2 DEF TableInv

-----------------------------------------------------------------------------
(* The types of the process side.                                          *)

ProcInv == ProcType /\ SnapshotReady

LEMMA OpTypes ==
    /\ Idle \in Ops /\ Idle.kind # "snapshot"
    /\ \A s \in Sessions :
          \A k \in {"load", "hydrate", "audit", "destroy"} :
             [kind |-> k, session |-> s] \in Ops
    /\ \A s \in Sessions, n \in Names : \A k \in {"snapshot", "drop"} :
          [kind |-> k, session |-> s, name |-> n] \in Ops
    /\ \A s \in Sessions, d \in Designs : \A k \in {"event", "restore"} :
          [kind |-> k, session |-> s, saved |-> d] \in Ops
    /\ \A s \in Sessions, n \in Names, c \in Contents : \A k \in {"assign", "write"} :
          [kind |-> k, session |-> s, name |-> n, content |-> c] \in Ops
    /\ \A s \in Sessions, d, e \in Designs : \A k \in {"refresh", "restored"} :
          [kind |-> k, session |-> s, saved |-> d, designs |-> e] \in Ops
BY DEF Ops, Idle, NamedOps, DesignOps, WriteOps, CommitOps, RefreshOps

LEMMA LoadedDesigns ==
    ASSUME TableInv, NEW s \in Sessions PROVE LoadDesigns(s) \in Designs
<1> SUFFICES ASSUME NEW n \in Names PROVE HeadContent(s, n) \in Maybe
  BY DEF LoadDesigns, Designs
<1>1. CASE heads[s][n] = 0
  BY <1>1 DEF HeadContent, Maybe
<1>2. CASE heads[s][n] # 0
  <2>1. \E v \in versions[s][n] : v.stamp = heads[s][n]
    BY <1>2 DEF TableInv, ForeignKeysHold
  <2>2. (CHOOSE v \in versions[s][n] : v.stamp = heads[s][n]) \in versions[s][n]
    BY <2>1
  <2>3. \A v \in versions[s][n] : v.content \in Contents
    BY DEF TableInv, TableType, Versions
  <2> QED BY <1>2, <2>2, <2>3 DEF HeadContent, Maybe
<1> QED BY <1>1, <1>2

\* Setting one session's mapping of one process keeps the type of memory.
LEMMA SetMem ==
    ASSUME ProcType, NEW p \in Procs, NEW s \in Sessions, NEW d \in Designs
    PROVE  [mem EXCEPT ![p][s] = d] \in [Procs -> [Sessions -> Designs]]
<1>1. [mem[p] EXCEPT ![s] = d] \in [Sessions -> Designs]
  BY DEF ProcType
<1> QED BY <1>1 DEF ProcType

\* A step of process p leaves the other processes alone: it is enough to look
\* at the operation p has afterwards.
LEMMA ReadyAfter ==
    ASSUME ProcInv, NEW p \in Procs, NEW o \in Ops, op' = [op EXCEPT ![p] = o],
           \A q \in Procs : q # p => mem'[q] = mem[q],
           o.kind = "snapshot" => mem'[p][o.session][o.name] # Nothing
    PROVE  SnapshotReady'
BY DEF ProcInv, ProcType, SnapshotReady

LEMMA ReadySame ==
    ASSUME ProcInv, NEW p \in Procs, op' = op,
           \A q \in Procs : q # p => mem'[q] = mem[q],
           op[p].kind # "snapshot" \/ mem' = mem
    PROVE  SnapshotReady'
BY DEF ProcInv, ProcType, SnapshotReady

LEMMA StepImportCheck ==
    ASSUME ProcInv, NEW p \in Procs, ImportCheck(p) PROVE ProcInv'
<1>1. UNCHANGED << loaded, mem, destroyed, op, adrift, dirty, deleted >>
  BY DEF ImportCheck
<1>2. todo' \in [Procs -> SUBSET Legacy]
  BY DEF ImportCheck, ProcInv, ProcType
<1>3. pending' \in [Procs -> Legacy \cup {Nothing}]
  <2>1. \E k \in Legacy : pending' = pending \/ pending' = [pending EXCEPT ![p] = k]
    BY DEF ImportCheck, ProcInv, ProcType
  <2> QED BY <2>1 DEF ProcInv, ProcType
<1> QED BY <1>1, <1>2, <1>3, ReadySame DEF ProcInv, ProcType

LEMMA StepImportStore ==
    ASSUME ProcInv, NEW p \in Procs, ImportStore(p) PROVE ProcInv'
<1>1. UNCHANGED << loaded, mem, destroyed, op, adrift, dirty, deleted >>
  BY DEF ImportStore
<1>2. todo' \in [Procs -> SUBSET Legacy]
  BY DEF ImportStore, ProcInv, ProcType
<1>3. pending' \in [Procs -> Legacy \cup {Nothing}]
  BY DEF ImportStore, ProcInv, ProcType
<1> QED BY <1>1, <1>2, <1>3, ReadySame DEF ProcInv, ProcType

LEMMA StepLoad ==
    ASSUME TableInv, ProcInv, NEW p \in Procs, Load(p) PROVE ProcInv'
<1> DEFINE s == op[p].session
           o == [kind |-> "hydrate", session |-> s]
<1>1. s \in Sessions
  BY OpSession DEF Load, ProcInv, ProcType
<1>2. mem' = [mem EXCEPT ![p][s] = LoadDesigns(s)] /\ op' = [op EXCEPT ![p] = o]
      /\ todo' = [todo EXCEPT ![p] = Legacy]
      /\ UNCHANGED << loaded, destroyed, pending, adrift, dirty, deleted >>
  BY DEF Load, Construct, Goto
<1>3. mem' \in [Procs -> [Sessions -> Designs]]
  BY <1>1, <1>2, LoadedDesigns, SetMem DEF ProcInv
<1>4. o \in Ops
  BY <1>1, OpTypes
<1>5. SnapshotReady'
  <2>1. \A q \in Procs : q # p => mem'[q] = mem[q]
    BY <1>2 DEF ProcInv, ProcType
  <2> QED BY <1>2, <1>4, <2>1, ReadyAfter
<1> QED BY <1>2, <1>3, <1>4, <1>5 DEF ProcInv, ProcType

\* A step of p that ends its operation and leaves memory alone.
LEMMA StepEnds ==
    ASSUME ProcInv, NEW p \in Procs, op' = [op EXCEPT ![p] = Idle], mem' = mem,
           UNCHANGED << destroyed, todo, pending, adrift, dirty >>,
           loaded' \in [Procs -> SUBSET Sessions], deleted' \in [Procs -> SUBSET Sessions]
    PROVE  ProcInv'
<1>1. Idle \in Ops /\ Idle.kind # "snapshot"
  BY OpTypes
<1>2. SnapshotReady'
  BY <1>1, ReadyAfter
<1> QED BY <1>1, <1>2 DEF ProcInv, ProcType

LEMMA StepEnding ==
    ASSUME ProcInv, NEW p \in Procs,
           Hydrate(p) \/ AppendAudit(p) \/ UpsertSnapshot(p) \/ DropSnapshot(p) \/ Destroy(p)
    PROVE  ProcInv'
<1>1. op' = [op EXCEPT ![p] = Idle] /\ mem' = mem
      /\ UNCHANGED << destroyed, todo, pending, adrift, dirty >>
  BY DEF Hydrate, AppendAudit, UpsertSnapshot, DropSnapshot, Destroy, Goto
<1>2. op[p].session \in Sessions
  BY OpSession DEF ProcInv, ProcType, Hydrate, AppendAudit, UpsertSnapshot,
                   DropSnapshot, Destroy
<1>3. loaded' \in [Procs -> SUBSET Sessions]
  <2>1. loaded' = loaded \/ loaded' = [loaded EXCEPT ![p] = @ \cup {op[p].session}]
    BY DEF Hydrate, AppendAudit, UpsertSnapshot, DropSnapshot, Destroy
  <2> QED BY <1>2, <2>1 DEF ProcInv, ProcType
<1>4. deleted' \in [Procs -> SUBSET Sessions]
  <2>1. deleted' = deleted \/ deleted' = [deleted EXCEPT ![p] = @ \cup {op[p].session}]
    BY DEF Hydrate, AppendAudit, UpsertSnapshot, DropSnapshot, Destroy
  <2> QED BY <1>2, <2>1 DEF ProcInv, ProcType
<1> QED BY <1>1, <1>3, <1>4, StepEnds

LEMMA StepBegin ==
    ASSUME ProcInv, NEW p \in Procs, NEW s \in Sessions,
           BeginLoad(p, s) \/ BeginAudit(p, s)
    PROVE  ProcInv'
<1>1. PICK k \in {"load", "audit"} : op' = [op EXCEPT ![p] = [kind |-> k, session |-> s]]
  BY DEF BeginLoad, BeginAudit, Construct, Goto
<1>2. todo' = [todo EXCEPT ![p] = Legacy]
      /\ UNCHANGED << loaded, mem, destroyed, pending, adrift, dirty, deleted >>
  BY DEF BeginLoad, BeginAudit, Construct
<1>3. [kind |-> k, session |-> s] \in Ops
  BY OpTypes
<1>4. SnapshotReady'
  BY <1>1, <1>2, <1>3, ReadyAfter
<1> QED BY <1>1, <1>2, <1>3, <1>4 DEF ProcInv, ProcType

LEMMA StepBeginSnapshot ==
    ASSUME ProcInv, NEW p \in Procs, NEW s \in Sessions, NEW n \in Names,
           BeginSnapshot(p, s, n)
    PROVE  ProcInv'
<1>1. PICK k \in {"snapshot", "drop"} :
         /\ op' = [op EXCEPT ![p] = [kind |-> k, session |-> s, name |-> n]]
         /\ k = "snapshot" => mem[p][s][n] # Nothing
  BY DEF BeginSnapshot, Construct, Goto
<1>2. todo' = [todo EXCEPT ![p] = Legacy]
      /\ UNCHANGED << loaded, mem, destroyed, pending, adrift, dirty, deleted >>
  BY DEF BeginSnapshot, Construct
<1>3. [kind |-> k, session |-> s, name |-> n] \in Ops
  BY OpTypes
<1>4. SnapshotReady'
  BY <1>1, <1>2, <1>3, ReadyAfter
<1> QED BY <1>1, <1>2, <1>3, <1>4 DEF ProcInv, ProcType

LEMMA StepBeginDestroy ==
    ASSUME ProcInv, NEW p \in Procs, NEW s \in Sessions, BeginDestroy(p, s)
    PROVE  ProcInv'
<1> DEFINE o == [kind |-> "destroy", session |-> s]
<1>1. /\ op' = [op EXCEPT ![p] = o] /\ todo' = [todo EXCEPT ![p] = Legacy]
      /\ mem' = [mem EXCEPT ![p][s] = NoDesigns]
      /\ UNCHANGED << pending, deleted >>
  BY DEF BeginDestroy, Construct, Goto
<1>2. NoDesigns \in Designs
  BY DEF NoDesigns, Designs, Maybe
<1>3. mem' \in [Procs -> [Sessions -> Designs]]
  BY <1>1, <1>2, SetMem DEF ProcInv
<1>4. o \in Ops
  BY OpTypes
<1>5. \A q \in Procs : q # p => mem'[q] = mem[q]
  BY <1>1 DEF ProcInv, ProcType
<1>6. SnapshotReady'
  BY <1>1, <1>4, <1>5, ReadyAfter
<1>7. /\ loaded' \in [Procs -> SUBSET Sessions] /\ destroyed' \in [Procs -> SUBSET Sessions]
      /\ dirty' \in [Procs -> SUBSET (Sessions \X Names)]
      /\ adrift' \in [Procs -> SUBSET Sessions]
  BY DEF BeginDestroy, ProcInv, ProcType
<1> QED BY <1>1, <1>3, <1>4, <1>6, <1>7 DEF ProcInv, ProcType

\* A step of p that leaves it with an operation and with a mapping of s.
LEMMA StepTo ==
    ASSUME ProcInv, NEW p \in Procs, NEW o \in Ops, op' = [op EXCEPT ![p] = o],
           o.kind # "snapshot", NEW s \in Sessions, NEW d \in Designs,
           mem' = [mem EXCEPT ![p][s] = d] \/ mem' = mem,
           UNCHANGED << loaded, destroyed, pending, deleted >>,
           todo' \in {todo, [todo EXCEPT ![p] = Legacy]},
           adrift' \in [Procs -> SUBSET Sessions],
           dirty' \in [Procs -> SUBSET (Sessions \X Names)]
    PROVE  ProcInv'
<1>1. mem' \in [Procs -> [Sessions -> Designs]]
  <2>1. ProcType /\ [mem EXCEPT ![p][s] = d] \in [Procs -> [Sessions -> Designs]]
    BY SetMem DEF ProcInv
  <2> QED BY <2>1 DEF ProcType
<1>2. \A q \in Procs : q # p => mem'[q] = mem[q]
  BY DEF ProcInv, ProcType
<1>3. SnapshotReady'
  BY <1>2, ReadyAfter
<1>4. todo' \in [Procs -> SUBSET Legacy]
  BY DEF ProcInv, ProcType
<1> QED BY <1>1, <1>3, <1>4 DEF ProcInv, ProcType

\* One design of a mapping is set: the mapping as a whole is.
LEMMA SetOne ==
    ASSUME ProcInv, NEW p \in Procs, NEW s \in Sessions, NEW n \in Names, NEW c \in Contents
    PROVE  /\ [mem[p][s] EXCEPT ![n] = c] \in Designs
           /\ [mem EXCEPT ![p][s][n] = c] = [mem EXCEPT ![p][s] = [mem[p][s] EXCEPT ![n] = c]]
BY DEF ProcInv, ProcType, Designs, Maybe

LEMMA StepWrite ==
    ASSUME ProcInv, NEW p \in Procs, NEW s \in Sessions, NEW n \in Names,
           NEW c \in Contents, CommitDesign(p, s, n, c) \/ SetItem(p, s, n, c)
    PROVE  ProcInv'
<1> DEFINE d == [mem[p][s] EXCEPT ![n] = c]
           o1 == [kind |-> "assign", session |-> s, name |-> n, content |-> c]
           o2 == [kind |-> "write", session |-> s, name |-> n, content |-> c]
<1>1. d \in Designs /\ [mem EXCEPT ![p][s][n] = c] = [mem EXCEPT ![p][s] = d]
  BY SetOne
<1>2. Idle \in Ops /\ o1 \in Ops /\ o2 \in Ops
  BY OpTypes
<1>3. /\ mem' = [mem EXCEPT ![p][s] = d] \/ mem' = mem
      /\ UNCHANGED << loaded, destroyed, todo, pending, adrift, dirty, deleted >>
  BY <1>1 DEF CommitDesign, SetItem, Remember
<1>4. PICK o \in {Idle, o1, o2} : op' = [op EXCEPT ![p] = o]
  <2>1. op[p] = Idle => op = [op EXCEPT ![p] = Idle]
    BY DEF ProcInv, ProcType
  <2> QED BY <2>1 DEF CommitDesign, SetItem, Goto
<1>5. o.kind # "snapshot"
  BY DEF Idle
<1>6. adrift' \in [Procs -> SUBSET Sessions] /\ dirty' \in [Procs -> SUBSET (Sessions \X Names)]
  BY <1>3 DEF ProcInv, ProcType
<1> HIDE DEF d, o1, o2
<1> QED BY <1>1, <1>2, <1>3, <1>4, <1>5, <1>6, StepTo

LEMMA StepWritten ==
    ASSUME ProcInv, NEW p \in Procs, AssignDesign(p) \/ WriteDesign(p)
    PROVE  ProcInv'
<1> DEFINE s == op[p].session
           n == op[p].name
           c == op[p].content
           d == [mem[p][s] EXCEPT ![n] = c]
<1>1. s \in Sessions /\ n \in Names /\ c \in Contents
  BY OpWrite DEF AssignDesign, WriteDesign, ProcInv, ProcType
<1>2. d \in Designs /\ [mem EXCEPT ![p][s][n] = c] = [mem EXCEPT ![p][s] = d]
  BY <1>1, SetOne
<1>3. /\ op' = [op EXCEPT ![p] = Idle]
      /\ mem' = [mem EXCEPT ![p][s] = d] \/ mem' = mem
      /\ UNCHANGED << loaded, destroyed, todo, pending, adrift, deleted >>
  BY <1>2 DEF AssignDesign, WriteDesign, Remember, Goto
<1>4. dirty' \in [Procs -> SUBSET (Sessions \X Names)]
  BY <1>1 DEF AssignDesign, WriteDesign, Clean, ProcInv, ProcType
<1>5. adrift' \in [Procs -> SUBSET Sessions]
  BY <1>3 DEF ProcInv, ProcType
<1> HIDE DEF d
<1> QED BY <1>1, <1>2, <1>3, <1>4, <1>5, OpTypes, StepTo

LEMMA StepWorkerCommit ==
    ASSUME ProcInv, NEW p \in Procs, NEW s \in Sessions, NEW n \in Names,
           NEW c \in Contents, WorkerCommit(p, s, n, c)
    PROVE  ProcInv'
<1> DEFINE d == [mem[p][s] EXCEPT ![n] = c]
           o1 == [kind |-> "event", session |-> s, saved |-> mem[p][s]]
           o2 == [kind |-> "refresh", session |-> s, saved |-> mem[p][s], designs |-> d]
<1>1. d \in Designs /\ mem[p][s] \in Designs /\ NoDesigns \in Designs
  BY SetOne DEF ProcInv, ProcType, NoDesigns, Designs, Maybe
<1>2. Idle \in Ops /\ o1 \in Ops /\ o2 \in Ops
  BY <1>1, OpTypes
<1>3. \E e \in Designs : mem' = [mem EXCEPT ![p][s] = e] \/ mem' = mem
  BY <1>1 DEF WorkerCommit, LoseMapping
<1>4. PICK o \in {Idle, o1, o2} : op' = [op EXCEPT ![p] = o]
  <2>1. op[p] = Idle => op = [op EXCEPT ![p] = Idle]
    BY DEF ProcInv, ProcType
  <2> QED BY <2>1 DEF WorkerCommit, Construct, Goto
<1>5. o.kind # "snapshot"
  BY DEF Idle
<1>6. adrift' \in [Procs -> SUBSET Sessions] /\ dirty' \in [Procs -> SUBSET (Sessions \X Names)]
  <2>1. /\ adrift' = adrift \/ adrift' = [adrift EXCEPT ![p] = @ \cup {s}]
        /\ dirty' = dirty \/ dirty' = [dirty EXCEPT ![p] = @ \ ({s} \X Names)]
    BY DEF WorkerCommit, LoseMapping
  <2>2. ASSUME NEW t \in Sessions
        PROVE  /\ [adrift EXCEPT ![p] = @ \cup {t}] \in [Procs -> SUBSET Sessions]
               /\ [dirty EXCEPT ![p] = @ \ ({t} \X Names)]
                     \in [Procs -> SUBSET (Sessions \X Names)]
    BY DEF ProcInv, ProcType
  <2> QED BY <2>1, <2>2 DEF ProcInv, ProcType
<1>7. /\ UNCHANGED << loaded, destroyed, pending, deleted >>
      /\ todo' \in {todo, [todo EXCEPT ![p] = Legacy]}
  BY DEF WorkerCommit, Construct
<1> HIDE DEF d, o1, o2
<1> QED BY <1>2, <1>3, <1>4, <1>5, <1>6, <1>7, StepTo

LEMMA StepRefresh ==
    ASSUME ProcInv, NEW p \in Procs, CommitRefresh(p) \/ RestoreRefresh(p)
    PROVE  ProcInv'
<1> DEFINE s == op[p].session
           d == op[p].designs
           o1 == [kind |-> "event", session |-> s, saved |-> op[p].saved]
<1>1. s \in Sessions /\ d \in Designs /\ op[p].saved \in Designs
  BY OpRefresh DEF CommitRefresh, RestoreRefresh, ProcInv, ProcType
<1>2. Idle \in Ops /\ o1 \in Ops
  BY <1>1, OpTypes
<1>3. PICK o \in {Idle, o1} : op' = [op EXCEPT ![p] = o]
  BY DEF CommitRefresh, RestoreRefresh, Construct, Goto
<1>4. o.kind # "snapshot"
  BY DEF Idle
<1>5. /\ mem' = [mem EXCEPT ![p][s] = d]
      /\ UNCHANGED << loaded, destroyed, pending, adrift, deleted >>
      /\ todo' \in {todo, [todo EXCEPT ![p] = Legacy]}
  BY DEF CommitRefresh, RestoreRefresh, RefreshMapping, Construct
<1>6. adrift' \in [Procs -> SUBSET Sessions] /\ dirty' \in [Procs -> SUBSET (Sessions \X Names)]
  BY <1>5 DEF CommitRefresh, RestoreRefresh, RefreshMapping, ProcInv, ProcType
<1>7. o \in Ops /\ UNCHANGED << loaded, destroyed, pending, deleted >>
  BY <1>2, <1>3, <1>5
<1> HIDE DEF s, d, o1
<1> QED BY <1>1, <1>3, <1>4, <1>5, <1>6, <1>7, StepTo

LEMMA StepCommitEvent ==
    ASSUME ProcInv, NEW p \in Procs, CommitEvent(p) PROVE ProcInv'
<1>1. op[p].session \in Sessions /\ op[p].saved \in Designs
  BY OpSaved DEF CommitEvent, ProcInv, ProcType
<1>2. UNCHANGED << loaded, mem, destroyed, todo, pending, adrift, dirty, deleted >>
  BY DEF CommitEvent
<1>3. CASE op' = [op EXCEPT ![p] = Idle]
  BY <1>2, <1>3, StepEnds DEF ProcInv, ProcType
<1> DEFINE o == [kind |-> "restore", session |-> op[p].session, saved |-> op[p].saved]
<1>4. CASE op' = [op EXCEPT ![p] = o]
  <2>1. o \in Ops
    BY <1>1, OpTypes
  <2>2. SnapshotReady'
    BY <1>2, <1>4, <2>1, ReadyAfter
  <2> QED BY <1>2, <1>4, <2>1, <2>2 DEF ProcInv, ProcType
<1> QED BY <1>3, <1>4 DEF CommitEvent, Goto

LEMMA StepWorkerRestore ==
    ASSUME ProcInv, NEW p \in Procs, WorkerRestore(p) PROVE ProcInv'
<1> DEFINE s == op[p].session
           d == op[p].saved
           o1 == [kind |-> "restored", session |-> s, saved |-> d, designs |-> d]
<1>1. s \in Sessions /\ d \in Designs /\ NoDesigns \in Designs
  BY OpSaved DEF WorkerRestore, ProcInv, ProcType, NoDesigns, Designs, Maybe
<1>2. Idle \in Ops /\ o1 \in Ops
  BY <1>1, OpTypes
<1>3. PICK o \in {Idle, o1} : op' = [op EXCEPT ![p] = o]
  BY DEF WorkerRestore, Goto
<1>4. o.kind # "snapshot"
  BY DEF Idle
<1>5. \E e \in Designs : mem' = [mem EXCEPT ![p][s] = e] \/ mem' = mem
  BY <1>1 DEF WorkerRestore, LoseMapping
<1>6. adrift' \in [Procs -> SUBSET Sessions] /\ dirty' \in [Procs -> SUBSET (Sessions \X Names)]
  <2>1. /\ adrift' = adrift \/ adrift' = [adrift EXCEPT ![p] = @ \cup {s}]
        /\ dirty' = dirty \/ dirty' = [dirty EXCEPT ![p] = @ \ ({s} \X Names)]
    BY DEF WorkerRestore, LoseMapping
  <2>2. ASSUME NEW t \in Sessions
        PROVE  /\ [adrift EXCEPT ![p] = @ \cup {t}] \in [Procs -> SUBSET Sessions]
               /\ [dirty EXCEPT ![p] = @ \ ({t} \X Names)]
                     \in [Procs -> SUBSET (Sessions \X Names)]
    BY DEF ProcInv, ProcType
  <2>3. PICK t \in Sessions : t = s
    BY <1>1
  <2> HIDE DEF s
  <2>4. /\ [adrift EXCEPT ![p] = @ \cup {t}] \in [Procs -> SUBSET Sessions]
        /\ [dirty EXCEPT ![p] = @ \ ({t} \X Names)] \in [Procs -> SUBSET (Sessions \X Names)]
    BY <2>2
  <2>5. adrift' \in [Procs -> SUBSET Sessions]
    BY <2>1, <2>3, <2>4 DEF ProcInv, ProcType
  <2>6. dirty' \in [Procs -> SUBSET (Sessions \X Names)]
    BY <2>1, <2>3, <2>4 DEF ProcInv, ProcType
  <2> QED BY <2>5, <2>6
<1>7. UNCHANGED << loaded, destroyed, todo, pending, deleted >>
  BY DEF WorkerRestore
<1> HIDE DEF s, d, o1
<1> QED BY <1>1, <1>2, <1>3, <1>4, <1>5, <1>6, <1>7, StepTo

LEMMA StepRestart ==
    ASSUME ProcInv, NEW p \in Procs, Restart(p) PROVE ProcInv'
<1>1. /\ op' = [op EXCEPT ![p] = Idle]
      /\ mem' = [mem EXCEPT ![p] = [s \in Sessions |-> NoDesigns]]
  BY DEF Restart, Goto
<1>2. [s \in Sessions |-> NoDesigns] \in [Sessions -> Designs]
  BY DEF NoDesigns, Designs, Maybe
<1>3. mem' \in [Procs -> [Sessions -> Designs]]
  BY <1>1, <1>2 DEF ProcInv, ProcType
<1>4. SnapshotReady'
  <2>1. \A q \in Procs : q # p => mem'[q] = mem[q]
    BY <1>1 DEF ProcInv, ProcType
  <2> QED BY <1>1, <2>1, OpTypes, ReadyAfter
<1>5. /\ loaded' \in [Procs -> SUBSET Sessions] /\ destroyed' \in [Procs -> SUBSET Sessions]
      /\ deleted' \in [Procs -> SUBSET Sessions]
  BY DEF Restart, ProcInv, ProcType
<1>6. /\ todo' \in [Procs -> SUBSET Legacy] /\ pending' \in [Procs -> Legacy \cup {Nothing}]
      /\ dirty' \in [Procs -> SUBSET (Sessions \X Names)]
      /\ adrift' \in [Procs -> SUBSET Sessions]
  BY DEF Restart, ProcInv, ProcType
<1> QED BY <1>1, <1>3, <1>4, <1>5, <1>6, OpTypes DEF ProcInv, ProcType

LEMMA NextProc == TableInv /\ ProcInv /\ [Next]_vars => ProcInv'
<1> SUFFICES ASSUME TableInv, ProcInv, [Next]_vars PROVE ProcInv'
  OBVIOUS
<1>1. CASE UNCHANGED vars
  BY <1>1 DEF vars, ProcInv, ProcType, SnapshotReady
<1>2. CASE Next
  <2> PICK p \in Procs :
       \/ ImportCheck(p) \/ ImportStore(p)
       \/ Load(p) \/ Hydrate(p) \/ AppendAudit(p)
       \/ UpsertSnapshot(p) \/ DropSnapshot(p) \/ Destroy(p)
       \/ AssignDesign(p) \/ WriteDesign(p) \/ CommitRefresh(p) \/ CommitEvent(p)
       \/ WorkerRestore(p) \/ RestoreRefresh(p) \/ Restart(p)
       \/ \E s \in Sessions :
             \/ BeginLoad(p, s) \/ BeginAudit(p, s) \/ BeginDestroy(p, s)
             \/ \E n \in Names :
                   \/ BeginSnapshot(p, s, n)
                   \/ \E c \in Contents :
                         \/ CommitDesign(p, s, n, c)
                         \/ SetItem(p, s, n, c)
                         \/ WorkerCommit(p, s, n, c)
    BY <1>2 DEF Next
  <2> QED BY StepImportCheck, StepImportStore, StepLoad, StepEnding, StepBegin,
             StepBeginSnapshot, StepBeginDestroy, StepWrite, StepWritten,
             StepWorkerCommit, StepRefresh, StepCommitEvent, StepWorkerRestore, StepRestart
<1> QED BY <1>1, <1>2

LEMMA InitProc == Init => ProcInv
<1> SUFFICES ASSUME Init PROVE ProcInv
  OBVIOUS
<1>1. mem \in [Procs -> [Sessions -> Designs]]
  BY DEF Init, NoDesigns, Designs, Maybe
<1>2. op \in [Procs -> Ops] /\ SnapshotReady
  BY OpTypes DEF Init, SnapshotReady
<1> QED BY <1>1, <1>2 DEF Init, ProcInv, ProcType

LEMMA Invariant == Spec => [](TableInv /\ ProcInv)
<1>1. Init => TableInv /\ ProcInv
  BY InitTables, InitProc
<1>2. TableInv /\ ProcInv /\ [Next]_vars => (TableInv /\ ProcInv)'
  BY NextTables, TablesInv, NextProc DEF ProcInv
<1> QED BY <1>1, <1>2, PTL DEF Spec

\* Every table and every process variable stays in its type, for any number
\* of processes working on one database.
THEOREM StoreTypeCorrect == Spec => []TypeOK
<1>1. TableInv /\ ProcInv => TypeOK
  BY DEF TableInv, TableType, ProcInv, ProcType, Ops, TypeOK
<1> QED BY <1>1, Invariant, PTL

\* No transaction of any process violates a foreign key: deleting a session
\* never takes a blob away that another session's history or snapshot needs.
THEOREM NoForeignKeyTrips == Spec => []ForeignKeysHold
<1>1. TableInv => ForeignKeysHold
  BY DEF TableInv
<1> QED BY <1>1, Invariant, PTL

\* The lineage of a design never forks, however many processes write it.
THEOREM LineageNeverForks == Spec => []LineageLinear
<1>1. TableInv => LineageLinear
  BY DEF TableInv
<1> QED BY <1>1, Invariant, PTL

\* Versions disappear only with their session, all at once.
THEOREM HistoryIsImmutable == Spec => HistoryImmutable
<1>1. TableInv /\ ProcInv /\ [Next]_vars =>
        [\A s \in Sessions :
          \/ \A n \in Names : versions[s][n] \subseteq versions'[s][n]
          \/ s \notin sessions' /\ \A n \in Names : versions'[s][n] = {}]_vars
  <2> SUFFICES ASSUME TableInv, ProcInv, [Next]_vars, NEW s \in Sessions
               PROVE  \/ \A n \in Names : versions[s][n] \subseteq versions'[s][n]
                      \/ s \notin sessions' /\ \A n \in Names : versions'[s][n] = {}
    OBVIOUS
  <2>1. TableStep
    BY NextTables DEF ProcInv
  <2>2. CASE Stores
    <3> PICK t \in Sessions, designs \in Designs, kept \in SUBSET Names,
             operation \in Operations : StoreDesigns(t, designs, kept, operation)
      BY <2>2 DEF Stores
    <3>1. TableType
      BY DEF TableInv
    <3>2. ASSUME NEW n \in Names
          PROVE  RowAppended(t, designs, operation, s, n) \/ RowsKept(s, n)
      BY <3>1, StoredRows
    <3> QED BY <3>2 DEF RowAppended, RowsKept
  <2>3. CASE Deletes
    <3> PICK t \in Sessions : DeleteSession(t)
      BY <2>3 DEF Deletes
    <3> QED BY DEF DeleteSession, TableInv, TableType
  <2>4. CASE Snapshots \/ Drops \/ Ensures \/ UNCHANGED tables
    BY <2>4 DEF Snapshots, Drops, Ensures, tables
  <2> QED BY <2>1, <2>2, <2>3, <2>4 DEF TableStep
<1> QED BY <1>1, Invariant, PTL DEF Spec, HistoryImmutable

-----------------------------------------------------------------------------
(***************************************************************************)
(* One process that has the database to itself.  MemoryIsDurable is not    *)
(* inductive: constructing a store may import a legacy design under a      *)
(* session that is in memory.  It does not, because a session enters       *)
(* memory only after a construction, and from then on every legacy design  *)
(* of it keeps a head: nothing the process writes drops one of its heads.  *)
(* A write takes two steps, so the invariant also says what the second one *)
(* finds; of a session that lost its mapping it says nothing.              *)
(***************************************************************************)
OneProcess == \A p, q \in Procs : p = q

WriteKinds == { "assign", "write", "refresh", "restored" }

\* Design n of a session in memory agrees with the database unless it is being
\* written or its last write failed, and a legacy design of it has a head.
Mirrored(p, s, n) ==
    /\ <<s, n>> \notin dirty[p] /\ ~Writing(p, s, n) => mem[p][s][n] = HeadContent(s, n)
    /\ <<s, n>> \in Legacy => heads[s][n] # 0 /\ mem[p][s][n] # Nothing

\* What the second half of a write finds.
Midway(p) ==
    /\ op[p].kind = "assign" => HeadContent(op[p].session, op[p].name) = op[p].content
    /\ op[p].kind = "write" => mem[p][op[p].session][op[p].name] = op[p].content
    /\ op[p].kind \in {"refresh", "restored"} => \A n \in Names :
          /\ HeadContent(op[p].session, n) = op[p].designs[n]
          /\ <<op[p].session, n>> \in Legacy => op[p].designs[n] # Nothing

\* The mapping was read and the session is not in the table yet.
Hydrated(p) ==
    op[p].kind = "hydrate" => \A n \in Names :
        /\ mem[p][op[p].session][n] = HeadContent(op[p].session, n)
        /\ <<op[p].session, n>> \in Legacy => heads[op[p].session][n] # 0

\* Restoring the state before a worker's commit drops no legacy design.
SavedLegacy(p) ==
    op[p].kind \in {"event", "restore", "refresh"} /\ op[p].session \notin adrift[p] =>
        \A n \in Names : <<op[p].session, n>> \in Legacy => op[p].saved[n] # Nothing

\* How far the construction of a store is.
Importing(p) ==
    /\ op[p].kind \in WriteKinds \cup {"none", "restore"} => Constructed(p)
    /\ op[p].kind \notin WriteKinds \cup {"none", "restore"} =>
          \A k \in Legacy \ todo[p] : heads[k[1]][k[2]] # 0
    /\ pending[p] # Nothing => heads[pending[p][1]][pending[p][2]] = 0

\* session_destroy takes a session out of memory before it deletes its rows.
OutOfMemory(p) == op[p].kind = "destroy" => op[p].session \notin loaded[p]

InMemory(p) == \A s \in loaded[p] \ adrift[p], n \in Names : Mirrored(p, s, n)

Underway(p) ==
    Hydrated(p) /\ SavedLegacy(p) /\ Importing(p) /\ OutOfMemory(p) /\ Midway(p)

Durable(p) == InMemory(p) /\ Underway(p)

\* The head's payload is the payload of the version it names.
LEMMA HeadRow ==
    ASSUME TableInv, NEW s \in Sessions, NEW n \in Names, heads[s][n] # 0,
           NEW v \in versions[s][n], v.stamp = heads[s][n]
    PROVE  HeadContent(s, n) = v.content
<1> DEFINE w == CHOOSE u \in versions[s][n] : u.stamp = heads[s][n]
<1>1. w \in versions[s][n] /\ w.stamp = heads[s][n]
  OBVIOUS
<1>2. w = v
  BY <1>1 DEF TableInv, LineageLinear
<1> QED BY <1>2 DEF HeadContent

\* A design that has a head has a payload.
LEMMA HeadHasContent ==
    ASSUME TableInv, NEW s \in Sessions, NEW n \in Names, heads[s][n] # 0
    PROVE  HeadContent(s, n) # Nothing
<1> PICK v \in versions[s][n] : v.stamp = heads[s][n]
  BY DEF TableInv, ForeignKeysHold
<1>1. v.content \in Contents
  BY DEF TableInv, TableType, Versions
<1> QED BY <1>1, HeadRow, ConstantsAssumption

\* What a storing transaction leaves as the head of a design it was given.
LEMMA StoredGiven ==
    ASSUME TableInv, TableInv', NEW s \in Sessions, NEW designs \in Designs,
           NEW kept \in SUBSET Names, NEW operation \in Operations,
           StoreDesigns(s, designs, kept, operation), NEW n \in Names,
           designs[n] # Nothing
    PROVE  heads'[s][n] # 0 /\ HeadContent(s, n)' = designs[n]
<1>1. /\ heads'[s][n] = clock + 1
      /\ versions'[s][n] = versions[s][n] \cup {NewRow(s, designs, n, operation)}
  BY DEF StoreDesigns, Given, NewRow, TableInv, TableType
<1>2. clock \in Nat
  BY ConstantsAssumption DEF TableInv, TableType
<1>3. clock + 1 # 0
  BY <1>2
<1>4. /\ NewRow(s, designs, n, operation).stamp = clock + 1
      /\ NewRow(s, designs, n, operation).content = designs[n]
  BY DEF NewRow
<1>5. \A u \in versions'[s][n] : u.stamp = heads'[s][n] => u = NewRow(s, designs, n, operation)
  BY <1>1, <1>4 DEF TableInv, LineageLinear
<1>6. (CHOOSE u \in versions'[s][n] : u.stamp = heads'[s][n]) = NewRow(s, designs, n, operation)
  BY <1>1, <1>4, <1>5
<1> QED BY <1>1, <1>3, <1>4, <1>6 DEF HeadContent

\* What it leaves of the other designs.
LEMMA StoredOthers ==
    ASSUME TableInv, NEW s \in Sessions, NEW designs \in Designs,
           NEW kept \in SUBSET Names, NEW operation \in Operations,
           StoreDesigns(s, designs, kept, operation),
           NEW t \in Sessions, NEW n \in Names
    PROVE  /\ t # s \/ (designs[n] = Nothing /\ n \in kept) =>
                 heads'[t][n] = heads[t][n] /\ HeadContent(t, n)' = HeadContent(t, n)
           /\ t = s /\ designs[n] = Nothing /\ n \notin kept => HeadContent(t, n)' = Nothing
<1>1. t # s \/ (designs[n] = Nothing /\ n \in kept) =>
          heads'[t][n] = heads[t][n] /\ versions'[t][n] = versions[t][n]
  BY DEF StoreDesigns, Given, TableInv, TableType
<1>2. t = s /\ designs[n] = Nothing /\ n \notin kept => heads'[t][n] = 0
  BY DEF StoreDesigns, Given, TableInv, TableType
<1>3. ASSUME heads'[t][n] = heads[t][n], versions'[t][n] = versions[t][n]
      PROVE  HeadContent(t, n)' = HeadContent(t, n)
  BY <1>3 DEF HeadContent
<1>4. heads'[t][n] = 0 => HeadContent(t, n)' = Nothing
  BY DEF HeadContent
<1> QED BY <1>1, <1>2, <1>3, <1>4

\* One stored design: its head is the payload, every other head stays.
LEMMA StoredOne ==
    ASSUME TableInv, TableInv', NEW s \in Sessions, NEW n \in Names, NEW c \in Contents,
           NEW operation \in Operations, StoreDesign(s, n, c, operation)
    PROVE  /\ heads'[s][n] # 0 /\ HeadContent(s, n)' = c
           /\ \A t \in Sessions, m \in Names : t # s \/ m # n =>
                 heads'[t][m] = heads[t][m] /\ HeadContent(t, m)' = HeadContent(t, m)
<1>1. Only(n, c) \in Designs /\ Only(n, c)[n] = c /\ \A m \in Names \ {n} : Only(n, c)[m] = Nothing
  BY DEF Only, Designs, Maybe
<1>2. StoreDesigns(s, Only(n, c), Names, operation) /\ c # Nothing
  BY ConstantsAssumption DEF StoreDesign
<1>3. heads'[s][n] # 0 /\ HeadContent(s, n)' = c
  BY <1>1, <1>2, StoredGiven
<1>4. ASSUME NEW t \in Sessions, NEW m \in Names, t # s \/ m # n
      PROVE  heads'[t][m] = heads[t][m] /\ HeadContent(t, m)' = HeadContent(t, m)
  BY <1>1, <1>2, <1>4, StoredOthers
<1> QED BY <1>3, <1>4

\* Stored as a whole: the heads of the session are exactly the given designs.
LEMMA StoredWhole ==
    ASSUME TableInv, TableInv', NEW s \in Sessions, NEW designs \in Designs,
           NEW operation \in Operations, ReplaceSessionDesigns(s, designs, operation)
    PROVE  /\ \A n \in Names : /\ HeadContent(s, n)' = designs[n]
                               /\ designs[n] # Nothing => heads'[s][n] # 0
           /\ \A t \in Sessions, n \in Names : t # s =>
                 heads'[t][n] = heads[t][n] /\ HeadContent(t, n)' = HeadContent(t, n)
<1>1. StoreDesigns(s, designs, {}, operation)
  BY DEF ReplaceSessionDesigns
<1>2. ASSUME NEW n \in Names
      PROVE  /\ HeadContent(s, n)' = designs[n]
             /\ designs[n] # Nothing => heads'[s][n] # 0
  <2>1. CASE designs[n] # Nothing
    BY <1>1, <2>1, StoredGiven
  <2>2. CASE designs[n] = Nothing
    BY <1>1, <2>2, StoredOthers
  <2> QED BY <2>1, <2>2
<1>3. ASSUME NEW t \in Sessions, NEW n \in Names, t # s
      PROVE  heads'[t][n] = heads[t][n] /\ HeadContent(t, n)' = HeadContent(t, n)
  BY <1>1, <1>3, StoredOthers
<1> QED BY <1>2, <1>3

\* Versions and heads stay as they are.
LEMMA QuietHeads ==
    ASSUME UNCHANGED << versions, heads >>, NEW s, NEW n
    PROVE  HeadContent(s, n)' = HeadContent(s, n)
BY DEF HeadContent

LEMMA NotWriting ==
    ASSUME NEW p \in Procs, op[p].kind \notin WriteKinds, NEW s, NEW n
    PROVE  ~Writing(p, s, n)
BY DEF Writing, WriteKinds

\* A step that leaves a design in memory and its head alone.
LEMMA SameMirror ==
    ASSUME NEW p \in Procs, NEW s \in Sessions, NEW n \in Names, Mirrored(p, s, n),
           heads'[s][n] = heads[s][n], HeadContent(s, n)' = HeadContent(s, n),
           mem'[p][s][n] = mem[p][s][n], <<s, n>> \in dirty[p] => <<s, n>> \in dirty'[p],
           ~Writing(p, s, n) \/ Writing(p, s, n)'
    PROVE  Mirrored(p, s, n)'
BY DEF Mirrored

\* A step that leaves versions, heads and the mappings in memory alone.
LEMMA QuietMirrors ==
    ASSUME ProcInv, NEW p \in Procs, InMemory(p),
           UNCHANGED << versions, heads, mem, dirty >>, UNCHANGED loaded, UNCHANGED adrift,
           op[p].kind \notin WriteKinds
    PROVE  InMemory(p)'
<1> SUFFICES ASSUME NEW s \in loaded[p] \ adrift[p], NEW n \in Names PROVE Mirrored(p, s, n)'
  BY DEF InMemory
<1>1. s \in Sessions
  BY DEF ProcInv, ProcType
<1> QED BY <1>1, NotWriting, QuietHeads, SameMirror DEF InMemory

\* The operation of p is over.
LEMMA EndsUnderway ==
    ASSUME ProcInv, NEW p \in Procs, op' = [op EXCEPT ![p] = Idle],
           UNCHANGED << todo, pending >>, Constructed(p)
    PROVE  Underway(p)'
<1>1. op'[p].kind = "none"
  BY DEF ProcInv, ProcType, Idle
<1>2. Hydrated(p)' /\ SavedLegacy(p)' /\ OutOfMemory(p)' /\ Midway(p)'
  BY <1>1 DEF Hydrated, SavedLegacy, OutOfMemory, Midway
<1>3. Importing(p)'
  BY <1>1 DEF Importing, Constructed
<1> QED BY <1>2, <1>3 DEF Underway

\* p begins to construct a store for an operation without a saved state.
LEMMA BeginsUnderway ==
    ASSUME ProcInv, NEW p \in Procs, Underway(p), op[p] = Idle, NEW o,
           op' = [op EXCEPT ![p] = o], o.kind \in {"load", "audit", "snapshot", "drop"},
           todo' = [todo EXCEPT ![p] = Legacy], UNCHANGED pending
    PROVE  Underway(p)'
<1>1. op'[p].kind \in {"load", "audit", "snapshot", "drop"} /\ op[p].kind = "none"
  BY DEF ProcInv, ProcType, Idle
<1>2. Hydrated(p)' /\ SavedLegacy(p)' /\ OutOfMemory(p)' /\ Midway(p)'
  BY <1>1 DEF Hydrated, SavedLegacy, OutOfMemory, Midway
<1>3. pending[p] = Nothing /\ todo'[p] = Legacy
  BY <1>1 DEF Underway, Importing, Constructed, ProcInv, ProcType
<1>4. Importing(p)'
  BY <1>1, <1>3 DEF Importing, WriteKinds
<1> QED BY <1>2, <1>4 DEF Underway

\* current_design_identity changes nothing but the progress of the import.
LEMMA DurableImportCheck ==
    ASSUME ProcInv, NEW p \in Procs, Durable(p), ImportCheck(p) PROVE Durable(p)'
<1>1. UNCHANGED << versions, heads, loaded, mem, op, adrift, dirty >> /\ todo[p] # {}
      /\ pending[p] = Nothing
  BY DEF ImportCheck, tables
<1>4. op[p].kind \notin WriteKinds \cup {"none", "restore"}
  BY <1>1 DEF Durable, Underway, Importing, Constructed
<1>2. InMemory(p)'
  BY <1>1, <1>4, QuietMirrors DEF Durable
<1>3. Hydrated(p)' /\ SavedLegacy(p)' /\ OutOfMemory(p)' /\ Midway(p)'
  BY <1>1, <1>4, QuietHeads
     DEF Durable, Underway, Hydrated, SavedLegacy, OutOfMemory, Midway, WriteKinds
<1>5. PICK k \in todo[p] :
         \/ heads[k[1]][k[2]] # 0 /\ todo' = [todo EXCEPT ![p] = @ \ {k}] /\ UNCHANGED pending
         \/ heads[k[1]][k[2]] = 0 /\ pending' = [pending EXCEPT ![p] = k] /\ UNCHANGED todo
  BY DEF ImportCheck
<1>6. \A l \in Legacy \ todo[p] : heads[l[1]][l[2]] # 0
  BY <1>4 DEF Durable, Underway, Importing
<1>7. CASE heads[k[1]][k[2]] # 0 /\ todo' = [todo EXCEPT ![p] = @ \ {k}] /\ UNCHANGED pending
  <2>1. \A l \in Legacy \ todo'[p] : heads[l[1]][l[2]] # 0
    BY <1>6, <1>7 DEF ProcInv, ProcType
  <2>2. Importing(p)'
    BY <1>1, <1>4, <1>7, <2>1 DEF Importing
  <2> QED BY <1>2, <1>3, <2>2 DEF Durable, Underway
<1>8. CASE heads[k[1]][k[2]] = 0 /\ pending' = [pending EXCEPT ![p] = k] /\ UNCHANGED todo
  <2>1. pending'[p] = k
    BY <1>8 DEF ProcInv, ProcType
  <2>2. Importing(p)'
    BY <1>1, <1>4, <1>6, <1>8, <2>1 DEF Importing
  <2> QED BY <1>2, <1>3, <2>2 DEF Durable, Underway
<1> QED BY <1>5, <1>7, <1>8

\* The import stores a design that has no head: of no session in memory.
LEMMA DurableImportStore ==
    ASSUME TableInv, TableInv', ProcInv, NEW p \in Procs, Durable(p), ImportStore(p)
    PROVE  Durable(p)'
<1> DEFINE k == pending[p]
<1>1. /\ k # Nothing /\ k \in Legacy /\ heads[k[1]][k[2]] = 0
      /\ UNCHANGED << loaded, mem, op, adrift, dirty >>
      /\ todo' = [todo EXCEPT ![p] = @ \ {k}] /\ pending'[p] = Nothing
  BY DEF ImportStore, ProcInv, ProcType, Durable, Underway, Importing
<1>2. /\ k[1] \in Sessions /\ k[2] \in Names /\ k = <<k[1], k[2]>> /\ LegacyOf[k] \in Contents
  BY <1>1, LegacyKey, ConstantsAssumption
<1>3. StoreDesign(k[1], k[2], LegacyOf[k], "legacy-filesystem-import")
  <2>1. HeadContent(k[1], k[2]) # LegacyOf[k]
    BY <1>1, <1>2, ConstantsAssumption DEF HeadContent
  <2> QED BY <2>1 DEF ImportStore
<1> HIDE DEF k
<1>4. "legacy-filesystem-import" \in Operations
  BY DEF Operations
<1>5. /\ heads'[k[1]][k[2]] # 0
      /\ \A t \in Sessions, m \in Names : t # k[1] \/ m # k[2] =>
            heads'[t][m] = heads[t][m] /\ HeadContent(t, m)' = HeadContent(t, m)
  BY <1>2, <1>3, <1>4, StoredOne
<1>7. op[p].kind \notin WriteKinds \cup {"none", "restore"}
  BY <1>1 DEF Durable, Underway, Importing, Constructed, k
<1>6. InMemory(p)'
  <2> SUFFICES ASSUME NEW s \in loaded[p] \ adrift[p], NEW n \in Names
               PROVE  Mirrored(p, s, n)'
    BY <1>1 DEF InMemory
  <2>1. s \in Sessions /\ Mirrored(p, s, n) /\ ~Writing(p, s, n)
    BY <1>7, NotWriting DEF ProcInv, ProcType, Durable, InMemory
  <2>2. s # k[1] \/ n # k[2]
    BY <1>1, <1>2, <2>1 DEF Mirrored
  <2> QED BY <1>1, <1>5, <2>1, <2>2, SameMirror
<1>8. Hydrated(p)'
  <2> SUFFICES ASSUME NEW s, s = op[p].session, op[p].kind = "hydrate", NEW n \in Names
               PROVE  /\ mem[p][s][n] = HeadContent(s, n)'
                      /\ <<s, n>> \in Legacy => heads'[s][n] # 0
    BY <1>1 DEF Hydrated, HeadContent
  <2>1. s \in Sessions
    BY OpSession DEF ProcInv, ProcType
  <2>2. /\ mem[p][s][n] = HeadContent(s, n)
        /\ <<s, n>> \in Legacy => heads[s][n] # 0
    BY DEF Durable, Underway, Hydrated
  <2>3. s # k[1] \/ n # k[2]
    BY <1>1, <1>2, <2>2
  <2> QED BY <1>5, <2>1, <2>2, <2>3
<1>9. Importing(p)'
  <2>1. ASSUME NEW l \in Legacy \ todo'[p] PROVE heads'[l[1]][l[2]] # 0
    <3>1. l \in Legacy \ todo[p] \/ l = k
      BY <1>1 DEF ProcInv, ProcType
    <3>2. l[1] \in Sessions /\ l[2] \in Names /\ l = <<l[1], l[2]>>
      BY LegacyKey, ConstantsAssumption
    <3>3. l \in Legacy \ todo[p] => heads[l[1]][l[2]] # 0
      BY <1>7 DEF Durable, Underway, Importing
    <3>4. (l[1] = k[1] /\ l[2] = k[2]) \/ heads'[l[1]][l[2]] = heads[l[1]][l[2]]
      BY <1>5, <3>2
    <3> QED BY <1>5, <3>1, <3>3, <3>4
  <2> QED BY <1>1, <1>7, <2>1 DEF Importing
<1>10. SavedLegacy(p)' /\ OutOfMemory(p)' /\ Midway(p)'
  BY <1>1, <1>7 DEF Durable, Underway, SavedLegacy, OutOfMemory, Midway, WriteKinds
<1> QED BY <1>6, <1>8, <1>9, <1>10 DEF Durable, Underway

\* make_design_mapping reads the heads of a session whose legacy designs the
\* construction has imported.
LEMMA DurableLoad ==
    ASSUME TableInv, ProcInv, NEW p \in Procs, Durable(p), Load(p) PROVE Durable(p)'
<1> DEFINE s == op[p].session
<1>1. /\ s \in Sessions /\ todo[p] = {} /\ pending[p] = Nothing
      /\ UNCHANGED << versions, heads, loaded, adrift, dirty, pending >>
      /\ op[p].kind = "load"
      /\ mem' = [mem EXCEPT ![p][s] = LoadDesigns(s)] /\ todo' = [todo EXCEPT ![p] = Legacy]
      /\ op' = [op EXCEPT ![p] = [kind |-> "hydrate", session |-> s]]
  BY OpSession DEF Load, ProcInv, ProcType, Constructed, Construct, Goto, tables
<1>2. op'[p].kind = "hydrate" /\ op'[p].session = s /\ todo'[p] = Legacy
  BY <1>1 DEF ProcInv, ProcType
<1>3. \A n \in Names : <<s, n>> \in Legacy => heads[s][n] # 0
  <2>1. \A k \in Legacy : heads[k[1]][k[2]] # 0
    BY <1>1 DEF Durable, Underway, Importing, WriteKinds
  <2> QED BY <2>1
<1>4. \A n \in Names : mem'[p][s][n] = HeadContent(s, n)
  BY <1>1 DEF ProcInv, ProcType, LoadDesigns
<1>5. InMemory(p)'
  <2> SUFFICES ASSUME NEW t \in loaded[p] \ adrift[p], NEW n \in Names
               PROVE  Mirrored(p, t, n)'
    BY <1>1 DEF InMemory
  <2>1. /\ t \in Sessions /\ Mirrored(p, t, n) /\ HeadContent(t, n)' = HeadContent(t, n)
        /\ ~Writing(p, t, n)
    BY <1>1, NotWriting, QuietHeads DEF ProcInv, ProcType, Durable, InMemory, WriteKinds
  <2>2. CASE t = s
    <3>1. <<s, n>> \in Legacy => heads[s][n] # 0 /\ mem'[p][s][n] # Nothing
      BY <1>1, <1>3, <1>4, HeadHasContent
    <3> QED BY <1>1, <1>4, <2>1, <2>2, <3>1 DEF Mirrored
  <2>3. CASE t # s
    <3>1. mem'[p][t] = mem[p][t]
      BY <1>1, <2>1, <2>3 DEF ProcInv, ProcType
    <3> QED BY <1>1, <2>1, <3>1, SameMirror
  <2> QED BY <2>2, <2>3
<1>6. Hydrated(p)'
  <2> SUFFICES ASSUME NEW n \in Names
               PROVE  /\ mem'[p][s][n] = HeadContent(s, n)
                      /\ <<s, n>> \in Legacy => heads[s][n] # 0
    BY <1>1, <1>2 DEF Hydrated, HeadContent
  <2> QED BY <1>3, <1>4
<1>7. SavedLegacy(p)' /\ OutOfMemory(p)' /\ Midway(p)'
  BY <1>2 DEF SavedLegacy, OutOfMemory, Midway
<1>8. Importing(p)'
  BY <1>1, <1>2 DEF Importing, WriteKinds
<1> QED BY <1>5, <1>6, <1>7, <1>8 DEF Durable, Underway

\* The session enters the table with what the heads hold.
LEMMA DurableHydrate ==
    ASSUME TableInv, ProcInv, NEW p \in Procs, Durable(p), Hydrate(p) PROVE Durable(p)'
<1> DEFINE s == op[p].session
<1>1. /\ s \in Sessions /\ Constructed(p) /\ op' = [op EXCEPT ![p] = Idle]
      /\ UNCHANGED << versions, heads, mem, adrift, dirty, todo, pending >>
      /\ loaded'[p] = loaded[p] \cup {s} /\ op[p].kind = "hydrate"
  BY OpSession DEF Hydrate, ProcInv, ProcType, Goto, tables
<1>2. InMemory(p)'
  <2> SUFFICES ASSUME NEW t \in loaded'[p] \ adrift[p], NEW n \in Names
               PROVE  Mirrored(p, t, n)'
    BY <1>1 DEF InMemory
  <2>1. t \in Sessions /\ HeadContent(t, n)' = HeadContent(t, n) /\ ~Writing(p, t, n)
    BY <1>1, NotWriting, QuietHeads DEF ProcInv, ProcType, WriteKinds
  <2>2. CASE t = s
    <3>1. /\ mem[p][s][n] = HeadContent(s, n)
          /\ <<s, n>> \in Legacy => heads[s][n] # 0
      BY <1>1 DEF Durable, Underway, Hydrated
    <3>2. Mirrored(p, s, n)
      BY <1>1, <3>1, HeadHasContent DEF Mirrored
    <3> QED BY <1>1, <2>1, <2>2, <3>2, SameMirror
  <2>3. CASE t \in loaded[p]
    BY <1>1, <2>1, <2>3, SameMirror DEF Durable, InMemory
  <2> QED BY <1>1, <2>2, <2>3
<1>3. Underway(p)'
  BY <1>1, EndsUnderway
<1> QED BY <1>2, <1>3 DEF Durable

\* Audit rows and snapshots are no part of the heads.
LEMMA DurableRecords ==
    ASSUME ProcInv, NEW p \in Procs, Durable(p),
           AppendAudit(p) \/ UpsertSnapshot(p) \/ DropSnapshot(p)
    PROVE  Durable(p)'
<1>1. /\ Constructed(p) /\ op' = [op EXCEPT ![p] = Idle]
      /\ UNCHANGED << versions, heads, mem, adrift, dirty, loaded, todo, pending >>
      /\ op[p].kind \notin WriteKinds
  BY DEF AppendAudit, UpsertSnapshot, DropSnapshot, Goto, WriteKinds
<1> QED BY <1>1, QuietMirrors, EndsUnderway DEF Durable

\* Deleting a session drops no head of a session in memory.
LEMMA DurableDestroy ==
    ASSUME TableInv, ProcInv, NEW p \in Procs, Durable(p), Destroy(p) PROVE Durable(p)'
<1> DEFINE s == op[p].session
<1>1. /\ s \in Sessions /\ Constructed(p) /\ op' = [op EXCEPT ![p] = Idle]
      /\ UNCHANGED << mem, adrift, dirty, loaded, todo, pending >> /\ s \notin loaded[p]
      /\ DeleteSession(s) \/ UNCHANGED << versions, heads >>
      /\ op[p].kind \notin WriteKinds
  BY OpSession
     DEF WriteKinds, Destroy, ProcInv, ProcType, Goto, tables, Durable, Underway, OutOfMemory
<1>2. InMemory(p)'
  <2>1. CASE UNCHANGED << versions, heads >>
    BY <1>1, <2>1, QuietMirrors DEF Durable
  <2>2. CASE DeleteSession(s)
    <3> SUFFICES ASSUME NEW t \in loaded[p] \ adrift[p], NEW n \in Names
                 PROVE  Mirrored(p, t, n)'
      BY <1>1 DEF InMemory
    <3>1. t \in Sessions /\ t # s /\ ~Writing(p, t, n)
      BY <1>1, NotWriting DEF ProcInv, ProcType
    <3>2. heads'[t][n] = heads[t][n] /\ versions'[t][n] = versions[t][n]
      BY <1>1, <2>2, <3>1 DEF DeleteSession, TableInv, TableType
    <3>3. HeadContent(t, n)' = HeadContent(t, n)
      BY <3>2 DEF HeadContent
    <3> QED BY <1>1, <3>1, <3>2, <3>3, SameMirror DEF Durable, InMemory
  <2> QED BY <1>1, <2>1, <2>2
<1> QED BY <1>1, <1>2, EndsUnderway DEF Durable

\* Beginning an operation constructs a store and touches nothing else.
LEMMA DurableBegin ==
    ASSUME ProcInv, NEW p \in Procs, Durable(p), NEW s, NEW n,
           BeginLoad(p, s) \/ BeginAudit(p, s) \/ BeginSnapshot(p, s, n)
    PROVE  Durable(p)'
<1>1. /\ op[p] = Idle /\ todo' = [todo EXCEPT ![p] = Legacy]
      /\ UNCHANGED << versions, heads, mem, adrift, dirty, loaded, pending >>
      /\ op[p].kind \notin WriteKinds
  BY DEF BeginLoad, BeginAudit, BeginSnapshot, Construct, tables, Idle, WriteKinds
<1>2. \E o : op' = [op EXCEPT ![p] = o] /\ o.kind \in {"load", "audit", "snapshot", "drop"}
  <2> DEFINE o1(k) == [kind |-> k, session |-> s]
             o2(k) == [kind |-> k, session |-> s, name |-> n]
  <2>1. /\ o1("load").kind = "load" /\ o1("audit").kind = "audit"
        /\ o2("snapshot").kind = "snapshot" /\ o2("drop").kind = "drop"
    OBVIOUS
  <2> QED BY <2>1 DEF BeginLoad, BeginAudit, BeginSnapshot, Construct, Goto
<1> QED BY <1>1, <1>2, QuietMirrors, BeginsUnderway DEF Durable

\* session_destroy forgets the session before it constructs the store.
LEMMA DurableBeginDestroy ==
    ASSUME ProcInv, NEW p \in Procs, Durable(p), NEW s \in Sessions, BeginDestroy(p, s)
    PROVE  Durable(p)'
<1>1. /\ op[p].kind = "none" /\ UNCHANGED << versions, heads, pending >>
      /\ loaded' = [loaded EXCEPT ![p] = @ \ {s}]
      /\ mem' = [mem EXCEPT ![p][s] = NoDesigns]
      /\ dirty' = [dirty EXCEPT ![p] = @ \ ({s} \X Names)]
      /\ adrift' = [adrift EXCEPT ![p] = @ \ {s}]
      /\ todo' = [todo EXCEPT ![p] = Legacy]
      /\ op' = [op EXCEPT ![p] = [kind |-> "destroy", session |-> s]]
  BY DEF BeginDestroy, Construct, Goto, Idle, tables
<1>2. /\ op'[p].kind = "destroy" /\ op'[p].session = s /\ todo'[p] = Legacy
      /\ loaded'[p] = loaded[p] \ {s} /\ adrift'[p] = adrift[p] \ {s}
  BY <1>1 DEF ProcInv, ProcType
<1>3. InMemory(p)'
  <2> SUFFICES ASSUME NEW t \in loaded[p] \ {s}, t \notin adrift[p], NEW n \in Names
               PROVE  Mirrored(p, t, n)'
    BY <1>2 DEF InMemory
  <2>1. /\ t \in Sessions /\ Mirrored(p, t, n) /\ HeadContent(t, n)' = HeadContent(t, n)
        /\ ~Writing(p, t, n)
    BY <1>1, NotWriting, QuietHeads DEF ProcInv, ProcType, Durable, InMemory, WriteKinds
  <2>2. mem'[p][t] = mem[p][t] /\ (<<t, n>> \in dirty[p] => <<t, n>> \in dirty'[p])
    BY <1>1, <2>1 DEF ProcInv, ProcType
  <2> QED BY <1>1, <2>1, <2>2, SameMirror
<1>4. pending[p] = Nothing
  BY <1>1 DEF Durable, Underway, Importing, Constructed
<1>5. Hydrated(p)' /\ SavedLegacy(p)' /\ OutOfMemory(p)' /\ Midway(p)'
  BY <1>2 DEF Hydrated, SavedLegacy, OutOfMemory, Midway
<1>6. Importing(p)'
  BY <1>1, <1>2, <1>4 DEF Importing, WriteKinds
<1> QED BY <1>3, <1>5, <1>6 DEF Durable, Underway

\* The mapping of a session adrift, or of one that goes adrift, is no promise.
LEMMA DriftMirrors ==
    ASSUME ProcInv, NEW p \in Procs, InMemory(p), op[p].kind \notin WriteKinds,
           UNCHANGED << versions, heads, loaded >>, NEW s \in Sessions,
           s \in adrift'[p], adrift[p] \subseteq adrift'[p],
           \A t \in Sessions \ {s} : mem'[p][t] = mem[p][t],
           \A t \in Sessions \ {s}, n \in Names :
              <<t, n>> \in dirty[p] => <<t, n>> \in dirty'[p]
    PROVE  InMemory(p)'
<1> SUFFICES ASSUME NEW t \in loaded[p], t \notin adrift'[p], NEW n \in Names
             PROVE  Mirrored(p, t, n)'
  BY DEF InMemory
<1>1. t \in Sessions \ {s} /\ Mirrored(p, t, n) /\ ~Writing(p, t, n)
  BY NotWriting DEF ProcInv, ProcType, InMemory
<1> QED BY <1>1, QuietHeads, SameMirror

\* A step outside any operation that begins the second half of a write.
LEMMA WriteUnderway ==
    ASSUME NEW p \in Procs, Underway(p), op[p].kind \in {"none", "restore"},
           op'[p].kind \in WriteKinds \cup {"none"}, UNCHANGED << todo, pending >>,
           Midway(p)', op'[p].kind = "refresh" => SavedLegacy(p)'
    PROVE  Underway(p)'
<1>1. Constructed(p)
  BY DEF Underway, Importing
<1>2. Hydrated(p)' /\ SavedLegacy(p)' /\ OutOfMemory(p)'
  BY DEF Hydrated, SavedLegacy, OutOfMemory, WriteKinds
<1>3. Importing(p)'
  BY <1>1 DEF Importing, Constructed
<1> QED BY <1>2, <1>3 DEF Underway

\* commit_design: the database first.
LEMMA DurableCommitDesign ==
    ASSUME TableInv, TableInv', ProcInv, NEW p \in Procs, Durable(p), NEW s \in Sessions,
           NEW n \in Names, NEW c \in Contents, CommitDesign(p, s, n, c)
    PROVE  Durable(p)'
<1>1. /\ op[p].kind = "none" /\ op[p].kind \notin WriteKinds /\ s \in loaded[p]
      /\ UNCHANGED << loaded, todo, pending, adrift, dirty >>
  BY DEF CommitDesign, Idle, WriteKinds
<1>2. CASE /\ s \in adrift[p] /\ mem' = [mem EXCEPT ![p][s][n] = c]
           /\ UNCHANGED << versions, heads, op >>
  <2>1. \A t \in Sessions \ {s} : mem'[p][t] = mem[p][t]
    BY <1>2 DEF ProcInv, ProcType
  <2>2. InMemory(p)'
    BY <1>1, <1>2, <2>1, DriftMirrors DEF Durable
  <2>3. Midway(p)'
    BY <1>1, <1>2 DEF Midway
  <2> QED BY <1>1, <1>2, <2>2, <2>3, WriteUnderway DEF Durable
<1>3. CASE /\ s \notin adrift[p] /\ StoreDesign(s, n, c, "tool-commit") /\ UNCHANGED mem
           /\ op' = [op EXCEPT ![p] = [kind |-> "assign", session |-> s, name |-> n,
                                       content |-> c]]
  <2>0. "tool-commit" \in Operations
    BY DEF Operations
  <2>1. /\ heads'[s][n] # 0 /\ HeadContent(s, n)' = c
        /\ \A t \in Sessions, m \in Names : t # s \/ m # n =>
              heads'[t][m] = heads[t][m] /\ HeadContent(t, m)' = HeadContent(t, m)
    BY <1>3, <2>0, StoredOne
  <2>2. /\ op'[p].kind = "assign" /\ op'[p].session = s /\ op'[p].name = n
        /\ op'[p].content = c
    BY <1>3 DEF ProcInv, ProcType
  <2>3. InMemory(p)'
    <3> SUFFICES ASSUME NEW t \in loaded[p] \ adrift[p], NEW m \in Names
                 PROVE  Mirrored(p, t, m)'
      BY <1>1 DEF InMemory
    <3>1. t \in Sessions /\ Mirrored(p, t, m) /\ ~Writing(p, t, m)
      BY <1>1, NotWriting DEF ProcInv, ProcType, Durable, InMemory
    <3>2. CASE t = s /\ m = n
      <4>1. Writing(p, s, n)'
        BY <2>2 DEF Writing
      <4> QED BY <1>3, <2>1, <3>1, <3>2, <4>1 DEF Mirrored
    <3>3. CASE t # s \/ m # n
      BY <1>1, <1>3, <2>1, <3>1, <3>3, SameMirror
    <3> QED BY <3>2, <3>3
  <2>4. Midway(p)'
    BY <2>1, <2>2 DEF Midway, HeadContent
  <2> QED BY <1>1, <2>2, <2>3, <2>4, WriteUnderway DEF Durable, WriteKinds
<1> QED BY <1>2, <1>3 DEF CommitDesign, Remember, Goto, tables

\* __setitem__: memory first.
LEMMA DurableSetItem ==
    ASSUME ProcInv, NEW p \in Procs, Durable(p), NEW s \in Sessions,
           NEW n \in Names, NEW c \in Contents, SetItem(p, s, n, c)
    PROVE  Durable(p)'
<1>1. /\ op[p].kind = "none" /\ op[p].kind \notin WriteKinds /\ s \in loaded[p]
      /\ UNCHANGED << versions, heads, loaded, todo, pending, adrift, dirty >>
      /\ mem' = [mem EXCEPT ![p][s][n] = c]
  BY DEF SetItem, Remember, Idle, WriteKinds, tables
<1>2. CASE s \in adrift[p] /\ UNCHANGED op
  <2>1. \A t \in Sessions \ {s} : mem'[p][t] = mem[p][t]
    BY <1>1 DEF ProcInv, ProcType
  <2>2. InMemory(p)'
    BY <1>1, <1>2, <2>1, DriftMirrors DEF Durable
  <2>3. Midway(p)'
    BY <1>1, <1>2 DEF Midway
  <2> QED BY <1>1, <1>2, <2>2, <2>3, WriteUnderway DEF Durable
<1>3. CASE /\ s \notin adrift[p]
           /\ op' = [op EXCEPT ![p] = [kind |-> "write", session |-> s, name |-> n,
                                       content |-> c]]
  <2>1. /\ op'[p].kind = "write" /\ op'[p].session = s /\ op'[p].name = n
        /\ op'[p].content = c
    BY <1>3 DEF ProcInv, ProcType
  <2>2. mem'[p][s][n] = c /\ c # Nothing
    BY <1>1, ConstantsAssumption DEF ProcInv, ProcType, Designs
  <2>3. InMemory(p)'
    <3> SUFFICES ASSUME NEW t \in loaded[p] \ adrift[p], NEW m \in Names
                 PROVE  Mirrored(p, t, m)'
      BY <1>1 DEF InMemory
    <3>1. t \in Sessions /\ Mirrored(p, t, m) /\ ~Writing(p, t, m)
      BY <1>1, NotWriting DEF ProcInv, ProcType, Durable, InMemory
    <3>2. CASE t = s /\ m = n
      <4>1. Writing(p, s, n)'
        BY <2>1 DEF Writing
      <4> QED BY <1>1, <2>2, <3>1, <3>2, <4>1 DEF Mirrored
    <3>3. CASE t # s \/ m # n
      <4>1. mem'[p][t][m] = mem[p][t][m]
        BY <1>1, <3>1, <3>3 DEF ProcInv, ProcType, Designs
      <4> QED BY <1>1, <3>1, <4>1, QuietHeads, SameMirror
    <3> QED BY <3>2, <3>3
  <2>4. Midway(p)'
    BY <2>1, <2>2 DEF Midway
  <2> QED BY <1>1, <2>1, <2>3, <2>4, WriteUnderway DEF Durable, WriteKinds
<1> QED BY <1>2, <1>3 DEF SetItem, Goto

\* dict.__setitem__ after the transaction of commit_design.
LEMMA DurableAssign ==
    ASSUME ProcInv, NEW p \in Procs, Durable(p), AssignDesign(p)
    PROVE  Durable(p)'
<1> DEFINE s == op[p].session
           n == op[p].name
           c == op[p].content
<1>1. /\ op[p].kind = "assign" /\ mem' = [mem EXCEPT ![p][s][n] = c]
      /\ dirty' = [dirty EXCEPT ![p] = @ \ {<<s, n>>}]
      /\ op' = [op EXCEPT ![p] = Idle]
      /\ UNCHANGED << versions, heads, loaded, todo, pending, adrift >>
  BY DEF AssignDesign, Remember, Clean, Goto, tables
<1>2. s \in Sessions /\ n \in Names /\ c \in Contents
  BY <1>1, OpWrite DEF ProcInv, ProcType
<1>3. HeadContent(s, n) = c /\ c # Nothing /\ Constructed(p)
  BY <1>1, <1>2, ConstantsAssumption DEF Durable, Underway, Midway, Importing, WriteKinds
<1>4. \A t, m : Writing(p, t, m) => t = s /\ m = n
  BY <1>1 DEF Writing
<1> HIDE DEF s, n, c
<1>5. InMemory(p)'
  <2> SUFFICES ASSUME NEW t \in loaded[p] \ adrift[p], NEW m \in Names
               PROVE  Mirrored(p, t, m)'
    BY <1>1 DEF InMemory
  <2>1. t \in Sessions /\ Mirrored(p, t, m) /\ HeadContent(t, m)' = HeadContent(t, m)
    BY <1>1, QuietHeads DEF ProcInv, ProcType, Durable, InMemory
  <2>2. CASE t = s /\ m = n
    <3>1. mem'[p][s][n] = c
      BY <1>1, <1>2 DEF ProcInv, ProcType, Designs
    <3> QED BY <1>1, <1>3, <2>1, <2>2, <3>1 DEF Mirrored
  <2>3. CASE t # s \/ m # n
    <3>1. mem'[p][t][m] = mem[p][t][m]
      BY <1>1, <1>2, <2>1, <2>3 DEF ProcInv, ProcType, Designs
    <3>2. <<t, m>> \in dirty[p] => <<t, m>> \in dirty'[p]
      BY <1>1, <2>3 DEF ProcInv, ProcType
    <3>3. ~Writing(p, t, m)
      BY <1>4, <2>3
    <3> QED BY <1>1, <2>1, <3>1, <3>2, <3>3, SameMirror
  <2> QED BY <2>2, <2>3
<1> QED BY <1>1, <1>3, <1>5, EndsUnderway DEF Durable

\* _write after the assignment in memory, or its failure.
LEMMA DurableWriteDesign ==
    ASSUME TableInv, TableInv', ProcInv, NEW p \in Procs, Durable(p), WriteDesign(p)
    PROVE  Durable(p)'
<1>0. PICK s \in Sessions, n \in Names, c \in Contents :
         s = op[p].session /\ n = op[p].name /\ c = op[p].content
  BY OpWrite DEF WriteDesign, ProcInv, ProcType
<1>1. /\ op[p].kind = "write" /\ op' = [op EXCEPT ![p] = Idle]
      /\ UNCHANGED << loaded, mem, todo, pending, adrift >>
  BY DEF WriteDesign, Goto
<1>3. mem[p][s][n] = c /\ c # Nothing /\ Constructed(p)
  BY <1>0, <1>1, ConstantsAssumption DEF Durable, Underway, Midway, Importing, WriteKinds
<1>4. \A t, m : Writing(p, t, m) => t = s /\ m = n
  BY <1>0, <1>1 DEF Writing
<1>5. \/ /\ \E o \in Operations : StoreDesign(s, n, c, o)
         /\ dirty' = [dirty EXCEPT ![p] = @ \ {<<s, n>>}]
      \/ /\ dirty' = [dirty EXCEPT ![p] = @ \cup {<<s, n>>}]
         /\ UNCHANGED << versions, heads >>
  BY <1>0 DEF WriteDesign, Clean, Operations, tables
<1>6. ASSUME NEW t \in loaded[p] \ adrift[p], NEW m \in Names PROVE Mirrored(p, t, m)'
  <2>1. t \in Sessions /\ Mirrored(p, t, m)
    BY <1>6 DEF ProcInv, ProcType, Durable, InMemory
  <2>2. CASE t # s \/ m # n
    <3>1. <<t, m>> \in dirty[p] => <<t, m>> \in dirty'[p]
      BY <1>5, <2>2 DEF ProcInv, ProcType
    <3>2. heads'[t][m] = heads[t][m] /\ HeadContent(t, m)' = HeadContent(t, m)
      BY <1>5, <2>1, <2>2, StoredOne, QuietHeads
    <3>3. ~Writing(p, t, m)
      BY <1>4, <2>2
    <3> QED BY <1>1, <2>1, <3>1, <3>2, <3>3, SameMirror
  <2>3. CASE /\ t = s /\ m = n
             /\ \E o \in Operations : StoreDesign(s, n, c, o)
    <3>0. PICK o \in Operations : StoreDesign(s, n, c, o)
      BY <2>3
    <3>1. heads'[s][n] # 0 /\ HeadContent(s, n)' = c
      BY <3>0, StoredOne
    <3> QED BY <1>1, <1>3, <2>3, <3>1 DEF Mirrored
  <2>4. CASE /\ t = s /\ m = n
             /\ dirty' = [dirty EXCEPT ![p] = @ \cup {<<s, n>>}]
             /\ UNCHANGED << versions, heads >>
    <3>1. <<s, n>> \in dirty'[p]
      BY <2>4 DEF ProcInv, ProcType
    <3> QED BY <1>1, <2>1, <2>4, <3>1 DEF Mirrored
  <2> QED BY <1>5, <2>2, <2>3, <2>4
<1>7. InMemory(p)'
  BY <1>1, <1>6 DEF InMemory
<1> QED BY <1>1, <1>3, <1>7, EndsUnderway DEF Durable

\* A whole mapping is written to the database; memory is still behind.
LEMMA ReplaceMirrors ==
    ASSUME TableInv, TableInv', ProcInv, NEW p \in Procs, InMemory(p), NEW s \in Sessions,
           NEW designs \in Designs, NEW operation \in Operations,
           ReplaceSessionDesigns(s, designs, operation),
           UNCHANGED << loaded, mem, adrift, dirty >>, op[p].kind \notin WriteKinds,
           \A n \in Names : Writing(p, s, n)',
           \A n \in Names : <<s, n>> \in Legacy => designs[n] # Nothing
    PROVE  InMemory(p)'
<1> SUFFICES ASSUME NEW t \in loaded[p] \ adrift[p], NEW n \in Names
             PROVE  Mirrored(p, t, n)'
  BY DEF InMemory
<1>1. t \in Sessions /\ Mirrored(p, t, n) /\ ~Writing(p, t, n)
  BY NotWriting DEF ProcInv, ProcType, InMemory
<1>2. CASE t = s
  <2>1. designs[n] # Nothing => heads'[s][n] # 0
    BY StoredWhole
  <2> QED BY <1>1, <1>2, <2>1 DEF Mirrored
<1>3. CASE t # s
  <2>1. heads'[t][n] = heads[t][n] /\ HeadContent(t, n)' = HeadContent(t, n)
    BY <1>1, <1>3, StoredWhole
  <2> QED BY <1>1, <2>1, SameMirror
<1> QED BY <1>2, <1>3

\* _commit_session_state remembers what it replaces.
LEMMA DurableWorkerCommit ==
    ASSUME TableInv, TableInv', ProcInv, NEW p \in Procs, Durable(p), NEW s \in Sessions,
           NEW n \in Names, NEW c \in Contents, WorkerCommit(p, s, n, c)
    PROVE  Durable(p)'
<1> DEFINE d == [mem[p][s] EXCEPT ![n] = c]
<1>1. /\ op[p].kind = "none" /\ op[p].kind \notin WriteKinds /\ s \in loaded[p]
      /\ UNCHANGED << loaded, pending >>
  BY DEF WorkerCommit, Idle, WriteKinds
<1>2. mem[p][s] \in Designs /\ d \in Designs
  BY SetOne DEF ProcInv, ProcType
<1>3. CASE /\ s \in adrift[p] /\ UNCHANGED << versions, heads, adrift, dirty >>
           /\ mem' = [mem EXCEPT ![p][s] = d] /\ todo' = [todo EXCEPT ![p] = Legacy]
           /\ op' = [op EXCEPT ![p] = [kind |-> "event", session |-> s, saved |-> mem[p][s]]]
  <2>1. op'[p].kind = "event" /\ op'[p].session = s /\ todo'[p] = Legacy
    BY <1>3 DEF ProcInv, ProcType
  <2>2. \A t \in Sessions \ {s} : mem'[p][t] = mem[p][t]
    BY <1>3 DEF ProcInv, ProcType
  <2>3. InMemory(p)'
    BY <1>1, <1>3, <2>2, DriftMirrors DEF Durable
  <2>4. Hydrated(p)' /\ SavedLegacy(p)' /\ OutOfMemory(p)' /\ Midway(p)'
    BY <1>3, <2>1 DEF Hydrated, SavedLegacy, OutOfMemory, Midway
  <2>5. pending[p] = Nothing
    BY <1>1 DEF Durable, Underway, Importing, Constructed
  <2>6. Importing(p)'
    BY <1>1, <2>1, <2>5 DEF Importing, WriteKinds
  <2> QED BY <2>3, <2>4, <2>6 DEF Durable, Underway
<1>4. CASE /\ s \notin adrift[p] /\ ReplaceSessionDesigns(s, d, "worker-commit")
           /\ UNCHANGED << mem, todo, adrift, dirty >>
           /\ op' = [op EXCEPT ![p] = [kind |-> "refresh", session |-> s,
                                       saved |-> mem[p][s], designs |-> d]]
  <2>0. "worker-commit" \in Operations
    BY DEF Operations
  <2>1. /\ op'[p].kind = "refresh" /\ op'[p].session = s /\ op'[p].saved = mem[p][s]
        /\ op'[p].designs = d
    BY <1>4 DEF ProcInv, ProcType
  <2>2. \A m \in Names : <<s, m>> \in Legacy => mem[p][s][m] # Nothing
    BY <1>1, <1>4 DEF Durable, InMemory, Mirrored
  <2>3. \A m \in Names : <<s, m>> \in Legacy => d[m] # Nothing
    BY <1>2, <2>2, ConstantsAssumption DEF Designs
  <2> HIDE DEF d
  <2>4. \A m \in Names : HeadContent(s, m)' = d[m]
    BY <1>2, <1>4, <2>0, StoredWhole
  <2>5. Midway(p)'
    BY <2>1, <2>3, <2>4 DEF Midway, HeadContent
  <2>6. SavedLegacy(p)'
    BY <2>1, <2>2 DEF SavedLegacy
  <2>7. \A m \in Names : Writing(p, s, m)'
    BY <2>1 DEF Writing
  <2>8. InMemory(p)'
    BY <1>1, <1>2, <1>4, <2>0, <2>3, <2>7, ReplaceMirrors DEF Durable
  <2> QED BY <1>1, <1>4, <2>1, <2>5, <2>6, <2>8, WriteUnderway DEF Durable, WriteKinds
<1>5. CASE /\ \E left \in { mem[p][s], NoDesigns } : LoseMapping(p, s, left)
           /\ UNCHANGED << versions, heads, op, todo >>
  <2>1. /\ \A t \in Sessions \ {s} : mem'[p][t] = mem[p][t]
        /\ s \in adrift'[p] /\ adrift[p] \subseteq adrift'[p]
    BY <1>5 DEF LoseMapping, ProcInv, ProcType
  <2>2. \A t \in Sessions \ {s}, m \in Names : <<t, m>> \in dirty[p] => <<t, m>> \in dirty'[p]
    BY <1>5 DEF LoseMapping, ProcInv, ProcType
  <2>3. InMemory(p)'
    BY <1>1, <1>5, <2>1, <2>2, DriftMirrors DEF Durable
  <2>4. Midway(p)'
    BY <1>1, <1>5 DEF Midway
  <2> QED BY <1>1, <1>5, <2>3, <2>4, WriteUnderway DEF Durable
<1> QED BY <1>3, <1>4, <1>5 DEF WorkerCommit, Construct, Goto, tables

\* The mapping in memory catches up with the database.
LEMMA DurableRefresh ==
    ASSUME TableInv, ProcInv, NEW p \in Procs, Durable(p), CommitRefresh(p) \/ RestoreRefresh(p)
    PROVE  Durable(p)'
<1> DEFINE s == op[p].session
           d == op[p].designs
<1>1. /\ op[p].kind \in {"refresh", "restored"} /\ mem' = [mem EXCEPT ![p][s] = d]
      /\ dirty' = [dirty EXCEPT ![p] = @ \ ({s} \X Names)]
      /\ UNCHANGED << versions, heads, loaded, pending, adrift >>
  BY DEF CommitRefresh, RestoreRefresh, RefreshMapping, tables
<1>2. s \in Sessions /\ d \in Designs
  BY <1>1, OpRefresh DEF ProcInv, ProcType
<1>3. /\ Constructed(p)
      /\ \A n \in Names : /\ HeadContent(s, n) = d[n]
                          /\ <<s, n>> \in Legacy => d[n] # Nothing
  BY <1>1 DEF Durable, Underway, Midway, Importing, WriteKinds
<1>4. \A t, m : Writing(p, t, m) => t = s
  BY <1>1 DEF Writing
<1>5. InMemory(p)'
  <2> HIDE DEF s, d
  <2> SUFFICES ASSUME NEW t \in loaded[p] \ adrift[p], NEW n \in Names
               PROVE  Mirrored(p, t, n)'
    BY <1>1 DEF InMemory
  <2>1. t \in Sessions /\ Mirrored(p, t, n) /\ HeadContent(t, n)' = HeadContent(t, n)
    BY <1>1, QuietHeads DEF ProcInv, ProcType, Durable, InMemory
  <2>2. CASE t = s
    <3>1. mem'[p][s] = d
      BY <1>1, <1>2 DEF ProcInv, ProcType
    <3> QED BY <1>1, <1>3, <2>1, <2>2, <3>1 DEF Mirrored
  <2>3. CASE t # s
    <3>1. mem'[p][t] = mem[p][t] /\ (<<t, n>> \in dirty[p] => <<t, n>> \in dirty'[p])
      BY <1>1, <1>2, <2>1, <2>3 DEF ProcInv, ProcType
    <3>2. ~Writing(p, t, n)
      BY <1>4, <2>3
    <3> QED BY <1>1, <2>1, <3>1, <3>2, SameMirror
  <2> QED BY <2>2, <2>3
<1>6. CASE RestoreRefresh(p)
  <2>1. op' = [op EXCEPT ![p] = Idle] /\ UNCHANGED << todo, pending >>
    BY <1>6 DEF RestoreRefresh, Goto
  <2> QED BY <1>3, <1>5, <2>1, EndsUnderway DEF Durable
<1>7. CASE CommitRefresh(p)
  <2>1. /\ op[p].kind = "refresh" /\ todo' = [todo EXCEPT ![p] = Legacy]
        /\ op' = [op EXCEPT ![p] = [kind |-> "event", session |-> s, saved |-> op[p].saved]]
    BY <1>7 DEF CommitRefresh, Construct, Goto
  <2>2. /\ op'[p].kind = "event" /\ op'[p].session = s /\ op'[p].saved = op[p].saved
        /\ todo'[p] = Legacy
    BY <2>1 DEF ProcInv, ProcType
  <2>3. SavedLegacy(p)'
    BY <1>1, <2>1, <2>2 DEF Durable, Underway, SavedLegacy
  <2>4. Hydrated(p)' /\ OutOfMemory(p)' /\ Midway(p)'
    BY <2>2 DEF Hydrated, OutOfMemory, Midway
  <2>5. Importing(p)'
    BY <1>1, <1>3, <2>2 DEF Importing, Constructed, WriteKinds
  <2> QED BY <1>5, <2>3, <2>4, <2>5 DEF Durable, Underway
<1> QED BY <1>6, <1>7

\* The commit event ends the commit, or its failure starts the restore.
LEMMA DurableCommitEvent ==
    ASSUME ProcInv, NEW p \in Procs, Durable(p), CommitEvent(p) PROVE Durable(p)'
<1>1. /\ op[p].kind = "event" /\ Constructed(p)
      /\ UNCHANGED << versions, heads, mem, adrift, dirty, loaded, todo, pending >>
      /\ op[p].kind \notin WriteKinds
  BY DEF CommitEvent, WriteKinds
<1>2. InMemory(p)'
  BY <1>1, QuietMirrors DEF Durable
<1>3. CASE op' = [op EXCEPT ![p] = Idle]
  BY <1>1, <1>2, <1>3, EndsUnderway DEF Durable
<1>4. CASE op' = [op EXCEPT ![p] = [kind |-> "restore", session |-> op[p].session,
                                     saved |-> op[p].saved]]
  <2>1. /\ op'[p].kind = "restore" /\ op'[p].session = op[p].session
        /\ op'[p].saved = op[p].saved
    BY <1>4 DEF ProcInv, ProcType
  <2>2. Hydrated(p)' /\ OutOfMemory(p)' /\ Midway(p)'
    BY <2>1 DEF Hydrated, OutOfMemory, Midway
  <2>3. SavedLegacy(p)'
    BY <1>1, <2>1 DEF Durable, Underway, SavedLegacy
  <2>4. Importing(p)'
    BY <1>1, <2>1 DEF Durable, Underway, Importing, Constructed
  <2> QED BY <1>2, <2>2, <2>3, <2>4 DEF Durable, Underway
<1> QED BY <1>3, <1>4 DEF CommitEvent, Goto

\* _restore_session_state writes back a mapping with every legacy design.
LEMMA DurableWorkerRestore ==
    ASSUME TableInv, TableInv', ProcInv, NEW p \in Procs, Durable(p), WorkerRestore(p)
    PROVE  Durable(p)'
<1>0. PICK s \in Sessions, d \in Designs : s = op[p].session /\ d = op[p].saved
  BY OpSaved DEF WorkerRestore, ProcInv, ProcType
<1>1. /\ op[p].kind = "restore" /\ op[p].kind \notin WriteKinds
      /\ UNCHANGED << loaded, todo, pending >>
  BY DEF WorkerRestore, WriteKinds
<1>3. Constructed(p)
  BY <1>1 DEF Durable, Underway, Importing
<1>4. CASE /\ s \notin adrift[p] /\ ReplaceSessionDesigns(s, d, "worker-state-restore")
           /\ op' = [op EXCEPT ![p] = [kind |-> "restored", session |-> s, saved |-> d,
                                       designs |-> d]]
           /\ UNCHANGED << mem, adrift, dirty >>
  <2>0. "worker-state-restore" \in Operations
    BY DEF Operations
  <2>1. op'[p].kind = "restored" /\ op'[p].session = s /\ op'[p].designs = d
    BY <1>4 DEF ProcInv, ProcType
  <2>2. \A n \in Names : <<s, n>> \in Legacy => d[n] # Nothing
    BY <1>0, <1>1, <1>4 DEF Durable, Underway, SavedLegacy
  <2>3. \A m \in Names : HeadContent(s, m)' = d[m]
    BY <1>4, <2>0, StoredWhole
  <2>4. Midway(p)'
    BY <2>1, <2>2, <2>3 DEF Midway, HeadContent
  <2>5. \A m \in Names : Writing(p, s, m)'
    BY <2>1 DEF Writing
  <2>6. InMemory(p)'
    BY <1>1, <1>4, <2>0, <2>2, <2>5, ReplaceMirrors DEF Durable
  <2> QED BY <1>1, <2>1, <2>4, <2>6, WriteUnderway DEF Durable, WriteKinds
<1>5. CASE /\ op' = [op EXCEPT ![p] = Idle] /\ UNCHANGED << versions, heads >>
           /\ \/ s \in adrift[p] /\ mem' = [mem EXCEPT ![p][s] = d] /\ UNCHANGED << adrift, dirty >>
              \/ LoseMapping(p, s, NoDesigns)
  <2>1. /\ \A t \in Sessions \ {s} : mem'[p][t] = mem[p][t]
        /\ s \in adrift'[p] /\ adrift[p] \subseteq adrift'[p]
    BY <1>5 DEF LoseMapping, ProcInv, ProcType
  <2>2. \A t \in Sessions \ {s}, m \in Names : <<t, m>> \in dirty[p] => <<t, m>> \in dirty'[p]
    BY <1>5 DEF LoseMapping, ProcInv, ProcType
  <2>3. InMemory(p)'
    BY <1>1, <1>5, <2>1, <2>2, DriftMirrors DEF Durable
  <2> QED BY <1>1, <1>3, <1>5, <2>3, EndsUnderway DEF Durable
<1> QED BY <1>0, <1>4, <1>5 DEF WorkerRestore, Goto, tables

\* A process that starts again has nothing in memory.
LEMMA DurableRestart ==
    ASSUME ProcInv, NEW p \in Procs, Restart(p) PROVE Durable(p)'
<1>1. loaded'[p] = {} /\ op'[p].kind = "none" /\ todo'[p] = {} /\ pending'[p] = Nothing
  BY DEF Restart, Goto, Idle, ProcInv, ProcType
<1>2. InMemory(p)' /\ Hydrated(p)' /\ SavedLegacy(p)' /\ OutOfMemory(p)' /\ Midway(p)'
  BY <1>1 DEF InMemory, Hydrated, SavedLegacy, OutOfMemory, Midway
<1>3. Importing(p)'
  BY <1>1 DEF Importing, Constructed
<1> QED BY <1>2, <1>3 DEF Durable, Underway

DurableInv == \A p \in Procs : Durable(p)

\* One process keeps its memory and the database together.
LEMMA NextDurable ==
    ASSUME OneProcess, TableInv, TableInv', ProcInv, DurableInv, [Next]_vars
    PROVE  DurableInv'
<1>1. CASE UNCHANGED vars
  <2>1. \A s, n : HeadContent(s, n)' = HeadContent(s, n)
    BY <1>1, QuietHeads DEF vars
  <2> SUFFICES ASSUME NEW p \in Procs PROVE Durable(p)'
    BY DEF DurableInv
  <2>2. InMemory(p)'
    BY <1>1, <2>1 DEF vars, DurableInv, Durable, InMemory, Mirrored, Writing
  <2>3. Hydrated(p)' /\ Midway(p)'
    BY <1>1, <2>1 DEF vars, DurableInv, Durable, Underway, Hydrated, Midway
  <2>4. SavedLegacy(p)' /\ Importing(p)' /\ OutOfMemory(p)'
    BY <1>1 DEF vars, DurableInv, Durable, Underway, SavedLegacy, Importing,
                Constructed, OutOfMemory
  <2> QED BY <2>2, <2>3, <2>4 DEF Durable, Underway
<1>2. CASE Next
  <2> PICK p \in Procs :
       \/ ImportCheck(p) \/ ImportStore(p)
       \/ Load(p) \/ Hydrate(p) \/ AppendAudit(p)
       \/ UpsertSnapshot(p) \/ DropSnapshot(p) \/ Destroy(p)
       \/ AssignDesign(p) \/ WriteDesign(p) \/ CommitRefresh(p) \/ CommitEvent(p)
       \/ WorkerRestore(p) \/ RestoreRefresh(p) \/ Restart(p)
       \/ \E s \in Sessions :
             \/ BeginLoad(p, s) \/ BeginAudit(p, s) \/ BeginDestroy(p, s)
             \/ \E n \in Names :
                   \/ BeginSnapshot(p, s, n)
                   \/ \E c \in Contents :
                         \/ CommitDesign(p, s, n, c)
                         \/ SetItem(p, s, n, c)
                         \/ WorkerCommit(p, s, n, c)
    BY <1>2 DEF Next
  <2>1. Durable(p)
    BY DEF DurableInv
  <2>2. Durable(p)'
    BY <2>1, DurableImportCheck, DurableImportStore, DurableLoad, DurableHydrate,
       DurableRecords, DurableDestroy, DurableBegin, DurableBeginDestroy, DurableCommitDesign,
       DurableSetItem, DurableAssign, DurableWriteDesign, DurableWorkerCommit,
       DurableRefresh, DurableCommitEvent, DurableWorkerRestore, DurableRestart
  <2> QED BY <2>2 DEF DurableInv, OneProcess
<1> QED BY <1>1, <1>2

LEMMA InitDurable == Init => DurableInv
<1> SUFFICES ASSUME Init, NEW p \in Procs PROVE Durable(p)
  BY DEF DurableInv
<1>1. loaded[p] = {} /\ op[p].kind = "none" /\ todo[p] = {} /\ pending[p] = Nothing
  BY DEF Init, Idle
<1>2. InMemory(p) /\ Hydrated(p) /\ SavedLegacy(p) /\ OutOfMemory(p) /\ Midway(p)
  BY <1>1 DEF InMemory, Hydrated, SavedLegacy, OutOfMemory, Midway
<1>3. Importing(p)
  BY <1>1 DEF Importing, Constructed
<1> QED BY <1>2, <1>3 DEF Durable, Underway

\* What one process holds in memory is what a restart would load, whatever
\* fails and wherever it is killed: neither a legacy import nor the deletion
\* of a session comes between a session in memory and its heads.
THEOREM MemoryIsDurableHolds ==
    ASSUME OneProcess
    PROVE  Spec => []MemoryIsDurable
<1>1. TableInv /\ ProcInv /\ [Next]_vars => TableInv'
  BY NextTables, TablesInv DEF ProcInv
<1>2. TableInv /\ ProcInv /\ DurableInv /\ [Next]_vars => DurableInv'
  BY <1>1, NextDurable
<1>3. DurableInv => MemoryIsDurable
  BY DEF DurableInv, Durable, InMemory, Mirrored, MemoryIsDurable
<1> QED BY <1>2, <1>3, InitDurable, Invariant, PTL DEF Spec
=============================================================================
