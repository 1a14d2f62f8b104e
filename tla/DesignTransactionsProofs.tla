---------------------- MODULE DesignTransactionsProofs ----------------------
(***************************************************************************)
(* Theorems about design transactions and snapshots, for any number of     *)
(* overlapping calls, transactions, labels and designs, any failing writes *)
(* and any restarts.                                                       *)
(***************************************************************************)
EXTENDS DesignTransactions, TLAPS

-----------------------------------------------------------------------------
(* The inductive invariant.                                                *)

Final == { "committed", "rolled_back" }
Pairs == Contents \X (Contents \cup {None})

TxSteps == { "previewPersist", "erc", "verdict", "verdictPersist", "rejectPersist",
             "commitStore", "commitMemory", "commitRecord", "finalPersist", "finalHistory" }
Installing == { "commitMemory", "replaceMemory", "restoreMemory" }

\* Without overlapping calls on t, the record in memory is at least as far as
\* the one on disk, which is at least as far as what a caller was told, and
\* final records agree.
RecordTail(t) ==
    /\ dState[t] \in Final => state[t] = dState[t]
    /\ dState[t] = "rejected" => state[t] \in { "rejected", "rolled_back" }
    /\ Rank[dState[t]] <= Rank[state[t]]
    /\ dHistory[t] # "none" => dHistory[t] \in Final /\ dHistory[t] = dState[t]
    /\ surface = "direct" =>
          /\ Rank[acked[t]] <= Rank[dState[t]]
          /\ acked[t] \in Final => dState[t] = acked[t] /\ dHistory[t] = acked[t]

RecordInv(t) ==
    /\ t \notin used => /\ state[t] = "none" /\ dState[t] = "none"
                        /\ ~ passed[t] /\ ~ dPassed[t] /\ t \notin installed
    /\ passed[t] \/ dPassed[t] \/ t \in installed => candidate[t] \in Sound
    /\ state[t] = "committed" \/ dState[t] = "committed" => t \in installed
    /\ surface = "mcp" => /\ dState[t] = "none"
                          /\ t \in installed => state[t] \in { "none", "committed" }
    /\ t \notin contended => RecordTail(t)

\* An installed candidate is recorded, or its commit is under way.
InstallInv(t) ==
    surface = "direct" /\ t \in installed \ cut /\ t \notin contended =>
        \/ state[t] = "committed" /\ dState[t] = "committed"
        \/ \E r \in Requests : key[r] = t /\ Unrecorded(r)

SnapInv(l) == surface = "direct" /\ l \notin contended /\ kept[l] # None => dSnaps[l] = kept[l]

\* What a call in progress may rely on from one step to the next: as long as
\* no other call works on its transaction ...
CallTail(r) ==
    /\ pc[r] = "previewPersist" => state[key[r]] = "previewed"
    /\ pc[r] \in { "erc", "verdict" } => state[key[r]] \in { "previewed", "validated" }
    /\ pc[r] = "verdictPersist" => state[key[r]] \in { "validated", "rejected" }
    /\ pc[r] = "rejectPersist" => state[key[r]] = "rejected"
    /\ pc[r] = "commitStore" => state[key[r]] = "validated" /\ passed[key[r]]
    /\ pc[r] \in { "commitMemory", "commitRecord" } => state[key[r]] = "validated"
    /\ pc[r] \in { "finalPersist", "finalHistory" } => state[key[r]] = val[r]
    /\ pc[r] = "finalHistory" => dState[key[r]] = val[r]

\* ... as long as no other call writes the design ...
WriteTail(r) ==
    /\ pc[r] = "commitStore" => design = parent[key[r]]
    /\ pc[r] = "commitMemory" => dDesign = val[r]
    /\ pc[r] \in { "replaceMemory", "restoreMemory" } => dDesign = val[r][1]

\* ... and always.
CallInv(r) ==
    /\ surface = "mcp" => pc[r] = "idle"
    /\ pc[r] \in TxSteps => key[r] \in used
    /\ pc[r] \in { "commitStore", "commitMemory" } => val[r] = candidate[key[r]]
    /\ pc[r] = "commitStore" => candidate[key[r]] \in Sound
    /\ Unrecorded(r) => key[r] \in installed
    /\ pc[r] \in { "finalPersist", "finalHistory" } => val[r] \in Final
    /\ pc[r] \in { "snapPersist", "replaceStore", "restoreStore", "replaceMemory", "restoreMemory" } =>
          val[r] \in Pairs
    /\ pc[r] = "snapPersist" => key[r] \in Labels
    /\ pc[r] = "confirmDelete" =>
          /\ key[r] \in Labels \cup {None}
          /\ \A l \in Chosen(key[r]) : l \notin contended => kept[l] = None
    /\ key[r] \notin contended => CallTail(r)
    /\ crossed \/ WriteTail(r)

\* Every overlap is remembered.
OverlapInv == Contention \subseteq contended /\ (Crossing => crossed)

TxInv ==
    /\ TypeOK
    /\ OverlapInv
    /\ \A t \in Txs : RecordInv(t) /\ InstallInv(t)
    /\ \A l \in Labels : SnapInv(l)
    /\ \A r \in Requests : CallInv(r)

-----------------------------------------------------------------------------
(* Each part of the invariant is kept by every step.                       *)

LEMMA SameTx ==
    ASSUME OverlapInv, NEW r \in Requests, NEW s \in Requests, r # s, key[r] = key[s],
           key[r] \in Txs
    PROVE  key[r] \in contended
BY TransactionAssumption DEF OverlapInv, Contention, Touches, Chosen

LEMMA SameLabel ==
    ASSUME OverlapInv, NEW r \in Requests, NEW s \in Requests, r # s, NEW l \in Labels,
           key[r] = l, pc[s] = "confirmDelete", l \in Chosen(key[s])
    PROVE  l \in contended
BY TransactionAssumption DEF OverlapInv, Contention, Touches, Chosen

LEMMA OverlapStep ==
    ASSUME TxInv, [Next]_vars
    PROVE  OverlapInv' /\ contended \subseteq contended' /\ (crossed => crossed') /\ cut \subseteq cut'
<1>1. CASE Next
  BY <1>1 DEF Next, Remember, OverlapInv
<1>2. CASE UNCHANGED vars
  <2>1. UNCHANGED << pc, key, contended, crossed, cut >>
    BY <1>2 DEF vars, calls, overlaps
  <2>2. Contention' = Contention /\ Crossing' = Crossing
    BY <2>1 DEF Contention, Crossing, Touches
  <2> QED
    BY <2>1, <2>2 DEF TxInv, OverlapInv
<1> QED
  BY <1>1, <1>2

\* Another call keeps its place, its key and its operand.
LEMMA DirectFrame ==
    ASSUME TypeOK, NEW r \in Requests, DirectStep(r), NEW s \in Requests, s # r
    PROVE  pc'[s] = pc[s] /\ key'[s] = key[s] /\ val'[s] = val[s]
<1> DEFINE Same == pc'[s] = pc[s] /\ key'[s] = key[s] /\ val'[s] = val[s]
<1>1. ASSUME NEW t \in Txs, NEW c \in Contents, tool_design_transaction_preview(r, t, c)
      PROVE  Same
  BY <1>1 DEF tool_design_transaction_preview, Start, NewRecord, TypeOK, calls
<1>2. ASSUME PersistAndReturn(r) PROVE Same
  BY <1>2 DEF PersistAndReturn, PersistRecord, Finish, TypeOK, calls
<1>3. ASSUME NEW t \in Txs, tool_design_transaction_validate(r, t) PROVE Same
  BY <1>3 DEF tool_design_transaction_validate, Start, TypeOK, calls
<1>4. ASSUME RunErc(r) PROVE Same
  BY <1>4 DEF RunErc, Goto, TypeOK, calls
<1>5. ASSUME SetVerdict(r) PROVE Same
  BY <1>5 DEF SetVerdict, Goto, TypeOK, calls
<1>6. ASSUME NEW t \in Txs, tool_design_transaction_commit(r, t) PROVE Same
  BY <1>6 DEF tool_design_transaction_commit, Start, TypeOK, calls
<1>7. ASSUME PersistRejection(r) PROVE Same
  BY <1>7 DEF PersistRejection, PersistRecord, Finish, TypeOK, calls
<1>8. ASSUME StoreCandidate(r) PROVE Same
  BY <1>8 DEF StoreCandidate, Goto, TypeOK, calls
<1>9. ASSUME SetCandidate(r) PROVE Same
  BY <1>9 DEF SetCandidate, Goto, TypeOK, calls
<1>10. ASSUME RecordCommit(r) PROVE Same
  BY <1>10 DEF RecordCommit, Conclude, TypeOK, calls
<1>11. ASSUME NEW t \in Txs, tool_design_transaction_rollback(r, t) PROVE Same
  BY <1>11 DEF tool_design_transaction_rollback, Start, Conclude, TypeOK, calls
<1>12. ASSUME PersistFinal(r) PROVE Same
  BY <1>12 DEF PersistFinal, PersistRecord, Goto, TypeOK, calls
<1>13. ASSUME PersistHistory(r) PROVE Same
  BY <1>13 DEF PersistHistory, Finish, TypeOK, calls
<1>14. ASSUME NEW c \in Contents, EditInPlace(r, c) PROVE Same
  BY <1>14 DEF EditInPlace, Start, TypeOK, calls
<1>15. ASSUME PersistEdit(r) PROVE Same
  BY <1>15 DEF PersistEdit, Finish, TypeOK, calls
<1>16. ASSUME NEW c \in Contents, ReplaceDesign(r, c) PROVE Same
  BY <1>16 DEF ReplaceDesign, Start, TypeOK, calls
<1>17. ASSUME NEW l \in Labels, tool_design_snapshot(r, l) PROVE Same
  BY <1>17 DEF tool_design_snapshot, Start, TypeOK, calls
<1>18. ASSUME PersistSnapshot(r) PROVE Same
  BY <1>18 DEF PersistSnapshot, Finish, TypeOK, calls
<1>19. ASSUME NEW l \in Labels, tool_design_rollback(r, l) PROVE Same
  BY <1>19 DEF tool_design_rollback, Start, TypeOK, calls
<1>20. ASSUME StoreOther(r) PROVE Same
  BY <1>20 DEF StoreOther, Goto, TypeOK, calls
<1>21. ASSUME SetOther(r) PROVE Same
  BY <1>21 DEF SetOther, Finish, TypeOK, calls
<1>22. ASSUME NEW k \in Labels \cup {None}, tool_design_commit(r, k) PROVE Same
  BY <1>22 DEF tool_design_commit, Start, Without, TypeOK, calls
<1>23. ASSUME DeleteSnapshots(r) PROVE Same
  BY <1>23 DEF DeleteSnapshots, Finish, TypeOK, calls
<1>24. ASSUME Raise(r) PROVE Same
  BY <1>24 DEF Raise, Finish, TypeOK, calls
<1> QED
  BY <1>1, <1>2, <1>3, <1>4, <1>5, <1>6, <1>7, <1>8, <1>9, <1>10, <1>11, <1>12, <1>13, <1>14,
     <1>15, <1>16, <1>17, <1>18, <1>19, <1>20, <1>21, <1>22, <1>23, <1>24
     DEF DirectStep

\* What a step of call r leaves alone.
Effects(r) ==
    /\ surface' = surface /\ used \subseteq used' /\ installed \subseteq installed'
    /\ \/ budget' = budget
       \/ \E i \in 1 .. 2 : budget[i] > 0 /\ budget' = [budget EXCEPT ![i] = @ - 1]
    /\ \A t \in used : parent'[t] = parent[t] /\ candidate'[t] = candidate[t]
    /\ \A t \in Txs : t # key[r] /\ t # key'[r] =>
          state'[t] = state[t] /\ passed'[t] = passed[t] /\ dState'[t] = dState[t]
    /\ pc[r] \notin WriteSteps /\ pc'[r] \notin WriteSteps => design' = design /\ dDesign' = dDesign
    /\ \A l \in Labels : kept'[l] \in { kept[l], None } \/ (pc[r] = "snapPersist" /\ key[r] = l)

LEMMA DirectEffects == ASSUME TxInv, NEW r \in Requests, DirectStep(r) PROVE Effects(r)
<1> USE DEF session, durable, plan, calls, told
<1>0. TypeOK /\ CallInv(r)
  BY DEF TxInv
<1>1. ASSUME NEW t \in Txs, NEW c \in Contents, tool_design_transaction_preview(r, t, c)
      PROVE  Effects(r)
  BY <1>0, <1>1
     DEF tool_design_transaction_preview, Start, NewRecord, TypeOK, Effects, WriteSteps, Purse
<1>2. ASSUME PersistAndReturn(r) PROVE Effects(r)
  BY <1>0, <1>2 DEF PersistAndReturn, PersistRecord, Finish, TypeOK, Effects, WriteSteps, Purse
<1>3. ASSUME NEW t \in Txs, tool_design_transaction_validate(r, t) PROVE Effects(r)
  BY <1>0, <1>3 DEF tool_design_transaction_validate, Start, TypeOK, Effects, WriteSteps, Purse
<1>4. ASSUME RunErc(r) PROVE Effects(r)
  BY <1>0, <1>4 DEF RunErc, Goto, TypeOK, Effects, WriteSteps, Purse
<1>5. ASSUME SetVerdict(r) PROVE Effects(r)
  BY <1>0, <1>5 DEF SetVerdict, Goto, TypeOK, Effects, WriteSteps, Purse
<1>6. ASSUME NEW t \in Txs, tool_design_transaction_commit(r, t) PROVE Effects(r)
  BY <1>0, <1>6 DEF tool_design_transaction_commit, Start, TypeOK, Effects, WriteSteps, Purse
<1>7. ASSUME PersistRejection(r) PROVE Effects(r)
  BY <1>0, <1>7 DEF PersistRejection, PersistRecord, Finish, TypeOK, Effects, WriteSteps, Purse
<1>8. ASSUME StoreCandidate(r) PROVE Effects(r)
  BY <1>0, <1>8 DEF StoreCandidate, Goto, TypeOK, Effects, WriteSteps, Purse
<1>9. ASSUME SetCandidate(r) PROVE Effects(r)
  BY <1>0, <1>9 DEF SetCandidate, Goto, TypeOK, Effects, WriteSteps, Purse
<1>10. ASSUME RecordCommit(r) PROVE Effects(r)
  BY <1>0, <1>10 DEF RecordCommit, Conclude, TypeOK, Effects, WriteSteps, Purse
<1>11. ASSUME NEW t \in Txs, tool_design_transaction_rollback(r, t) PROVE Effects(r)
  BY <1>0, <1>11
     DEF tool_design_transaction_rollback, Start, Conclude, TypeOK, Effects, WriteSteps, Purse
<1>12. ASSUME PersistFinal(r) PROVE Effects(r)
  BY <1>0, <1>12 DEF PersistFinal, PersistRecord, Goto, TypeOK, Effects, WriteSteps, Purse
<1>13. ASSUME PersistHistory(r) PROVE Effects(r)
  BY <1>0, <1>13 DEF PersistHistory, Finish, TypeOK, Effects, WriteSteps, Purse
<1>14. ASSUME NEW c \in Contents, EditInPlace(r, c) PROVE Effects(r)
  BY <1>0, <1>14 DEF EditInPlace, Start, TypeOK, Effects, WriteSteps, Purse
<1>15. ASSUME PersistEdit(r) PROVE Effects(r)
  BY <1>0, <1>15 DEF PersistEdit, Finish, TypeOK, Effects, WriteSteps, Purse
<1>16. ASSUME NEW c \in Contents, ReplaceDesign(r, c) PROVE Effects(r)
  BY <1>0, <1>16 DEF ReplaceDesign, Start, TypeOK, Effects, WriteSteps, Purse
<1>17. ASSUME NEW l \in Labels, tool_design_snapshot(r, l) PROVE Effects(r)
  BY <1>0, <1>17 DEF tool_design_snapshot, Start, TypeOK, Effects, WriteSteps, Purse
<1>18. ASSUME PersistSnapshot(r) PROVE Effects(r)
  BY <1>0, <1>18 DEF PersistSnapshot, Finish, TypeOK, Effects, WriteSteps, Purse
<1>19. ASSUME NEW l \in Labels, tool_design_rollback(r, l) PROVE Effects(r)
  BY <1>0, <1>19 DEF tool_design_rollback, Start, TypeOK, Effects, WriteSteps, Purse
<1>20. ASSUME StoreOther(r) PROVE Effects(r)
  BY <1>0, <1>20 DEF StoreOther, Goto, TypeOK, Effects, WriteSteps, Purse
<1>21. ASSUME SetOther(r) PROVE Effects(r)
  BY <1>0, <1>21 DEF SetOther, Finish, TypeOK, Effects, WriteSteps, Purse
<1>22. ASSUME NEW k \in Labels \cup {None}, tool_design_commit(r, k) PROVE Effects(r)
  BY <1>0, <1>22 DEF tool_design_commit, Start, Without, TypeOK, Effects, WriteSteps, Purse
<1>23. ASSUME DeleteSnapshots(r) PROVE Effects(r)
  BY <1>0, <1>23 DEF DeleteSnapshots, Finish, TypeOK, Effects, WriteSteps, Purse
<1>24. ASSUME Raise(r) PROVE Effects(r)
  BY <1>0, <1>24 DEF Raise, Finish, TypeOK, Effects, WriteSteps, Purse
<1> QED
  BY <1>1, <1>2, <1>3, <1>4, <1>5, <1>6, <1>7, <1>8, <1>9, <1>10, <1>11, <1>12, <1>13, <1>14,
     <1>15, <1>16, <1>17, <1>18, <1>19, <1>20, <1>21, <1>22, <1>23, <1>24
     DEF DirectStep

\* The bookkeeping keeps its types.
LEMMA GhostTypes ==
    ASSUME TxInv, [Next]_vars
    PROVE  /\ installed \subseteq installed' /\ cut' \subseteq installed'
           /\ contended' \subseteq Txs \cup Labels /\ crossed' \in BOOLEAN
           /\ budget' \in [1 .. 2 -> Nat]
<1>0. TypeOK
  BY DEF TxInv
<1>1. installed \subseteq installed' /\ budget' \in [1 .. 2 -> Nat]
  <2>1. ASSUME NEW r \in Requests, DirectStep(r)
        PROVE  installed \subseteq installed' /\ budget' \in [1 .. 2 -> Nat]
    <3>1. Effects(r)
      BY <2>1, DirectEffects
    <3> QED
      BY <1>0, <3>1 DEF Effects, TypeOK
  <2>2. CASE IsolatedStep \/ CheckDesign \/ Restart
    <3>1. installed \subseteq installed' /\ budget' = budget
      BY <2>2 DEF IsolatedStep, Isolated, IsolatedPreview, IsolatedValidate, IsolatedCommit,
         IsolatedRollback, IsolatedChange, IsolatedSnapshot, IsolatedConfirm, CheckDesign,
         Restart, calls
    <3> QED
      BY <1>0, <3>1 DEF TypeOK
  <2>3. CASE UNCHANGED vars
    BY <1>0, <2>3 DEF vars, calls, TypeOK
  <2> QED
    BY <2>1, <2>2, <2>3 DEF Next, Step
<1>2. CASE UNCHANGED vars
  BY <1>0, <1>1, <1>2 DEF vars, overlaps, TypeOK
<1>3. CASE Next
  <2>1. \A r \in Requests : Unrecorded(r) => key[r] \in installed
    BY DEF TxInv, CallInv
  <2>2. cut' \subseteq installed'
    BY <1>0, <1>1, <1>3, <2>1 DEF Next, Remember, TypeOK
  <2>3. Contention' \subseteq Txs \cup Labels /\ Crossing' \in BOOLEAN
    BY DEF Contention, Crossing
  <2> QED
    BY <1>0, <1>1, <1>3, <2>2, <2>3 DEF Next, Remember, TypeOK
<1> QED
  BY <1>2, <1>3

LEMMA TypeStep == ASSUME TxInv, [Next]_vars PROVE TypeOK'
<1> USE DEF session, durable, plan, calls, told
<1>0. TypeOK
  BY DEF TxInv
<1>h. /\ installed \subseteq installed' /\ cut' \subseteq installed'
      /\ contended' \subseteq Txs \cup Labels /\ crossed' \in BOOLEAN
      /\ budget' \in [1 .. 2 -> Nat]
  BY GhostTypes
<1>s. results \in Contents \cup {None} /\ \A l \in Labels : snaps[l] # None =>
          snaps[l] \in Pairs /\ snaps[l][1] \in Contents /\ snaps[l][2] \in Contents \cup {None}
  BY <1>0 DEF TypeOK, Snapshots, Pairs
<1>1. ASSUME NEW r \in Requests, NEW t \in Txs, NEW c \in Contents, tool_design_transaction_preview(r, t, c)
      PROVE  TypeOK'
  <2>1. CallInv(r)
    BY DEF TxInv
  <2> QED
    BY <1>0, <1>h, <1>1, <2>1, <1>s
       DEF tool_design_transaction_preview, Start, NewRecord, TypeOK, Steps, CallInv, TxSteps,
           Final, Pairs, States, Snapshots
<1>2. ASSUME NEW r \in Requests, PersistAndReturn(r) PROVE TypeOK'
  <2>1. CallInv(r)
    BY DEF TxInv
  <2> QED
    BY <1>0, <1>h, <1>2, <2>1, <1>s
       DEF PersistAndReturn, PersistRecord, Ack, Finish, TypeOK, Steps, CallInv, TxSteps,
           Final, Pairs, States, Snapshots
<1>3. ASSUME NEW r \in Requests, NEW t \in Txs, tool_design_transaction_validate(r, t)
      PROVE  TypeOK'
  <2>1. CallInv(r)
    BY DEF TxInv
  <2> QED
    BY <1>0, <1>h, <1>3, <2>1, <1>s
       DEF tool_design_transaction_validate, Start, CanValidate, TypeOK, Steps, CallInv,
           TxSteps, Final, Pairs, States, Snapshots
<1>4. ASSUME NEW r \in Requests, RunErc(r) PROVE TypeOK'
  <2>1. CallInv(r)
    BY DEF TxInv
  <2> QED
    BY <1>0, <1>h, <1>4, <2>1, <1>s
       DEF RunErc, Goto, TypeOK, Steps, CallInv, TxSteps, Final, Pairs, States, Snapshots
<1>5. ASSUME NEW r \in Requests, SetVerdict(r) PROVE TypeOK'
  <2>1. CallInv(r)
    BY DEF TxInv
  <2> QED
    BY <1>0, <1>h, <1>5, <2>1, <1>s
       DEF SetVerdict, Goto, TypeOK, Steps, CallInv, TxSteps, Final, Pairs, States, Snapshots
<1>6. ASSUME NEW r \in Requests, NEW t \in Txs, tool_design_transaction_commit(r, t) PROVE TypeOK'
  <2>1. \/ Start(r, "commitStore", t, candidate[t]) /\ state' = state
        \/ Start(r, "rejectPersist", t, None) /\ state' = [state EXCEPT ![t] = "rejected"]
    BY <1>0, <1>h, <1>6 DEF tool_design_transaction_commit
  <2>2. candidate[t] \in Contents
    BY <1>0 DEF TypeOK
  <2>3. val' \in [Requests -> Snapshots \cup Contents \cup States]
    BY <1>0, <2>1, <2>2 DEF Start, TypeOK, Snapshots
  <2>4. /\ pc' \in [Requests -> Steps] /\ key' \in [Requests -> Txs \cup Labels \cup {None}]
        /\ state' \in [Txs -> States]
    BY <1>0, <2>1 DEF Start, TypeOK, Steps, States
  <2> QED
    BY <1>0, <1>h, <1>6, <2>3, <2>4 DEF tool_design_transaction_commit, TypeOK
<1>7. ASSUME NEW r \in Requests, PersistRejection(r) PROVE TypeOK'
  <2>1. CallInv(r)
    BY DEF TxInv
  <2> QED
    BY <1>0, <1>h, <1>7, <2>1, <1>s
       DEF PersistRejection, PersistRecord, Finish, TypeOK, Steps, CallInv, TxSteps, Final,
           Pairs, States, Snapshots
<1>8. ASSUME NEW r \in Requests, StoreCandidate(r) PROVE TypeOK'
  <2>1. CallInv(r)
    BY DEF TxInv
  <2> QED
    BY <1>0, <1>h, <1>8, <2>1, <1>s
       DEF StoreCandidate, Goto, TypeOK, Steps, CallInv, TxSteps, Final, Pairs, States,
           Snapshots
<1>9. ASSUME NEW r \in Requests, SetCandidate(r) PROVE TypeOK'
  <2>1. CallInv(r)
    BY DEF TxInv
  <2> QED
    BY <1>0, <1>h, <1>9, <2>1, <1>s
       DEF SetCandidate, Goto, TypeOK, Steps, CallInv, TxSteps, Final, Pairs, States,
           Snapshots
<1>10. ASSUME NEW r \in Requests, RecordCommit(r) PROVE TypeOK'
  <2>1. CallInv(r)
    BY DEF TxInv
  <2> QED
    BY <1>0, <1>h, <1>10, <2>1, <1>s
       DEF RecordCommit, Conclude, TypeOK, Steps, CallInv, TxSteps, Final, Pairs, States,
           Snapshots
<1>11. ASSUME NEW r \in Requests, NEW t \in Txs, tool_design_transaction_rollback(r, t)
       PROVE  TypeOK'
  <2>1. CallInv(r)
    BY DEF TxInv
  <2> QED
    BY <1>0, <1>h, <1>11, <2>1, <1>s
       DEF tool_design_transaction_rollback, Start, Conclude, CanRollBack, TypeOK, Steps,
           CallInv, TxSteps, Final, Pairs, States, Snapshots
<1>12. ASSUME NEW r \in Requests, PersistFinal(r) PROVE TypeOK'
  <2>1. CallInv(r)
    BY DEF TxInv
  <2> QED
    BY <1>0, <1>h, <1>12, <2>1, <1>s
       DEF PersistFinal, PersistRecord, Goto, TypeOK, Steps, CallInv, TxSteps, Final, Pairs,
           States, Snapshots
<1>13. ASSUME NEW r \in Requests, PersistHistory(r) PROVE TypeOK'
  <2>1. CallInv(r)
    BY DEF TxInv
  <2> QED
    BY <1>0, <1>h, <1>13, <2>1, <1>s
       DEF PersistHistory, Ack, Finish, TypeOK, Steps, CallInv, TxSteps, Final, Pairs, States,
           Snapshots
<1>14. ASSUME NEW r \in Requests, NEW c \in Contents, EditInPlace(r, c) PROVE TypeOK'
  <2>1. CallInv(r)
    BY DEF TxInv
  <2> QED
    BY <1>0, <1>h, <1>14, <2>1, <1>s
       DEF EditInPlace, Start, TypeOK, Steps, CallInv, TxSteps, Final, Pairs, States,
           Snapshots
<1>15. ASSUME NEW r \in Requests, PersistEdit(r) PROVE TypeOK'
  <2>1. CallInv(r)
    BY DEF TxInv
  <2> QED
    BY <1>0, <1>h, <1>15, <2>1, <1>s
       DEF PersistEdit, Finish, TypeOK, Steps, CallInv, TxSteps, Final, Pairs, States,
           Snapshots
<1>16. ASSUME NEW r \in Requests, NEW c \in Contents, ReplaceDesign(r, c) PROVE TypeOK'
  <2>1. CallInv(r)
    BY DEF TxInv
  <2> QED
    BY <1>0, <1>h, <1>16, <2>1, <1>s
       DEF ReplaceDesign, Start, TypeOK, Steps, CallInv, TxSteps, Final, Pairs, States,
           Snapshots
<1>17. ASSUME NEW r \in Requests, NEW l \in Labels, tool_design_snapshot(r, l) PROVE TypeOK'
  <2>1. CallInv(r)
    BY DEF TxInv
  <2> QED
    BY <1>0, <1>h, <1>17, <2>1, <1>s
       DEF tool_design_snapshot, Start, TypeOK, Steps, CallInv, TxSteps, Final, Pairs, States,
           Snapshots
<1>18. ASSUME NEW r \in Requests, PersistSnapshot(r) PROVE TypeOK'
  <2>1. CallInv(r)
    BY DEF TxInv
  <2> QED
    BY <1>0, <1>h, <1>18, <2>1, <1>s
       DEF PersistSnapshot, Finish, TypeOK, Steps, CallInv, TxSteps, Final, Pairs, States,
           Snapshots
<1>19. ASSUME NEW r \in Requests, NEW l \in Labels, tool_design_rollback(r, l) PROVE TypeOK'
  <2>1. CallInv(r)
    BY DEF TxInv
  <2> QED
    BY <1>0, <1>h, <1>19, <2>1, <1>s
       DEF tool_design_rollback, Start, TypeOK, Steps, CallInv, TxSteps, Final, Pairs, States,
           Snapshots
<1>20. ASSUME NEW r \in Requests, StoreOther(r) PROVE TypeOK'
  <2>1. CallInv(r)
    BY DEF TxInv
  <2> QED
    BY <1>0, <1>h, <1>20, <2>1, <1>s
       DEF StoreOther, Goto, TypeOK, Steps, CallInv, TxSteps, Final, Pairs, States, Snapshots
<1>21. ASSUME NEW r \in Requests, SetOther(r) PROVE TypeOK'
  <2>1. CallInv(r)
    BY DEF TxInv
  <2> QED
    BY <1>0, <1>h, <1>21, <2>1, <1>s
       DEF SetOther, Finish, TypeOK, Steps, CallInv, TxSteps, Final, Pairs, States, Snapshots
<1>22. ASSUME NEW r \in Requests, NEW k \in Labels \cup {None}, tool_design_commit(r, k)
       PROVE  TypeOK'
  <2>1. CallInv(r)
    BY DEF TxInv
  <2> QED
    BY <1>0, <1>h, <1>22, <2>1, <1>s
       DEF tool_design_commit, Start, Without, Chosen, TypeOK, Steps, CallInv, TxSteps, Final,
           Pairs, States, Snapshots
<1>23. ASSUME NEW r \in Requests, DeleteSnapshots(r) PROVE TypeOK'
  <2>1. CallInv(r)
    BY DEF TxInv
  <2> QED
    BY <1>0, <1>h, <1>23, <2>1, <1>s
       DEF DeleteSnapshots, Finish, Without, Chosen, TypeOK, Steps, CallInv, TxSteps, Final,
           Pairs, States, Snapshots
<1>24. ASSUME NEW r \in Requests, Raise(r) PROVE TypeOK'
  <2>1. CallInv(r)
    BY DEF TxInv
  <2> QED
    BY <1>0, <1>h, <1>24, <2>1, <1>s
       DEF Raise, Finish, TypeOK, Steps, CallInv, TxSteps, Final, Pairs, States, Snapshots
<1>25. ASSUME NEW t \in Txs, NEW c \in Contents, IsolatedPreview(t, c) PROVE TypeOK'
  BY <1>0, <1>h, <1>25, <1>s
     DEF IsolatedPreview, Isolated, NewRecord, Ack, TypeOK, Pairs, States, Snapshots
<1>26. ASSUME NEW t \in Txs, IsolatedValidate(t) PROVE TypeOK'
  BY <1>0, <1>h, <1>26, <1>s
     DEF IsolatedValidate, Isolated, CanValidate, Ack, TypeOK, Pairs, States, Snapshots
<1>27. ASSUME NEW t \in Txs, IsolatedCommit(t) PROVE TypeOK'
  <2>1. RecordInv(t)
    BY DEF TxInv
  <2>2. t \in used
    BY <1>0, <1>h, <1>27, <2>1 DEF IsolatedCommit, CanCommit, RecordInv
  <2> QED
    BY <1>0, <1>h, <1>27, <2>2
       DEF IsolatedCommit, Isolated, CanCommit, Conclude, Ack, TypeOK, States
<1>28. ASSUME NEW t \in Txs, IsolatedRollback(t) PROVE TypeOK'
  BY <1>0, <1>h, <1>28, <1>s
     DEF IsolatedRollback, Isolated, CanRollBack, Conclude, Ack, TypeOK, Pairs, States,
         Snapshots
<1>29. ASSUME NEW c \in Contents, NEW a \in Contents \cup {None}, IsolatedChange(c, a)
       PROVE  TypeOK'
  BY <1>0, <1>h, <1>29, <1>s DEF IsolatedChange, Isolated, TypeOK, Pairs, States, Snapshots
<1>30. ASSUME NEW l \in Labels, IsolatedSnapshot(l) PROVE TypeOK'
  BY <1>0, <1>h, <1>30, <1>s DEF IsolatedSnapshot, Isolated, TypeOK, Pairs, States, Snapshots
<1>31. ASSUME NEW k \in Labels \cup {None}, IsolatedConfirm(k) PROVE TypeOK'
  BY <1>0, <1>h, <1>31, <1>s
     DEF IsolatedConfirm, Isolated, Without, Chosen, TypeOK, Pairs, States, Snapshots
<1>32. ASSUME CheckDesign PROVE TypeOK'
  BY <1>0, <1>h, <1>32, <1>s DEF CheckDesign, TypeOK, Pairs, States, Snapshots
<1>33. ASSUME Restart PROVE TypeOK'
  <2>1. history' \in SUBSET (Txs \X States)
    BY <1>0, <1>h, <1>33 DEF Restart, TypeOK
  <2>2. /\ pc' \in [Requests -> Steps] /\ key' \in [Requests -> Txs \cup Labels \cup {None}]
        /\ val' \in [Requests -> Snapshots \cup Contents \cup States]
    BY <1>0, <1>h, <1>33 DEF Restart, Steps, Snapshots
  <2> QED
    BY <1>0, <1>h, <1>33, <2>1, <2>2 DEF Restart, TypeOK
<1>34. CASE UNCHANGED vars
  BY <1>0, <1>h, <1>34 DEF vars, TypeOK
<1>35. ASSUME NEW r \in Requests, DirectStep(r) PROVE TypeOK'
  BY <1>1, <1>2, <1>3, <1>4, <1>5, <1>6, <1>7, <1>8, <1>9, <1>10, <1>11, <1>12, <1>13, <1>14,
     <1>15, <1>16, <1>17, <1>18, <1>19, <1>20, <1>21, <1>22, <1>23, <1>24, <1>35
     DEF DirectStep
<1>36. ASSUME IsolatedStep PROVE TypeOK'
  BY <1>s, <1>25, <1>26, <1>27, <1>28, <1>29, <1>30, <1>31, <1>36 DEF IsolatedStep
<1> QED
  BY <1>32, <1>33, <1>34, <1>35, <1>36 DEF Next, Step

LEMMA RankValues ==
    /\ Rank["none"] = 0 /\ Rank["previewed"] = 1 /\ Rank["validated"] = 2
    /\ Rank["rejected"] = 2 /\ Rank["committed"] = 3 /\ Rank["rolled_back"] = 3
BY DEF Rank

LEMMA RecordStep == ASSUME TxInv, [Next]_vars, NEW x \in Txs PROVE RecordInv(x)'
<1> USE DEF session, durable, plan, calls, told
<1>0. TypeOK /\ RecordInv(x)
  BY DEF TxInv
<1>c. contended \subseteq contended'
  BY OverlapStep
<1>s. results \in Contents \cup {None} /\ \A l \in Labels : snaps[l] # None =>
          snaps[l] \in Pairs /\ snaps[l][1] \in Contents /\ snaps[l][2] \in Contents \cup {None}
  BY <1>0 DEF TypeOK, Snapshots, Pairs
<1>1. ASSUME NEW r \in Requests, NEW t \in Txs, NEW c \in Contents, tool_design_transaction_preview(r, t, c)
      PROVE  RecordInv(x)'
  <2>1. CallInv(r)
    BY DEF TxInv
  <2> QED
    BY <1>0, <1>c, <1>1, <2>1, RankValues
       DEF tool_design_transaction_preview, Start, NewRecord, TypeOK, RecordInv, RecordTail, Final,
           CallInv, CallTail, Unrecorded, TxSteps, States
<1>2. ASSUME NEW r \in Requests, PersistAndReturn(r) PROVE RecordInv(x)'
  <2>1. CallInv(r)
    BY DEF TxInv
  <2> QED
    BY <1>0, <1>c, <1>2, <2>1, RankValues
       DEF PersistAndReturn, PersistRecord, Ack, Finish, TypeOK, RecordInv, RecordTail, Final,
           CallInv, CallTail, Unrecorded,
           TxSteps, States
<1>3. ASSUME NEW r \in Requests, NEW t \in Txs, tool_design_transaction_validate(r, t)
      PROVE  RecordInv(x)'
  BY <1>0, <1>c, <1>3 DEF tool_design_transaction_validate, RecordInv, RecordTail
<1>4. ASSUME NEW r \in Requests, RunErc(r) PROVE RecordInv(x)'
  <2>1. CallInv(r)
    BY DEF TxInv
  <2> QED
    BY <1>0, <1>c, <1>4, <2>1, RankValues
       DEF RunErc, Goto, TypeOK, RecordInv, RecordTail, Final, CallInv, CallTail, Unrecorded,
           TxSteps, States
<1>5. ASSUME NEW r \in Requests, SetVerdict(r) PROVE RecordInv(x)'
  <2>1. CallInv(r)
    BY DEF TxInv
  <2> QED
    BY <1>0, <1>c, <1>5, <2>1, RankValues
       DEF SetVerdict, Goto, TypeOK, RecordInv, RecordTail, Final, CallInv, CallTail, Unrecorded,
           TxSteps, States
<1>6. ASSUME NEW r \in Requests, NEW t \in Txs, tool_design_transaction_commit(r, t)
      PROVE  RecordInv(x)'
  <2>1. CallInv(r)
    BY DEF TxInv
  <2> QED
    BY <1>0, <1>c, <1>6, <2>1, RankValues
       DEF tool_design_transaction_commit, Start, CanCommit, TypeOK, RecordInv, RecordTail, Final,
           CallInv, CallTail, Unrecorded,
           TxSteps, States
<1>7. ASSUME NEW r \in Requests, PersistRejection(r) PROVE RecordInv(x)'
  <2>1. CallInv(r)
    BY DEF TxInv
  <2> QED
    BY <1>0, <1>c, <1>7, <2>1, RankValues
       DEF PersistRejection, PersistRecord, Finish, TypeOK, RecordInv, RecordTail, Final, CallInv,
           CallTail, Unrecorded, TxSteps,
           States
<1>8. ASSUME NEW r \in Requests, StoreCandidate(r) PROVE RecordInv(x)'
  <2>1. CallInv(r)
    BY DEF TxInv
  <2> QED
    BY <1>0, <1>c, <1>8, <2>1, RankValues
       DEF StoreCandidate, Goto, TypeOK, RecordInv, RecordTail, Final, CallInv, CallTail,
           Unrecorded, TxSteps, States
<1>9. ASSUME NEW r \in Requests, SetCandidate(r) PROVE RecordInv(x)'
  BY <1>0, <1>c, <1>9 DEF SetCandidate, RecordInv, RecordTail
<1>10. ASSUME NEW r \in Requests, RecordCommit(r) PROVE RecordInv(x)'
  <2>1. CallInv(r)
    BY DEF TxInv
  <2> QED
    BY <1>0, <1>c, <1>10, <2>1, RankValues
       DEF RecordCommit, Conclude, TypeOK, RecordInv, RecordTail, Final, CallInv, CallTail,
           Unrecorded, TxSteps, States
<1>11. ASSUME NEW r \in Requests, NEW t \in Txs, tool_design_transaction_rollback(r, t)
       PROVE  RecordInv(x)'
  <2>1. CallInv(r)
    BY DEF TxInv
  <2> QED
    BY <1>0, <1>c, <1>11, <2>1, RankValues
       DEF tool_design_transaction_rollback, Start, Conclude, CanRollBack, TypeOK, RecordInv,
           RecordTail,
           Final, CallInv, CallTail, Unrecorded, TxSteps, States
<1>12. ASSUME NEW r \in Requests, PersistFinal(r) PROVE RecordInv(x)'
  <2>1. CallInv(r)
    BY DEF TxInv
  <2> QED
    BY <1>0, <1>c, <1>12, <2>1, RankValues
       DEF PersistFinal, PersistRecord, Goto, TypeOK, RecordInv, RecordTail, Final, CallInv,
           CallTail, Unrecorded, TxSteps,
           States
<1>13. ASSUME NEW r \in Requests, PersistHistory(r) PROVE RecordInv(x)'
  <2>1. CallInv(r)
    BY DEF TxInv
  <2> QED
    BY <1>0, <1>c, <1>13, <2>1, RankValues
       DEF PersistHistory, Ack, Finish, TypeOK, RecordInv, RecordTail, Final, CallInv, CallTail,
           Unrecorded, TxSteps, States
<1>14. ASSUME NEW r \in Requests, NEW c \in Contents, EditInPlace(r, c) PROVE RecordInv(x)'
  BY <1>0, <1>c, <1>14 DEF EditInPlace, RecordInv, RecordTail
<1>15. ASSUME NEW r \in Requests, PersistEdit(r) PROVE RecordInv(x)'
  BY <1>0, <1>c, <1>15 DEF PersistEdit, RecordInv, RecordTail
<1>16. ASSUME NEW r \in Requests, NEW c \in Contents, ReplaceDesign(r, c) PROVE RecordInv(x)'
  BY <1>0, <1>c, <1>16 DEF ReplaceDesign, RecordInv, RecordTail
<1>17. ASSUME NEW r \in Requests, NEW l \in Labels, tool_design_snapshot(r, l) PROVE RecordInv(x)'
  BY <1>0, <1>c, <1>17 DEF tool_design_snapshot, RecordInv, RecordTail
<1>18. ASSUME NEW r \in Requests, PersistSnapshot(r) PROVE RecordInv(x)'
  BY <1>0, <1>c, <1>18 DEF PersistSnapshot, RecordInv, RecordTail
<1>19. ASSUME NEW r \in Requests, NEW l \in Labels, tool_design_rollback(r, l) PROVE RecordInv(x)'
  BY <1>0, <1>c, <1>19 DEF tool_design_rollback, RecordInv, RecordTail
<1>20. ASSUME NEW r \in Requests, StoreOther(r) PROVE RecordInv(x)'
  BY <1>0, <1>c, <1>20 DEF StoreOther, RecordInv, RecordTail
<1>21. ASSUME NEW r \in Requests, SetOther(r) PROVE RecordInv(x)'
  BY <1>0, <1>c, <1>21 DEF SetOther, RecordInv, RecordTail
<1>22. ASSUME NEW r \in Requests, NEW k \in Labels \cup {None}, tool_design_commit(r, k)
       PROVE  RecordInv(x)'
  BY <1>0, <1>c, <1>22 DEF tool_design_commit, RecordInv, RecordTail
<1>23. ASSUME NEW r \in Requests, DeleteSnapshots(r) PROVE RecordInv(x)'
  BY <1>0, <1>c, <1>23 DEF DeleteSnapshots, RecordInv, RecordTail
<1>24. ASSUME NEW r \in Requests, Raise(r) PROVE RecordInv(x)'
  BY <1>0, <1>c, <1>24 DEF Raise, RecordInv, RecordTail
<1>25. ASSUME NEW t \in Txs, NEW c \in Contents, IsolatedPreview(t, c) PROVE RecordInv(x)'
  BY <1>0, <1>c, <1>25, RankValues
     DEF IsolatedPreview, Isolated, NewRecord, Ack, TypeOK, RecordInv, RecordTail, Final, States
<1>26. ASSUME NEW t \in Txs, IsolatedValidate(t) PROVE RecordInv(x)'
  BY <1>0, <1>c, <1>26, RankValues
     DEF IsolatedValidate, Isolated, CanValidate, Ack, TypeOK, RecordInv, RecordTail, Final, States
<1>27. ASSUME NEW t \in Txs, IsolatedCommit(t) PROVE RecordInv(x)'
  BY <1>0, <1>c, <1>27, RankValues
     DEF IsolatedCommit, Isolated, CanCommit, Conclude, Ack, TypeOK, RecordInv, RecordTail, Final,
         States
<1>28. ASSUME NEW t \in Txs, IsolatedRollback(t) PROVE RecordInv(x)'
  BY <1>0, <1>c, <1>28, RankValues
     DEF IsolatedRollback, Isolated, CanRollBack, Conclude, Ack, TypeOK, RecordInv, RecordTail,
         Final,
         States
<1>29. ASSUME NEW c \in Contents, NEW a \in Contents \cup {None}, IsolatedChange(c, a)
       PROVE  RecordInv(x)'
  BY <1>0, <1>c, <1>29 DEF IsolatedChange, Isolated, RecordInv, RecordTail
<1>30. ASSUME NEW l \in Labels, IsolatedSnapshot(l) PROVE RecordInv(x)'
  BY <1>0, <1>c, <1>30 DEF IsolatedSnapshot, Isolated, RecordInv, RecordTail
<1>31. ASSUME NEW k \in Labels \cup {None}, IsolatedConfirm(k) PROVE RecordInv(x)'
  BY <1>0, <1>c, <1>31 DEF IsolatedConfirm, Isolated, RecordInv, RecordTail
<1>32. ASSUME CheckDesign PROVE RecordInv(x)'
  BY <1>0, <1>c, <1>32 DEF CheckDesign, RecordInv, RecordTail
<1>33. ASSUME Restart PROVE RecordInv(x)'
  BY <1>0, <1>c, <1>33, RankValues DEF Restart, TypeOK, RecordInv, RecordTail, Final, States
<1>34. CASE UNCHANGED vars
  BY <1>0, <1>c, <1>34 DEF vars, RecordInv, RecordTail
<1>35. ASSUME NEW r \in Requests, DirectStep(r) PROVE RecordInv(x)'
  BY <1>1, <1>2, <1>3, <1>4, <1>5, <1>6, <1>7, <1>8, <1>9, <1>10, <1>11, <1>12, <1>13, <1>14,
     <1>15, <1>16, <1>17, <1>18, <1>19, <1>20, <1>21, <1>22, <1>23, <1>24, <1>35
     DEF DirectStep
<1>36. ASSUME IsolatedStep PROVE RecordInv(x)'
  BY <1>s, <1>25, <1>26, <1>27, <1>28, <1>29, <1>30, <1>31, <1>36 DEF IsolatedStep
<1> QED
  BY <1>32, <1>33, <1>34, <1>35, <1>36 DEF Next, Step

LEMMA SnapStep == ASSUME TxInv, [Next]_vars, NEW x \in Labels PROVE SnapInv(x)'
<1> USE DEF session, durable, plan, calls, told
<1>0. TypeOK /\ SnapInv(x)
  BY DEF TxInv
<1>c. contended \subseteq contended'
  BY OverlapStep
<1>s. results \in Contents \cup {None} /\ \A l \in Labels : snaps[l] # None =>
          snaps[l] \in Pairs /\ snaps[l][1] \in Contents /\ snaps[l][2] \in Contents \cup {None}
  BY <1>0 DEF TypeOK, Snapshots, Pairs
<1>1. ASSUME NEW r \in Requests, NEW t \in Txs, NEW c \in Contents, tool_design_transaction_preview(r, t, c)
      PROVE  SnapInv(x)'
  BY <1>0, <1>c, <1>1 DEF tool_design_transaction_preview, SnapInv
<1>2. ASSUME NEW r \in Requests, PersistAndReturn(r) PROVE SnapInv(x)'
  BY <1>0, <1>c, <1>2 DEF PersistAndReturn, PersistRecord, SnapInv
<1>3. ASSUME NEW r \in Requests, NEW t \in Txs, tool_design_transaction_validate(r, t)
      PROVE  SnapInv(x)'
  BY <1>0, <1>c, <1>3 DEF tool_design_transaction_validate, SnapInv
<1>4. ASSUME NEW r \in Requests, RunErc(r) PROVE SnapInv(x)'
  BY <1>0, <1>c, <1>4 DEF RunErc, SnapInv
<1>5. ASSUME NEW r \in Requests, SetVerdict(r) PROVE SnapInv(x)'
  BY <1>0, <1>c, <1>5 DEF SetVerdict, SnapInv
<1>6. ASSUME NEW r \in Requests, NEW t \in Txs, tool_design_transaction_commit(r, t)
      PROVE  SnapInv(x)'
  BY <1>0, <1>c, <1>6 DEF tool_design_transaction_commit, SnapInv
<1>7. ASSUME NEW r \in Requests, PersistRejection(r) PROVE SnapInv(x)'
  BY <1>0, <1>c, <1>7 DEF PersistRejection, PersistRecord, SnapInv
<1>8. ASSUME NEW r \in Requests, StoreCandidate(r) PROVE SnapInv(x)'
  BY <1>0, <1>c, <1>8 DEF StoreCandidate, SnapInv
<1>9. ASSUME NEW r \in Requests, SetCandidate(r) PROVE SnapInv(x)'
  BY <1>0, <1>c, <1>9 DEF SetCandidate, SnapInv
<1>10. ASSUME NEW r \in Requests, RecordCommit(r) PROVE SnapInv(x)'
  BY <1>0, <1>c, <1>10 DEF RecordCommit, SnapInv
<1>11. ASSUME NEW r \in Requests, NEW t \in Txs, tool_design_transaction_rollback(r, t)
       PROVE  SnapInv(x)'
  BY <1>0, <1>c, <1>11 DEF tool_design_transaction_rollback, SnapInv
<1>12. ASSUME NEW r \in Requests, PersistFinal(r) PROVE SnapInv(x)'
  BY <1>0, <1>c, <1>12 DEF PersistFinal, PersistRecord, SnapInv
<1>13. ASSUME NEW r \in Requests, PersistHistory(r) PROVE SnapInv(x)'
  BY <1>0, <1>c, <1>13 DEF PersistHistory, SnapInv
<1>14. ASSUME NEW r \in Requests, NEW c \in Contents, EditInPlace(r, c) PROVE SnapInv(x)'
  BY <1>0, <1>c, <1>14 DEF EditInPlace, SnapInv
<1>15. ASSUME NEW r \in Requests, PersistEdit(r) PROVE SnapInv(x)'
  BY <1>0, <1>c, <1>15 DEF PersistEdit, SnapInv
<1>16. ASSUME NEW r \in Requests, NEW c \in Contents, ReplaceDesign(r, c) PROVE SnapInv(x)'
  BY <1>0, <1>c, <1>16 DEF ReplaceDesign, SnapInv
<1>17. ASSUME NEW r \in Requests, NEW l \in Labels, tool_design_snapshot(r, l) PROVE SnapInv(x)'
  BY <1>0, <1>c, <1>17 DEF tool_design_snapshot, SnapInv
<1>18. ASSUME NEW r \in Requests, PersistSnapshot(r) PROVE SnapInv(x)'
  <2>1. CallInv(r)
    BY DEF TxInv
  <2> QED
    BY <1>0, <1>c, <1>18, <2>1 DEF PersistSnapshot, Finish, TypeOK, SnapInv, CallInv
<1>19. ASSUME NEW r \in Requests, NEW l \in Labels, tool_design_rollback(r, l) PROVE SnapInv(x)'
  BY <1>0, <1>c, <1>19 DEF tool_design_rollback, SnapInv
<1>20. ASSUME NEW r \in Requests, StoreOther(r) PROVE SnapInv(x)'
  BY <1>0, <1>c, <1>20 DEF StoreOther, SnapInv
<1>21. ASSUME NEW r \in Requests, SetOther(r) PROVE SnapInv(x)'
  BY <1>0, <1>c, <1>21 DEF SetOther, SnapInv
<1>22. ASSUME NEW r \in Requests, NEW k \in Labels \cup {None}, tool_design_commit(r, k)
       PROVE  SnapInv(x)'
  <2>1. CallInv(r)
    BY DEF TxInv
  <2> QED
    BY <1>0, <1>c, <1>22, <2>1
       DEF tool_design_commit, Start, Without, Chosen, TypeOK, SnapInv, CallInv
<1>23. ASSUME NEW r \in Requests, DeleteSnapshots(r) PROVE SnapInv(x)'
  <2>1. CallInv(r)
    BY DEF TxInv
  <2> QED
    BY <1>0, <1>c, <1>23, <2>1
       DEF DeleteSnapshots, Finish, Without, Chosen, TypeOK, SnapInv, CallInv
<1>24. ASSUME NEW r \in Requests, Raise(r) PROVE SnapInv(x)'
  BY <1>0, <1>c, <1>24 DEF Raise, SnapInv
<1>25. ASSUME NEW t \in Txs, NEW c \in Contents, IsolatedPreview(t, c) PROVE SnapInv(x)'
  BY <1>0, <1>c, <1>25 DEF IsolatedPreview, Isolated, SnapInv
<1>26. ASSUME NEW t \in Txs, IsolatedValidate(t) PROVE SnapInv(x)'
  BY <1>0, <1>c, <1>26 DEF IsolatedValidate, Isolated, SnapInv
<1>27. ASSUME NEW t \in Txs, IsolatedCommit(t) PROVE SnapInv(x)'
  BY <1>0, <1>c, <1>27 DEF IsolatedCommit, Isolated, SnapInv
<1>28. ASSUME NEW t \in Txs, IsolatedRollback(t) PROVE SnapInv(x)'
  BY <1>0, <1>c, <1>28 DEF IsolatedRollback, Isolated, SnapInv
<1>29. ASSUME NEW c \in Contents, NEW a \in Contents \cup {None}, IsolatedChange(c, a)
       PROVE  SnapInv(x)'
  BY <1>0, <1>c, <1>29 DEF IsolatedChange, Isolated, SnapInv
<1>30. ASSUME NEW l \in Labels, IsolatedSnapshot(l) PROVE SnapInv(x)'
  BY <1>0, <1>c, <1>30 DEF IsolatedSnapshot, Isolated, SnapInv
<1>31. ASSUME NEW k \in Labels \cup {None}, IsolatedConfirm(k) PROVE SnapInv(x)'
  BY <1>0, <1>c, <1>31 DEF IsolatedConfirm, Isolated, SnapInv
<1>32. ASSUME CheckDesign PROVE SnapInv(x)'
  BY <1>0, <1>c, <1>32 DEF CheckDesign, SnapInv
<1>33. ASSUME Restart PROVE SnapInv(x)'
  BY <1>0, <1>c, <1>33 DEF Restart, SnapInv
<1>34. CASE UNCHANGED vars
  BY <1>0, <1>c, <1>34 DEF vars, SnapInv
<1>35. ASSUME NEW r \in Requests, DirectStep(r) PROVE SnapInv(x)'
  BY <1>1, <1>2, <1>3, <1>4, <1>5, <1>6, <1>7, <1>8, <1>9, <1>10, <1>11, <1>12, <1>13, <1>14,
     <1>15, <1>16, <1>17, <1>18, <1>19, <1>20, <1>21, <1>22, <1>23, <1>24, <1>35
     DEF DirectStep
<1>36. ASSUME IsolatedStep PROVE SnapInv(x)'
  BY <1>s, <1>25, <1>26, <1>27, <1>28, <1>29, <1>30, <1>31, <1>36 DEF IsolatedStep
<1> QED
  BY <1>32, <1>33, <1>34, <1>35, <1>36 DEF Next, Step

LEMMA OwnStep == ASSUME TxInv, [Next]_vars, NEW s \in Requests, DirectStep(s) PROVE CallInv(s)'
<1> USE DEF session, durable, plan, calls, told
<1>0. TypeOK /\ CallInv(s)
  BY DEF TxInv
<1>s. results \in Contents \cup {None} /\ \A l \in Labels : snaps[l] # None =>
          snaps[l] \in Pairs /\ snaps[l][1] \in Contents /\ snaps[l][2] \in Contents \cup {None}
  BY <1>0 DEF TypeOK, Snapshots, Pairs
<1>c. contended \subseteq contended' /\ (crossed => crossed')
  BY OverlapStep
<1>1. ASSUME NEW t \in Txs, NEW c \in Contents, tool_design_transaction_preview(s, t, c)
      PROVE  CallInv(s)'
  BY <1>0, <1>c, <1>1, <1>s
     DEF tool_design_transaction_preview, Start, NewRecord, TypeOK, CallInv, CallTail, WriteTail,
         Unrecorded, TxSteps, Final,
         Pairs, States
<1>2. ASSUME PersistAndReturn(s) PROVE CallInv(s)'
  BY <1>0, <1>c, <1>2, <1>s
     DEF PersistAndReturn, PersistRecord, Ack, Finish, TypeOK, CallInv, CallTail, WriteTail,
         Unrecorded, TxSteps, Final, Pairs,
         States
<1>3. ASSUME NEW t \in Txs, tool_design_transaction_validate(s, t) PROVE CallInv(s)'
  <2>1. RecordInv(t)
    BY DEF TxInv
  <2>2. t \in used
    BY <1>0, <1>c, <1>3, <2>1 DEF tool_design_transaction_validate, Start, CanValidate, RecordInv
  <2> QED
    BY <1>0, <1>c, <1>3, <2>2
       DEF tool_design_transaction_validate, Start, CanValidate, TypeOK, CallInv, CallTail,
           WriteTail, Unrecorded, TxSteps,
           Final
<1>4. ASSUME RunErc(s) PROVE CallInv(s)'
  BY <1>0, <1>c, <1>4, <1>s
     DEF RunErc, Goto, TypeOK, CallInv, CallTail, WriteTail, Unrecorded, TxSteps, Final, Pairs,
         States
<1>5. ASSUME SetVerdict(s) PROVE CallInv(s)'
  BY <1>0, <1>c, <1>5, <1>s
     DEF SetVerdict, Goto, TypeOK, CallInv, CallTail, WriteTail, Unrecorded, TxSteps, Final,
         Pairs, States
<1>6. ASSUME NEW t \in Txs, tool_design_transaction_commit(s, t) PROVE CallInv(s)'
  <2>1. RecordInv(t)
    BY DEF TxInv
  <2>2. t \in used
    BY <1>0, <1>c, <1>6, <2>1 DEF tool_design_transaction_commit, Start, CanCommit, RecordInv
  <2>3. candidate[t] \in Sound /\ state[t] = "validated" /\ passed[t]
    BY <1>6, <2>1 DEF tool_design_transaction_commit, CanCommit, RecordInv
  <2>4. CASE design = parent[t]
    <3>1. /\ pc'[s] = "commitStore" /\ key'[s] = t /\ val'[s] = candidate[t]
          /\ surface' = "direct"
          /\ UNCHANGED << state, passed, dState, design, parent, candidate, used >>
      BY <1>0, <1>6, <2>4 DEF tool_design_transaction_commit, Start, TypeOK
    <3> QED
      BY <2>2, <2>3, <2>4, <3>1 DEF CallInv, CallTail, WriteTail, Unrecorded, TxSteps
  <2>5. CASE design # parent[t]
    <3>1. /\ pc'[s] = "rejectPersist" /\ key'[s] = t /\ state'[t] = "rejected"
          /\ surface' = "direct" /\ used' = used
      BY <1>0, <1>6, <2>5 DEF tool_design_transaction_commit, Start, TypeOK
    <3> QED
      BY <2>2, <3>1 DEF CallInv, CallTail, WriteTail, Unrecorded, TxSteps
  <2> QED
    BY <2>4, <2>5
<1>7. ASSUME PersistRejection(s) PROVE CallInv(s)'
  BY <1>0, <1>c, <1>7, <1>s
     DEF PersistRejection, PersistRecord, Finish, TypeOK, CallInv, CallTail, WriteTail,
         Unrecorded, TxSteps, Final, Pairs,
         States
<1>8. ASSUME StoreCandidate(s) PROVE CallInv(s)'
  BY <1>0, <1>c, <1>8, <1>s
     DEF StoreCandidate, Goto, TypeOK, CallInv, CallTail, WriteTail, Unrecorded, TxSteps, Final,
         Pairs, States
<1>9. ASSUME SetCandidate(s) PROVE CallInv(s)'
  BY <1>0, <1>c, <1>9, <1>s
     DEF SetCandidate, Goto, TypeOK, CallInv, CallTail, WriteTail, Unrecorded, TxSteps, Final,
         Pairs, States
<1>10. ASSUME RecordCommit(s) PROVE CallInv(s)'
  BY <1>0, <1>c, <1>10, <1>s
     DEF RecordCommit, Conclude, TypeOK, CallInv, CallTail, WriteTail, Unrecorded, TxSteps, Final,
         Pairs, States
<1>11. ASSUME NEW t \in Txs, tool_design_transaction_rollback(s, t) PROVE CallInv(s)'
  <2>1. RecordInv(t)
    BY DEF TxInv
  <2>2. t \in used
    BY <1>0, <1>c, <1>11, <2>1
       DEF tool_design_transaction_rollback, Start, Conclude, CanRollBack, RecordInv
  <2> QED
    BY <1>0, <1>c, <1>11, <2>2
       DEF tool_design_transaction_rollback, Start, Conclude, CanRollBack, TypeOK, CallInv,
           CallTail, WriteTail, Unrecorded,
           TxSteps, Final
<1>12. ASSUME PersistFinal(s) PROVE CallInv(s)'
  BY <1>0, <1>c, <1>12, <1>s
     DEF PersistFinal, PersistRecord, Goto, TypeOK, CallInv, CallTail, WriteTail, Unrecorded,
         TxSteps, Final, Pairs, States
<1>13. ASSUME PersistHistory(s) PROVE CallInv(s)'
  BY <1>0, <1>c, <1>13, <1>s
     DEF PersistHistory, Ack, Finish, TypeOK, CallInv, CallTail, WriteTail, Unrecorded, TxSteps,
         Final, Pairs, States
<1>14. ASSUME NEW c \in Contents, EditInPlace(s, c) PROVE CallInv(s)'
  BY <1>0, <1>c, <1>14, <1>s
     DEF EditInPlace, Start, TypeOK, CallInv, CallTail, WriteTail, Unrecorded, TxSteps, Final,
         Pairs, States
<1>15. ASSUME PersistEdit(s) PROVE CallInv(s)'
  BY <1>0, <1>c, <1>15, <1>s
     DEF PersistEdit, Finish, TypeOK, CallInv, CallTail, WriteTail, Unrecorded, TxSteps, Final,
         Pairs, States
<1>16. ASSUME NEW c \in Contents, ReplaceDesign(s, c) PROVE CallInv(s)'
  BY <1>0, <1>c, <1>16, <1>s
     DEF ReplaceDesign, Start, TypeOK, CallInv, CallTail, WriteTail, Unrecorded, TxSteps, Final,
         Pairs, States
<1>17. ASSUME NEW l \in Labels, tool_design_snapshot(s, l) PROVE CallInv(s)'
  BY <1>0, <1>c, <1>17, <1>s
     DEF tool_design_snapshot, Start, TypeOK, CallInv, CallTail, WriteTail, Unrecorded, TxSteps,
         Final, Pairs, States
<1>18. ASSUME PersistSnapshot(s) PROVE CallInv(s)'
  BY <1>0, <1>c, <1>18, <1>s
     DEF PersistSnapshot, Finish, TypeOK, CallInv, CallTail, WriteTail, Unrecorded, TxSteps,
         Final, Pairs, States
<1>19. ASSUME NEW l \in Labels, tool_design_rollback(s, l) PROVE CallInv(s)'
  BY <1>0, <1>c, <1>19, <1>s
     DEF tool_design_rollback, Start, TypeOK, CallInv, CallTail, WriteTail, Unrecorded, TxSteps,
         Final, Pairs, States
<1>20. ASSUME StoreOther(s) PROVE CallInv(s)'
  BY <1>0, <1>c, <1>20, <1>s
     DEF StoreOther, Goto, TypeOK, CallInv, CallTail, WriteTail, Unrecorded, TxSteps, Final,
         Pairs, States
<1>21. ASSUME SetOther(s) PROVE CallInv(s)'
  BY <1>0, <1>c, <1>21, <1>s
     DEF SetOther, Finish, TypeOK, CallInv, CallTail, WriteTail, Unrecorded, TxSteps, Final,
         Pairs, States
<1>22. ASSUME NEW k \in Labels \cup {None}, tool_design_commit(s, k) PROVE CallInv(s)'
  BY <1>0, <1>c, <1>22, <1>s
     DEF tool_design_commit, Start, Without, Chosen, TypeOK, CallInv, CallTail, WriteTail,
         Unrecorded, TxSteps, Final, Pairs,
         States
<1>23. ASSUME DeleteSnapshots(s) PROVE CallInv(s)'
  BY <1>0, <1>c, <1>23, <1>s
     DEF DeleteSnapshots, Finish, Without, Chosen, TypeOK, CallInv, CallTail, WriteTail,
         Unrecorded, TxSteps, Final, Pairs,
         States
<1>24. ASSUME Raise(s) PROVE CallInv(s)'
  BY <1>0, <1>c, <1>24, <1>s
     DEF Raise, Finish, TypeOK, CallInv, CallTail, WriteTail, Unrecorded, TxSteps, Final, Pairs,
         States
<1> QED
  BY <1>1, <1>2, <1>3, <1>4, <1>5, <1>6, <1>7, <1>8, <1>9, <1>10, <1>11, <1>12, <1>13, <1>14,
     <1>15, <1>16, <1>17, <1>18, <1>19, <1>20, <1>21, <1>22, <1>23, <1>24
     DEF DirectStep

\* A call keeps what it relies on through the steps of the others.
LEMMA OtherStep ==
    ASSUME TxInv, [Next]_vars, NEW r \in Requests, DirectStep(r), NEW s \in Requests, s # r
    PROVE  CallInv(s)'
<1>0. TypeOK /\ OverlapInv /\ CallInv(s) /\ CallInv(r) /\ Effects(r)
  BY DirectEffects DEF TxInv
<1>1. pc'[s] = pc[s] /\ key'[s] = key[s] /\ val'[s] = val[s]
  BY <1>0, DirectFrame
<1>2. OverlapInv' /\ contended \subseteq contended' /\ (crossed => crossed')
  BY OverlapStep
<1>3. key[s] \in Txs /\ key[s] \notin contended' => key[r] # key[s] /\ key'[r] # key[s]
  <2>1. key[s] \in Txs /\ key[r] = key[s] => key[s] \in contended
    BY <1>0, SameTx
  <2>2. key[s] \in Txs /\ key'[r] = key[s] => key[s] \in contended'
    BY <1>1, <1>2, TransactionAssumption DEF OverlapInv, Contention, Touches, Chosen
  <2> QED
    BY <1>2, <2>1, <2>2
<1>4. key'[s] \notin contended' => CallTail(s)'
  <2>1. pc[s] \in TxSteps => key[s] \in used /\ key[s] \in Txs
    BY <1>0 DEF CallInv, TypeOK
  <2>2. CASE pc[s] \in TxSteps
    BY <1>0, <1>1, <1>2, <1>3, <2>1, <2>2 DEF CallInv, CallTail, Effects
  <2>3. CASE pc[s] \notin TxSteps
    BY <1>1, <2>3 DEF CallTail, TxSteps
  <2> QED
    BY <2>2, <2>3
<1>5. crossed' \/ WriteTail(s)'
  <2>1. CASE pc[s] \in WriteSteps
    <3>1. crossed' \/ (pc[r] \notin WriteSteps /\ pc'[r] \notin WriteSteps)
      BY <1>0, <1>1, <1>2, <2>1 DEF OverlapInv, Crossing
    <3>2. pc[s] = "commitStore" => key[s] \in used
      BY <1>0 DEF CallInv, TxSteps
    <3> QED
      BY <1>0, <1>1, <1>2, <3>1, <3>2 DEF CallInv, WriteTail, Effects
  <2>2. CASE pc[s] \notin WriteSteps
    BY <1>1, <2>2 DEF WriteTail, WriteSteps
  <2> QED
    BY <2>1, <2>2
<1>6. pc'[s] = "confirmDelete" =>
          /\ key'[s] \in Labels \cup {None}
          /\ \A l \in Chosen(key'[s]) : l \notin contended' => kept'[l] = None
  <2> SUFFICES ASSUME pc[s] = "confirmDelete", NEW l \in Chosen(key[s]), l \notin contended'
               PROVE  kept'[l] = None
    BY <1>0, <1>1 DEF CallInv
  <2>1. l \in Labels /\ l \notin contended /\ kept[l] = None
    BY <1>0, <1>2 DEF CallInv, Chosen
  <2>2. ~ (pc[r] = "snapPersist" /\ key[r] = l)
    BY <1>0, <2>1, SameLabel
  <2> QED
    BY <1>0, <2>1, <2>2 DEF Effects
<1>7. /\ (surface = "mcp" => pc[s] = "idle")'
      /\ (pc[s] \in TxSteps => key[s] \in used)'
      /\ (pc[s] \in { "commitStore", "commitMemory" } => val[s] = candidate[key[s]])'
      /\ (pc[s] = "commitStore" => candidate[key[s]] \in Sound)'
      /\ (Unrecorded(s) => key[s] \in installed)'
  BY <1>0, <1>1 DEF CallInv, Effects, TxSteps, Unrecorded
<1>8. /\ (pc[s] \in { "finalPersist", "finalHistory" } => val[s] \in Final)'
      /\ (pc[s] \in { "snapPersist", "replaceStore", "restoreStore", "replaceMemory",
                      "restoreMemory" } => val[s] \in Pairs)'
      /\ (pc[s] = "snapPersist" => key[s] \in Labels)'
  BY <1>0, <1>1 DEF CallInv, Final, Pairs
<1> QED
  BY <1>4, <1>5, <1>6, <1>7, <1>8 DEF CallInv, Chosen

LEMMA CallStep == ASSUME TxInv, [Next]_vars, NEW s \in Requests PROVE CallInv(s)'
<1>0. TypeOK /\ CallInv(s)
  BY DEF TxInv
<1>1. ASSUME NEW r \in Requests, DirectStep(r) PROVE CallInv(s)'
  BY <1>1, OwnStep, OtherStep
<1>2. CASE IsolatedStep
  <2>1. surface' = surface /\ surface = "mcp" /\ pc' = pc
    BY <1>2 DEF IsolatedStep, Isolated, IsolatedPreview, IsolatedValidate, IsolatedCommit,
       IsolatedRollback, IsolatedChange, IsolatedSnapshot, IsolatedConfirm, calls
  <2>2. pc'[s] = "idle"
    BY <1>0, <2>1 DEF CallInv
  <2> QED
    BY <2>2 DEF CallInv, CallTail, WriteTail, Unrecorded, TxSteps
<1>3. CASE Restart
  <2>1. pc'[s] = "idle"
    BY <1>3 DEF Restart
  <2> QED
    BY <2>1 DEF CallInv, CallTail, WriteTail, Unrecorded, TxSteps
<1>4. CASE CheckDesign \/ UNCHANGED vars
  <2>1. UNCHANGED << surface, design, dDesign, state, passed, dState, parent, candidate, used,
                     installed, pc, key, val, kept >>
    BY <1>4 DEF CheckDesign, vars, session, durable, plan, calls, told
  <2>2. contended \subseteq contended' /\ (crossed => crossed')
    BY OverlapStep
  <2> QED
    BY <1>0, <2>1, <2>2 DEF CallInv, CallTail, WriteTail, Unrecorded, Chosen
<1> QED
  BY <1>1, <1>2, <1>3, <1>4 DEF Next, Step

\* A recorded commit stays recorded.
LEMMA CommittedStays ==
    ASSUME TxInv, NEW r \in Requests, DirectStep(r), NEW x \in Txs, x \notin contended,
           state[x] = "committed", dState[x] = "committed"
    PROVE  state'[x] = "committed" /\ dState'[x] = "committed"
<1> USE DEF session, durable, plan, calls, told
<1> DEFINE Stays == state'[x] = "committed" /\ dState'[x] = "committed"
<1>0. TypeOK /\ CallInv(r) /\ RecordInv(x)
  BY DEF TxInv
<1>u. x \in used
  BY <1>0 DEF RecordInv
<1>1. ASSUME NEW t \in Txs, NEW c \in Contents, tool_design_transaction_preview(r, t, c) PROVE Stays
  BY <1>0, <1>u, <1>1 DEF tool_design_transaction_preview, NewRecord, TypeOK
<1>2. ASSUME PersistAndReturn(r) PROVE Stays
  BY <1>0, <1>2 DEF PersistAndReturn, PersistRecord, CallInv, CallTail, TypeOK
<1>3. ASSUME SetVerdict(r) PROVE Stays
  BY <1>0, <1>3 DEF SetVerdict, CallInv, CallTail, TypeOK
<1>4. ASSUME NEW t \in Txs, tool_design_transaction_commit(r, t) PROVE Stays
  BY <1>0, <1>4 DEF tool_design_transaction_commit, CanCommit, TypeOK
<1>5. ASSUME PersistRejection(r) PROVE Stays
  BY <1>0, <1>5 DEF PersistRejection, PersistRecord, CallInv, CallTail, TypeOK
<1>6. ASSUME RecordCommit(r) PROVE Stays
  BY <1>0, <1>6 DEF RecordCommit, Conclude, CallInv, CallTail, TypeOK
<1>7. ASSUME NEW t \in Txs, tool_design_transaction_rollback(r, t) PROVE Stays
  BY <1>0, <1>7 DEF tool_design_transaction_rollback, CanRollBack, Conclude, TypeOK
<1>8. ASSUME PersistFinal(r) PROVE Stays
  BY <1>0, <1>8 DEF PersistFinal, PersistRecord, CallInv, CallTail, TypeOK
<1>9. ASSUME \/ \E t \in Txs : tool_design_transaction_validate(r, t)
             \/ \E c \in Contents : EditInPlace(r, c) \/ ReplaceDesign(r, c)
             \/ \E l \in Labels : tool_design_snapshot(r, l) \/ tool_design_rollback(r, l)
             \/ \E l \in Labels \cup {None} : tool_design_commit(r, l)
             \/ RunErc(r) \/ StoreCandidate(r) \/ SetCandidate(r) \/ PersistHistory(r)
             \/ PersistEdit(r) \/ PersistSnapshot(r) \/ StoreOther(r) \/ SetOther(r)
             \/ DeleteSnapshots(r) \/ Raise(r)
      PROVE  Stays
  <2>1. UNCHANGED << state, dState >>
    BY <1>9 DEF tool_design_transaction_validate, EditInPlace, ReplaceDesign, tool_design_snapshot,
       tool_design_rollback, tool_design_commit, RunErc, StoreCandidate, SetCandidate,
       PersistHistory, PersistEdit, PersistSnapshot, StoreOther, SetOther, DeleteSnapshots, Raise
  <2> QED
    BY <2>1
<1> QED
  BY <1>1, <1>2, <1>3, <1>4, <1>5, <1>6, <1>7, <1>8, <1>9 DEF DirectStep

\* A commit goes on towards its record, or is remembered as cut.
LEMMA CommitGoesOn ==
    ASSUME TxInv, Next, NEW r \in Requests, DirectStep(r), Unrecorded(r), key[r] \in Txs,
           key[r] \notin contended
    PROVE  \/ key'[r] = key[r] /\ Unrecorded(r)'
           \/ state'[key[r]] = "committed" /\ dState'[key[r]] = "committed"
           \/ key[r] \in cut'
<1> USE DEF session, durable, plan, calls, told
<1>0. TypeOK /\ CallInv(r)
  BY DEF TxInv
<1>1. SetCandidate(r) \/ RecordCommit(r) \/ PersistFinal(r) \/ Raise(r)
  BY DEF Unrecorded, DirectStep, Start, tool_design_transaction_preview,
     tool_design_transaction_validate, tool_design_transaction_commit,
     tool_design_transaction_rollback, EditInPlace, ReplaceDesign, tool_design_snapshot,
     tool_design_rollback, tool_design_commit, PersistAndReturn, RunErc, SetVerdict,
     PersistRejection, StoreCandidate, PersistHistory, PersistEdit, PersistSnapshot, StoreOther,
     SetOther, DeleteSnapshots
<1>2. ASSUME SetCandidate(r) PROVE key'[r] = key[r] /\ Unrecorded(r)'
  BY <1>0, <1>2 DEF SetCandidate, Goto, Unrecorded, TypeOK
<1>3. ASSUME RecordCommit(r) PROVE key'[r] = key[r] /\ Unrecorded(r)'
  BY <1>0, <1>3 DEF RecordCommit, Unrecorded, TypeOK
<1>4. ASSUME PersistFinal(r)
      PROVE  state'[key[r]] = "committed" /\ dState'[key[r]] = "committed"
  BY <1>0, <1>4 DEF PersistFinal, PersistRecord, Unrecorded, CallInv, CallTail, TypeOK
<1>5. ASSUME Raise(r) PROVE key[r] \in cut'
  <2>1. pc'[r] = "idle"
    BY <1>0, <1>5 DEF Raise, Finish, TypeOK
  <2> QED
    BY <2>1 DEF Next, Remember
<1> QED
  BY <1>1, <1>2, <1>3, <1>4, <1>5

LEMMA InstallStep == ASSUME TxInv, [Next]_vars, NEW x \in Txs PROVE InstallInv(x)'
<1> DEFINE Recorded == state[x] = "committed" /\ dState[x] = "committed"
           Underway == \E r \in Requests : key[r] = x /\ Unrecorded(r)
<1> USE DEF session, durable, plan, calls, told
<1>0. TypeOK /\ InstallInv(x)
  BY DEF TxInv
<1>c. contended \subseteq contended' /\ cut \subseteq cut'
  BY OverlapStep
<1> SUFFICES ASSUME surface' = "direct", x \in installed' \ cut', x \notin contended'
             PROVE  Recorded' \/ Underway'
  BY DEF InstallInv
<1>1. ASSUME Next, NEW r \in Requests, DirectStep(r) PROVE Recorded' \/ Underway'
  <2>1. surface = "direct" /\ x \notin cut /\ x \notin contended
    <3>1. Effects(r)
      BY <1>1, DirectEffects
    <3> QED
      BY <1>c, <3>1 DEF Effects
  <2>2. ASSUME StoreCandidate(r) PROVE installed' = installed \cup {key[r]} /\ Unrecorded(r)' /\ key'[r] = key[r]
    BY <1>0, <2>2 DEF StoreCandidate, Goto, Unrecorded, TypeOK
  <2>3. ASSUME ~ StoreCandidate(r) PROVE installed' = installed
    BY <1>1, <2>3 DEF DirectStep, tool_design_transaction_preview,
     tool_design_transaction_validate, tool_design_transaction_commit,
     tool_design_transaction_rollback, EditInPlace, ReplaceDesign, tool_design_snapshot,
     tool_design_rollback, tool_design_commit, PersistAndReturn, RunErc, SetVerdict,
     PersistRejection, SetCandidate, RecordCommit, PersistFinal, PersistHistory, PersistEdit,
     PersistSnapshot, StoreOther, SetOther, DeleteSnapshots, Raise
  <2>4. CASE x \notin installed
    BY <2>2, <2>3, <2>4
  <2>5. CASE x \in installed /\ Recorded
    BY <1>1, <2>1, <2>5, CommittedStays
  <2>6. CASE x \in installed /\ Underway
    <3> PICK q \in Requests : key[q] = x /\ Unrecorded(q)
      BY <2>6
    <3>1. CASE q = r
      BY <1>1, <2>1, <3>1, CommitGoesOn
    <3>2. CASE q # r
      <4>1. pc'[q] = pc[q] /\ key'[q] = key[q] /\ val'[q] = val[q]
        BY <1>0, <1>1, <3>2, DirectFrame
      <4> QED
        BY <4>1 DEF Unrecorded
    <3> QED
      BY <3>1, <3>2
  <2> QED
    BY <1>0, <2>1, <2>4, <2>5, <2>6 DEF InstallInv
<1>2. CASE IsolatedStep
  <2>1. surface' = surface /\ surface = "mcp"
    BY <1>2 DEF IsolatedStep, Isolated, IsolatedPreview, IsolatedValidate, IsolatedCommit,
       IsolatedRollback, IsolatedChange, IsolatedSnapshot, IsolatedConfirm
  <2> QED
    BY <2>1
<1>3. CASE Next /\ Restart
  <2>1. UNCHANGED << surface, installed, dState >> /\ state' = dState
    BY <1>3 DEF Restart
  <2>2. ASSUME NEW q \in Requests, key[q] = x, Unrecorded(q) PROVE FALSE
    <3>1. pc'[q] = "idle"
      BY <1>3 DEF Restart
    <3> QED
      BY <1>3, <2>2, <3>1 DEF Next, Remember
  <2> QED
    BY <1>0, <1>c, <2>1, <2>2 DEF InstallInv
<1>4. CASE CheckDesign \/ UNCHANGED vars
  <2>1. UNCHANGED << surface, state, dState, installed, pc, key, val >>
    BY <1>4 DEF CheckDesign, vars
  <2> QED
    BY <1>0, <1>c, <2>1 DEF InstallInv, Unrecorded
<1> QED
  BY <1>1, <1>2, <1>3, <1>4 DEF Next, Step

-----------------------------------------------------------------------------
(* The records and the answers.                                            *)

LEMMA TxInit == Init => TxInv
<1> SUFFICES ASSUME Init PROVE TxInv
  OBVIOUS
<1>1. TypeOK
  <2>1. /\ crossed \in BOOLEAN /\ budget \in [1 .. 2 -> Nat]
        /\ passed \in [Txs -> BOOLEAN] /\ dPassed \in [Txs -> BOOLEAN]
    BY TransactionAssumption DEF Init
  <2> QED
    BY <2>1 DEF Init, TypeOK, States, Steps, Snapshots
<1>2. ASSUME NEW t \in Txs PROVE RecordInv(t) /\ InstallInv(t)
  BY RankValues DEF Init, RecordInv, RecordTail, InstallInv, Final
<1>3. \A l \in Labels : SnapInv(l)
  BY DEF Init, SnapInv
<1>4. \A r \in Requests : CallInv(r)
  BY DEF Init, CallInv, CallTail, WriteTail, Unrecorded, TxSteps
<1>5. OverlapInv
  <2>1. \A r \in Requests : Touches(r) = {} /\ pc[r] = "idle"
    BY DEF Init, Touches
  <2> QED
    BY <2>1 DEF OverlapInv, Contention, Crossing, WriteSteps
<1> QED
  BY <1>1, <1>2, <1>3, <1>4, <1>5 DEF TxInv

LEMMA TxStep == ASSUME TxInv, [Next]_vars PROVE TxInv'
<1>1. TypeOK'
  BY TypeStep
<1>2. \A x \in Txs : RecordInv(x)'
  BY RecordStep
<1>3. \A x \in Txs : InstallInv(x)'
  BY InstallStep
<1>4. \A x \in Labels : SnapInv(x)'
  BY SnapStep
<1>5. \A s \in Requests : CallInv(s)'
  BY CallStep
<1>6. OverlapInv'
  BY OverlapStep
<1> QED
  BY <1>1, <1>2, <1>3, <1>4, <1>5, <1>6 DEF TxInv

\* Every behaviour keeps the invariant, whatever calls overlap: what a call
\* relies on between two of its steps, what the records in memory and on disk
\* say of each other and of the installed candidates, and that every overlap
\* on a transaction, a label or the design is remembered.
THEOREM TransactionInvariant == Spec => []TxInv
<1>1. TxInv /\ [Next]_vars => TxInv'
  BY TxStep
<1> QED
  BY <1>1, TxInit, PTL DEF Spec

\* Whatever calls overlap, only an installed candidate that passed its checks
\* is recorded as committed; and an installed one is recorded as committed,
\* never as rolled back or rejected, unless two calls overlapped on the
\* transaction or its commit ended between the store and the record.
THEOREM RecordsAreHonestHolds == Spec => []RecordsAreHonest
<1>1. ASSUME TxInv, NEW t \in Txs
      PROVE  /\ "committed" \in { state[t], dState[t] } => t \in installed
             /\ t \in installed => candidate[t] \in Sound
             /\ t \notin contended =>
                   /\ dHistory[t] # "none" => dHistory[t] = dState[t]
                   /\ t \in installed \ cut =>
                         /\ { state[t], dState[t] } \cap { "rejected", "rolled_back" } = {}
                         /\ surface = "direct" =>
                               \/ state[t] = "committed"
                               \/ \E r \in Requests : key[r] = t /\ Unrecorded(r)
  <2>0. TypeOK /\ RecordInv(t) /\ InstallInv(t)
    BY <1>1 DEF TxInv
  <2>1. ASSUME t \notin contended, t \in installed \ cut
        PROVE  { state[t], dState[t] } \cap { "rejected", "rolled_back" } = {}
    <3>1. CASE surface = "mcp"
      BY <2>0, <2>1, <3>1 DEF RecordInv
    <3>2. CASE surface = "direct" /\ state[t] = "committed" /\ dState[t] = "committed"
      BY <3>2
    <3>3. CASE surface = "direct" /\ \E r \in Requests : key[r] = t /\ Unrecorded(r)
      <4> PICK r \in Requests : key[r] = t /\ Unrecorded(r)
        BY <3>3
      <4>1. CallInv(r)
        BY <1>1 DEF TxInv
      <4>2. state[t] \in { "validated", "committed" }
        BY <2>1, <4>1 DEF CallInv, CallTail, Unrecorded
      <4>3. RecordTail(t)
        BY <2>0, <2>1 DEF RecordInv
      <4> QED
        BY <4>2, <4>3 DEF RecordTail, Final
    <3>4. surface \in { "direct", "mcp" }
      BY <2>0, TransactionAssumption DEF TypeOK
    <3> QED
      BY <2>0, <2>1, <3>1, <3>2, <3>3, <3>4 DEF InstallInv
  <2> QED
    BY <2>0, <2>1 DEF RecordInv, RecordTail, InstallInv
<1>2. TxInv => RecordsAreHonest
  BY <1>1 DEF RecordsAreHonest
<1> QED
  BY <1>2, TransactionInvariant, PTL

\* What a call returned is on disk: no failed write and no restart takes it
\* back, unless two calls overlapped on the transaction or the snapshot.
THEOREM AnswersAreDurableHolds == Spec => []AnswersAreDurable
<1>1. ASSUME TxInv, surface = "direct", NEW t \in Txs \ contended
      PROVE  /\ Rank[dState[t]] >= Rank[acked[t]]
             /\ Rank[acked[t]] = 3 => dState[t] = acked[t] /\ dHistory[t] = acked[t]
  <2>1. RecordTail(t) /\ acked[t] \in States /\ dState[t] \in States
    BY <1>1 DEF TxInv, TypeOK, RecordInv
  <2>2. Rank[dState[t]] \in Nat /\ Rank[acked[t]] \in Nat
    BY <2>1, RankValues DEF States
  <2>3. Rank[acked[t]] = 3 => acked[t] \in Final
    BY <2>1, RankValues DEF States, Final
  <2> QED
    BY <1>1, <2>1, <2>2, <2>3 DEF RecordTail
<1>2. TxInv => AnswersAreDurable
  BY <1>1 DEF TxInv, SnapInv, AnswersAreDurable
<1> QED
  BY <1>2, TransactionInvariant, PTL

-----------------------------------------------------------------------------
(* Refinement: every step is a preview, an install, or a change that drops *)
(* some open transactions.                                                 *)

Dropped(t) == state[t] \in DroppedStates /\ dState[t] \in DroppedStates

\* The design a client sees is a design.
LEMMA CurrentType == TypeOK => Current \in Contents
BY DEF TypeOK, Current

\* Between calls it is the one in memory.
LEMMA CurrentIsMemory ==
    ASSUME \A r \in Requests : pc[r] \notin Installing
    PROVE  Current = design
BY DEF Current, Installing

LEMMA StepDrops ==
    ASSUME TypeOK', UNCHANGED << used, installed, parent, candidate >>,
           \A t \in Txs : Dropped(t) /\ t \notin installed => Dropped(t)'
    PROVE  Abstract!Next
<1> DEFINE out == [t \in Txs |-> Outcome(t)]
           D == { t \in Txs : out[t] = "open" /\ Outcome(t)' = "dropped" }
<1>1. ASSUME NEW t \in Txs PROVE Outcome(t)' = IF t \in D THEN "dropped" ELSE out[t]
  BY <1>1 DEF Outcome, Dropped
<1>2. [t \in Txs |-> Outcome(t)]' = [t \in Txs |-> IF t \in D THEN "dropped" ELSE out[t]]
  BY <1>1
<1>3. D \in SUBSET { t \in Txs : out[t] = "open" }
  OBVIOUS
<1>4. Current' \in Contents
  BY DEF TypeOK, Current
<1>5. Abstract!Drop
  BY <1>2, <1>3, <1>4 DEF Abstract!Drop
<1> QED
  BY <1>5 DEF Abstract!Next

LEMMA StepPreviews ==
    ASSUME TxInv, TxInv', NEW t \in Txs, NEW c \in Contents, NewRecord(t, c), dState' = dState,
           installed' = installed, \A r \in Requests : pc[r] \notin Installing,
           \A r \in Requests : pc'[r] \notin Installing
    PROVE  Abstract!Next
<1>0. TypeOK /\ RecordInv(t) /\ t \notin used /\ t \notin installed
  BY DEF TxInv, RecordInv, NewRecord
<1>1. Current = design /\ Current' = design
  BY CurrentIsMemory DEF NewRecord, Current, Installing
<1>2. Outcome(t) = "none" /\ Outcome(t)' = "open"
  BY <1>0 DEF Outcome, NewRecord, TypeOK, DroppedStates
<1>3. ASSUME NEW u \in Txs, u # t PROVE Outcome(u)' = Outcome(u)
  BY <1>0, <1>3 DEF Outcome, NewRecord, TypeOK
<1>4. [u \in Txs |-> Outcome(u)]' = [[u \in Txs |-> Outcome(u)] EXCEPT ![t] = "open"]
  BY <1>2, <1>3
<1>5. Abstract!Preview(t)
  BY <1>1, <1>2, <1>4 DEF Abstract!Preview, NewRecord
<1> QED
  BY <1>5 DEF Abstract!Next

LEMMA StepInstalls ==
    ASSUME TxInv, NEW t \in Txs, t \in used, t \notin installed, state[t] = "validated", passed[t],
           Current = parent[t], Current' = candidate[t], installed' = installed \cup {t},
           \A u \in Txs : u # t => state'[u] = state[u] /\ dState'[u] = dState[u],
           UNCHANGED << parent, candidate, used >>
    PROVE  Abstract!Next
<1>0. candidate[t] \in Sound
  BY DEF TxInv, RecordInv
<1>1. Outcome(t) = "open" /\ Outcome(t)' = "installed"
  BY DEF Outcome, DroppedStates
<1>2. ASSUME NEW u \in Txs, u # t PROVE Outcome(u)' = Outcome(u)
  BY <1>2 DEF Outcome
<1>3. [u \in Txs |-> Outcome(u)]' = [[u \in Txs |-> Outcome(u)] EXCEPT ![t] = "installed"]
  BY <1>1, <1>2
<1>4. Abstract!Install(t)
  BY <1>0, <1>1, <1>3 DEF Abstract!Install
<1> QED
  BY <1>4 DEF Abstract!Next

LEMMA RefinementStep ==
    ASSUME TxInv, TxInv', [Next]_vars, ~ crossed', contended' \cap Txs = {}
    PROVE  Abstract!Next
<1> USE DEF session, durable, plan, calls, told
<1>0. TypeOK /\ TypeOK' /\ TxInv /\ TxInv'
  BY DEF TxInv
<1>c. ~ crossed /\ contended \cap Txs = {} /\ ~ Crossing /\ ~ Crossing'
  BY OverlapStep DEF TxInv, OverlapInv
<1>k. ASSUME NEW r \in Requests
      PROVE  /\ CallInv(r) /\ WriteTail(r)
             /\ pc[r] \in TxSteps => key[r] \in Txs /\ key[r] \in used /\ CallTail(r)
  <2>1. CallInv(r) /\ WriteTail(r)
    BY <1>c DEF TxInv, CallInv
  <2> QED
    BY <1>0, <1>c, <2>1 DEF CallInv, TypeOK
<1>s. results \in Contents \cup {None} /\ \A l \in Labels : snaps[l] # None =>
          snaps[l] \in Pairs /\ snaps[l][1] \in Contents /\ snaps[l][2] \in Contents \cup {None}
  BY <1>0 DEF TypeOK, Snapshots, Pairs
<1>1. ASSUME NEW r \in Requests, NEW t \in Txs, NEW c \in Contents, tool_design_transaction_preview(r, t, c)
      PROVE  Abstract!Next
  <2>1. \A s \in Requests : pc[s] \notin Installing /\ pc'[s] \notin Installing
    <3>1. pc'[r] = "previewPersist" /\ pc[r] = "idle"
      BY <1>0, <1>1 DEF tool_design_transaction_preview, Start, TypeOK
    <3>2. \A s \in Requests \ {r} : pc'[s] = pc[s]
      BY <1>0, <1>1 DEF tool_design_transaction_preview, Start, TypeOK
    <3> QED
      BY <1>c, <3>1, <3>2 DEF Crossing, WriteSteps, Installing
  <2> QED
    BY <1>0, <1>1, <2>1, StepPreviews DEF tool_design_transaction_preview
<1>2. ASSUME NEW r \in Requests, PersistAndReturn(r) PROVE Abstract!Next
  <2>1. CallInv(r) /\ (pc[r] \in TxSteps => key[r] \in Txs /\ CallTail(r))
    BY <1>k
  <2> QED
    BY <1>0, <1>2, <2>1, StepDrops
       DEF PersistAndReturn, PersistRecord, Ack, Finish, Dropped, DroppedStates, TypeOK,
           CallInv, CallTail, TxSteps
<1>3. ASSUME NEW r \in Requests, NEW t \in Txs, tool_design_transaction_validate(r, t)
      PROVE  Abstract!Next
  BY <1>0, <1>3, StepDrops DEF tool_design_transaction_validate, Dropped
<1>4. ASSUME NEW r \in Requests, RunErc(r) PROVE Abstract!Next
  BY <1>0, <1>4, StepDrops DEF RunErc, Dropped
<1>5. ASSUME NEW r \in Requests, SetVerdict(r) PROVE Abstract!Next
  <2>1. CallInv(r) /\ (pc[r] \in TxSteps => key[r] \in Txs /\ CallTail(r))
    BY <1>k
  <2> QED
    BY <1>0, <1>5, <2>1, StepDrops
       DEF SetVerdict, Goto, Dropped, DroppedStates, TypeOK, CallInv, CallTail, TxSteps
<1>6. ASSUME NEW r \in Requests, NEW t \in Txs, tool_design_transaction_commit(r, t)
      PROVE  Abstract!Next
  BY <1>0, <1>6, StepDrops
     DEF tool_design_transaction_commit, Start, CanCommit, Dropped, DroppedStates, TypeOK
<1>7. ASSUME NEW r \in Requests, PersistRejection(r) PROVE Abstract!Next
  <2>1. CallInv(r) /\ (pc[r] \in TxSteps => key[r] \in Txs /\ CallTail(r))
    BY <1>k
  <2> QED
    BY <1>0, <1>7, <2>1, StepDrops
       DEF PersistRejection, PersistRecord, Finish, Dropped, DroppedStates, TypeOK, CallInv,
           CallTail,
           TxSteps
<1>8. ASSUME NEW r \in Requests, StoreCandidate(r) PROVE Abstract!Next
  <2> DEFINE t == key[r]
  <2>1. CallInv(r) /\ WriteTail(r) /\ CallTail(r) /\ t \in used /\ t \in Txs
    BY <1>8, <1>k DEF StoreCandidate, TxSteps
  <2>2. state[t] = "validated" /\ passed[t] /\ design = parent[t] /\ val[r] = candidate[t]
    BY <1>8, <2>1 DEF StoreCandidate, CallInv, CallTail, WriteTail
  <2>3. \A s \in Requests : pc[s] \notin Installing
    BY <1>8, <1>c DEF StoreCandidate, Crossing, WriteSteps, Installing
  <2>4. pc'[r] = "commitMemory"
    BY <1>0, <1>8 DEF StoreCandidate, Goto, TypeOK
  <2>5. Current = parent[t] /\ Current' = candidate[t]
    BY <1>0, <1>8, <2>2, <2>3, <2>4, CurrentIsMemory DEF StoreCandidate, Current
  <2>6. CASE t \in installed
    BY <1>0, <1>8, <2>6, StepDrops DEF StoreCandidate, Dropped
  <2>7. CASE t \notin installed
    BY <1>0, <1>8, <2>1, <2>2, <2>5, <2>7, StepInstalls DEF StoreCandidate
  <2> QED
    BY <2>6, <2>7
<1>9. ASSUME NEW r \in Requests, SetCandidate(r) PROVE Abstract!Next
  BY <1>0, <1>9, StepDrops DEF SetCandidate, Dropped
<1>10. ASSUME NEW r \in Requests, RecordCommit(r) PROVE Abstract!Next
  <2>1. CallInv(r) /\ (pc[r] \in TxSteps => key[r] \in Txs /\ CallTail(r))
    BY <1>k
  <2> QED
    BY <1>0, <1>10, <2>1, StepDrops
       DEF RecordCommit, Conclude, Dropped, DroppedStates, TypeOK, CallInv, CallTail, TxSteps
<1>11. ASSUME NEW r \in Requests, NEW t \in Txs, tool_design_transaction_rollback(r, t)
       PROVE  Abstract!Next
  BY <1>0, <1>11, StepDrops
     DEF tool_design_transaction_rollback, Start, Conclude, CanRollBack, Dropped,
         DroppedStates, TypeOK
<1>12. ASSUME NEW r \in Requests, PersistFinal(r) PROVE Abstract!Next
  <2>1. CallInv(r) /\ (pc[r] \in TxSteps => key[r] \in Txs /\ CallTail(r))
    BY <1>k
  <2> QED
    BY <1>0, <1>12, <2>1, StepDrops
       DEF PersistFinal, PersistRecord, Goto, Dropped, DroppedStates, TypeOK, CallInv, CallTail,
           TxSteps
<1>13. ASSUME NEW r \in Requests, PersistHistory(r) PROVE Abstract!Next
  BY <1>0, <1>13, StepDrops DEF PersistHistory, Dropped
<1>14. ASSUME NEW r \in Requests, NEW c \in Contents, EditInPlace(r, c) PROVE Abstract!Next
  BY <1>0, <1>14, StepDrops DEF EditInPlace, Dropped
<1>15. ASSUME NEW r \in Requests, PersistEdit(r) PROVE Abstract!Next
  BY <1>0, <1>15, StepDrops DEF PersistEdit, Dropped
<1>16. ASSUME NEW r \in Requests, NEW c \in Contents, ReplaceDesign(r, c) PROVE Abstract!Next
  BY <1>0, <1>16, StepDrops DEF ReplaceDesign, Dropped
<1>17. ASSUME NEW r \in Requests, NEW l \in Labels, tool_design_snapshot(r, l) PROVE Abstract!Next
  BY <1>0, <1>17, StepDrops DEF tool_design_snapshot, Dropped
<1>18. ASSUME NEW r \in Requests, PersistSnapshot(r) PROVE Abstract!Next
  BY <1>0, <1>18, StepDrops DEF PersistSnapshot, Dropped
<1>19. ASSUME NEW r \in Requests, NEW l \in Labels, tool_design_rollback(r, l) PROVE Abstract!Next
  BY <1>0, <1>19, StepDrops DEF tool_design_rollback, Dropped
<1>20. ASSUME NEW r \in Requests, StoreOther(r) PROVE Abstract!Next
  BY <1>0, <1>20, StepDrops DEF StoreOther, Dropped
<1>21. ASSUME NEW r \in Requests, SetOther(r) PROVE Abstract!Next
  BY <1>0, <1>21, StepDrops DEF SetOther, Dropped
<1>22. ASSUME NEW r \in Requests, NEW k \in Labels \cup {None}, tool_design_commit(r, k)
       PROVE  Abstract!Next
  BY <1>0, <1>22, StepDrops DEF tool_design_commit, Dropped
<1>23. ASSUME NEW r \in Requests, DeleteSnapshots(r) PROVE Abstract!Next
  BY <1>0, <1>23, StepDrops DEF DeleteSnapshots, Dropped
<1>24. ASSUME NEW r \in Requests, Raise(r) PROVE Abstract!Next
  BY <1>0, <1>24, StepDrops DEF Raise, Dropped
<1>25. ASSUME NEW t \in Txs, NEW c \in Contents, IsolatedPreview(t, c) PROVE Abstract!Next
  <2>1. \A s \in Requests : pc[s] \notin Installing /\ pc'[s] \notin Installing
    BY <1>0, <1>25 DEF TxInv, CallInv, IsolatedPreview, Isolated, Installing
  <2> QED
    BY <1>0, <1>25, <2>1, StepPreviews DEF IsolatedPreview, Isolated
<1>26. ASSUME NEW t \in Txs, IsolatedValidate(t) PROVE Abstract!Next
  BY <1>0, <1>26, StepDrops
     DEF IsolatedValidate, Isolated, CanValidate, Ack, Dropped, DroppedStates, TypeOK
<1>27. ASSUME NEW t \in Txs, IsolatedCommit(t) PROVE Abstract!Next
  <2>1. RecordInv(t) /\ state[t] = "validated" /\ passed[t] /\ t \in used
    BY <1>0, <1>27 DEF TxInv, IsolatedCommit, CanCommit, RecordInv
  <2>2. \A s \in Requests : pc[s] \notin Installing /\ pc'[s] \notin Installing
    BY <1>0, <1>27 DEF TxInv, CallInv, IsolatedCommit, Isolated, Installing
  <2>3. Current = parent[t] /\ Current' = candidate[t]
    BY <1>0, <1>27, <2>2, CurrentIsMemory DEF IsolatedCommit, Current, Installing
  <2>4. CASE t \in installed
    BY <1>0, <1>27, <2>4, StepDrops DEF IsolatedCommit, Isolated, Conclude, Dropped, TypeOK
  <2>5. CASE t \notin installed
    BY <1>0, <1>27, <2>1, <2>3, <2>5, StepInstalls
       DEF IsolatedCommit, Isolated, Conclude, TypeOK
  <2> QED
    BY <2>4, <2>5
<1>28. ASSUME NEW t \in Txs, IsolatedRollback(t) PROVE Abstract!Next
  BY <1>0, <1>28, StepDrops
     DEF IsolatedRollback, Isolated, CanRollBack, Conclude, Ack, Dropped, DroppedStates,
         TypeOK
<1>29. ASSUME NEW c \in Contents, NEW a \in Contents \cup {None}, IsolatedChange(c, a)
       PROVE  Abstract!Next
  BY <1>0, <1>29, StepDrops DEF IsolatedChange, Isolated, Dropped
<1>30. ASSUME NEW l \in Labels, IsolatedSnapshot(l) PROVE Abstract!Next
  BY <1>0, <1>30, StepDrops DEF IsolatedSnapshot, Isolated, Dropped
<1>31. ASSUME NEW k \in Labels \cup {None}, IsolatedConfirm(k) PROVE Abstract!Next
  BY <1>0, <1>31, StepDrops DEF IsolatedConfirm, Isolated, Dropped
<1>32. ASSUME CheckDesign PROVE Abstract!Next
  BY <1>0, <1>32, StepDrops DEF CheckDesign, Dropped
<1>33. ASSUME Restart PROVE Abstract!Next
  BY <1>0, <1>33, StepDrops DEF Restart, Dropped, DroppedStates, TypeOK
<1>34. CASE UNCHANGED vars
  BY <1>0, <1>34, StepDrops DEF vars, Dropped
<1>35. ASSUME NEW r \in Requests, DirectStep(r) PROVE Abstract!Next
  BY <1>1, <1>2, <1>3, <1>4, <1>5, <1>6, <1>7, <1>8, <1>9, <1>10, <1>11, <1>12, <1>13, <1>14,
     <1>15, <1>16, <1>17, <1>18, <1>19, <1>20, <1>21, <1>22, <1>23, <1>24, <1>35
     DEF DirectStep
<1>36. ASSUME IsolatedStep PROVE Abstract!Next
  BY <1>s, <1>25, <1>26, <1>27, <1>28, <1>29, <1>30, <1>31, <1>36 DEF IsolatedStep
<1> QED
  BY <1>32, <1>33, <1>34, <1>35, <1>36 DEF Next, Step

\* Whatever other calls do meanwhile, as long as none of them writes the
\* design or works on the same transaction, a commit is one compare-and-set of
\* the primary design by a candidate that passed its checks, through failing
\* writes and a kill between any two of its writes.
THEOREM CommitRefinesCompareAndSet == Spec => CommitIsCompareAndSet
<1>1. Init => Abstract!Init
  <2> SUFFICES ASSUME Init PROVE Abstract!Init
    OBVIOUS
  <2>1. Current \in Contents
    BY TxInit, CurrentType DEF TxInv
  <2>2. [t \in Txs |-> Outcome(t)] = [t \in Txs |-> "none"]
    BY DEF Init, Outcome
  <2>3. parent \in [Txs -> Contents] /\ candidate \in [Txs -> Contents]
    BY DEF Init
  <2> QED
    BY <2>1, <2>2, <2>3 DEF Abstract!Init
<1>2. TxInv /\ TxInv' /\ [Next]_vars =>
          [crossed' \/ contended' \cap Txs # {} \/ Abstract!Next]_(Abstract!vars)
  BY RefinementStep
<1> QED
  BY <1>1, <1>2, TransactionInvariant, PTL DEF Spec, CommitIsCompareAndSet
=============================================================================
