------------------------- MODULE RestServiceProofs -------------------------
(***************************************************************************)
(* Proofs about the REST service: the invariants of the artifact store,    *)
(* whatever threads interleave, calls fail and whenever the server is      *)
(* killed; the bound on the limiter's table; and the limiter as an         *)
(* implementation of the sliding window over the whole history.            *)
(***************************************************************************)
EXTENDS RestService, FiniteSetTheorems, SequenceTheorems, WellFoundedInduction, TLAPS

\* What the position of a call says about it.
CallShape(q) ==
    /\ q.pc \in {"payload", "manifest", "record"} => q.op = "create"
    /\ q.pc = "register" => q.op = "protect"
    /\ q.pc = "scan" => q.op = "delete"
    /\ q.pc \in {"remove", "forget"} => q.op \in {"delete", "cleanup"}
    /\ \/ q.pc \in {"payload", "manifest", "record", "register", "scan", "remove", "forget"}
       \/ q.op \in {"protect", "release", "delete"}
       => q.artifact \in Artifacts
    /\ q.op \in {"protect", "release"} => q.reference \in References

\* A thread is creating, or removing, an artifact.
Creates(t, a) == thread[t].artifact = a /\ thread[t].pc \in {"payload", "manifest", "record"}
Removes(t, a) == thread[t].artifact = a /\ thread[t].pc \in {"remove", "forget"}

\* What a creation at each of its positions knows of the artifact: nobody has
\* selected it for removal before its manifest is written, and nobody else has
\* answered its creation.  A thread that unlinks works on a selected artifact.
BuildingOf(a) == \A t \in Threads : thread[t].artifact = a =>
    /\ thread[t].pc = "payload" => files[a] = {"dir"} /\ a \notin removing
    /\ thread[t].pc = "manifest" => files[a] = {"dir", "payload"} /\ a \notin removing
    /\ thread[t].pc = "record" => a \in removing \/ files[a] = Whole
    /\ thread[t].pc \in {"payload", "manifest", "record"} => a \notin created
    /\ thread[t].pc \in {"remove", "forget"} => a \in removing

\* An identifier is created by one thread at a time.
OneCreatorOf(a) == \A t, u \in Threads : Creates(t, a) /\ Creates(u, a) => t = u

\* The directory goes last, and nothing lists or was answered without being
\* whole unless a removal selected it.
FilesOf(a) ==
    /\ files[a] # {} => "dir" \in files[a]
    /\ a \notin removing /\ ("manifest" \in files[a] \/ a \in created) => files[a] = Whole

\* A reference registered in time.
Held(a) == \E reference \in References : <<a, reference>> \in refs \ late

\* While such a reference protects an artifact no removal is past its check.
KeptOf(a) == Held(a) =>
    /\ files[a] = Whole
    /\ \A t \in Threads : thread[t].artifact = a => thread[t].pc \notin {"scan", "remove", "forget"}

\* A record follows an answered creation; a removal that came before the answer
\* is an early one.
HistoryOf(a) ==
    /\ a \in rows => a \in created
    /\ a \in removing => a \in early \cup created

\* Of the threads that remove one artifact, the one that took its last file
\* still has the record to delete.
GhostOf(a) == a \in rows \ (broken \cup early) =>
    /\ files[a] = {} => \E t \in Threads : thread[t].artifact = a /\ thread[t].pc = "forget"
    /\ "manifest" \notin files[a] => \E t \in Threads : Removes(t, a)

\* The inductive invariant of the artifact store, first for one artifact.
ArtifactInv(a) == /\ BuildingOf(a) /\ OneCreatorOf(a) /\ FilesOf(a)
                  /\ KeptOf(a) /\ HistoryOf(a) /\ GhostOf(a)

StoreInv ==
    /\ StoreTypeOK
    /\ \A t \in Threads : CallShape(thread[t])
    /\ \A a \in Artifacts : ArtifactInv(a)


-----------------------------------------------------------------------------
(* The artifact store.                                                     *)

\* The positions of a call.
Places == {"", "start", "payload", "manifest", "record", "register", "scan", "next",
           "remove", "forget"}

\* The step moves one thread.
Moved(t, op, pc, a) ==
    /\ thread' \in [Threads -> ThreadRecords]
    /\ thread'[t].op = op /\ thread'[t].pc = pc /\ thread'[t].artifact = a
    /\ op \in {"protect", "release"} => thread'[t].reference \in References
    /\ \A u \in Threads : u # t => thread'[u] = thread[u]

\* A Goto moves the thread and keeps its call and its artifact.
LEMMA GotoMoves ==
  ASSUME thread \in [Threads -> ThreadRecords], \A u \in Threads : CallShape(thread[u]),
         NEW t \in Threads, NEW pc \in Places, Goto(t, pc)
  PROVE  Moved(t, thread[t].op, pc, thread[t].artifact)
  BY DEF Goto, Moved, ThreadRecords, Places, CallShape

\* An answer leaves the thread idle.
LEMMA AnswerMoves ==
  ASSUME thread \in [Threads -> ThreadRecords], NEW t \in Threads, Answer(t)
  PROVE  Moved(t, "idle", "", None)
  BY DEF Answer, Moved, ThreadRecords, Idle

\* A handler starts in its thread.
LEMMA StartMoves ==
  ASSUME thread \in [Threads -> ThreadRecords], NEW t \in Threads, NEW op \in Calls,
         NEW s \in Sessions, NEW a \in Artifacts \cup {None},
         NEW reference \in References \cup {None}, StartCall(t, op, s, a, reference),
         op \in {"protect", "release"} => reference \in References
  PROVE  Moved(t, op, "start", a)
  BY DEF StartCall, Moved, ThreadRecords, Calls, Idle

\* A thread goes on with the call and the reference it has.
LEMMA UpdateMoves ==
  ASSUME thread \in [Threads -> ThreadRecords], \A u \in Threads : CallShape(thread[u]),
         NEW t \in Threads, NEW q \in ThreadRecords,
         q.op = thread[t].op, q.reference = thread[t].reference,
         thread' = [thread EXCEPT ![t] = q]
  PROVE  Moved(t, thread[t].op, q.pc, q.artifact)
  <1>1. thread'[t] = q /\ \A u \in Threads : u # t => thread'[u] = thread[u]
    OBVIOUS
  <1>2. thread' \in [Threads -> ThreadRecords]
    OBVIOUS
  <1>3. thread[t].op \in {"protect", "release"} => q.reference \in References
    BY DEF CallShape
  <1> QED BY <1>1, <1>2, <1>3 DEF Moved

\* An update of the position and the artifact.
LEMMA TakeMoves ==
  ASSUME thread \in [Threads -> ThreadRecords], \A u \in Threads : CallShape(thread[u]),
         NEW t \in Threads, NEW pc \in Places,
         NEW a \in Artifacts \cup {None}, NEW rest \in SUBSET Artifacts,
         \/ thread' = [thread EXCEPT ![t].rest = rest, ![t].pc = pc, ![t].artifact = a]
         \/ thread' = [thread EXCEPT ![t].pc = pc, ![t].artifact = a]
  PROVE  Moved(t, thread[t].op, pc, a)
  <1> DEFINE x == [thread[t] EXCEPT !.rest = rest, !.pc = pc, !.artifact = a]
             y == [thread[t] EXCEPT !.pc = pc, !.artifact = a]
  <1>1. \A q \in {x, y} : /\ q \in ThreadRecords /\ q.pc = pc /\ q.artifact = a
                          /\ q.op = thread[t].op /\ q.reference = thread[t].reference
    <2>1. thread[t] \in ThreadRecords OBVIOUS
    <2> QED BY <2>1 DEF ThreadRecords, Places
  <1>2. thread' = [thread EXCEPT ![t] = x] \/ thread' = [thread EXCEPT ![t] = y]
    OBVIOUS
  <1> HIDE DEF x, y
  <1>3. PICK q \in {x, y} : thread' = [thread EXCEPT ![t] = q]
    BY <1>2
  <1>4. Moved(t, thread[t].op, q.pc, q.artifact)
    BY <1>1, <1>3, UpdateMoves
  <1> QED BY <1>1, <1>4

\* An update of the artifacts still to be looked at, and of the position.
LEMMA ListMoves ==
  ASSUME thread \in [Threads -> ThreadRecords], \A u \in Threads : CallShape(thread[u]),
         NEW t \in Threads, NEW pc \in Places,
         NEW rest \in SUBSET Artifacts, NEW current \in Nat,
         \/ thread' = [thread EXCEPT ![t].rest = rest, ![t].pc = pc, ![t].current = current]
         \/ thread' = [thread EXCEPT ![t].rest = rest] /\ pc = thread[t].pc
  PROVE  Moved(t, thread[t].op, pc, thread[t].artifact)
  <1> DEFINE x == [thread[t] EXCEPT !.rest = rest, !.pc = pc, !.current = current]
             y == [thread[t] EXCEPT !.rest = rest]
  <1>0. thread[t] \in ThreadRecords
    OBVIOUS
  <1>1. /\ x \in ThreadRecords /\ x.pc = pc /\ x.artifact = thread[t].artifact
        /\ x.op = thread[t].op /\ x.reference = thread[t].reference
    BY <1>0 DEF ThreadRecords, Places
  <1>2. /\ y \in ThreadRecords /\ y.pc = thread[t].pc /\ y.artifact = thread[t].artifact
        /\ y.op = thread[t].op /\ y.reference = thread[t].reference
    BY <1>0 DEF ThreadRecords
  <1>3. thread' = [thread EXCEPT ![t] = x] \/ (thread' = [thread EXCEPT ![t] = y] /\ pc = thread[t].pc)
    OBVIOUS
  <1> HIDE DEF x, y
  <1>4. CASE thread' = [thread EXCEPT ![t] = x]
    <2>1. Moved(t, thread[t].op, x.pc, x.artifact)
      BY <1>1, <1>4, UpdateMoves
    <2> QED BY <1>1, <2>1
  <1>5. CASE thread' = [thread EXCEPT ![t] = y] /\ pc = thread[t].pc
    <2>1. Moved(t, thread[t].op, y.pc, y.artifact)
      BY <1>2, <1>5, UpdateMoves
    <2> QED BY <1>2, <1>5, <2>1
  <1> QED BY <1>3, <1>4, <1>5

\* The step leaves an artifact's files and its memberships alone.
Same(b) ==
    /\ files'[b] = files[b]
    /\ b \in rows' <=> b \in rows
    /\ Held(b)' => Held(b)
    /\ b \in created' <=> b \in created
    /\ b \in removing' <=> b \in removing
    /\ b \in early' <=> b \in early
    /\ b \in broken => b \in broken'

\* An artifact keeps its invariant when neither it nor the part of it the
\* moving thread plays changes.
LEMMA QuietStep ==
  ASSUME NEW b \in Artifacts, ArtifactInv(b), Same(b),
         NEW t \in Threads, NEW op, NEW pc, NEW a, Moved(t, op, pc, a),
         thread[t].artifact = b => thread[t].pc \notin {"remove", "forget"},
         a = b => /\ pc \notin {"payload", "manifest", "record", "remove", "forget"}
                  /\ pc = "scan" => ~Held(b)
  PROVE  ArtifactInv(b)'
  <1>1. BuildingOf(b)' BY DEF ArtifactInv, BuildingOf, Same, Moved
  <1>2. OneCreatorOf(b)' BY DEF ArtifactInv, OneCreatorOf, Creates, Moved
  <1>3. FilesOf(b)' BY DEF ArtifactInv, FilesOf, Same
  <1>4. KeptOf(b)' BY DEF ArtifactInv, KeptOf, Same, Moved
  <1>5. HistoryOf(b)' BY DEF ArtifactInv, HistoryOf, Same
  <1>6. GhostOf(b)'
    <2> SUFFICES ASSUME b \in rows' \ (broken \cup early)'
                 PROVE  /\ files'[b] = {} => \E u \in Threads : thread'[u].artifact = b /\ thread'[u].pc = "forget"
                        /\ "manifest" \notin files'[b] => \E u \in Threads : Removes(u, b)'
      BY DEF GhostOf
    <2>1. /\ files[b] = {} => \E u \in Threads : thread[u].artifact = b /\ thread[u].pc = "forget"
          /\ "manifest" \notin files[b] => \E u \in Threads : Removes(u, b)
      BY DEF ArtifactInv, GhostOf, Same
    <2>2. \A u \in Threads : thread[u].artifact = b /\ thread[u].pc \in {"remove", "forget"} => thread'[u] = thread[u]
      BY DEF Moved
    <2> QED BY <2>1, <2>2 DEF Same, Removes
  <1> QED BY <1>1, <1>2, <1>3, <1>4, <1>5, <1>6 DEF ArtifactInv

\* What StoreInv gives about one thread and about one artifact.
LEMMA StoreFacts ==
  ASSUME StoreInv
  PROVE  /\ files \in [Artifacts -> SUBSET Whole]
         /\ record \in [Artifacts -> [session : Sessions \cup {None}, time : Nat]]
         /\ thread \in [Threads -> ThreadRecords]
         /\ rows \subseteq Artifacts /\ created \subseteq Artifacts
         /\ removing \subseteq Artifacts /\ early \subseteq Artifacts
         /\ refs \subseteq Artifacts \X References /\ late \subseteq Artifacts \X References
         /\ \A u \in Threads : CallShape(thread[u])
         /\ \A b \in Artifacts : ArtifactInv(b)
  BY DEF StoreInv, StoreTypeOK

\* The parts of StoreInv after a step, put together.
LEMMA StoreInvFrom ==
  ASSUME files' \in [Artifacts -> SUBSET Whole],
         record' \in [Artifacts -> [session : Sessions \cup {None}, time : Nat]],
         thread' \in [Threads -> ThreadRecords],
         rows' \subseteq Artifacts, created' \subseteq Artifacts,
         removing' \subseteq Artifacts, early' \subseteq Artifacts,
         refs' \subseteq Artifacts \X References, late' \subseteq Artifacts \X References,
         \A u \in Threads : CallShape(thread[u])',
         \A b \in Artifacts : ArtifactInv(b)'
  PROVE  StoreInv'
  BY DEF StoreInv, StoreTypeOK

\* The mover's new position has its shape, the others keep theirs.
LEMMA ShapeStep ==
  ASSUME \A u \in Threads : CallShape(thread[u]),
         NEW t \in Threads, NEW op, NEW pc, NEW a, Moved(t, op, pc, a),
         /\ pc \in {"payload", "manifest", "record"} => op = "create"
         /\ pc = "register" => op = "protect"
         /\ pc = "scan" => op = "delete"
         /\ pc \in {"remove", "forget"} => op \in {"delete", "cleanup"}
         /\ \/ pc \in {"payload", "manifest", "record", "register", "scan", "remove", "forget"}
            \/ op \in {"protect", "release", "delete"}
            => a \in Artifacts
  PROVE  \A u \in Threads : CallShape(thread[u])'
  <1> TAKE u \in Threads
  <1>1. CASE u = t BY <1>1 DEF CallShape, Moved
  <1>2. CASE u # t BY <1>2 DEF CallShape, Moved
  <1> QED BY <1>1, <1>2

\* The stages of an artifact's directory are different sets.
LEMMA Stages ==
  /\ {"dir"} # {} /\ {"dir", "payload"} # {} /\ Whole # {}
  /\ {"dir"} \cup {"payload"} = {"dir", "payload"} /\ {"dir", "payload"} \cup {"manifest"} = Whole
  /\ {"dir"} # {"dir", "payload"} /\ {"dir"} # Whole /\ {"dir", "payload"} # Whole
  BY DEF Whole

\* No step but the one that makes a directory adds a creator.
LEMMA CreatorStep ==
  ASSUME NEW b, OneCreatorOf(b), NEW t \in Threads, NEW op, NEW pc, NEW a, Moved(t, op, pc, a),
         a = b /\ pc \in {"payload", "manifest", "record"} => Creates(t, b)
  PROVE  OneCreatorOf(b)'
  BY DEF OneCreatorOf, Creates, Moved

\* What creations know of an artifact survives a step that does not touch it.
LEMMA BuildingStep ==
  ASSUME NEW b, BuildingOf(b), NEW t \in Threads, NEW op, NEW pc, NEW a, Moved(t, op, pc, a),
         files'[b] = files[b], b \in removing' <=> b \in removing,
         b \in created' <=> b \in created,
         a = b => /\ pc \notin {"payload", "manifest", "record"}
                  /\ pc \in {"remove", "forget"} => b \in removing
  PROVE  BuildingOf(b)'
  BY DEF BuildingOf, Moved

\* References hold what they held while none comes or goes.
LEMMA HeldKeeps ==
  ASSUME UNCHANGED <<refs, late>>
  PROVE  \A b : Held(b)' <=> Held(b)
  BY DEF Held

\* One lemma per step of the store: each keeps StoreInv.
LEMMA NewArtifactDirKeeps ==
  ASSUME StoreInv, NEW t \in Threads, NewArtifactDir(t)
  PROVE  StoreInv'
  <1>f. PICK a \in Artifacts :
            /\ thread[t].op = "create" /\ thread[t].pc = "start"
            /\ a \notin removing /\ a \notin created /\ files[a] = {}
            /\ files' = [files EXCEPT ![a] = {"dir"}]
            /\ thread' = [thread EXCEPT ![t].pc = "payload", ![t].artifact = a]
    BY DEF NewArtifactDir, At
  <1>u. UNCHANGED <<record, rows, refs, created, removing, early, late, broken>>
    BY DEF NewArtifactDir, history
  <1>t. files \in [Artifacts -> SUBSET Whole] /\ ArtifactInv(a)
    BY StoreFacts
  <1>m. Moved(t, "create", "payload", a)
    BY <1>f, TakeMoves, StoreFacts DEF Places
  <1>s. \A u \in Threads : CallShape(thread[u])'
    BY <1>m, ShapeStep, StoreFacts
  <1>w. files'[a] = {"dir"} /\ \A b \in Artifacts : b # a => files'[b] = files[b]
    BY <1>f, <1>t
  <1>a. ArtifactInv(a)'
    <2>1. BuildingOf(a)'
      BY <1>f, <1>u, <1>t, <1>m, <1>w, Stages
         DEF ArtifactInv, BuildingOf, OneCreatorOf, Creates, Moved
    <2>2. OneCreatorOf(a)'
      BY <1>f, <1>u, <1>t, <1>m, <1>w, Stages
         DEF ArtifactInv, OneCreatorOf, BuildingOf, Creates, Moved
    <2>3. FilesOf(a)'
      BY <1>f, <1>u, <1>t, <1>m, <1>w, Stages DEF ArtifactInv, BuildingOf, FilesOf
    <2>4. KeptOf(a)'
      BY <1>f, <1>u, <1>t, <1>m, <1>w, Stages, HeldKeeps DEF ArtifactInv, BuildingOf, KeptOf, Moved
    <2>5. HistoryOf(a)'
      BY <1>f, <1>u, <1>t, <1>m, <1>w, Stages DEF ArtifactInv, BuildingOf, HistoryOf
    <2>6. GhostOf(a)'
      BY <1>f, <1>u, <1>t, <1>m, <1>w, Stages
         DEF ArtifactInv, BuildingOf, FilesOf, GhostOf, HistoryOf, Removes, Moved
    <2> QED BY <2>1, <2>2, <2>3, <2>4, <2>5, <2>6 DEF ArtifactInv

  <1>b. \A b \in Artifacts : ArtifactInv(b)'
    <2> TAKE b \in Artifacts
    <2>1. CASE b # a
      <3>1. ArtifactInv(b) /\ Same(b) BY <2>1, <1>u, <1>w, StoreFacts, HeldKeeps DEF Same
      <3> QED BY <2>1, <3>1, <1>m, <1>f, QuietStep
    <2> QED BY <2>1, <1>a
  <1>y. files' \in [Artifacts -> SUBSET Whole]
    BY <1>f, <1>t DEF Whole
  <1> QED BY <1>b, <1>s, <1>y, <1>u, <1>m, StoreFacts, StoreInvFrom DEF Moved

\* The payload is written before the manifest, so nothing lists the artifact yet.
LEMMA WritePayloadKeeps ==
  ASSUME StoreInv, NEW t \in Threads, WritePayload(t)
  PROVE  StoreInv'
  <1>a. PICK a \in Artifacts : thread[t].artifact = a
    BY StoreFacts DEF WritePayload, At, CallShape
  <1>f. /\ thread[t].op = "create" /\ thread[t].pc = "payload"
        /\ files' = [files EXCEPT ![a] = @ \cup {"payload"}]
        /\ Goto(t, "manifest")
    BY <1>a DEF WritePayload, At
  <1>u. UNCHANGED <<record, rows, refs, created, removing, early, late, broken>>
    BY DEF WritePayload, history
  <1>t. files \in [Artifacts -> SUBSET Whole] /\ ArtifactInv(a)
    BY <1>a, StoreFacts
  <1>m. Moved(t, "create", "manifest", a)
    BY <1>f, <1>a, GotoMoves, StoreFacts DEF Places
  <1>s. \A u \in Threads : CallShape(thread[u])'
    BY <1>m, <1>a, <1>f, ShapeStep, StoreFacts
  <1>w. files'[a] = files[a] \cup {"payload"} /\ \A b \in Artifacts : b # a => files'[b] = files[b]
    BY <1>f, <1>t, <1>a, <1>u, StoreAssumption
  <1>i. ArtifactInv(a)'
    <2>1. BuildingOf(a)'
      BY <1>f, <1>u, <1>a, <1>t, <1>m, <1>w, Stages
         DEF ArtifactInv, BuildingOf, OneCreatorOf, Creates, Moved
    <2>2. OneCreatorOf(a)'
      BY <1>f, <1>u, <1>a, <1>t, <1>m, <1>w, Stages
         DEF ArtifactInv, OneCreatorOf, BuildingOf, Creates, Moved
    <2>3. FilesOf(a)'
      BY <1>f, <1>u, <1>a, <1>t, <1>m, <1>w, Stages DEF ArtifactInv, BuildingOf, FilesOf
    <2>4. KeptOf(a)'
      BY <1>f, <1>u, <1>a, <1>t, <1>m, <1>w, Stages, HeldKeeps
         DEF ArtifactInv, BuildingOf, KeptOf, Moved
    <2>5. HistoryOf(a)'
      BY <1>f, <1>u, <1>a, <1>t, <1>m, <1>w, Stages DEF ArtifactInv, BuildingOf, HistoryOf
    <2>6. GhostOf(a)'
      BY <1>f, <1>u, <1>a, <1>t, <1>m, <1>w, Stages
         DEF ArtifactInv, BuildingOf, FilesOf, GhostOf, HistoryOf, Removes, Moved
    <2> QED BY <2>1, <2>2, <2>3, <2>4, <2>5, <2>6 DEF ArtifactInv
  <1>b. \A b \in Artifacts : ArtifactInv(b)'
    <2> TAKE b \in Artifacts
    <2>1. CASE b # a
      <3>1. ArtifactInv(b) /\ Same(b) BY <2>1, <1>f, <1>u, <1>w, StoreFacts, HeldKeeps DEF Same
      <3> QED BY <2>1, <3>1, <1>m, <1>f, <1>a, <1>w, QuietStep
    <2> QED BY <2>1, <1>i
  <1>y. files' \in [Artifacts -> SUBSET Whole]
    BY <1>f, <1>t, <1>a, <1>u, StoreFacts DEF Whole
  <1> QED BY <1>b, <1>s, <1>y, <1>u, <1>m, StoreFacts, StoreInvFrom DEF Moved

\* With the manifest the artifact is whole.
LEMMA WriteManifestKeeps ==
  ASSUME StoreInv, NEW t \in Threads, now \in Nat, WriteManifest(t)
  PROVE  StoreInv'
  <1>a. PICK a \in Artifacts : thread[t].artifact = a
    BY StoreFacts DEF WriteManifest, At, CallShape
  <1>f. /\ thread[t].op = "create" /\ thread[t].pc = "manifest"
        /\ files' = [files EXCEPT ![a] = @ \cup {"manifest"}]
        /\ record' = [record EXCEPT ![a] = [session |-> thread[t].session, time |-> now]]
        /\ Goto(t, "record")
    BY <1>a DEF WriteManifest, At
  <1>u. UNCHANGED <<rows, refs, created, removing, early, late, broken>>
    BY DEF WriteManifest, history
  <1>t. files \in [Artifacts -> SUBSET Whole] /\ ArtifactInv(a)
    BY <1>a, StoreFacts
  <1>m. Moved(t, "create", "record", a)
    BY <1>f, <1>a, GotoMoves, StoreFacts DEF Places
  <1>s. \A u \in Threads : CallShape(thread[u])'
    BY <1>m, <1>a, <1>f, ShapeStep, StoreFacts
  <1>w. files'[a] = files[a] \cup {"manifest"} /\ \A b \in Artifacts : b # a => files'[b] = files[b]
    BY <1>f, <1>t, <1>a, <1>u, StoreAssumption
  <1>i. ArtifactInv(a)'
    <2>1. BuildingOf(a)'
      BY <1>f, <1>u, <1>a, <1>t, <1>m, <1>w, Stages
         DEF ArtifactInv, BuildingOf, OneCreatorOf, Creates, Moved
    <2>2. OneCreatorOf(a)'
      BY <1>f, <1>u, <1>a, <1>t, <1>m, <1>w, Stages
         DEF ArtifactInv, OneCreatorOf, BuildingOf, Creates, Moved
    <2>3. FilesOf(a)'
      BY <1>f, <1>u, <1>a, <1>t, <1>m, <1>w, Stages DEF ArtifactInv, BuildingOf, FilesOf
    <2>4. KeptOf(a)'
      BY <1>f, <1>u, <1>a, <1>t, <1>m, <1>w, Stages, HeldKeeps
         DEF ArtifactInv, BuildingOf, KeptOf, Moved
    <2>5. HistoryOf(a)'
      BY <1>f, <1>u, <1>a, <1>t, <1>m, <1>w, Stages DEF ArtifactInv, BuildingOf, HistoryOf
    <2>6. GhostOf(a)'
      BY <1>f, <1>u, <1>a, <1>t, <1>m, <1>w, Stages
         DEF ArtifactInv, BuildingOf, FilesOf, GhostOf, HistoryOf, Removes, Moved
    <2> QED BY <2>1, <2>2, <2>3, <2>4, <2>5, <2>6 DEF ArtifactInv
  <1>b. \A b \in Artifacts : ArtifactInv(b)'
    <2> TAKE b \in Artifacts
    <2>1. CASE b # a
      <3>1. ArtifactInv(b) /\ Same(b) BY <2>1, <1>f, <1>u, <1>w, StoreFacts, HeldKeeps DEF Same
      <3> QED BY <2>1, <3>1, <1>m, <1>f, <1>a, <1>w, QuietStep
    <2> QED BY <2>1, <1>i
  <1>y. /\ files' \in [Artifacts -> SUBSET Whole]
        /\ record' \in [Artifacts -> [session : Sessions \cup {None}, time : Nat]]
    BY <1>f, <1>t, <1>a, <1>u, StoreFacts DEF Whole, ThreadRecords
  <1> QED BY <1>b, <1>s, <1>y, <1>u, <1>m, StoreFacts, StoreInvFrom DEF Moved

\* A record written for an artifact that lost its manifest in the meantime
\* belongs to an early removal.
LEMMA RecordArtifactKeeps ==
  ASSUME StoreInv, NEW t \in Threads, RecordArtifact(t)
  PROVE  StoreInv'
  <1>a. PICK a \in Artifacts : thread[t].artifact = a
    BY StoreFacts DEF RecordArtifact, At, CallShape
  <1>f. /\ thread[t].op = "create" /\ thread[t].pc = "record"
        /\ rows' = rows \cup {a} /\ created' = created \cup {a}
        /\ Answer(t)
    BY <1>a DEF RecordArtifact, At
  <1>u. UNCHANGED <<files, record, refs, removing, early, late, broken>>
    BY DEF RecordArtifact, history
  <1>t. files \in [Artifacts -> SUBSET Whole] /\ ArtifactInv(a)
    BY <1>a, StoreFacts
  <1>m. Moved(t, "idle", "", None)
    BY <1>f, <1>a, AnswerMoves, StoreFacts DEF Places
  <1>s. \A u \in Threads : CallShape(thread[u])'
    BY <1>m, <1>a, <1>f, ShapeStep, StoreFacts
  <1>w. None # a
    BY <1>f, <1>t, <1>a, <1>u, StoreAssumption
  <1>i. ArtifactInv(a)'
    <2>1. BuildingOf(a)'
      BY <1>f, <1>u, <1>a, <1>t, <1>m, <1>w, Stages
         DEF ArtifactInv, BuildingOf, OneCreatorOf, Creates, Moved
    <2>2. OneCreatorOf(a)'
      BY <1>f, <1>u, <1>a, <1>t, <1>m, <1>w, Stages
         DEF ArtifactInv, OneCreatorOf, BuildingOf, Creates, Moved
    <2>3. FilesOf(a)'
      BY <1>f, <1>u, <1>a, <1>t, <1>m, <1>w, Stages DEF ArtifactInv, BuildingOf, FilesOf
    <2>4. KeptOf(a)'
      BY <1>f, <1>u, <1>a, <1>t, <1>m, <1>w, Stages, HeldKeeps
         DEF ArtifactInv, BuildingOf, KeptOf, Moved
    <2>5. HistoryOf(a)'
      BY <1>f, <1>u, <1>a, <1>t, <1>m, <1>w, Stages DEF ArtifactInv, BuildingOf, HistoryOf
    <2>6. GhostOf(a)'
      BY <1>f, <1>u, <1>a, <1>t, <1>m, <1>w, Stages
         DEF ArtifactInv, BuildingOf, FilesOf, GhostOf, HistoryOf, Removes, Moved
    <2> QED BY <2>1, <2>2, <2>3, <2>4, <2>5, <2>6 DEF ArtifactInv
  <1>b. \A b \in Artifacts : ArtifactInv(b)'
    <2> TAKE b \in Artifacts
    <2>1. CASE b # a
      <3>1. ArtifactInv(b) /\ Same(b) BY <2>1, <1>f, <1>u, <1>w, StoreFacts, HeldKeeps DEF Same
      <3> QED BY <2>1, <3>1, <1>m, <1>f, <1>a, <1>w, QuietStep
    <2> QED BY <2>1, <1>i
  <1>y. rows' \subseteq Artifacts /\ created' \subseteq Artifacts
    BY <1>f, <1>t, <1>a, <1>u, StoreFacts DEF Whole
  <1> QED BY <1>b, <1>s, <1>y, <1>u, <1>m, StoreFacts, StoreInvFrom DEF Moved

\* A reference that is not late finds the artifact whole and no removal under way.
LEMMA RegisterReferenceKeeps ==
  ASSUME StoreInv, NEW t \in Threads, RegisterReference(t)
  PROVE  StoreInv'
  <1>a. PICK a \in Artifacts : thread[t].artifact = a
    BY StoreFacts DEF RegisterReference, At, CallShape
  <1>f. /\ thread[t].op = "protect" /\ thread[t].pc = "register"
        /\ refs' = refs \cup {<<a, thread[t].reference>>}
        /\ late' = IF BeingRemoved(a) \/ files[a] # Whole
                   THEN late \cup {<<a, thread[t].reference>>} ELSE late
        /\ Answer(t) /\ thread[t].reference \in References
    BY <1>a, StoreFacts DEF RegisterReference, At, CallShape
  <1>h. /\ \A b \in Artifacts : b # a => (Held(b)' => Held(b))
        /\ BeingRemoved(a) \/ files[a] # Whole => (Held(a)' => Held(a))
    BY <1>f DEF Held
  <1>u. UNCHANGED <<files, record, rows, created, removing, early, broken>>
    BY DEF RegisterReference, history
  <1>t. files \in [Artifacts -> SUBSET Whole] /\ ArtifactInv(a)
    BY <1>a, StoreFacts
  <1>m. Moved(t, "idle", "", None)
    BY <1>f, <1>a, AnswerMoves, StoreFacts DEF Places
  <1>s. \A u \in Threads : CallShape(thread[u])'
    BY <1>m, <1>a, <1>f, ShapeStep, StoreFacts
  <1>w. None # a
    BY <1>f, <1>t, <1>a, <1>u, StoreAssumption
  <1>i. ArtifactInv(a)'
    <2>1. BuildingOf(a)'
      BY <1>f, <1>u, <1>t, <1>m, <1>w, BuildingStep DEF ArtifactInv
    <2>2. OneCreatorOf(a)'
      BY <1>t, <1>m, <1>w, CreatorStep DEF ArtifactInv
    <2>3. FilesOf(a)'
      BY <1>f, <1>u, <1>a, <1>t, <1>m, <1>w, Stages DEF ArtifactInv, BuildingOf, FilesOf
    <2>4. KeptOf(a)'
      <3>1. CASE BeingRemoved(a) \/ files[a] # Whole
        BY <1>h, <1>u, <1>t, <1>m, <1>w, <3>1 DEF ArtifactInv, KeptOf, Moved
      <3>2. CASE ~BeingRemoved(a) /\ files[a] = Whole
        BY <1>u, <1>m, <1>w, <3>2 DEF KeptOf, BeingRemoved, Moved
      <3> QED BY <3>1, <3>2
    <2>5. HistoryOf(a)'
      BY <1>f, <1>u, <1>a, <1>t, <1>m, <1>w, Stages DEF ArtifactInv, BuildingOf, HistoryOf
    <2>6. GhostOf(a)'
      BY <1>f, <1>u, <1>a, <1>t, <1>m, <1>w, Stages
         DEF ArtifactInv, BuildingOf, FilesOf, GhostOf, HistoryOf, Removes, Moved
    <2> QED BY <2>1, <2>2, <2>3, <2>4, <2>5, <2>6 DEF ArtifactInv
  <1>b. \A b \in Artifacts : ArtifactInv(b)'
    <2> TAKE b \in Artifacts
    <2>1. CASE b # a
      <3>1. ArtifactInv(b) /\ Same(b) BY <2>1, <1>f, <1>u, <1>w, StoreFacts, <1>h DEF Same
      <3> QED BY <2>1, <3>1, <1>m, <1>f, <1>a, <1>w, QuietStep
    <2> QED BY <2>1, <1>i
  <1>y. refs' \subseteq Artifacts \X References /\ late' \subseteq Artifacts \X References
    BY <1>f, <1>t, <1>a, <1>u, StoreFacts DEF Whole
  <1> QED BY <1>b, <1>s, <1>y, <1>u, <1>m, StoreFacts, StoreInvFrom DEF Moved

\* Releasing a reference gives up its protection only.
LEMMA ReleaseReferenceKeeps ==
  ASSUME StoreInv, NEW t \in Threads, ReleaseReference(t)
  PROVE  StoreInv'
  <1>a. PICK a \in Artifacts : thread[t].artifact = a
    BY StoreFacts DEF ReleaseReference, At, CallShape
  <1>f. /\ thread[t].op = "release" /\ thread[t].pc = "start"
        /\ refs' = refs \ {<<a, thread[t].reference>>}
        /\ late' = late \ {<<a, thread[t].reference>>}
        /\ Answer(t)
    BY <1>a DEF ReleaseReference, At
  <1>h. \A b : Held(b)' => Held(b)
    BY <1>f DEF Held
  <1>u. UNCHANGED <<files, record, rows, created, removing, early, broken>>
    BY DEF ReleaseReference, history
  <1>t. files \in [Artifacts -> SUBSET Whole] /\ ArtifactInv(a)
    BY <1>a, StoreFacts
  <1>m. Moved(t, "idle", "", None)
    BY <1>f, <1>a, AnswerMoves, StoreFacts DEF Places
  <1>s. \A u \in Threads : CallShape(thread[u])'
    BY <1>m, <1>a, <1>f, ShapeStep, StoreFacts
  <1>w. None # a
    BY <1>f, <1>t, <1>a, <1>u, StoreAssumption
  <1>i. ArtifactInv(a)'
    <2>1. BuildingOf(a)'
      BY <1>f, <1>u, <1>t, <1>m, <1>w, BuildingStep DEF ArtifactInv
    <2>2. OneCreatorOf(a)'
      BY <1>t, <1>m, <1>w, CreatorStep DEF ArtifactInv
    <2>3. FilesOf(a)'
      BY <1>f, <1>u, <1>a, <1>t, <1>m, <1>w, Stages DEF ArtifactInv, BuildingOf, FilesOf
    <2>4. KeptOf(a)'
      BY <1>f, <1>u, <1>a, <1>t, <1>m, <1>w, Stages, <1>h DEF ArtifactInv, BuildingOf, KeptOf, Moved
    <2>5. HistoryOf(a)'
      BY <1>f, <1>u, <1>a, <1>t, <1>m, <1>w, Stages DEF ArtifactInv, BuildingOf, HistoryOf
    <2>6. GhostOf(a)'
      BY <1>f, <1>u, <1>a, <1>t, <1>m, <1>w, Stages
         DEF ArtifactInv, BuildingOf, FilesOf, GhostOf, HistoryOf, Removes, Moved
    <2> QED BY <2>1, <2>2, <2>3, <2>4, <2>5, <2>6 DEF ArtifactInv
  <1>b. \A b \in Artifacts : ArtifactInv(b)'
    <2> TAKE b \in Artifacts
    <2>1. CASE b # a
      <3>1. ArtifactInv(b) /\ Same(b) BY <2>1, <1>f, <1>u, <1>w, StoreFacts, <1>h DEF Same
      <3> QED BY <2>1, <3>1, <1>m, <1>f, <1>a, <1>w, QuietStep
    <2> QED BY <2>1, <1>i
  <1>y. refs' \subseteq Artifacts \X References /\ late' \subseteq Artifacts \X References
    BY <1>f, <1>t, <1>a, <1>u, StoreFacts DEF Whole
  <1> QED BY <1>b, <1>s, <1>y, <1>u, <1>m, StoreFacts, StoreInvFrom DEF Moved

\* The record goes, and with it what GhostOf asks of the artifact.
LEMMA ForgetKeeps ==
  ASSUME StoreInv, NEW t \in Threads, Forget(t)
  PROVE  StoreInv'
  <1>a. PICK a \in Artifacts : thread[t].artifact = a
    BY StoreFacts DEF Forget, CallShape
  <1>f. /\ thread[t].pc = "forget" /\ thread[t].op \in {"delete", "cleanup"}
        /\ Forgotten(t) /\ rows' = rows \ {a}
    BY <1>a, StoreFacts DEF Forget, CallShape
  <1>u. UNCHANGED <<files, record, refs, created, removing, early, late, broken>>
    BY DEF Forget, history
  <1>t. files \in [Artifacts -> SUBSET Whole] /\ ArtifactInv(a)
    BY <1>a, StoreFacts
  <1>m. \E op \in {"idle", "cleanup"}, pc \in {"", "next"} : Moved(t, op, pc, None)
    <2>1. CASE thread[t].op = "delete"
      BY <2>1, <1>f, AnswerMoves, StoreFacts DEF Forgotten
    <2>2. CASE thread[t].op = "cleanup"
      <3>1. thread' = [thread EXCEPT ![t].pc = "next", ![t].artifact = None]
        BY <2>2, <1>f DEF Forgotten
      <3>2. Moved(t, thread[t].op, "next", None)
        BY <3>1, TakeMoves, StoreFacts DEF Places
      <3> QED BY <3>2, <2>2
    <2> QED BY <1>f, <2>1, <2>2
  <1>p. PICK op \in {"idle", "cleanup"}, pc \in {"", "next"} : Moved(t, op, pc, None)
    BY <1>m
  <1>s. \A u \in Threads : CallShape(thread[u])'
    BY <1>p, <1>a, <1>f, ShapeStep, StoreFacts
  <1>w. None # a
    BY <1>f, <1>t, <1>a, <1>u, StoreAssumption
  <1>i. ArtifactInv(a)'
    <2>1. BuildingOf(a)'
      BY <1>f, <1>u, <1>t, <1>p, <1>w, BuildingStep DEF ArtifactInv
    <2>2. OneCreatorOf(a)'
      BY <1>t, <1>p, <1>w, CreatorStep DEF ArtifactInv
    <2>3. FilesOf(a)'
      BY <1>f, <1>u, <1>a, <1>t, <1>p, <1>w, Stages DEF ArtifactInv, BuildingOf, FilesOf
    <2>4. KeptOf(a)'
      BY <1>f, <1>u, <1>a, <1>t, <1>p, <1>w, Stages, HeldKeeps
         DEF ArtifactInv, BuildingOf, KeptOf, Moved
    <2>5. HistoryOf(a)'
      BY <1>f, <1>u, <1>a, <1>t, <1>p, <1>w, Stages DEF ArtifactInv, BuildingOf, HistoryOf
    <2>6. GhostOf(a)'
      BY <1>f, <1>u, <1>a, <1>t, <1>p, <1>w, Stages
         DEF ArtifactInv, BuildingOf, FilesOf, GhostOf, HistoryOf, Removes, Moved
    <2> QED BY <2>1, <2>2, <2>3, <2>4, <2>5, <2>6 DEF ArtifactInv
  <1>b. \A b \in Artifacts : ArtifactInv(b)'
    <2> TAKE b \in Artifacts
    <2>1. CASE b # a
      <3>1. ArtifactInv(b) /\ Same(b) BY <2>1, <1>f, <1>u, <1>w, StoreFacts, HeldKeeps DEF Same
      <3> QED BY <2>1, <3>1, <1>p, <1>f, <1>a, <1>w, QuietStep
    <2> QED BY <2>1, <1>i
  <1>y. rows' \subseteq Artifacts
    BY <1>f, <1>t, <1>a, <1>u, StoreFacts DEF Whole
  <1> QED BY <1>b, <1>s, <1>y, <1>u, <1>p, StoreFacts, StoreInvFrom DEF Moved

\* A record that cannot be deleted belongs to a broken removal.
LEMMA ForgetFailsKeeps ==
  ASSUME StoreInv, NEW t \in Threads, ForgetFails(t)
  PROVE  StoreInv'
  <1>a. PICK a \in Artifacts : thread[t].artifact = a
    BY StoreFacts DEF ForgetFails, CallShape
  <1>f. /\ thread[t].pc = "forget" /\ Answer(t) /\ broken' = broken \cup {a}
    BY <1>a DEF ForgetFails
  <1>u. UNCHANGED <<files, record, refs, created, removing, early, late, rows>>
    BY DEF ForgetFails, history
  <1>t. files \in [Artifacts -> SUBSET Whole] /\ ArtifactInv(a)
    BY <1>a, StoreFacts
  <1>m. Moved(t, "idle", "", None)
    BY <1>f, <1>a, AnswerMoves, StoreFacts DEF Places
  <1>s. \A u \in Threads : CallShape(thread[u])'
    BY <1>m, <1>a, <1>f, ShapeStep, StoreFacts
  <1>w. None # a
    BY <1>f, <1>t, <1>a, <1>u, StoreAssumption
  <1>i. ArtifactInv(a)'
    <2>1. BuildingOf(a)'
      BY <1>f, <1>u, <1>t, <1>m, <1>w, BuildingStep DEF ArtifactInv
    <2>2. OneCreatorOf(a)'
      BY <1>t, <1>m, <1>w, CreatorStep DEF ArtifactInv
    <2>3. FilesOf(a)'
      BY <1>f, <1>u, <1>a, <1>t, <1>m, <1>w, Stages DEF ArtifactInv, BuildingOf, FilesOf
    <2>4. KeptOf(a)'
      BY <1>f, <1>u, <1>a, <1>t, <1>m, <1>w, Stages, HeldKeeps
         DEF ArtifactInv, BuildingOf, KeptOf, Moved
    <2>5. HistoryOf(a)'
      BY <1>f, <1>u, <1>a, <1>t, <1>m, <1>w, Stages DEF ArtifactInv, BuildingOf, HistoryOf
    <2>6. GhostOf(a)'
      BY <1>f, <1>u, <1>a, <1>t, <1>m, <1>w, Stages
         DEF ArtifactInv, BuildingOf, FilesOf, GhostOf, HistoryOf, Removes, Moved
    <2> QED BY <2>1, <2>2, <2>3, <2>4, <2>5, <2>6 DEF ArtifactInv
  <1>b. \A b \in Artifacts : ArtifactInv(b)'
    <2> TAKE b \in Artifacts
    <2>1. CASE b # a
      <3>1. ArtifactInv(b) /\ Same(b) BY <2>1, <1>f, <1>u, <1>w, StoreFacts, HeldKeeps DEF Same
      <3> QED BY <2>1, <3>1, <1>m, <1>f, <1>a, <1>w, QuietStep
    <2> QED BY <2>1, <1>i
  <1>y. TRUE
    BY <1>f, <1>t, <1>a, <1>u, StoreFacts DEF Whole
  <1> QED BY <1>b, <1>s, <1>y, <1>u, <1>m, StoreFacts, StoreInvFrom DEF Moved

\* A step outside a creation's writes and a removal changes no artifact.
LEMMA QuietKeeps ==
  ASSUME StoreInv, NEW t \in Threads, NEW op, NEW pc, NEW a, Moved(t, op, pc, a),
         UNCHANGED <<files, record, rows, refs, created, removing, early, late, broken>>,
         thread[t].pc \notin {"remove", "forget"},
         pc \notin {"payload", "manifest", "record", "remove", "forget"},
         pc = "scan" => ~Held(a),
         /\ pc = "register" => op = "protect"
         /\ pc = "scan" => op = "delete"
         /\ pc \in {"register", "scan"} \/ op \in {"protect", "release", "delete"} => a \in Artifacts
  PROVE  StoreInv'
  <1>1. \A u \in Threads : CallShape(thread[u])'
    BY ShapeStep, StoreFacts
  <1>2. \A b \in Artifacts : ArtifactInv(b)'
    <2> TAKE b \in Artifacts
    <2>1. ArtifactInv(b) /\ Same(b) BY StoreFacts, HeldKeeps DEF Same
    <2> QED BY <2>1, QuietStep
  <1> QED BY <1>1, <1>2, StoreFacts, StoreInvFrom DEF Moved

\* The fields of an idle thread.
LEMMA IdleFields == Idle.pc = "" /\ Idle.op = "idle" /\ Idle.artifact = None
  BY DEF Idle

\* A handler starts.
LEMMA StartCallKeeps ==
  ASSUME StoreInv, NEW t \in Threads, NEW op \in Calls, NEW s \in Sessions,
         NEW a \in Artifacts, NEW reference \in References,
         StartCall(t, op, s, IF op \in {"create", "cleanup"} THEN None ELSE a,
                   IF op \in {"protect", "release"} THEN reference ELSE None)
  PROVE  StoreInv'
  <1> DEFINE x == IF op \in {"create", "cleanup"} THEN None ELSE a
         y == IF op \in {"protect", "release"} THEN reference ELSE None
  <1>1. Moved(t, op, "start", x)
    <2>1. /\ x \in Artifacts \cup {None} /\ y \in References \cup {None}
          /\ op \in {"protect", "release"} => y \in References
          /\ StartCall(t, op, s, x, y)
      OBVIOUS
    <2> HIDE DEF x, y
    <2> QED BY <2>1, StartMoves, StoreFacts
  <1>2. /\ UNCHANGED <<files, record, rows, refs, created, removing, early, late, broken>>
        /\ thread[t] = Idle
    BY DEF StartCall, history
  <1>4. thread[t].pc = ""
    BY <1>2, IdleFields
  <1>3. op \in {"protect", "release", "delete"} => x \in Artifacts
    OBVIOUS
  <1> HIDE DEF x
  <1> QED BY <1>1, <1>2, <1>3, <1>4, QuietKeeps

\* A creation fails and leaves its files.
LEMMA CreateFailsKeeps ==
  ASSUME StoreInv, NEW t \in Threads, CreateFails(t)
  PROVE  StoreInv'
  <1>1. Moved(t, "idle", "", None)
    BY AnswerMoves, StoreFacts DEF CreateFails
  <1>2. /\ UNCHANGED <<files, record, rows, refs, created, removing, early, late, broken>>
        /\ thread[t].pc \in {"payload", "manifest", "record"}
    BY DEF CreateFails, At, history
  <1> QED BY <1>1, <1>2, QuietKeeps

\* A protection looks the artifact up.
LEMMA FindToProtectKeeps ==
  ASSUME StoreInv, NEW t \in Threads, FindToProtect(t)
  PROVE  StoreInv'
  <1>1. /\ UNCHANGED <<files, record, rows, refs, created, removing, early, late, broken>>
        /\ thread[t].pc = "start" /\ thread[t].op = "protect"
        /\ Goto(t, "register") \/ Answer(t)
    BY DEF FindToProtect, At, history
  <1>2. thread[t].artifact \in Artifacts
    BY <1>1, StoreFacts DEF CallShape
  <1>3. CASE Goto(t, "register")
    <2>1. Moved(t, "protect", "register", thread[t].artifact)
      BY <1>1, <1>3, GotoMoves, StoreFacts DEF Places
    <2> QED BY <1>1, <1>2, <2>1, QuietKeeps
  <1>4. CASE Answer(t)
    BY <1>1, <1>4, AnswerMoves, StoreFacts, QuietKeeps
  <1> QED BY <1>1, <1>3, <1>4

\* A deletion goes on only when no reference protects the artifact.
LEMMA DeleteChecksKeeps ==
  ASSUME StoreInv, NEW t \in Threads, DeleteChecks(t)
  PROVE  StoreInv'
  <1>1. /\ UNCHANGED <<files, record, rows, refs, created, removing, early, late, broken>>
        /\ thread[t].pc = "start" /\ thread[t].op = "delete"
        /\ (Goto(t, "scan") /\ ~Protected(thread[t].artifact)) \/ Answer(t)
    BY DEF DeleteChecks, At, history
  <1>2. thread[t].artifact \in Artifacts
    BY <1>1, StoreFacts DEF CallShape
  <1>3. CASE Goto(t, "scan") /\ ~Protected(thread[t].artifact)
    <2>1. Moved(t, "delete", "scan", thread[t].artifact)
      BY <1>1, <1>3, GotoMoves, StoreFacts DEF Places
    <2>2. ~Held(thread[t].artifact)
      BY <1>3 DEF Protected, Held
    <2> QED BY <1>1, <1>2, <2>1, <2>2, QuietKeeps
  <1>4. CASE Answer(t)
    BY <1>1, <1>4, AnswerMoves, StoreFacts, QuietKeeps
  <1> QED BY <1>1, <1>3, <1>4

\* A clean-up lists the manifests.
LEMMA CleanupListsKeeps ==
  ASSUME StoreInv, now \in Nat, NEW t \in Threads, CleanupLists(t)
  PROVE  StoreInv'
  <1>1. /\ UNCHANGED <<files, record, rows, refs, created, removing, early, late, broken>>
        /\ thread[t].pc = "start" /\ thread[t].op = "cleanup"
        /\ thread' = [thread EXCEPT ![t].rest = Listed(thread[t].session), ![t].pc = "next",
                                    ![t].current = now]
    BY DEF CleanupLists, At, history
  <1>2. Listed(thread[t].session) \in SUBSET Artifacts
    BY DEF Listed
  <1>3. Moved(t, "cleanup", "next", thread[t].artifact)
    BY <1>1, <1>2, ListMoves, StoreFacts DEF Places
  <1> QED BY <1>1, <1>3, QuietKeeps

\* A clean-up ends.
LEMMA CleanupEndsKeeps ==
  ASSUME StoreInv, NEW t \in Threads, CleanupEnds(t)
  PROVE  StoreInv'
  <1>1. Moved(t, "idle", "", None)
    BY AnswerMoves, StoreFacts DEF CleanupEnds
  <1>2. /\ UNCHANGED <<files, record, rows, refs, created, removing, early, late, broken>>
        /\ thread[t].pc = "next"
    BY DEF CleanupEnds, At, history
  <1> QED BY <1>1, <1>2, QuietKeeps

\* A removal selects a listed artifact that no reference protects.
LEMMA SelectKeeps ==
  ASSUME StoreInv, NEW t \in Threads, NEW op \in {"delete", "cleanup"}, NEW a \in Artifacts,
         Moved(t, op, "remove", a), Select(a),
         "manifest" \in files[a], ~Held(a),
         thread[t].pc \notin {"remove", "forget"},
         UNCHANGED <<files, record, rows, refs, created, late, broken>>
  PROVE  StoreInv'
  <1>t. files \in [Artifacts -> SUBSET Whole] /\ ArtifactInv(a)
    BY StoreFacts
  <1>f. /\ removing' = removing \cup {a}
        /\ early' = IF a \in created THEN early ELSE early \cup {a}
    BY DEF Select
  <1>s. \A u \in Threads : CallShape(thread[u])'
    BY ShapeStep, StoreFacts
  <1>g. "manifest" \notin {"dir"} /\ "manifest" \notin {"dir", "payload"}
    OBVIOUS
  <1>i. ArtifactInv(a)'
    <2>1. BuildingOf(a)'
      BY <1>f, <1>t, <1>g DEF ArtifactInv, BuildingOf, Moved
    <2>2. OneCreatorOf(a)'
      BY <1>t, CreatorStep DEF ArtifactInv
    <2>3. FilesOf(a)'
      BY <1>f, <1>t DEF ArtifactInv, FilesOf
    <2>4. KeptOf(a)'
      BY <1>t, HeldKeeps DEF ArtifactInv, KeptOf
    <2>5. HistoryOf(a)'
      BY <1>f, <1>t DEF ArtifactInv, HistoryOf
    <2>6. GhostOf(a)'
      BY <1>t DEF GhostOf
    <2> QED BY <2>1, <2>2, <2>3, <2>4, <2>5, <2>6 DEF ArtifactInv
  <1>b. \A b \in Artifacts : ArtifactInv(b)'
    <2> TAKE b \in Artifacts
    <2>1. CASE b # a
      <3>1. ArtifactInv(b) /\ Same(b) BY <2>1, <1>f, StoreFacts, HeldKeeps DEF Same
      <3> QED BY <2>1, <3>1, QuietStep
    <2> QED BY <2>1, <1>i
  <1> QED BY <1>b, <1>s, <1>f, StoreFacts, StoreInvFrom DEF Moved

\* A deletion selects the artifact it finds: the reference it looked for
\* before the scan cannot have appeared without being late.
LEMMA DeleteScansKeeps ==
  ASSUME StoreInv, NEW t \in Threads, DeleteScans(t)
  PROVE  StoreInv'
  <1>a. PICK a \in Artifacts : thread[t].artifact = a
    BY StoreFacts DEF DeleteScans, At, CallShape
  <1>1. /\ UNCHANGED <<files, record, rows, refs, created, late, broken>>
        /\ thread[t].pc = "scan" /\ thread[t].op = "delete"
        /\ \/ "manifest" \in files[a] /\ Goto(t, "remove") /\ Select(a)
           \/ Answer(t) /\ UNCHANGED <<removing, early>>
    BY <1>a DEF DeleteScans, At, Listed
  <1>2. ~Held(a)
    BY <1>1, <1>a, StoreFacts DEF ArtifactInv, KeptOf
  <1>3. CASE "manifest" \in files[a] /\ Goto(t, "remove") /\ Select(a)
    <2>1. Moved(t, "delete", "remove", a)
      BY <1>1, <1>3, <1>a, GotoMoves, StoreFacts DEF Places
    <2> QED BY <1>1, <1>2, <1>3, <2>1, SelectKeeps
  <1>4. CASE Answer(t) /\ UNCHANGED <<removing, early>>
    BY <1>1, <1>4, AnswerMoves, StoreFacts, QuietKeeps
  <1> QED BY <1>1, <1>3, <1>4

\* A clean-up selects an expired artifact no reference protects.
LEMMA CleanupTakesKeeps ==
  ASSUME StoreInv, NEW t \in Threads, NEW a \in Artifacts, CleanupTakes(t, a)
  PROVE  StoreInv'
  <1> DEFINE rest == thread[t].rest \ {a}
  <1>1. /\ UNCHANGED <<files, record, rows, refs, created, late, broken>>
        /\ thread[t].pc = "next" /\ thread[t].op = "cleanup"
        /\ \/ /\ "manifest" \in files[a] /\ ~Held(a) /\ Select(a)
              /\ thread' = [thread EXCEPT ![t].rest = @ \ {a}, ![t].pc = "remove", ![t].artifact = a]
           \/ thread' = [thread EXCEPT ![t].rest = @ \ {a}] /\ UNCHANGED <<removing, early>>
    BY DEF CleanupTakes, Protected, Held, At
  <1>2. rest \in SUBSET Artifacts
    BY StoreFacts DEF ThreadRecords
  <1>3. CASE /\ "manifest" \in files[a] /\ ~Held(a) /\ Select(a)
             /\ thread' = [thread EXCEPT ![t].rest = @ \ {a}, ![t].pc = "remove", ![t].artifact = a]
    <2>1. thread' = [thread EXCEPT ![t].rest = rest, ![t].pc = "remove", ![t].artifact = a]
      BY <1>3
    <2>2. Moved(t, thread[t].op, "remove", a)
      <3> HIDE DEF rest
      <3> QED BY <1>2, <2>1, TakeMoves, StoreFacts DEF Places
    <2>3. Moved(t, "cleanup", "remove", a)
      BY <1>1, <2>2
    <2> QED BY <1>1, <1>3, <2>3, SelectKeeps
  <1>4. CASE thread' = [thread EXCEPT ![t].rest = @ \ {a}] /\ UNCHANGED <<removing, early>>
    <2>1. thread' = [thread EXCEPT ![t].rest = rest]
      BY <1>4
    <2>2. Moved(t, "cleanup", "next", thread[t].artifact)
      <3>1. 0 \in Nat OBVIOUS
      <3> HIDE DEF rest
      <3> QED BY <1>1, <1>2, <2>1, <3>1, ListMoves, StoreFacts DEF Places
    <2> QED BY <1>1, <1>4, <2>2, QuietKeeps
  <1> QED BY <1>1, <1>3, <1>4

\* Every file of a removed artifact goes, the directory last.
LEMMA UnlinkKeeps ==
  ASSUME StoreInv, NEW t \in Threads, Unlink(t)
  PROVE  StoreInv'
  <1>a. PICK a \in Artifacts : thread[t].artifact = a
    BY StoreFacts DEF Unlink, CallShape
  <1>f. PICK f \in files[a] :
            /\ thread[t].pc = "remove" /\ thread[t].op \in {"delete", "cleanup"}
            /\ f = "dir" => files[a] = {"dir"}
            /\ files' = [files EXCEPT ![a] = @ \ {f}]
            /\ IF f = "dir" THEN Goto(t, "forget") ELSE UNCHANGED thread
    BY <1>a, StoreFacts DEF Unlink, CallShape
  <1>u. UNCHANGED <<record, rows, refs, created, removing, early, late, broken>>
    BY DEF Unlink, history
  <1>t. /\ files \in [Artifacts -> SUBSET Whole] /\ thread \in [Threads -> ThreadRecords]
        /\ ArtifactInv(a)
    BY StoreFacts
  <1>p. PICK pc \in {"remove", "forget"} :
            Moved(t, thread[t].op, pc, a) /\ (f = "dir" => pc = "forget")
    <2>1. CASE f = "dir"
      BY <2>1, <1>f, <1>a, <1>t, GotoMoves, StoreFacts DEF Places
    <2>2. CASE f # "dir"
      BY <2>2, <1>f, <1>a, <1>t DEF Moved
    <2> QED BY <2>1, <2>2
  <1>s. \A u \in Threads : CallShape(thread[u])'
    BY <1>p, <1>f, ShapeStep, StoreFacts
  <1>w. files'[a] = files[a] \ {f} /\ \A b \in Artifacts : b # a => files'[b] = files[b]
    BY <1>f, <1>t
  <1>r. a \in removing
    BY <1>f, <1>a, <1>t DEF ArtifactInv, BuildingOf
  <1>k. ~Held(a)
    BY <1>f, <1>a, <1>t DEF ArtifactInv, KeptOf
  <1>i. ArtifactInv(a)'
    <2>1. BuildingOf(a)'
      BY <1>u, <1>t, <1>p, <1>r DEF ArtifactInv, BuildingOf, Moved
    <2>2. OneCreatorOf(a)'
      BY <1>t, <1>p, CreatorStep DEF ArtifactInv
    <2>3. FilesOf(a)'
      BY <1>f, <1>u, <1>t, <1>w, <1>r DEF ArtifactInv, FilesOf
    <2>4. KeptOf(a)'
      BY <1>u, <1>k, HeldKeeps DEF KeptOf
    <2>5. HistoryOf(a)'
      BY <1>u, <1>t DEF ArtifactInv, HistoryOf
    <2>6. files'[a] = {} => f = "dir"
      BY <1>f, <1>t, <1>w DEF ArtifactInv, FilesOf
    <2>7. thread'[t].artifact = a /\ thread'[t].pc = pc
      BY <1>p DEF Moved
    <2>8. GhostOf(a)'
      BY <1>p, <2>6, <2>7 DEF GhostOf, Removes
    <2> QED BY <2>1, <2>2, <2>3, <2>4, <2>5, <2>8 DEF ArtifactInv
  <1>b. \A b \in Artifacts : ArtifactInv(b)'
    <2> TAKE b \in Artifacts
    <2>1. CASE b # a
      <3>1. ArtifactInv(b) /\ Same(b) BY <2>1, <1>u, <1>w, StoreFacts, HeldKeeps DEF Same
      <3> QED BY <2>1, <3>1, <1>p, <1>a, QuietStep
    <2> QED BY <2>1, <1>i
  <1>y. files' \in [Artifacts -> SUBSET Whole]
    BY <1>f, <1>t
  <1> QED BY <1>b, <1>s, <1>y, <1>u, <1>p, StoreFacts, StoreInvFrom DEF Moved

(* A removal ends early or goes on to the record: the files are gone, and  *)
(* then whoever took the last one still has the record to delete, or the   *)
\* artifact counts as broken.
LEMMA LeaveKeeps ==
  ASSUME StoreInv, NEW t \in Threads, NEW a \in Artifacts, thread[t].artifact = a,
         thread[t].pc = "remove",
         \/ thread[t].op = "delete" /\ Answer(t)
         \/ thread[t].op # "delete" /\ Goto(t, "forget"),
         UNCHANGED <<files, record, rows, refs, created, removing, early, late>>,
         broken \subseteq broken', files[a] = {} \/ a \in broken'
  PROVE  StoreInv'
  <1>t. /\ thread \in [Threads -> ThreadRecords] /\ ArtifactInv(a)
        /\ thread[t].op \in {"delete", "cleanup"}
    BY StoreFacts DEF CallShape
  <1>p. PICK op \in {"idle", "cleanup"}, pc \in {"", "forget"}, x \in {a, None} :
            /\ Moved(t, op, pc, x)
            /\ pc = "forget" => x = a /\ op = "cleanup"
    <2>1. CASE thread[t].op = "delete"
      BY <2>1, <1>t, AnswerMoves
    <2>2. CASE thread[t].op # "delete"
      <3>1. Moved(t, "cleanup", "forget", a)
        BY <2>2, <1>t, GotoMoves, StoreFacts DEF Places
      <3> QED BY <3>1
    <2> QED BY <2>1, <2>2
  <1>s. \A u \in Threads : CallShape(thread[u])'
    BY <1>p, ShapeStep, StoreFacts
  <1>r. a \in removing
    BY <1>t DEF ArtifactInv, BuildingOf
  <1>i. ArtifactInv(a)'
    <2>1. BuildingOf(a)'
      BY <1>t, <1>p, <1>r, BuildingStep DEF ArtifactInv
    <2>2. OneCreatorOf(a)'
      BY <1>t, <1>p, CreatorStep DEF ArtifactInv
    <2>3. FilesOf(a)'
      BY <1>t DEF ArtifactInv, FilesOf
    <2>4. KeptOf(a)'
      BY <1>t, HeldKeeps DEF ArtifactInv, KeptOf
    <2>5. HistoryOf(a)'
      BY <1>t DEF ArtifactInv, HistoryOf
    <2>6. GhostOf(a)'
      <3> SUFFICES ASSUME a \in rows \ (broken \cup early), files[a] = {}
                   PROVE  \E u \in Threads : thread'[u].artifact = a /\ thread'[u].pc = "forget"
        BY DEF GhostOf, Removes
      <3>1. PICK u \in Threads : thread[u].artifact = a /\ thread[u].pc = "forget"
        BY <1>t DEF ArtifactInv, GhostOf
      <3> QED BY <3>1, <1>p DEF Moved
    <2> QED BY <2>1, <2>2, <2>3, <2>4, <2>5, <2>6 DEF ArtifactInv
  <1>b. \A b \in Artifacts : ArtifactInv(b)'
    <2> TAKE b \in Artifacts
    <2>1. CASE b # a
      <3>1. ArtifactInv(b) /\ Same(b) BY StoreFacts, HeldKeeps DEF Same
      <3>2. x # b BY <2>1, <1>p, StoreAssumption
      <3> QED BY <2>1, <3>1, <3>2, <1>p, QuietStep
    <2> QED BY <2>1, <1>i
  <1> QED BY <1>b, <1>s, <1>p, StoreFacts, StoreInvFrom DEF Moved

\* Another removal got there first.
LEMMA VanishedKeeps ==
  ASSUME StoreInv, NEW t \in Threads, Vanished(t)
  PROVE  StoreInv'
  <1>a. PICK a \in Artifacts : thread[t].artifact = a
    BY StoreFacts DEF Vanished, CallShape
  <1>1. /\ thread[t].pc = "remove"
        /\ UNCHANGED <<files, record, rows, refs, created, removing, early, late>>
        /\ \/ thread[t].op = "delete" /\ Answer(t)
           \/ thread[t].op # "delete" /\ Goto(t, "forget")
        /\ (files[a] = {} /\ UNCHANGED broken) \/ broken' = broken \cup {a}
    BY <1>a DEF Vanished
  <1> QED BY <1>a, <1>1, LeaveKeeps

\* The removal of the files fails.
LEMMA UnlinkFailsKeeps ==
  ASSUME StoreInv, NEW t \in Threads, UnlinkFails(t)
  PROVE  StoreInv'
  <1>a. PICK a \in Artifacts : thread[t].artifact = a
    BY StoreFacts DEF UnlinkFails, CallShape
  <1>1. /\ thread[t].pc = "remove"
        /\ UNCHANGED <<files, record, rows, refs, created, removing, early, late>>
        /\ \/ thread[t].op = "delete" /\ Answer(t)
           \/ thread[t].op # "delete" /\ Goto(t, "forget")
        /\ broken' = broken \cup {a}
    BY <1>a DEF UnlinkFails
  <1> QED BY <1>a, <1>1, LeaveKeeps

\* Every step of a handler keeps StoreInv.
LEMMA ThreadStepKeeps ==
  ASSUME StoreInv, now \in Nat, NEW t \in Threads, ThreadStep(t)
  PROVE  StoreInv'
  BY NewArtifactDirKeeps, WritePayloadKeeps, WriteManifestKeeps, RecordArtifactKeeps,
     CreateFailsKeeps, FindToProtectKeeps, RegisterReferenceKeeps, ReleaseReferenceKeeps,
     DeleteChecksKeeps, DeleteScansKeeps, CleanupListsKeeps, CleanupTakesKeeps,
     CleanupEndsKeeps, UnlinkKeeps, VanishedKeeps, UnlinkFailsKeeps, ForgetKeeps,
     ForgetFailsKeeps DEF ThreadStep

\* The destruction of a session drops records and references.
LEMMA DestroySessionKeeps ==
  ASSUME StoreInv, NEW s \in Sessions, DestroySession(s)
  PROVE  StoreInv'
  <1> DEFINE own == {a \in Artifacts : record[a].session = s}
  <1>1. /\ UNCHANGED <<files, record, thread, created, removing, early, broken>>
        /\ rows' = rows \ own
        /\ refs' = refs \ (own \X References) /\ late' = late \ (own \X References)
    BY DEF DestroySession
  <1> HIDE DEF own
  <1>h. \A b : Held(b)' => Held(b)
    BY <1>1 DEF Held
  <1>2. ASSUME NEW b \in Artifacts PROVE ArtifactInv(b)'
    <2>1. ArtifactInv(b) BY StoreFacts
    <2>2. BuildingOf(b)' BY <1>1, <2>1 DEF ArtifactInv, BuildingOf
    <2>3. OneCreatorOf(b)' BY <1>1, <2>1 DEF ArtifactInv, OneCreatorOf, Creates
    <2>4. FilesOf(b)' BY <1>1, <2>1 DEF ArtifactInv, FilesOf
    <2>5. KeptOf(b)' BY <1>1, <1>h, <2>1 DEF ArtifactInv, KeptOf
    <2>6. HistoryOf(b)' BY <1>1, <2>1 DEF ArtifactInv, HistoryOf
    <2>7. GhostOf(b)' BY <1>1, <2>1 DEF ArtifactInv, GhostOf, Removes
    <2> QED BY <2>2, <2>3, <2>4, <2>5, <2>6, <2>7 DEF ArtifactInv
  <1>3. \A u \in Threads : CallShape(thread[u])'
    BY <1>1, StoreFacts DEF CallShape
  <1> QED BY <1>1, <1>2, <1>3, StoreFacts, StoreInvFrom

\* A kill ends every handler; the removals it cuts short are broken.
LEMMA CrashStoreKeeps ==
  ASSUME StoreInv, CrashStore
  PROVE  StoreInv'
  <1>1. /\ UNCHANGED <<files, record, rows, refs, created, removing, early, late>>
        /\ thread' = [t \in Threads |-> Idle]
        /\ broken' = broken \cup {thread[t].artifact :
                                    t \in {u \in Threads : thread[u].pc \in {"remove", "forget"}}}
    BY DEF CrashStore
  <1>2. \A t \in Threads : thread'[t].pc = "" /\ thread'[t].op = "idle"
    BY <1>1 DEF Idle
  <1>3. ASSUME NEW b \in Artifacts PROVE ArtifactInv(b)'
    <2>1. ArtifactInv(b) BY StoreFacts
    <2>2. BuildingOf(b)' BY <1>2 DEF BuildingOf
    <2>3. OneCreatorOf(b)' BY <1>2 DEF OneCreatorOf, Creates
    <2>4. FilesOf(b)' BY <1>1, <2>1 DEF ArtifactInv, FilesOf
    <2>5. KeptOf(b)' BY <1>1, <1>2, <2>1, HeldKeeps DEF ArtifactInv, KeptOf
    <2>6. HistoryOf(b)' BY <1>1, <2>1 DEF ArtifactInv, HistoryOf
    <2>7. GhostOf(b)'
      <3>1. \A t \in Threads : Removes(t, b) => b \in broken'
        BY <1>1 DEF Removes
      <3>2. broken \subseteq broken' BY <1>1
      <3> QED BY <1>1, <2>1, <3>1, <3>2 DEF ArtifactInv, GhostOf, Removes
    <2> QED BY <2>2, <2>3, <2>4, <2>5, <2>6, <2>7 DEF ArtifactInv
  <1>4. \A u \in Threads : CallShape(thread[u])'
    BY <1>2 DEF CallShape
  <1>5. thread' \in [Threads -> ThreadRecords]
    BY <1>1 DEF Idle, ThreadRecords
  <1> QED BY <1>1, <1>3, <1>4, <1>5, StoreFacts, StoreInvFrom

\* A step of the limiter or of the clock.
LEMMA StoreVarsKeep ==
  ASSUME StoreInv, UNCHANGED storeVars
  PROVE  StoreInv'
  <1>1. UNCHANGED <<files, record, rows, refs, thread, created, removing, early, late, broken>>
    BY DEF storeVars
  <1>2. ASSUME NEW b \in Artifacts PROVE ArtifactInv(b)'
    <2>1. ArtifactInv(b) /\ (Held(b)' => Held(b))
      BY <1>1, StoreFacts, HeldKeeps
    <2> QED BY <1>1, <2>1 DEF ArtifactInv, BuildingOf, OneCreatorOf, FilesOf, KeptOf, HistoryOf,
                              GhostOf, Creates, Removes
  <1>3. \A u \in Threads : CallShape(thread[u])'
    BY <1>1, StoreFacts DEF CallShape
  <1> QED BY <1>1, <1>2, <1>3, StoreFacts, StoreInvFrom

\* The empty store.
LEMMA StoreInitially ==
  ASSUME StoreInit
  PROVE  StoreInv
  <1>1. \A t \in Threads : thread[t] = Idle
    BY DEF StoreInit
  <1>2. \A t \in Threads : thread[t].pc = "" /\ thread[t].op = "idle"
    BY <1>1, IdleFields
  <1>3. ASSUME NEW a \in Artifacts PROVE ArtifactInv(a)
    BY <1>2 DEF ArtifactInv, BuildingOf, OneCreatorOf, FilesOf, KeptOf, Held, HistoryOf, GhostOf,
                Creates, StoreInit
  <1>4. \A u \in Threads : CallShape(thread[u])
    BY <1>2 DEF CallShape
  <1>5. StoreTypeOK
    BY DEF StoreInit, StoreTypeOK, Idle, ThreadRecords, Whole
  <1> QED BY <1>3, <1>4, <1>5 DEF StoreInv

\* Every step of the service keeps StoreInv.
LEMMA StoreNext ==
  ASSUME StoreInv, now \in Nat, [Next]_vars
  PROVE  StoreInv'
  <1>1. ASSUME NEW c \in Clients, AnswerDirectly(c) PROVE StoreInv'
    BY <1>1, StoreVarsKeep DEF AnswerDirectly
  <1>2. ASSUME NEW c \in Clients, NEW t \in Threads, NEW op \in Calls, NEW s \in Sessions,
               NEW a \in Artifacts, NEW reference \in References, Dispatch(c, t, op, s, a, reference)
        PROVE  StoreInv'
    BY <1>2, StartCallKeeps DEF Dispatch
  <1>3. ASSUME NEW t \in Threads, Work(t) PROVE StoreInv'
    BY <1>3, ThreadStepKeeps DEF Work
  <1>4. ASSUME NEW t \in Threads, Respond(t) PROVE StoreInv'
    BY <1>4, StoreVarsKeep DEF Respond
  <1>5. ASSUME NEW s \in Sessions, Destroy(s) PROVE StoreInv'
    BY <1>5, DestroySessionKeeps DEF Destroy
  <1>6. ASSUME Tick PROVE StoreInv'
    BY <1>6, StoreVarsKeep DEF Tick
  <1>7. ASSUME Kill PROVE StoreInv'
    BY <1>7, CrashStoreKeeps DEF Kill
  <1>8. ASSUME UNCHANGED vars PROVE StoreInv'
    BY <1>8, StoreVarsKeep DEF vars
  <1> QED BY <1>1, <1>2, <1>3, <1>4, <1>5, <1>6, <1>7, <1>8 DEF Next

-----------------------------------------------------------------------------
(* The limiter: queues, pruning and the pairing with the history.          *)

\* The positions of a queue inside the window that begins after start, a queue
\* in order of time, a queue with nothing stale in it, and the admissions of a
\* client inside the window.
Live(q, start) == {i \in 1 .. Len(q) : q[i] > start}
Sorted(q) == \A i, j \in 1 .. Len(q) : i <= j => q[i] <= q[j]
Fresh(q, start) == \A i \in 1 .. Len(q) : q[i] > start
RecentIn(adm, c, start) == {x \in adm : x.client = c /\ x.time > start}

\* A one-to-one pairing of the live entries of a queue with admissions.
Pairs(f, q, start, S) ==
    /\ f \in [Live(q, start) -> S]
    /\ \A i, j \in Live(q, start) : f[i] = f[j] => i = j
    /\ \A x \in S : \E i \in Live(q, start) : f[i] = x
    /\ \A i \in Live(q, start) : f[i].time = q[i]

\* The queue holds exactly the admissions of S, each at its time.
Paired(q, start, S) == \E f : Pairs(f, q, start, S)

\* A set of numbers has a least element.
LEMMA LeastOf ==
    ASSUME NEW S \in SUBSET Nat, S # {}
    PROVE  \E n \in S : \A m \in S : n <= m
  <1>1. PICK k \in S : \A y \in S : ~ (<< y, k >> \in OpToRel(<, Nat))
    BY NatLessThanWellFounded, WFMin, Zenon
  <1>2. \A y \in S : ~ (y < k)
    BY <1>1 DEF OpToRel
  <1> QED BY <1>2

\* p is q without its first d entries, all of them stale.
Drops(p, q, start, d) ==
    /\ p \in Seq(Nat)
    /\ Len(p) = Len(q) - d
    /\ \A i \in 1 .. Len(p) : p[i] = q[i + d]
    /\ \A i \in 1 .. d : q[i] <= start
    /\ d < Len(q) => q[d + 1] > start

\* Pruning drops a stale prefix.
LEMMA PrunedDrops ==
    ASSUME NEW q \in Seq(Nat), NEW start \in Int
    PROVE  \E d \in 0 .. Len(q) : Drops(Pruned(q, start), q, start, d)
  <1> DEFINE kept == {i \in 1 .. Len(q) : q[i] > start}
  <1>0. Len(q) \in Nat /\ \A i \in 1 .. Len(q) : q[i] \in Nat
    BY LenProperties
  <1>1. CASE kept = {}
    <2>1. Pruned(q, start) = <<>>
      BY <1>1 DEF Pruned
    <2>2. <<>> \in Seq(Nat) /\ Len(<<>>) = 0
      BY EmptySeq
    <2>3. \A i \in 1 .. Len(q) : q[i] <= start
      BY <1>0, <1>1
    <2> QED BY <2>1, <2>2, <2>3, <1>0 DEF Drops
  <1>2. CASE kept # {}
    <2> DEFINE m == CHOOSE i \in kept : \A j \in kept : i <= j
    <2>1. \E i \in kept : \A j \in kept : i <= j
      <3>1. kept \in SUBSET Nat OBVIOUS
      <3> HIDE DEF kept
      <3> QED BY <1>2, <3>1, LeastOf
    <2>2. m \in kept /\ \A j \in kept : m <= j
      BY <2>1
    <2>3. Pruned(q, start) = SubSeq(q, m, Len(q))
      BY <1>2 DEF Pruned
    <2> HIDE DEF m
    <2>4. m \in 1 .. Len(q) /\ q[m] > start
      BY <2>2
    <2>5. /\ SubSeq(q, m, Len(q)) \in Seq(Nat)
          /\ Len(SubSeq(q, m, Len(q))) = Len(q) - m + 1
          /\ \A i \in 1 .. Len(q) - m + 1 : SubSeq(q, m, Len(q))[i] = q[m + i - 1]
      <3>1. m \in Int /\ Len(q) \in Int /\ m <= Len(q) /\ \A i \in m .. Len(q) : q[i] \in Nat
        BY <1>0, <2>4
      <3> QED BY <3>1, SubSeqProperties
    <2>6. \A i \in 1 .. m - 1 : q[i] <= start
      BY <1>0, <2>2, <2>4
    <2>7. Drops(SubSeq(q, m, Len(q)), q, start, m - 1)
      BY <1>0, <2>4, <2>5, <2>6 DEF Drops
    <2> QED BY <1>0, <2>3, <2>4, <2>7
  <1> QED BY <1>1, <1>2

\* Pruning a queue without entries.
LEMMA PrunedEmpty ==
    ASSUME NEW start \in Int
    PROVE  Pruned(<<>>, start) = <<>>
  <1>1. {i \in 1 .. Len(<<>>) : <<>>[i] > start} = {}
    OBVIOUS
  <1> QED BY <1>1 DEF Pruned

\* Pruning a queue in order leaves no stale entry, and a fresh queue alone.
LEMMA PrunedSorted ==
    ASSUME NEW q \in Seq(Nat), NEW start \in Int, Sorted(q)
    PROVE  /\ Pruned(q, start) \in Seq(Nat)
           /\ Sorted(Pruned(q, start))
           /\ Fresh(Pruned(q, start), start)
           /\ Fresh(q, start) => Len(Pruned(q, start)) = Len(q)
           /\ \A i \in 1 .. Len(Pruned(q, start)) : \E j \in 1 .. Len(q) : Pruned(q, start)[i] = q[j]
  <1>1. PICK d \in 0 .. Len(q) : Drops(Pruned(q, start), q, start, d)
    BY PrunedDrops
  <1> DEFINE p == Pruned(q, start)
  <1> HIDE DEF p
  <1>2. Len(q) \in Nat /\ \A i \in 1 .. Len(q) : q[i] \in Nat
    BY LenProperties
  <1>3. /\ p \in Seq(Nat) /\ Len(p) = Len(q) - d
        /\ \A i \in 1 .. Len(p) : p[i] = q[i + d]
        /\ \A i \in 1 .. d : q[i] <= start
        /\ d < Len(q) => q[d + 1] > start
    BY <1>1 DEF Drops, p
  <1>0. \A i \in 1 .. Len(p) : i + d \in 1 .. Len(q) /\ p[i] = q[i + d]
    BY <1>2, <1>3
  <1>4. Sorted(p)
    <2> SUFFICES ASSUME NEW i \in 1 .. Len(p), NEW j \in 1 .. Len(p), i <= j
                 PROVE  p[i] <= p[j]
      BY DEF Sorted
    <2>1. i + d <= j + d
      BY <1>2, <1>3
    <2> QED BY <1>0, <2>1 DEF Sorted
  <1>5. Fresh(p, start)
    <2> SUFFICES ASSUME NEW i \in 1 .. Len(p) PROVE p[i] > start
      BY DEF Fresh
    <2>1. d < Len(q) /\ d + 1 \in 1 .. Len(q) /\ d + 1 <= i + d
      BY <1>2, <1>3
    <2>2. q[d + 1] <= q[i + d]
      BY <1>0, <2>1 DEF Sorted
    <2>3. q[d + 1] \in Nat /\ q[i + d] \in Nat /\ q[d + 1] > start
      BY <1>0, <1>2, <1>3, <2>1
    <2> QED BY <1>0, <2>2, <2>3
  <1>6. Fresh(q, start) => Len(p) = Len(q)
    BY <1>2, <1>3 DEF Fresh
  <1>7. \A i \in 1 .. Len(p) : \E j \in 1 .. Len(q) : p[i] = q[j]
    BY <1>2, <1>3
  <1> QED BY <1>3, <1>4, <1>5, <1>6, <1>7 DEF p

\* Pruning loses no admission that counts.
LEMMA PairedPruned ==
    ASSUME NEW q \in Seq(Nat), NEW start \in Int, NEW S, Paired(q, start, S)
    PROVE  Paired(Pruned(q, start), start, S)
  <1>1. PICK d \in 0 .. Len(q) : Drops(Pruned(q, start), q, start, d)
    BY PrunedDrops
  <1> DEFINE p == Pruned(q, start)
  <1>2. Len(q) \in Nat /\ \A i \in 1 .. Len(q) : q[i] \in Nat
    BY LenProperties
  <1>3. /\ p \in Seq(Nat) /\ Len(p) = Len(q) - d
        /\ \A i \in 1 .. Len(p) : p[i] = q[i + d]
        /\ \A i \in 1 .. d : q[i] <= start
    BY <1>1 DEF Drops
  <1>4. PICK f : Pairs(f, q, start, S)
    BY DEF Paired
  <1> HIDE DEF p
  <1>5. /\ \A i \in Live(p, start) : i \in Nat /\ i + d \in Live(q, start) /\ p[i] = q[i + d]
        /\ \A j \in Live(q, start) : j \in Nat /\ j - d \in Live(p, start)
    <2>1. ASSUME NEW i \in Live(p, start)
          PROVE  i \in Nat /\ i + d \in Live(q, start) /\ p[i] = q[i + d]
      <3>1. i \in 1 .. Len(p) /\ p[i] > start
        BY DEF Live
      <3>2. i + d \in 1 .. Len(q) /\ p[i] = q[i + d] /\ i \in Nat
        BY <3>1, <1>2, <1>3
      <3> QED BY <3>1, <3>2 DEF Live
    <2>2. ASSUME NEW j \in Live(q, start)
          PROVE  j \in Nat /\ j - d \in Live(p, start)
      <3>1. j \in 1 .. Len(q) /\ q[j] > start
        BY DEF Live
      <3>2. ~(j <= d)
        BY <3>1, <1>2, <1>3
      <3>3. j - d \in 1 .. Len(p) /\ (j - d) + d = j
        BY <3>1, <3>2, <1>2, <1>3
      <3>4. p[j - d] = q[(j - d) + d]
        BY <3>3, <1>3
      <3> QED BY <3>1, <3>3, <3>4, <1>2 DEF Live
    <2> QED BY <2>1, <2>2
  <1> DEFINE g == [i \in Live(p, start) |-> f[i + d]]
  <1>6. \A i \in Live(p, start) : g[i] = f[i + d]
    OBVIOUS
  <1>7. g \in [Live(p, start) -> S]
    BY <1>4, <1>5 DEF Pairs
  <1> HIDE DEF g
  <1>8. \A i, j \in Live(p, start) : g[i] = g[j] => i = j
    BY <1>4, <1>5, <1>6 DEF Pairs
  <1>9. ASSUME NEW x \in S PROVE \E i \in Live(p, start) : g[i] = x
    <2>1. PICK j \in Live(q, start) : f[j] = x
      BY <1>4 DEF Pairs
    <2>2. j - d \in Live(p, start) /\ (j - d) + d = j
      BY <1>5
    <2> QED BY <2>1, <2>2, <1>6
  <1>10. \A i \in Live(p, start) : g[i].time = p[i]
    BY <1>4, <1>5, <1>6 DEF Pairs
  <1>11. Pairs(g, p, start, S)
    BY <1>7, <1>8, <1>9, <1>10 DEF Pairs
  <1> QED BY <1>11 DEF Paired, p

\* As the clock advances, entries and admissions leave the window together.
LEMMA PairedLater ==
    ASSUME NEW q \in Seq(Nat), NEW start \in Int, NEW later \in Int, start <= later, NEW S,
           Paired(q, start, S)
    PROVE  Paired(q, later, {x \in S : x.time > later})
  <1>1. PICK f : Pairs(f, q, start, S)
    BY DEF Paired
  <1>2. Len(q) \in Nat /\ \A i \in 1 .. Len(q) : q[i] \in Nat
    BY LenProperties
  <1>3. /\ \A i \in Live(q, later) : i \in Live(q, start)
        /\ \A i \in Live(q, start) : q[i] > later => i \in Live(q, later)
        /\ \A i \in Live(q, later) : q[i] > later
    BY <1>2 DEF Live
  <1> DEFINE T == {x \in S : x.time > later}
             g == [i \in Live(q, later) |-> f[i]]
  <1>4. \A i \in Live(q, later) : g[i] = f[i] /\ f[i] \in S /\ f[i].time = q[i]
    BY <1>1, <1>3 DEF Pairs
  <1>5. g \in [Live(q, later) -> T]
    BY <1>3, <1>4
  <1>6. ASSUME NEW x \in T PROVE \E i \in Live(q, later) : f[i] = x
    <2>1. PICK i \in Live(q, start) : f[i] = x
      BY <1>1 DEF Pairs
    <2>2. q[i] > later
      BY <1>1, <2>1 DEF Pairs
    <2> QED BY <2>1, <2>2, <1>3
  <1> HIDE DEF g, T
  <1>7. \A i, j \in Live(q, later) : g[i] = g[j] => i = j
    BY <1>1, <1>3, <1>4 DEF Pairs
  <1>8. Pairs(g, q, later, T)
    BY <1>4, <1>5, <1>6, <1>7 DEF Pairs
  <1> QED BY <1>8 DEF Paired, T

\* An admission and its entry join the window together.
LEMMA PairedAppend ==
    ASSUME NEW q \in Seq(Nat), NEW start \in Int, NEW S, Paired(q, start, S),
           NEW n \in Nat, n > start, NEW x, x \notin S, x.time = n
    PROVE  Paired(Append(q, n), start, S \cup {x})
  <1>1. PICK f : Pairs(f, q, start, S)
    BY DEF Paired
  <1> DEFINE p == Append(q, n)
             k == Len(q) + 1
  <1>2. Len(q) \in Nat /\ \A i \in 1 .. Len(q) : q[i] \in Nat
    BY LenProperties
  <1>3. Len(p) = k /\ p[k] = n /\ \A i \in 1 .. Len(q) : p[i] = q[i]
    BY AppendProperties
  <1> HIDE DEF p
  <1>4. /\ Live(p, start) = Live(q, start) \cup {k}
        /\ k \notin Live(q, start)
        /\ \A i \in Live(q, start) : p[i] = q[i]
    BY <1>2, <1>3 DEF Live
  <1> HIDE DEF k
  <1> DEFINE g == [i \in Live(p, start) |-> IF i = k THEN x ELSE f[i]]
  <1>5. g[k] = x /\ \A i \in Live(q, start) : g[i] = f[i] /\ f[i] \in S /\ f[i].time = q[i]
    BY <1>1, <1>4 DEF Pairs
  <1>6. g \in [Live(p, start) -> S \cup {x}]
    BY <1>4, <1>5
  <1> HIDE DEF g
  <1>7. \A i, j \in Live(p, start) : g[i] = g[j] => i = j
    BY <1>1, <1>4, <1>5 DEF Pairs
  <1>8. \A y \in S \cup {x} : \E i \in Live(p, start) : g[i] = y
    BY <1>1, <1>4, <1>5 DEF Pairs
  <1>9. \A i \in Live(p, start) : g[i].time = p[i]
    BY <1>3, <1>4, <1>5
  <1>10. Pairs(g, p, start, S \cup {x})
    BY <1>6, <1>7, <1>8, <1>9 DEF Pairs
  <1> QED BY <1>10 DEF Paired, p

\* A fresh queue is as long as there are admissions in the window.
LEMMA PairedCount ==
    ASSUME NEW q \in Seq(Nat), NEW start \in Int, NEW S, Paired(q, start, S), Fresh(q, start)
    PROVE  IsFiniteSet(S) /\ Cardinality(S) = Len(q)
  <1>1. PICK f : Pairs(f, q, start, S)
    BY DEF Paired
  <1>2. Len(q) \in Nat
    BY LenProperties
  <1>3. Live(q, start) = 1 .. Len(q)
    BY DEF Live, Fresh
  <1>4. /\ f \in [1 .. Len(q) -> S]
        /\ \A i, j \in 1 .. Len(q) : f[i] = f[j] => i = j
        /\ \A x \in S : \E i \in 1 .. Len(q) : f[i] = x
    BY <1>1, <1>3 DEF Pairs
  <1>5. ExistsBijection(1 .. Len(q), S)
    BY <1>4 DEF ExistsBijection, Bijection, Injection, Surjection, IsInjective
  <1>6. IsFiniteSet(1 .. Len(q)) /\ Cardinality(1 .. Len(q)) = Len(q)
    <2>1. 1 \in Int /\ Len(q) \in Int
      BY <1>2
    <2>2. /\ IsFiniteSet(1 .. Len(q))
          /\ Cardinality(1 .. Len(q)) = IF 1 > Len(q) THEN 0 ELSE Len(q) - 1 + 1
      BY <2>1, FS_Interval, Zenon
    <2> QED BY <1>2, <2>2
  <1> QED BY <1>5, <1>6, FS_Bijection

\* A client without entries has no admission in the window.
LEMMA PairedNone ==
    ASSUME NEW start \in Int, NEW S, Paired(<<>>, start, S)
    PROVE  S = {}
  <1>1. Live(<<>>, start) = {}
    BY DEF Live
  <1> QED BY <1>1 DEF Paired, Pairs

-----------------------------------------------------------------------------
(* The limiter: the table and its decisions.                               *)

\* The inductive invariant of one queue.  The last part is why two admissions
\* in one tick are different records: once a client is admitted its queue is
\* fresh until the clock moves, and so only grows.
QueueInv(q, c, time, adm) ==
    /\ q \in Seq(Nat) /\ Sorted(q)
    /\ \A i \in 1 .. Len(q) : q[i] <= time
    /\ Paired(q, time - Window, RecentIn(adm, c, time - Window))
    /\ \A x \in adm : x.client = c /\ x.time = time =>
          x.number \in Nat /\ x.number < Len(q) /\ Fresh(q, time - Window)

\* The same for the whole table.
TableOK(T) ==
    /\ T \in [Clients -> Seq(Nat)]
    /\ \A c \in Clients : QueueInv(T[c], c, now, admitted)

\* Every key of the first table is one of the second.
Thinner(T, U) == \A d \in Clients : T[d] # <<>> => U[d] # <<>>

\* The inductive invariant of the limiter.
LimiterInv ==
    /\ LimiterTypeOK
    /\ TableOK(hits)
    /\ \A x \in admitted : x.time \in Nat /\ x.time <= now

\* The constants of the limiter.
LEMMA LimiterConstants ==
  /\ IsFiniteSet(Clients)
  /\ Limit \in Nat /\ Limit > 0 /\ Window \in Nat /\ Window > 0 /\ MaxKeys \in Nat /\ MaxKeys > 0
  /\ CleanupInterval \in Nat
  BY LimiterAssumption

\* Pruning at the current time keeps a queue's invariant and makes it fresh.
LEMMA QueuePruned ==
  ASSUME NEW q, NEW c, NEW time \in Nat, NEW adm, QueueInv(q, c, time, adm)
  PROVE  /\ QueueInv(Pruned(q, time - Window), c, time, adm)
         /\ Fresh(Pruned(q, time - Window), time - Window)
         /\ Pruned(q, time - Window) # <<>> => q # <<>>
  <1> DEFINE start == time - Window
             p == Pruned(q, start)
  <1>1. start \in Int /\ q \in Seq(Nat) /\ Sorted(q)
        /\ Paired(q, start, RecentIn(adm, c, start))
    BY LimiterConstants DEF QueueInv
  <1>2. /\ \A i \in 1 .. Len(q) : q[i] <= time
        /\ \A x \in adm : x.client = c /\ x.time = time =>
             x.number \in Nat /\ x.number < Len(q) /\ Fresh(q, start)
    BY DEF QueueInv
  <1>3. q = <<>> => p = <<>>
    BY <1>1, PrunedEmpty
  <1> HIDE DEF start
  <1>4. /\ p \in Seq(Nat) /\ Sorted(p) /\ Fresh(p, start)
        /\ Fresh(q, start) => Len(p) = Len(q)
        /\ \A i \in 1 .. Len(p) : \E j \in 1 .. Len(q) : p[i] = q[j]
    BY <1>1, PrunedSorted
  <1>5. Paired(p, start, RecentIn(adm, c, start))
    BY <1>1, PairedPruned
  <1> HIDE DEF p
  <1>6. QueueInv(p, c, time, adm)
    BY <1>2, <1>4, <1>5 DEF QueueInv, start
  <1> QED BY <1>3, <1>4, <1>6 DEF p, start

\* The pruning of one key.
LEMMA PruneKeyOK ==
  ASSUME now \in Nat, NEW T, TableOK(T), NEW c \in Clients
  PROVE  /\ TableOK(PruneKey(T, c))
         /\ Fresh(PruneKey(T, c)[c], now - Window)
         /\ Thinner(PruneKey(T, c), T)
  <1> DEFINE U == PruneKey(T, c)
  <1>1. U = [T EXCEPT ![c] = Pruned(T[c], now - Window)] /\ T \in [Clients -> Seq(Nat)]
    BY DEF PruneKey, TableOK
  <1>2. /\ QueueInv(Pruned(T[c], now - Window), c, now, admitted)
        /\ Fresh(Pruned(T[c], now - Window), now - Window)
        /\ Pruned(T[c], now - Window) # <<>> => T[c] # <<>>
    BY QueuePruned DEF TableOK
  <1>3. Pruned(T[c], now - Window) \in Seq(Nat)
    BY <1>2 DEF QueueInv
  <1> HIDE DEF U
  <1>4. /\ U \in [Clients -> Seq(Nat)]
        /\ U[c] = Pruned(T[c], now - Window)
        /\ \A d \in Clients : d # c => U[d] = T[d]
    BY <1>1, <1>3
  <1>5. TableOK(U)
    BY <1>2, <1>4 DEF TableOK
  <1>6. Thinner(U, T)
    BY <1>2, <1>4 DEF Thinner
  <1> QED BY <1>2, <1>4, <1>5, <1>6 DEF U

\* The clean-up of the whole table.
LEMMA PruneAllOK ==
  ASSUME now \in Nat, NEW T, TableOK(T)
  PROVE  /\ TableOK(PruneAll(T))
         /\ \A d \in Clients : Fresh(PruneAll(T)[d], now - Window)
         /\ Thinner(PruneAll(T), T)
  <1> DEFINE U == PruneAll(T)
  <1>1. U = [d \in Clients |-> Pruned(T[d], now - Window)]
    BY DEF PruneAll
  <1>2. \A d \in Clients : U[d] = Pruned(T[d], now - Window)
    BY <1>1
  <1>3. \A d \in Clients :
          /\ QueueInv(Pruned(T[d], now - Window), d, now, admitted)
          /\ Fresh(Pruned(T[d], now - Window), now - Window)
          /\ Pruned(T[d], now - Window) # <<>> => T[d] # <<>>
    BY QueuePruned DEF TableOK
  <1>4. \A d \in Clients : Pruned(T[d], now - Window) \in Seq(Nat)
    BY <1>3 DEF QueueInv
  <1>5. U \in [Clients -> Seq(Nat)]
    BY <1>1, <1>4
  <1> HIDE DEF U
  <1>6. TableOK(U)
    BY <1>2, <1>3, <1>5 DEF TableOK
  <1>7. Thinner(U, T)
    BY <1>2, <1>3 DEF Thinner
  <1> QED BY <1>2, <1>3, <1>6, <1>7 DEF U

\* The table check decides on: the caller's queue is fresh, and after a forced
\* clean-up every queue is.
LEMMA CheckedOK ==
  ASSUME LimiterInv, NEW c \in Clients
  PROVE  /\ TableOK(Checked(c))
         /\ Fresh(Checked(c)[c], now - Window)
         /\ Crowded(c) => \A d \in Clients : Fresh(Checked(c)[d], now - Window)
         /\ Thinner(Checked(c), hits)
  <1>0. now \in Nat /\ TableOK(hits)
    BY DEF LimiterInv, LimiterTypeOK
  <1> DEFINE H == IF CleanupDue THEN PruneAll(hits) ELSE hits
  <1>1. TableOK(H) /\ Thinner(H, hits)
    BY <1>0, PruneAllOK DEF Thinner
  <1>2. Looked(c) = PruneKey(H, c)
    BY DEF Looked
  <1> HIDE DEF H
  <1>3. /\ TableOK(Looked(c)) /\ Fresh(Looked(c)[c], now - Window)
        /\ Thinner(Looked(c), hits)
    BY <1>0, <1>1, <1>2, PruneKeyOK DEF Thinner
  <1>4. CASE Crowded(c)
    <2>1. Checked(c) = PruneAll(Looked(c))
      BY <1>4 DEF Checked
    <2> QED BY <1>0, <1>3, <2>1, PruneAllOK DEF Thinner
  <1>5. CASE ~Crowded(c)
    <2>1. Checked(c) = Looked(c)
      BY <1>5 DEF Checked
    <2> QED BY <1>5, <1>3, <2>1
  <1> QED BY <1>4, <1>5

\* The keys of a table.
Keys(T) == {d \in Clients : T[d] # <<>>}

\* The number of keys is the cardinality of a finite set.
LEMMA KeyCountFacts ==
  ASSUME NEW T
  PROVE  /\ KeyCount(T) = Cardinality(Keys(T)) /\ IsFiniteSet(Keys(T)) /\ KeyCount(T) \in Nat
         /\ \A S \in SUBSET Keys(T) : IsFiniteSet(S) /\ Cardinality(S) \in Nat /\ Cardinality(S) <= KeyCount(T)
  <1>1. KeyCount(T) = Cardinality(Keys(T))
    BY DEF KeyCount, Keys
  <1>2. Keys(T) \in SUBSET Clients
    BY DEF Keys
  <1>3. IsFiniteSet(Keys(T))
    BY <1>2, LimiterConstants, FS_Subset
  <1>4. \A S \in SUBSET Keys(T) : IsFiniteSet(S) /\ Cardinality(S) <= Cardinality(Keys(T))
    BY <1>3, FS_Subset
  <1>5. \A S \in SUBSET Keys(T) : Cardinality(S) \in Nat
    BY <1>4, FS_CardinalityType
  <1> QED BY <1>1, <1>3, <1>4, <1>5, FS_CardinalityType

\* A fresh queue counts the abstract window, and a client without a key has no
\* admission in it.
LEMMA QueueCount ==
  ASSUME now \in Nat, NEW T, TableOK(T), NEW d \in Clients
  PROVE  /\ Fresh(T[d], now - Window) =>
              /\ IsFiniteSet(Abstract!Recent(d)) /\ Cardinality(Abstract!Recent(d)) = Len(T[d])
              /\ Abstract!Recent(d) = {} <=> T[d] = <<>>
         /\ T[d] = <<>> => Abstract!Recent(d) = {}
         /\ T[d] \in Seq(Nat) /\ Len(T[d]) \in Nat
  <1> DEFINE start == now - Window
             S == Abstract!Recent(d)
  <1>1. S = RecentIn(admitted, d, start)
    BY DEF Abstract!Recent, RecentIn
  <1>2. T[d] \in Seq(Nat) /\ start \in Int /\ Paired(T[d], start, S)
    BY <1>1, LimiterConstants DEF TableOK, QueueInv
  <1> HIDE DEF start, S
  <1>3. Len(T[d]) \in Nat /\ (T[d] # <<>> => Len(T[d]) # 0) /\ Len(<<>>) = 0
    BY <1>2, LenProperties, EmptySeq
  <1>4. T[d] = <<>> => S = {}
    BY <1>2, PairedNone
  <1>5. Fresh(T[d], start) => IsFiniteSet(S) /\ Cardinality(S) = Len(T[d])
    BY <1>2, PairedCount
  <1>6. Fresh(T[d], start) => (S = {} => T[d] = <<>>)
    BY <1>3, <1>5, FS_EmptySet
  <1> QED BY <1>2, <1>3, <1>4, <1>5, <1>6 DEF start, S

\* Every active client has a key; when nothing is stale the keys are the active
\* clients.
LEMMA ActiveCount ==
  ASSUME now \in Nat, NEW T, TableOK(T)
  PROVE  /\ Abstract!Active \in SUBSET Keys(T)
         /\ (\A d \in Clients : Fresh(T[d], now - Window)) => Abstract!Active = Keys(T)
  <1>1. \A d \in Clients : T[d] = <<>> => Abstract!Recent(d) = {}
    BY QueueCount
  <1>2. \A d \in Clients : Fresh(T[d], now - Window) => (Abstract!Recent(d) = {} <=> T[d] = <<>>)
    BY QueueCount
  <1> QED BY <1>1, <1>2 DEF Abstract!Active, Keys

\* The instance has its own copy of Cardinality.
LEMMA AbstractCardinality == \A S : Abstract!Cardinality(S) = Cardinality(S)
  BY DEF Abstract!Cardinality, Cardinality

\* Check decides as the abstract window does.
LEMMA CheckRefines ==
  ASSUME LimiterInv, NEW c \in Clients, Check(c), now' = now
  PROVE  Abstract!Admit(c) \/ Abstract!RefuseClient(c) \/ Abstract!RefuseRequest(c)
  <1> DEFINE T == Checked(c)
             n == Len(T[c])
  <1>0. now \in Nat
    BY DEF LimiterInv, LimiterTypeOK
  <1>1. /\ TableOK(T) /\ Fresh(T[c], now - Window)
        /\ Crowded(c) => \A d \in Clients : Fresh(T[d], now - Window)
    BY CheckedOK
  <1>2. /\ IsFiniteSet(Abstract!Recent(c)) /\ Cardinality(Abstract!Recent(c)) = n /\ n \in Nat
        /\ Abstract!Recent(c) = {} <=> T[c] = <<>>
    BY <1>0, <1>1, QueueCount
  <1>3. c \in Abstract!Active <=> T[c] # <<>>
    BY <1>2 DEF Abstract!Active
  <1>4. /\ Abstract!Active \in SUBSET Keys(T)
        /\ Crowded(c) => Abstract!Active = Keys(T)
    BY <1>0, <1>1, ActiveCount
  <1>5. /\ Cardinality(Abstract!Active) \in Nat /\ Cardinality(Abstract!Active) <= KeyCount(T)
        /\ KeyCount(T) \in Nat /\ KeyCount(T) = Cardinality(Keys(T))
    BY <1>4, KeyCountFacts
  <1>6. T[c] = <<>> /\ KeyCount(T) >= MaxKeys => Crowded(c)
    BY DEF Checked, Crowded
  <1>7. CASE Allows(c)
    <2>1. /\ decision' = [client |-> c, reason |-> "allowed", remaining |-> Limit - n - 1]
          /\ admitted' = admitted \cup {[client |-> c, time |-> now, number |-> n]}
          /\ n < Limit /\ (T[c] # <<>> \/ ~(KeyCount(T) >= MaxKeys))
      BY <1>7 DEF Check, Allows
    <2>2. c \in Abstract!Active \/ Cardinality(Abstract!Active) < MaxKeys
      <3> HIDE DEF T, n
      <3> QED BY <2>1, <1>3, <1>5, LimiterConstants
    <2> HIDE DEF T, n
    <2> QED BY <2>1, <2>2, <1>2, AbstractCardinality DEF Abstract!Admit
  <1>8. CASE ~Allows(c)
    <2>1. /\ decision' = [client |-> c, reason |-> Refusal(c), remaining |-> 0]
          /\ UNCHANGED <<now, admitted>>
      BY <1>8 DEF Check
    <2>2. CASE T[c] = <<>> /\ KeyCount(T) >= MaxKeys
      <3>1. Refusal(c) = "key-capacity"
        BY <2>2 DEF Refusal
      <3> HIDE DEF T, n
      <3>2. Cardinality(Abstract!Active) >= MaxKeys
        BY <1>4, <1>5, <1>6, <2>2
      <3> QED BY <2>1, <2>2, <3>1, <3>2, <1>3, AbstractCardinality DEF Abstract!RefuseClient
    <2>3. CASE ~(T[c] = <<>> /\ KeyCount(T) >= MaxKeys)
      <3>1. Refusal(c) = "request-limit" /\ ~(n < Limit)
        BY <2>3, <1>8 DEF Refusal, Allows
      <3> HIDE DEF T, n
      <3>2. Cardinality(Abstract!Recent(c)) >= Limit
        BY <3>1, <1>2, LimiterConstants
      <3> QED BY <2>1, <3>1, <3>2, AbstractCardinality DEF Abstract!RefuseRequest
    <2> QED BY <2>2, <2>3
  <1> QED BY <1>7, <1>8

\* An admission keeps the invariant of its client's queue.
LEMMA QueueAdmits ==
  ASSUME NEW q, NEW c, NEW time \in Nat, NEW adm, QueueInv(q, c, time, adm),
         Fresh(q, time - Window),
         NEW r, r = [client |-> c, time |-> time, number |-> Len(q)]
  PROVE  QueueInv(Append(q, time), c, time, adm \cup {r})
  <1> DEFINE start == time - Window
             p == Append(q, time)
  <1>1. /\ start \in Int /\ q \in Seq(Nat) /\ Sorted(q) /\ time > start
        /\ Paired(q, start, RecentIn(adm, c, start))
    BY LimiterConstants DEF QueueInv
  <1>2. /\ \A i \in 1 .. Len(q) : q[i] <= time
        /\ \A x \in adm : x.client = c /\ x.time = time => x.number \in Nat /\ x.number < Len(q)
    BY DEF QueueInv
  <1>3. /\ Len(q) \in Nat /\ \A i \in 1 .. Len(q) : q[i] \in Nat
        /\ p \in Seq(Nat) /\ Len(p) = Len(q) + 1 /\ p[Len(q) + 1] = time
        /\ \A i \in 1 .. Len(q) : p[i] = q[i]
    BY <1>1, LenProperties, AppendProperties
  <1>4. r.client = c /\ r.time = time /\ r.number = Len(q)
    OBVIOUS
  <1> HIDE DEF start, p
  <1>5. r \notin adm
    BY <1>2, <1>3, <1>4
  <1>6. RecentIn(adm \cup {r}, c, start) = RecentIn(adm, c, start) \cup {r}
    BY <1>1, <1>4 DEF RecentIn
  <1>7. Paired(p, start, RecentIn(adm \cup {r}, c, start))
    BY <1>1, <1>4, <1>5, <1>6, PairedAppend DEF RecentIn, p
  <1>8. /\ Sorted(p)
        /\ \A i \in 1 .. Len(p) : p[i] <= time
    <2>1. \A i \in 1 .. Len(p) : /\ i \in 1 .. Len(q) \/ i = Len(q) + 1
                                 /\ p[i] \in Nat /\ p[i] <= time
      BY <1>2, <1>3
    <2> SUFFICES ASSUME NEW i \in 1 .. Len(p), NEW j \in 1 .. Len(p), i <= j
                 PROVE  p[i] <= p[j]
      BY <2>1 DEF Sorted
    <2>2. CASE j = Len(q) + 1 BY <2>1, <2>2, <1>3
    <2>3. CASE j # Len(q) + 1
      <3>1. i \in 1 .. Len(q) /\ j \in 1 .. Len(q) BY <2>1, <2>3, <1>3
      <3>2. p[i] = q[i] /\ p[j] = q[j] /\ q[i] <= q[j] BY <3>1, <1>1, <1>3 DEF Sorted
      <3> QED BY <3>2
    <2> QED BY <2>2, <2>3
  <1>9. Fresh(p, start)
    BY <1>1, <1>3 DEF Fresh, start
  <1>10. \A x \in adm \cup {r} : x.client = c /\ x.time = time => x.number \in Nat /\ x.number < Len(p)
    <2> SUFFICES ASSUME NEW x \in adm \cup {r}, x.client = c, x.time = time
                 PROVE  x.number \in Nat /\ x.number < Len(p)
      OBVIOUS
    <2>1. CASE x = r BY <2>1, <1>3, <1>4
    <2>2. CASE x \in adm
      <3>1. x.number \in Nat /\ x.number < Len(q) BY <2>2, <1>2
      <3> QED BY <3>1, <1>3
    <2> QED BY <2>1, <2>2
  <1> QED BY <1>3, <1>7, <1>8, <1>9, <1>10 DEF QueueInv, p, start

\* An admission of another client does not concern a queue.
LEMMA QueueOther ==
  ASSUME NEW q, NEW d, NEW time \in Nat, NEW adm, QueueInv(q, d, time, adm),
         NEW r, r.client # d
  PROVE  QueueInv(q, d, time, adm \cup {r})
  <1>1. RecentIn(adm \cup {r}, d, time - Window) = RecentIn(adm, d, time - Window)
    BY DEF RecentIn
  <1> QED BY <1>1 DEF QueueInv

\* A tick keeps the invariant of a queue, pruned or not.
LEMMA QueueLater ==
  ASSUME NEW q, NEW c, NEW time \in Nat, NEW adm, QueueInv(q, c, time, adm),
         \A x \in adm : x.time \in Nat /\ x.time <= time
  PROVE  QueueInv(q, c, time + 1, adm)
  <1> DEFINE start == time - Window
             later == (time + 1) - Window
  <1>1. /\ start \in Int /\ later \in Int /\ later = start + 1
        /\ q \in Seq(Nat) /\ Sorted(q)
        /\ Paired(q, start, RecentIn(adm, c, start))
    BY LimiterConstants DEF QueueInv
  <1>2. \A i \in 1 .. Len(q) : q[i] <= time + 1
    BY LenProperties DEF QueueInv
  <1>3. \A x \in adm : x.time # time + 1
    OBVIOUS
  <1> HIDE DEF start, later
  <1>4. {x \in RecentIn(adm, c, start) : x.time > later} = RecentIn(adm, c, later)
    BY <1>1 DEF RecentIn
  <1>5. start <= later
    BY <1>1
  <1>6. Paired(q, later, RecentIn(adm, c, later))
    BY <1>1, <1>4, <1>5, PairedLater
  <1> QED BY <1>1, <1>2, <1>3, <1>6 DEF QueueInv, later

\* The empty queue of a new process.
LEMMA QueueEmpty ==
  ASSUME NEW c, NEW time \in Nat
  PROVE  QueueInv(<<>>, c, time, {})
  <1>1. <<>> \in Seq(Nat) /\ Len(<<>>) = 0
    BY EmptySeq
  <1>2. RecentIn({}, c, time - Window) = {}
    BY DEF RecentIn
  <1>3. Live(<<>>, time - Window) = {}
    BY <1>1 DEF Live
  <1>4. Pairs([i \in {} |-> i], <<>>, time - Window, {})
    BY <1>3 DEF Pairs
  <1>5. Paired(<<>>, time - Window, {})
    BY <1>4 DEF Paired
  <1>6. Sorted(<<>>)
    BY <1>1 DEF Sorted
  <1>7. 1 .. Len(<<>>) = {}
    BY <1>1
  <1>8. \A i \in 1 .. Len(<<>>) : <<>>[i] <= time
    BY <1>7
  <1> QED BY <1>1, <1>2, <1>5, <1>6, <1>8 DEF QueueInv

\* A table with fewer keys.
LEMMA ThinnerCount ==
  ASSUME NEW T, NEW U, Thinner(T, U)
  PROVE  KeyCount(T) <= KeyCount(U)
  <1>1. Keys(T) \in SUBSET Keys(U)
    BY DEF Keys, Thinner
  <1> QED BY <1>1, KeyCountFacts

\* check keeps LimiterInv: it adds a key only where there is room.
LEMMA CheckKeeps ==
  ASSUME LimiterInv, NEW c \in Clients, Check(c), now' = now
  PROVE  LimiterInv'
  <1> DEFINE T == Checked(c)
             n == Len(T[c])
             r == [client |-> c, time |-> now, number |-> n]
  <1>0. /\ now \in Nat /\ lastCleanup \in Nat /\ KeyCount(hits) <= MaxKeys
        /\ \A x \in admitted : x.time \in Nat /\ x.time <= now
    BY DEF LimiterInv, LimiterTypeOK
  <1>1. TableOK(T) /\ Fresh(T[c], now - Window) /\ Thinner(T, hits)
    BY CheckedOK
  <1>2. /\ T \in [Clients -> Seq(Nat)]
        /\ \A d \in Clients : QueueInv(T[d], d, now, admitted)
    BY <1>1 DEF TableOK
  <1>3. n \in Nat
    BY <1>0, <1>1, QueueCount
  <1>4. KeyCount(T) <= MaxKeys /\ KeyCount(T) \in Nat
    <2>1. KeyCount(T) <= KeyCount(hits) BY <1>1, ThinnerCount
    <2>2. KeyCount(T) \in Nat /\ KeyCount(hits) \in Nat BY KeyCountFacts
    <2> HIDE DEF T
    <2> QED BY <2>1, <2>2, <1>0, LimiterConstants
  <1>5. lastCleanup' \in Nat
    BY <1>0 DEF Check
  <1>6. CASE Allows(c)
    <2>1. /\ hits' = [T EXCEPT ![c] = Append(T[c], now)]
          /\ decision' = [client |-> c, reason |-> "allowed", remaining |-> Limit - n - 1]
          /\ admitted' = admitted \cup {r}
          /\ n < Limit /\ (T[c] # <<>> \/ ~(KeyCount(T) >= MaxKeys))
      BY <1>6 DEF Check, Allows
    <2>r. r = [client |-> c, time |-> now, number |-> Len(T[c])]
          /\ r.client = c /\ r.time = now
      OBVIOUS
    <2> HIDE DEF T, n, r
    <2>2. QueueInv(Append(T[c], now), c, now, admitted \cup {r})
      BY <1>0, <1>1, <1>2, <2>r, QueueAdmits
    <2>3. /\ hits' \in [Clients -> Seq(Nat)] /\ hits'[c] = Append(T[c], now)
          /\ \A d \in Clients : d # c => hits'[d] = T[d]
      <3>1. Append(T[c], now) \in Seq(Nat) BY <2>2 DEF QueueInv
      <3> QED BY <1>2, <2>1, <3>1
    <2>4. \A d \in Clients : d # c => QueueInv(T[d], d, now, admitted \cup {r})
      BY <1>0, <1>2, <2>r, QueueOther
    <2>5. TableOK(hits)'
      BY <2>1, <2>2, <2>3, <2>4 DEF TableOK
    <2>6. Keys(hits') \in SUBSET (Keys(T) \cup {c})
      BY <2>3 DEF Keys
    <2>7. KeyCount(hits') <= MaxKeys
      <3>1. IsFiniteSet(Keys(T)) /\ KeyCount(T) = Cardinality(Keys(T))
        BY KeyCountFacts
      <3>2. /\ IsFiniteSet(Keys(T) \cup {c})
            /\ Cardinality(Keys(T) \cup {c}) = IF c \in Keys(T) THEN KeyCount(T) ELSE KeyCount(T) + 1
        BY <3>1, FS_AddElement
      <3>3. Cardinality(Keys(hits')) <= Cardinality(Keys(T) \cup {c})
        BY <3>2, <2>6, FS_Subset
      <3>4. T[c] # <<>> => c \in Keys(T)
        BY DEF Keys
      <3>5. Cardinality(Keys(T) \cup {c}) <= MaxKeys
        BY <3>2, <3>4, <2>1, <1>4, LimiterConstants
      <3>6. KeyCount(hits') = Cardinality(Keys(hits')) /\ KeyCount(hits') \in Nat
        BY KeyCountFacts
      <3>7. Cardinality(Keys(T) \cup {c}) \in Nat
        BY <3>2, FS_CardinalityType
      <3> QED BY <3>3, <3>5, <3>6, <3>7, LimiterConstants
    <2>8. decision'.remaining \in 0 .. Limit
      BY <2>1, <1>3, LimiterConstants DEF n
    <2>9. \A x \in admitted' : x.time \in Nat /\ x.time <= now
      BY <2>1, <2>r, <1>0
    <2>10. LimiterTypeOK'
      BY <1>0, <1>5, <2>3, <2>7, <2>8 DEF LimiterTypeOK, KeyCount
    <2> QED BY <2>5, <2>9, <2>10 DEF LimiterInv
  <1>7. CASE ~Allows(c)
    <2>1. hits' = T /\ decision'.remaining = 0 /\ UNCHANGED admitted
      BY <1>7 DEF Check
    <2> HIDE DEF T
    <2>2. TableOK(hits)'
      BY <2>1, <1>2 DEF TableOK
    <2>3. KeyCount(hits)' <= MaxKeys
      BY <2>1, <1>4 DEF KeyCount
    <2>4. LimiterTypeOK'
      BY <1>0, <1>2, <1>5, <2>1, <2>3, LimiterConstants DEF LimiterTypeOK
    <2> QED BY <2>1, <2>2, <2>4, <1>0 DEF LimiterInv
  <1> QED BY <1>6, <1>7

\* info keeps LimiterInv.
LEMMA InfoKeeps ==
  ASSUME LimiterInv, NEW c \in Clients, Info(c), now' = now
  PROVE  LimiterInv'
  <1>0. /\ now \in Nat /\ lastCleanup \in Nat /\ KeyCount(hits) <= MaxKeys
        /\ decision.remaining \in 0 .. Limit /\ TableOK(hits)
    BY DEF LimiterInv, LimiterTypeOK
  <1>1. hits' = PruneKey(hits, c) /\ UNCHANGED <<lastCleanup, decision, admitted>>
    BY DEF Info
  <1> DEFINE T == PruneKey(hits, c)
  <1>2. TableOK(T) /\ KeyCount(T) <= KeyCount(hits)
    BY <1>0, PruneKeyOK, ThinnerCount
  <1>3. KeyCount(T) \in Nat /\ KeyCount(hits) \in Nat
    BY KeyCountFacts
  <1> HIDE DEF T
  <1>4. TableOK(hits)'
    BY <1>1, <1>2 DEF TableOK, T
  <1>5. KeyCount(T) <= MaxKeys
    BY <1>0, <1>2, <1>3, LimiterConstants
  <1>6. KeyCount(hits)' <= MaxKeys
    BY <1>1, <1>5 DEF KeyCount, T
  <1>7. LimiterTypeOK'
    BY <1>0, <1>1, <1>4, <1>6 DEF LimiterTypeOK, TableOK
  <1> QED BY <1>1, <1>4, <1>7 DEF LimiterInv

\* The empty table has room.
LEMMA EmptyCount == KeyCount([c \in Clients |-> <<>>]) <= MaxKeys
  <1>1. Keys([c \in Clients |-> <<>>]) = {}
    BY DEF Keys
  <1> QED BY <1>1, KeyCountFacts, FS_EmptySet, LimiterConstants

\* A new process.
LEMMA ForgetKeepsLimiter ==
  ASSUME LimiterInv, ForgetHits, now' = now
  PROVE  LimiterInv'
  <1>0. now \in Nat
    BY DEF LimiterInv, LimiterTypeOK
  <1>1. /\ hits' = [c \in Clients |-> <<>>] /\ lastCleanup' = 0 /\ admitted' = {}
        /\ decision'.remaining = Limit
    BY DEF ForgetHits, NoDecision
  <1>2. hits' \in [Clients -> Seq(Nat)] /\ \A c \in Clients : hits'[c] = <<>>
    BY <1>1, EmptySeq
  <1>3. TableOK(hits)'
    BY <1>0, <1>1, <1>2, QueueEmpty DEF TableOK
  <1>4. KeyCount(hits') <= MaxKeys
    BY <1>1, EmptyCount
  <1>5. KeyCount(hits)' <= MaxKeys
    BY <1>4 DEF KeyCount
  <1>6. LimiterTypeOK'
    BY <1>0, <1>1, <1>2, <1>5, LimiterConstants DEF LimiterTypeOK
  <1> QED BY <1>1, <1>3, <1>6 DEF LimiterInv

\* The first process.
LEMMA LimiterInitially ==
  ASSUME now = 0, LimiterInit
  PROVE  LimiterInv
  <1>1. /\ hits = [c \in Clients |-> <<>>] /\ lastCleanup = 0 /\ admitted = {}
        /\ decision.remaining = Limit
    BY DEF LimiterInit, NoDecision
  <1>2. hits \in [Clients -> Seq(Nat)] /\ \A c \in Clients : hits[c] = <<>>
    BY <1>1, EmptySeq
  <1>3. TableOK(hits)
    BY <1>1, <1>2, QueueEmpty DEF TableOK
  <1>4. KeyCount(hits) <= MaxKeys
    BY <1>1, EmptyCount
  <1>6. LimiterTypeOK
    BY <1>1, <1>2, <1>4, LimiterConstants DEF LimiterTypeOK
  <1> QED BY <1>1, <1>3, <1>6 DEF LimiterInv

\* The clock advances.
LEMMA TickKeeps ==
  ASSUME LimiterInv, now' = now + 1, UNCHANGED limiterVars
  PROVE  LimiterInv'
  <1>0. /\ now \in Nat /\ TableOK(hits) /\ KeyCount(hits) <= MaxKeys
        /\ \A x \in admitted : x.time \in Nat /\ x.time <= now
    BY DEF LimiterInv, LimiterTypeOK
  <1>1. UNCHANGED <<hits, lastCleanup, decision, admitted>>
    BY DEF limiterVars
  <1>2. \A c \in Clients : QueueInv(hits[c], c, now + 1, admitted)
    BY <1>0, QueueLater DEF TableOK
  <1>3. TableOK(hits)'
    BY <1>0, <1>1, <1>2 DEF TableOK
  <1>4. KeyCount(hits)' <= MaxKeys
    BY <1>0, <1>1 DEF KeyCount
  <1>5. LimiterTypeOK'
    BY <1>0, <1>1, <1>4 DEF LimiterInv, LimiterTypeOK
  <1>6. \A x \in admitted' : x.time \in Nat /\ x.time <= now'
    BY <1>0, <1>1
  <1> QED BY <1>3, <1>5, <1>6 DEF LimiterInv

\* A step of the store.
LEMMA LimiterVarsKeep ==
  ASSUME LimiterInv, UNCHANGED <<now, limiterVars>>
  PROVE  LimiterInv'
  <1>1. UNCHANGED <<now, hits, lastCleanup, decision, admitted>>
    BY DEF limiterVars
  <1>2. TableOK(hits)'
    BY <1>1 DEF LimiterInv, TableOK
  <1>3. KeyCount(hits)' <= MaxKeys
    BY <1>1 DEF LimiterInv, LimiterTypeOK, KeyCount
  <1> QED BY <1>1, <1>2, <1>3 DEF LimiterInv, LimiterTypeOK

\* Every step of the service keeps LimiterInv and is a step of the sliding
\* window or leaves it alone.
LEMMA LimiterNext ==
  ASSUME LimiterInv, \A t \in Threads : serving[t] # None => serving[t] \in Clients, [Next]_vars
  PROVE  LimiterInv' /\ (Abstract!SWNext \/ UNCHANGED Abstract!SWvars)
  <1>0. now \in Nat
    BY DEF LimiterInv, LimiterTypeOK
  <1>c. ASSUME NEW c \in Clients, Check(c), now' = now
        PROVE  LimiterInv' /\ Abstract!SWNext
    BY <1>c, CheckKeeps, CheckRefines DEF Abstract!SWNext
  <1>1. ASSUME NEW c \in Clients, AnswerDirectly(c) PROVE LimiterInv' /\ Abstract!SWNext
    BY <1>1, <1>c DEF AnswerDirectly
  <1>2. ASSUME NEW c \in Clients, NEW t \in Threads, NEW op \in Calls, NEW s \in Sessions,
               NEW a \in Artifacts, NEW reference \in References, Dispatch(c, t, op, s, a, reference)
        PROVE  LimiterInv' /\ Abstract!SWNext
    BY <1>2, <1>c DEF Dispatch
  <1>3. ASSUME NEW t \in Threads, Work(t)
        PROVE  LimiterInv' /\ UNCHANGED Abstract!SWvars
    BY <1>3, LimiterVarsKeep DEF Work, limiterVars, Abstract!SWvars
  <1>4. ASSUME NEW t \in Threads, Respond(t)
        PROVE  LimiterInv' /\ UNCHANGED Abstract!SWvars
    <2>1. /\ serving[t] \in Clients /\ Info(serving[t]) /\ now' = now
      BY <1>4 DEF Respond
    <2> QED BY <2>1, InfoKeeps DEF Info, Abstract!SWvars
  <1>5. ASSUME NEW s \in Sessions, Destroy(s)
        PROVE  LimiterInv' /\ UNCHANGED Abstract!SWvars
    BY <1>5, LimiterVarsKeep DEF Destroy, limiterVars, Abstract!SWvars
  <1>6. ASSUME Tick PROVE LimiterInv' /\ Abstract!SWNext
    <2>1. LimiterInv' BY <1>6, TickKeeps DEF Tick
    <2>2. now' = now + 1 /\ UNCHANGED <<admitted, decision>>
      BY <1>6 DEF Tick, limiterVars
    <2> QED BY <2>1, <2>2, <1>0 DEF Abstract!SWNext, Abstract!Advance
  <1>7. ASSUME Kill PROVE LimiterInv' /\ Abstract!SWNext
    <2>1. ForgetHits /\ now' = now BY <1>7 DEF Kill
    <2>2. LimiterInv' BY <2>1, ForgetKeepsLimiter
    <2>3. Abstract!Restart
      BY <2>1 DEF ForgetHits, NoDecision, Abstract!Restart
    <2> QED BY <2>2, <2>3 DEF Abstract!SWNext
  <1>8. ASSUME UNCHANGED vars PROVE LimiterInv' /\ UNCHANGED Abstract!SWvars
    BY <1>8, LimiterVarsKeep DEF vars, limiterVars, Abstract!SWvars
  <1> QED BY <1>1, <1>2, <1>3, <1>4, <1>5, <1>6, <1>7, <1>8 DEF Next

\* A busy thread answers a client.
ServingOK == serving \in [Threads -> Clients \cup {None}]

\* The threads go on answering clients.
LEMMA ServingNext ==
  ASSUME ServingOK, [Next]_vars
  PROVE  ServingOK'
  BY DEF ServingOK, Next, vars, AnswerDirectly, Dispatch, Work, Respond, Destroy, Tick, Kill

-----------------------------------------------------------------------------
(* No window of the history holds more than Limit admissions of a client.  *)

\* The admissions of a client in the window that begins at t.
InWindow(adm, c, t) == {x \in adm : x.client = c /\ x.time \in t .. (t + Window - 1)}

\* No window, wherever it begins, holds more than Limit of them.
WindowsOK ==
    \A c \in Clients, t \in Nat :
        /\ IsFiniteSet(InWindow(admitted, c, t))
        /\ Cardinality(InWindow(admitted, c, t)) <= Limit

\* An admission at this tick only counts for windows that contain it, and what
\* these hold besides is recent.
LEMMA CheckKeepsWindows ==
  ASSUME LimiterInv, WindowsOK, NEW c \in Clients, Check(c), now' = now
  PROVE  WindowsOK'
  <1> DEFINE T == Checked(c)
             n == Len(T[c])
             r == [client |-> c, time |-> now, number |-> n]
             S == Abstract!Recent(c)
  <1>0. now \in Nat /\ \A x \in admitted : x.time \in Nat /\ x.time <= now
    BY DEF LimiterInv, LimiterTypeOK
  <1>1. TableOK(T) /\ Fresh(T[c], now - Window)
    BY CheckedOK
  <1>2. IsFiniteSet(S) /\ Cardinality(S) = n /\ n \in Nat
    BY <1>0, <1>1, QueueCount
  <1>3. CASE ~Allows(c)
    <2>1. UNCHANGED admitted BY <1>3 DEF Check
    <2> QED BY <2>1 DEF WindowsOK, InWindow
  <1>4. CASE Allows(c)
    <2>1. admitted' = admitted \cup {r} /\ n < Limit
      BY <1>4 DEF Check, Allows
    <2>2. r.client = c /\ r.time = now
      OBVIOUS
    <2>3. /\ IsFiniteSet(S \cup {r})
          /\ Cardinality(S \cup {r}) = IF r \in S THEN Cardinality(S) ELSE Cardinality(S) + 1
      BY <1>2, FS_AddElement
    <2>s. S = {x \in admitted : x.client = c /\ x.time > now - Window}
      BY DEF Abstract!Recent
    <2> HIDE DEF T, n, r, S
    <2>4. Cardinality(S \cup {r}) <= Limit
      BY <1>2, <2>1, <2>3, LimiterConstants
    <2> SUFFICES ASSUME NEW d \in Clients, NEW t \in Nat
                 PROVE  /\ IsFiniteSet(InWindow(admitted', d, t))
                        /\ Cardinality(InWindow(admitted', d, t)) <= Limit
      BY DEF WindowsOK, InWindow
    <2>5. CASE d = c /\ now \in t .. (t + Window - 1)
      <3>1. InWindow(admitted', d, t) \in SUBSET (S \cup {r})
        BY <2>1, <2>5, <2>s, <1>0, LimiterConstants DEF InWindow
      <3>2. /\ IsFiniteSet(InWindow(admitted', d, t))
            /\ Cardinality(InWindow(admitted', d, t)) <= Cardinality(S \cup {r})
        BY <3>1, <2>3, FS_Subset
      <3>3. Cardinality(InWindow(admitted', d, t)) \in Nat /\ Cardinality(S \cup {r}) \in Nat
        BY <3>2, <2>3, FS_CardinalityType
      <3> QED BY <3>2, <3>3, <2>4, LimiterConstants
    <2>6. CASE ~(d = c /\ now \in t .. (t + Window - 1))
      <3>1. InWindow(admitted', d, t) = InWindow(admitted, d, t)
        BY <2>1, <2>2, <2>6 DEF InWindow
      <3> QED BY <3>1 DEF WindowsOK
    <2> QED BY <2>5, <2>6
  <1> QED BY <1>3, <1>4

\* The windows of a new process.
LEMMA EmptyWindows ==
  ASSUME NEW c, NEW t
  PROVE  IsFiniteSet(InWindow({}, c, t)) /\ Cardinality(InWindow({}, c, t)) <= Limit
  <1>1. InWindow({}, c, t) = {}
    BY DEF InWindow
  <1> QED BY <1>1, FS_EmptySet, LimiterConstants

\* Every step of the service keeps WindowsOK.
LEMMA WindowsNext ==
  ASSUME LimiterInv, WindowsOK, [Next]_vars
  PROVE  WindowsOK'
  <1>1. ASSUME NEW c \in Clients, Check(c), now' = now PROVE WindowsOK'
    BY <1>1, CheckKeepsWindows
  <1>2. ASSUME UNCHANGED admitted PROVE WindowsOK'
    BY <1>2 DEF WindowsOK, InWindow
  <1>3. ASSUME ForgetHits PROVE WindowsOK'
    <2>1. admitted' = {} BY <1>3 DEF ForgetHits
    <2> QED BY <2>1, EmptyWindows DEF WindowsOK, InWindow
  <1> QED BY <1>1, <1>2, <1>3
          DEF Next, vars, limiterVars, AnswerDirectly, Dispatch, Work, Respond, Info, Destroy,
              Tick, Kill

-----------------------------------------------------------------------------
(* The service.                                                            *)

\* The inductive invariant of the service.
ServiceInv == StoreInv /\ LimiterInv /\ ServingOK /\ WindowsOK

\* It holds initially,
LEMMA ServiceInitially ==
  ASSUME Init
  PROVE  ServiceInv
  <1>1. StoreInv
    BY StoreInitially DEF Init
  <1>2. LimiterInv
    BY LimiterInitially DEF Init
  <1>3. ServingOK
    BY DEF Init, ServingOK
  <1>4. admitted = {}
    BY DEF Init, LimiterInit
  <1>5. WindowsOK
    BY <1>4, EmptyWindows DEF WindowsOK
  <1> QED BY <1>1, <1>2, <1>3, <1>5 DEF ServiceInv

\* and every step keeps it and maps to a step of the sliding window.
LEMMA ServiceNext ==
  ASSUME ServiceInv, [Next]_vars
  PROVE  ServiceInv' /\ [Abstract!SWNext]_Abstract!SWvars
  <1>1. now \in Nat /\ \A t \in Threads : serving[t] # None => serving[t] \in Clients
    BY DEF ServiceInv, LimiterInv, LimiterTypeOK, ServingOK
  <1>2. StoreInv'
    BY <1>1, StoreNext DEF ServiceInv
  <1>3. LimiterInv' /\ (Abstract!SWNext \/ UNCHANGED Abstract!SWvars)
    BY <1>1, LimiterNext DEF ServiceInv
  <1>4. ServingOK' /\ WindowsOK'
    BY ServingNext, WindowsNext DEF ServiceInv
  <1> QED BY <1>2, <1>3, <1>4 DEF ServiceInv

\* The service keeps its inductive invariant, for any clients, limits, threads,
\* artifacts, faults and workloads.
THEOREM ServiceInvariant == Spec => []ServiceInv
  BY ServiceInitially, ServiceNext, PTL DEF Spec

\* The tables, threads and histories of the service keep their types, and the
\* limiter's table never holds more than MaxKeys keys (_check's key-capacity
\* refusal).
THEOREM ServiceTypes == Spec => []TypeOK
  <1>1. ServiceInv => TypeOK
    BY DEF ServiceInv, StoreInv, LimiterInv, TypeOK
  <1> QED BY <1>1, ServiceInvariant, PTL

\* What a listing shows or store_text answered has its payload and its manifest
\* until a removal selects it, whatever fails and whenever the server is killed.
THEOREM ListedIsWholeHolds == Spec => []ListedIsWhole
  <1>1. ServiceInv => ListedIsWhole
    BY DEF ServiceInv, StoreInv, ArtifactInv, FilesOf, ListedIsWhole
  <1> QED BY <1>1, ServiceInvariant, PTL

\* delete_artifact and cleanup_expired keep every file of an artifact as long as
\* it has a reference that was registered while no removal was past its check,
\* also when its other references are released.
THEOREM ProtectedIsKeptHolds == Spec => []ProtectedIsKept
  <1>1. ServiceInv => ProtectedIsKept
    <2> SUFFICES ASSUME StoreInv, NEW reference \in refs \ late PROVE files[reference[1]] = Whole
      BY DEF ServiceInv, ProtectedIsKept
    <2>1. PICK a \in Artifacts, r \in References : reference = <<a, r>>
      BY StoreFacts
    <2>2. Held(a)
      BY <2>1 DEF Held
    <2> QED BY <2>1, <2>2, StoreFacts DEF ArtifactInv, KeptOf
  <1> QED BY <1>1, ServiceInvariant, PTL

\* The state store has a record of an artifact without manifest only while its
\* removal is under way, after one that was cut short, or when the removal began
\* before the creation was answered.
THEOREM NoGhostRecordHolds == Spec => []NoGhostRecord
  <1>1. ServiceInv => NoGhostRecord
    <2> SUFFICES ASSUME StoreInv, NEW a \in rows, "manifest" \notin files[a],
                        a \notin broken \cup early
                 PROVE  \E t \in Threads : thread[t].artifact = a /\ thread[t].pc \in {"remove", "forget"}
      BY DEF ServiceInv, NoGhostRecord
    <2> QED BY StoreFacts DEF ArtifactInv, GhostOf, Removes
  <1> QED BY <1>1, ServiceInvariant, PTL

\* check admits no client more than Limit times in any window, wherever the
\* window begins and whatever clean-ups and header look-ups come between.
THEOREM WindowBoundHolds == Spec => []WindowBound
  <1>1. ServiceInv => WindowBound
    <2> SUFFICES ASSUME LimiterInv, WindowsOK, NEW c \in Clients, NEW t \in {x.time : x \in admitted}
                 PROVE  Cardinality(InWindow(admitted, c, t)) <= Limit
      BY DEF ServiceInv, WindowBound, InWindow
    <2>1. t \in Nat
      BY DEF LimiterInv
    <2> QED BY <2>1 DEF WindowsOK
  <1> QED BY <1>1, ServiceInvariant, PTL

\* The limiter with its lazy pruning, periodic clean-up and forced clean-up
\* implements the sliding window over the whole history.
THEOREM LimiterImplementsWindow == Spec => DecidesAsSlidingWindow
  <1>1. Init => Abstract!SWInit
    <2> SUFFICES ASSUME Init PROVE Abstract!SWInit
      OBVIOUS
    <2>1. now = 0 /\ admitted = {} /\ decision = NoDecision
      BY DEF Init, LimiterInit
    <2>2. now \in Nat
      BY <2>1
    <2> QED BY <2>1, <2>2, Zenon DEF NoDecision, Abstract!SWInit
  <1> QED BY <1>1, ServiceInvariant, ServiceNext, PTL DEF Spec, DecidesAsSlidingWindow, Abstract!SWSpec
=============================================================================
