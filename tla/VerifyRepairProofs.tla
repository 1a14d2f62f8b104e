------------------------- MODULE VerifyRepairProofs -------------------------
(***************************************************************************)
(* Theorems about the verify/repair loop, for every policy, every list of  *)
(* adapters, every set of defects and every budget.                        *)
(***************************************************************************)
EXTENDS VerifyRepair, FiniteSetTheorems, WellFoundedInduction, TLAPS

-----------------------------------------------------------------------------
(* Evidence and the design it is bound to.                                 *)

\* Evidence built from findings is bound to the hash it was built with.
LEMMA FromFindingsHash ==
    ASSUME NEW hash, NEW findings
    PROVE  /\ from_findings(hash, findings).hash = hash
           /\ from_findings(hash, findings).findings = findings
BY DEF from_findings

\* Whatever a gate adapter does, what _run_gates keeps is bound to the design
\* the pass was made for.
LEMMA GateResultHash ==
    ASSUME NEW domain, NEW design, NEW outcome
    PROVE  GateResult(domain, design, outcome).hash = design
<1>1. gate_error(design).hash = design
  BY FromFindingsHash DEF gate_error
<1>2. AdapterEvidence(domain, design, outcome).hash = design
  <2> DEFINE flagged == from_findings(design, {Skip} \cup GateFindings(domain, design))
  <2>1. /\ from_findings(design, {Skip}).hash = design
        /\ from_findings(design, GateFindings(domain, design)).hash = design
    BY FromFindingsHash
  <2>2. [flagged EXCEPT !.blocks = FALSE, !.review = FALSE].hash = design
    BY DEF from_findings
  <2> QED
    BY <2>1, <2>2, FromFindingsHash DEF AdapterEvidence
<1> QED
  BY <1>1, <1>2 DEF GateResult

LEMMA RunGatesHash ==
    ASSUME NEW design, NEW outcome, NEW d \in Domains
    PROVE  run_gates(design, outcome)[d].hash = design
BY GateResultHash DEF run_gates

\* The evidence the loop holds is about the design it holds.
GatesBound ==
    /\ DOMAIN gates = Domains
    /\ pc # "initial" => \A d \in Domains : gates[d].hash = candidate

\* Replacing one gate by a repair error keeps the evidence bound.
LEMMA RepairErrorBound ==
    ASSUME GatesBound, pc = "repairing", RepairError
    PROVE  GatesBound'
<1> DEFINE E == replace_gate_with_repair_error(gates, FailureDomain(gates), candidate)
<1>1. gates' = E /\ candidate' = candidate
  BY DEF RepairError
<1>2. DOMAIN E = Domains
  BY DEF replace_gate_with_repair_error, GatesBound
<1>3. \A d \in Domains : E[d].hash = candidate
  BY FromFindingsHash DEF replace_gate_with_repair_error, GatesBound
<1> QED
  BY <1>1, <1>2, <1>3 DEF GatesBound

LEMMA BoundInit == Init => GatesBound
BY DEF Init, GatesBound

LEMMA BoundStep == GatesBound /\ [Next]_vars => GatesBound'
<1> SUFFICES ASSUME GatesBound, [Next]_vars PROVE GatesBound'
  OBVIOUS
<1>1. CASE RunInitialGates
  <2>1. PICK outcome \in GateOutcomes : gates' = run_gates(candidate, outcome)
    BY <1>1 DEF RunInitialGates
  <2>2. candidate' = candidate
    BY <1>1 DEF RunInitialGates
  <2>3. DOMAIN gates' = Domains
    BY <2>1 DEF run_gates
  <2> QED
    BY <2>1, <2>2, <2>3, RunGatesHash DEF GatesBound
<1>2. CASE Decide
  BY <1>2 DEF Decide, GatesBound
<1>3. CASE ApplyAdapter
  BY <1>3 DEF ApplyAdapter, GatesBound
<1>4. CASE AdapterRaises
  BY <1>4, RepairErrorBound DEF AdapterRaises
<1>5. CASE RejectUntyped
  BY <1>5, RepairErrorBound DEF RejectUntyped
<1>6. CASE FinishCycle
  <2>1. PICK outcome \in GateOutcomes : gates' = run_gates(working, outcome)
    BY <1>6 DEF FinishCycle
  <2>2. candidate' = working
    BY <1>6 DEF FinishCycle
  <2>3. DOMAIN gates' = Domains
    BY <2>1 DEF run_gates
  <2> QED
    BY <2>1, <2>2, <2>3, RunGatesHash DEF GatesBound
<1>7. CASE UNCHANGED vars
  BY <1>7 DEF vars, GatesBound
<1> QED
  BY <1>1, <1>2, <1>3, <1>4, <1>5, <1>6, <1>7 DEF Next

\* The final gates of every report are bound to the design that is returned
\* with it (_run_gates, _replace_gate_with_repair_error, _build_report).
THEOREM ReportIsBound == Spec => []ReportBindsResult
<1>1. GatesBound => ReportBindsResult
  BY DEF GatesBound, ReportBindsResult
<1> QED
  BY <1>1, BoundInit, BoundStep, PTL DEF Spec

-----------------------------------------------------------------------------
(* The chain of evidence.                                                  *)

\* A sequence of anything: the proofs never look at the type of an element.
IsSeq(s) == \E S : s \in Seq(S)

LEMMA AppendFacts ==
    ASSUME NEW s, NEW e, IsSeq(s)
    PROVE  /\ IsSeq(Append(s, e))
           /\ Len(s) \in Nat
           /\ Len(Append(s, e)) = Len(s) + 1
           /\ \A i \in 1 .. Len(s) : Append(s, e)[i] = s[i]
           /\ Append(s, e)[Len(s) + 1] = e
<1>1. PICK S : s \in Seq(S)
  BY DEF IsSeq
<1>2. s \in Seq(S \cup {e}) /\ e \in S \cup {e}
  BY <1>1
<1>3. Append(s, e) \in Seq(S \cup {e})
  BY <1>2
<1> QED
  BY <1>2, <1>3 DEF IsSeq

LEMMA ConcatFacts ==
    ASSUME NEW s, NEW t, IsSeq(s), IsSeq(t)
    PROVE  /\ IsSeq(s \o t)
           /\ Len(s) \in Nat /\ Len(t) \in Nat
           /\ DOMAIN s = 1 .. Len(s) /\ DOMAIN t = 1 .. Len(t)
           /\ DOMAIN (s \o t) = 1 .. Len(s) + Len(t)
           /\ \A k \in 1 .. Len(s) : (s \o t)[k] = s[k]
           /\ \A k \in 1 .. Len(t) : (s \o t)[Len(s) + k] = t[k]
           /\ \A k \in (Len(s) + 1) .. (Len(s) + Len(t)) : (s \o t)[k] = t[k - Len(s)]
<1>1. PICK S : s \in Seq(S)
  BY DEF IsSeq
<1>2. PICK T : t \in Seq(T)
  BY DEF IsSeq
<1>3. s \in Seq(S \cup T) /\ t \in Seq(S \cup T)
  BY <1>1, <1>2
<1>4. s \o t \in Seq(S \cup T)
  BY <1>3
<1> QED
  BY <1>3, <1>4 DEF IsSeq

\* Where the loop stands, the length of its history and the chain itself.
Position ==
    /\ pc \in {"initial", "decide", "repairing", "done"}
    /\ IsSeq(history) /\ IsSeq(repairs)
    /\ IsFiniteSet(applied)
    /\ pc = "initial" => history = <<>> /\ repairs = <<>> /\ candidate = initial
    /\ pc # "initial" => Len(history) > 0
    /\ pc \in {"decide", "repairing"} =>
          iteration \in Nat /\ iteration = Len(history) /\ iteration <= MaxIterations + 1
    /\ pc = "repairing" => iteration <= MaxIterations

\* EvidenceChain with the history known not to be empty.
Linked ==
    /\ history[1].hash = initial
    /\ history[Len(history)].hash = candidate

Covered ==
    \A i \in 1 .. Len(history) - 1 :
        history[i + 1].hash # history[i].hash =>
            \E k \in DOMAIN repairs : /\ repairs[k].iteration = i
                                      /\ repairs[k].before = history[i].hash
                                      /\ repairs[k].after = history[i + 1].hash

Backed ==
    \A k \in DOMAIN repairs :
        /\ repairs[k].iteration \in 1 .. Len(history) - 1
        /\ repairs[k].before = history[repairs[k].iteration].hash
        /\ repairs[k].after = history[repairs[k].iteration + 1].hash

ChainInv ==
    /\ Position
    /\ pc # "initial" => Linked
    /\ Covered
    /\ Backed
    /\ pc = "done" => used = Len(history) - 1

LEMMA EmptyIsSeq == IsSeq(<<>>)
BY <<>> \in Seq({}) DEF IsSeq

LEMMA ChainInit == Init => ChainInv
<1> SUFFICES ASSUME Init PROVE ChainInv
  OBVIOUS
<1>1. /\ history = <<>> /\ repairs = <<>> /\ applied = {}
      /\ pc = "initial" /\ candidate = initial
  BY DEF Init
<1>2. Position
  BY <1>1, EmptyIsSeq, FS_EmptySet DEF Position
<1>3. Covered /\ Backed
  BY <1>1 DEF Covered, Backed
<1> QED
  BY <1>1, <1>2, <1>3 DEF ChainInv

\* A cycle that changes nothing extends the history by an equal entry and
\* needs no evidence.
LEMMA ChainKeepsDesign ==
    ASSUME ChainInv, pc = "repairing", RepairError
    PROVE  ChainInv'
<1> USE DEF HistoryEntry
<1> DEFINE e == HistoryEntry(iteration, candidate, gates')
<1>1. /\ history' = Append(history, e) /\ e.hash = candidate
      /\ pc' = "done" /\ used' = iteration /\ applied' = applied
      /\ UNCHANGED <<initial, candidate, repairs, iteration>>
  BY DEF RepairError, Finish
<1>2. /\ IsSeq(history') /\ Len(history') = Len(history) + 1 /\ Len(history) \in Nat
      /\ \A i \in 1 .. Len(history) : history'[i] = history[i]
      /\ history'[Len(history) + 1] = e
  BY <1>1, AppendFacts DEF ChainInv, Position
<1>3. iteration = Len(history) /\ Len(history) > 0 /\ Linked /\ IsSeq(repairs)
  BY DEF ChainInv, Position
<1>4. Position'
  BY <1>1, <1>2, <1>3 DEF ChainInv, Position
<1>5. Linked'
  BY <1>1, <1>2, <1>3 DEF Linked
<1>6. Covered'
  <2> SUFFICES ASSUME NEW i \in 1 .. Len(history') - 1,
                      history'[i + 1].hash # history'[i].hash
               PROVE  \E k \in DOMAIN repairs' : /\ repairs'[k].iteration = i
                                                 /\ repairs'[k].before = history'[i].hash
                                                 /\ repairs'[k].after = history'[i + 1].hash
    BY DEF Covered
  <2>1. i # Len(history)
    BY <1>1, <1>2, <1>3 DEF Linked
  <2>2. i \in 1 .. Len(history) - 1 /\ i + 1 \in 1 .. Len(history) /\ i \in 1 .. Len(history)
    BY <1>2, <2>1
  <2>3. history'[i] = history[i] /\ history'[i + 1] = history[i + 1]
    BY <1>2, <2>2
  <2> QED
    BY <1>1, <2>2, <2>3 DEF ChainInv, Covered
<1>7. Backed'
  <2> SUFFICES ASSUME NEW k \in DOMAIN repairs
               PROVE  /\ repairs[k].iteration \in 1 .. Len(history') - 1
                      /\ repairs[k].before = history'[repairs[k].iteration].hash
                      /\ repairs[k].after = history'[repairs[k].iteration + 1].hash
    BY <1>1 DEF Backed
  <2> DEFINE i == repairs[k].iteration
  <2>1. /\ i \in 1 .. Len(history) - 1
        /\ repairs[k].before = history[i].hash
        /\ repairs[k].after = history[i + 1].hash
    BY DEF ChainInv, Backed
  <2>2. i \in 1 .. Len(history) /\ i + 1 \in 1 .. Len(history) /\ i \in 1 .. Len(history') - 1
    BY <1>2, <2>1
  <2> QED
    BY <1>2, <2>1, <2>2
<1> QED
  BY <1>1, <1>2, <1>3, <1>4, <1>5, <1>6, <1>7 DEF ChainInv

\* Evidence of a cycle: one entry for each application, all about this
\* iteration and its two designs, and at least one when there is any.
LEMMA CycleEvidenceFacts ==
    ASSUME NEW improved, IsFiniteSet(applied)
    PROVE  /\ IsSeq(CycleEvidence(improved))
           /\ Len(CycleEvidence(improved)) = Cardinality(applied)
           /\ Cardinality(applied) \in Nat
           /\ applied # {} => Cardinality(applied) >= 1
           /\ \A k \in 1 .. Cardinality(applied) :
                 /\ CycleEvidence(improved)[k].iteration = iteration
                 /\ CycleEvidence(improved)[k].before = candidate
                 /\ CycleEvidence(improved)[k].after = working
<1> DEFINE r == [iteration |-> iteration, before |-> candidate, after |-> working,
                 improved |-> improved]
           n == Cardinality(applied)
<1>1. n \in Nat /\ (applied # {} => n >= 1)
  BY FS_CardinalityType, FS_EmptySet
<1>2. CycleEvidence(improved) = [k \in 1 .. n |-> r]
  BY DEF CycleEvidence
<1>3. [k \in 1 .. n |-> r] \in Seq({r}) /\ Len([k \in 1 .. n |-> r]) = n
  BY <1>1
<1> QED
  BY <1>1, <1>2, <1>3 DEF IsSeq

LEMMA ChainFinishCycle ==
    ASSUME ChainInv, FinishCycle
    PROVE  ChainInv'
<1> DEFINE e == HistoryEntry(iteration, working, gates')
           ev == CycleEvidence(Improved(gates, gates'))
           n == Cardinality(applied)
<1>1. /\ pc = "repairing" /\ ~Untyped
      /\ history' = Append(history, e) /\ e.hash = working /\ repairs' = repairs \o ev
      /\ candidate' = working /\ initial' = initial /\ applied' = applied
  BY DEF FinishCycle, HistoryEntry
<1>2. \/ pc' = "done" /\ used' = iteration
      \/ pc' = "decide" /\ iteration' = iteration + 1
  BY DEF FinishCycle, Finish
<1>3. /\ iteration = Len(history) /\ Len(history) > 0 /\ Linked /\ iteration <= MaxIterations
      /\ IsSeq(history) /\ IsSeq(repairs) /\ IsFiniteSet(applied) /\ Covered /\ Backed
  BY <1>1 DEF ChainInv, Position
<1>4. /\ IsSeq(history') /\ Len(history') = Len(history) + 1 /\ Len(history) \in Nat
      /\ \A i \in 1 .. Len(history) : history'[i] = history[i]
      /\ history'[Len(history) + 1] = e
  BY <1>1, <1>3, AppendFacts
<1>5. /\ IsSeq(ev) /\ Len(ev) = n /\ n \in Nat /\ (applied # {} => n >= 1)
      /\ \A k \in 1 .. n : /\ ev[k].iteration = iteration /\ ev[k].before = candidate
                           /\ ev[k].after = working
  BY <1>3, CycleEvidenceFacts
<1> HIDE DEF e, ev, n
<1>6. /\ IsSeq(repairs') /\ Len(repairs) \in Nat /\ DOMAIN repairs = 1 .. Len(repairs)
      /\ DOMAIN repairs' = 1 .. Len(repairs) + n
      /\ \A k \in 1 .. Len(repairs) : repairs'[k] = repairs[k]
      /\ \A k \in 1 .. n : repairs'[Len(repairs) + k] = ev[k]
      /\ \A k \in (Len(repairs) + 1) .. (Len(repairs) + n) : repairs'[k] = ev[k - Len(repairs)]
  <2>1. IsSeq(repairs) /\ IsSeq(ev) /\ Len(ev) = n /\ repairs' = repairs \o ev
    BY <1>1, <1>3, <1>5
  <2>2. /\ IsSeq(repairs \o ev) /\ Len(repairs) \in Nat
        /\ DOMAIN repairs = 1 .. Len(repairs)
        /\ DOMAIN (repairs \o ev) = 1 .. Len(repairs) + Len(ev)
        /\ \A k \in 1 .. Len(repairs) : (repairs \o ev)[k] = repairs[k]
        /\ \A k \in 1 .. Len(ev) : (repairs \o ev)[Len(repairs) + k] = ev[k]
        /\ \A k \in (Len(repairs) + 1) .. (Len(repairs) + Len(ev)) :
              (repairs \o ev)[k] = ev[k - Len(repairs)]
    BY <2>1, ConcatFacts
  <2> QED
    BY <2>1, <2>2, Zenon
<1>7. Position'
  BY <1>1, <1>2, <1>3, <1>4, <1>6, PolicyAssumption DEF Position
<1>8. Linked'
  BY <1>1, <1>3, <1>4 DEF Linked
<1>9. Covered'
  <2> SUFFICES ASSUME NEW i \in 1 .. Len(history') - 1,
                      history'[i + 1].hash # history'[i].hash
               PROVE  \E k \in DOMAIN repairs' : /\ repairs'[k].iteration = i
                                                 /\ repairs'[k].before = history'[i].hash
                                                 /\ repairs'[k].after = history'[i + 1].hash
    BY DEF Covered
  <2>1. CASE i = Len(history)
    <3>1. history'[i].hash = candidate /\ history'[i + 1].hash = working
      BY <1>1, <1>3, <1>4, <2>1 DEF Linked
    <3>2. applied # {}
      BY <1>1, <3>1 DEF Untyped
    <3>3. Len(repairs) + 1 \in DOMAIN repairs' /\ repairs'[Len(repairs) + 1] = ev[1]
      BY <1>5, <1>6, <3>2
    <3> QED
      BY <1>3, <1>5, <2>1, <3>1, <3>2, <3>3
  <2>2. CASE i # Len(history)
    <3>1. i \in 1 .. Len(history) - 1 /\ i + 1 \in 1 .. Len(history) /\ i \in 1 .. Len(history)
      BY <1>4, <2>2
    <3>2. history'[i] = history[i] /\ history'[i + 1] = history[i + 1]
      BY <1>4, <3>1
    <3>3. PICK k \in DOMAIN repairs : /\ repairs[k].iteration = i
                                      /\ repairs[k].before = history[i].hash
                                      /\ repairs[k].after = history[i + 1].hash
      BY <1>3, <3>1, <3>2 DEF Covered
    <3> QED
      BY <1>5, <1>6, <3>2, <3>3
  <2> QED
    BY <2>1, <2>2
<1>10. Backed'
  <2> SUFFICES ASSUME NEW k \in DOMAIN repairs'
               PROVE  /\ repairs'[k].iteration \in 1 .. Len(history') - 1
                      /\ repairs'[k].before = history'[repairs'[k].iteration].hash
                      /\ repairs'[k].after = history'[repairs'[k].iteration + 1].hash
    BY DEF Backed
  <2>1. CASE k \in 1 .. Len(repairs)
    <3> DEFINE i == repairs[k].iteration
    <3>1. /\ i \in 1 .. Len(history) - 1
          /\ repairs[k].before = history[i].hash
          /\ repairs[k].after = history[i + 1].hash
      BY <1>3, <1>6, <2>1 DEF Backed
    <3>2. i \in 1 .. Len(history) /\ i + 1 \in 1 .. Len(history) /\ i \in 1 .. Len(history') - 1
      BY <1>4, <3>1
    <3> QED
      BY <1>4, <1>6, <2>1, <3>1, <3>2
  <2>2. CASE k \in (Len(repairs) + 1) .. (Len(repairs) + n)
    <3>1. k - Len(repairs) \in 1 .. n /\ repairs'[k] = ev[k - Len(repairs)]
      BY <1>5, <1>6, <2>2
    <3>2. /\ repairs'[k].iteration = Len(history) /\ repairs'[k].before = candidate
          /\ repairs'[k].after = working
      BY <1>3, <1>5, <3>1
    <3>3. history'[Len(history)].hash = candidate /\ history'[Len(history) + 1].hash = working
      BY <1>1, <1>3, <1>4 DEF Linked
    <3> QED
      BY <1>3, <1>4, <3>2, <3>3
  <2> QED
    BY <1>5, <1>6, <2>1, <2>2
<1> QED
  BY <1>1, <1>2, <1>3, <1>4, <1>7, <1>8, <1>9, <1>10 DEF ChainInv

LEMMA ChainStep == ChainInv /\ [Next]_vars => ChainInv'
<1> SUFFICES ASSUME ChainInv, [Next]_vars PROVE ChainInv'
  OBVIOUS
<1> USE DEF ChainInv
<1>1. CASE RunInitialGates
  <2> DEFINE e == HistoryEntry(0, candidate, gates')
  <2>1. /\ pc = "initial" /\ history' = <<e>> /\ e.hash = candidate /\ iteration' = 1
        /\ UNCHANGED <<initial, candidate, applied, repairs>>
        /\ (pc' = "done" /\ used' = 0) \/ pc' = "decide"
    BY <1>1 DEF RunInitialGates, Finish, HistoryEntry
  <2>2. IsSeq(<<e>>) /\ Len(<<e>>) = 1 /\ <<e>>[1] = e
    BY <<e>> \in Seq({e}) DEF IsSeq
  <2> HIDE DEF e
  <2>3. repairs = <<>> /\ candidate = initial /\ IsSeq(repairs) /\ IsFiniteSet(applied)
    BY <2>1 DEF Position
  <2>4. Position'
    BY <2>1, <2>2, <2>3, PolicyAssumption DEF Position
  <2>5. Linked' /\ Covered' /\ Backed'
    BY <2>1, <2>2, <2>3 DEF Linked, Covered, Backed
  <2> QED
    BY <2>1, <2>2, <2>4, <2>5
<1>2. CASE Decide
  <2>1. pc = "decide" /\ UNCHANGED <<initial, candidate, iteration, history, repairs>>
    BY <1>2 DEF Decide
  <2>2. applied' = applied \/ applied' = {}
    BY <1>2 DEF Decide
  <2>3. \/ pc' = "done" /\ iteration > MaxIterations /\ used' = MaxIterations
        \/ pc' = "done" /\ used' = iteration - 1
        \/ pc' = "repairing" /\ iteration <= MaxIterations
    BY <1>2 DEF Decide, Finish
  <2>4. Position'
    BY <2>1, <2>2, <2>3, FS_EmptySet DEF Position
  <2>5. pc' = "done" => used' = Len(history) - 1
    BY <2>1, <2>3, PolicyAssumption DEF Position
  <2> QED
    BY <2>1, <2>4, <2>5 DEF Linked, Covered, Backed
<1>3. CASE ApplyAdapter
  <2>1. UNCHANGED <<pc, initial, candidate, iteration, history, repairs, used>>
    BY <1>3 DEF ApplyAdapter
  <2>2. applied' = applied \/ applied' = applied \cup {adapter}
    BY <1>3 DEF ApplyAdapter
  <2>3. Position'
    BY <2>1, <2>2, FS_AddElement DEF Position
  <2> QED
    BY <2>1, <2>3 DEF Linked, Covered, Backed
<1>4. CASE AdapterRaises
  BY <1>4, ChainKeepsDesign DEF AdapterRaises
<1>5. CASE RejectUntyped
  BY <1>5, ChainKeepsDesign DEF RejectUntyped
<1>6. CASE FinishCycle
  BY <1>6, ChainFinishCycle
<1>7. CASE UNCHANGED vars
  BY <1>7 DEF vars, Position, Linked, Covered, Backed
<1> QED
  BY <1>1, <1>2, <1>3, <1>4, <1>5, <1>6, <1>7 DEF Next

\* The gate history is an unbroken chain from the design passed in to the one
\* returned, and exactly the changes along it have repair evidence, for every
\* budget and whatever the adapters do (_run_repair_cycle, _run_iterations).
THEOREM EvidenceIsComplete == Spec => []EvidenceChain
<1>1. ChainInv => EvidenceChain
  BY DEF ChainInv, Position, Linked, Covered, Backed, EvidenceChain
<1> QED
  BY <1>1, ChainInit, ChainStep, PTL DEF Spec

-----------------------------------------------------------------------------
(* What passing gates say about a design.                                  *)

LEMMA DomainsKnown == Domains \subseteq AllDomains
BY PolicyAssumption DEF Domains

\* The four tables of verdicts.
LEMMA ErcVerdictType == ASSUME NEW d PROVE ErcVerdict(d) \in {"blocked", "human", "warning"}
BY DEF ErcVerdict

LEMMA DrcVerdictType == ASSUME NEW d PROVE DrcVerdict(d) \in {"blocked", "human", "warning"}
BY DEF DrcVerdict

LEMMA DfmVerdictType == ASSUME NEW d PROVE DfmVerdict(d) \in {"blocked", "human", "warning"}
BY DEF DfmVerdict

LEMMA SimulationVerdictType ==
    ASSUME NEW d PROVE SimulationVerdict(d) \in {"blocked", "human", "warning"}
BY DEF SimulationVerdict

\* default_gate_adapters has one adapter for each domain.
LEMMA GateFindingsOf ==
    ASSUME NEW domain \in AllDomains, NEW design
    PROVE  \E found \in SUBSET design :
              GateFindings(domain, design) \in
                  {erc_gate(found), drc_gate(found), dfm_gate(found), simulation_gate(found),
                   supply_chain_gate(found), kicad_oracle_gate(found), proof_pack_gate(found)}
<1> DEFINE found == {d \in design : DomainOf[d] = domain}
<1>1. found \in SUBSET design
  OBVIOUS
<1>2. GateFindings(domain, design) \in
          {erc_gate(found), drc_gate(found), dfm_gate(found), simulation_gate(found),
           supply_chain_gate(found), kicad_oracle_gate(found), proof_pack_gate(found)}
  BY DEF GateFindings, AllDomains
<1> QED
  BY <1>1, <1>2

\* The adapters of the default registry find nothing worse than a blocking
\* failure and never answer "skipped" or "error" for a single finding.
LEMMA GateFindingVerdicts ==
    ASSUME NEW domain \in AllDomains, NEW design, NEW f \in GateFindings(domain, design)
    PROVE  f.verdict \in {"blocked", "human", "warning"}
<1> USE DEF Finding
<1>1. PICK found \in SUBSET design :
          GateFindings(domain, design) \in
              {erc_gate(found), drc_gate(found), dfm_gate(found), simulation_gate(found),
               supply_chain_gate(found), kicad_oracle_gate(found), proof_pack_gate(found)}
  BY GateFindingsOf
<1>2. CASE f \in erc_gate(found)
  BY <1>2, ErcVerdictType DEF erc_gate
<1>3. CASE f \in drc_gate(found)
  BY <1>3, DrcVerdictType DEF drc_gate
<1>4. CASE f \in dfm_gate(found)
  BY <1>4, DfmVerdictType DEF dfm_gate
<1>5. CASE f \in simulation_gate(found)
  BY <1>5, SimulationVerdictType DEF simulation_gate
<1>6. CASE f \in supply_chain_gate(found)
  BY <1>6 DEF supply_chain_gate
<1>7. CASE f \in kicad_oracle_gate(found)
  BY <1>7 DEF kicad_oracle_gate
<1>8. CASE f \in proof_pack_gate(found)
  BY <1>8 DEF proof_pack_gate
<1> QED
  BY <1>1, <1>2, <1>3, <1>4, <1>5, <1>6, <1>7, <1>8

\* What the verdict of a gate says about its findings.
LEMMA FromFindingsVerdict ==
    ASSUME NEW hash, NEW F
    PROVE  /\ (\E f \in F : f.verdict = "error") => from_findings(hash, F).verdict = "error"
           /\ ~from_findings(hash, F).blocks =>
                 /\ \A f \in F : f.verdict \notin Blocking
                 /\ from_findings(hash, F).verdict \in {"pass", "warning"}
           /\ ~from_findings(hash, F).review => \A f \in F : ~f.review
<1> DEFINE V == {f.verdict : f \in F}
<1>1. /\ "error" \in V => FromVerdicts(V) = "error"
      /\ FromVerdicts(V) \notin Blocking \cup {"skipped"} =>
            V \cap Blocking = {} /\ FromVerdicts(V) \in {"pass", "warning"}
  BY DEF FromVerdicts, Blocking
<1>2. /\ from_findings(hash, F).verdict = FromVerdicts(V)
      /\ from_findings(hash, F).blocks = (FromVerdicts(V) \in Blocking \cup {"skipped"})
      /\ from_findings(hash, F).review = (FromVerdicts(V) = "human" \/ \E f \in F : f.review)
  BY DEF from_findings
<1> HIDE DEF V
<1>3. \A f \in F : f.verdict \in V
  BY DEF V
<1> QED
  BY <1>1, <1>2, <1>3

\* One gate call ends in one of five ways: the adapter ran, ran but for a
\* part, ran but for a part and left the flags out, skipped, or failed.
Ran(domain, design) == from_findings(design, GateFindings(domain, design))
Partly(domain, design) == from_findings(design, {Skip} \cup GateFindings(domain, design))
Unflagged(domain, design) ==
    [Partly(domain, design) EXCEPT !.blocks = FALSE, !.review = FALSE]
Skipped(design) == from_findings(design, {Skip})

Answers(domain, design) ==
    {Ran(domain, design), Partly(domain, design), Unflagged(domain, design)}

LEMMA GateResultCases ==
    ASSUME NEW domain, NEW design, NEW outcome
    PROVE  GateResult(domain, design, outcome) \in
               {Skipped(design), gate_error(design)}
               \cup (IF domain \in configured THEN Answers(domain, design) ELSE {})
BY DEF GateResult, AdapterEvidence, Answers, Ran, Partly, Unflagged, Skipped

\* An adapter that answers keeps the findings of its engine.
LEMMA AnswerFindings ==
    ASSUME NEW domain, NEW design, NEW e \in Answers(domain, design)
    PROVE  /\ e.hash = design
           /\ GateFindings(domain, design) \subseteq e.findings
<1>1. CASE e = Ran(domain, design)
  BY <1>1, FromFindingsHash DEF Ran
<1>2. CASE e = Partly(domain, design)
  BY <1>2, FromFindingsHash DEF Partly
<1>3. CASE e = Unflagged(domain, design)
  <2>1. /\ Unflagged(domain, design).hash = Partly(domain, design).hash
        /\ Unflagged(domain, design).findings = Partly(domain, design).findings
    BY DEF Unflagged, Partly, from_findings
  <2> QED
    BY <1>3, <2>1, FromFindingsHash DEF Partly
<1> QED
  BY <1>1, <1>2, <1>3 DEF Answers

LEMMA GateErrorVerdict ==
    ASSUME NEW design
    PROVE  gate_error(design).verdict = "error" /\ gate_error(design).blocks
<1>1. Finding("gate-error", "error", "non", TRUE).verdict = "error"
  BY DEF Finding
<1>2. gate_error(design).verdict = "error"
  BY <1>1, FromFindingsVerdict DEF gate_error
<1> QED
  BY <1>2 DEF gate_error, from_findings, Blocking

LEMMA SkippedBlocks ==
    ASSUME NEW design
    PROVE  Skipped(design).blocks
<1> DEFINE F == {Skip}
<1>1. {f.verdict : f \in F} = {"skipped"}
  BY DEF Skip, Finding
<1>2. FromVerdicts({"skipped"}) = "skipped"
  BY DEF FromVerdicts
<1>3. Skipped(design).blocks = (FromVerdicts({f.verdict : f \in F}) \in Blocking \cup {"skipped"})
  BY DEF Skipped, from_findings
<1> QED
  BY <1>1, <1>2, <1>3

\* Every gate that lets a design pass ran on it and left nothing to repair;
\* where its evidence carries its flags, nothing blocks or needs a person.
Clean(g, design) ==
    /\ configured = Domains
    /\ \A domain \in Domains :
          /\ g[domain].hash = design
          /\ \A f \in GateFindings(domain, design) : f.repairability # "auto"
          /\ g[domain] = from_findings(design, g[domain].findings) =>
                /\ g[domain].verdict \in {"pass", "warning"}
                /\ \A f \in GateFindings(domain, design) : f.verdict = "warning" /\ ~f.review

LEMMA PassingIsClean ==
    ASSUME NEW design, NEW outcome, configured \subseteq Domains,
           all_gates_pass(run_gates(design, outcome))
    PROVE  Clean(run_gates(design, outcome), design)
<1> DEFINE g == run_gates(design, outcome)
<1>1. ASSUME NEW domain \in Domains
      PROVE  /\ domain \in configured
             /\ g[domain].hash = design
             /\ \A f \in GateFindings(domain, design) : f.repairability # "auto"
             /\ g[domain] = from_findings(design, g[domain].findings) =>
                   /\ g[domain].verdict \in {"pass", "warning"}
                   /\ \A f \in GateFindings(domain, design) : f.verdict = "warning" /\ ~f.review
  <2>1. g[domain] = GateResult(domain, design, outcome[domain])
    BY DEF run_gates
  <2>2. /\ ~g[domain].blocks /\ ~g[domain].review
        /\ \A x \in AllFindings(g) : x.finding.repairability # "auto"
    BY DEF all_gates_pass
  <2> HIDE DEF g
  <2>3. domain \in configured /\ g[domain] \in Answers(domain, design)
    BY <2>1, <2>2, GateResultCases, GateErrorVerdict, SkippedBlocks
  <2>4. g[domain].hash = design /\ GateFindings(domain, design) \subseteq g[domain].findings
    BY <2>3, AnswerFindings
  <2>5. \A f \in GateFindings(domain, design) : f.repairability # "auto"
    <3> SUFFICES ASSUME NEW f \in GateFindings(domain, design) PROVE f.repairability # "auto"
      OBVIOUS
    <3>1. [domain |-> domain, finding |-> f] \in AllFindings(g)
      BY <2>4 DEF AllFindings
    <3> QED
      BY <2>2, <3>1
  <2>6. ASSUME g[domain] = from_findings(design, g[domain].findings)
        PROVE  /\ g[domain].verdict \in {"pass", "warning"}
               /\ \A f \in GateFindings(domain, design) : f.verdict = "warning" /\ ~f.review
    <3> DEFINE F == g[domain].findings
    <3>1. ~from_findings(design, F).blocks /\ ~from_findings(design, F).review
      BY <2>2, <2>6
    <3>2. /\ from_findings(design, F).verdict \in {"pass", "warning"}
          /\ \A f \in F : f.verdict \notin Blocking /\ ~f.review
      BY <3>1, FromFindingsVerdict
    <3>3. \A f \in GateFindings(domain, design) : f.verdict = "warning"
      BY <2>4, <3>2, GateFindingVerdicts, DomainsKnown DEF Blocking
    <3> QED
      BY <2>4, <2>6, <3>2, <3>3
  <2> QED
    BY <2>3, <2>4, <2>5, <2>6
<1> QED
  BY <1>1 DEF Clean

-----------------------------------------------------------------------------
(* Convergence.  The gates that justify the stop reason are those of the   *)
(* last pass, and the run ends with that pass.                             *)

LEMMA TerminalReasons ==
    ASSUME NEW g
    PROVE  terminal_reason_before_repair(g) # "all-gates-passed"
BY DEF terminal_reason_before_repair

\* A cycle stops as converged only on gates that all pass.
LEMMA CycleConverges ==
    ASSUME NEW before, NEW after, cycle_stop_reason(before, after) = "all-gates-passed"
    PROVE  all_gates_pass(after)
BY DEF cycle_stop_reason

CleanInv ==
    /\ configured \subseteq Domains
    /\ pc # "done" => stop = ""
    /\ stop = "all-gates-passed" => Clean(gates, candidate)

LEMMA CleanInit == Init => CleanInv
BY DEF Init, CleanInv

LEMMA CleanStep == CleanInv /\ [Next]_vars => CleanInv'
<1> SUFFICES ASSUME CleanInv, [Next]_vars PROVE CleanInv'
  OBVIOUS
<1>0. /\ configured \subseteq Domains
      /\ pc # "done" => stop = ""
      /\ stop = "all-gates-passed" => Clean(gates, candidate)
  BY DEF CleanInv
<1>1. CASE RunInitialGates
  <2>1. PICK outcome \in GateOutcomes : gates' = run_gates(candidate, outcome)
    BY <1>1 DEF RunInitialGates
  <2>2. /\ configured' = configured /\ candidate' = candidate /\ pc = "initial"
        /\ \/ all_gates_pass(gates') /\ pc' = "done"
           \/ pc' = "decide" /\ stop' = stop
    BY <1>1 DEF RunInitialGates, Finish
  <2>3. CASE all_gates_pass(gates') /\ pc' = "done"
    <3>1. Clean(run_gates(candidate, outcome), candidate)
      BY <1>0, <2>1, <2>3, PassingIsClean
    <3>2. Clean(gates, candidate)'
      BY <2>1, <2>2, <3>1 DEF Clean
    <3> QED
      BY <1>0, <2>2, <2>3, <3>2 DEF CleanInv
  <2>4. CASE pc' = "decide" /\ stop' = stop
    BY <1>0, <2>2, <2>4 DEF CleanInv
  <2> QED
    BY <2>2, <2>3, <2>4
<1>2. CASE Decide
  <2>1. /\ configured' = configured /\ stop = ""
        /\ \/ pc' = "done" /\ stop' = "iteration-budget-exhausted"
           \/ pc' = "done" /\ stop' = terminal_reason_before_repair(gates)
           \/ stop' = stop
    BY <1>0, <1>2 DEF Decide, Finish
  <2> QED
    BY <1>0, <2>1, TerminalReasons DEF CleanInv
<1>3. CASE ApplyAdapter
  BY <1>0, <1>3 DEF ApplyAdapter, CleanInv
<1>4. CASE AdapterRaises \/ RejectUntyped
  BY <1>0, <1>4 DEF AdapterRaises, RejectUntyped, RepairError, Finish, CleanInv
<1>5. CASE FinishCycle
  <2>1. PICK outcome \in GateOutcomes : gates' = run_gates(working, outcome)
    BY <1>5 DEF FinishCycle
  <2>2. /\ configured' = configured /\ candidate' = working /\ stop = ""
        /\ \/ pc' = "done" /\ stop' = cycle_stop_reason(gates, gates')
           \/ stop' = stop
    BY <1>0, <1>5 DEF FinishCycle, Finish
  <2>3. CASE stop' = "all-gates-passed"
    <3>1. pc' = "done" /\ all_gates_pass(gates')
      BY <2>2, <2>3, CycleConverges
    <3>2. Clean(run_gates(working, outcome), working)
      BY <1>0, <2>1, <3>1, PassingIsClean
    <3>3. Clean(gates, candidate)'
      BY <2>1, <2>2, <3>2 DEF Clean
    <3> QED
      BY <1>0, <2>2, <3>1, <3>3 DEF CleanInv
  <2>4. CASE stop' # "all-gates-passed"
    BY <1>0, <1>5, <2>2, <2>4 DEF FinishCycle, Finish, CleanInv
  <2> QED
    BY <2>3, <2>4
<1>6. CASE UNCHANGED vars
  BY <1>0, <1>6 DEF vars, CleanInv, Clean
<1> QED
  BY <1>1, <1>2, <1>3, <1>4, <1>5, <1>6 DEF Next

\* A run that reports "all-gates-passed" returns a design on which every
\* enabled domain's own gate ran and found nothing that could still be
\* repaired and, unless the adapter left the flags of its evidence out,
\* nothing that blocks or asks for a person (_all_gates_pass).
THEOREM ConvergenceIsEarned == Spec => []ConvergedIsClean
<1>1. CleanInv => ConvergedIsClean
  BY DEF CleanInv, Clean, ConvergedIsClean
<1> QED
  BY CleanInit, CleanStep, <1>1, PTL DEF Spec

-----------------------------------------------------------------------------
(* Types and the budget.                                                   *)

\* What the policy check leaves of max_iterations: a positive number.
LEMMA PolicyTypes ==
    /\ MaxIterations \in Nat /\ MaxIterations >= 1
    /\ Len(Adapters) \in Nat
    /\ Len(EnabledDomains) \in Nat /\ Len(EnabledDomains) >= 1
<1>1. /\ MaxIterations \in 1 .. 16 /\ EnabledDomains \in Seq(AllDomains) /\ EnabledDomains # <<>>
      /\ Adapters \in Seq({"registry", "custom"})
  BY PolicyAssumption
<1> QED
  BY <1>1

\* _terminal_reason_before_repair names a stop reason, or none.
LEMMA TerminalTypes ==
    ASSUME NEW g
    PROVE  terminal_reason_before_repair(g) \in
               {"", "gate-execution-error", "non-repairable", "human-review-required"}
BY DEF terminal_reason_before_repair

\* _cycle_stop_reason names a stop reason, or none.
LEMMA CycleTypes ==
    ASSUME NEW before, NEW after
    PROVE  cycle_stop_reason(before, after) \in {"", "all-gates-passed", "no-progress"}
BY DEF cycle_stop_reason

\* A repair leaves a design behind.
LEMMA RepairsAreDesigns ==
    ASSUME NEW design \in Designs
    PROVE  Edited(design) \subseteq Designs /\ RegistryResults(design) \subseteq Designs
BY DEF Edited, RegistryResults

\* The types of the design variables and of the adapter list, which no proof
\* about the history needs.
LEMMA DesignTypes ==
    ASSUME TypeOK, [Next]_vars
    PROVE  /\ {initial, candidate, working}' \subseteq Designs
           /\ configured' \subseteq Domains
           /\ adapter' \in 1 .. Len(Adapters) + 1
           /\ applied' \subseteq 1 .. Len(Adapters)
<1>0. /\ initial \in Designs /\ candidate \in Designs /\ working \in Designs
      /\ configured \subseteq Domains
      /\ adapter \in 1 .. Len(Adapters) + 1 /\ applied \subseteq 1 .. Len(Adapters)
      /\ Len(Adapters) \in Nat
  BY PolicyTypes DEF TypeOK
<1>1. CASE RunInitialGates
  BY <1>0, <1>1 DEF RunInitialGates
<1>2. CASE Decide
  <2>1. /\ UNCHANGED <<initial, configured, candidate>>
        /\ \/ UNCHANGED <<working, adapter, applied>>
           \/ working' = candidate /\ adapter' = 1 /\ applied' = {}
    BY <1>2 DEF Decide
  <2>2. 1 \in 1 .. Len(Adapters) + 1
    BY <1>0
  <2>3. adapter' \in 1 .. Len(Adapters) + 1 /\ applied' \subseteq 1 .. Len(Adapters)
    BY <1>0, <2>1, <2>2
  <2>4. working' \in Designs
    BY <1>0, <2>1
  <2> QED
    BY <1>0, <2>1, <2>3, <2>4
<1>3. CASE ApplyAdapter
  <2>1. /\ UNCHANGED <<initial, configured, candidate>>
        /\ adapter <= Len(Adapters) /\ adapter' = adapter + 1
        /\ applied' = applied \/ applied' = applied \cup {adapter}
        /\ working' \in {working} \cup RegistryResults(working) \cup Edited(working)
    BY <1>3 DEF ApplyAdapter
  <2>2. adapter' \in 1 .. Len(Adapters) + 1 /\ adapter \in 1 .. Len(Adapters)
    BY <1>0, <2>1
  <2>3. applied' \subseteq 1 .. Len(Adapters)
    BY <1>0, <2>1, <2>2
  <2>4. working' \in Designs
    BY <1>0, <2>1, RepairsAreDesigns
  <2> QED
    BY <1>0, <2>1, <2>2, <2>3, <2>4
<1>4. CASE AdapterRaises \/ RejectUntyped
  BY <1>0, <1>4 DEF AdapterRaises, RejectUntyped, RepairError
<1>5. CASE FinishCycle
  BY <1>0, <1>5 DEF FinishCycle
<1>6. CASE UNCHANGED vars
  BY <1>0, <1>6 DEF vars
<1> QED
  BY <1>1, <1>2, <1>3, <1>4, <1>5, <1>6 DEF Next

\* The budget and the stop reason.
BudgetOK ==
    /\ iteration \in 0 .. MaxIterations + 1
    /\ Len(history) <= MaxIterations + 1
    /\ used \in 0 .. MaxIterations
    /\ stop \in StopReasons \cup {""}
    /\ stop = "" <=> pc # "done"

\* The budget invariant from its parts, when the run has gone on or has ended.
LEMMA BudgetFrom ==
    ASSUME iteration' \in 0 .. MaxIterations + 1, Len(history') <= MaxIterations + 1,
           used' \in 0 .. MaxIterations, stop' \in StopReasons \cup {""},
           stop' = "" <=> pc' # "done"
    PROVE  BudgetOK'
BY DEF BudgetOK

\* The early return on a raised or untyped repair keeps the budget.
LEMMA BudgetRepairError ==
    ASSUME BudgetOK, ChainInv, pc = "repairing", RepairError
    PROVE  BudgetOK'
<1>1. /\ Len(history) \in Nat /\ iteration = Len(history) /\ Len(history) > 0
      /\ iteration <= MaxIterations /\ IsSeq(history) /\ MaxIterations \in Nat
  BY AppendFacts, PolicyTypes DEF ChainInv, Position
<1>2. /\ Len(history') = Len(history) + 1 /\ iteration' = iteration
      /\ stop' = "repair-execution-error" /\ used' = iteration /\ pc' = "done"
  BY <1>1, AppendFacts DEF RepairError, Finish
<1>3. iteration' \in 0 .. MaxIterations + 1 /\ Len(history') <= MaxIterations + 1
  BY <1>1, <1>2
<1>4. used' \in 0 .. MaxIterations
  BY <1>1, <1>2
<1>5. stop' \in StopReasons
  BY <1>2 DEF StopReasons
<1>6. stop' = "" <=> pc' # "done"
  BY <1>2
<1> QED
  BY <1>3, <1>4, <1>5, <1>6 DEF BudgetOK

\* Every step of the loop keeps the iteration budget.
LEMMA BudgetStep ==
    ASSUME BudgetOK, ChainInv, [Next]_vars
    PROVE  BudgetOK'
<1>0. /\ MaxIterations \in Nat /\ MaxIterations >= 1 /\ Len(history) \in Nat
      /\ IsSeq(history)
      /\ pc \in {"decide", "repairing"} =>
            iteration = Len(history) /\ Len(history) > 0 /\ iteration <= MaxIterations + 1
      /\ pc = "repairing" => iteration <= MaxIterations
  BY AppendFacts, PolicyTypes DEF ChainInv, Position
<1>1. CASE RunInitialGates
  <2>1. /\ Len(history') = 1 /\ iteration' = 1
        /\ \/ stop' = "all-gates-passed" /\ used' = 0 /\ pc' = "done"
           \/ pc' = "decide" /\ UNCHANGED <<stop, used>>
        /\ pc = "initial"
    BY <1>1 DEF RunInitialGates, Finish
  <2>2. iteration' \in 0 .. MaxIterations + 1 /\ Len(history') <= MaxIterations + 1
    BY <1>0, <2>1
  <2>3. used' \in 0 .. MaxIterations
    <3>1. used' = 0 \/ used' = used
      BY <2>1
    <3>2. used \in 0 .. MaxIterations
      BY DEF BudgetOK
    <3>3. 0 \in 0 .. MaxIterations
      BY PolicyTypes
    <3> QED
      BY <3>1, <3>2, <3>3
  <2>4. stop' \in StopReasons \cup {""} /\ (stop' = "" <=> pc' # "done")
    BY <2>1 DEF BudgetOK, StopReasons
  <2> QED
    BY <2>2, <2>3, <2>4, BudgetFrom
<1>2. CASE Decide
  <2>1. /\ pc = "decide" /\ UNCHANGED <<iteration, history>>
        /\ \/ stop' = "iteration-budget-exhausted" /\ used' = MaxIterations /\ pc' = "done"
           \/ /\ terminal_reason_before_repair(gates) # "" /\ iteration <= MaxIterations
              /\ stop' = terminal_reason_before_repair(gates) /\ used' = iteration - 1
              /\ pc' = "done"
           \/ pc' = "repairing" /\ UNCHANGED <<stop, used>>
    BY <1>2 DEF Decide, Finish
  <2>2. CASE stop' = "iteration-budget-exhausted" /\ used' = MaxIterations /\ pc' = "done"
    <3>1. used' \in 0 .. MaxIterations
      BY <1>0, <2>2
    <3>2. stop' \in StopReasons \cup {""} /\ (stop' = "" <=> pc' # "done")
      BY <2>2 DEF StopReasons
    <3>3. iteration' \in 0 .. MaxIterations + 1 /\ Len(history') <= MaxIterations + 1
      BY <2>1 DEF BudgetOK
    <3> QED
      BY <3>1, <3>2, <3>3, BudgetFrom
  <2>3. CASE /\ terminal_reason_before_repair(gates) # "" /\ iteration <= MaxIterations
             /\ stop' = terminal_reason_before_repair(gates) /\ used' = iteration - 1
             /\ pc' = "done"
    <3>1. stop' \in StopReasons /\ stop' # ""
      BY <2>3, TerminalTypes DEF StopReasons
    <3>0. pc \in {"decide", "repairing"}
      BY <2>1
    <3>5. iteration = Len(history) /\ Len(history) \in Nat /\ Len(history) > 0
      BY <1>0, <3>0
    <3>4. iteration \in Nat /\ iteration >= 1
      BY <3>5
    <3>2. used' \in 0 .. MaxIterations
      <4>1. used' = iteration - 1 /\ iteration <= MaxIterations
        BY <2>3
      <4> QED
        BY <1>0, <3>4, <4>1
    <3>3. iteration' \in 0 .. MaxIterations + 1 /\ Len(history') <= MaxIterations + 1
      BY <2>1 DEF BudgetOK
    <3> QED
      BY <2>3, <3>1, <3>2, <3>3, BudgetFrom
  <2>4. CASE pc' = "repairing" /\ UNCHANGED <<stop, used>>
    BY <2>1, <2>4 DEF BudgetOK
  <2> QED
    BY <2>1, <2>2, <2>3, <2>4
<1>3. CASE ApplyAdapter
  BY <1>3 DEF ApplyAdapter, BudgetOK
<1>4. CASE AdapterRaises \/ RejectUntyped
  BY <1>4, BudgetRepairError DEF AdapterRaises, RejectUntyped
<1>5. CASE FinishCycle
  <2> DEFINE reason == cycle_stop_reason(gates, gates')
  <2>1. /\ pc = "repairing" /\ Len(history') = Len(history) + 1
        /\ \/ /\ reason # "" /\ stop' = reason /\ used' = iteration /\ pc' = "done"
              /\ iteration' = iteration
           \/ pc' = "decide" /\ iteration' = iteration + 1 /\ UNCHANGED <<stop, used>>
    BY <1>0, <1>5, AppendFacts DEF FinishCycle, Finish
  <2>2. reason # "" => reason \in StopReasons
    BY CycleTypes DEF StopReasons
  <2> HIDE DEF reason
  <2>a. /\ iteration \in Nat /\ iteration <= MaxIterations /\ MaxIterations \in Nat
        /\ Len(history') = iteration + 1
    BY <1>0, <2>1
  <2>b. /\ iteration' = iteration \/ iteration' = iteration + 1
        /\ used' = iteration \/ used' = used
    BY <2>1
  <2>3. iteration' \in 0 .. MaxIterations + 1 /\ Len(history') <= MaxIterations + 1
    BY <2>a, <2>b
  <2>4. used' \in 0 .. MaxIterations
    <3>1. used \in 0 .. MaxIterations
      BY DEF BudgetOK
    <3> QED
      BY <2>a, <2>b, <3>1
  <2>5. stop' \in StopReasons \cup {""} /\ (stop' = "" <=> pc' # "done")
    BY <2>1, <2>2 DEF BudgetOK
  <2> QED
    BY <2>3, <2>4, <2>5, BudgetFrom
<1>6. CASE UNCHANGED vars
  BY <1>6 DEF vars, BudgetOK
<1> QED
  BY <1>1, <1>2, <1>3, <1>4, <1>5, <1>6 DEF Next

\* The first state of a run is well typed.
LEMMA TypesInit == Init => TypeOK
<1> SUFFICES ASSUME Init PROVE TypeOK
  OBVIOUS
<1>1. /\ pc = "initial" /\ initial \in Designs /\ candidate = initial /\ working = initial
      /\ configured \in {Domains} \cup {Domains \ {d} : d \in Domains}
      /\ gates = [d \in Domains |-> from_findings(initial, {})]
      /\ iteration = 0 /\ adapter = 1 /\ applied = {} /\ history = <<>>
      /\ used = 0 /\ stop = ""
  BY DEF Init
<1>2. configured \subseteq Domains /\ DOMAIN gates = Domains
  BY <1>1
<1>3. Len(history) = 0 /\ MaxIterations \in Nat /\ Len(Adapters) \in Nat
  BY <1>1, PolicyTypes
<1>4. /\ iteration \in 0 .. MaxIterations + 1 /\ used \in 0 .. MaxIterations
      /\ Len(history) <= MaxIterations + 1
      /\ adapter \in 1 .. Len(Adapters) + 1 /\ applied \subseteq 1 .. Len(Adapters)
  <2>1. iteration = 0 /\ used = 0 /\ adapter = 1 /\ applied = {}
    BY <1>1
  <2> QED
    BY <2>1, <1>3
<1>5. (stop = "") = (pc # "done")
  BY <1>1
<1> QED
  BY <1>1, <1>2, <1>4, <1>5 DEF TypeOK

\* Every step of the loop keeps the types.
LEMMA TypesStep ==
    ASSUME TypeOK, GatesBound, ChainInv, [Next]_vars
    PROVE  TypeOK'
<1>1. BudgetOK
  BY DEF TypeOK, BudgetOK
<1>2. BudgetOK'
  BY <1>1, BudgetStep
<1>3. (DOMAIN gates = Domains)'
  BY BoundStep DEF GatesBound
<1>4. pc' \in {"initial", "decide", "repairing", "done"}
  BY ChainStep DEF ChainInv, Position
<1>5. (stop' = "") = (pc' # "done")
  BY <1>2 DEF BudgetOK
<1> QED
  BY <1>2, <1>3, <1>4, <1>5, DesignTypes DEF TypeOK, BudgetOK

\* The loop's state keeps its types, and the iteration budget of the policy
\* caps the iterations used and the passes recorded (_run_iterations), for
\* every budget and whatever the adapters do.
THEOREM LoopTypes == Spec => []TypeOK
<1>1. TypeOK /\ GatesBound /\ ChainInv /\ [Next]_vars => (TypeOK /\ GatesBound /\ ChainInv)'
  BY TypesStep, BoundStep, ChainStep
<1> QED
  BY <1>1, TypesInit, BoundInit, ChainInit, PTL DEF Spec

-----------------------------------------------------------------------------
(* A failed cycle.                                                         *)

\* Before a repair every gate has run on the design or skipped it: a gate
\* that failed has stopped the loop.
Judged ==
    /\ pc \in {"decide", "repairing"} =>
          \A d \in Domains :
              gates[d] \in Answers(d, candidate) \cup {Skipped(candidate), gate_error(candidate)}
    /\ pc = "repairing" => \A d \in Domains : gates[d].verdict # "error"

\* The domain whose gate is replaced is an enabled one.
LEMMA FailureDomainEnabled ==
    ASSUME NEW g
    PROVE  FailureDomain(g) \in Domains
<1> DEFINE failing == {i \in 1 .. Len(EnabledDomains) :
                          \E x \in active_failures(g) : x.domain = EnabledDomains[i]}
<1>1. Len(EnabledDomains) \in Nat /\ Len(EnabledDomains) >= 1
  BY PolicyTypes
<1>2. CASE failing = {}
  BY <1>1, <1>2 DEF FailureDomain, Domains
<1>3. CASE failing # {}
  <2> DEFINE m == CHOOSE i \in failing : \A j \in failing : i <= j
  <2>1. failing \in SUBSET Nat
    OBVIOUS
  <2>2. FailureDomain(g) = EnabledDomains[m]
    BY <1>3 DEF FailureDomain
  <2>3. m \in failing
    <3> HIDE DEF failing
    <3>1. PICK k \in failing : \A y \in failing : ~ (<< y, k >> \in OpToRel(<, Nat))
      BY <1>3, <2>1, NatLessThanWellFounded, WFMin, Zenon
    <3>2. \A y \in failing : ~(y < k)
      BY <2>1, <3>1 DEF OpToRel
    <3>3. \A y \in failing : k <= y
      BY <2>1, <3>2
    <3> QED
      BY <3>3
  <2> HIDE DEF m
  <2>4. m \in 1 .. Len(EnabledDomains)
    BY <2>3
  <2> QED
    BY <2>2, <2>4 DEF Domains
<1> QED
  BY <1>2, <1>3

\* The findings of the replaced gate are kept and the error is added.
LEMMA ErrorIsAdded ==
    ASSUME GatesBound, Judged, pc = "repairing", RepairError
    PROVE  /\ \A d \in Domains : gates[d].findings \subseteq gates'[d].findings
           /\ \E d \in Domains : gates'[d].verdict = "error"
           /\ \A d \in Domains : gates[d] \in Answers(d, candidate) \cup {Skipped(candidate)}
<1> DEFINE bad == FailureDomain(gates)
           err == Finding("repair-error", "error", "non", TRUE)
           F == gates[bad].findings \cup {err}
<1>1. bad \in Domains /\ DOMAIN gates = Domains
  BY FailureDomainEnabled DEF GatesBound
<1>2. gates' = [gates EXCEPT ![bad] = from_findings(candidate, F)]
  BY DEF RepairError, replace_gate_with_repair_error
<1>3. err.verdict = "error"
  BY DEF Finding
<1> HIDE DEF bad, err
<1>4. from_findings(candidate, F).findings = F /\ from_findings(candidate, F).verdict = "error"
  BY <1>3, FromFindingsHash, FromFindingsVerdict
<1>5. gates'[bad] = from_findings(candidate, F) /\ \A d \in Domains : d # bad => gates'[d] = gates[d]
  BY <1>1, <1>2
<1>6. \A d \in Domains : gates[d] \in Answers(d, candidate) \cup {Skipped(candidate)}
  BY GateErrorVerdict DEF Judged
<1> QED
  BY <1>1, <1>4, <1>5, <1>6

\* The findings of a skipped gate are its one skip finding.
LEMMA SkippedFinding ==
    ASSUME NEW design
    PROVE  \E f \in Skipped(design).findings : f.id = "skip"
<1>1. Skipped(design).findings = {Skip}
  BY FromFindingsHash DEF Skipped
<1>2. Skip.id = "skip"
  BY DEF Skip, Finding
<1> QED
  BY <1>1, <1>2

\* The early return of an attempt that raised or came back untyped leaves the
\* design, the domain findings and the history as AttemptDiscarded says.
LEMMA AttemptEnds ==
    ASSUME GatesBound, Judged, ChainInv, pc = "repairing", RepairError
    PROVE  AttemptDiscarded'
<1>1. /\ Len(history) \in Nat /\ Len(history) > 0
      /\ IsSeq(history) /\ history[Len(history)].hash = candidate
  BY AppendFacts DEF ChainInv, Position, Linked
<1>2. history' = Append(history, HistoryEntry(iteration, candidate, gates')) /\ candidate' = candidate
  BY DEF RepairError
<1>3. Len(history') = Len(history) + 1 /\ history'[Len(history)] = history[Len(history)]
  BY <1>1, <1>2, AppendFacts
<1>4. candidate' = history'[Len(history') - 1].hash
  <2>1. Len(history') - 1 = Len(history)
    BY <1>1, <1>3
  <2> QED
    BY <1>1, <1>2, <1>3, <2>1
<1>5. ASSUME NEW d \in Domains
      PROVE  \/ GateFindings(d, candidate) \subseteq gates'[d].findings
             \/ \E f \in gates'[d].findings : f.id = "skip"
  <2>1. gates[d].findings \subseteq gates'[d].findings
    BY ErrorIsAdded
  <2>2. CASE gates[d] \in Answers(d, candidate)
    BY <2>1, <2>2, AnswerFindings
  <2>3. CASE gates[d] = Skipped(candidate)
    BY <2>1, <2>3, SkippedFinding
  <2> QED
    BY <2>2, <2>3, ErrorIsAdded
<1>6. \E d \in Domains : gates'[d].verdict = "error"
  BY ErrorIsAdded
<1> QED
  BY <1>2, <1>4, <1>5, <1>6 DEF AttemptDiscarded

\* One pass over the gates leaves them judged.
LEMMA PassJudges ==
    ASSUME NEW design, NEW outcome, NEW d \in Domains
    PROVE  run_gates(design, outcome)[d] \in
               Answers(d, design) \cup {Skipped(design), gate_error(design)}
BY GateResultCases DEF run_gates

\* The inductive invariant behind AttemptDiscarded.
DiscardInv ==
    /\ Judged
    /\ pc # "done" => stop = ""
    /\ AttemptDiscarded

\* A fresh run has discarded nothing.
LEMMA DiscardInit == Init => DiscardInv
BY DEF Init, DiscardInv, Judged, AttemptDiscarded

\* Every step of the loop keeps what AttemptDiscarded needs.
LEMMA DiscardStep ==
    ASSUME DiscardInv, GatesBound, ChainInv, [Next]_vars
    PROVE  DiscardInv'
<1>0. Judged /\ (pc # "done" => stop = "") /\ AttemptDiscarded
  BY DEF DiscardInv
<1>r. ASSUME pc = "repairing", RepairError PROVE DiscardInv'
  <2>1. AttemptDiscarded'
    BY <1>0, <1>r, AttemptEnds
  <2>2. pc' = "done"
    BY <1>r DEF RepairError, Finish
  <2> QED
    BY <2>1, <2>2 DEF DiscardInv, Judged
<1>q. ASSUME stop' # "repair-execution-error", Judged', pc' # "done" => stop' = ""
      PROVE  DiscardInv'
  BY <1>q DEF DiscardInv, AttemptDiscarded
<1>1. CASE RunInitialGates
  <2>1. PICK outcome \in GateOutcomes : gates' = run_gates(candidate, outcome)
    BY <1>1 DEF RunInitialGates
  <2>2. /\ candidate' = candidate /\ pc = "initial"
        /\ \/ stop' = "all-gates-passed" /\ pc' = "done"
           \/ pc' = "decide" /\ stop' = stop
    BY <1>1 DEF RunInitialGates, Finish
  <2>3. \A d \in Domains :
            gates'[d] \in Answers(d, candidate) \cup {Skipped(candidate), gate_error(candidate)}
    BY <2>1, PassJudges
  <2>4. Judged'
    BY <2>2, <2>3 DEF Judged, Answers, Ran, Partly, Unflagged, Skipped, gate_error, from_findings
  <2> QED
    BY <1>0, <1>q, <2>2, <2>4
<1>2. CASE Decide
  <2>1. /\ pc = "decide" /\ UNCHANGED <<candidate, gates>>
        /\ \/ pc' = "done" /\ stop' = "iteration-budget-exhausted"
           \/ pc' = "done" /\ stop' = terminal_reason_before_repair(gates)
           \/ /\ pc' = "repairing" /\ stop' = stop
              /\ terminal_reason_before_repair(gates) = ""
    BY <1>2 DEF Decide, Finish
  <2>2. terminal_reason_before_repair(gates) = "" => \A d \in Domains : gates[d].verdict # "error"
    BY DEF terminal_reason_before_repair
  <2>3. Judged'
    BY <1>0, <2>1, <2>2
       DEF Judged, Answers, Ran, Partly, Unflagged, Skipped, gate_error, from_findings
  <2> QED
    BY <1>0, <1>q, <2>1, <2>3, TerminalTypes
<1>3. CASE ApplyAdapter
  <2>1. pc = "repairing" /\ UNCHANGED <<pc, candidate, gates, stop>>
    BY <1>3 DEF ApplyAdapter
  <2>2. Judged'
    BY <1>0, <2>1 DEF Judged, Answers, Ran, Partly, Unflagged, Skipped, gate_error, from_findings
  <2> QED
    BY <1>0, <1>q, <2>1, <2>2
<1>4. CASE AdapterRaises \/ RejectUntyped
  BY <1>4, <1>r DEF AdapterRaises, RejectUntyped
<1>5. CASE FinishCycle
  <2>1. PICK outcome \in GateOutcomes : gates' = run_gates(working, outcome)
    BY <1>5 DEF FinishCycle
  <2>2. /\ candidate' = working /\ pc = "repairing"
        /\ \/ stop' = cycle_stop_reason(gates, gates') /\ pc' = "done"
           \/ pc' = "decide" /\ stop' = stop
    BY <1>5 DEF FinishCycle, Finish
  <2>3. \A d \in Domains :
            gates'[d] \in Answers(d, working) \cup {Skipped(working), gate_error(working)}
    BY <2>1, PassJudges
  <2>4. Judged'
    BY <2>2, <2>3 DEF Judged, Answers, Ran, Partly, Unflagged, Skipped, gate_error, from_findings
  <2> QED
    BY <1>0, <1>q, <2>2, <2>4, CycleTypes
<1>6. CASE UNCHANGED vars
  <2>1. UNCHANGED <<pc, candidate, gates, stop, history>>
    BY <1>6 DEF vars
  <2>2. Judged'
    BY <1>0, <2>1 DEF Judged, Answers, Ran, Partly, Unflagged, Skipped, gate_error, from_findings
  <2> QED
    BY <1>0, <2>1, <2>2 DEF DiscardInv, AttemptDiscarded
<1> QED
  BY <1>1, <1>2, <1>3, <1>4, <1>5, <1>6 DEF Next

\* "The attempted state is discarded": after a cycle in which an adapter raised
\* or edited without evidence, the report returns the design the gates had
\* judged before it, with their findings and the error
\* (_replace_gate_with_repair_error).
THEOREM AttemptIsDiscarded == Spec => []AttemptDiscarded
<1>1. DiscardInv /\ GatesBound /\ ChainInv /\ [Next]_vars
          => (DiscardInv /\ GatesBound /\ ChainInv)'
  BY DiscardStep, BoundStep, ChainStep
<1>2. DiscardInv => AttemptDiscarded
  BY DEF DiscardInv
<1> QED
  BY <1>1, <1>2, DiscardInit, BoundInit, ChainInit, PTL DEF Spec
=============================================================================
