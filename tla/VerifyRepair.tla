---------------------------- MODULE VerifyRepair ----------------------------
(***************************************************************************)
(* The bounded verify/repair loop of zaptrace/pipeline/verify_repair.py    *)
(* with the gate and repair adapters of verify_repair_gates.py, the ERC    *)
(* repair registry of synthesis/repair.py and the evidence records of      *)
(* verify_repair_models.py.                                                *)
(*                                                                         *)
(* A design is the set of defects the engines would report on it, and its  *)
(* state hash is the design itself (SHA-256 is taken to be injective).  A  *)
(* gate adapter turns the defects of its domain into findings; a repair    *)
(* adapter edits the working copy.  The default registry is modelled by    *)
(* what its handlers do to one defect; an adapter an embedder passes in is *)
(* "custom" and may do anything its signature allows, within MaxEdit.      *)
(* The run is sequential, so one action stands for one call of an adapter  *)
(* list or one decision between two calls.                                 *)
(***************************************************************************)
EXTENDS Integers, Sequences, FiniteSets, SequencesExt

CONSTANTS
    Defects,            \* what an engine can find wrong with a design
    DomainOf,           \* the gate domain that finds a defect
    Severity,           \* the severity its engine gives it
    Handler,            \* what the registered ERC handler does with it
    Waived,             \* the ERC findings a person has waived
    EnabledDomains,     \* VerifyRepairPolicy.enabled_domains, in order
    MaxIterations,      \* VerifyRepairPolicy.max_iterations
    ErcWarningsReview,  \* VerifyRepairPolicy.erc_warnings_require_review
    DrcWarningsReview,  \* VerifyRepairPolicy.drc_warnings_require_review
    StrictSimulation,   \* VerifyRepairPolicy.strict_simulation
    Adapters,           \* the repair adapters, in order
    Faults,             \* the ways a gate adapter of this instance can fail
    MaxEdit             \* bound: defects one repair may add or remove

AllDomains == {"erc", "drc", "kicad-oracle", "dfm", "simulation",
               "supply-chain", "proof-pack"}
Domains == {EnabledDomains[i] : i \in 1 .. Len(EnabledDomains)}
Designs == SUBSET Defects

\* A gate adapter raises, answers for another domain or another state of the
\* design, skips its check, skips a part of it, or builds GateEvidence without
\* the flags of its verdict, which default to FALSE.
FaultKinds == {"raises", "wrong_domain", "stale", "skips", "skips_part", "unflagged"}

ASSUME DefectsAssumption ==
    /\ IsFiniteSet(Defects)
    /\ DomainOf \in [Defects -> AllDomains]
    /\ Severity \in [Defects -> {"error", "warning", "review", "skipped", "missing"}]
    /\ Handler \in [Defects -> {"none", "declines", "fixes", "raises"}]
    /\ Waived \subseteq {d \in Defects : DomainOf[d] = "erc"}

ASSUME PolicyAssumption ==
    /\ EnabledDomains \in Seq(AllDomains) /\ EnabledDomains # <<>>
    /\ \A i, j \in 1 .. Len(EnabledDomains) :
          EnabledDomains[i] = EnabledDomains[j] => i = j
    /\ MaxIterations \in 1 .. 16
    /\ ErcWarningsReview \in BOOLEAN /\ DrcWarningsReview \in BOOLEAN
    /\ StrictSimulation \in BOOLEAN
    /\ Adapters \in Seq({"registry", "custom"})
    /\ Faults \subseteq FaultKinds
    /\ MaxEdit \in Nat

VARIABLES
    pc,         \* where _run_iterations stands
    initial,    \* the design as it was passed in
    configured, \* the domains that have a gate adapter
    candidate,  \* the design the loop holds
    working,    \* the copy the repair adapters of this cycle edit
    gates,      \* the current GateEvidence of every domain
    iteration,  \* the loop variable of _run_iterations
    adapter,    \* the next repair adapter of the cycle
    applied,    \* the RepairApplications of the cycle, by adapter
    history,    \* the gate history of the report
    repairs,    \* the RepairEvidence of the report
    used,       \* iterations_used of the report
    stop        \* stop_reason of the report, "" while the loop runs

vars == <<pc, initial, configured, candidate, working, gates, iteration,
          adapter, applied, history, repairs, used, stop>>

-----------------------------------------------------------------------------
(* Findings and gate evidence.                                             *)

Finding(id, verdict, repairability, review) ==
    [id |-> id, verdict |-> verdict, repairability |-> repairability,
     review |-> review]

Blocking == {"blocked", "human", "error"}

\* The verdict of a gate is the worst verdict among its findings.
FromVerdicts(verdicts) ==
    IF "error" \in verdicts THEN "error"
    ELSE IF "blocked" \in verdicts THEN "blocked"
    ELSE IF "human" \in verdicts THEN "human"
    ELSE IF "warning" \in verdicts THEN "warning"
    ELSE IF "skipped" \in verdicts THEN "skipped"
    ELSE "pass"

from_findings(hash, findings) ==
    LET verdict == FromVerdicts({f.verdict : f \in findings})
    IN  [hash     |-> hash,
         verdict  |-> verdict,
         blocks   |-> verdict \in Blocking \cup {"skipped"},
         review   |-> verdict = "human" \/ \E f \in findings : f.review,
         findings |-> findings]

\* The handler of a finding's rule, tried on a copy: it fixes the finding or
\* the finding is left to a person.
HandlerCanApply(d) == Handler[d] = "fixes"

ErcVerdict(d) ==
    CASE Severity[d] = "error" -> "blocked"
      [] Severity[d] = "warning" /\ ErcWarningsReview -> "human"
      [] OTHER -> "warning"

erc_gate(found) ==
    {Finding(d, ErcVerdict(d),
             IF HandlerCanApply(d) THEN "auto" ELSE "human",
             \/ ~HandlerCanApply(d) /\ ErcVerdict(d) # "warning"
             \/ Severity[d] = "warning" /\ ErcWarningsReview) :
        d \in found \ Waived}

DrcVerdict(d) ==
    CASE Severity[d] = "error" -> "blocked"
      [] Severity[d] = "warning" /\ DrcWarningsReview -> "human"
      [] OTHER -> "warning"

drc_gate(found) ==
    {Finding(d, DrcVerdict(d), "human", DrcVerdict(d) # "warning") : d \in found}

DfmVerdict(d) ==
    CASE Severity[d] = "error" -> "blocked"
      [] Severity[d] = "review" -> "human"
      [] OTHER -> "warning"

dfm_gate(found) ==
    {Finding(d, DfmVerdict(d), IF Severity[d] = "review" THEN "non" ELSE "human",
             DfmVerdict(d) # "warning") : d \in found}

SimulationVerdict(d) ==
    CASE Severity[d] # "skipped" -> "blocked"
      [] Severity[d] = "skipped" /\ StrictSimulation -> "human"
      [] OTHER -> "warning"

simulation_gate(found) ==
    {Finding(d, SimulationVerdict(d), "non", SimulationVerdict(d) # "warning") :
        d \in found}

supply_chain_gate(found) ==
    {Finding(d, "human", IF Severity[d] = "missing" THEN "non" ELSE "human", TRUE) :
        d \in found}

\* "missing" is an oracle that cannot run: no output directory or no KiCad.
kicad_oracle_gate(found) ==
    {Finding(d, IF Severity[d] = "missing" THEN "human" ELSE "blocked",
             IF Severity[d] = "missing" THEN "non" ELSE "human", TRUE) : d \in found}

proof_pack_gate(found) ==
    {Finding(d, IF Severity[d] = "skipped" THEN "warning" ELSE "blocked", "human",
             Severity[d] # "skipped") : d \in found}

\* default_gate_adapters: what the adapter of a domain finds on a design.
GateFindings(domain, design) ==
    LET found == {d \in design : DomainOf[d] = domain}
    IN  CASE domain = "erc"          -> erc_gate(found)
          [] domain = "drc"          -> drc_gate(found)
          [] domain = "dfm"          -> dfm_gate(found)
          [] domain = "simulation"   -> simulation_gate(found)
          [] domain = "supply-chain" -> supply_chain_gate(found)
          [] domain = "kicad-oracle" -> kicad_oracle_gate(found)
          [] domain = "proof-pack"   -> proof_pack_gate(found)

gate_error(design) ==
    from_findings(design, {Finding("gate-error", "error", "non", TRUE)})

Skip == Finding("skip", "skipped", "human", FALSE)

\* The evidence an adapter returns; flagged is what from_findings computes.
AdapterEvidence(domain, design, outcome) ==
    LET flagged == from_findings(design, {Skip} \cup GateFindings(domain, design))
    IN  CASE outcome = "skips"      -> from_findings(design, {Skip})
          [] outcome = "skips_part" -> flagged
          [] outcome = "unflagged"  -> [flagged EXCEPT !.blocks = FALSE, !.review = FALSE]
          [] OTHER -> from_findings(design, GateFindings(domain, design))

\* One gate call: evidence for the wrong domain, or bound to another design
\* state, is refused like an exception.
GateResultMutant(domain, design, outcome) ==
    CASE domain \notin configured \/ outcome \in {"raises", "wrong_domain"}
              -> gate_error(design)
      [] domain \in configured /\ outcome = "stale"
              -> AdapterEvidence(domain, initial, "returns")
      [] OTHER -> AdapterEvidence(domain, design, outcome)

GateResult(domain, design, outcome) ==
    IF domain \notin configured \/ outcome \in {"raises", "wrong_domain", "stale"}
    THEN gate_error(design)
    ELSE AdapterEvidence(domain, design, outcome)

\* At most one gate call of a pass fails; every gate gets its own copy of
\* the design.
GateOutcomes ==
    {[d \in Domains |-> "returns"]} \cup
    {[d \in Domains |-> IF d = bad THEN f ELSE "returns"] : bad \in Domains, f \in Faults}

run_gates(design, outcome) ==
    [d \in Domains |-> GateResult(d, design, outcome[d])]

-----------------------------------------------------------------------------
(* What the loop computes from the evidence.                               *)

AllFindings(g) == UNION {{[domain |-> d, finding |-> f] : f \in g[d].findings} : d \in Domains}

active_failures(g) ==
    {x \in AllFindings(g) : x.finding.verdict \in Blocking \/ x.finding.repairability = "auto"}

\* A gate that blocks without a blocking finding counts once.
GateBlockingCount(e) ==
    LET count == Cardinality({f \in e.findings : f.verdict \in Blocking})
    IN  IF count = 0 /\ e.blocks THEN 1 ELSE count

\* The counts are compared only as totals over the domains.
blocking_count(g) ==
    FoldLeft(+, 0, [i \in 1 .. Len(EnabledDomains) |-> GateBlockingCount(g[EnabledDomains[i]])])

auto_repairable_count(g) ==
    Cardinality({x \in AllFindings(g) : x.finding.repairability = "auto"})

AllGatesPassMutant(g) == \A d \in Domains : ~g[d].blocks

all_gates_pass(g) ==
    /\ \A d \in Domains : ~g[d].blocks /\ ~g[d].review
    /\ \A x \in AllFindings(g) : x.finding.repairability # "auto"

\* The reason to stop before another repair, "" to go on.
terminal_reason_before_repair(g) ==
    LET failures == active_failures(g)
    IN  CASE \E d \in Domains : g[d].verdict = "error" -> "gate-execution-error"
          [] /\ \A d \in Domains : g[d].verdict # "error"
             /\ \E x \in failures : x.finding.repairability = "auto" -> ""
          [] /\ \A d \in Domains : g[d].verdict # "error"
             /\ \A x \in failures : x.finding.repairability # "auto"
             /\ \E x \in failures : x.finding.repairability = "non" -> "non-repairable"
          [] OTHER -> IF failures # {} THEN "human-review-required" ELSE ""

\* The domain of the first active failure in policy order, the first enabled
\* domain when there is none.
FailureDomain(g) ==
    LET failing == {i \in 1 .. Len(EnabledDomains) :
                       \E x \in active_failures(g) : x.domain = EnabledDomains[i]}
    IN  IF failing = {} THEN EnabledDomains[1]
        ELSE EnabledDomains[CHOOSE i \in failing : \A j \in failing : i <= j]

replace_gate_with_repair_error(g, domain, hash) ==
    [g EXCEPT ![domain] =
        from_findings(hash, @.findings \cup {Finding("repair-error", "error", "non", TRUE)})]

HistoryEntry(i, design, g) ==
    [iteration |-> i, hash |-> design, blocking |-> blocking_count(g)]

-----------------------------------------------------------------------------
(* Repair adapters.                                                        *)

\* The designs one repair can leave behind.
Edited(design) ==
    {w \in Designs : Cardinality((w \ design) \cup (design \ w)) <= MaxEdit}

ErcDefects(design) == {d \in design : DomainOf[d] = "erc"}

\* repair_design with one iteration runs the handler of every ERC rule that
\* fires, on waived findings too and on findings the gate left to a person.
\* It raises when a handler does; a handler that patches may repair the
\* defect, leave it, or disturb the rest of the design.
RegistryRaises(design) == \E d \in ErcDefects(design) : Handler[d] = "raises"

RegistryResults(design) ==
    LET patched == {d \in ErcDefects(design) : Handler[d] = "fixes"}
    IN  IF patched = {} THEN {design}
        ELSE {w \in Edited(design) : (design \ w) \subseteq patched}

\* erc_registry_repair runs only for auto-repairable ERC failures and returns
\* an application unless ERC finds nothing at all.
RegistryRuns(g) ==
    \E x \in active_failures(g) : x.domain = "erc" /\ x.finding.repairability = "auto"

-----------------------------------------------------------------------------
Init ==
    /\ pc = "initial"
    /\ initial \in Designs
    /\ configured \in {Domains} \cup {Domains \ {d} : d \in Domains}
    /\ candidate = initial
    /\ working = initial
    /\ gates = [d \in Domains |-> from_findings(initial, {})]
    /\ iteration = 0 /\ adapter = 1 /\ applied = {}
    /\ history = <<>> /\ repairs = <<>>
    /\ used = 0 /\ stop = ""

Finish(reason, iterations) ==
    /\ stop' = reason
    /\ used' = iterations
    /\ pc' = "done"

\* The first pass over the gates, before any repair.
RunInitialGates ==
    /\ pc = "initial"
    /\ \E outcome \in GateOutcomes : gates' = run_gates(candidate, outcome)
    /\ history' = <<HistoryEntry(0, candidate, gates')>>
    /\ iteration' = 1
    /\ IF all_gates_pass(gates')
       THEN Finish("all-gates-passed", 0)
       ELSE pc' = "decide" /\ UNCHANGED <<stop, used>>
    /\ UNCHANGED <<initial, configured, candidate, working, adapter, applied, repairs>>

RecheckMutant ==
    /\ pc = "decide"
    /\ LET terminal == terminal_reason_before_repair(gates)
       IN  \/ /\ terminal # ""
              /\ Finish(terminal, iteration - 1)
           \/ /\ terminal = ""
              /\ pc' = "initial"
              /\ UNCHANGED <<stop, used>>
    /\ UNCHANGED <<initial, configured, candidate, working, gates, iteration, adapter, applied,
                   history, repairs>>

DecideMutant ==
    /\ pc = "decide"
    /\ LET terminal == terminal_reason_before_repair(gates)
       IN  \/ /\ iteration > MaxIterations + 1
              /\ Finish("iteration-budget-exhausted", iteration - 1)
              /\ UNCHANGED <<working, adapter, applied>>
           \/ /\ iteration <= MaxIterations + 1 /\ terminal # ""
              /\ Finish(terminal, iteration - 1)
              /\ UNCHANGED <<working, adapter, applied>>
           \/ /\ iteration <= MaxIterations + 1 /\ terminal = ""
              /\ pc' = "repairing"
              /\ working' = candidate /\ adapter' = 1 /\ applied' = {}
              /\ UNCHANGED <<stop, used>>
    /\ UNCHANGED <<initial, configured, candidate, gates, iteration, history, repairs>>

\* The head of the loop: the budget, then the terminal reasons.
Decide ==
    /\ pc = "decide"
    /\ LET terminal == terminal_reason_before_repair(gates)
       IN  \/ /\ iteration > MaxIterations
              /\ Finish("iteration-budget-exhausted", MaxIterations)
              /\ UNCHANGED <<working, adapter, applied>>
           \/ /\ iteration <= MaxIterations /\ terminal # ""
              /\ Finish(terminal, iteration - 1)
              /\ UNCHANGED <<working, adapter, applied>>
           \/ /\ iteration <= MaxIterations /\ terminal = ""
              /\ pc' = "repairing"
              /\ working' = candidate /\ adapter' = 1 /\ applied' = {}
              /\ UNCHANGED <<stop, used>>
    /\ UNCHANGED <<initial, configured, candidate, gates, iteration, history, repairs>>

\* One repair adapter of the cycle, called with the working copy and the
\* failures of the last gate pass.
ApplyAdapter ==
    /\ pc = "repairing"
    /\ adapter <= Len(Adapters)
    /\ \/ /\ Adapters[adapter] = "registry" /\ ~RegistryRuns(gates)
          /\ UNCHANGED <<working, applied>>
       \/ /\ Adapters[adapter] = "registry" /\ RegistryRuns(gates)
          /\ ~RegistryRaises(working)
          /\ working' \in RegistryResults(working)
          /\ applied' = IF ErcDefects(working) = {} THEN applied ELSE applied \cup {adapter}
       \/ /\ Adapters[adapter] = "custom"
          /\ working' \in Edited(working)
          /\ applied' \in {applied, applied \cup {adapter}}
    /\ adapter' = adapter + 1
    /\ UNCHANGED <<pc, initial, configured, candidate, gates, iteration, history,
                   repairs, used, stop>>

\* A cycle that failed: the design from before the cycle is kept, and the
\* gate of the first failure is replaced by the error.
RepairErrorMutant ==
    LET errors == replace_gate_with_repair_error(gates, FailureDomain(gates), candidate)
    IN  /\ gates' = errors
        /\ history' = Append(history, HistoryEntry(iteration, candidate, errors))
        /\ candidate' = working
        /\ Finish("repair-execution-error", iteration)
        /\ UNCHANGED <<initial, configured, working, iteration, adapter, applied, repairs>>

RepairError ==
    LET errors == replace_gate_with_repair_error(gates, FailureDomain(gates), candidate)
    IN  /\ gates' = errors
        /\ history' = Append(history, HistoryEntry(iteration, candidate, errors))
        /\ Finish("repair-execution-error", iteration)
        /\ UNCHANGED <<initial, configured, candidate, working, iteration, adapter, applied,
                       repairs>>

\* An adapter raises, in the middle of its edits or before them.
AdapterRaises ==
    /\ pc = "repairing"
    /\ adapter <= Len(Adapters)
    /\ \/ Adapters[adapter] = "custom"
       \/ Adapters[adapter] = "registry" /\ RegistryRuns(gates) /\ RegistryRaises(working)
    /\ RepairError

UntypedMutant == FALSE

\* The working copy changed although no adapter returned an application.
Untyped == applied = {} /\ working # candidate

RejectUntyped ==
    /\ pc = "repairing"
    /\ adapter > Len(Adapters)
    /\ Untyped
    /\ RepairError

Improved(before, after) ==
    \/ blocking_count(after) < blocking_count(before)
    \/ auto_repairable_count(after) < auto_repairable_count(before)

\* _cycle_stop_reason: "" to go on with the next iteration.
cycle_stop_reason(before, after) ==
    CASE all_gates_pass(after) -> "all-gates-passed"
      [] ~all_gates_pass(after)
         /\ ~(applied # {} /\ working # candidate /\ Improved(before, after)) -> "no-progress"
      [] OTHER -> ""

\* One piece of evidence for every application of the cycle.
CycleEvidence(improved) ==
    [k \in 1 .. Cardinality(applied) |->
        [iteration |-> iteration, before |-> candidate, after |-> working,
         improved |-> improved]]

\* The gates run again on the working copy, which becomes the candidate
\* whatever they say.
FinishCycle ==
    /\ pc = "repairing"
    /\ adapter > Len(Adapters)
    /\ ~Untyped
    /\ \E outcome \in GateOutcomes : gates' = run_gates(working, outcome)
    /\ history' = Append(history, HistoryEntry(iteration, working, gates'))
    /\ repairs' = repairs \o CycleEvidence(Improved(gates, gates'))
    /\ candidate' = working
    /\ LET reason == cycle_stop_reason(gates, gates')
       IN  IF reason # ""
           THEN Finish(reason, iteration) /\ UNCHANGED iteration
           ELSE /\ pc' = "decide"
                /\ iteration' = iteration + 1
                /\ UNCHANGED <<stop, used>>
    /\ UNCHANGED <<initial, configured, working, adapter, applied>>

Next ==
    \/ RunInitialGates
    \/ Decide
    \/ ApplyAdapter
    \/ AdapterRaises
    \/ RejectUntyped
    \/ FinishCycle

\* Every gate and repair adapter returns or raises, so the one thread that
\* runs the loop always takes its next step.
Spec == Init /\ [][Next]_vars /\ WF_vars(Next)

-----------------------------------------------------------------------------
(* Properties.                                                             *)

StopReasons == {"all-gates-passed", "human-review-required", "non-repairable",
                "no-progress", "iteration-budget-exhausted", "gate-execution-error",
                "repair-execution-error"}

\* The state of the loop is of its type; the budget of the policy is a hard
\* cap on the iterations used and on the passes recorded, whatever the
\* adapters do.
TypeOK ==
    /\ pc \in {"initial", "decide", "repairing", "done"}
    /\ {initial, candidate, working} \subseteq Designs
    /\ configured \subseteq Domains
    /\ DOMAIN gates = Domains
    /\ iteration \in 0 .. MaxIterations + 1
    /\ adapter \in 1 .. Len(Adapters) + 1
    /\ applied \subseteq 1 .. Len(Adapters)
    /\ Len(history) <= MaxIterations + 1
    /\ used \in 0 .. MaxIterations
    /\ stop \in StopReasons \cup {""}
    /\ (stop = "") = (pc # "done")

\* The final gates of a report, those of an error path included, are all
\* bound to the design that is returned with it: no evidence about an
\* earlier state of the design (_run_gates, _build_report) reaches the report.
ReportBindsResult ==
    pc = "done" => \A d \in Domains : gates[d].hash = candidate

\* A run that reports convergence returns a design on which nothing could
\* still be repaired automatically and every enabled domain has a gate that
\* ran on it; where the gate's evidence carries the flags of its findings, no
\* finding blocks or asks for a person (_all_gates_pass): a gate that is
\* missing, fails, skips altogether or answers for another state never counts.
ConvergedIsClean ==
    stop = "all-gates-passed" =>
        /\ configured = Domains
        /\ \A domain \in Domains :
              LET e == gates[domain]
              IN  /\ e.hash = candidate
                  /\ \A f \in GateFindings(domain, candidate) : f.repairability # "auto"
                  /\ e = from_findings(candidate, e.findings) =>
                        /\ e.verdict \in {"pass", "warning"}
                        /\ \A f \in GateFindings(domain, candidate) :
                              f.verdict = "warning" /\ ~f.review

\* "Skipped, missing, high-risk, or unsupported evidence never becomes an
\* autonomous pass": a run that reports convergence rests on no skipped check.
SkippedNeverPasses ==
    stop = "all-gates-passed" =>
        \A domain \in Domains : /\ gates[domain].verdict # "skipped"
                                /\ \A f \in gates[domain].findings : f.verdict # "skipped"

\* The gate history is an unbroken chain from the design passed in to the
\* design returned, one entry for each iteration used, and every change of
\* the design along it has repair evidence with exactly its two hashes: no
\* repair adapter changes the design without leaving evidence.
EvidenceChain ==
    /\ history # <<>> => /\ history[1].hash = initial
                         /\ history[Len(history)].hash = candidate
    /\ \A i \in 1 .. Len(history) - 1 :
          history[i + 1].hash # history[i].hash =>
              \E k \in DOMAIN repairs : /\ repairs[k].iteration = i
                                        /\ repairs[k].before = history[i].hash
                                        /\ repairs[k].after = history[i + 1].hash
    /\ \A k \in DOMAIN repairs :
          LET i == repairs[k].iteration
          IN  /\ i \in 1 .. Len(history) - 1
              /\ repairs[k].before = history[i].hash
              /\ repairs[k].after = history[i + 1].hash
    /\ pc = "done" => used = Len(history) - 1

\* "The attempted state is discarded": a cycle in which an adapter raised, or
\* edited the design without evidence, returns the design the gates had
\* judged before the cycle, with their findings kept and the error added.
AttemptDiscarded ==
    stop = "repair-execution-error" =>
        /\ candidate = history[Len(history) - 1].hash
        /\ \A domain \in Domains : GateFindings(domain, candidate) \subseteq gates[domain].findings
                                   \/ \E f \in gates[domain].findings : f.id = "skip"
        /\ \E domain \in Domains : gates[domain].verdict = "error"

\* Every run ends with a stop reason, also when repairs that each look like
\* progress undo one another.
Terminates == <>(pc = "done")

\* A gate that fails to execute is reported as such whenever it is among the
\* final evidence.
GateErrorsAreNamed ==
    pc = "done" /\ (\E d \in Domains : \E f \in gates[d].findings : f.id = "gate-error")
        => stop = "gate-execution-error"

=============================================================================
