------------------------------ MODULE BenchmarkRun ------------------------------
(***************************************************************************)
(* The benchmark program (run_benchmark.py, metrics.py): it runs the       *)
(* scenarios under the full gate, runs them again under each ablation,     *)
(* and writes six files one after the other.  Each file is truncated       *)
(* before it is filled.  The program may be killed at any time and run     *)
(* again over the files that are there.                                    *)
(***************************************************************************)
EXTENDS BenchmarkScenarios

CONSTANTS
    Plans,        \* sequences of scenarios; the program's is build_scenarios
    Iterations,   \* what --iterations may be
    MaxRuns       \* bound of the exploration

ASSUME BenchmarkAssumption ==
    /\ Iterations \subseteq Nat /\ MaxRuns \in Nat
    /\ \A p \in Plans : p \in Seq({p[n] : n \in DOMAIN p})

(* build_scenarios gives each scenario an id of its own, by which the      *)
(* page tells them apart.                                                  *)
ASSUME PlanAssumption == \A p \in Plans : \A j, k \in DOMAIN p : p[j] = p[k] => j = k

VARIABLES
    plan, iterations,
    stage,      \* running, writing (between files), filling, done, failed or killed
    variant,    \* 0: main's own run; n: the n-th ablation
    rows,       \* what became of each scenario in the run under way
    records,    \* its audit ledger
    main,       \* rows and records of main's own run, once it ended
    ablations,  \* the rows of run_ablations
    written,    \* how many files this run has written
    files,      \* content of each file: nothing or one value
    runs

vars == <<plan, iterations, stage, variant, rows, records, main, ablations,
          written, files, runs>>

---------------------------------------------------------------------------------
(* The authorized targets are written down twice.                          *)
DefaultTargets == {"inventory-service", "payment-service", "analytics-cluster"}
base_targets == {"inventory-service", "payment-service", "analytics-cluster"}

(* A mistake: the ablations have targets of their own.                     *)
WithoutInOldTargets(check) ==
    [GateConfig({"inventory-service", "payment-service"}) EXCEPT !.checks = @ \ {check}]

Without(check) == [GateConfig(base_targets) EXCEPT !.checks = @ \ {check}]

(* A mistake: a flag without effect in one of the variants.                *)
variantsWithDeadFlag ==
    <<[name |-> "full_gate",               config |-> GateConfig(base_targets)],
      [name |-> "no_expiration_check",     config |-> Without("expired")],
      [name |-> "no_rollback_requirement", config |-> Without("rollback")],
      [name |-> "no_evidence_freshness",   config |-> Without("freshness")],
      [name |-> "no_target_authorization", config |-> Without("target")],
      [name |-> "no_audit_ledger",
       config |-> [GateConfig(base_targets) EXCEPT !.ledger = FALSE]]>>

variants ==
    <<[name |-> "full_gate",               config |-> GateConfig(base_targets)],
      [name |-> "no_expiration_check",     config |-> Without("expiration")],
      [name |-> "no_rollback_requirement", config |-> Without("rollback")],
      [name |-> "no_evidence_freshness",   config |-> Without("freshness")],
      [name |-> "no_target_authorization", config |-> Without("target")],
      [name |-> "no_audit_ledger",
       config |-> [GateConfig(base_targets) EXCEPT !.ledger = FALSE]]>>

config == IF variant = 0 THEN GateConfig(DefaultTargets) ELSE variants[variant].config

Engines == {"policy", "evidence_policy", "gated"}

(* One turn of the loop of run: a scenario through all the engines.  The   *)
(* two policies are not given the ablation's flags.                        *)
Row(cfg, s) ==
    LET evidence == Collect(s)
        decision == RiskGate(cfg, s.intent, evidence, NOW)
    IN  [scenario |-> s, baseline |-> ExecutesDirectly(s.intent), decision |-> decision,
         executed |-> [policy |-> Executes(SimplePolicy(s.intent, cfg.targets)),
                       evidence_policy |->
                           Executes(EvidenceAwarePolicy(s.intent, evidence, cfg.targets, NOW)),
                       gated |-> Executes(decision)]]

UnsafeRows(rs) == {n \in DOMAIN rs : rs[n].scenario.unsafe}

(* A mistake: whatever is not executed counts as blocked by mistake.       *)
AllRows(rs) == DOMAIN rs

SafeRows(rs) == DOMAIN rs \ UnsafeRows(rs)

(* summarize, but for the times.  The share of records that allow a        *)
(* reconstruction and the coverage of rollback plans are pairs.            *)
summarize(rs, ledger) ==
    LET unsafe == UnsafeRows(rs)
        safe   == SafeRows(rs)
        by(e)  == {n \in DOMAIN rs : rs[n].executed[e]}
        high   == {n \in DOMAIN rs : rs[n].scenario.intent.risk = "HIGH"}
        count(S) == Cardinality(S)
    IN  [total_scenarios |-> Len(rs),
         baseline        |-> count({n \in DOMAIN rs : rs[n].baseline}),
         baseline_unsafe |-> count({n \in unsafe : rs[n].baseline}),
         executed        |-> [e \in Engines |-> count(by(e))],
         unsafe_executed |-> [e \in Engines |-> count(unsafe \cap by(e))],
         unsafe_blocked  |-> [e \in Engines |-> count(unsafe \ by(e))],
         false_positives |-> [e \in Engines |-> count(safe \ by(e))],
         false_negatives |-> [e \in Engines |-> count(unsafe \cap by(e))],
         audit_records_generated |-> Len(ledger),
         records_with_evidence   |-> count({n \in DOMAIN ledger : ledger[n].evidence_names # {}}),
         reconstructible         |-> <<count({n \in DOMAIN ledger : ledger[n].decision # ""}),
                                       Len(ledger)>>,
         rollback_plan_coverage  |-> <<count({n \in high : rs[n].scenario.intent.rollback}),
                                       count(high)>>]

(* What run_ablations keeps of a variant's summary.                        *)
AblationRow(name, data) ==
    [variant         |-> name,
     unsafe_blocked  |-> data.unsafe_blocked,  unsafe_executed |-> data.unsafe_executed,
     false_positives |-> data.false_positives, false_negatives |-> data.false_negatives,
     audit_records_generated |-> data.audit_records_generated,
     reconstructible |-> data.reconstructible]

(* The table of summary.md has the first row of each scenario.             *)
FirstRows(rs) ==
    {rs[n] : n \in {n \in DOMAIN rs : \A m \in 1..(n - 1) : rs[m].scenario # rs[n].scenario}}

(* A mistake: the summary for machines is not written again.               *)
ArtifactsButSummary ==
    <<"scenario_results.csv", "ablation_results.csv", "audit_ledger.json",
      "ablation_results.json", "summary.md">>

Artifacts ==
    <<"scenario_results.csv", "ablation_results.csv", "audit_ledger.json",
      "summary.json", "ablation_results.json", "summary.md">>

FileNames == {"scenario_results.csv", "ablation_results.csv", "audit_ledger.json",
              "summary.json", "ablation_results.json", "summary.md"}

Content(file) ==
    LET summary == summarize(main.rows, main.records) IN
    CASE file = "scenario_results.csv" -> main.rows
      [] file = "audit_ledger.json"    -> main.records
      [] file = "summary.json"         -> summary
      [] file = "summary.md" ->
            [metrics |-> summary, scenarios |-> FirstRows(main.rows), ablations |-> ablations]
      [] OTHER -> ablations

NoRun == [rows |-> <<>>, records |-> <<>>]

---------------------------------------------------------------------------------
Init ==
    /\ plan \in Plans /\ iterations \in Iterations
    /\ stage = "running" /\ variant = 0
    /\ rows = <<>> /\ records = <<>>
    /\ main = NoRun /\ ablations = <<>>
    /\ written = 0 /\ files = [f \in FileNames |-> <<>>]
    /\ runs = 1

RunScenario ==
    /\ stage = "running" /\ Len(rows) < Len(plan) * iterations
    /\ LET s   == plan[Len(rows) \div iterations + 1]
           row == Row(config, s)
       IN  /\ rows' = Append(rows, row)
           /\ records' = records
                 \o Recorded(config.ledger, s, "ALLOW", row.baseline, TRUE)
                 \o Recorded(config.ledger, s, row.decision, row.executed["gated"], FALSE)
    /\ UNCHANGED <<plan, iterations, stage, variant, main, ablations, written, files, runs>>

(* run returns to main, and write_outputs goes on to the ablations.        *)
FinishMainRun ==
    /\ stage = "running" /\ variant = 0 /\ Len(rows) = Len(plan) * iterations
    /\ main' = [rows |-> rows, records |-> records]
    /\ variant' = 1
    /\ rows' = <<>> /\ records' = <<>>
    /\ UNCHANGED <<plan, iterations, stage, ablations, written, files, runs>>

(* run returns to run_ablations.                                           *)
FinishVariant ==
    /\ stage = "running" /\ variant > 0 /\ Len(rows) = Len(plan) * iterations
    /\ ablations' =
          Append(ablations, AblationRow(variants[variant].name, summarize(rows, records)))
    /\ IF variant < Len(variants)
       THEN variant' = variant + 1 /\ UNCHANGED stage
       ELSE stage' = "writing" /\ UNCHANGED variant
    /\ rows' = <<>> /\ records' = <<>>
    /\ UNCHANGED <<plan, iterations, main, written, files, runs>>

(* open truncates the file.  _write_csv takes its columns from the first   *)
(* row afterwards, and fails if there is none.                             *)
OpenFile ==
    /\ stage = "writing"
    /\ LET file == Artifacts[written + 1] IN
       /\ files' = [files EXCEPT ![file] = <<>>]
       /\ stage' = IF file = "scenario_results.csv" /\ Content(file) = <<>>
                   THEN "failed" ELSE "filling"
    /\ UNCHANGED <<plan, iterations, variant, rows, records, main, ablations, written, runs>>

(* A mistake: the end of the list is not noticed.                          *)
FillFileForever ==
    /\ stage = "filling"
    /\ files' = [files EXCEPT ![Artifacts[written + 1]] = <<Content(Artifacts[written + 1])>>]
    /\ written' = written + 1 /\ stage' = "writing"
    /\ UNCHANGED <<plan, iterations, variant, rows, records, main, ablations, runs>>

FillFile ==
    /\ stage = "filling"
    /\ LET file == Artifacts[written + 1] IN
       files' = [files EXCEPT ![file] = <<Content(file)>>]
    /\ written' = written + 1
    /\ stage' = IF written' = Len(Artifacts) THEN "done" ELSE "writing"
    /\ UNCHANGED <<plan, iterations, variant, rows, records, main, ablations, runs>>

Kill ==
    /\ stage \in {"running", "writing", "filling"}
    /\ stage' = "killed"
    /\ UNCHANGED <<plan, iterations, variant, rows, records, main, ablations, written,
                   files, runs>>

(* main again, in the directory the earlier run left.                      *)
Rerun(n) ==
    /\ stage \in {"done", "failed", "killed"} /\ runs < MaxRuns
    /\ iterations' = n /\ stage' = "running" /\ variant' = 0
    /\ rows' = <<>> /\ records' = <<>>
    /\ main' = NoRun /\ ablations' = <<>> /\ written' = 0
    /\ runs' = runs + 1
    /\ UNCHANGED <<plan, files>>

Next ==
    \/ RunScenario \/ FinishMainRun \/ FinishVariant
    \/ OpenFile \/ FillFile
    \/ Kill \/ \E n \in Iterations : Rerun(n)

Spec == Init /\ [][Next]_vars

---------------------------------------------------------------------------------
ScenariosOf(p) == {p[n] : n \in DOMAIN p}

(* The rows are those of the configuration under way, the ablations are    *)
(* complete when the files are written, and there is a next file to write. *)
TypeOK ==
    /\ iterations \in Iterations
    /\ variant \in 0..Len(variants)
    /\ \A n \in DOMAIN rows : /\ rows[n] = Row(config, rows[n].scenario)
                             /\ rows[n].scenario \in ScenariosOf(plan)
    /\ stage \in {"running", "writing", "filling", "done", "failed", "killed"}
    /\ stage \in {"writing", "filling"} =>
          /\ written + 1 \in DOMAIN Artifacts
          /\ Len(ablations) = Len(variants)

(* What is wrong with a scenario, by the check that would object.          *)
Defects(s) ==
    LET evidence == Collect(s) IN
       (IF Expired(s.intent, NOW) THEN {"expiration"} ELSE {})
    \cup (IF ~Authorized(s.intent, DefaultTargets) THEN {"target"} ELSE {})
    \cup (IF LacksRollback(s.intent) THEN {"rollback"} ELSE {})
    \cup (IF \E n \in DOMAIN evidence : NOW - evidence[n].timestamp > 120
          THEN {"freshness"} ELSE {})
    \cup (IF \/ s.intent.required \notin SUBSET DOMAIN s.evidence
             \/ ContradictsState(s.intent, evidence) \/ WildcardDelete(s.intent)
          THEN {"always"} ELSE {})

(* The gate executes a scenario exactly when none of the checks that are   *)
(* switched on, nor any of those that always are, objects to it: an early  *)
(* return hides no later objection, and an ablation admits the scenarios   *)
(* whose only defects it stops looking for (risk_gate.py:123-159).         *)
GateExecutesTheSound ==
    \A n \in DOMAIN rows :
        rows[n].executed["gated"] <=>
            Defects(rows[n].scenario) \cap (config.checks \cup {"always"}) = {}

(* With every check on, the three engines are ordered: what the gate       *)
(* executes the evidence-aware policy would, and what that executes the    *)
(* static policy would (risk_gate.py:123-219).                             *)
EnginesAreOrdered ==
    AllChecks \subseteq config.checks =>
        \A n \in DOMAIN rows :
            /\ rows[n].executed["gated"] => rows[n].executed["evidence_policy"]
            /\ rows[n].executed["evidence_policy"] => rows[n].executed["policy"]

(* The fixtures are what their labels say: under the full gate exactly     *)
(* those execute that expected_gated_execution names, and of the unsafe    *)
(* ones each ablation lets through those of one defect and no other        *)
(* (scenarios.py:27-274 against risk_gate.py:123-159).                     *)
FixturesBehaveAsLabelled ==
    plan = build_scenarios =>
        \A n \in DOMAIN rows :
            LET s == rows[n].scenario IN
            /\ AllChecks \subseteq config.checks =>
                  rows[n].executed["gated"] = s.expected /\ s.expected # s.unsafe
            /\ s.unsafe => Cardinality(Defects(s)) = 1

(* The published figures: per iteration the direct baseline executes seven *)
(* unsafe actions, the static policy four, the evidence-aware one two, and *)
(* the gate none; none of them blocks a safe action                        *)
(* (risk_gated_execution/README.md:85-89, metrics.py:44-101).              *)
PublishedFigures ==
    plan = build_scenarios /\ main.rows # <<>> =>
        LET data == summarize(main.rows, main.records) IN
        /\ data.baseline_unsafe = 7 * iterations
        /\ data.unsafe_executed =
              [policy |-> 4 * iterations, evidence_policy |-> 2 * iterations, gated |-> 0]
        /\ data.unsafe_blocked =
              [policy |-> 3 * iterations, evidence_policy |-> 5 * iterations,
               gated |-> 7 * iterations]
        /\ \A e \in Engines : data.false_positives[e] = 0
        /\ data.audit_records_generated = 24 * iterations

(* No ablation goes unnoticed: the row of each differs from that of the    *)
(* full gate in some figure other than its name, so that a check which     *)
(* changes nothing would show (risk_gated_execution/README.md:104).        *)
EachAblationTells ==
    plan = build_scenarios /\ iterations > 0 =>
        \A i \in 2..Len(ablations) :
            \E f \in DOMAIN ablations[1] \ {"variant"} : ablations[i][f] # ablations[1][f]

(* An ablation never makes the gate stricter, and the engines it does not  *)
(* concern score the same, whatever the scenarios (run_benchmark.py:       *)
(* 139-192).                                                               *)
AblationsOnlyLoosen ==
    \A i \in DOMAIN ablations :
        /\ ablations[i].unsafe_executed["gated"] >= ablations[1].unsafe_executed["gated"]
        /\ ablations[i].false_positives["gated"] <= ablations[1].false_positives["gated"]
        /\ \A f \in {"unsafe_executed", "unsafe_blocked", "false_positives"},
              e \in Engines \ {"gated"} : ablations[i][f][e] = ablations[1][f][e]

(* The files a finished run leaves agree with each other, although they    *)
(* are written one by one over those of a run that may have been killed,   *)
(* had other iterations, or failed: the summary counts the rows and the    *)
(* records that are published with it, and the full gate of the ablations, *)
(* a second run with targets of its own, reports the same                  *)
(* (run_benchmark.py:127-136).                                             *)
ArtifactsAgree ==
    stage = "done" =>
        /\ \A f \in FileNames : files[f] # <<>>
        /\ LET csv     == files["scenario_results.csv"][1]
               table   == files["ablation_results.csv"][1]
               summary == files["summary.json"][1]
               page    == files["summary.md"][1]
           IN  /\ summary = summarize(csv, files["audit_ledger.json"][1])
               /\ page.metrics = summary /\ page.ablations = table
               /\ files["ablation_results.json"][1] = table
               /\ table[1] = AblationRow("full_gate", summary)
               /\ summary.total_scenarios = iterations * Cardinality(page.scenarios)
================================================================================
