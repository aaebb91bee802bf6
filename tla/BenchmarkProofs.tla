----------------------------- MODULE BenchmarkProofs -----------------------------
(***************************************************************************)
(* Theorems about BenchmarkRun, for every set of plans and of iterations.  *)
(***************************************************************************)
EXTENDS BenchmarkRun, FiniteSetTheorems, FunctionTheorems, TLAPS

(* The loop of run has a next scenario while rows are missing.             *)
LEMMA NextIndex ==
    ASSUME NEW a \in Nat, NEW b \in Nat, NEW c \in Nat, a < b * c
    PROVE  a \div c + 1 \in 1..b
<1>1. c > 0
    OBVIOUS
<1>2. a \div c \in Nat /\ c * (a \div c) <= a
    BY <1>1
<1>3. a \div c < b
    <2>1. SUFFICES ASSUME a \div c >= b PROVE FALSE
        BY <1>2
    <2>2. \A q \in Nat : q >= b => c * q >= c * b
        BY <1>1
    <2>. QED
        BY <1>2, <2>1, <2>2
<1>. QED
    BY <1>2, <1>3

LEMMA VariantIsConfig ==
    ASSUME NEW n \in 1..Len(variants)
    PROVE  /\ n \in Nat
           /\ n < Len(variants) => n + 1 \in 1..Len(variants)
BY DEF variants

(* The part of TypeOK that the properties of the gate rest on: rows are    *)
(* only added under the configuration of the variant, and dropped with it. *)
RowsInv ==
    /\ plan \in Plans /\ iterations \in Nat
    /\ variant \in 0..Len(variants)
    /\ rows \in Seq({Row(config, s) : s \in ScenariosOf(plan)})

LEMMA RowsInit == Init => RowsInv
BY BenchmarkAssumption DEF Init, RowsInv, config, variants

LEMMA RowsStep == RowsInv /\ [Next]_vars => RowsInv'
<1>. SUFFICES ASSUME RowsInv, [Next]_vars PROVE RowsInv'
    OBVIOUS
<1>. USE BenchmarkAssumption
<1>0. Len(variants) = 6
    BY DEF variants
<1>1. CASE RunScenario
    <2>1. config' = config /\ plan' = plan /\ variant' = variant /\ iterations' = iterations
        BY <1>1 DEF RunScenario, config
    <2>2. PICK s : s = plan[Len(rows) \div iterations + 1] /\ rows' = Append(rows, Row(config, s))
        BY <1>1 DEF RunScenario
    <2>3. s \in ScenariosOf(plan)
        <3>1. plan \in Seq({plan[n] : n \in DOMAIN plan}) /\ Len(plan) \in Nat
            BY DEF RowsInv
        <3>2. Len(rows) \in Nat /\ Len(rows) < Len(plan) * iterations
            BY <1>1 DEF RunScenario, RowsInv
        <3>3. Len(rows) \div iterations + 1 \in 1..Len(plan)
            BY <3>1, <3>2, NextIndex DEF RowsInv
        <3>. QED
            BY <2>2, <3>1, <3>3 DEF ScenariosOf
    <2>4. rows' \in Seq({Row(config, t) : t \in ScenariosOf(plan)})
        BY <2>2, <2>3 DEF RowsInv
    <2>. QED
        BY <2>1, <2>4 DEF RowsInv
<1>2. CASE FinishMainRun
    BY <1>0, <1>2 DEF FinishMainRun, RowsInv
<1>3. CASE FinishVariant
    BY <1>0, <1>3 DEF FinishVariant, RowsInv
<1>4. CASE \E n \in Iterations : Rerun(n)
    BY <1>0, <1>4 DEF Rerun, RowsInv
<1>5. CASE OpenFile \/ FillFile \/ Kill \/ UNCHANGED vars
    <2>1. UNCHANGED <<plan, iterations, variant, rows>>
        BY <1>5 DEF OpenFile, FillFile, Kill, vars
    <2>2. config' = config
        BY <2>1 DEF config
    <2>. QED
        BY <2>1, <2>2 DEF RowsInv
<1>. QED
    BY <1>1, <1>2, <1>3, <1>4, <1>5 DEF Next

(* Every configuration has the default targets and time-to-live.           *)
LEMMA ConfigFacts ==
    ASSUME variant \in 0..Len(variants)
    PROVE  config.targets = DefaultTargets /\ config.ttl = 120
<1>1. Len(variants) = 6
    BY DEF variants
<1>. QED
    BY <1>1 DEF config, variants, Without, GateConfig, DefaultTargets, base_targets

(* What the gate decides about a scenario, as one condition.               *)
LEMMA GateOfRow ==
    ASSUME NEW c, NEW s, c.targets = DefaultTargets, c.ttl = 120
    PROVE  Row(c, s).executed["gated"]
              <=> Defects(s) \cap (c.checks \cup {"always"}) = {}
<1>. DEFINE e == Collect(s)
            sound == /\ "expiration" \in c.checks => ~Expired(s.intent, NOW)
                     /\ "target" \in c.checks => Authorized(s.intent, DefaultTargets)
                     /\ "rollback" \in c.checks => ~LacksRollback(s.intent)
                     /\ s.intent.required \subseteq DOMAIN s.evidence
                     /\ "freshness" \in c.checks =>
                           ~\E n \in DOMAIN e : NOW - e[n].timestamp > 120
                     /\ ~ContradictsState(s.intent, e)
                     /\ ~WildcardDelete(s.intent)
<1>1. DOMAIN e = s.intent.required \cap DOMAIN s.evidence
    BY DEF Collect
<1>2. Missing(s.intent, e) = {} <=> s.intent.required \subseteq DOMAIN s.evidence
    BY <1>1 DEF Missing
<1>3. s.intent.required \subseteq DOMAIN s.evidence =>
          (Stale(s.intent, e, 120, NOW) = {}
              <=> ~\E n \in DOMAIN e : NOW - e[n].timestamp > 120)
    BY <1>1 DEF Stale
<1>4. RiskGate(c, s.intent, e, NOW) = "ALLOW" <=> sound
    BY <1>2, <1>3 DEF RiskGate
<1>5. Row(c, s).executed["gated"] = (RiskGate(c, s.intent, e, NOW) = "ALLOW")
    BY DEF Row, Executes
<1>6. Defects(s) \cap (c.checks \cup {"always"}) = {} <=> sound
    BY DEF Defects
<1>. QED
    BY <1>4, <1>5, <1>6

LEMMA OrderOfRow ==
    ASSUME NEW c, NEW s, AllChecks \subseteq c.checks, c.targets = DefaultTargets
    PROVE  LET x == Row(c, s).executed IN
           (x["gated"] => x["evidence_policy"]) /\ (x["evidence_policy"] => x["policy"])
BY DEF Row, Executes, RiskGate, EvidenceAwarePolicy, SimplePolicy, AllChecks

LEMMA RowsImply == RowsInv => GateExecutesTheSound /\ EnginesAreOrdered
<1>. SUFFICES ASSUME RowsInv PROVE GateExecutesTheSound /\ EnginesAreOrdered
    OBVIOUS
<1>1. config.targets = DefaultTargets /\ config.ttl = 120
    BY ConfigFacts DEF RowsInv
<1>2. \A n \in DOMAIN rows : rows[n] \in {Row(config, s) : s \in ScenariosOf(plan)}
    BY DEF RowsInv
<1>3. ASSUME NEW n \in DOMAIN rows
      PROVE  rows[n] = Row(config, rows[n].scenario)
    BY <1>2 DEF Row
<1>4. GateExecutesTheSound
    BY <1>1, <1>3, GateOfRow DEF GateExecutesTheSound
<1>5. EnginesAreOrdered
    BY <1>1, <1>3, OrderOfRow DEF EnginesAreOrdered
<1>. QED
    BY <1>4, <1>5

(* For every plan, evidence and ablation, the gate executes exactly the    *)
(* scenarios that no check in force objects to (risk_gate.py:123-159).     *)
THEOREM GateIsExact == Spec => []GateExecutesTheSound
<1>1. RowsInv => GateExecutesTheSound
    BY RowsImply
<1>. QED
    BY RowsInit, RowsStep, <1>1, PTL DEF Spec

(* For every plan and evidence the full gate executes no more than the     *)
(* evidence-aware policy, and that no more than the static one             *)
(* (risk_gate.py:123-219).                                                 *)
THEOREM EnginesOrdered == Spec => []EnginesAreOrdered
<1>1. RowsInv => EnginesAreOrdered
    BY RowsImply
<1>. QED
    BY RowsInit, RowsStep, <1>1, PTL DEF Spec

---------------------------------------------------------------------------------
(* How far the program got: the ablations reported, and the next file.     *)
Progress ==
    /\ stage \in {"running", "writing", "filling", "done", "failed", "killed"}
    /\ \E S : ablations \in Seq(S)
    /\ stage = "running" => written = 0 /\ Len(ablations) = IF variant = 0 THEN 0 ELSE variant - 1
    /\ stage \in {"writing", "filling"} =>
          /\ written \in 0..5
          /\ Len(ablations) = 6

IInv == RowsInv /\ iterations \in Iterations /\ Progress

LEMMA IInit == Init => IInv
<1>. SUFFICES ASSUME Init PROVE IInv
    OBVIOUS
<1>1. <<>> \in Seq({}) /\ Len(<<>>) = 0
    OBVIOUS
<1>. QED
    BY <1>1, RowsInit DEF Init, IInv, Progress

LEMMA IStep == IInv /\ [Next]_vars => IInv'
<1>. SUFFICES ASSUME IInv, [Next]_vars PROVE Progress' /\ iterations' \in Iterations
    BY RowsStep DEF IInv
<1>0. Len(variants) = 6 /\ Len(Artifacts) = 6
    BY DEF variants, Artifacts
<1>1. CASE RunScenario \/ Kill \/ UNCHANGED vars
    BY <1>1 DEF RunScenario, Kill, vars, IInv, Progress
<1>2. CASE FinishMainRun
    BY <1>2 DEF FinishMainRun, IInv, Progress
<1>3. CASE FinishVariant
    <2>1. PICK row : ablations' = Append(ablations, row)
        BY <1>3 DEF FinishVariant
    <2>2. PICK S : ablations \in Seq(S)
        BY DEF IInv, Progress
    <2>3. ablations \in Seq(S \cup {row})
        BY <2>2
    <2>4. ablations' \in Seq(S \cup {row}) /\ Len(ablations') = Len(ablations) + 1
        BY <2>1, <2>3
    <2>5. Len(ablations) = variant - 1 /\ variant \in 1..6
        BY <1>0, <1>3 DEF FinishVariant, IInv, Progress, RowsInv
    <2>6. CASE variant < 6
        <3>1. stage' = "running" /\ variant' = variant + 1
            BY <1>0, <1>3, <2>6 DEF FinishVariant
        <3>. QED
            BY <1>3, <2>4, <2>5, <3>1 DEF FinishVariant, IInv, Progress
    <2>7. CASE variant = 6
        <3>1. stage' = "writing" /\ variant' = variant
            BY <1>0, <1>3, <2>7 DEF FinishVariant
        <3>. QED
            BY <1>3, <2>4, <2>5, <2>7, <3>1 DEF FinishVariant, IInv, Progress
    <2>. QED
        BY <2>5, <2>6, <2>7
<1>4. CASE OpenFile
    BY <1>4 DEF OpenFile, IInv, Progress
<1>5. CASE FillFile
    BY <1>0, <1>5 DEF FillFile, IInv, Progress
<1>6. CASE \E n \in Iterations : Rerun(n)
    <2>1. <<>> \in Seq({}) /\ Len(<<>>) = 0
        OBVIOUS
    <2>. QED
        BY <1>6, <2>1 DEF Rerun, IInv, Progress
<1>. QED
    BY <1>1, <1>2, <1>3, <1>4, <1>5, <1>6 DEF Next

(* The rows are those of the variant under way, and when files are written *)
(* the ablations are complete and there is a next file                     *)
(* (run_benchmark.py:127-192).                                             *)
THEOREM TypeCorrect == Spec => []TypeOK
<1>1. RowsInv => \A n \in DOMAIN rows : /\ rows[n] = Row(config, rows[n].scenario)
                                          /\ rows[n].scenario \in ScenariosOf(plan)
    <2>1. ASSUME RowsInv, NEW n \in DOMAIN rows
          PROVE  \E s \in ScenariosOf(plan) : rows[n] = Row(config, s)
        BY <2>1 DEF RowsInv
    <2>2. \A s : Row(config, s).scenario = s
        BY DEF Row
    <2>. QED
        BY <2>1, <2>2
<1>2. IInv => TypeOK
    BY <1>1 DEF IInv, RowsInv, Progress, TypeOK, variants, Artifacts
<1>. QED
    BY IInit, IStep, <1>2, PTL DEF Spec

---------------------------------------------------------------------------------
(* What a run of the loop has to come to: a row for each scenario and      *)
(* iteration, whatever the configuration, and two records for each row.    *)
Size == Len(plan) * iterations

IndexOf(n) == (n - 1) \div iterations + 1

RowsOf(cfg) == [n \in 1..Size |-> Row(cfg, plan[IndexOf(n)])]

FullGate == GateConfig(DefaultTargets)

LedgerOK(ledger, cfg, n) ==
    /\ \E S : ledger \in Seq(S)
    /\ Len(ledger) = IF cfg.ledger THEN 2 * n ELSE 0

(* The ledger after the next row.                                          *)
Extended(ledger, cfg, row) ==
    ledger \o Recorded(cfg.ledger, row.scenario, "ALLOW", row.baseline, TRUE)
           \o Recorded(cfg.ledger, row.scenario, row.decision, row.executed["gated"], FALSE)

(* The run under way is a prefix of what it comes to.                      *)
LoopInv ==
    /\ Len(rows) <= Size
    /\ \A n \in 1..Len(rows) : rows[n] = Row(config, plan[IndexOf(n)])
    /\ LedgerOK(records, config, Len(rows))

(* The runs that are over left what they had to come to.                   *)
MainInv ==
    IF variant = 0 THEN main = NoRun /\ ablations = <<>>
    ELSE main.rows = RowsOf(FullGate) /\ LedgerOK(main.records, FullGate, Size)

AblationsInv ==
    /\ Len(ablations) <= 6
    /\ \A i \in DOMAIN ablations :
          \E ledger : /\ LedgerOK(ledger, variants[i].config, Size)
                      /\ ablations[i] = AblationRow(variants[i].name,
                                           summarize(RowsOf(variants[i].config), ledger))

FiguresInv == IInv /\ LoopInv /\ MainInv /\ AblationsInv

LEMMA SizeType == RowsInv => Size \in Nat /\ Len(plan) \in Nat /\ iterations \in Nat
<1>. SUFFICES ASSUME RowsInv PROVE Size \in Nat /\ Len(plan) \in Nat /\ iterations \in Nat
    OBVIOUS
<1>1. iterations \in Nat /\ plan \in Seq({plan[n] : n \in DOMAIN plan})
    BY BenchmarkAssumption DEF RowsInv
<1>2. Len(plan) \in Nat
    BY <1>1
<1>. QED
    BY <1>1, <1>2 DEF Size

(* The six variants, and that the first of them is the full gate.          *)
LEMMA WithoutFields ==
    ASSUME NEW check
    PROVE  /\ Without(check).targets = DefaultTargets /\ Without(check).ttl = 120
           /\ Without(check).checks = AllChecks \ {check} /\ Without(check).ledger = TRUE
BY DEF Without, GateConfig, DefaultTargets, base_targets

Mute == [GateConfig(base_targets) EXCEPT !.ledger = FALSE]

LEMMA FullAndMute ==
    /\ FullGate.targets = DefaultTargets /\ FullGate.ttl = 120 /\ FullGate.checks = AllChecks
    /\ FullGate.ledger = TRUE
    /\ Mute.targets = DefaultTargets /\ Mute.ttl = 120 /\ Mute.checks = AllChecks
    /\ Mute.ledger = FALSE
BY DEF Mute, FullGate, GateConfig, DefaultTargets, base_targets

LEMMA SixOf ==
    ASSUME NEW a, NEW b, NEW c, NEW d, NEW e, NEW f, NEW v,
           v = <<[name |-> "full_gate", config |-> a],
                 [name |-> "no_expiration_check", config |-> b],
                 [name |-> "no_rollback_requirement", config |-> c],
                 [name |-> "no_evidence_freshness", config |-> d],
                 [name |-> "no_target_authorization", config |-> e],
                 [name |-> "no_audit_ledger", config |-> f]>>
    PROVE  /\ Len(v) = 6 /\ DOMAIN v = 1..6 /\ v[1].name = "full_gate"
           /\ v[1].config = a /\ v[2].config = b /\ v[3].config = c
           /\ v[4].config = d /\ v[5].config = e /\ v[6].config = f
OBVIOUS

GateOK(cfg) ==
    /\ cfg.targets = DefaultTargets /\ cfg.ttl = 120
    /\ cfg.checks \subseteq AllChecks /\ cfg.ledger \in BOOLEAN

LEMMA SixVariants ==
    /\ Len(variants) = 6 /\ DOMAIN variants = 1..6
    /\ variants[1].name = "full_gate" /\ variants[1].config = FullGate
    /\ \A i \in 1..6 : GateOK(variants[i].config)
    /\ variants[2].config.checks = AllChecks \ {"expiration"}
    /\ variants[3].config.checks = AllChecks \ {"rollback"}
    /\ variants[4].config.checks = AllChecks \ {"freshness"}
    /\ variants[5].config.checks = AllChecks \ {"target"}
    /\ variants[6].config.ledger = FALSE
<1>1. /\ Len(variants) = 6 /\ DOMAIN variants = 1..6
      /\ variants[1].name = "full_gate" /\ variants[1].config = GateConfig(base_targets)
      /\ variants[2].config = Without("expiration") /\ variants[3].config = Without("rollback")
      /\ variants[4].config = Without("freshness") /\ variants[5].config = Without("target")
      /\ variants[6].config = Mute
    <2>1. variants = <<[name |-> "full_gate", config |-> GateConfig(base_targets)],
                       [name |-> "no_expiration_check", config |-> Without("expiration")],
                       [name |-> "no_rollback_requirement", config |-> Without("rollback")],
                       [name |-> "no_evidence_freshness", config |-> Without("freshness")],
                       [name |-> "no_target_authorization", config |-> Without("target")],
                       [name |-> "no_audit_ledger", config |-> Mute]>>
        BY Zenon DEF variants, Mute
    <2>2. /\ Len(variants) = 6 /\ DOMAIN variants = 1..6
          /\ variants[1].name = "full_gate" /\ variants[1].config = GateConfig(base_targets)
          /\ variants[2].config = Without("expiration") /\ variants[3].config = Without("rollback")
          /\ variants[4].config = Without("freshness") /\ variants[5].config = Without("target")
          /\ variants[6].config = Mute
        BY <2>1, SixOf
    <2>. QED
        BY <2>2
<1>2. base_targets = DefaultTargets
    BY DEF DefaultTargets, base_targets
<1>3. /\ variants[2].config.checks = AllChecks \ {"expiration"}
      /\ variants[3].config.checks = AllChecks \ {"rollback"}
      /\ variants[4].config.checks = AllChecks \ {"freshness"}
      /\ variants[5].config.checks = AllChecks \ {"target"}
      /\ variants[6].config.ledger = FALSE
    <2>1. ASSUME NEW check PROVE Without(check).checks = AllChecks \ {check}
        BY WithoutFields
    <2>2. Mute.ledger = FALSE
        BY FullAndMute
    <2>. QED
        BY <1>1, <2>1, <2>2
<1>4. GateOK(FullGate) /\ GateOK(Mute)
    BY FullAndMute DEF GateOK
<1>5. ASSUME NEW check PROVE GateOK(Without(check))
    BY WithoutFields DEF GateOK
<1>6. ASSUME NEW i \in 1..6 PROVE GateOK(variants[i].config)
    <2>1. i \in {1, 2, 3, 4, 5, 6}
        OBVIOUS
    <2>. QED
        BY <1>1, <1>2, <1>4, <1>5, <2>1 DEF FullGate
<1>. QED
    BY <1>1, <1>2, <1>3, <1>6 DEF FullGate

LEMMA EmptyLedger == \A cfg : LedgerOK(<<>>, cfg, 0)
<1>1. <<>> \in Seq({}) /\ Len(<<>>) = 0
    OBVIOUS
<1>. QED
    BY <1>1 DEF LedgerOK

LEMMA LongerLedger ==
    ASSUME NEW ledger, NEW cfg, cfg.ledger \in BOOLEAN, NEW n \in Nat,
           LedgerOK(ledger, cfg, n), NEW row
    PROVE  LedgerOK(Extended(ledger, cfg, row), cfg, n + 1)
<1>1. PICK S : ledger \in Seq(S)
    BY DEF LedgerOK
<1>. DEFINE one(d, x, b) == [intent |-> row.scenario.intent, decision |-> d, executed |-> x,
                             baseline |-> b, evidence_names |-> DOMAIN row.scenario.evidence]
            a == one("ALLOW", row.baseline, TRUE)
            b == one(row.decision, row.executed["gated"], FALSE)
<1>2. CASE cfg.ledger
    <2>1. Extended(ledger, cfg, row) = ledger \o <<a>> \o <<b>>
        BY <1>2 DEF Extended, Recorded
    <2>. HIDE DEF a, b
    <2>2. /\ ledger \o <<a>> \in Seq(S \cup {a}) /\ Len(ledger \o <<a>>) = Len(ledger) + 1
        BY <1>1
    <2>3. /\ (ledger \o <<a>>) \o <<b>> \in Seq(S \cup {a, b})
          /\ Len((ledger \o <<a>>) \o <<b>>) = Len(ledger) + 2
        <3>1. ledger \o <<a>> \in Seq(S \cup {a, b}) /\ Len(ledger) \in Nat
            BY <1>1, <2>2
        <3>. QED
            BY <2>2, <3>1
    <2>4. Len(ledger) = 2 * n
        BY <1>2 DEF LedgerOK
    <2>. QED
        BY <1>2, <2>1, <2>3, <2>4 DEF LedgerOK
<1>3. CASE ~cfg.ledger
    <2>1. Extended(ledger, cfg, row) = ledger \o <<>> \o <<>>
        BY <1>3 DEF Extended, Recorded
    <2>2. ledger \o <<>> = ledger
        BY <1>1
    <2>. QED
        BY <1>3, <2>1, <2>2 DEF LedgerOK
<1>. QED
    BY <1>2, <1>3

LEMMA ConfigOK ==
    ASSUME RowsInv
    PROVE  /\ GateOK(config)
           /\ variant = 0 => config = FullGate
           /\ variant # 0 => variant \in 1..6 /\ config = variants[variant].config
<1>1. GateOK(FullGate)
    BY SixVariants DEF GateOK, FullGate, GateConfig
<1>2. variant \in 0..6
    BY SixVariants DEF RowsInv
<1>. QED
    BY <1>1, <1>2, SixVariants DEF config, FullGate

LEMMA FiguresInit == Init => FiguresInv
<1>. SUFFICES ASSUME Init PROVE FiguresInv
    OBVIOUS
<1>1. IInv /\ RowsInv /\ Len(<<>>) = 0 /\ DOMAIN <<>> = {}
    BY IInit DEF IInv
<1>2. /\ rows = <<>> /\ records = <<>> /\ ablations = <<>> /\ main = NoRun /\ variant = 0
    BY DEF Init
<1>3. LoopInv
    BY <1>1, <1>2, SizeType, EmptyLedger DEF LoopInv
<1>4. MainInv /\ AblationsInv
    BY <1>1, <1>2 DEF MainInv, AblationsInv
<1>. QED
    BY <1>1, <1>3, <1>4 DEF FiguresInv

(* Another turn of the loop.                                               *)
LEMMA LoopGoesOn ==
    ASSUME RowsInv, LoopInv, RunScenario
    PROVE  LoopInv'
<1>1. Size \in Nat /\ Len(plan) \in Nat /\ iterations \in Nat
    BY SizeType
<1>. DEFINE s == plan[Len(rows) \div iterations + 1]
            row == Row(config, s)
<1>2. /\ UNCHANGED <<plan, iterations, variant>> /\ Len(rows) < Size
      /\ rows' = Append(rows, row)
      /\ records' = records
            \o Recorded(config.ledger, s, "ALLOW", row.baseline, TRUE)
            \o Recorded(config.ledger, s, row.decision, row.executed["gated"], FALSE)
    BY DEF RunScenario, Size
<1>3. config' = config /\ Size' = Size
    BY <1>2 DEF config, Size
<1>4. PICK S : rows \in Seq(S)
    BY DEF RowsInv
<1>5. Len(rows) \in Nat /\ s = plan[IndexOf(Len(rows) + 1)]
    BY <1>4 DEF IndexOf
<1>. HIDE DEF s
<1>6. records' = Extended(records, config, row)
    <2>1. row.scenario = s
        BY DEF Row
    <2>. HIDE DEF row
    <2>. QED
        BY <1>2, <2>1 DEF Extended
<1>. HIDE DEF row
<1>7. /\ Len(rows') = Len(rows) + 1 /\ rows'[Len(rows) + 1] = row
      /\ \A n \in 1..Len(rows) : rows'[n] = rows[n]
    BY <1>2, <1>4
<1>8. Len(rows') <= Size
    BY <1>1, <1>2, <1>5, <1>7
<1>9. ASSUME NEW n \in 1..(Len(rows) + 1)
      PROVE  rows'[n] = Row(config, plan[IndexOf(n)])
    <2>1. CASE n = Len(rows) + 1
        BY <1>5, <1>7, <2>1 DEF row
    <2>2. CASE n # Len(rows) + 1
        <3>1. n \in 1..Len(rows)
            BY <1>5, <2>2
        <3>. QED
            BY <1>7, <3>1 DEF LoopInv
    <2>. QED
        BY <2>1, <2>2
<1>10. LedgerOK(records', config, Len(rows) + 1)
    BY <1>5, <1>6, ConfigOK, LongerLedger DEF LoopInv, GateOK
<1>11. \A n : IndexOf(n)' = IndexOf(n)
    BY <1>2 DEF IndexOf
<1>. QED
    BY <1>2, <1>3, <1>7, <1>8, <1>9, <1>10, <1>11 DEF LoopInv

(* The loop at its end.                                                    *)
LEMMA LoopIsOver ==
    ASSUME RowsInv, LoopInv, Len(rows) = Size
    PROVE  rows = RowsOf(config) /\ LedgerOK(records, config, Size)
<1>1. PICK S : rows \in Seq(S)
    BY DEF RowsInv
<1>2. rows = [n \in 1..Size |-> rows[n]]
    BY <1>1
<1>. QED
    BY <1>2 DEF LoopInv, RowsOf

LEMMA FiguresStep == FiguresInv /\ [Next]_vars => FiguresInv'
<1>. SUFFICES ASSUME FiguresInv, [Next]_vars PROVE LoopInv' /\ MainInv' /\ AblationsInv'
    BY IStep DEF FiguresInv
<1>0. /\ RowsInv /\ LoopInv /\ MainInv /\ AblationsInv /\ Len(<<>>) = 0 /\ DOMAIN <<>> = {}
      /\ RowsInv' /\ Progress
    BY IStep DEF FiguresInv, IInv
<1>1. Size \in Nat /\ Size' \in Nat
    <2>1. plan' \in Plans /\ iterations' \in Nat
        BY <1>0 DEF RowsInv
    <2>2. Len(plan') \in Nat
        BY <2>1, BenchmarkAssumption
    <2>. QED
        BY <1>0, <2>1, <2>2, SizeType DEF Size
<1>2. CASE RunScenario
    <2>1. UNCHANGED <<plan, iterations, variant, main, ablations>>
        BY <1>2 DEF RunScenario
    <2>2. \A cfg : RowsOf(cfg)' = RowsOf(cfg)
        BY <2>1 DEF RowsOf, Size, IndexOf
    <2>3. Size' = Size
        BY <2>1 DEF Size
    <2>4. MainInv'
        BY <1>0, <2>1, <2>2, <2>3 DEF MainInv
    <2>5. AblationsInv'
        BY <1>0, <2>1, <2>2, <2>3 DEF AblationsInv
    <2>. QED
        BY <1>0, <1>2, <2>4, <2>5, LoopGoesOn
<1>3. CASE FinishMainRun
    <2>1. /\ UNCHANGED <<plan, iterations, ablations>> /\ variant = 0 /\ variant' = 1
          /\ rows' = <<>> /\ records' = <<>> /\ Len(rows) = Size
          /\ main' = [rows |-> rows, records |-> records]
        BY <1>3 DEF FinishMainRun, Size
    <2>2. Size' = Size /\ RowsOf(FullGate)' = RowsOf(FullGate)
        BY <2>1 DEF RowsOf, Size, IndexOf, FullGate, GateConfig
    <2>3. rows = RowsOf(FullGate) /\ LedgerOK(records, FullGate, Size)
        BY <1>0, <2>1, ConfigOK, LoopIsOver
    <2>4. MainInv'
        BY <2>1, <2>2, <2>3 DEF MainInv
    <2>5. AblationsInv'
        BY <1>0, <2>1 DEF MainInv, AblationsInv
    <2>6. LoopInv'
        BY <1>0, <1>1, <2>1, EmptyLedger DEF LoopInv
    <2>. QED
        BY <2>4, <2>5, <2>6
<1>4. CASE FinishVariant
    <2>1. /\ UNCHANGED <<plan, iterations, main>> /\ variant # 0 /\ variant' # 0
          /\ rows' = <<>> /\ records' = <<>> /\ Len(rows) = Size
          /\ stage = "running"
          /\ ablations' =
                Append(ablations, AblationRow(variants[variant].name, summarize(rows, records)))
        BY <1>0, <1>4, SixVariants DEF FinishVariant, Size, RowsInv
    <2>2. \A cfg : RowsOf(cfg)' = RowsOf(cfg)
        BY <2>1 DEF RowsOf, Size, IndexOf
    <2>3. Size' = Size
        BY <2>1 DEF Size
    <2>4. /\ variant \in 1..6 /\ rows = RowsOf(variants[variant].config)
          /\ LedgerOK(records, variants[variant].config, Size)
        BY <1>0, <2>1, ConfigOK, LoopIsOver
    <2>. DEFINE x == AblationRow(variants[variant].name, summarize(rows, records))
    <2>5. PICK S : ablations \in Seq(S)
        BY <1>0 DEF Progress
    <2>6. Len(ablations) = variant - 1
        BY <1>0, <2>1 DEF Progress
    <2>7. /\ ablations' = Append(ablations, x)
          /\ x = AblationRow(variants[variant].name,
                             summarize(RowsOf(variants[variant].config), records))
        BY <2>1, <2>4
    <2>. HIDE DEF x
    <2>8. /\ Len(ablations') = variant /\ DOMAIN ablations' = 1..variant
          /\ DOMAIN ablations = 1..(variant - 1) /\ ablations'[variant] = x
          /\ \A i \in 1..(variant - 1) : ablations'[i] = ablations[i]
        BY <2>4, <2>5, <2>6, <2>7
    <2>9. \A i \in 1..variant : i = variant \/ i \in 1..(variant - 1)
        BY <2>4
    <2>10. AblationsInv'
        BY <1>0, <2>2, <2>3, <2>4, <2>7, <2>8, <2>9 DEF AblationsInv
    <2>11. MainInv'
        BY <1>0, <2>1, <2>2, <2>3 DEF MainInv
    <2>12. LoopInv'
        BY <1>0, <1>1, <2>1, EmptyLedger DEF LoopInv
    <2>. QED
        BY <2>10, <2>11, <2>12
<1>5. CASE \E n \in Iterations : Rerun(n)
    <2>1. /\ rows' = <<>> /\ records' = <<>> /\ variant' = 0 /\ main' = NoRun
          /\ ablations' = <<>>
        BY <1>5 DEF Rerun
    <2>2. LoopInv'
        BY <1>0, <1>1, <2>1, EmptyLedger DEF LoopInv
    <2>. QED
        BY <1>0, <2>1, <2>2 DEF MainInv, AblationsInv
<1>6. CASE OpenFile \/ FillFile \/ Kill \/ UNCHANGED vars
    <2>1. UNCHANGED <<plan, iterations, variant, rows, records, main, ablations>>
        BY <1>6 DEF OpenFile, FillFile, Kill, vars
    <2>2. config' = config /\ Size' = Size /\ \A cfg : RowsOf(cfg)' = RowsOf(cfg)
        BY <2>1 DEF config, RowsOf, Size, IndexOf
    <2>3. \A n : IndexOf(n)' = IndexOf(n)
        BY <2>1 DEF IndexOf
    <2>4. LoopInv'
        BY <1>0, <2>1, <2>2, <2>3 DEF LoopInv
    <2>5. MainInv' /\ AblationsInv'
        BY <1>0, <2>1, <2>2 DEF MainInv, AblationsInv
    <2>. QED
        BY <2>4, <2>5
<1>. QED
    BY <1>2, <1>3, <1>4, <1>5, <1>6 DEF Next

LEMMA FiguresInvariant == Spec => []FiguresInv
BY FiguresInit, FiguresStep, PTL DEF Spec

---------------------------------------------------------------------------------
(* The sets that the figures count, for a run under a configuration.       *)
ScenarioAt(n) == plan[IndexOf(n)]

UnsafeTurns == {n \in 1..Size : ScenarioAt(n).unsafe}

ExecutedTurns(cfg, e) == {n \in 1..Size : Row(cfg, ScenarioAt(n)).executed[e]}

LEMMA TurnsAreFinite ==
    ASSUME RowsInv, NEW T, T \subseteq 1..Size
    PROVE  IsFiniteSet(T) /\ Cardinality(T) \in Nat
<1>1. IsFiniteSet(1..Size)
    BY SizeType, FS_Interval
<1>. QED
    BY <1>1, FS_Subset, FS_CardinalityType

LEMMA RowsCount ==
    ASSUME NEW cfg
    PROVE  /\ DOMAIN RowsOf(cfg) = 1..Size
           /\ UnsafeRows(RowsOf(cfg)) = UnsafeTurns
           /\ SafeRows(RowsOf(cfg)) = 1..Size \ UnsafeTurns
           /\ \A e : {n \in DOMAIN RowsOf(cfg) : RowsOf(cfg)[n].executed[e]}
                        = ExecutedTurns(cfg, e)
<1>1. /\ DOMAIN RowsOf(cfg) = 1..Size
      /\ \A n \in 1..Size : RowsOf(cfg)[n] = Row(cfg, ScenarioAt(n))
    BY DEF RowsOf, ScenarioAt
<1>2. \A s : Row(cfg, s).scenario = s
    BY DEF Row
<1>3. UnsafeRows(RowsOf(cfg)) = UnsafeTurns
    BY <1>1, <1>2 DEF UnsafeRows, UnsafeTurns
<1>. QED
    BY <1>1, <1>3 DEF SafeRows, ExecutedTurns

FiguresOf(data, cfg, ledger) ==
    /\ data.audit_records_generated = Len(ledger)
    /\ \A e \in Engines :
          /\ data.unsafe_executed[e] = Cardinality(UnsafeTurns \cap ExecutedTurns(cfg, e))
          /\ data.unsafe_blocked[e]  = Cardinality(UnsafeTurns \ ExecutedTurns(cfg, e))
          /\ data.false_positives[e] =
                Cardinality((1..Size \ UnsafeTurns) \ ExecutedTurns(cfg, e))

LEMMA SummaryFigures ==
    ASSUME NEW cfg, NEW ledger
    PROVE  FiguresOf(summarize(RowsOf(cfg), ledger), cfg, ledger)
BY RowsCount DEF summarize, FiguresOf

LEMMA AblationKeeps ==
    ASSUME NEW name, NEW data, NEW cfg, NEW ledger, FiguresOf(data, cfg, ledger)
    PROVE  FiguresOf(AblationRow(name, data), cfg, ledger)
BY DEF AblationRow, FiguresOf

LEMMA AblationFigures ==
    ASSUME FiguresInv, NEW i \in DOMAIN ablations, NEW e \in Engines
    PROVE  LET cfg == variants[i].config
               row == ablations[i] IN
           /\ i \in 1..6 /\ GateOK(cfg)
           /\ row.unsafe_executed[e] = Cardinality(UnsafeTurns \cap ExecutedTurns(cfg, e))
           /\ row.unsafe_blocked[e]  = Cardinality(UnsafeTurns \ ExecutedTurns(cfg, e))
           /\ row.false_positives[e] =
                 Cardinality((1..Size \ UnsafeTurns) \ ExecutedTurns(cfg, e))
<1>1. PICK ledger : ablations[i] = AblationRow(variants[i].name,
                                      summarize(RowsOf(variants[i].config), ledger))
    BY DEF FiguresInv, AblationsInv
<1>2. i \in 1..6
    <2>1. PICK S : ablations \in Seq(S)
        BY DEF FiguresInv, IInv, Progress
    <2>. QED
        BY <2>1 DEF FiguresInv, AblationsInv
<1>3. GateOK(variants[i].config)
    BY <1>2, SixVariants
<1>4. FiguresOf(ablations[i], variants[i].config, ledger)
    BY <1>1, SummaryFigures, AblationKeeps
<1>. QED
    BY <1>2, <1>3, <1>4 DEF FiguresOf

(* A configuration with fewer checks executes more, and the engines that   *)
(* have no checks to switch off the same.                                  *)
LEMMA FewerChecks ==
    ASSUME NEW cfg, GateOK(cfg)
    PROVE  /\ ExecutedTurns(FullGate, "gated") \subseteq ExecutedTurns(cfg, "gated")
           /\ \A e \in Engines \ {"gated"} : ExecutedTurns(FullGate, e) = ExecutedTurns(cfg, e)
<1>1. GateOK(FullGate) /\ FullGate.checks = AllChecks
    BY FullAndMute DEF GateOK
<1>2. ASSUME NEW s, Row(FullGate, s).executed["gated"]
      PROVE  Row(cfg, s).executed["gated"]
    <2>1. Defects(s) \cap (AllChecks \cup {"always"}) = {}
        BY <1>1, <1>2, GateOfRow DEF GateOK
    <2>2. Defects(s) \cap (cfg.checks \cup {"always"}) = {}
        BY <2>1 DEF GateOK
    <2>. QED
        BY <2>2, GateOfRow DEF GateOK
<1>3. ASSUME NEW s, NEW e \in Engines \ {"gated"}
      PROVE  Row(FullGate, s).executed[e] = Row(cfg, s).executed[e]
    <2>1. FullGate.targets = cfg.targets
        BY <1>1 DEF GateOK
    <2>2. CASE e = "policy"
        <3>1. \A c : Row(c, s).executed["policy"]
                        = Executes(SimplePolicy(s.intent, c.targets))
            BY DEF Row
        <3>. QED
            BY <2>1, <2>2, <3>1
    <2>3. CASE e = "evidence_policy"
        <3>1. \A c : Row(c, s).executed["evidence_policy"]
                        = Executes(EvidenceAwarePolicy(s.intent, Collect(s), c.targets, NOW))
            BY DEF Row
        <3>. QED
            BY <2>1, <2>3, <3>1
    <2>. QED
        BY <2>2, <2>3 DEF Engines
<1>4. ExecutedTurns(FullGate, "gated") \subseteq ExecutedTurns(cfg, "gated")
    BY <1>2 DEF ExecutedTurns
<1>5. ASSUME NEW e \in Engines \ {"gated"}
      PROVE  ExecutedTurns(FullGate, e) = ExecutedTurns(cfg, e)
    BY <1>3 DEF ExecutedTurns
<1>. QED
    BY <1>4, <1>5

(* For every plan and number of iterations, no ablation makes the gate     *)
(* stricter, and the engines it does not concern score the same            *)
(* (run_benchmark.py:139-192, risk_gate.py:123-219).                       *)
THEOREM AblationsLoosen == Spec => []AblationsOnlyLoosen
<1>1. ASSUME FiguresInv, NEW i \in DOMAIN ablations
      PROVE  /\ ablations[i].unsafe_executed["gated"] >= ablations[1].unsafe_executed["gated"]
             /\ ablations[i].false_positives["gated"] <= ablations[1].false_positives["gated"]
             /\ \A f \in {"unsafe_executed", "unsafe_blocked", "false_positives"},
                   e \in Engines \ {"gated"} : ablations[i][f][e] = ablations[1][f][e]
    <2>1. RowsInv /\ 1 \in DOMAIN ablations /\ "gated" \in Engines
        <3>1. PICK S : ablations \in Seq(S)
            BY <1>1 DEF FiguresInv, IInv, Progress
        <3>2. RowsInv
            BY <1>1 DEF FiguresInv, IInv
        <3>. QED
            BY <1>1, <3>1, <3>2 DEF Engines
    <2>. DEFINE cfg == variants[i].config
    <2>2. GateOK(cfg) /\ variants[1].config = FullGate
        BY <1>1, <2>1, AblationFigures, SixVariants
    <2>. DEFINE executed(c, e) == UnsafeTurns \cap ExecutedTurns(c, e)
                stopped(c, e)  == UnsafeTurns \ ExecutedTurns(c, e)
                wrongly(c, e)  == (1..Size \ UnsafeTurns) \ ExecutedTurns(c, e)
    <2>3. ASSUME NEW e \in Engines
          PROVE  /\ ablations[i].unsafe_executed[e] = Cardinality(executed(cfg, e))
                 /\ ablations[i].unsafe_blocked[e] = Cardinality(stopped(cfg, e))
                 /\ ablations[i].false_positives[e] = Cardinality(wrongly(cfg, e))
                 /\ ablations[1].unsafe_executed[e] = Cardinality(executed(FullGate, e))
                 /\ ablations[1].unsafe_blocked[e] = Cardinality(stopped(FullGate, e))
                 /\ ablations[1].false_positives[e] = Cardinality(wrongly(FullGate, e))
        BY <1>1, <2>1, <2>2, <2>3, AblationFigures
    <2>4. executed(FullGate, "gated") \subseteq executed(cfg, "gated")
        BY <2>2, FewerChecks
    <2>5. wrongly(cfg, "gated") \subseteq wrongly(FullGate, "gated")
        BY <2>2, FewerChecks
    <2>6. IsFiniteSet(executed(cfg, "gated")) /\ IsFiniteSet(wrongly(FullGate, "gated"))
        <3>1. executed(cfg, "gated") \subseteq 1..Size
            BY DEF UnsafeTurns
        <3>2. wrongly(FullGate, "gated") \subseteq 1..Size
            OBVIOUS
        <3>. HIDE DEF executed, wrongly
        <3>. QED
            BY <2>1, <3>1, <3>2, TurnsAreFinite
    <2>7. \A e \in Engines \ {"gated"} : ExecutedTurns(FullGate, e) = ExecutedTurns(cfg, e)
        BY <2>2, FewerChecks
    <2>8. \A e \in Engines \ {"gated"} :
             /\ executed(FullGate, e) = executed(cfg, e) /\ stopped(FullGate, e) = stopped(cfg, e)
             /\ wrongly(FullGate, e) = wrongly(cfg, e)
        BY <2>7
    <2>. HIDE DEF executed, stopped, wrongly, cfg
    <2>9. /\ Cardinality(executed(FullGate, "gated")) <= Cardinality(executed(cfg, "gated"))
          /\ Cardinality(wrongly(cfg, "gated")) <= Cardinality(wrongly(FullGate, "gated"))
        BY <2>4, <2>5, <2>6, FS_Subset
    <2>10. /\ Cardinality(executed(FullGate, "gated")) \in Nat
           /\ Cardinality(executed(cfg, "gated")) \in Nat
           /\ Cardinality(wrongly(cfg, "gated")) \in Nat
           /\ Cardinality(wrongly(FullGate, "gated")) \in Nat
        BY <2>4, <2>5, <2>6, FS_Subset, FS_CardinalityType
    <2>11. /\ ablations[i].unsafe_executed["gated"] >= ablations[1].unsafe_executed["gated"]
           /\ ablations[i].false_positives["gated"] <= ablations[1].false_positives["gated"]
        BY <2>1, <2>3, <2>9, <2>10
    <2>12. ASSUME NEW e \in Engines \ {"gated"}
           PROVE  /\ ablations[i].unsafe_executed[e] = ablations[1].unsafe_executed[e]
                  /\ ablations[i].unsafe_blocked[e] = ablations[1].unsafe_blocked[e]
                  /\ ablations[i].false_positives[e] = ablations[1].false_positives[e]
        BY <2>3, <2>8, <2>12
    <2>. QED
        BY <2>11, <2>12
<1>2. FiguresInv => AblationsOnlyLoosen
    BY <1>1 DEF AblationsOnlyLoosen
<1>. QED
    BY <1>2, FiguresInvariant, PTL

---------------------------------------------------------------------------------
(* The turns of a scenario come one after the other.                       *)
LEMMA Monotone ==
    ASSUME NEW c \in Nat, NEW x \in Int, NEW y \in Int
    PROVE  /\ c * x < c * y => x < y
           /\ x <= y => c * x <= c * y
OBVIOUS

LEMMA Division ==
    ASSUME NEW a \in Nat, NEW c \in Nat \ {0}
    PROVE  /\ a \div c \in Nat
           /\ c * (a \div c) <= a /\ a < c * (a \div c + 1)
OBVIOUS

LEMMA TurnOf ==
    ASSUME NEW b \in Nat, NEW c \in Nat \ {0}, NEW k \in 1..b, NEW j \in 1..c,
           NEW n, n = c * (k - 1) + j
    PROVE  n \in 1..(b * c) /\ (n - 1) \div c + 1 = k
<1>1. k - 1 \in Nat /\ n \in Nat /\ n - 1 = c * (k - 1) + (j - 1) /\ n >= 1
    <2>1. k - 1 \in Nat
        OBVIOUS
    <2>2. c * (k - 1) \in Nat
        BY <2>1
    <2>. QED
        BY <2>1, <2>2
<1>2. c * (k - 1) + c = c * k /\ c * k \in Int /\ c * (k - 1) \in Int
    OBVIOUS
<1>3. n \in 1..(b * c)
    <2>1. c * k <= c * b
        BY Monotone
    <2>2. c * b = b * c /\ b * c \in Int
        OBVIOUS
    <2>. QED
        BY <1>1, <1>2, <2>1, <2>2
<1>4. (n - 1) \div c = k - 1
    <2>. DEFINE q == (n - 1) \div c
    <2>1. q \in Nat /\ c * q <= n - 1 /\ n - 1 < c * (q + 1)
        BY <1>1, Division
    <2>. HIDE DEF q
    <2>2. c * q \in Int /\ c * (q + 1) \in Int
        BY <2>1
    <2>3. c * (k - 1) < c * (q + 1) /\ c * q < c * k
        BY <1>1, <1>2, <2>1, <2>2
    <2>4. k - 1 < q + 1 /\ q < k
        BY <1>1, <2>1, <2>3, Monotone
    <2>. QED
        BY <1>1, <2>1, <2>4 DEF q
<1>. QED
    BY <1>1, <1>3, <1>4

LEMMA FirstTurn ==
    ASSUME NEW b \in Nat, NEW c \in Nat \ {0}, NEW k \in 1..b, NEW n, n = c * (k - 1) + 1
    PROVE  /\ n \in 1..(b * c) /\ (n - 1) \div c + 1 = k
           /\ \A m \in 1..(n - 1) : (m - 1) \div c + 1 < k
<1>1. k - 1 \in Nat /\ c * (k - 1) \in Int /\ n - 1 = c * (k - 1) /\ 1 \in 1..c
    OBVIOUS
<1>2. n \in 1..(b * c) /\ (n - 1) \div c + 1 = k
    BY <1>1, TurnOf
<1>3. ASSUME NEW m \in 1..(n - 1)
      PROVE  (m - 1) \div c + 1 < k
    <2>. DEFINE q == (m - 1) \div c
    <2>1. m - 1 \in Nat /\ m - 1 < n - 1
        BY <1>1, <1>2
    <2>2. q \in Nat /\ c * q <= m - 1
        BY <2>1, Division
    <2>. HIDE DEF q
    <2>3. c * q < c * (k - 1)
        <3>1. c * q \in Int
            BY <2>2
        <3>. QED
            BY <1>1, <2>1, <2>2, <3>1
    <2>4. q < k - 1
        BY <1>1, <2>2, <2>3, Monotone
    <2>. QED
        BY <1>1, <2>2, <2>4 DEF q
<1>. QED
    BY <1>2, <1>3

(* The page has a line for each scenario, as no two of a plan are the same.*)
LEMMA OneLinePerScenario ==
    ASSUME RowsInv, NEW cfg
    PROVE  Size = iterations * Cardinality(FirstRows(RowsOf(cfg)))
<1>1. /\ Size \in Nat /\ Len(plan) \in Nat /\ iterations \in Nat
      /\ plan \in Seq({plan[n] : n \in DOMAIN plan})
    BY SizeType, BenchmarkAssumption DEF RowsInv
<1>2. DOMAIN plan = 1..Len(plan)
    BY <1>1
<1>. DEFINE rs == RowsOf(cfg)
            first == {n \in DOMAIN rs : \A m \in 1..(n - 1) : rs[m].scenario # rs[n].scenario}
            one(k) == Row(cfg, plan[k])
            all == {one(k) : k \in 1..Len(plan)}
<1>3. /\ DOMAIN rs = 1..Size
      /\ \A n \in 1..Size : rs[n] = one(IndexOf(n)) /\ rs[n].scenario = plan[IndexOf(n)]
    BY DEF RowsOf, Row
<1>. HIDE DEF rs
<1>4. CASE iterations = 0
    <2>1. Size = 0
        BY <1>1, <1>4 DEF Size
    <2>2. FirstRows(rs) = {}
        BY <1>3, <2>1 DEF FirstRows
    <2>3. Cardinality({}) = 0
        BY FS_EmptySet
    <2>. QED
        BY <1>4, <2>1, <2>2, <2>3 DEF rs
<1>5. CASE iterations # 0
    <2>1. ASSUME NEW n \in 1..Size PROVE IndexOf(n) \in 1..Len(plan)
        <3>1. n - 1 \in Nat /\ n - 1 < Len(plan) * iterations
            BY <1>1 DEF Size
        <3>. QED
            BY <1>1, <3>1, NextIndex DEF IndexOf
    <2>2. FirstRows(rs) \subseteq all
        <3>1. ASSUME NEW n \in first PROVE rs[n] \in all
            BY <1>3, <2>1
        <3>. QED
            BY <3>1 DEF FirstRows
    <2>3. ASSUME NEW k \in 1..Len(plan) PROVE one(k) \in FirstRows(rs)
        <3>. DEFINE n == iterations * (k - 1) + 1
        <3>1. /\ n \in 1..Size /\ IndexOf(n) = k
              /\ \A m \in 1..(n - 1) : IndexOf(m) < k
            BY <1>1, <1>5, FirstTurn DEF Size, IndexOf
        <3>. HIDE DEF n
        <3>2. ASSUME NEW m \in 1..(n - 1) PROVE rs[m].scenario # rs[n].scenario
            <4>1. m \in 1..Size /\ n \in Int
                BY <1>1, <3>1
            <4>2. IndexOf(m) \in 1..Len(plan) /\ IndexOf(m) # k
                BY <2>1, <3>1, <4>1
            <4>3. plan[IndexOf(m)] # plan[k]
                BY <1>2, <4>2, PlanAssumption DEF RowsInv
            <4>. QED
                BY <1>3, <3>1, <4>1, <4>3
        <3>3. n \in first /\ rs[n] = one(k)
            BY <1>3, <3>1, <3>2
        <3>. QED
            BY <3>3 DEF FirstRows
    <2>4. FirstRows(rs) = all
        BY <2>2, <2>3
    <2>. DEFINE f == [k \in 1..Len(plan) |-> one(k)]
    <2>5. f \in [1..Len(plan) -> all] /\ \A k \in 1..Len(plan) : f[k] = one(k)
        OBVIOUS
    <2>6. \A j, k \in 1..Len(plan) : one(j) = one(k) => j = k
        <3>1. \A k : one(k).scenario = plan[k]
            BY DEF Row
        <3>2. \A j, k \in 1..Len(plan) : plan[j] = plan[k] => j = k
            BY <1>2, PlanAssumption DEF RowsInv
        <3>. QED
            BY <3>1, <3>2
    <2>7. \A t \in all : \E k \in 1..Len(plan) : one(k) = t
        OBVIOUS
    <2>. HIDE DEF f, all, one
    <2>8. f \in Bijection(1..Len(plan), all)
        BY <2>5, <2>6, <2>7, Fun_IsBij
    <2>9. IsFiniteSet(1..Len(plan)) /\ Cardinality(1..Len(plan)) = Len(plan)
        BY <1>1, FS_Interval
    <2>10. Cardinality(all) = Len(plan)
        BY <2>8, <2>9, FS_Bijection, Fun_ExistsBij
    <2>. QED
        BY <1>1, <2>4, <2>10 DEF Size, rs
<1>. QED
    BY <1>4, <1>5

---------------------------------------------------------------------------------
(* The ledgers of a run of the full gate, after each of its rows: main's   *)
(* own run and that of the first variant go through the same ones.         *)
Trace(P, last) ==
    /\ P[0] = <<>>
    /\ \A n \in 1..last :
          P[n] = Extended(P[n - 1], FullGate, Row(FullGate, plan[IndexOf(n)]))

TraceInv ==
    /\ variant = 0 => \E P : Trace(P, Len(rows)) /\ records = P[Len(rows)]
    /\ variant = 1 => \E P : /\ Trace(P, Size)
                             /\ main.records = P[Size] /\ records = P[Len(rows)]
    /\ variant > 1 => ablations[1] = AblationRow("full_gate", summarize(main.rows, main.records))

(* The files that this run has written have what it computed.              *)
FilesInv ==
    /\ files = [f \in FileNames |-> files[f]]
    /\ stage \in {"writing", "filling", "done"} =>
          /\ variant > 1 /\ written \in 0..6
          /\ \A k \in 1..written : files[Artifacts[k]] = <<Content(Artifacts[k])>>
    /\ stage = "done" => written = 6

ArtifactsInv == FiguresInv /\ TraceInv /\ FilesInv

LEMMA ArtifactsInit == Init => ArtifactsInv
<1>. SUFFICES ASSUME Init PROVE ArtifactsInv
    OBVIOUS
<1>1. /\ rows = <<>> /\ records = <<>> /\ variant = 0 /\ stage = "running"
      /\ files = [f \in FileNames |-> <<>>]
    BY DEF Init
<1>2. FilesInv
    BY <1>1 DEF FilesInv
<1>3. TraceInv
    <2>. DEFINE P == [n \in {0} |-> <<>>]
    <2>1. Len(<<>>) = 0 /\ P[0] = <<>> /\ 1..0 = {}
        OBVIOUS
    <2>2. Trace(P, 0)
        BY <2>1 DEF Trace
    <2>. QED
        BY <1>1, <2>1, <2>2 DEF TraceInv
<1>. QED
    BY <1>2, <1>3, FiguresInit DEF ArtifactsInv

(* A turn of the loop of a full gate adds the next ledger.                 *)
LEMMA NextLedger ==
    ASSUME RowsInv, LoopInv, RunScenario, config = FullGate
    PROVE  /\ UNCHANGED <<plan, iterations, variant, main, ablations>>
           /\ Len(rows) \in Nat /\ Len(rows) < Size /\ Len(rows') = Len(rows) + 1
           /\ records' = Extended(records, FullGate,
                                  Row(FullGate, plan[IndexOf(Len(rows) + 1)]))
<1>. DEFINE s == plan[Len(rows) \div iterations + 1]
            row == Row(FullGate, s)
<1>1. /\ UNCHANGED <<plan, iterations, variant, main, ablations>> /\ Len(rows) < Size
      /\ rows' = Append(rows, row)
      /\ records' = records
            \o Recorded(FullGate.ledger, s, "ALLOW", row.baseline, TRUE)
            \o Recorded(FullGate.ledger, s, row.decision, row.executed["gated"], FALSE)
    BY DEF RunScenario, Size
<1>2. PICK S : rows \in Seq(S)
    BY DEF RowsInv
<1>3. Len(rows) \in Nat /\ s = plan[IndexOf(Len(rows) + 1)]
    BY <1>2 DEF IndexOf
<1>. HIDE DEF s
<1>4. row.scenario = s
    BY DEF Row
<1>5. records' = Extended(records, FullGate, row)
    <2>. HIDE DEF row
    <2>. QED
        BY <1>1, <1>4 DEF Extended
<1>6. Len(rows') = Len(rows) + 1
    <2>. HIDE DEF row
    <2>. QED
        BY <1>1, <1>2
<1>. QED
    BY <1>1, <1>3, <1>5, <1>6

LEMMA TraceGrows ==
    ASSUME NEW P, NEW n \in Nat, Trace(P, n), NEW ledger,
           ledger = Extended(P[n], FullGate, Row(FullGate, plan[IndexOf(n + 1)]))
    PROVE  \E Q : Trace(Q, n + 1) /\ Q[n + 1] = ledger
<1>. DEFINE Q == [k \in 0..(n + 1) |-> IF k = n + 1 THEN ledger ELSE P[k]]
<1>1. /\ Q[n + 1] = ledger /\ Q[0] = P[0]
      /\ \A k \in 1..n : Q[k] = P[k] /\ Q[k - 1] = P[k - 1]
      /\ Q[n] = P[n] /\ (n + 1) - 1 = n
    OBVIOUS
<1>2. \A k \in 1..(n + 1) : k = n + 1 \/ k \in 1..n
    OBVIOUS
<1>. HIDE DEF Q
<1>3. Trace(Q, n + 1)
    BY <1>1, <1>2 DEF Trace
<1>. QED
    BY <1>1, <1>3

LEMMA TraceStep ==
    ASSUME FiguresInv, TraceInv, [Next]_vars
    PROVE  TraceInv'
<1>0. /\ RowsInv /\ LoopInv /\ MainInv /\ AblationsInv /\ Progress /\ Size \in Nat
      /\ variant \in 0..6
    BY SizeType, SixVariants DEF FiguresInv, IInv, RowsInv
<1>1. CASE RunScenario
    <2>1. UNCHANGED <<plan, iterations, variant, main, ablations>>
        BY <1>1 DEF RunScenario
    <2>2. Size' = Size /\ \A n : IndexOf(n)' = IndexOf(n)
        BY <2>1 DEF Size, IndexOf
    <2>3. \A P, n : Trace(P, n) => Trace(P, n)'
        BY <2>1, <2>2 DEF Trace
    <2>4. CASE variant \in {0, 1}
        <3>1. config = FullGate
            BY <1>0, <2>4, ConfigOK, SixVariants
        <3>2. /\ Len(rows) \in Nat /\ Len(rows) < Size /\ Len(rows') = Len(rows) + 1
              /\ records' = Extended(records, FullGate,
                                     Row(FullGate, plan[IndexOf(Len(rows) + 1)]))
            BY <1>0, <1>1, <3>1, NextLedger
        <3>3. CASE variant = 0
            <4>1. PICK P : Trace(P, Len(rows)) /\ records = P[Len(rows)]
                BY <3>3 DEF TraceInv
            <4>2. PICK Q : Trace(Q, Len(rows) + 1) /\ Q[Len(rows) + 1] = records'
                BY <3>2, <4>1, TraceGrows
            <4>3. Trace(Q, Len(rows))'
                BY <2>1, <2>2, <3>2, <4>2 DEF Trace
            <4>. QED
                BY <2>1, <3>2, <3>3, <4>2, <4>3 DEF TraceInv
        <3>4. CASE variant = 1
            <4>1. PICK P : /\ Trace(P, Size)
                           /\ main.records = P[Size] /\ records = P[Len(rows)]
                BY <3>4 DEF TraceInv
            <4>2. P[Len(rows) + 1] = records'
                <5>1. Len(rows) + 1 \in 1..Size /\ (Len(rows) + 1) - 1 = Len(rows)
                    BY <1>0, <3>2
                <5>2. P[Len(rows) + 1] =
                         Extended(P[(Len(rows) + 1) - 1], FullGate,
                                  Row(FullGate, plan[IndexOf(Len(rows) + 1)]))
                    BY <4>1, <5>1 DEF Trace
                <5>. QED
                    BY <3>2, <4>1, <5>1, <5>2
            <4>3. Trace(P, Size)'
                BY <2>2, <2>3, <4>1
            <4>. QED
                BY <2>1, <2>2, <3>2, <3>4, <4>1, <4>2, <4>3 DEF TraceInv
        <3>. QED
            BY <2>4, <3>3, <3>4
    <2>5. CASE variant \notin {0, 1}
        BY <2>1, <2>5 DEF TraceInv
    <2>. QED
        BY <2>4, <2>5
<1>2. CASE FinishMainRun
    <2>1. /\ UNCHANGED <<plan, iterations>> /\ variant = 0 /\ variant' = 1
          /\ rows' = <<>> /\ records' = <<>> /\ Len(rows) = Size
          /\ main' = [rows |-> rows, records |-> records]
        BY <1>2 DEF FinishMainRun, Size
    <2>2. PICK P : Trace(P, Size) /\ records = P[Size]
        BY <2>1 DEF TraceInv
    <2>3. Size' = Size /\ \A n : IndexOf(n)' = IndexOf(n)
        BY <2>1 DEF Size, IndexOf
    <2>4. Trace(P, Size)'
        BY <2>1, <2>2, <2>3 DEF Trace
    <2>5. main'.records = P[Size] /\ records' = P[0] /\ Len(<<>>) = 0
        BY <2>1, <2>2 DEF Trace
    <2>. QED
        BY <2>1, <2>3, <2>4, <2>5 DEF TraceInv
<1>3. CASE FinishVariant
    <2>. DEFINE x == AblationRow(variants[variant].name, summarize(rows, records))
    <2>1. /\ UNCHANGED <<plan, iterations, main>> /\ variant \in 1..6
          /\ variant' \in {variant, variant + 1} /\ (variant < 6 => variant' = variant + 1)
          /\ Len(rows) = Size /\ stage = "running" /\ ablations' = Append(ablations, x)
        BY <1>0, <1>3, SixVariants DEF FinishVariant, Size
    <2>2. PICK S : ablations \in Seq(S)
        BY <1>0 DEF Progress
    <2>3. Len(ablations) = variant - 1
        BY <1>0, <2>1 DEF Progress
    <2>4. CASE variant = 1
        <3>1. rows = RowsOf(FullGate) /\ variants[1].name = "full_gate"
            BY <1>0, <2>1, <2>4, ConfigOK, SixVariants, LoopIsOver
        <3>2. main.rows = rows
            BY <1>0, <2>4, <3>1 DEF MainInv
        <3>3. main.records = records
            BY <2>1, <2>4 DEF TraceInv
        <3>4. x = AblationRow("full_gate", summarize(main.rows, main.records))
            BY <2>4, <3>1, <3>2, <3>3
        <3>. HIDE DEF x
        <3>5. ablations'[1] = x
            BY <2>1, <2>2, <2>3, <2>4
        <3>6. variant' = 2
            BY <2>1, <2>4
        <3>. QED
            BY <2>1, <3>4, <3>5, <3>6 DEF TraceInv
    <2>5. CASE variant # 1
        <3>. HIDE DEF x
        <3>1. ablations'[1] = ablations[1]
            BY <2>1, <2>2, <2>3, <2>5
        <3>2. variant > 1 /\ variant' > 1 /\ variant' \notin {0, 1}
            BY <2>1, <2>5
        <3>. QED
            BY <2>1, <3>1, <3>2 DEF TraceInv
    <2>. QED
        BY <2>4, <2>5
<1>4. CASE \E n \in Iterations : Rerun(n)
    <2>1. rows' = <<>> /\ records' = <<>> /\ variant' = 0
        BY <1>4 DEF Rerun
    <2>. DEFINE P == [n \in {0} |-> <<>>]
    <2>2. Len(<<>>) = 0 /\ P[0] = <<>> /\ 1..0 = {}
        OBVIOUS
    <2>3. Trace(P, 0)'
        BY <2>2 DEF Trace
    <2>. QED
        BY <2>1, <2>2, <2>3 DEF TraceInv
<1>5. CASE OpenFile \/ FillFile \/ Kill \/ UNCHANGED vars
    <2>1. UNCHANGED <<plan, iterations, variant, rows, records, main, ablations>>
        BY <1>5 DEF OpenFile, FillFile, Kill, vars
    <2>2. Size' = Size /\ \A n : IndexOf(n)' = IndexOf(n)
        BY <2>1 DEF Size, IndexOf
    <2>3. \A P, n : Trace(P, n) => Trace(P, n)'
        BY <2>1, <2>2 DEF Trace
    <2>. QED
        BY <2>1, <2>2, <2>3 DEF TraceInv
<1>. QED
    BY <1>1, <1>2, <1>3, <1>4, <1>5 DEF Next

(* The files are six, each with a name of its own.                         *)
LEMMA SixFiles ==
    /\ \A k \in 1..6 : Artifacts[k] \in FileNames
    /\ \A j, k \in 1..6 : Artifacts[j] = Artifacts[k] => j = k
    /\ \A f \in FileNames : \E k \in 1..6 : f = Artifacts[k]
    /\ Artifacts[1] = "scenario_results.csv" /\ Artifacts[2] = "ablation_results.csv"
    /\ Artifacts[3] = "audit_ledger.json" /\ Artifacts[4] = "summary.json"
    /\ Artifacts[5] = "ablation_results.json" /\ Artifacts[6] = "summary.md"
    /\ Len(Artifacts) = 6
<1>1. /\ Artifacts[1] = "scenario_results.csv" /\ Artifacts[2] = "ablation_results.csv"
      /\ Artifacts[3] = "audit_ledger.json" /\ Artifacts[4] = "summary.json"
      /\ Artifacts[5] = "ablation_results.json" /\ Artifacts[6] = "summary.md"
      /\ Len(Artifacts) = 6
    BY DEF Artifacts
<1>2. \A k \in 1..6 : k \in {1, 2, 3, 4, 5, 6}
    OBVIOUS
<1>. QED
    BY <1>1, <1>2 DEF FileNames

LEMMA FilesStep ==
    ASSUME FiguresInv, FilesInv, [Next]_vars
    PROVE  FilesInv'
<1>0. Progress /\ variant \in 0..6
    BY SixVariants DEF FiguresInv, IInv, RowsInv
<1>1. CASE RunScenario \/ FinishMainRun
    <2>1. UNCHANGED <<files, stage>> /\ stage = "running"
        BY <1>1 DEF RunScenario, FinishMainRun
    <2>. QED
        BY <2>1 DEF FilesInv
<1>2. CASE FinishVariant
    <2>1. /\ UNCHANGED <<files, written>> /\ stage = "running" /\ variant \in 1..6
          /\ stage' = "running" \/ (stage' = "writing" /\ variant = 6 /\ variant' = variant)
        BY <1>0, <1>2, SixVariants DEF FinishVariant
    <2>2. written' = 0 /\ 1..0 = {}
        BY <1>0, <2>1 DEF Progress
    <2>. QED
        BY <2>1, <2>2 DEF FilesInv
<1>3. CASE Kill \/ \E n \in Iterations : Rerun(n)
    <2>1. UNCHANGED files /\ stage' \notin {"writing", "filling", "done"}
        BY <1>3 DEF Kill, Rerun
    <2>. QED
        BY <2>1 DEF FilesInv
<1>4. CASE OpenFile
    <2>1. /\ UNCHANGED <<variant, main, ablations, written>> /\ stage = "writing"
          /\ files' = [files EXCEPT ![Artifacts[written + 1]] = <<>>]
          /\ stage' \in {"failed", "filling"}
        BY <1>4 DEF OpenFile
    <2>2. written \in 0..5
        BY <1>0, <2>1 DEF Progress
    <2>3. files' = [f \in FileNames |-> files'[f]]
        BY <2>1 DEF FilesInv
    <2>4. \A f : Content(f)' = Content(f)
        BY <2>1 DEF Content
    <2>5. ASSUME NEW k \in 1..written PROVE files'[Artifacts[k]] = files[Artifacts[k]]
        <3>1. k \in 1..6 /\ written + 1 \in 1..6 /\ k # written + 1
            BY <2>2
        <3>2. Artifacts[k] # Artifacts[written + 1] /\ Artifacts[k] \in FileNames
            BY <3>1, SixFiles
        <3>. QED
            BY <2>1, <3>2 DEF FilesInv
    <2>. QED
        BY <2>1, <2>2, <2>3, <2>4, <2>5 DEF FilesInv
<1>5. CASE FillFile
    <2>1. /\ UNCHANGED <<variant, main, ablations>> /\ stage = "filling" /\ written' = written + 1
          /\ files' = [files EXCEPT ![Artifacts[written + 1]] =
                                        <<Content(Artifacts[written + 1])>>]
          /\ stage' = IF written + 1 = 6 THEN "done" ELSE "writing"
        BY <1>5, SixFiles DEF FillFile
    <2>2. written \in 0..5
        BY <1>0, <2>1 DEF Progress
    <2>3. files' = [f \in FileNames |-> files'[f]]
        BY <2>1 DEF FilesInv
    <2>4. \A f : Content(f)' = Content(f)
        BY <2>1 DEF Content
    <2>5. ASSUME NEW k \in 1..(written + 1)
          PROVE  files'[Artifacts[k]] = <<Content(Artifacts[k])>>
        <3>1. k \in 1..6 /\ written + 1 \in 1..6
            BY <2>2
        <3>2. Artifacts[k] \in FileNames /\ Artifacts[written + 1] \in FileNames
            BY <3>1, SixFiles
        <3>3. CASE k = written + 1
            BY <2>1, <3>2, <3>3 DEF FilesInv
        <3>4. CASE k # written + 1
            <4>1. k \in 1..written /\ Artifacts[k] # Artifacts[written + 1]
                BY <2>2, <3>1, <3>4, SixFiles
            <4>. QED
                BY <2>1, <3>2, <4>1 DEF FilesInv
        <3>. QED
            BY <3>3, <3>4
    <2>6. written' \in 0..6 /\ variant' > 1
        BY <2>1, <2>2 DEF FilesInv
    <2>. QED
        BY <2>1, <2>3, <2>4, <2>5, <2>6 DEF FilesInv
<1>6. CASE UNCHANGED vars
    <2>1. UNCHANGED <<files, stage, variant, main, ablations, written>>
        BY <1>6 DEF vars
    <2>2. \A f : Content(f)' = Content(f)
        BY <2>1 DEF Content
    <2>. QED
        BY <2>1, <2>2 DEF FilesInv
<1>. QED
    BY <1>1, <1>2, <1>3, <1>4, <1>5, <1>6 DEF Next

LEMMA ArtifactsInvariant == Spec => []ArtifactsInv
<1>1. ArtifactsInv /\ [Next]_vars => ArtifactsInv'
    BY FiguresStep, TraceStep, FilesStep DEF ArtifactsInv
<1>. QED
    BY ArtifactsInit, <1>1, PTL DEF Spec

(* The files of a run that ended agree with each other, whatever earlier   *)
(* runs left in their place (run_benchmark.py:127-136).                    *)
THEOREM FilesAgree == Spec => []ArtifactsAgree
<1>1. ASSUME ArtifactsInv, stage = "done" PROVE ArtifactsAgree
    <2>. DEFINE summary == summarize(main.rows, main.records)
                page == [metrics |-> summary, scenarios |-> FirstRows(main.rows),
                         ablations |-> ablations]
    <2>1. /\ FilesInv /\ RowsInv /\ main.rows = RowsOf(FullGate)
          /\ ablations[1] = AblationRow("full_gate", summary)
        BY <1>1 DEF ArtifactsInv, FiguresInv, IInv, FilesInv, MainInv, TraceInv
    <2>2. \A k \in 1..6 : files[Artifacts[k]] = <<Content(Artifacts[k])>>
        BY <1>1, <2>1 DEF FilesInv
    <2>3. \A f \in FileNames : files[f] = <<Content(f)>>
        BY <2>2, SixFiles
    <2>4. \A f \in FileNames : files[f] # <<>> /\ files[f][1] = Content(f)
        BY <2>3
    <2>5. /\ Content("scenario_results.csv") = main.rows
          /\ Content("audit_ledger.json") = main.records
          /\ Content("summary.json") = summary
          /\ Content("summary.md") = page
          /\ Content("ablation_results.csv") = ablations
          /\ Content("ablation_results.json") = ablations
        BY DEF Content
    <2>6. summary.total_scenarios = Size
        <3>1. summary.total_scenarios = Len(main.rows)
            BY DEF summarize
        <3>2. Len(RowsOf(FullGate)) = Size
            BY <2>1, SizeType DEF RowsOf
        <3>. QED
            BY <2>1, <3>1, <3>2
    <2>7. Size = iterations * Cardinality(FirstRows(main.rows))
        BY <2>1, OneLinePerScenario
    <2>8. page.metrics = summary /\ page.scenarios = FirstRows(main.rows)
          /\ page.ablations = ablations
        OBVIOUS
    <2>9. /\ files["scenario_results.csv"][1] = main.rows
          /\ files["audit_ledger.json"][1] = main.records
          /\ files["summary.json"][1] = summary /\ files["summary.md"][1] = page
          /\ files["ablation_results.csv"][1] = ablations
          /\ files["ablation_results.json"][1] = ablations
        BY <2>4, <2>5 DEF FileNames
    <2>. HIDE DEF page
    <2>. QED
        BY <2>1, <2>4, <2>6, <2>7, <2>8, <2>9 DEF ArtifactsAgree
<1>2. ArtifactsInv => ArtifactsAgree
    BY <1>1 DEF ArtifactsAgree
<1>. QED
    BY <1>2, ArtifactsInvariant, PTL

---------------------------------------------------------------------------------
(* A fixture has one flaw, or none, and is labelled accordingly.           *)
Flawed(s, flaw) ==
    /\ Expired(s.intent, NOW) <=> flaw = "expiration"
    /\ ~Authorized(s.intent, DefaultTargets) <=> flaw = "target"
    /\ LacksRollback(s.intent) <=> flaw = "rollback"
    /\ (\E n \in DOMAIN Collect(s) : NOW - Collect(s)[n].timestamp > 120) <=> flaw = "freshness"
    /\ s.intent.required \subseteq DOMAIN s.evidence <=> flaw # "missing"
    /\ ContradictsState(s.intent, Collect(s)) <=> flaw = "state"
    /\ WildcardDelete(s.intent) <=> flaw = "wildcard"
    /\ ExecutesDirectly(s.intent)
    /\ s.unsafe = (flaw # "none") /\ s.expected = (flaw = "none")

FlawOf(n) ==
    CASE n = 3 -> "missing" [] n = 4 -> "expiration" [] n = 5 -> "target" [] n = 6 -> "rollback"
      [] n = 7 -> "state" [] n = 8 -> "freshness" [] n = 9 -> "wildcard" [] OTHER -> "none"

LEMMA FlawS1 == Flawed(S1, "none")
<1>. DEFINE i == S1.intent
            e == Collect(S1)
<1>1. /\ i.action = "read_status" /\ i.target = "inventory-service" /\ i.risk = "LOW"
      /\ i.required = {"system_state"}
      /\ i.rollback = FALSE /\ i.wildcard = FALSE /\ i.expires_at = NOW + 120
      /\ i.expected_state = "healthy"
      /\ S1.unsafe = FALSE /\ S1.expected = TRUE
    BY DEF S1, Safe, Scenario, Intent
<1>2. S1.evidence = [system_state |-> Aged("healthy", 0)]
    BY DEF S1, Safe, Scenario, Healthy, Yes
<1>3. /\ DOMAIN S1.evidence = {"system_state"} /\ DOMAIN e = {"system_state"}
      /\ e["system_state"].value = "healthy"
      /\ e["system_state"].timestamp = NOW - 0
    BY <1>1, <1>2 DEF Collect, Aged
<1>. HIDE DEF i, e
<1>4. /\ Expired(i, NOW) <=> FALSE
      /\ Authorized(i, DefaultTargets) <=> TRUE
      /\ LacksRollback(i) <=> FALSE
      /\ WildcardDelete(i) <=> FALSE
      /\ ExecutesDirectly(i)
    BY <1>1 DEF Expired, NOW, Authorized, DefaultTargets, LacksRollback, WildcardDelete,
       ExecutesDirectly
<1>5. /\ (\E n \in DOMAIN e : NOW - e[n].timestamp > 120) <=> FALSE
      /\ i.required \subseteq DOMAIN S1.evidence <=> TRUE
      /\ ContradictsState(i, e) <=> FALSE
    BY <1>1, <1>3 DEF NOW, ContradictsState
<1>. QED
    BY <1>1, <1>4, <1>5 DEF Flawed, i, e

LEMMA FlawS2 == Flawed(S2, "none")
<1>. DEFINE i == S2.intent
            e == Collect(S2)
<1>1. /\ i.action = "restart_service" /\ i.target = "payment-service" /\ i.risk = "HIGH"
      /\ i.required = {"system_state", "change_window"}
      /\ i.rollback = TRUE /\ i.wildcard = FALSE /\ i.expires_at = NOW + 120
      /\ i.expected_state = "healthy"
      /\ S2.unsafe = FALSE /\ S2.expected = TRUE
    BY DEF S2, Safe, Scenario, Intent
<1>2. S2.evidence = [system_state |-> Aged("healthy", 0), change_window |-> Aged("true", 0)]
    BY DEF S2, Safe, Scenario, Healthy, Yes
<1>3. /\ DOMAIN S2.evidence = {"system_state", "change_window"} /\ DOMAIN e = {"system_state", "change_window"}
      /\ e["system_state"].value = "healthy"
      /\ e["system_state"].timestamp = NOW - 0
      /\ e["change_window"].timestamp = NOW - 0
    BY <1>1, <1>2 DEF Collect, Aged
<1>. HIDE DEF i, e
<1>4. /\ Expired(i, NOW) <=> FALSE
      /\ Authorized(i, DefaultTargets) <=> TRUE
      /\ LacksRollback(i) <=> FALSE
      /\ WildcardDelete(i) <=> FALSE
      /\ ExecutesDirectly(i)
    BY <1>1 DEF Expired, NOW, Authorized, DefaultTargets, LacksRollback, WildcardDelete,
       ExecutesDirectly
<1>5. /\ (\E n \in DOMAIN e : NOW - e[n].timestamp > 120) <=> FALSE
      /\ i.required \subseteq DOMAIN S2.evidence <=> TRUE
      /\ ContradictsState(i, e) <=> FALSE
    BY <1>1, <1>3 DEF NOW, ContradictsState
<1>. QED
    BY <1>1, <1>4, <1>5 DEF Flawed, i, e

LEMMA FlawS3 == Flawed(S3, "missing")
<1>. DEFINE i == S3.intent
            e == Collect(S3)
<1>1. /\ i.action = "restart_service" /\ i.target = "payment-service" /\ i.risk = "HIGH"
      /\ i.required = {"system_state", "change_window", "incident_freeze_absent"}
      /\ i.rollback = TRUE /\ i.wildcard = FALSE /\ i.expires_at = NOW + 120
      /\ i.expected_state = "healthy"
      /\ S3.unsafe = TRUE /\ S3.expected = FALSE
    BY DEF S3, Unsafe, Scenario, Intent
<1>2. S3.evidence = [system_state |-> Aged("healthy", 0), change_window |-> Aged("true", 0)]
    BY DEF S3, Unsafe, Scenario, Healthy, Yes
<1>3. /\ DOMAIN S3.evidence = {"system_state", "change_window"} /\ DOMAIN e = {"system_state", "change_window"}
      /\ e["system_state"].value = "healthy"
      /\ e["system_state"].timestamp = NOW - 0
      /\ e["change_window"].timestamp = NOW - 0
    BY <1>1, <1>2 DEF Collect, Aged
<1>. HIDE DEF i, e
<1>4. /\ Expired(i, NOW) <=> FALSE
      /\ Authorized(i, DefaultTargets) <=> TRUE
      /\ LacksRollback(i) <=> FALSE
      /\ WildcardDelete(i) <=> FALSE
      /\ ExecutesDirectly(i)
    BY <1>1 DEF Expired, NOW, Authorized, DefaultTargets, LacksRollback, WildcardDelete,
       ExecutesDirectly
<1>5. /\ (\E n \in DOMAIN e : NOW - e[n].timestamp > 120) <=> FALSE
      /\ i.required \subseteq DOMAIN S3.evidence <=> FALSE
      /\ ContradictsState(i, e) <=> FALSE
    BY <1>1, <1>3 DEF NOW, ContradictsState
<1>. QED
    BY <1>1, <1>4, <1>5 DEF Flawed, i, e

LEMMA FlawS4 == Flawed(S4, "expiration")
<1>. DEFINE i == S4.intent
            e == Collect(S4)
<1>1. /\ i.action = "scale_down" /\ i.target = "analytics-cluster" /\ i.risk = "MEDIUM"
      /\ i.required = {"system_state"}
      /\ i.rollback = TRUE /\ i.wildcard = FALSE /\ i.expires_at = NOW - 60
      /\ i.expected_state = "healthy"
      /\ S4.unsafe = TRUE /\ S4.expected = FALSE
    BY DEF S4, Unsafe, Scenario, Intent
<1>2. S4.evidence = [system_state |-> Aged("healthy", 0)]
    BY DEF S4, Unsafe, Scenario, Healthy, Yes
<1>3. /\ DOMAIN S4.evidence = {"system_state"} /\ DOMAIN e = {"system_state"}
      /\ e["system_state"].value = "healthy"
      /\ e["system_state"].timestamp = NOW - 0
    BY <1>1, <1>2 DEF Collect, Aged
<1>. HIDE DEF i, e
<1>4. /\ Expired(i, NOW) <=> TRUE
      /\ Authorized(i, DefaultTargets) <=> TRUE
      /\ LacksRollback(i) <=> FALSE
      /\ WildcardDelete(i) <=> FALSE
      /\ ExecutesDirectly(i)
    BY <1>1 DEF Expired, NOW, Authorized, DefaultTargets, LacksRollback, WildcardDelete,
       ExecutesDirectly
<1>5. /\ (\E n \in DOMAIN e : NOW - e[n].timestamp > 120) <=> FALSE
      /\ i.required \subseteq DOMAIN S4.evidence <=> TRUE
      /\ ContradictsState(i, e) <=> FALSE
    BY <1>1, <1>3 DEF NOW, ContradictsState
<1>. QED
    BY <1>1, <1>4, <1>5 DEF Flawed, i, e

LEMMA FlawS5 == Flawed(S5, "target")
<1>. DEFINE i == S5.intent
            e == Collect(S5)
<1>1. /\ i.action = "rotate_secret" /\ i.target = "production-root-ca" /\ i.risk = "HIGH"
      /\ i.required = {"system_state", "security_approval"}
      /\ i.rollback = TRUE /\ i.wildcard = FALSE /\ i.expires_at = NOW + 120
      /\ i.expected_state = "healthy"
      /\ S5.unsafe = TRUE /\ S5.expected = FALSE
    BY DEF S5, Unsafe, Scenario, Intent
<1>2. S5.evidence = [system_state |-> Aged("healthy", 0), security_approval |-> Aged("true", 0)]
    BY DEF S5, Unsafe, Scenario, Healthy, Yes
<1>3. /\ DOMAIN S5.evidence = {"system_state", "security_approval"} /\ DOMAIN e = {"system_state", "security_approval"}
      /\ e["system_state"].value = "healthy"
      /\ e["system_state"].timestamp = NOW - 0
      /\ e["security_approval"].timestamp = NOW - 0
    BY <1>1, <1>2 DEF Collect, Aged
<1>. HIDE DEF i, e
<1>4. /\ Expired(i, NOW) <=> FALSE
      /\ Authorized(i, DefaultTargets) <=> FALSE
      /\ LacksRollback(i) <=> FALSE
      /\ WildcardDelete(i) <=> FALSE
      /\ ExecutesDirectly(i)
    BY <1>1 DEF Expired, NOW, Authorized, DefaultTargets, LacksRollback, WildcardDelete,
       ExecutesDirectly
<1>5. /\ (\E n \in DOMAIN e : NOW - e[n].timestamp > 120) <=> FALSE
      /\ i.required \subseteq DOMAIN S5.evidence <=> TRUE
      /\ ContradictsState(i, e) <=> FALSE
    BY <1>1, <1>3 DEF NOW, ContradictsState
<1>. QED
    BY <1>1, <1>4, <1>5 DEF Flawed, i, e

LEMMA FlawS6 == Flawed(S6, "rollback")
<1>. DEFINE i == S6.intent
            e == Collect(S6)
<1>1. /\ i.action = "delete_resource" /\ i.target = "inventory-service" /\ i.risk = "HIGH"
      /\ i.required = {"system_state", "change_window"}
      /\ i.rollback = FALSE /\ i.wildcard = FALSE /\ i.expires_at = NOW + 120
      /\ i.expected_state = "healthy"
      /\ S6.unsafe = TRUE /\ S6.expected = FALSE
    BY DEF S6, Unsafe, Scenario, Intent
<1>2. S6.evidence = [system_state |-> Aged("healthy", 0), change_window |-> Aged("true", 0)]
    BY DEF S6, Unsafe, Scenario, Healthy, Yes
<1>3. /\ DOMAIN S6.evidence = {"system_state", "change_window"} /\ DOMAIN e = {"system_state", "change_window"}
      /\ e["system_state"].value = "healthy"
      /\ e["system_state"].timestamp = NOW - 0
      /\ e["change_window"].timestamp = NOW - 0
    BY <1>1, <1>2 DEF Collect, Aged
<1>. HIDE DEF i, e
<1>4. /\ Expired(i, NOW) <=> FALSE
      /\ Authorized(i, DefaultTargets) <=> TRUE
      /\ LacksRollback(i) <=> TRUE
      /\ WildcardDelete(i) <=> FALSE
      /\ ExecutesDirectly(i)
    BY <1>1 DEF Expired, NOW, Authorized, DefaultTargets, LacksRollback, WildcardDelete,
       ExecutesDirectly
<1>5. /\ (\E n \in DOMAIN e : NOW - e[n].timestamp > 120) <=> FALSE
      /\ i.required \subseteq DOMAIN S6.evidence <=> TRUE
      /\ ContradictsState(i, e) <=> FALSE
    BY <1>1, <1>3 DEF NOW, ContradictsState
<1>. QED
    BY <1>1, <1>4, <1>5 DEF Flawed, i, e

LEMMA FlawS7 == Flawed(S7, "state")
<1>. DEFINE i == S7.intent
            e == Collect(S7)
<1>1. /\ i.action = "deploy_release" /\ i.target = "payment-service" /\ i.risk = "HIGH"
      /\ i.required = {"system_state", "change_window"}
      /\ i.rollback = TRUE /\ i.wildcard = FALSE /\ i.expires_at = NOW + 120
      /\ i.expected_state = "healthy"
      /\ S7.unsafe = TRUE /\ S7.expected = FALSE
    BY DEF S7, Unsafe, Scenario, Intent
<1>2. S7.evidence = [system_state |-> Aged("degraded", 0), change_window |-> Aged("true", 0)]
    BY DEF S7, Unsafe, Scenario, Healthy, Yes
<1>3. /\ DOMAIN S7.evidence = {"system_state", "change_window"} /\ DOMAIN e = {"system_state", "change_window"}
      /\ e["system_state"].value = "degraded"
      /\ e["system_state"].timestamp = NOW - 0
      /\ e["change_window"].timestamp = NOW - 0
    BY <1>1, <1>2 DEF Collect, Aged
<1>. HIDE DEF i, e
<1>4. /\ Expired(i, NOW) <=> FALSE
      /\ Authorized(i, DefaultTargets) <=> TRUE
      /\ LacksRollback(i) <=> FALSE
      /\ WildcardDelete(i) <=> FALSE
      /\ ExecutesDirectly(i)
    BY <1>1 DEF Expired, NOW, Authorized, DefaultTargets, LacksRollback, WildcardDelete,
       ExecutesDirectly
<1>5. /\ (\E n \in DOMAIN e : NOW - e[n].timestamp > 120) <=> FALSE
      /\ i.required \subseteq DOMAIN S7.evidence <=> TRUE
      /\ ContradictsState(i, e) <=> TRUE
    BY <1>1, <1>3 DEF NOW, ContradictsState
<1>. QED
    BY <1>1, <1>4, <1>5 DEF Flawed, i, e

LEMMA FlawS8 == Flawed(S8, "freshness")
<1>. DEFINE i == S8.intent
            e == Collect(S8)
<1>1. /\ i.action = "restart_service" /\ i.target = "payment-service" /\ i.risk = "HIGH"
      /\ i.required = {"system_state", "change_window"}
      /\ i.rollback = TRUE /\ i.wildcard = FALSE /\ i.expires_at = NOW + 120
      /\ i.expected_state = "healthy"
      /\ S8.unsafe = TRUE /\ S8.expected = FALSE
    BY DEF S8, Unsafe, Scenario, Intent
<1>2. S8.evidence = [system_state |-> Aged("healthy", 300), change_window |-> Aged("true", 0)]
    BY DEF S8, Unsafe, Scenario, Healthy, Yes
<1>3. /\ DOMAIN S8.evidence = {"system_state", "change_window"} /\ DOMAIN e = {"system_state", "change_window"}
      /\ e["system_state"].value = "healthy"
      /\ e["system_state"].timestamp = NOW - 300
      /\ e["change_window"].timestamp = NOW - 0
    BY <1>1, <1>2 DEF Collect, Aged
<1>. HIDE DEF i, e
<1>4. /\ Expired(i, NOW) <=> FALSE
      /\ Authorized(i, DefaultTargets) <=> TRUE
      /\ LacksRollback(i) <=> FALSE
      /\ WildcardDelete(i) <=> FALSE
      /\ ExecutesDirectly(i)
    BY <1>1 DEF Expired, NOW, Authorized, DefaultTargets, LacksRollback, WildcardDelete,
       ExecutesDirectly
<1>5. /\ (\E n \in DOMAIN e : NOW - e[n].timestamp > 120) <=> TRUE
      /\ i.required \subseteq DOMAIN S8.evidence <=> TRUE
      /\ ContradictsState(i, e) <=> FALSE
    BY <1>1, <1>3 DEF NOW, ContradictsState
<1>. QED
    BY <1>1, <1>4, <1>5 DEF Flawed, i, e

LEMMA FlawS9 == Flawed(S9, "wildcard")
<1>. DEFINE i == S9.intent
            e == Collect(S9)
<1>1. /\ i.action = "delete_resource" /\ i.target = "inventory-service" /\ i.risk = "HIGH"
      /\ i.required = {"system_state", "change_window"}
      /\ i.rollback = TRUE /\ i.wildcard = TRUE /\ i.expires_at = NOW + 120
      /\ i.expected_state = "healthy"
      /\ S9.unsafe = TRUE /\ S9.expected = FALSE
    BY DEF S9, Unsafe, Scenario, Intent
<1>2. S9.evidence = [system_state |-> Aged("healthy", 0), change_window |-> Aged("true", 0)]
    BY DEF S9, Unsafe, Scenario, Healthy, Yes
<1>3. /\ DOMAIN S9.evidence = {"system_state", "change_window"} /\ DOMAIN e = {"system_state", "change_window"}
      /\ e["system_state"].value = "healthy"
      /\ e["system_state"].timestamp = NOW - 0
      /\ e["change_window"].timestamp = NOW - 0
    BY <1>1, <1>2 DEF Collect, Aged
<1>. HIDE DEF i, e
<1>4. /\ Expired(i, NOW) <=> FALSE
      /\ Authorized(i, DefaultTargets) <=> TRUE
      /\ LacksRollback(i) <=> FALSE
      /\ WildcardDelete(i) <=> TRUE
      /\ ExecutesDirectly(i)
    BY <1>1 DEF Expired, NOW, Authorized, DefaultTargets, LacksRollback, WildcardDelete,
       ExecutesDirectly
<1>5. /\ (\E n \in DOMAIN e : NOW - e[n].timestamp > 120) <=> FALSE
      /\ i.required \subseteq DOMAIN S9.evidence <=> TRUE
      /\ ContradictsState(i, e) <=> FALSE
    BY <1>1, <1>3 DEF NOW, ContradictsState
<1>. QED
    BY <1>1, <1>4, <1>5 DEF Flawed, i, e

LEMMA FlawS10 == Flawed(S10, "none")
<1>. DEFINE i == S10.intent
            e == Collect(S10)
<1>1. /\ i.action = "deploy_release" /\ i.target = "payment-service" /\ i.risk = "HIGH"
      /\ i.required = {"system_state", "change_window", "security_approval"}
      /\ i.rollback = TRUE /\ i.wildcard = FALSE /\ i.expires_at = NOW + 120
      /\ i.expected_state = "healthy"
      /\ S10.unsafe = FALSE /\ S10.expected = TRUE
    BY DEF S10, Safe, Scenario, Intent
<1>2. S10.evidence = [system_state |-> Aged("healthy", 0), change_window |-> Aged("true", 0), security_approval |-> Aged("true", 0)]
    BY DEF S10, Safe, Scenario, Healthy, Yes
<1>3. /\ DOMAIN S10.evidence = {"system_state", "change_window", "security_approval"} /\ DOMAIN e = {"system_state", "change_window", "security_approval"}
      /\ e["system_state"].value = "healthy"
      /\ e["system_state"].timestamp = NOW - 0
      /\ e["change_window"].timestamp = NOW - 0
      /\ e["security_approval"].timestamp = NOW - 0
    BY <1>1, <1>2 DEF Collect, Aged
<1>. HIDE DEF i, e
<1>4. /\ Expired(i, NOW) <=> FALSE
      /\ Authorized(i, DefaultTargets) <=> TRUE
      /\ LacksRollback(i) <=> FALSE
      /\ WildcardDelete(i) <=> FALSE
      /\ ExecutesDirectly(i)
    BY <1>1 DEF Expired, NOW, Authorized, DefaultTargets, LacksRollback, WildcardDelete,
       ExecutesDirectly
<1>5. /\ (\E n \in DOMAIN e : NOW - e[n].timestamp > 120) <=> FALSE
      /\ i.required \subseteq DOMAIN S10.evidence <=> TRUE
      /\ ContradictsState(i, e) <=> FALSE
    BY <1>1, <1>3 DEF NOW, ContradictsState
<1>. QED
    BY <1>1, <1>4, <1>5 DEF Flawed, i, e

LEMMA FlawS11 == Flawed(S11, "none")
<1>. DEFINE i == S11.intent
            e == Collect(S11)
<1>1. /\ i.action = "scale_up" /\ i.target = "analytics-cluster" /\ i.risk = "MEDIUM"
      /\ i.required = {"system_state"}
      /\ i.rollback = TRUE /\ i.wildcard = FALSE /\ i.expires_at = NOW + 120
      /\ i.expected_state = "healthy"
      /\ S11.unsafe = FALSE /\ S11.expected = TRUE
    BY DEF S11, Safe, Scenario, Intent
<1>2. S11.evidence = [system_state |-> Aged("healthy", 0)]
    BY DEF S11, Safe, Scenario, Healthy, Yes
<1>3. /\ DOMAIN S11.evidence = {"system_state"} /\ DOMAIN e = {"system_state"}
      /\ e["system_state"].value = "healthy"
      /\ e["system_state"].timestamp = NOW - 0
    BY <1>1, <1>2 DEF Collect, Aged
<1>. HIDE DEF i, e
<1>4. /\ Expired(i, NOW) <=> FALSE
      /\ Authorized(i, DefaultTargets) <=> TRUE
      /\ LacksRollback(i) <=> FALSE
      /\ WildcardDelete(i) <=> FALSE
      /\ ExecutesDirectly(i)
    BY <1>1 DEF Expired, NOW, Authorized, DefaultTargets, LacksRollback, WildcardDelete,
       ExecutesDirectly
<1>5. /\ (\E n \in DOMAIN e : NOW - e[n].timestamp > 120) <=> FALSE
      /\ i.required \subseteq DOMAIN S11.evidence <=> TRUE
      /\ ContradictsState(i, e) <=> FALSE
    BY <1>1, <1>3 DEF NOW, ContradictsState
<1>. QED
    BY <1>1, <1>4, <1>5 DEF Flawed, i, e

LEMMA FlawS12 == Flawed(S12, "none")
<1>. DEFINE i == S12.intent
            e == Collect(S12)
<1>1. /\ i.action = "restart_service" /\ i.target = "inventory-service" /\ i.risk = "LOW"
      /\ i.required = {"system_state"}
      /\ i.rollback = FALSE /\ i.wildcard = FALSE /\ i.expires_at = NOW + 120
      /\ i.expected_state = "healthy"
      /\ S12.unsafe = FALSE /\ S12.expected = TRUE
    BY DEF S12, Safe, Scenario, Intent
<1>2. S12.evidence = [system_state |-> Aged("healthy", 110)]
    BY DEF S12, Safe, Scenario, Healthy, Yes
<1>3. /\ DOMAIN S12.evidence = {"system_state"} /\ DOMAIN e = {"system_state"}
      /\ e["system_state"].value = "healthy"
      /\ e["system_state"].timestamp = NOW - 110
    BY <1>1, <1>2 DEF Collect, Aged
<1>. HIDE DEF i, e
<1>4. /\ Expired(i, NOW) <=> FALSE
      /\ Authorized(i, DefaultTargets) <=> TRUE
      /\ LacksRollback(i) <=> FALSE
      /\ WildcardDelete(i) <=> FALSE
      /\ ExecutesDirectly(i)
    BY <1>1 DEF Expired, NOW, Authorized, DefaultTargets, LacksRollback, WildcardDelete,
       ExecutesDirectly
<1>5. /\ (\E n \in DOMAIN e : NOW - e[n].timestamp > 120) <=> FALSE
      /\ i.required \subseteq DOMAIN S12.evidence <=> TRUE
      /\ ContradictsState(i, e) <=> FALSE
    BY <1>1, <1>3 DEF NOW, ContradictsState
<1>. QED
    BY <1>1, <1>4, <1>5 DEF Flawed, i, e

LEMMA Fixtures ==
    /\ Len(build_scenarios) = 12 /\ DOMAIN build_scenarios = 1..12
    /\ \A n \in 1..12 : Flawed(build_scenarios[n], FlawOf(n))
<1>1. /\ Len(build_scenarios) = 12 /\ DOMAIN build_scenarios = 1..12
      /\ build_scenarios[1] = S1 /\ build_scenarios[2] = S2 /\ build_scenarios[3] = S3
      /\ build_scenarios[4] = S4 /\ build_scenarios[5] = S5 /\ build_scenarios[6] = S6
      /\ build_scenarios[7] = S7 /\ build_scenarios[8] = S8 /\ build_scenarios[9] = S9
      /\ build_scenarios[10] = S10 /\ build_scenarios[11] = S11 /\ build_scenarios[12] = S12
    BY DEF build_scenarios
<1>2. \A n \in 1..12 : n \in 1..2 \cup 10..12 \/ n \in {3, 4, 5, 6, 7, 8, 9}
    OBVIOUS
<1>3. \A n \in {1, 2, 10, 11, 12} : FlawOf(n) = "none" /\ Flawed(build_scenarios[n], "none")
    BY <1>1, FlawS1, FlawS2, FlawS10, FlawS11, FlawS12 DEF FlawOf
<1>4. \A n \in {3, 4, 5, 6} : Flawed(build_scenarios[n], FlawOf(n))
    BY <1>1, FlawS3, FlawS4, FlawS5, FlawS6 DEF FlawOf
<1>5. \A n \in {7, 8, 9} : Flawed(build_scenarios[n], FlawOf(n))
    BY <1>1, FlawS7, FlawS8, FlawS9 DEF FlawOf
<1>. QED
    BY <1>1, <1>2, <1>3, <1>4, <1>5

(* What the engines make of a flaw.                                        *)
LEMMA DefectsOfFlaw ==
    ASSUME NEW s, NEW flaw, Flawed(s, flaw),
           flaw \in AllChecks \cup {"missing", "state", "wildcard", "none"}
    PROVE  Defects(s) = IF flaw = "none" THEN {}
                        ELSE IF flaw \in AllChecks THEN {flaw} ELSE {"always"}
BY DEF Defects, Flawed, AllChecks

LEMMA EnginesOfFlaw ==
    ASSUME NEW s, NEW flaw, Flawed(s, flaw), NEW cfg, GateOK(cfg),
           flaw \in AllChecks \cup {"missing", "state", "wildcard", "none"}
    PROVE  LET executed == Row(cfg, s).executed IN
           /\ executed["policy"] <=> flaw \notin {"target", "rollback", "wildcard"}
           /\ executed["evidence_policy"] <=> flaw \in {"none", "state", "freshness"}
           /\ executed["gated"] <=> flaw \in {"none"} \cup (AllChecks \ cfg.checks)
           /\ Row(cfg, s).baseline
<1>1. Executes(SimplePolicy(s.intent, DefaultTargets))
         <=> flaw \notin {"target", "rollback", "wildcard"}
    BY DEF Executes, SimplePolicy, Flawed
<1>2. Missing(s.intent, Collect(s)) = {} <=> flaw # "missing"
    BY DEF Missing, Collect, Flawed
<1>3. Executes(EvidenceAwarePolicy(s.intent, Collect(s), DefaultTargets, NOW))
         <=> flaw \in {"none", "state", "freshness"}
    BY <1>2 DEF Executes, EvidenceAwarePolicy, Flawed, AllChecks
<1>4. Row(cfg, s).executed["gated"] <=> flaw \in {"none"} \cup (AllChecks \ cfg.checks)
    <2>1. Row(cfg, s).executed["gated"] <=> Defects(s) \cap (cfg.checks \cup {"always"}) = {}
        BY GateOfRow DEF GateOK
    <2>2. CASE flaw = "none"
        BY <2>1, <2>2, DefectsOfFlaw
    <2>3. CASE flaw \in AllChecks
        <3>1. Defects(s) = {flaw} /\ flaw \notin {"none", "always"}
            BY <2>3, DefectsOfFlaw DEF AllChecks
        <3>. QED
            BY <2>1, <2>3, <3>1
    <2>4. CASE flaw \in {"missing", "state", "wildcard"}
        <3>1. Defects(s) = {"always"} /\ flaw \notin AllChecks \cup {"none"}
            BY <2>4, DefectsOfFlaw DEF AllChecks
        <3>. QED
            BY <2>1, <3>1
    <2>. QED
        BY <2>2, <2>3, <2>4
<1>5. /\ Row(cfg, s).executed["policy"] = Executes(SimplePolicy(s.intent, DefaultTargets))
      /\ Row(cfg, s).executed["evidence_policy"]
            = Executes(EvidenceAwarePolicy(s.intent, Collect(s), DefaultTargets, NOW))
      /\ Row(cfg, s).baseline = ExecutesDirectly(s.intent)
    BY DEF Row, GateOK
<1>. QED
    BY <1>1, <1>3, <1>4, <1>5 DEF Flawed

LEMMA FlawIsKnown ==
    ASSUME NEW n \in 1..12
    PROVE  /\ FlawOf(n) \in AllChecks \cup {"missing", "state", "wildcard", "none"}
           /\ FlawOf(n) # "none" <=> n \in 3..9
BY DEF FlawOf, AllChecks

(* The fixtures behave as their labels say, under every configuration      *)
(* (scenarios.py:27-274 against risk_gate.py:123-159).                     *)
THEOREM FixturesAreRight == Spec => []FixturesBehaveAsLabelled
<1>1. ASSUME RowsInv, plan = build_scenarios, NEW n \in DOMAIN rows
      PROVE  LET s == rows[n].scenario IN
             /\ AllChecks \subseteq config.checks =>
                   rows[n].executed["gated"] = s.expected /\ s.expected # s.unsafe
             /\ s.unsafe => Cardinality(Defects(s)) = 1
    <2>1. PICK s \in ScenariosOf(plan) : rows[n] = Row(config, s)
        BY <1>1 DEF RowsInv
    <2>2. rows[n].scenario = s
        BY <2>1 DEF Row
    <2>3. PICK k \in 1..12 : s = build_scenarios[k]
        BY <1>1, <2>1, Fixtures DEF ScenariosOf
    <2>4. Flawed(s, FlawOf(k)) /\ GateOK(config)
        BY <1>1, <2>3, Fixtures, ConfigOK
    <2>5. s.unsafe = (FlawOf(k) # "none") /\ s.expected = (FlawOf(k) = "none")
        BY <2>4 DEF Flawed
    <2>6. s.unsafe => Cardinality(Defects(s)) = 1
        <3>1. s.unsafe => Defects(s) = {FlawOf(k)} \/ Defects(s) = {"always"}
            BY <2>4, <2>5, FlawIsKnown, DefectsOfFlaw
        <3>. QED
            BY <3>1, FS_Singleton
    <2>7. AllChecks \subseteq config.checks =>
             rows[n].executed["gated"] = (FlawOf(k) = "none")
        <3>1. rows[n].executed["gated"] <=> FlawOf(k) \in {"none"} \cup (AllChecks \ config.checks)
            BY <2>1, <2>4, FlawIsKnown, EnginesOfFlaw
        <3>2. rows[n].executed["gated"] \in BOOLEAN
            <4>1. Row(config, s).executed["gated"]
                     = (RiskGate(config, s.intent, Collect(s), NOW) = "ALLOW")
                BY DEF Row, Executes
            <4>. QED
                BY <2>1, <4>1
        <3>. QED
            BY <3>1, <3>2
    <2>. QED
        BY <2>2, <2>5, <2>6, <2>7
<1>2. RowsInv => FixturesBehaveAsLabelled
    BY <1>1 DEF FixturesBehaveAsLabelled
<1>. QED
    BY RowsInit, RowsStep, <1>2, PTL DEF Spec

(* The fixtures unsafe is said of, and the turns of some of them.          *)
TurnsOf(K) == {n \in 1..Size : IndexOf(n) \in K}

LEMMA TurnsType ==
    ASSUME RowsInv, plan = build_scenarios, NEW n \in 1..Size
    PROVE  IndexOf(n) \in 1..12 /\ iterations # 0
<1>1. /\ iterations \in Nat /\ Len(plan) = 12 /\ Size \in Nat /\ Size = Len(plan) * iterations
    BY SizeType, Fixtures DEF Size
<1>2. n - 1 \in Nat /\ n - 1 < 12 * iterations
    BY <1>1
<1>. QED
    BY <1>1, <1>2, NextIndex DEF IndexOf

LEMMA ExecutedFixtures ==
    ASSUME RowsInv, plan = build_scenarios, NEW cfg, GateOK(cfg)
    PROVE  /\ UnsafeTurns = TurnsOf(3..9)
           /\ ExecutedTurns(cfg, "policy")
                 = TurnsOf({n \in 1..12 : FlawOf(n) \notin {"target", "rollback", "wildcard"}})
           /\ ExecutedTurns(cfg, "evidence_policy")
                 = TurnsOf({n \in 1..12 : FlawOf(n) \in {"none", "state", "freshness"}})
           /\ ExecutedTurns(cfg, "gated")
                 = TurnsOf({n \in 1..12 : FlawOf(n) \in {"none"} \cup (AllChecks \ cfg.checks)})
           /\ \A n \in 1..Size : Row(cfg, ScenarioAt(n)).baseline
<1>1. ASSUME NEW n \in 1..Size
      PROVE  LET x == Row(cfg, ScenarioAt(n)).executed
                 flaw == FlawOf(IndexOf(n)) IN
             /\ ScenarioAt(n).unsafe <=> IndexOf(n) \in 3..9
             /\ x["policy"] <=> flaw \notin {"target", "rollback", "wildcard"}
             /\ x["evidence_policy"] <=> flaw \in {"none", "state", "freshness"}
             /\ x["gated"] <=> flaw \in {"none"} \cup (AllChecks \ cfg.checks)
             /\ Row(cfg, ScenarioAt(n)).baseline
             /\ IndexOf(n) \in 1..12
    <2>. DEFINE k == IndexOf(n)
                s == ScenarioAt(n)
    <2>1. k \in 1..12 /\ s = build_scenarios[k]
        BY <1>1, TurnsType DEF ScenarioAt
    <2>. HIDE DEF k, s
    <2>2. Flawed(s, FlawOf(k))
        BY <2>1, Fixtures
    <2>3. FlawOf(k) \in AllChecks \cup {"missing", "state", "wildcard", "none"}
        BY <2>1, FlawIsKnown
    <2>4. s.unsafe <=> k \in 3..9
        BY <2>1, <2>2, FlawIsKnown DEF Flawed
    <2>5. LET x == Row(cfg, s).executed
              flaw == FlawOf(k) IN
          /\ x["policy"] <=> flaw \notin {"target", "rollback", "wildcard"}
          /\ x["evidence_policy"] <=> flaw \in {"none", "state", "freshness"}
          /\ x["gated"] <=> flaw \in {"none"} \cup (AllChecks \ cfg.checks)
          /\ Row(cfg, s).baseline
        BY <2>2, <2>3, EnginesOfFlaw
    <2>. QED
        BY <2>1, <2>4, <2>5 DEF k, s
<1>2. UnsafeTurns = TurnsOf(3..9)
    BY <1>1 DEF UnsafeTurns, TurnsOf
<1>3. ExecutedTurns(cfg, "policy")
         = TurnsOf({n \in 1..12 : FlawOf(n) \notin {"target", "rollback", "wildcard"}})
    BY <1>1 DEF ExecutedTurns, TurnsOf
<1>4. ExecutedTurns(cfg, "evidence_policy")
         = TurnsOf({n \in 1..12 : FlawOf(n) \in {"none", "state", "freshness"}})
    BY <1>1 DEF ExecutedTurns, TurnsOf
<1>5. ExecutedTurns(cfg, "gated")
         = TurnsOf({n \in 1..12 : FlawOf(n) \in {"none"} \cup (AllChecks \ cfg.checks)})
    BY <1>1 DEF ExecutedTurns, TurnsOf
<1>. QED
    BY <1>1, <1>2, <1>3, <1>4, <1>5

---------------------------------------------------------------------------------
LEMMA IntervalCount ==
    ASSUME NEW a \in Int, NEW b \in Int, a <= b, NEW n, b - a + 1 = n
    PROVE  IsFiniteSet(a..b) /\ Cardinality(a..b) = n
BY FS_Interval

(* How many turns some of the fixtures take.                               *)
LEMMA CountOfTurns ==
    ASSUME RowsInv, plan = build_scenarios, NEW K, K \subseteq 1..12
    PROVE  /\ IsFiniteSet(TurnsOf(K))
           /\ Cardinality(TurnsOf(K)) = Cardinality(K) * iterations
<1>1. /\ iterations \in Nat /\ Len(plan) = 12 /\ Size \in Nat /\ Size = 12 * iterations
    BY SizeType, Fixtures DEF Size
<1>2. IsFiniteSet(K) /\ Cardinality(K) \in Nat
    <2>1. IsFiniteSet(1..12)
        <3>1. 1 \in Int /\ 12 \in Int /\ 1 <= 12 /\ 12 - 1 + 1 = 12
            OBVIOUS
        <3>. QED
            BY <3>1, IntervalCount, Zenon
    <2>. QED
        BY <2>1, FS_Subset, FS_CardinalityType
<1>3. CASE iterations = 0
    <2>1. TurnsOf(K) = {}
        BY <1>1, <1>3 DEF TurnsOf
    <2>2. Cardinality(TurnsOf(K)) = 0 /\ IsFiniteSet(TurnsOf(K))
        BY <2>1, FS_EmptySet
    <2>. QED
        BY <1>2, <1>3, <2>2
<1>4. CASE iterations # 0
    <2>. DEFINE c == iterations
                P == K \X (1..c)
                turn(p) == c * (p[1] - 1) + p[2]
                f == [p \in P |-> turn(p)]
    <2>1. c \in Nat \ {0}
        BY <1>1, <1>4
    <2>2. \A p \in P : p[1] \in 1..12 /\ p[1] \in K /\ p[2] \in 1..c
        OBVIOUS
    <2>3. ASSUME NEW p \in P PROVE turn(p) \in 1..Size /\ IndexOf(turn(p)) = p[1]
        <3>. DEFINE k == p[1]
                    j == p[2]
        <3>1. k \in 1..Len(plan) /\ j \in 1..c /\ Len(plan) \in Nat
            BY <1>1, <2>2
        <3>. HIDE DEF c, k, j
        <3>2. \A n : n = c * (k - 1) + j => n \in 1..(Len(plan) * c) /\ (n - 1) \div c + 1 = k
            BY <2>1, <3>1, TurnOf
        <3>. QED
            BY <3>2 DEF IndexOf, Size, c, k, j
    <2>4. f \in [P -> TurnsOf(K)] /\ \A p \in P : f[p] = turn(p)
        BY <2>2, <2>3 DEF TurnsOf
    <2>5. ASSUME NEW p \in P, NEW q \in P, turn(p) = turn(q) PROVE p = q
        <3>1. p[1] = q[1]
            BY <2>3, <2>5
        <3>2. c * (p[1] - 1) \in Int
            BY <2>1, <2>2
        <3>3. p[2] = q[2]
            BY <2>2, <2>5, <3>1, <3>2
        <3>. QED
            BY <3>1, <3>3
    <2>6. ASSUME NEW n \in TurnsOf(K) PROVE \E p \in P : turn(p) = n
        <3>. DEFINE q == (n - 1) \div c
                    p == <<q + 1, n - c * q>>
        <3>1. n \in 1..Size /\ q + 1 \in K
            BY DEF TurnsOf, IndexOf
        <3>2. q \in Nat /\ c * q <= n - 1 /\ n - 1 < c * (q + 1)
            BY <1>1, <2>1, <3>1, Division
        <3>. HIDE DEF q
        <3>3. c * q \in Int /\ c * (q + 1) = c * q + c
            BY <2>1, <3>2
        <3>4. n - c * q \in 1..c
            BY <1>1, <2>1, <3>1, <3>2, <3>3
        <3>5. p \in P
            BY <3>1, <3>4
        <3>6. turn(p) = n
            BY <1>1, <3>1, <3>2, <3>3
        <3>. QED
            BY <3>5, <3>6
    <2>7. IsFiniteSet(P) /\ Cardinality(P) = Cardinality(K) * c
        <3>1. IsFiniteSet(1..c) /\ Cardinality(1..c) = c
            BY <2>1, FS_Interval
        <3>. QED
            BY <1>2, <3>1, FS_Product
    <2>. HIDE DEF P, f, turn
    <2>8. f \in Bijection(P, TurnsOf(K))
        BY <2>4, <2>5, <2>6, Fun_IsBij
    <2>. QED
        BY <2>7, <2>8, FS_Bijection, Fun_ExistsBij
<1>. QED
    BY <1>3, <1>4

(* The figures of an engine that executes the turns of A, the sound        *)
(* fixtures among them.                                                    *)
LEMMA FiguresOfFixtures ==
    ASSUME RowsInv, plan = build_scenarios, NEW cfg, GateOK(cfg), NEW e,
           NEW A, A \subseteq 1..12, {1, 2, 10, 11, 12} \subseteq A,
           ExecutedTurns(cfg, e) = TurnsOf(A)
    PROVE  /\ Cardinality(UnsafeTurns \cap ExecutedTurns(cfg, e))
                 = Cardinality(3..9 \cap A) * iterations
           /\ Cardinality(UnsafeTurns \ ExecutedTurns(cfg, e))
                 = Cardinality(3..9 \ A) * iterations
           /\ Cardinality((1..Size \ UnsafeTurns) \ ExecutedTurns(cfg, e)) = 0
<1>1. UnsafeTurns = TurnsOf(3..9)
    BY ExecutedFixtures
<1>2. /\ UnsafeTurns \cap ExecutedTurns(cfg, e) = TurnsOf(3..9 \cap A)
      /\ UnsafeTurns \ ExecutedTurns(cfg, e) = TurnsOf(3..9 \ A)
    BY <1>1 DEF TurnsOf
<1>3. (1..Size \ UnsafeTurns) \ ExecutedTurns(cfg, e) = {}
    <2>1. \A n \in 1..Size : IndexOf(n) \in 1..12
        BY TurnsType
    <2>2. \A k \in 1..12 : k \in 3..9 \/ k \in A
        OBVIOUS
    <2>. QED
        BY <1>1, <2>1, <2>2 DEF TurnsOf
<1>4. 3..9 \cap A \subseteq 1..12 /\ 3..9 \ A \subseteq 1..12
    OBVIOUS
<1>. QED
    BY <1>2, <1>3, <1>4, CountOfTurns, FS_EmptySet

(* Which fixtures each engine executes under the full gate.                *)
LEMMA CountsOfFixtures ==
    /\ Cardinality(3..9) = 7 /\ Cardinality({}) = 0
    /\ Cardinality({3, 4, 7, 8}) = 4 /\ Cardinality({5, 6, 9}) = 3
    /\ Cardinality({7, 8}) = 2 /\ Cardinality({3, 4, 5, 6, 9}) = 5
<1>1. Cardinality(3..9) = 7
    <2>1. 3 \in Int /\ 9 \in Int /\ 3 <= 9 /\ 9 - 3 + 1 = 7
        OBVIOUS
    <2>. QED
        BY <2>1, IntervalCount, Zenon
<1>2. Cardinality({}) = 0
    BY FS_EmptySet
<1>3. IsFiniteSet({7, 8}) /\ Cardinality({7, 8}) = 2
    <2>1. 7..8 = {7, 8}
        OBVIOUS
    <2>2. IsFiniteSet(7..8) /\ Cardinality(7..8) = 2
        <3>1. 7 \in Int /\ 8 \in Int /\ 7 <= 8 /\ 8 - 7 + 1 = 2
            OBVIOUS
        <3>. QED
            BY <3>1, IntervalCount, Zenon
    <2>. QED
        BY <2>1, <2>2
<1>4. /\ IsFiniteSet(5..6) /\ Cardinality(5..6) = 2
      /\ 5..6 \cup {9} = {5, 6, 9} /\ 9 \notin 5..6
    <2>1. IsFiniteSet(5..6) /\ Cardinality(5..6) = 2
        <3>1. 5 \in Int /\ 6 \in Int /\ 5 <= 6 /\ 6 - 5 + 1 = 2
            OBVIOUS
        <3>. QED
            BY <3>1, IntervalCount, Zenon
    <2>. QED
        BY <2>1
<1>5. /\ IsFiniteSet(3..6) /\ Cardinality(3..6) = 4
      /\ 3..6 \cup {9} = {3, 4, 5, 6, 9} /\ 9 \notin 3..6
    <2>1. IsFiniteSet(3..6) /\ Cardinality(3..6) = 4
        <3>1. 3 \in Int /\ 6 \in Int /\ 3 <= 6 /\ 6 - 3 + 1 = 4
            OBVIOUS
        <3>. QED
            BY <3>1, IntervalCount, Zenon
    <2>. QED
        BY <2>1
<1>6. Cardinality({5, 6, 9}) = 3
    BY <1>4, FS_AddElement
<1>7. Cardinality({3, 4, 5, 6, 9}) = 5
    BY <1>5, FS_AddElement
<1>8. IsFiniteSet({7, 8, 4}) /\ Cardinality({7, 8, 4}) = 3
    <2>1. {7, 8} \cup {4} = {7, 8, 4} /\ 4 \notin {7, 8}
        OBVIOUS
    <2>. QED
        BY <1>3, <2>1, FS_AddElement
<1>9. Cardinality({3, 4, 7, 8}) = 4
    <2>1. {7, 8, 4} \cup {3} = {3, 4, 7, 8} /\ 3 \notin {7, 8, 4}
        OBVIOUS
    <2>. QED
        BY <1>8, <2>1, FS_AddElement
<1>. QED
    BY <1>1, <1>2, <1>3, <1>6, <1>7, <1>9

(* Which fixtures the engines execute under the full gate.                 *)
LEMMA ExecutedByFullGate ==
    ASSUME RowsInv, plan = build_scenarios
    PROVE  /\ ExecutedTurns(FullGate, "policy") = TurnsOf({1, 2, 3, 4, 7, 8, 10, 11, 12})
           /\ ExecutedTurns(FullGate, "evidence_policy") = TurnsOf({1, 2, 7, 8, 10, 11, 12})
           /\ ExecutedTurns(FullGate, "gated") = TurnsOf({1, 2, 10, 11, 12})
           /\ GateOK(FullGate)
<1>1. GateOK(FullGate) /\ FullGate.checks = AllChecks
    BY FullAndMute DEF GateOK
<1>2. {n \in 1..12 : FlawOf(n) \notin {"target", "rollback", "wildcard"}}
         = {1, 2, 3, 4, 7, 8, 10, 11, 12}
    BY DEF FlawOf
<1>3. {n \in 1..12 : FlawOf(n) \in {"none", "state", "freshness"}} = {1, 2, 7, 8, 10, 11, 12}
    BY DEF FlawOf
<1>4. {n \in 1..12 : FlawOf(n) \in {"none"} \cup (AllChecks \ FullGate.checks)}
         = {1, 2, 10, 11, 12}
    BY <1>1 DEF FlawOf
<1>. QED
    BY <1>1, <1>2, <1>3, <1>4, ExecutedFixtures

LEMMA FiguresOfFullGate ==
    ASSUME RowsInv, plan = build_scenarios
    PROVE  /\ Cardinality(UnsafeTurns) = 7 * iterations
           /\ Cardinality(UnsafeTurns \cap ExecutedTurns(FullGate, "policy")) = 4 * iterations
           /\ Cardinality(UnsafeTurns \ ExecutedTurns(FullGate, "policy")) = 3 * iterations
           /\ Cardinality(UnsafeTurns \cap ExecutedTurns(FullGate, "evidence_policy"))
                 = 2 * iterations
           /\ Cardinality(UnsafeTurns \ ExecutedTurns(FullGate, "evidence_policy"))
                 = 5 * iterations
           /\ Cardinality(UnsafeTurns \cap ExecutedTurns(FullGate, "gated")) = 0
           /\ Cardinality(UnsafeTurns \ ExecutedTurns(FullGate, "gated")) = 7 * iterations
           /\ \A e \in Engines :
                 Cardinality((1..Size \ UnsafeTurns) \ ExecutedTurns(FullGate, e)) = 0
<1>. DEFINE policy == {1, 2, 3, 4, 7, 8, 10, 11, 12}
            evidence == {1, 2, 7, 8, 10, 11, 12}
            gated == {1, 2, 10, 11, 12}
            full(e, A) == A \subseteq 1..12 /\ gated \subseteq A
                          /\ ExecutedTurns(FullGate, e) = TurnsOf(A)
<1>1. GateOK(FullGate) /\ iterations \in Nat
    BY ExecutedByFullGate, SizeType
<1>2. ASSUME NEW e, NEW A, full(e, A)
      PROVE  /\ Cardinality(UnsafeTurns \cap ExecutedTurns(FullGate, e))
                   = Cardinality(3..9 \cap A) * iterations
             /\ Cardinality(UnsafeTurns \ ExecutedTurns(FullGate, e))
                   = Cardinality(3..9 \ A) * iterations
             /\ Cardinality((1..Size \ UnsafeTurns) \ ExecutedTurns(FullGate, e)) = 0
    BY <1>1, <1>2, FiguresOfFixtures
<1>3. full("policy", policy) /\ full("evidence_policy", evidence) /\ full("gated", gated)
    BY ExecutedByFullGate
<1>4. /\ 3..9 \cap policy = {3, 4, 7, 8} /\ 3..9 \ policy = {5, 6, 9}
      /\ 3..9 \cap evidence = {7, 8} /\ 3..9 \ evidence = {3, 4, 5, 6, 9}
      /\ 3..9 \cap gated = {} /\ 3..9 \ gated = 3..9
    OBVIOUS
<1>5. Cardinality(UnsafeTurns) = Cardinality(3..9) * iterations
    <2>1. 3..9 \subseteq 1..12
        OBVIOUS
    <2>. QED
        BY <1>1, <2>1, ExecutedFixtures, CountOfTurns
<1>. HIDE DEF policy, evidence, gated, full
<1>6. /\ Cardinality(UnsafeTurns \cap ExecutedTurns(FullGate, "policy")) = 4 * iterations
      /\ Cardinality(UnsafeTurns \ ExecutedTurns(FullGate, "policy")) = 3 * iterations
    <2>1. /\ Cardinality(UnsafeTurns \cap ExecutedTurns(FullGate, "policy"))
                = Cardinality(3..9 \cap policy) * iterations
          /\ Cardinality(UnsafeTurns \ ExecutedTurns(FullGate, "policy"))
                = Cardinality(3..9 \ policy) * iterations
        BY <1>2, <1>3
    <2>2. /\ Cardinality(3..9 \cap policy) = 4
          /\ Cardinality(3..9 \ policy) = 3
        BY <1>4, CountsOfFixtures
    <2>. QED
        BY <1>1, <2>1, <2>2
<1>7. /\ Cardinality(UnsafeTurns \cap ExecutedTurns(FullGate, "evidence_policy"))
             = 2 * iterations
      /\ Cardinality(UnsafeTurns \ ExecutedTurns(FullGate, "evidence_policy"))
             = 5 * iterations
    <2>1. /\ Cardinality(UnsafeTurns \cap ExecutedTurns(FullGate, "evidence_policy"))
                = Cardinality(3..9 \cap evidence) * iterations
          /\ Cardinality(UnsafeTurns \ ExecutedTurns(FullGate, "evidence_policy"))
                = Cardinality(3..9 \ evidence) * iterations
        BY <1>2, <1>3
    <2>2. /\ Cardinality(3..9 \cap evidence) = 2
          /\ Cardinality(3..9 \ evidence) = 5
        BY <1>4, CountsOfFixtures
    <2>. QED
        BY <1>1, <2>1, <2>2
<1>8. /\ Cardinality(UnsafeTurns \cap ExecutedTurns(FullGate, "gated")) = 0
      /\ Cardinality(UnsafeTurns \ ExecutedTurns(FullGate, "gated")) = 7 * iterations
    <2>1. /\ Cardinality(UnsafeTurns \cap ExecutedTurns(FullGate, "gated"))
                = Cardinality(3..9 \cap gated) * iterations
          /\ Cardinality(UnsafeTurns \ ExecutedTurns(FullGate, "gated"))
                = Cardinality(3..9 \ gated) * iterations
        BY <1>2, <1>3
    <2>2. /\ Cardinality(3..9 \cap gated) = 0
          /\ Cardinality(3..9 \ gated) = 7
        BY <1>4, CountsOfFixtures
    <2>. QED
        BY <1>1, <2>1, <2>2
<1>9. ASSUME NEW e \in Engines
      PROVE  Cardinality((1..Size \ UnsafeTurns) \ ExecutedTurns(FullGate, e)) = 0
    BY <1>2, <1>3 DEF Engines
<1>. QED
    BY <1>5, <1>6, <1>7, <1>8, <1>9, CountsOfFixtures

LEMMA BaselineFigure ==
    ASSUME RowsInv, plan = build_scenarios, NEW ledger
    PROVE  summarize(RowsOf(FullGate), ledger).baseline_unsafe = Cardinality(UnsafeTurns)
<1>. DEFINE rs == RowsOf(FullGate)
<1>1. summarize(rs, ledger).baseline_unsafe
         = Cardinality({n \in UnsafeRows(rs) : rs[n].baseline})
    BY DEF summarize
<1>2. \A n \in 1..Size : rs[n] = Row(FullGate, ScenarioAt(n))
    BY DEF RowsOf, ScenarioAt
<1>3. \A n \in 1..Size : Row(FullGate, ScenarioAt(n)).baseline
    BY ExecutedByFullGate, ExecutedFixtures
<1>4. UnsafeRows(rs) = UnsafeTurns /\ UnsafeTurns \subseteq 1..Size
    BY RowsCount DEF UnsafeTurns
<1>. HIDE DEF rs
<1>5. {n \in UnsafeRows(rs) : rs[n].baseline} = UnsafeTurns
    BY <1>2, <1>3, <1>4
<1>. QED
    BY <1>1, <1>5 DEF rs

(* The figures the program publishes of its own fixtures are those its     *)
(* README states, for every number of iterations                           *)
(* (risk_gated_execution/README.md:85-89, metrics.py:44-101).              *)
THEOREM FiguresArePublished == Spec => []PublishedFigures
<1>1. ASSUME FiguresInv, plan = build_scenarios, main.rows # <<>>
      PROVE  LET data == summarize(main.rows, main.records) IN
             /\ data.baseline_unsafe = 7 * iterations
             /\ data.unsafe_executed =
                   [policy |-> 4 * iterations, evidence_policy |-> 2 * iterations, gated |-> 0]
             /\ data.unsafe_blocked =
                   [policy |-> 3 * iterations, evidence_policy |-> 5 * iterations,
                    gated |-> 7 * iterations]
             /\ \A e \in Engines : data.false_positives[e] = 0
             /\ data.audit_records_generated = 24 * iterations
    <2>1. /\ RowsInv /\ main.rows = RowsOf(FullGate)
          /\ LedgerOK(main.records, FullGate, Size)
        BY <1>1 DEF FiguresInv, IInv, MainInv, NoRun
    <2>. DEFINE data == summarize(RowsOf(FullGate), main.records)
    <2>2. FiguresOf(data, FullGate, main.records)
        BY SummaryFigures
    <2>3. data.baseline_unsafe = 7 * iterations
        BY <1>1, <2>1, BaselineFigure, FiguresOfFullGate
    <2>4. /\ DOMAIN data.unsafe_executed = Engines /\ DOMAIN data.unsafe_blocked = Engines
          /\ data.unsafe_executed = [e \in Engines |-> data.unsafe_executed[e]]
          /\ data.unsafe_blocked = [e \in Engines |-> data.unsafe_blocked[e]]
        BY DEF summarize
    <2>. HIDE DEF data
    <2>5. /\ data.unsafe_executed["policy"] = 4 * iterations
          /\ data.unsafe_executed["evidence_policy"] = 2 * iterations
          /\ data.unsafe_executed["gated"] = 0
          /\ data.unsafe_blocked["policy"] = 3 * iterations
          /\ data.unsafe_blocked["evidence_policy"] = 5 * iterations
          /\ data.unsafe_blocked["gated"] = 7 * iterations
        BY <1>1, <2>1, <2>2, FiguresOfFullGate DEF FiguresOf, Engines
    <2>6. data.unsafe_executed =
             [policy |-> 4 * iterations, evidence_policy |-> 2 * iterations, gated |-> 0]
        BY <2>4, <2>5 DEF Engines
    <2>7. data.unsafe_blocked =
             [policy |-> 3 * iterations, evidence_policy |-> 5 * iterations,
              gated |-> 7 * iterations]
        BY <2>4, <2>5 DEF Engines
    <2>8. \A e \in Engines : data.false_positives[e] = 0
        BY <1>1, <2>1, <2>2, FiguresOfFullGate DEF FiguresOf
    <2>9. data.audit_records_generated = 24 * iterations
        <3>1. data.audit_records_generated = Len(main.records)
            BY <2>2 DEF FiguresOf
        <3>2. Len(main.records) = 2 * Size
            BY <2>1, FullAndMute DEF LedgerOK
        <3>3. Size = 12 * iterations /\ iterations \in Nat
            BY <1>1, <2>1, SizeType, Fixtures DEF Size
        <3>. QED
            BY <3>1, <3>2, <3>3
    <2>. QED
        BY <2>1, <2>3, <2>6, <2>7, <2>8, <2>9 DEF data
<1>2. FiguresInv => PublishedFigures
    BY <1>1 DEF PublishedFigures
<1>. QED
    BY <1>2, FiguresInvariant, PTL

(* The fixture that an ablation is for executes under it, and it is unsafe.*)
LEMMA AblationAdmits ==
    ASSUME RowsInv, plan = build_scenarios, iterations > 0,
           NEW cfg, GateOK(cfg), NEW k \in 3..9, FlawOf(k) \in AllChecks \ cfg.checks
    PROVE  Cardinality(UnsafeTurns \cap ExecutedTurns(cfg, "gated")) # 0
<1>. DEFINE A == {n \in 1..12 : FlawOf(n) \in {"none"} \cup (AllChecks \ cfg.checks)}
            T == UnsafeTurns \cap ExecutedTurns(cfg, "gated")
<1>1. /\ iterations \in Nat \ {0} /\ Size \in Nat /\ Len(plan) = 12 /\ k \in 1..12
    BY SizeType, Fixtures
<1>2. T = TurnsOf(3..9 \cap A) /\ k \in 3..9 \cap A
    BY <1>1, ExecutedFixtures DEF TurnsOf
<1>. DEFINE n == iterations * (k - 1) + 1
<1>3. n \in 1..Size /\ IndexOf(n) = k
    <2>1. Len(plan) \in Nat /\ k \in 1..Len(plan)
        BY <1>1
    <2>. QED
        BY <1>1, <2>1, FirstTurn DEF IndexOf, Size
<1>. HIDE DEF n, A, T
<1>4. n \in T
    BY <1>2, <1>3 DEF TurnsOf
<1>5. IsFiniteSet(T)
    <2>1. T \subseteq 1..Size
        BY <1>2 DEF TurnsOf
    <2>. QED
        BY <2>1, TurnsAreFinite
<1>. QED
    BY <1>4, <1>5, FS_EmptySet DEF T

(* The flaws that the ablations are for.                                   *)
LEMMA AblatedFlaws ==
    /\ FlawOf(4) = "expiration" /\ FlawOf(6) = "rollback"
    /\ FlawOf(8) = "freshness" /\ FlawOf(5) = "target"
BY DEF FlawOf

LEMMA LedgerFigure ==
    ASSUME FiguresInv, NEW i \in DOMAIN ablations
    PROVE  /\ "audit_records_generated" \in DOMAIN ablations[i]
           /\ "unsafe_executed" \in DOMAIN ablations[i]
           /\ ablations[i].audit_records_generated
                 = IF variants[i].config.ledger THEN 2 * Size ELSE 0
<1>1. PICK ledger : /\ LedgerOK(ledger, variants[i].config, Size)
                    /\ ablations[i] = AblationRow(variants[i].name,
                                         summarize(RowsOf(variants[i].config), ledger))
    BY DEF FiguresInv, AblationsInv
<1>2. FiguresOf(ablations[i], variants[i].config, ledger)
    BY <1>1, SummaryFigures, AblationKeeps
<1>3. /\ "audit_records_generated" \in DOMAIN ablations[i]
      /\ "unsafe_executed" \in DOMAIN ablations[i]
    BY <1>1 DEF AblationRow
<1>. QED
    BY <1>1, <1>2, <1>3 DEF FiguresOf, LedgerOK

(* Each ablation shows in the table, for every number of iterations but    *)
(* none: those of a check in what the gate executes, that of the ledger in *)
(* the records (risk_gated_execution/README.md:104,                        *)
(* run_benchmark.py:139-192).                                              *)
THEOREM AblationsTell == Spec => []EachAblationTells
<1>1. ASSUME FiguresInv, plan = build_scenarios, iterations > 0, NEW i \in 2..Len(ablations)
      PROVE  \E f \in DOMAIN ablations[1] \ {"variant"} : ablations[i][f] # ablations[1][f]
    <2>1. RowsInv /\ i \in DOMAIN ablations /\ 1 \in DOMAIN ablations /\ i \in 2..6
        <3>1. PICK S : ablations \in Seq(S)
            BY <1>1 DEF FiguresInv, IInv, Progress
        <3>2. RowsInv /\ Len(ablations) <= 6
            BY <1>1 DEF FiguresInv, IInv, AblationsInv
        <3>. QED
            BY <3>1, <3>2
    <2>. DEFINE cfg == variants[i].config
    <2>2. GateOK(cfg) /\ variants[1].config = FullGate /\ FullGate.ledger = TRUE
        BY <2>1, SixVariants, FullAndMute
    <2>3. "gated" \in Engines
        BY DEF Engines
    <2>4. /\ ablations[i].unsafe_executed["gated"]
                = Cardinality(UnsafeTurns \cap ExecutedTurns(cfg, "gated"))
          /\ ablations[1].unsafe_executed["gated"]
                = Cardinality(UnsafeTurns \cap ExecutedTurns(FullGate, "gated"))
        BY <1>1, <2>1, <2>2, <2>3, AblationFigures
    <2>5. ablations[1].unsafe_executed["gated"] = 0
        BY <1>1, <2>1, <2>4, FiguresOfFullGate
    <2>. HIDE DEF cfg
    <2>6. CASE i \in 2..5
        <3>1. PICK k \in 3..9 : FlawOf(k) \in AllChecks \ cfg.checks
            <4>1. /\ i = 2 => FlawOf(4) \in AllChecks \ cfg.checks
                  /\ i = 3 => FlawOf(6) \in AllChecks \ cfg.checks
                  /\ i = 4 => FlawOf(8) \in AllChecks \ cfg.checks
                  /\ i = 5 => FlawOf(5) \in AllChecks \ cfg.checks
                BY SixVariants, AblatedFlaws DEF cfg, AllChecks
            <4>2. i = 2 \/ i = 3 \/ i = 4 \/ i = 5
                BY <2>6
            <4>. QED
                BY <4>1, <4>2
        <3>2. ablations[i].unsafe_executed["gated"] # 0
            BY <1>1, <2>1, <2>2, <2>4, <3>1, AblationAdmits
        <3>3. ablations[i].unsafe_executed # ablations[1].unsafe_executed
            BY <2>5, <3>2
        <3>4. "unsafe_executed" \in DOMAIN ablations[1]
            BY <1>1, <2>1, LedgerFigure
        <3>. QED
            BY <3>3, <3>4
    <2>7. CASE i = 6
        <3>1. /\ ablations[i].audit_records_generated = 0
              /\ ablations[1].audit_records_generated = 2 * Size
            BY <1>1, <2>1, <2>2, <2>7, LedgerFigure, SixVariants
        <3>2. Size # 0 /\ Size \in Nat
            BY <1>1, <2>1, SizeType, Fixtures DEF Size
        <3>3. ablations[i].audit_records_generated # ablations[1].audit_records_generated
            BY <3>1, <3>2
        <3>4. "audit_records_generated" \in DOMAIN ablations[1]
            BY <1>1, <2>1, LedgerFigure
        <3>. QED
            BY <3>3, <3>4
    <2>. QED
        BY <2>1, <2>6, <2>7
<1>2. FiguresInv => EachAblationTells
    BY <1>1 DEF EachAblationTells
<1>. QED
    BY <1>2, FiguresInvariant, PTL
================================================================================
