------------------------------ MODULE BenchmarkGate ------------------------------
(***************************************************************************)
(* The primitives of the benchmark (risk_gate.py): the risk gate, the two  *)
(* weaker engines it is compared with, the actuators and the audit ledger. *)
(* Every engine is a chain of early returns over the same intent, written  *)
(* three times in a different order.  Reasons and times are left out.      *)
(***************************************************************************)
EXTENDS Integers, Sequences, FiniteSets

AllChecks == {"expiration", "target", "rollback", "freshness"}

(* GateConfig with its defaults; checks are the require_ flags that are on *)
(* and ledger is require_audit_ledger.                                     *)
GateConfig(targets) ==
    [targets |-> targets, ttl |-> 120, checks |-> AllChecks, ledger |-> TRUE]

(* EvidenceProvider.collect: what there is of the required evidence.       *)
Collect(s) == [n \in s.intent.required \cap DOMAIN s.evidence |-> s.evidence[n]]

Authorized(intent, targets) == intent.target \in targets

Expired(intent, now) == now > intent.expires_at

LacksRollback(intent) == intent.risk = "HIGH" /\ ~intent.rollback

WildcardDelete(intent) == intent.action = "delete_resource" /\ intent.wildcard

Missing(intent, evidence) == intent.required \ DOMAIN evidence

(* A mistake: evidence exactly as old as the time-to-live is stale.        *)
StaleAtTTL(intent, evidence, ttl, now) ==
    {n \in intent.required : now - evidence[n].timestamp >= ttl}

Stale(intent, evidence, ttl, now) ==
    {n \in intent.required : now - evidence[n].timestamp > ttl}

(* A mistake: evidence that was not asked for may be absent, so is ignored.*)
NeverContradicts(intent, evidence) == FALSE

ContradictsState(intent, evidence) ==
    /\ "system_state" \in DOMAIN evidence
    /\ evidence["system_state"].value # intent.expected_state

(* A mistake: the rule against wildcards left to the static policy.        *)
RiskGateWithWildcards(config, intent, evidence, now) ==
    IF \/ "expiration" \in config.checks /\ Expired(intent, now)
       \/ "target" \in config.checks /\ ~Authorized(intent, config.targets)
       \/ "rollback" \in config.checks /\ LacksRollback(intent)
    THEN "BLOCK"
    ELSE IF Missing(intent, evidence) # {} THEN "REQUIRE_MORE_EVIDENCE"
    ELSE IF "freshness" \in config.checks /\ Stale(intent, evidence, config.ttl, now) # {}
    THEN "BLOCK"
    ELSE IF ContradictsState(intent, evidence) THEN "DEGRADE"
    ELSE "ALLOW"

(* RiskGate._evaluate under the checks that the configuration requires.    *)
RiskGate(config, intent, evidence, now) ==
    IF \/ "expiration" \in config.checks /\ Expired(intent, now)
       \/ "target" \in config.checks /\ ~Authorized(intent, config.targets)
       \/ "rollback" \in config.checks /\ LacksRollback(intent)
    THEN "BLOCK"
    ELSE IF Missing(intent, evidence) # {} THEN "REQUIRE_MORE_EVIDENCE"
    ELSE IF "freshness" \in config.checks /\ Stale(intent, evidence, config.ttl, now) # {}
    THEN "BLOCK"
    ELSE IF ContradictsState(intent, evidence) THEN "DEGRADE"
    ELSE IF WildcardDelete(intent) THEN "BLOCK"
    ELSE "ALLOW"

SimplePolicy(intent, targets) ==
    IF ~Authorized(intent, targets) \/ WildcardDelete(intent) \/ LacksRollback(intent)
    THEN "BLOCK" ELSE "ALLOW"

EvidenceAwarePolicy(intent, evidence, targets, now) ==
    IF \/ ~Authorized(intent, targets) \/ WildcardDelete(intent)
       \/ LacksRollback(intent) \/ Expired(intent, now)
    THEN "BLOCK"
    ELSE IF Missing(intent, evidence) # {} THEN "REQUIRE_MORE_EVIDENCE"
    ELSE "ALLOW"

(* BaselineActuator.execute: whatever has an action and a target; every    *)
(* intent has a payload.                                                   *)
ExecutesDirectly(intent) == intent.action # "" /\ intent.target # ""

(* GatedActuator.execute                                                   *)
Executes(decision) == decision = "ALLOW"

(* AuditLedger.record: what it appends.                                    *)
Recorded(enabled, s, decision, executed, baseline) ==
    IF enabled
    THEN <<[intent |-> s.intent, decision |-> decision, executed |-> executed,
            baseline |-> baseline, evidence_names |-> DOMAIN s.evidence]>>
    ELSE <<>>
================================================================================
