----------------------------- MODULE MCDeploymentGate -----------------------------
(***************************************************************************)
(* A small instance of the deployment slice.                               *)
(***************************************************************************)
EXTENDS DeploymentGate

(* No name and no arguments contain a label of the bound text.             *)
OneWord(x) == <<x>>

Args(dry_run, destructive) ==
    [dry_run |-> dry_run, destructive |-> destructive, quorum |-> FALSE, canonical |-> TRUE]

Request(intent, action, target, args) ==
    [wellFormed |-> TRUE, intent |-> intent, action |-> action, target |-> target,
     args |-> args]

MCRequests ==
    {Request("i1", "deploy", "payments", Args(TRUE, FALSE)),
     Request("i2", "deploy", "payments", Args(FALSE, FALSE)),
     Request("i3", "db_migrate", "payments", Args(FALSE, TRUE)),
     Request("i4", "db_migrate", "payments", Args(FALSE, FALSE)),
     Request("i5", "deploy", "ledger", Args(TRUE, FALSE)),
     [Request("i6", "deploy", "payments", Args(TRUE, FALSE)) EXCEPT !.wellFormed = FALSE]}

Profile(subject, offset, healthy, freeze, rollback) ==
    [subject |-> subject, offset |-> offset, healthy |-> healthy, freeze |-> freeze,
     window |-> TRUE, rollback |-> rollback]

MCProfiles ==
    {Profile("payments", 0, TRUE, FALSE, TRUE),      \* healthy
     Profile("ledger", 0, TRUE, FALSE, TRUE),        \* healthy, another subject
     Profile("payments", -2, TRUE, FALSE, TRUE),     \* stale
     Profile("payments", 0, TRUE, TRUE, TRUE),       \* incident_freeze
     Profile("payments", 0, TRUE, FALSE, FALSE),     \* no_rollback
     Profile("payments", 0, FALSE, FALSE, TRUE)}     \* degraded

GatePolicy(targets, actions, forbidden, ttl) ==
    [authorized_targets |-> targets, allowed_actions |-> actions,
     forbidden_actions |-> forbidden, ttl |-> ttl, require_receipt |-> TRUE,
     trusted |-> EvidenceKey]

MCGatePolicies ==
    {GatePolicy({"payments", "ledger"}, {"deploy", "db_migrate"}, {}, 2),
     GatePolicy({"payments"}, {"deploy", "db_migrate"}, {"db_migrate"}, 1)}
================================================================================
