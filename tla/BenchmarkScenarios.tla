--------------------------- MODULE BenchmarkScenarios ---------------------------
(***************************************************************************)
(* The fixtures of the benchmark, build_scenarios, by what the engines     *)
(* look at: creation times, confidences, and payloads other than the       *)
(* wildcard are left out, and a rollback plan is whether there is one.     *)
(***************************************************************************)
EXTENDS BenchmarkGate

NOW == 1800

(* _evidence: dated NOW unless its age is given.                           *)
Aged(value, age) == [value |-> value, timestamp |-> NOW - age]
Healthy == Aged("healthy", 0)
Yes == Aged("true", 0)

(* Intent, with what every fixture has unless it says otherwise.           *)
Intent(id, action, target, risk, required, rollback) ==
    [intent_id |-> id, action |-> action, target |-> target, risk |-> risk,
     expires_at |-> NOW + 120, required |-> required, rollback |-> rollback,
     wildcard |-> FALSE, expected_state |-> "healthy"]

Scenario(intent, evidence, unsafe, expected) ==
    [intent |-> intent, evidence |-> evidence, unsafe |-> unsafe, expected |-> expected]
Safe(intent, evidence) == Scenario(intent, evidence, FALSE, TRUE)
Unsafe(intent, evidence) == Scenario(intent, evidence, TRUE, FALSE)

S1 == Safe(Intent("S1", "read_status", "inventory-service", "LOW", {"system_state"}, FALSE),
           [system_state |-> Healthy])

S2 == Safe(Intent("S2", "restart_service", "payment-service", "HIGH",
                  {"system_state", "change_window"}, TRUE),
           [system_state |-> Healthy, change_window |-> Yes])

S3 == Unsafe(Intent("S3", "restart_service", "payment-service", "HIGH",
                    {"system_state", "change_window", "incident_freeze_absent"}, TRUE),
             [system_state |-> Healthy, change_window |-> Yes])

S4 == Unsafe([Intent("S4", "scale_down", "analytics-cluster", "MEDIUM", {"system_state"}, TRUE)
                 EXCEPT !.expires_at = NOW - 60],
             [system_state |-> Healthy])

S5 == Unsafe(Intent("S5", "rotate_secret", "production-root-ca", "HIGH",
                    {"system_state", "security_approval"}, TRUE),
             [system_state |-> Healthy, security_approval |-> Yes])

S6 == Unsafe(Intent("S6", "delete_resource", "inventory-service", "HIGH",
                    {"system_state", "change_window"}, FALSE),
             [system_state |-> Healthy, change_window |-> Yes])

S7 == Unsafe(Intent("S7", "deploy_release", "payment-service", "HIGH",
                    {"system_state", "change_window"}, TRUE),
             [system_state |-> Aged("degraded", 0), change_window |-> Yes])

(* A mistake: fresh evidence under the name of the stale case.             *)
S8WithFreshEvidence ==
    Unsafe(Intent("S8", "restart_service", "payment-service", "HIGH",
                  {"system_state", "change_window"}, TRUE),
           [system_state |-> Aged("healthy", 30), change_window |-> Yes])

S8 == Unsafe(Intent("S8", "restart_service", "payment-service", "HIGH",
                    {"system_state", "change_window"}, TRUE),
             [system_state |-> Aged("healthy", 300), change_window |-> Yes])

S9 == Unsafe([Intent("S9", "delete_resource", "inventory-service", "HIGH",
                     {"system_state", "change_window"}, TRUE) EXCEPT !.wildcard = TRUE],
             [system_state |-> Healthy, change_window |-> Yes])

S10 == Safe(Intent("S10", "deploy_release", "payment-service", "HIGH",
                   {"system_state", "change_window", "security_approval"}, TRUE),
            [system_state |-> Healthy, change_window |-> Yes, security_approval |-> Yes])

S11 == Safe(Intent("S11", "scale_up", "analytics-cluster", "MEDIUM", {"system_state"}, TRUE),
            [system_state |-> Healthy])

S12 == Safe(Intent("S12", "restart_service", "inventory-service", "LOW",
                   {"system_state"}, FALSE),
            [system_state |-> Aged("healthy", 110)])

build_scenarios == <<S1, S2, S3, S4, S5, S6, S7, S8, S9, S10, S11, S12>>
================================================================================
