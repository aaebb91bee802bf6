---------------------------- MODULE MCVerticalSlice ----------------------------
(***************************************************************************)
(* The attacks of attacks/*.json, the profiles of the demo and the sample  *)
(* of the middleware, with a time-to-live of 2 for the 60 seconds.         *)
(***************************************************************************)
EXTENDS VerticalSlice

(* No name and no arguments contain a label of the bound text.             *)
OneWord(x) == <<x>>

MCDefaultPolicy ==
    [authorized_targets |-> {"payment-service"}, allowed_actions |-> {"deploy"},
     forbidden_actions |-> {"drop_database"}, ttl |-> 2, require_receipt |-> TRUE,
     trusted |-> EvidenceKey]

Arguments ==
    [id |-> "v43", dry_run |-> TRUE, destructive |-> FALSE, quorum |-> FALSE,
     canonical |-> TRUE]

Healthy == [subject |-> "payment-service", offset |-> 0, healthy |-> TRUE,
            freeze |-> FALSE, window |-> TRUE, rollback |-> TRUE]

Profile ==
    [healthy         |-> Healthy,
     stale           |-> [Healthy EXCEPT !.offset = -3],
     incident_freeze |-> [Healthy EXCEPT !.freeze = TRUE],
     no_rollback     |-> [Healthy EXCEPT !.rollback = FALSE],
     degraded        |-> [Healthy EXCEPT !.healthy = FALSE]]

Attack(mutation, profile, expected) ==
    [program |-> "redteam", mutation |-> mutation, profile |-> Profile[profile],
     ttl |-> None, target |-> "payment-service", args |-> Arguments, receipt |-> None,
     expected |-> expected]

(* The numbers of the files in attacks/.                                   *)
A ==
    <<Attack("none", "healthy", "ALLOW"),
      Attack("missing_receipt", "healthy", "BROKER_BLOCK"),
      Attack("tamper_payload_after_receipt", "healthy", "BROKER_BLOCK"),
      [Attack("expired_receipt", "healthy", "BROKER_BLOCK") EXCEPT !.ttl = 1],
      [Attack("signed_unauthorized_target", "healthy", "BROKER_BLOCK")
          EXCEPT !.target = "production-root-ca"],
      Attack("none", "stale", "RISK_GATE_BLOCK"),
      Attack("none", "incident_freeze", "RISK_GATE_BLOCK"),
      Attack("none", "no_rollback", "RISK_GATE_BLOCK"),
      Attack("poisoned_context_valid_intent", "healthy", "OUT_OF_SCOPE_ALLOWED"),
      Attack("self_signed_evidence", "healthy", "RISK_GATE_BLOCK"),
      Attack("replay_attack", "healthy", "BROKER_BLOCK")>>

Demo(profile, expected) ==
    [Attack("none", profile, expected) EXCEPT !.program = "demo"]

Demos == {Demo("healthy", "0")}
         \cup {Demo(p, "2") : p \in {"stale", "incident_freeze", "no_rollback", "degraded"}}

(* The recorded receipt, under the compiled-in key or another.             *)
Recorded(key) ==
    LET body == Unsigned([intent |-> "123", action |-> "deploy",
                          target |-> "payment-service"], "recorded", 0)
    IN  WithSignature(body, Sign(key, Binding(body, Arguments)))

Sample(key) ==
    [Attack("none", "healthy", None) EXCEPT !.program = "sample", !.receipt = Recorded(key)]

Samples == {Sample(DefaultKey), Sample("other")}

(* Each job alone, those that follow each other in the suite, and pairs in *)
(* which the first leaves something behind: a policy file with another     *)
(* time-to-live, a held intent, two calls.                                 *)
MCSuites ==
    {<<A[k]>> : k \in 1..11} \cup {<<j>> : j \in Demos \cup Samples}
    \cup {<<A[k], A[k + 1]>> : k \in 1..10}
    \cup {<<A[4], A[1]>>, <<A[11], A[1]>>, <<A[11], A[11]>>,
          <<Demo("healthy", "0"), Sample("other")>>}
================================================================================
