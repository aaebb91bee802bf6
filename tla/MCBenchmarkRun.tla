----------------------------- MODULE MCBenchmarkRun -----------------------------
(***************************************************************************)
(* The benchmark on its own fixtures, and on plans made of intents that    *)
(* vary in each thing the engines look at, each with evidence that is      *)
(* absent, as old as the time-to-live or one second older, and agrees or   *)
(* not.                                                                    *)
(***************************************************************************)
EXTENDS BenchmarkRun

Names == {"system_state", "change_window"}

MCIntents ==
    [intent_id : {"I"}, action : {"restart", "delete_resource"}, wildcard : {TRUE},
     target : {"payment-service", "root-ca"}, risk : {"LOW", "HIGH"}, rollback : BOOLEAN,
     expires_at : {NOW - 1, NOW}, required : {{"system_state"}, Names},
     expected_state : {"healthy"}]

MCEvidence ==
    LET both(item) == [system_state |-> item, change_window |-> Yes] IN
    <<[n \in {} |-> Yes], [system_state |-> Healthy], [change_window |-> Yes],
      both(Aged("healthy", 120)), both(Aged("healthy", 121)), both(Aged("degraded", 0))>>

(* Labels that are right by the definition of the defects.                 *)
Labelled(s) ==
    Scenario(s.intent, s.evidence, Defects(s) # {}, Defects(s) = {})

MCPlans ==
    {build_scenarios} \cup
    {[n \in DOMAIN MCEvidence |-> Labelled([intent |-> i, evidence |-> MCEvidence[n]])] :
        i \in MCIntents}
================================================================================
