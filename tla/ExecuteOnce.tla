------------------------------- MODULE ExecuteOnce -------------------------------
(***************************************************************************)
(* What a client of the broker may rely on, without lines, caches, clocks  *)
(* or policies: a receipt executes at most once, a call is refused as a    *)
(* replay only after its intent was executed, and a new start of the       *)
(* broker forgets both.                                                    *)
(***************************************************************************)
EXTENDS Naturals

CONSTANT Receipts

VARIABLES
    executions,  \* how often each receipt was executed since the start
    replayed     \* the receipts refused as replays since the start

vars == <<executions, replayed>>

NotYet == [r \in Receipts |-> 0]

Init == executions = NotYet /\ replayed = {}

Execute(r) ==
    /\ executions[r] = 0
    /\ executions' = [executions EXCEPT ![r] = 1]
    /\ UNCHANGED replayed

RefuseReplay(r) ==
    /\ \E q \in Receipts : q.intent = r.intent /\ executions[q] = 1
    /\ replayed' = replayed \cup {r}
    /\ UNCHANGED executions

StartAnew == executions' = NotYet /\ replayed' = {}

Next == (\E r \in Receipts : Execute(r) \/ RefuseReplay(r)) \/ StartAnew

Spec == Init /\ [][Next]_vars
================================================================================
