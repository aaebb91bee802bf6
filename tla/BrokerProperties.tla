----------------------------- MODULE BrokerProperties -----------------------------
(***************************************************************************)
(* What the stdio broker promises about the calls it forwards, the calls   *)
(* it refuses and its idempotency cache.                                   *)
(***************************************************************************)
EXTENDS Broker

(* The positions of toChild that hold a call with a receipt.               *)
Executed == {i \in DOMAIN toChild :
                /\ IsGated(toChild[i].line)
                /\ toChild[i].line.receipt # None}

ReceiptAt(i) == toChild[i].line.receipt

(* A receipt was outlived at some time if its age exceeded a time-to-live  *)
(* that one of the policies sets.                                          *)
Outlived(timestamp, now) == \E p \in LoadedPolicies : now > timestamp + p.ttl

UniformTTL == \A p \in LoadedPolicies : p.ttl = FallbackTTL

---------------------------------------------------------------------------------
(* What lets a tool call through: its receipt, or a policy that asks for   *)
(* none.                                                                   *)
Approved(l, config, now) ==
    IF l.receipt = None
    THEN ~config.require_receipt
    ELSE VerifyReceipt(l.receipt, l.tool, l.args, config, now) = "Allow"

(* Every tool call that reached the child was approved under the policy in *)
(* force when it was read.  Reloads, aborted verifications and clock ticks *)
(* in between change nothing (main.rs:204-280).                            *)
NothingUnverified ==
    \A i \in DOMAIN toChild :
        IsGated(toChild[i].line) =>
            Approved(toChild[i].line, toChild[i].snapshot.policy, toChild[i].at)

(* Between two executions of the same intent in one life of the broker,    *)
(* the first receipt has been outlived: the cache forgets an intent only   *)
(* when it prunes (main.rs:222-248).                                       *)
IntentSpacing ==
    \A i, j \in Executed :
        /\ i < j
        /\ toChild[i].life = toChild[j].life
        /\ ReceiptAt(i).intent = ReceiptAt(j).intent
        => Outlived(ReceiptAt(i).timestamp, toChild[j].at)

(* A receipt is executed at most once in a life of the broker: the window  *)
(* in which the cache remembers it is the window in which it is fresh      *)
(* (main.rs:245-246 against crypto.rs:101-112).                            *)
SingleExecution ==
    \A i, j \in Executed :
        i # j /\ toChild[i].life = toChild[j].life => ReceiptAt(i) # ReceiptAt(j)

(* Between two lines, what the cache holds are calls that were executed in *)
(* this life: a blocked or suspended call leaves no reservation behind, so *)
(* its intent can be presented again (main.rs:250-268).                    *)
NoPhantomReservation ==
    pc = "read" =>
        \A t \in DOMAIN cache : \A x \in cache[t] :
            \E i \in Executed : /\ toChild[i].life = life
                                /\ ReceiptAt(i).intent = x
                                /\ ReceiptAt(i).timestamp = t

(* A call is refused as a replay only if its intent was executed before,   *)
(* in the same life (main.rs:222-232).                                     *)
NoFalseReplay ==
    \A n \in DOMAIN refused :
        refused[n].why = "replay" =>
            \E i \in Executed :
                /\ toChild[i].life = refused[n].life
                /\ ReceiptAt(i).intent = refused[n].line.receipt.intent

(* Once a line was written to the child under some epoch of the policy, no *)
(* later call is judged by an older one: a reload lets at most the call    *)
(* in flight through under the policy it replaced (main.rs:204, 97).       *)
OneStaleForward ==
    \A i, j \in DOMAIN toChild :
        i < j /\ IsGated(toChild[j].line)
            => toChild[i].epoch <= toChild[j].snapshot.epoch

(* After an allowed call the cache holds no intent outside the window of   *)
(* its policy: none that expired, and, with every time-to-live positive,   *)
(* none dated further ahead than the clock skew, which no pruning would    *)
(* ever drop in time (main.rs:243-246, crypto.rs:104).                     *)
ReservationsInWindow ==
    [][ pc = "settle" /\ pc' = "forward" =>
          \A t \in DOMAIN cache' :
              cache'[t] # {} =>
                  t \in clock - snapshot.policy.ttl .. clock + ClockSkew ]_vars

Receipts == {l.receipt : l \in {m \in Lines : m.receipt # None}}

(* The executions of a receipt in this life, and the receipts refused in   *)
(* it as replays.                                                          *)
ExecutionsOf(r) == {i \in Executed : toChild[i].life = life /\ ReceiptAt(i) = r}

Replayed ==
    {refused[n].line.receipt : n \in
        {m \in DOMAIN refused : refused[m].why = "replay" /\ refused[m].life = life}}

Once == INSTANCE ExecuteOnce WITH
            executions <- [r \in Receipts |-> Cardinality(ExecutionsOf(r))],
            replayed   <- Replayed

(* The broker implements ExecuteOnce: each of its steps is one of that     *)
(* specification or invisible to it (main.rs:185-330).                     *)
ImplementsExecuteOnce == Once!Spec

(* Every line the broker reads ends in a write to the child or an error    *)
(* response, unless a pipe is closed or the broker is restarted            *)
(* (main.rs:193-313).                                                      *)
EveryLineConcludes ==
    \A n \in 1..MaxLines :
        reads >= n ~> \/ Len(toChild) + Len(refused) >= n
                      \/ pc = "closed"
                      \/ life > 0

---------------------------------------------------------------------------------
(* What documents and comments of the repository say, and the code does    *)
(* not do.                                                                 *)

(* main.rs:19: when the policy cannot be loaded, calls are blocked.        *)
FallbackBlocks ==
    \A i \in DOMAIN toChild :
        IsGated(toChild[i].line) => toChild[i].snapshot.policy # FallbackPolicy

(* mcp_stdio_broker/README.md:7-9: the broker verifies the tools/call      *)
(* messages and only forwards approved calls.                              *)
ToolCallsAreGated ==
    \A i \in DOMAIN toChild :
        toChild[i].line.method = "tools/call" => toChild[i].snapshot # None
================================================================================
