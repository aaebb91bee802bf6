------------------------------ MODULE BrokerInvariant ------------------------------
(***************************************************************************)
(* The inductive invariants behind the broker's safety properties.  The    *)
(* first three hold whatever the clock does; Remembered needs a clock that *)
(* is never set back.                                                      *)
(***************************************************************************)
EXTENDS BrokerProperties

Handling == pc \in {"verify", "settle", "forward", "refuse"}

InFlight ==
    /\ pc \in {"verify", "settle", "forward"}
    /\ IsGated(line)
    /\ line.receipt # None

(* What the local state of stdin_task means for the line in its hands.     *)
TurnOK ==
    /\ Handling => line \in Lines
    /\ Handling /\ IsGated(line) => snapshot \in Snapshots
    /\ pc \in {"verify", "settle"} => IsGated(line) /\ line.receipt # None
    /\ pc = "settle" =>
          /\ decision \in Decisions
          /\ decision = "Allow" => Approved(line, snapshot.policy, at)
    /\ pc = "forward" /\ IsGated(line) => Approved(line, snapshot.policy, at)
    /\ pc = "refuse" => decision \in Outcomes \ {"Allow"}

SnapshotsTaken ==
    \A i \in DOMAIN toChild :
        IsGated(toChild[i].line) => toChild[i].snapshot \in Snapshots

(* This life of the broker executed a call with that intent and timestamp. *)
ExecutedAs(intent, timestamp) ==
    \E i \in Executed : /\ toChild[i].life = life
                        /\ ReceiptAt(i).intent = intent
                        /\ ReceiptAt(i).timestamp = timestamp

InFlightAs(intent, timestamp) ==
    /\ InFlight
    /\ line.receipt.intent = intent
    /\ line.receipt.timestamp = timestamp

(* Every reservation is that of an executed call or of the call in flight. *)
Explained ==
    pc # "closed" =>
        \A t \in DOMAIN cache : \A x \in cache[t] :
            ExecutedAs(x, t) \/ InFlightAs(x, t)

ReplaysExplained ==
    pc = "refuse" /\ decision = "replay" =>
        /\ line.receipt # None
        /\ \E i \in Executed : /\ toChild[i].life = life
                               /\ ReceiptAt(i).intent = line.receipt.intent

(* Snapshots are no newer than the policy and no older than the last write.*)
EpochsOK ==
    /\ \A i \in DOMAIN toChild : toChild[i].epoch <= epoch
    /\ Handling /\ IsGated(line) =>
          /\ snapshot.epoch <= epoch
          /\ \A i \in DOMAIN toChild : toChild[i].epoch <= snapshot.epoch

UnclockedInv ==
    /\ TypeOK /\ TurnOK /\ SnapshotsTaken /\ NothingUnverified
    /\ Explained /\ ReplaysExplained /\ NoFalseReplay
    /\ EpochsOK /\ OneStaleForward

---------------------------------------------------------------------------------
HeldIn(c, receipt) ==
    receipt.timestamp \in DOMAIN c /\ receipt.intent \in c[receipt.timestamp]

(* The time from which the call in flight counts as executed.              *)
CallTime == IF pc = "verify" THEN clock ELSE at

(* An executed call is in the cache until it is outlived, and the call in  *)
(* flight came after every earlier execution of its intent was.            *)
Remembered ==
    /\ \A i \in DOMAIN toChild : toChild[i].life <= life
    /\ pc \in {"settle", "forward"} => at <= clock
    /\ \A i \in Executed :
          toChild[i].life = life =>
              HeldIn(cache, ReceiptAt(i)) \/ Outlived(ReceiptAt(i).timestamp, clock)
    /\ InFlight =>
          \/ HeldIn(cache, line.receipt)
          \/ pc = "forward" /\ Outlived(line.receipt.timestamp, clock)
    /\ InFlight =>
          \A i \in Executed :
              toChild[i].life = life /\ ReceiptAt(i).intent = line.receipt.intent
                  => Outlived(ReceiptAt(i).timestamp, CallTime)

ClockedInv == Remembered /\ IntentSpacing
================================================================================
