------------------------------- MODULE BrokerProofs -------------------------------
(***************************************************************************)
(* The broker's invariants for every set of lines and policies, and every  *)
(* value of the bounds.                                                    *)
(***************************************************************************)
EXTENDS BrokerInvariant, TLAPS

(* Every policy that can be loaded has an integer time-to-live.            *)
LEMMA LoadedTTL == \A p \in LoadedPolicies : p.ttl \in Int
  BY BrokerAssumption, VerificationAssumption
     DEF LoadedPolicies, LoadPolicy, FallbackPolicy

(* A reservation keeps what the cache holds and adds the receipt's intent. *)
LEMMA ReservedFacts ==
    ASSUME NEW r
    PROVE  /\ DOMAIN Reserved(r) = DOMAIN cache \cup {r.timestamp}
           /\ \A t \in DOMAIN Reserved(r) :
                 \A x : x \in Reserved(r)[t] <=>
                     \/ t \in DOMAIN cache /\ x \in cache[t]
                     \/ t = r.timestamp /\ x = r.intent
  BY DEF Reserved

(* A rollback removes one intent at one time, and nothing else.            *)
LEMMA RolledBackFacts ==
    ASSUME NEW r
    PROVE  /\ DOMAIN RolledBack(r) = DOMAIN cache
           /\ \A t \in DOMAIN cache :
                 \A x : x \in RolledBack(r)[t] <=>
                     /\ x \in cache[t]
                     /\ ~(t = r.timestamp /\ x = r.intent)
  BY DEF RolledBack

(* A pruning keeps the entries younger than its time-to-live as they are.  *)
LEMMA PrunedFacts ==
    ASSUME NEW ttl
    PROVE  /\ DOMAIN Pruned(ttl) = {t \in DOMAIN cache : t >= clock - ttl}
           /\ \A t \in DOMAIN Pruned(ttl) : Pruned(ttl)[t] = cache[t]
  BY DEF Pruned, Restrict

(* The verdict on a receipt is one of the three decisions.                 *)
LEMMA VerdictType ==
    ASSUME NEW r, NEW tool, NEW args, NEW p, NEW now
    PROVE  VerifyReceipt(r, tool, args, p, now) \in Decisions
  BY DEF VerifyReceipt, Decisions

(* The broker's variables stay in their types, and its local state means   *)
(* what the code takes it to mean, whatever the clock does.                *)
LEMMA TypeStep == TypeOK /\ TurnOK /\ [Next]_vars => TypeOK' /\ TurnOK'
<1> SUFFICES ASSUME TypeOK, TurnOK, [Next]_vars PROVE TypeOK' /\ TurnOK'
  OBVIOUS
<1> USE DEF TypeOK, TurnOK, Handling
<1>1. CASE ReadLine
  <2> PICK l \in Lines :
        PassThrough(l) \/ CallWithoutReceipt(l) \/ ReplayedCall(l) \/ Reserve(l)
    BY <1>1 DEF ReadLine
  <2>1. TakeSnapshot \in Snapshots
    BY DEF TakeSnapshot, Snapshots
  <2>2. CASE PassThrough(l)
    BY <2>2 DEF PassThrough, Read, Environment
  <2>3. CASE CallWithoutReceipt(l)
    <3>1. /\ pc' \in {"refuse", "forward"}
          /\ reads' = reads + 1 /\ line' = l /\ snapshot' = TakeSnapshot /\ at' = clock
          /\ UNCHANGED <<clock, policy, epoch, life, cache, toChild, refused>>
      BY <2>3 DEF CallWithoutReceipt, Read, Environment
    <3>2. /\ decision' = "no receipt" \/ decision' = decision
          /\ pc' = "refuse" => decision' = "no receipt"
      BY <2>3 DEF CallWithoutReceipt
    <3>3. pc' = "forward" => Approved(line', snapshot'.policy, at')
      <4>1. pc' = "forward" => ~policy.require_receipt /\ l.receipt = None
        BY <2>3 DEF CallWithoutReceipt
      <4> QED BY <3>1, <4>1 DEF Approved, TakeSnapshot
    <3>4. "no receipt" \in Outcomes \ {"Allow"}
      BY DEF Outcomes
    <3>5. TypeOK'
      <4> HIDE DEF TurnOK, Handling
      <4>1. decision' \in Outcomes \cup {None}
        BY <3>2, <3>4
      <4>2. snapshot' \in Snapshots \cup {None}
        BY <2>1, <3>1
      <4>3. reads' \in Nat /\ at' \in Int /\ line' \in Lines \cup {None}
        BY <3>1
      <4>4. toChild' \in Seq(Writes)
        BY <3>1
      <4>5. UNCHANGED <<clock, policy, epoch, life, cache, refused>> BY <3>1
      <4> QED BY <3>1, <4>1, <4>2, <4>3, <4>4, <4>5
    <3>6. TurnOK'
      BY <2>1, <3>1, <3>2, <3>3, <3>4
    <3> QED BY <3>5, <3>6
  <2>4. CASE ReplayedCall(l)
    <3>1. TypeOK'
      <4>1. decision' \in Outcomes \cup {None}
        BY <2>4 DEF ReplayedCall, Outcomes
      <4> QED BY <2>1, <2>4, <4>1 DEF ReplayedCall, Read, Environment
    <3>2. TurnOK'
      BY <2>1, <2>4 DEF ReplayedCall, Read, Outcomes, Decisions
    <3> QED BY <3>1, <3>2
  <2>5. CASE Reserve(l)
    <3>1. l.receipt.timestamp \in Int /\ l.receipt.intent \in Intents
      BY <2>5, BrokerAssumption DEF Reserve, Intents
    <3>2. DOMAIN cache' \subseteq Int /\ \A t \in DOMAIN cache' : cache'[t] \subseteq Intents
      <4>1. cache' = Reserved(l.receipt)
        BY <2>5 DEF Reserve
      <4>2. DOMAIN cache' = DOMAIN cache \cup {l.receipt.timestamp}
        BY <4>1, ReservedFacts
      <4>3. ASSUME NEW t \in DOMAIN cache', NEW x \in cache'[t]
            PROVE  x \in Intents
        <5>1. (t \in DOMAIN cache /\ x \in cache[t]) \/ x = l.receipt.intent
          BY <4>1, <4>3, ReservedFacts
        <5> QED BY <3>1, <5>1
      <4> QED BY <3>1, <4>2, <4>3
    <3>3. TypeOK'
      BY <2>1, <2>5, <3>2 DEF Reserve, Read, Environment
    <3>4. TurnOK'
      BY <2>1, <2>5 DEF Reserve, Read
    <3> QED BY <3>3, <3>4
  <2> QED BY <2>2, <2>3, <2>4, <2>5
<1>2. CASE Verify
  <2>1. decision' \in Decisions
    BY <1>2, VerdictType DEF Verify
  <2>2. decision' = "Allow" => Approved(line, snapshot.policy, clock)
    BY <1>2 DEF Verify, Approved
  <2> QED BY <1>2, <2>1, <2>2 DEF Verify, Environment, Outcomes
<1>3. CASE VerifyAborted
  BY <1>3 DEF VerifyAborted, Environment, Outcomes, Decisions
<1>4. CASE SettleAllow
  <2>1. DOMAIN cache' \subseteq Int /\ \A t \in DOMAIN cache' : cache'[t] \subseteq Intents
    BY <1>4, PrunedFacts DEF SettleAllow
  <2> QED BY <1>4, <2>1 DEF SettleAllow, Environment
<1>5. CASE SettleRefuse
  <2>1. DOMAIN cache' \subseteq Int /\ \A t \in DOMAIN cache' : cache'[t] \subseteq Intents
    BY <1>5, RolledBackFacts DEF SettleRefuse
  <2> QED BY <1>5, <2>1 DEF SettleRefuse, Environment, Outcomes
<1>6. CASE Forward
  <2>1. [line |-> line, at |-> at, life |-> life, epoch |-> epoch,
         snapshot |-> snapshot] \in Writes
    BY <1>6 DEF Forward, Writes
  <2>2. toChild' \in Seq(Writes)
    BY <1>6, <2>1 DEF Forward
  <2> QED BY <1>6, <2>2 DEF Forward, Environment, EndTurn
<1>7. CASE ForwardFails
  BY <1>7 DEF ForwardFails, Environment, StopReading
<1>8. CASE Refuse
  <2>1. [line |-> line, life |-> life, why |-> decision] \in Answers
    BY <1>8 DEF Refuse, Answers
  <2>2. refused' \in Seq(Answers)
    BY <1>8, <2>1 DEF Refuse
  <2> QED BY <1>8, <2>2 DEF Refuse, Environment, EndTurn
<1>9. CASE RefuseFails
  BY <1>9 DEF RefuseFails, Environment, StopReading
<1>10. CASE EndOfInput
  BY <1>10 DEF EndOfInput, Environment, StopReading
<1>16. CASE ChildExits
  BY <1>16 DEF ChildExits, Environment, StopReading
<1>11. CASE ReloadPolicy
  BY <1>11 DEF ReloadPolicy
<1>12. CASE Restart
  BY <1>12 DEF Restart, EndTurn
<1>13. CASE Tick
  BY <1>13 DEF Tick
<1>14. CASE StepBack
  BY <1>14 DEF StepBack
<1>15. CASE UNCHANGED vars
  BY <1>15 DEF vars
<1> QED
  BY <1>1, <1>2, <1>3, <1>4, <1>5, <1>6, <1>7, <1>8, <1>9, <1>10, <1>11,
     <1>12, <1>13, <1>14, <1>15, <1>16 DEF Next, HandleLine

(* The broker starts well-typed.                                           *)
LEMMA TypeInit == Init => TypeOK /\ TurnOK
  BY DEF Init, TypeOK, TurnOK, Handling

(* Every reachable state is well-typed, and the local state of stdin_task  *)
(* means what the code that reads it next assumes (main.rs:193-313).       *)
THEOREM TypeCorrect == Spec => [](TypeOK /\ TurnOK)
  BY TypeInit, TypeStep, PTL DEF Spec

---------------------------------------------------------------------------------
(* Entries of the log have their type.                                     *)
LEMMA LogType == TypeOK => \A i \in DOMAIN toChild : toChild[i] \in Writes
  BY DEF TypeOK

(* A write adds one entry to the log and keeps the others.                 *)
LEMMA ForwardFacts ==
    ASSUME TypeOK, Forward
    PROVE  /\ Len(toChild) + 1 \notin DOMAIN toChild
           /\ DOMAIN toChild' = DOMAIN toChild \cup {Len(toChild) + 1}
           /\ \A i \in DOMAIN toChild : toChild'[i] = toChild[i] /\ i < Len(toChild) + 1
           /\ toChild'[Len(toChild) + 1] =
                 [line |-> line, at |-> at, life |-> life, epoch |-> epoch,
                  snapshot |-> snapshot]
  BY DEF TypeOK, Forward

(* Only the write to the child's stdin reaches the child.                  *)
LEMMA OnlyForwardLogs == [Next]_vars => Forward \/ UNCHANGED toChild
  BY DEF Next, vars, ReadLine, HandleLine, PassThrough, CallWithoutReceipt, ReplayedCall,
         Reserve, Verify, VerifyAborted, SettleAllow, SettleRefuse, ForwardFails, Refuse,
         RefuseFails, EndOfInput, ChildExits, ReloadPolicy, Restart, Tick, StepBack

(* The log is never rewritten.                                             *)
LEMMA LogKept ==
    ASSUME TypeOK, [Next]_vars
    PROVE  /\ \A i \in DOMAIN toChild : i \in DOMAIN toChild' /\ toChild'[i] = toChild[i]
           /\ \A i \in Executed : i \in Executed' /\ ReceiptAt(i)' = ReceiptAt(i)
<1>1. \A i \in DOMAIN toChild : i \in DOMAIN toChild' /\ toChild'[i] = toChild[i]
  BY ForwardFacts, OnlyForwardLogs
<1> QED BY <1>1 DEF Executed, ReceiptAt

(* Every tool call that reached the child was approved under the policy it *)
(* was read under (main.rs:204-280), in every instance.                    *)
LEMMA VerifiedStep ==
    TypeOK /\ TurnOK /\ SnapshotsTaken /\ NothingUnverified /\ [Next]_vars
        => SnapshotsTaken' /\ NothingUnverified'
<1> SUFFICES ASSUME TypeOK, TurnOK, SnapshotsTaken, NothingUnverified, [Next]_vars,
                    NEW i \in DOMAIN toChild', IsGated(toChild'[i].line)
             PROVE  /\ toChild'[i].snapshot \in Snapshots
                    /\ Approved(toChild'[i].line, toChild'[i].snapshot.policy, toChild'[i].at)
  BY DEF SnapshotsTaken, NothingUnverified
<1>1. CASE i \in DOMAIN toChild
  BY <1>1, LogKept DEF SnapshotsTaken, NothingUnverified
<1>2. CASE i \notin DOMAIN toChild
  <2>1. Forward
    BY <1>2, OnlyForwardLogs
  <2>2. toChild'[i] = [line |-> line, at |-> at, life |-> life, epoch |-> epoch,
                       snapshot |-> snapshot]
    BY <1>2, <2>1, ForwardFacts
  <2> QED BY <2>1, <2>2 DEF TurnOK, Forward, Handling
<1> QED BY <1>1, <1>2

(* Whatever the clock, the watcher and restarts do, every tool call that   *)
(* reached the child was approved under the policy it was read under.      *)
THEOREM AlwaysVerified == Spec => [](SnapshotsTaken /\ NothingUnverified)
<1>1. Init => SnapshotsTaken /\ NothingUnverified
  BY DEF Init, SnapshotsTaken, NothingUnverified
<1> QED BY <1>1, TypeInit, TypeStep, VerifiedStep, PTL DEF Spec

---------------------------------------------------------------------------------
(* An executed call stays executed for the rest of the broker's life.      *)
LEMMA ExecutionKept ==
    ASSUME TypeOK, [Next]_vars, UNCHANGED life, NEW x, NEW t, ExecutedAs(x, t)
    PROVE  ExecutedAs(x, t)'
<1>1. PICK i \in Executed : /\ toChild[i].life = life
                            /\ ReceiptAt(i).intent = x
                            /\ ReceiptAt(i).timestamp = t
  BY DEF ExecutedAs
<1>2. i \in DOMAIN toChild' /\ toChild'[i] = toChild[i]
  BY LogKept DEF Executed
<1> QED BY <1>1, <1>2 DEF ExecutedAs, Executed, ReceiptAt

(* A life of the broker ends only with its process.                        *)
LEMMA OnlyRestartChangesLife == [Next]_vars => Restart \/ UNCHANGED life
  BY DEF Next, vars, ReadLine, HandleLine, PassThrough, CallWithoutReceipt, ReplayedCall,
         Reserve, Verify, VerifyAborted, SettleAllow, SettleRefuse, Forward, ForwardFails,
         Refuse, RefuseFails, EndOfInput, ChildExits, ReloadPolicy, Tick, StepBack, Environment

(* The call in flight becomes an executed call when it is written.         *)
LEMMA ForwardExecutes ==
    ASSUME TypeOK, Forward, NEW x, NEW t, InFlightAs(x, t)
    PROVE  ExecutedAs(x, t)'
<1> DEFINE n == Len(toChild) + 1
<1>1. /\ n \in DOMAIN toChild'
      /\ toChild'[n].line = line
      /\ toChild'[n].life = life'
  BY ForwardFacts DEF Forward, Environment
<1> HIDE DEF n
<1>2. n \in Executed'
  BY <1>1 DEF Executed, InFlightAs, InFlight
<1> QED BY <1>1, <1>2 DEF ExecutedAs, ReceiptAt, InFlightAs

(* No reservation without a call that was executed or is in flight.        *)
LEMMA ExplainedStep ==
    TypeOK /\ TurnOK /\ Explained /\ [Next]_vars => Explained'
<1> SUFFICES ASSUME TypeOK, TurnOK, Explained, [Next]_vars, pc' # "closed",
                    NEW t \in DOMAIN cache', NEW x \in cache'[t]
             PROVE  ExecutedAs(x, t)' \/ InFlightAs(x, t)'
  BY DEF Explained
<1>1. CASE ReadLine
  <2> PICK l \in Lines :
        PassThrough(l) \/ CallWithoutReceipt(l) \/ ReplayedCall(l) \/ Reserve(l)
    BY <1>1 DEF ReadLine
  <2>1. pc = "read" /\ UNCHANGED life /\ line' = l
    BY DEF PassThrough, CallWithoutReceipt, ReplayedCall, Reserve, Read, Environment
  <2>2. CASE UNCHANGED cache
    BY <2>1, <2>2, ExecutionKept DEF Explained, InFlightAs, InFlight
  <2>3. CASE Reserve(l)
    <3>1. \/ t \in DOMAIN cache /\ x \in cache[t]
          \/ t = l.receipt.timestamp /\ x = l.receipt.intent
      BY <2>3, ReservedFacts DEF Reserve
    <3>2. CASE t \in DOMAIN cache /\ x \in cache[t]
      BY <2>1, <3>2, ExecutionKept DEF Explained, InFlightAs, InFlight
    <3>3. CASE t = l.receipt.timestamp /\ x = l.receipt.intent
      BY <2>1, <2>3, <3>3 DEF Reserve, InFlightAs, InFlight
    <3> QED BY <3>1, <3>2, <3>3
  <2> QED BY <2>2, <2>3 DEF PassThrough, CallWithoutReceipt, ReplayedCall
<1>2. CASE Verify \/ VerifyAborted
  <2>1. /\ pc = "verify" /\ pc' = "settle"
        /\ UNCHANGED <<life, cache, line>>
    BY <1>2 DEF Verify, VerifyAborted, Environment
  <2> QED BY <2>1, ExecutionKept DEF Explained, InFlightAs, InFlight
<1>3. CASE SettleAllow
  <2>1. pc = "settle" /\ pc' = "forward" /\ UNCHANGED <<life, line>>
    BY <1>3 DEF SettleAllow, Environment
  <2>2. t \in DOMAIN cache /\ x \in cache[t]
    BY <1>3, PrunedFacts DEF SettleAllow
  <2> QED BY <2>1, <2>2, ExecutionKept DEF Explained, InFlightAs, InFlight
<1>4. CASE SettleRefuse
  <2>1. pc = "settle" /\ UNCHANGED <<life, line>> /\ cache' = RolledBack(line.receipt)
    BY <1>4 DEF SettleRefuse, Environment
  <2>2. /\ t \in DOMAIN cache /\ x \in cache[t]
        /\ ~(t = line.receipt.timestamp /\ x = line.receipt.intent)
    BY <2>1, RolledBackFacts
  <2> QED BY <2>1, <2>2, ExecutionKept DEF Explained, InFlightAs
<1>5. CASE Forward
  <2>1. pc = "forward" /\ UNCHANGED <<life, cache>>
    BY <1>5 DEF Forward, Environment
  <2> QED BY <1>5, <2>1, ExecutionKept, ForwardExecutes DEF Explained
<1>6. CASE Refuse
  <2>1. pc = "refuse" /\ UNCHANGED <<life, cache>>
    BY <1>6 DEF Refuse, Environment
  <2> QED BY <2>1, ExecutionKept DEF Explained, InFlightAs, InFlight
<1>7. CASE ForwardFails \/ RefuseFails \/ EndOfInput \/ ChildExits
  BY <1>7 DEF ForwardFails, RefuseFails, EndOfInput, ChildExits, StopReading
<1>8. CASE Restart
  BY <1>8 DEF Restart
<1>9. CASE ReloadPolicy \/ Tick \/ StepBack \/ UNCHANGED vars
  <2>1. UNCHANGED <<pc, life, cache, line>>
    BY <1>9 DEF ReloadPolicy, Tick, StepBack, vars
  <2> QED BY <2>1, ExecutionKept DEF Explained, InFlightAs, InFlight
<1> QED
  BY <1>1, <1>2, <1>3, <1>4, <1>5, <1>6, <1>7, <1>8, <1>9 DEF Next, HandleLine

(* Between two lines the cache holds executed calls only.                  *)
THEOREM NoPhantoms == Spec => []NoPhantomReservation
<1>1. Init => Explained
  BY DEF Init, Explained
<1>2. Explained => NoPhantomReservation
  BY DEF Explained, NoPhantomReservation, ExecutedAs, InFlightAs, InFlight
<1> QED BY <1>1, <1>2, TypeInit, TypeStep, ExplainedStep, PTL DEF Spec

---------------------------------------------------------------------------------
(* A line about to be refused as a replay repeats an executed intent.      *)
LEMMA ReplaysExplainedStep ==
    TypeOK /\ TurnOK /\ Explained /\ ReplaysExplained /\ [Next]_vars => ReplaysExplained'
<1> SUFFICES ASSUME TypeOK, TurnOK, Explained, ReplaysExplained, [Next]_vars,
                    pc' = "refuse", decision' = "replay"
             PROVE  /\ line'.receipt # None
                    /\ \E i \in Executed' :
                          /\ toChild'[i].life = life'
                          /\ toChild'[i].line.receipt.intent = line'.receipt.intent
  BY DEF ReplaysExplained, ReceiptAt
<1>1. CASE ReadLine
  <2> PICK l \in Lines :
        PassThrough(l) \/ CallWithoutReceipt(l) \/ ReplayedCall(l) \/ Reserve(l)
    BY <1>1 DEF ReadLine
  <2>1. CASE ReplayedCall(l)
    <3>1. /\ pc = "read" /\ line' = l /\ UNCHANGED life
          /\ l.receipt # None /\ IsReserved(l.receipt.intent)
      BY <2>1 DEF ReplayedCall, Read, Environment
    <3>2. PICK t \in DOMAIN cache : l.receipt.intent \in cache[t]
      BY <3>1 DEF IsReserved
    <3>3. ExecutedAs(l.receipt.intent, t)
      BY <3>1, <3>2 DEF Explained, InFlightAs, InFlight
    <3>4. ExecutedAs(l.receipt.intent, t)'
      BY <3>1, <3>3, ExecutionKept
    <3> QED BY <3>1, <3>4 DEF ExecutedAs, ReceiptAt
  <2> QED BY <2>1 DEF PassThrough, CallWithoutReceipt, Reserve, TypeOK, TurnOK, Handling
<1>2. CASE SettleRefuse
  BY <1>2 DEF SettleRefuse
<1>3. CASE ReloadPolicy \/ Tick \/ StepBack \/ UNCHANGED vars
  <2>1. UNCHANGED <<pc, life, decision, line>>
    BY <1>3 DEF ReloadPolicy, Tick, StepBack, vars
  <2>2. /\ line.receipt # None
        /\ \E i \in Executed : /\ toChild[i].life = life
                               /\ toChild[i].line.receipt.intent = line.receipt.intent
    BY <2>1 DEF ReplaysExplained, ReceiptAt
  <2> PICK i \in Executed : /\ toChild[i].life = life
                            /\ toChild[i].line.receipt.intent = line.receipt.intent
    BY <2>2
  <2>3. i \in Executed' /\ toChild'[i] = toChild[i]
    BY LogKept DEF Executed
  <2> QED BY <2>1, <2>2, <2>3
<1> QED
  BY <1>1, <1>2, <1>3 DEF Next, HandleLine, Verify, VerifyAborted, SettleAllow, Forward,
     ForwardFails, Refuse, RefuseFails, EndOfInput, ChildExits, Restart, EndTurn, StopReading

(* A replay refusal names an intent that this life of the broker executed. *)
LEMMA FalseReplayStep ==
    TypeOK /\ TurnOK /\ ReplaysExplained /\ NoFalseReplay /\ [Next]_vars => NoFalseReplay'
<1> SUFFICES ASSUME TypeOK, TurnOK, ReplaysExplained, NoFalseReplay, [Next]_vars,
                    NEW n \in DOMAIN refused', refused'[n].why = "replay"
             PROVE  \E i \in Executed' :
                      /\ toChild'[i].life = refused'[n].life
                      /\ toChild'[i].line.receipt.intent = refused'[n].line.receipt.intent
  BY DEF NoFalseReplay, ReceiptAt
<1>1. CASE n \in DOMAIN refused /\ refused'[n] = refused[n]
  <2>1. PICK i \in Executed :
           /\ toChild[i].life = refused[n].life
           /\ toChild[i].line.receipt.intent = refused[n].line.receipt.intent
    BY <1>1 DEF NoFalseReplay, ReceiptAt
  <2>2. i \in Executed' /\ toChild'[i] = toChild[i]
    BY LogKept DEF Executed
  <2> QED BY <1>1, <2>1, <2>2
<1>2. CASE ~(n \in DOMAIN refused /\ refused'[n] = refused[n])
  <2>1. Refuse
    BY <1>2 DEF Next, vars, ReadLine, HandleLine, PassThrough, CallWithoutReceipt,
       ReplayedCall, Reserve, Verify, VerifyAborted, SettleAllow, SettleRefuse, Forward,
       ForwardFails, RefuseFails, EndOfInput, ChildExits, ReloadPolicy, Restart, Tick, StepBack
  <2>2. pc = "refuse" /\ refused'[n] = [line |-> line, life |-> life, why |-> decision]
    BY <1>2, <2>1 DEF Refuse, TypeOK
  <2>3. PICK i \in Executed : /\ toChild[i].life = life
                              /\ toChild[i].line.receipt.intent = line.receipt.intent
    BY <2>2 DEF ReplaysExplained, ReceiptAt
  <2>4. i \in Executed' /\ toChild'[i] = toChild[i]
    BY LogKept DEF Executed
  <2> QED BY <2>2, <2>3, <2>4
<1> QED BY <1>1, <1>2

(* Whatever the clock does, a replay refusal names an intent executed      *)
(* before in the same life: a blocked or suspended call never makes its    *)
(* own retry a replay (main.rs:222-268).                                   *)
THEOREM ReplaysAreReplays == Spec => []NoFalseReplay
<1>1. Init => Explained /\ ReplaysExplained /\ NoFalseReplay
  BY DEF Init, Explained, ReplaysExplained, NoFalseReplay
<1> QED
  BY <1>1, TypeInit, TypeStep, ExplainedStep, ReplaysExplainedStep, FalseReplayStep, PTL DEF Spec

---------------------------------------------------------------------------------
(* The policy's epoch never goes back.                                     *)
LEMMA EpochAdvances == [Next]_vars => epoch' \in {epoch, epoch + 1}
  BY DEF Next, vars, ReadLine, HandleLine, PassThrough, CallWithoutReceipt,
     ReplayedCall, Reserve, Verify, VerifyAborted, SettleAllow, SettleRefuse, Forward,
     ForwardFails, Refuse, RefuseFails, EndOfInput, ChildExits, ReloadPolicy, Restart, Tick, StepBack,
     Environment

(* Epochs only advance, and a snapshot carries the epoch of the moment the *)
(* call was read.                                                          *)
LEMMA EpochsStep == TypeOK /\ TurnOK /\ EpochsOK /\ [Next]_vars => EpochsOK'
<1> SUFFICES ASSUME TypeOK, TurnOK, EpochsOK, [Next]_vars PROVE EpochsOK'
  OBVIOUS
<1>1. epoch \in Nat /\ epoch' \in Nat /\ epoch <= epoch'
  BY EpochAdvances DEF TypeOK
<1>2. \A i \in DOMAIN toChild : toChild[i].epoch \in Nat
  BY LogType DEF Writes
<1>3. \A i \in DOMAIN toChild' : toChild'[i].epoch <= epoch'
  <2> TAKE i \in DOMAIN toChild'
  <2>1. CASE i \in DOMAIN toChild
    BY <1>1, <1>2, <2>1, LogKept DEF EpochsOK
  <2>2. CASE i \notin DOMAIN toChild
    <3>1. Forward
      BY <2>2, OnlyForwardLogs
    <3>2. toChild'[i].epoch = epoch
      BY <2>2, <3>1, ForwardFacts
    <3> QED BY <1>1, <3>2
  <2> QED BY <2>1, <2>2
<1>4. ASSUME Handling', IsGated(line')
      PROVE  /\ snapshot'.epoch <= epoch'
             /\ \A i \in DOMAIN toChild' : toChild'[i].epoch <= snapshot'.epoch
  <2>1. UNCHANGED toChild
    BY <1>4, OnlyForwardLogs DEF Forward, EndTurn, Handling
  <2>2. CASE ReadLine
    <3>1. snapshot' = TakeSnapshot /\ UNCHANGED epoch
      BY <1>4, <2>2 DEF ReadLine, PassThrough, CallWithoutReceipt, ReplayedCall, Reserve,
         Read, Environment
    <3> QED BY <1>1, <2>1, <3>1 DEF TakeSnapshot, EpochsOK
  <2>3. CASE Handling /\ UNCHANGED <<line, snapshot>>
    <3>1. snapshot.epoch \in Nat
      BY <1>4, <2>3 DEF TurnOK, Snapshots
    <3> QED BY <1>1, <1>2, <1>4, <2>1, <2>3, <3>1 DEF EpochsOK
  <2> QED BY <1>4, <2>2, <2>3 DEF Next, vars, HandleLine, Verify, VerifyAborted, SettleAllow,
     SettleRefuse, Forward, ForwardFails, Refuse, RefuseFails, EndOfInput, ChildExits, ReloadPolicy,
     Restart, Tick, StepBack, EndTurn, StopReading, Handling
<1> QED BY <1>3, <1>4 DEF EpochsOK

(* A reload lets at most the call in flight through under the old policy.  *)
LEMMA StaleStep ==
    TypeOK /\ TurnOK /\ EpochsOK /\ OneStaleForward /\ [Next]_vars => OneStaleForward'
<1> SUFFICES ASSUME TypeOK, TurnOK, EpochsOK, OneStaleForward, [Next]_vars,
                    NEW i \in DOMAIN toChild', NEW j \in DOMAIN toChild',
                    i < j, IsGated(toChild'[j].line)
             PROVE  toChild'[i].epoch <= toChild'[j].snapshot.epoch
  BY DEF OneStaleForward
<1>1. CASE i \in DOMAIN toChild /\ j \in DOMAIN toChild
  BY <1>1, LogKept DEF OneStaleForward
<1>2. CASE ~(i \in DOMAIN toChild /\ j \in DOMAIN toChild)
  <2>1. Forward
    BY <1>2, OnlyForwardLogs
  <2>2. /\ i \in DOMAIN toChild /\ toChild'[i] = toChild[i]
        /\ toChild'[j].line = line /\ toChild'[j].snapshot = snapshot
    BY <1>2, <2>1, ForwardFacts DEF TypeOK
  <2> QED BY <2>1, <2>2 DEF EpochsOK, Forward, Handling
<1> QED BY <1>1, <1>2

(* Once a line was written under an epoch of the policy, no later call is  *)
(* judged by an older policy (main.rs:204).                                *)
THEOREM AtMostOneStale == Spec => []OneStaleForward
<1>1. Init => EpochsOK /\ OneStaleForward
  BY DEF Init, EpochsOK, OneStaleForward, Handling
<1> QED BY <1>1, TypeInit, TypeStep, EpochsStep, StaleStep, PTL DEF Spec

(* The invariant that carries all of the above is itself invariant.        *)
THEOREM UnclockedHolds == Spec => []UnclockedInv
<1>1. Init => UnclockedInv
  BY TypeInit DEF Init, UnclockedInv, SnapshotsTaken, NothingUnverified, Explained, ReplaysExplained,
     NoFalseReplay, EpochsOK, OneStaleForward, Handling
<1>2. UnclockedInv /\ [Next]_vars => UnclockedInv'
  BY TypeStep, VerifiedStep, ExplainedStep, ReplaysExplainedStep, FalseReplayStep, EpochsStep,
     StaleStep DEF UnclockedInv
<1> QED BY <1>1, <1>2, PTL DEF Spec
================================================================================
