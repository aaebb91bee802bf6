----------------------------- MODULE BrokerOnceProofs -----------------------------
(***************************************************************************)
(* Under a clock that is never set back, the idempotency cache spaces the  *)
(* executions of an intent, and with one time-to-live for every policy a   *)
(* receipt is executed at most once in a life of the broker.               *)
(***************************************************************************)
EXTENDS BrokerProofs, FiniteSetTheorems

(* Without a step back the clock only advances.                            *)
LEMMA ClockAdvances ==
    ASSUME ~ClockMayStepBack, [Next]_vars
    PROVE  clock' \in {clock, clock + 1}
  BY DEF Next, vars, ReadLine, HandleLine, PassThrough, CallWithoutReceipt,
     ReplayedCall, Reserve, Verify, VerifyAborted, SettleAllow, SettleRefuse, Forward,
     ForwardFails, Refuse, RefuseFails, EndOfInput, ChildExits, ReloadPolicy, Restart, Tick, StepBack,
     Environment

(* A receipt that was outlived stays outlived.                             *)
LEMMA OutlivedLater ==
    ASSUME NEW ts \in Int, NEW a \in Int, NEW b \in Int, a <= b, Outlived(ts, a)
    PROVE  Outlived(ts, b)
  BY LoadedTTL DEF Outlived

(* The receipts of executed calls carry integer timestamps.                *)
LEMMA ReceiptTime ==
    TypeOK => \A i \in Executed : ReceiptAt(i).timestamp \in Int
  BY LogType, BrokerAssumption DEF Executed, ReceiptAt, Writes

(* Lives are counted upwards.                                              *)
LEMMA LifeAdvances ==
    TypeOK /\ [Next]_vars => life \in Nat /\ life' \in Nat /\ life <= life'
  BY OnlyRestartChangesLife DEF Restart, TypeOK

(* No entry of the log is from a later life than the present one.          *)
LEMMA LivesStep ==
    ASSUME TypeOK, [Next]_vars, \A i \in DOMAIN toChild : toChild[i].life <= life
    PROVE  \A i \in DOMAIN toChild' : toChild'[i].life <= life'
<1> TAKE i \in DOMAIN toChild'
<1>1. CASE i \in DOMAIN toChild
  <2>1. toChild[i].life \in Nat /\ toChild'[i] = toChild[i]
    BY <1>1, LogType, LogKept DEF Writes
  <2> QED BY <1>1, <2>1, LifeAdvances
<1>2. CASE i \notin DOMAIN toChild
  <2>1. Forward
    BY <1>2, OnlyForwardLogs
  <2>2. toChild'[i].life = life
    BY <1>2, <2>1, ForwardFacts
  <2> QED BY <2>2, LifeAdvances
<1> QED BY <1>1, <1>2

(* The decision time of a call never runs ahead of the clock.              *)
LEMMA AtStep ==
    ASSUME TypeOK, [Next]_vars, ~ClockMayStepBack,
           pc \in {"settle", "forward"} => at <= clock
    PROVE  pc' \in {"settle", "forward"} => at' <= clock'
<1>1. clock \in Int /\ clock' \in Int /\ clock <= clock' /\ at \in Int
  BY ClockAdvances DEF TypeOK
<1>2. \/ pc' \notin {"settle", "forward"}
      \/ at' = clock
      \/ pc \in {"settle", "forward"} /\ at' = at
  BY DEF Next, vars, ReadLine, HandleLine, PassThrough, CallWithoutReceipt,
     ReplayedCall, Reserve, Verify, VerifyAborted, SettleAllow, SettleRefuse, Forward,
     ForwardFails, Refuse, RefuseFails, EndOfInput, ChildExits, ReloadPolicy, Restart, Tick, StepBack,
     EndTurn, StopReading
<1> QED BY <1>1, <1>2

(* What a step does to a reservation: it stays, or the policy of the call  *)
(* being settled says it expired, or it is the one rolled back.            *)
LEMMA ReservationStep ==
    ASSUME TypeOK, TurnOK, [Next]_vars, UNCHANGED life, NEW r, HeldIn(cache, r), r.timestamp \in Int
    PROVE  \/ HeldIn(cache', r)
           \/ Outlived(r.timestamp, clock)
           \/ /\ SettleRefuse
              /\ line.receipt.intent = r.intent
<1>1. CASE UNCHANGED cache
  BY <1>1
<1>2. ASSUME NEW l \in Lines, Reserve(l) PROVE HeldIn(cache', r)
  BY <1>2, ReservedFacts DEF Reserve, HeldIn
<1>3. CASE SettleAllow
  <2>1. snapshot.policy \in LoadedPolicies /\ snapshot.policy.ttl \in Int
    BY <1>3, LoadedTTL DEF SettleAllow, TurnOK, Handling, Snapshots
  <2>2. CASE r.timestamp >= clock - snapshot.policy.ttl
    BY <1>3, <2>2, PrunedFacts DEF SettleAllow, HeldIn
  <2>3. CASE ~(r.timestamp >= clock - snapshot.policy.ttl)
    <3>1. clock > r.timestamp + snapshot.policy.ttl
      BY <2>1, <2>3 DEF TypeOK
    <3> QED BY <2>1, <3>1 DEF Outlived
  <2> QED BY <2>2, <2>3
<1>4. CASE SettleRefuse
  BY <1>4, RolledBackFacts DEF SettleRefuse, HeldIn
<1>5. ~Restart
  BY DEF Restart, TypeOK
<1> QED
  BY <1>1, <1>2, <1>3, <1>4, <1>5 DEF Next, vars, ReadLine, HandleLine,
     PassThrough, CallWithoutReceipt, ReplayedCall, Verify, VerifyAborted, Forward,
     ForwardFails, Refuse, RefuseFails, EndOfInput, ChildExits, ReloadPolicy, Tick, StepBack

(* In a step that keeps a call in flight, or makes one, nothing is logged  *)
(* and the broker is not restarted.                                        *)
LEMMA InFlightStep ==
    ASSUME TypeOK, TurnOK, [Next]_vars, InFlight'
    PROVE  /\ UNCHANGED <<toChild, life>>
           /\ \/ \E l \in Lines : Reserve(l)
              \/ InFlight /\ UNCHANGED line
<1>1. UNCHANGED toChild
  BY OnlyForwardLogs DEF Forward, EndTurn, InFlight
<1>2. UNCHANGED life
  BY OnlyRestartChangesLife DEF Restart, EndTurn, InFlight
<1>3. ReadLine => \E l \in Lines : Reserve(l)
  BY DEF ReadLine, PassThrough, CallWithoutReceipt, ReplayedCall, Read, InFlight
<1>4. ~ReadLine => InFlight /\ UNCHANGED line
  BY DEF Next, vars, HandleLine, Verify, VerifyAborted, SettleAllow,
     SettleRefuse, Forward, ForwardFails, Refuse, RefuseFails, EndOfInput, ChildExits, ReloadPolicy,
     Restart, Tick, StepBack, EndTurn, StopReading, InFlight
<1> QED BY <1>1, <1>2, <1>3, <1>4

(* The call in flight stays reserved, or was outlived when it was settled. *)
LEMMA InFlightHeldStep ==
    ASSUME TypeOK, TurnOK, Remembered, [Next]_vars, ~ClockMayStepBack, InFlight'
    PROVE  \/ HeldIn(cache', line'.receipt)
           \/ pc' = "forward" /\ Outlived(line'.receipt.timestamp, clock')
<1>1. CASE \E l \in Lines : Reserve(l)
  <2>1. PICK l \in Lines : line' = l /\ cache' = Reserved(l.receipt)
    BY <1>1 DEF Reserve, Read
  <2>2. /\ l.receipt.timestamp \in DOMAIN Reserved(l.receipt)
        /\ l.receipt.intent \in Reserved(l.receipt)[l.receipt.timestamp]
    BY ReservedFacts
  <2> QED BY <2>1, <2>2 DEF HeldIn
<1>2. CASE InFlight /\ UNCHANGED line
  <2>1. UNCHANGED life /\ line.receipt.timestamp \in Int
    BY <1>2, InFlightStep, BrokerAssumption DEF InFlight, TurnOK, Handling
  <2>2. clock \in Int /\ clock' \in Int /\ clock <= clock'
    BY ClockAdvances DEF TypeOK
  <2>3. ~SettleRefuse
    BY DEF SettleRefuse, InFlight
  <2>4. CASE Outlived(line.receipt.timestamp, clock) /\ pc = "forward"
    <3>1. pc' = "forward"
      BY <2>4, InFlightStep DEF InFlight, Next, vars, ReadLine, HandleLine, PassThrough,
         CallWithoutReceipt, ReplayedCall, Reserve, Read, Verify, VerifyAborted, SettleAllow,
         SettleRefuse, Forward, ForwardFails, Refuse, RefuseFails, EndOfInput, ChildExits, ReloadPolicy,
         Restart, Tick, StepBack, EndTurn, StopReading
    <3> QED BY <1>2, <2>1, <2>2, <2>4, <3>1, OutlivedLater
  <2>5. CASE HeldIn(cache, line.receipt)
    <3>1. CASE SettleAllow
      <4>1. pc' = "forward"
        BY <3>1 DEF SettleAllow
      <4> QED BY <1>2, <2>1, <2>2, <2>3, <2>5, <4>1, ReservationStep, OutlivedLater
    <3>2. CASE ~SettleAllow
      <4>1. UNCHANGED cache
        BY <1>2, <2>3, <3>2 DEF InFlight, Next, vars, ReadLine, HandleLine, PassThrough,
           CallWithoutReceipt, ReplayedCall, Reserve, Read, Verify, VerifyAborted,
           Forward, ForwardFails, Refuse, RefuseFails, EndOfInput, ChildExits, ReloadPolicy,
           Restart, Tick, StepBack, EndTurn, StopReading
      <4> QED BY <1>2, <2>5, <4>1
    <3> QED BY <3>1, <3>2
  <2> QED BY <1>2, <2>4, <2>5 DEF Remembered
<1> QED BY <1>1, <1>2, InFlightStep

(* The call in flight comes after every earlier execution of its intent    *)
(* was outlived.                                                           *)
LEMMA SpacedStep ==
    ASSUME TypeOK, TurnOK, Remembered, [Next]_vars, ~ClockMayStepBack, InFlight',
           NEW i \in Executed, toChild[i].life = life,
           ReceiptAt(i).intent = line'.receipt.intent
    PROVE  Outlived(ReceiptAt(i).timestamp, CallTime')
<1> DEFINE ts == ReceiptAt(i).timestamp
<1>1. ts \in Int
  BY ReceiptTime
<1>2. clock \in Int /\ clock' \in Int /\ clock <= clock'
  BY ClockAdvances DEF TypeOK
<1>3. CASE \E l \in Lines : Reserve(l)
  <2>1. ~IsReserved(line'.receipt.intent) /\ UNCHANGED clock /\ pc' = "verify"
    BY <1>3 DEF Reserve, Read, Environment
  <2>2. ~HeldIn(cache, ReceiptAt(i))
    BY <2>1 DEF IsReserved, HeldIn
  <2>3. Outlived(ts, clock)
    BY <2>2 DEF Remembered
  <2> QED BY <2>1, <2>3 DEF CallTime
<1>4. CASE InFlight /\ UNCHANGED line
  <2>1. Outlived(ts, CallTime)
    BY <1>4 DEF Remembered
  <2>2. CallTime \in Int /\ CallTime' \in Int /\ CallTime <= CallTime'
    <3>1. at \in Int /\ at' \in Int
      BY TypeStep DEF TypeOK
    <3>2. \/ pc = "verify" /\ pc' = "verify"
          \/ pc = "verify" /\ pc' # "verify" /\ at' = clock
          \/ pc # "verify" /\ pc' # "verify" /\ at' = at
      BY <1>4 DEF InFlight, Next, vars, ReadLine, HandleLine, PassThrough,
         CallWithoutReceipt, ReplayedCall, Reserve, Read, Verify, VerifyAborted, SettleAllow,
         SettleRefuse, Forward, ForwardFails, Refuse, RefuseFails, EndOfInput, ChildExits, ReloadPolicy,
         Restart, Tick, StepBack, EndTurn, StopReading
    <3> QED BY <1>2, <3>1, <3>2 DEF CallTime
  <2> QED BY <1>1, <2>1, <2>2, OutlivedLater
<1> QED BY <1>3, <1>4, InFlightStep

(* The strengthening of IntentSpacing is inductive.                        *)
LEMMA RememberedStep ==
    TypeOK /\ TurnOK /\ Remembered /\ [Next]_vars /\ ~ClockMayStepBack => Remembered'
<1> SUFFICES ASSUME TypeOK, TurnOK, Remembered, [Next]_vars, ~ClockMayStepBack
             PROVE  Remembered'
  OBVIOUS
<1>1. /\ \A i \in DOMAIN toChild' : toChild'[i].life <= life'
      /\ pc' \in {"settle", "forward"} => at' <= clock'
  BY LivesStep, AtStep DEF Remembered
<1>2. ASSUME NEW i \in Executed', toChild'[i].life = life'
      PROVE  \/ HeldIn(cache', toChild'[i].line.receipt)
             \/ Outlived(toChild'[i].line.receipt.timestamp, clock')
  <2>1. /\ i \in DOMAIN toChild'
        /\ IsGated(toChild'[i].line) /\ toChild'[i].line.receipt # None
    BY <1>2 DEF Executed
  <2>2. clock \in Int /\ clock' \in Int /\ clock <= clock'
    BY ClockAdvances DEF TypeOK
  <2>3. CASE i \in DOMAIN toChild
    <3> DEFINE r == toChild[i].line.receipt
    <3>1. toChild'[i] = toChild[i] /\ i \in Executed
      BY <2>1, <2>3, LogKept DEF Executed
    <3>2. UNCHANGED life
      <4>1. toChild[i].life <= life /\ life \in Nat
        BY <2>3 DEF Remembered, TypeOK
      <4> QED BY <1>2, <3>1, <4>1, OnlyRestartChangesLife DEF Restart
    <3>3. r.timestamp \in Int
      BY <3>1, ReceiptTime DEF ReceiptAt
    <3>4. HeldIn(cache, r) \/ Outlived(r.timestamp, clock)
      BY <1>2, <3>1, <3>2 DEF Remembered, ReceiptAt
    <3>5. CASE Outlived(r.timestamp, clock)
      BY <2>2, <3>1, <3>3, <3>5, OutlivedLater
    <3>6. CASE HeldIn(cache, r)
      <4>1. CASE SettleRefuse /\ line.receipt.intent = r.intent
        <5>1. InFlight /\ CallTime = at /\ at \in Int /\ at <= clock
          BY <4>1 DEF SettleRefuse, InFlight, TurnOK, CallTime, Remembered, TypeOK
        <5>2. Outlived(r.timestamp, at)
          BY <1>2, <3>1, <3>2, <4>1, <5>1 DEF Remembered, ReceiptAt
        <5> QED BY <2>2, <3>1, <3>3, <5>1, <5>2, OutlivedLater
      <4> QED BY <2>2, <3>1, <3>2, <3>3, <3>6, <4>1, ReservationStep, OutlivedLater
    <3> QED BY <3>4, <3>5, <3>6
  <2>4. CASE i \notin DOMAIN toChild
    <3>1. Forward
      BY <2>1, <2>4, OnlyForwardLogs
    <3>2. toChild'[i].line = line /\ pc = "forward" /\ UNCHANGED <<cache, clock>>
      BY <2>1, <2>4, <3>1, ForwardFacts DEF Forward, Environment
    <3>3. InFlight
      BY <2>1, <3>2 DEF InFlight
    <3> QED BY <3>2, <3>3 DEF Remembered
  <2> QED BY <2>3, <2>4
<1>3. ASSUME InFlight', NEW i \in Executed', toChild'[i].life = life',
             toChild'[i].line.receipt.intent = line'.receipt.intent
      PROVE  Outlived(toChild'[i].line.receipt.timestamp, CallTime')
  <2>1. UNCHANGED <<toChild, life>>
    BY <1>3, InFlightStep
  <2>2. i \in Executed
    BY <1>3, <2>1 DEF Executed
  <2> QED BY <1>3, <2>1, <2>2, SpacedStep DEF ReceiptAt
<1>4. ASSUME InFlight'
      PROVE  \/ HeldIn(cache', line'.receipt)
             \/ pc' = "forward" /\ Outlived(line'.receipt.timestamp, clock')
  BY <1>4, InFlightHeldStep
<1> QED BY <1>1, <1>2, <1>3, <1>4 DEF Remembered, ReceiptAt

(* Two executions of an intent in one life are apart by more than some     *)
(* time-to-live (main.rs:222-248).                                         *)
LEMMA SpacingStep ==
    TypeOK /\ TurnOK /\ Remembered /\ IntentSpacing /\ [Next]_vars => IntentSpacing'
<1> SUFFICES ASSUME TypeOK, TurnOK, Remembered, IntentSpacing, [Next]_vars,
                    NEW i \in Executed', NEW j \in Executed', i < j,
                    toChild'[i].life = toChild'[j].life,
                    toChild'[i].line.receipt.intent = toChild'[j].line.receipt.intent
             PROVE  Outlived(toChild'[i].line.receipt.timestamp, toChild'[j].at)
  BY DEF IntentSpacing, ReceiptAt
<1>1. i \in DOMAIN toChild' /\ j \in DOMAIN toChild'
  BY DEF Executed
<1>2. CASE i \in DOMAIN toChild /\ j \in DOMAIN toChild
  <2>1. toChild'[i] = toChild[i] /\ toChild'[j] = toChild[j]
    BY <1>2, LogKept
  <2>2. i \in Executed /\ j \in Executed
    BY <1>2, <2>1 DEF Executed
  <2> QED BY <2>1, <2>2 DEF IntentSpacing, ReceiptAt
<1>3. CASE ~(i \in DOMAIN toChild /\ j \in DOMAIN toChild)
  <2>1. Forward
    BY <1>1, <1>3, OnlyForwardLogs
  <2>2. /\ i \in DOMAIN toChild /\ toChild'[i] = toChild[i]
        /\ toChild'[j].line = line /\ toChild'[j].at = at /\ toChild'[j].life = life
    BY <1>1, <1>3, <2>1, ForwardFacts DEF TypeOK
  <2>3. i \in Executed /\ InFlight /\ CallTime = at
    BY <2>1, <2>2 DEF Executed, Forward, InFlight, CallTime
  <2> QED BY <2>2, <2>3 DEF Remembered, ReceiptAt
<1> QED BY <1>2, <1>3

(* When the clock is never set back, two executions of one intent in one   *)
(* life of the broker are apart by more than some policy's time-to-live,   *)
(* whatever policies are published and reloaded (main.rs:222-248).         *)
THEOREM IntentsAreSpaced ==
    ASSUME ~ClockMayStepBack
    PROVE  Spec => []IntentSpacing
<1>1. Init => Remembered /\ IntentSpacing
  BY DEF Init, Remembered, IntentSpacing, Executed, InFlight
<1>2. TypeOK /\ TurnOK /\ Remembered /\ IntentSpacing /\ [Next]_vars
         => Remembered' /\ IntentSpacing'
  BY RememberedStep, SpacingStep
<1> QED BY <1>1, <1>2, TypeInit, TypeStep, PTL DEF Spec

(* The cache remembers an execution until its receipt is outlived          *)
(* (main.rs:222-268).                                                      *)
THEOREM ClockedHolds ==
    ASSUME ~ClockMayStepBack
    PROVE  Spec => []ClockedInv
<1>1. Init => Remembered /\ IntentSpacing
  BY DEF Init, Remembered, IntentSpacing, Executed, InFlight
<1> QED BY <1>1, TypeInit, TypeStep, RememberedStep, SpacingStep, PTL DEF Spec, ClockedInv

---------------------------------------------------------------------------------
(* An approved receipt is no older than its policy's time-to-live.         *)
LEMMA ApprovedIsFresh ==
    ASSUME NEW l, NEW p, NEW now, l.receipt # None, Approved(l, p, now), p.ttl > 0
    PROVE  now - l.receipt.timestamp <= p.ttl
  BY DEF Approved, VerifyReceipt, IsFresh

(* A receipt executes at most once in a life of the broker, when the clock *)
(* is never set back and the published policies agree on the time-to-live. *)
THEOREM ReceiptsExecuteOnce ==
    ASSUME ~ClockMayStepBack, UniformTTL
    PROVE  Spec => []SingleExecution
<1>1. TypeOK /\ SnapshotsTaken /\ NothingUnverified /\ IntentSpacing => SingleExecution
  <2> SUFFICES ASSUME TypeOK, SnapshotsTaken, NothingUnverified, IntentSpacing,
                      NEW i \in Executed, NEW j \in Executed, i < j,
                      toChild[i].life = toChild[j].life, ReceiptAt(i) = ReceiptAt(j)
               PROVE  FALSE
    <3>1. Executed \subseteq Nat
      BY DEF Executed, TypeOK
    <3> QED BY <3>1 DEF SingleExecution
  <2> DEFINE r == ReceiptAt(j)
             p == toChild[j].snapshot.policy
  <2>1. /\ p \in LoadedPolicies
        /\ Approved(toChild[j].line, p, toChild[j].at)
    BY DEF SnapshotsTaken, NothingUnverified, Executed, Snapshots
  <2>2. p.ttl = FallbackTTL /\ FallbackTTL \in Nat \ {0}
    BY <2>1, VerificationAssumption DEF UniformTTL
  <2>3. toChild[j].at \in Int /\ r.timestamp \in Int
    BY LogType, ReceiptTime DEF Executed, Writes
  <2>4. toChild[j].at - r.timestamp <= FallbackTTL
    BY <2>1, <2>2, ApprovedIsFresh DEF Executed, ReceiptAt
  <2>5. Outlived(r.timestamp, toChild[j].at)
    BY DEF IntentSpacing
  <2>6. toChild[j].at > r.timestamp + FallbackTTL
    BY <2>5 DEF Outlived, UniformTTL
  <2> QED BY <2>2, <2>3, <2>4, <2>6
<1> QED BY <1>1, TypeCorrect, AlwaysVerified, IntentsAreSpaced, PTL

---------------------------------------------------------------------------------
(* The executions of a receipt are one entry of the log at most, so that   *)
(* they count for 0 or 1.                                                  *)
LEMMA CountOfExecutions ==
    ASSUME SingleExecution, NEW r
    PROVE  /\ ExecutionsOf(r) = {} => Cardinality(ExecutionsOf(r)) = 0
           /\ ExecutionsOf(r) # {} => Cardinality(ExecutionsOf(r)) = 1
<1>1. Cardinality({}) = 0
  BY FS_EmptySet
<1>2. ASSUME NEW i \in ExecutionsOf(r)
      PROVE  Cardinality(ExecutionsOf(r)) = 1
  <2>1. ExecutionsOf(r) = {i}
    BY <1>2 DEF ExecutionsOf, SingleExecution
  <2> QED BY <2>1, FS_Singleton
<1> QED BY <1>1, <1>2

(* What the abstract specification sees of a state.                        *)
Counts == [r \in Receipts |-> Cardinality(ExecutionsOf(r))]

(* The write of a call with a receipt is its execution.                    *)
LEMMA ForwardRefines ==
    ASSUME TypeOK, TurnOK, SingleExecution, SingleExecution', Forward
    PROVE  \/ \E r \in Receipts : Once!Execute(r)
           \/ UNCHANGED <<Counts, Replayed>>
<1> DEFINE n == Len(toChild) + 1
<1>1. /\ DOMAIN toChild' = DOMAIN toChild \cup {n} /\ n \notin DOMAIN toChild
      /\ \A i \in DOMAIN toChild : toChild'[i] = toChild[i]
      /\ toChild'[n].line = line /\ toChild'[n].life = life
  BY ForwardFacts
<1> HIDE DEF n
<1>2. UNCHANGED <<life, refused>> /\ Replayed' = Replayed
  BY DEF Forward, Environment, Replayed
<1>3. CASE IsGated(line) /\ line.receipt # None
  <2> DEFINE q == line.receipt
  <2>1. q \in Receipts
    BY <1>3 DEF Receipts, TurnOK, Handling, Forward
  <2>2. \A r : ExecutionsOf(r)' = IF r = q THEN ExecutionsOf(r) \cup {n} ELSE ExecutionsOf(r)
    BY <1>1, <1>2, <1>3 DEF ExecutionsOf, Executed, ReceiptAt
  <2>3. ExecutionsOf(q) = {}
    <3>1. SUFFICES ASSUME NEW i \in ExecutionsOf(q) PROVE FALSE
      OBVIOUS
    <3>2. n \in Executed' /\ i \in Executed' /\ i # n
      BY <1>1, <1>3 DEF ExecutionsOf, Executed
    <3>3. /\ toChild'[i].life = toChild'[n].life
          /\ toChild'[i].line.receipt = toChild'[n].line.receipt
      BY <1>1, <1>2 DEF ExecutionsOf, Executed, ReceiptAt
    <3> QED BY <3>2, <3>3 DEF SingleExecution, ReceiptAt
  <2>4. Counts[q] = 0
    BY <2>1, <2>3, CountOfExecutions DEF Counts
  <2>5. \A r \in Receipts : Counts'[r] = IF r = q THEN 1 ELSE Counts[r]
    <3>1. Cardinality({n}) = 1
      BY FS_Singleton
    <3> QED BY <2>2, <2>3, <3>1 DEF Counts
  <2>6. Counts' = [Counts EXCEPT ![q] = 1]
    BY <2>5 DEF Counts
  <2> QED BY <1>2, <2>1, <2>4, <2>6 DEF Once!Execute, Counts
<1>4. CASE ~(IsGated(line) /\ line.receipt # None)
  <2>1. \A r : ExecutionsOf(r)' = ExecutionsOf(r)
    BY <1>1, <1>2, <1>4 DEF ExecutionsOf, Executed, ReceiptAt
  <2> QED BY <1>2, <2>1 DEF Counts
<1> QED BY <1>3, <1>4

(* Refusals are logged by Refuse alone.                                    *)
LEMMA OnlyRefuseRefuses == [Next]_vars => Refuse \/ UNCHANGED refused
  BY DEF Next, vars, ReadLine, HandleLine, PassThrough, CallWithoutReceipt, ReplayedCall,
         Reserve, Verify, VerifyAborted, SettleAllow, SettleRefuse, Forward, ForwardFails,
         RefuseFails, EndOfInput, ChildExits, ReloadPolicy, Restart, Tick, StepBack

(* The answer to a replay is seen, that to any other refused call is not.  *)
LEMMA RefuseRefines ==
    ASSUME TypeOK, TurnOK, SingleExecution, ReplaysExplained, Refuse
    PROVE  \/ \E r \in Receipts : Once!RefuseReplay(r)
           \/ UNCHANGED <<Counts, Replayed>>
<1> DEFINE n == Len(refused) + 1
<1>1. /\ DOMAIN refused' = DOMAIN refused \cup {n} /\ n \notin DOMAIN refused
      /\ \A i \in DOMAIN refused : refused'[i] = refused[i]
      /\ refused'[n] = [line |-> line, life |-> life, why |-> decision]
  BY DEF Refuse, TypeOK
<1> HIDE DEF n
<1>2. UNCHANGED <<life, toChild>> /\ pc = "refuse"
  BY DEF Refuse, Environment
<1>3. Counts' = Counts
  <2>1. \A r : ExecutionsOf(r)' = ExecutionsOf(r)
    BY <1>2 DEF ExecutionsOf, Executed, ReceiptAt
  <2> QED BY <2>1 DEF Counts
<1>4. CASE decision = "replay"
  <2>1. Replayed' = Replayed \cup {line.receipt}
    BY <1>1, <1>2, <1>4 DEF Replayed
  <2>2. PICK i \in Executed : /\ toChild[i].life = life
                              /\ ReceiptAt(i).intent = line.receipt.intent
    BY <1>2, <1>4 DEF ReplaysExplained
  <2>3. ReceiptAt(i) \in Receipts
    BY LogType DEF Executed, ReceiptAt, Writes, Receipts
  <2>4. Counts[ReceiptAt(i)] = 1
    <3>1. i \in ExecutionsOf(ReceiptAt(i))
      BY <2>2 DEF ExecutionsOf
    <3> QED BY <2>3, <3>1, CountOfExecutions DEF Counts
  <2>5. line.receipt \in Receipts
    BY <1>2, <1>4 DEF Receipts, TurnOK, Handling, ReplaysExplained
  <2> QED BY <1>3, <2>1, <2>2, <2>3, <2>4, <2>5 DEF Once!RefuseReplay, Counts
<1>5. CASE decision # "replay"
  <2>1. Replayed' = Replayed
    BY <1>1, <1>2, <1>5 DEF Replayed
  <2> QED BY <1>3, <2>1
<1> QED BY <1>4, <1>5

(* A new life of the broker has executed nothing and refused nothing.      *)
LEMMA RestartRefines ==
    ASSUME TypeOK, NoFalseReplay, Restart,
           \A i \in DOMAIN toChild : toChild[i].life <= life,
           \A n \in DOMAIN refused : refused[n].life <= life
    PROVE  Once!StartAnew
<1>1. life \in Nat /\ life' = life + 1 /\ UNCHANGED <<toChild, refused>>
  BY DEF Restart, TypeOK
<1>2. \A i \in DOMAIN toChild : toChild[i].life # life'
  <2> TAKE i \in DOMAIN toChild
  <2>1. toChild[i].life \in Nat
    BY LogType DEF Writes
  <2> QED BY <1>1, <2>1
<1>3. \A n \in DOMAIN refused : refused[n].life # life'
  <2> TAKE n \in DOMAIN refused
  <2>1. refused[n] \in Answers
    BY DEF TypeOK
  <2>2. refused[n].life \in Nat
    BY <2>1 DEF Answers
  <2> QED BY <1>1, <2>2
<1>4. \A r : ExecutionsOf(r)' = {}
  BY <1>1, <1>2 DEF ExecutionsOf, Executed
<1>5. Counts' = [r \in Receipts |-> 0]
  BY <1>4, FS_EmptySet DEF Counts
<1>6. Replayed' = {}
  BY <1>1, <1>3 DEF Replayed
<1> QED BY <1>5, <1>6 DEF Once!StartAnew, Once!NotYet, Counts

(* No answer is from a later life than the present one.                    *)
AnswersNotAhead == \A n \in DOMAIN refused : refused[n].life <= life

LEMMA AnswersStep == TypeOK /\ AnswersNotAhead /\ [Next]_vars => AnswersNotAhead'
<1> SUFFICES ASSUME TypeOK, AnswersNotAhead, [Next]_vars, NEW n \in DOMAIN refused'
             PROVE  refused'[n].life <= life'
  BY DEF AnswersNotAhead
<1>1. CASE n \in DOMAIN refused /\ refused'[n] = refused[n]
  <2>1. refused[n] \in Answers /\ refused[n].life <= life
    BY <1>1 DEF TypeOK, AnswersNotAhead
  <2>2. refused[n].life \in Nat
    BY <2>1 DEF Answers
  <2> QED BY <1>1, <2>1, <2>2, LifeAdvances
<1>2. CASE ~(n \in DOMAIN refused /\ refused'[n] = refused[n])
  <2>1. Refuse
    BY <1>2, OnlyRefuseRefuses
  <2>2. refused'[n].life = life
    BY <1>2, <2>1 DEF Refuse, TypeOK
  <2> QED BY <2>2, LifeAdvances
<1> QED BY <1>1, <1>2

(* The broker implements the abstract ExecuteOnce, when the clock is never *)
(* set back and the policies agree on the time-to-live: every step is an   *)
(* execution, a refused replay, a new start or invisible (main.rs:185-330).*)
THEOREM RefinesExecuteOnce ==
    ASSUME ~ClockMayStepBack, UniformTTL
    PROVE  Spec => ImplementsExecuteOnce
<1>1. Init => Once!Init
  <2> SUFFICES ASSUME Init PROVE Once!Init
    OBVIOUS
  <2>1. \A r : ExecutionsOf(r) = {}
    BY DEF Init, ExecutionsOf, Executed
  <2>2. Replayed = {}
    BY DEF Init, Replayed
  <2> QED BY <2>1, <2>2, FS_EmptySet DEF Once!Init, Once!NotYet
<1>2. /\ TypeOK /\ TurnOK /\ ReplaysExplained /\ NoFalseReplay /\ SingleExecution
      /\ SingleExecution' /\ Remembered /\ AnswersNotAhead /\ [Next]_vars
      => [Once!Next]_(Once!vars)
  <2> SUFFICES ASSUME TypeOK, TurnOK, ReplaysExplained, NoFalseReplay, SingleExecution,
                      SingleExecution', Remembered, AnswersNotAhead, [Next]_vars
               PROVE  Once!Next \/ UNCHANGED <<Counts, Replayed>>
    BY DEF Once!vars, Counts
  <2>1. CASE Forward
    BY <2>1, ForwardRefines DEF Once!Next
  <2>2. CASE Refuse
    BY <2>2, RefuseRefines DEF Once!Next
  <2>3. CASE Restart
    BY <2>3, RestartRefines DEF Once!Next, Remembered, AnswersNotAhead
  <2>4. CASE ~Forward /\ ~Refuse /\ ~Restart
    <3>1. UNCHANGED <<toChild, refused, life>>
      BY <2>4, OnlyForwardLogs, OnlyRefuseRefuses, OnlyRestartChangesLife
    <3>2. \A r : ExecutionsOf(r)' = ExecutionsOf(r)
      BY <3>1 DEF ExecutionsOf, Executed, ReceiptAt
    <3> QED BY <3>1, <3>2 DEF Counts, Replayed
  <2> QED BY <2>1, <2>2, <2>3, <2>4
<1>3. Init => Explained /\ ReplaysExplained /\ AnswersNotAhead /\ Remembered
  BY DEF Init, Explained, ReplaysExplained, AnswersNotAhead, Remembered, Executed, InFlight
<1> QED
  BY <1>1, <1>2, <1>3, TypeInit, TypeStep, ExplainedStep, ReplaysExplainedStep, RememberedStep,
     AnswersStep, ReplaysAreReplays, ReceiptsExecuteOnce, PTL DEF Spec, ImplementsExecuteOnce, Once!Spec

---------------------------------------------------------------------------------
(* What the cache holds is not dated ahead of the clock by more than the   *)
(* skew, but for the call whose receipt has not been settled.              *)
AheadOnlyUnsettled ==
    pc # "closed" =>
        \A t \in DOMAIN cache : \A x \in cache[t] :
            \/ t <= clock + ClockSkew
            \/ /\ pc \in {"verify", "settle"}
               /\ t = line.receipt.timestamp /\ x = line.receipt.intent

NotAhead == (pc \in {"settle", "forward"} => at <= clock) /\ AheadOnlyUnsettled

(* An approved receipt is not dated ahead of the time it was approved at.  *)
LEMMA ApprovedIsNotAhead ==
    ASSUME NEW l, NEW p, NEW now, l.receipt # None, Approved(l, p, now), p.ttl > 0
    PROVE  l.receipt.timestamp <= now + ClockSkew
  BY DEF Approved, VerifyReceipt, IsFresh

(* The receipt of a call that is settled as approved.                      *)
LEMMA SettledIsNotAhead ==
    ASSUME TypeOK, TurnOK, NotAhead, SettleAllow, \A p \in LoadedPolicies : p.ttl > 0
    PROVE  line.receipt.timestamp <= clock + ClockSkew
<1>1. /\ line.receipt # None /\ Approved(line, snapshot.policy, at)
      /\ line \in Lines /\ snapshot \in Snapshots
  BY DEF SettleAllow, TurnOK, Handling
<1>2. snapshot.policy.ttl > 0
  BY <1>1 DEF Snapshots
<1>3. line.receipt.timestamp <= at + ClockSkew
  BY <1>1, <1>2, ApprovedIsNotAhead
<1>4. at <= clock /\ at \in Int /\ clock \in Int /\ line.receipt.timestamp \in Int
      /\ ClockSkew \in Nat
  BY <1>1, BrokerAssumption, VerificationAssumption DEF SettleAllow, NotAhead, TypeOK
<1> QED BY <1>3, <1>4

LEMMA NotAheadStep ==
    ASSUME TypeOK, TurnOK, NotAhead, [Next]_vars, ~ClockMayStepBack,
           \A p \in LoadedPolicies : p.ttl > 0
    PROVE  NotAhead'
<1>1. pc' \in {"settle", "forward"} => at' <= clock'
  BY AtStep DEF NotAhead
<1>2. /\ clock \in Int /\ clock' \in Int /\ clock <= clock' /\ ClockSkew \in Nat
      /\ DOMAIN cache \subseteq Int
  BY ClockAdvances, VerificationAssumption DEF TypeOK
<1>3. ASSUME pc' # "closed", NEW t \in DOMAIN cache', NEW x \in cache'[t]
      PROVE  \/ t <= clock' + ClockSkew
             \/ /\ pc' \in {"verify", "settle"}
                /\ t = line'.receipt.timestamp /\ x = line'.receipt.intent
  <2>1. CASE SettleAllow
    <3>1. t \in DOMAIN cache /\ x \in cache[t]
      BY <1>3, <2>1, PrunedFacts DEF SettleAllow
    <3>2. pc = "settle" /\ t \in Int
      BY <1>2, <2>1, <3>1 DEF SettleAllow
    <3>3. t <= clock + ClockSkew
      BY <2>1, <3>1, <3>2, SettledIsNotAhead DEF NotAhead, AheadOnlyUnsettled
    <3> QED BY <1>2, <3>2, <3>3
  <2>2. CASE SettleRefuse
    <3>1. t \in DOMAIN cache /\ x \in cache[t]
          /\ ~(t = line.receipt.timestamp /\ x = line.receipt.intent)
      BY <1>3, <2>2, RolledBackFacts DEF SettleRefuse
    <3>2. t <= clock + ClockSkew /\ t \in Int
      BY <1>2, <2>2, <3>1 DEF SettleRefuse, NotAhead, AheadOnlyUnsettled
    <3> QED BY <1>2, <3>2
  <2>3. CASE \E l \in Lines : Reserve(l)
    <3>1. PICK l \in Lines : Reserve(l)
      BY <2>3
    <3>2. pc = "read" /\ pc' = "verify" /\ line' = l /\ cache' = Reserved(l.receipt)
      BY <3>1 DEF Reserve, Read
    <3>3. \/ t \in DOMAIN cache /\ x \in cache[t]
          \/ t = l.receipt.timestamp /\ x = l.receipt.intent
      BY <1>3, <3>2, ReservedFacts
    <3>4. CASE t \in DOMAIN cache /\ x \in cache[t]
      <4>1. t <= clock + ClockSkew /\ t \in Int
        BY <1>2, <3>2, <3>4 DEF NotAhead, AheadOnlyUnsettled
      <4> QED BY <1>2, <4>1
    <3> QED BY <3>2, <3>3, <3>4
  <2>4. CASE Restart
    BY <1>3, <2>4 DEF Restart
  <2>5. CASE ~SettleAllow /\ ~SettleRefuse /\ ~(\E l \in Lines : Reserve(l)) /\ ~Restart
    <3>1. /\ UNCHANGED cache
          /\ pc # "closed"
          /\ pc \in {"verify", "settle"} =>
                 pc' \in {"verify", "settle"} /\ UNCHANGED line
      BY <1>3, <2>5 DEF Next, vars, ReadLine, HandleLine, PassThrough, CallWithoutReceipt,
         ReplayedCall, Read, Verify, VerifyAborted, Forward, ForwardFails, Refuse,
         RefuseFails, EndOfInput, ChildExits, ReloadPolicy, Tick, StepBack, EndTurn, StopReading
    <3>2. \/ t <= clock + ClockSkew
          \/ /\ pc \in {"verify", "settle"}
             /\ t = line.receipt.timestamp /\ x = line.receipt.intent
      BY <1>3, <3>1 DEF NotAhead, AheadOnlyUnsettled
    <3>3. t \in Int
      BY <1>2, <1>3, <3>1
    <3> QED BY <1>2, <3>1, <3>2, <3>3
  <2> QED BY <2>1, <2>2, <2>3, <2>4, <2>5
<1> QED BY <1>1, <1>3 DEF NotAhead, AheadOnlyUnsettled

(* After an approved call the cache holds nothing outside the window of    *)
(* its policy, whatever policies with positive times-to-live are published *)
(* and whenever they are reloaded, if the clock is never set back          *)
(* (main.rs:243-246, crypto.rs:104).                                       *)
THEOREM ReservationsAreInWindow ==
    ASSUME ~ClockMayStepBack, \A p \in LoadedPolicies : p.ttl > 0
    PROVE  Spec => ReservationsInWindow
<1>1. Init => NotAhead
  BY DEF Init, NotAhead, AheadOnlyUnsettled
<1>2. TypeOK /\ TurnOK /\ NotAhead /\ [Next]_vars => NotAhead'
  BY NotAheadStep
<1>3. TypeOK /\ TurnOK /\ NotAhead /\ [Next]_vars
         => [ pc = "settle" /\ pc' = "forward" =>
                \A t \in DOMAIN cache' :
                    cache'[t] # {} =>
                        t \in clock - snapshot.policy.ttl .. clock + ClockSkew ]_vars
  <2> SUFFICES ASSUME TypeOK, TurnOK, NotAhead, [Next]_vars, pc = "settle", pc' = "forward",
                      NEW t \in DOMAIN cache', cache'[t] # {}
               PROVE  t \in clock - snapshot.policy.ttl .. clock + ClockSkew
    OBVIOUS
  <2>1. SettleAllow
    BY DEF Next, vars, ReadLine, HandleLine, PassThrough, CallWithoutReceipt, ReplayedCall,
       Reserve, Read, Verify, VerifyAborted, SettleRefuse, Forward, ForwardFails, Refuse,
       RefuseFails, EndOfInput, ChildExits, ReloadPolicy, Restart, Tick, StepBack, EndTurn, StopReading
  <2>2. PICK x \in cache'[t] : TRUE
    OBVIOUS
  <2>3. t \in DOMAIN cache /\ x \in cache[t] /\ t >= clock - snapshot.policy.ttl
    BY <2>1, <2>2, PrunedFacts DEF SettleAllow
  <2>4. t <= clock + ClockSkew
    BY <2>1, <2>3, SettledIsNotAhead DEF NotAhead, AheadOnlyUnsettled
  <2>5. /\ t \in Int /\ clock \in Int /\ ClockSkew \in Nat
        /\ snapshot.policy.ttl \in Int
    BY <2>1, <2>3, LoadedTTL, VerificationAssumption
       DEF TypeOK, TurnOK, Handling, SettleAllow, Snapshots
  <2> QED BY <2>3, <2>4, <2>5
<1> QED BY <1>1, <1>2, <1>3, TypeInit, TypeStep, PTL DEF Spec, ReservationsInWindow
================================================================================
