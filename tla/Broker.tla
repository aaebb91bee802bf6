--------------------------------- MODULE Broker ---------------------------------
(***************************************************************************)
(* The stdio broker: the task that reads the client's JSON-RPC lines       *)
(* (stdin_task of main.rs), its idempotency cache, the policy snapshot it  *)
(* takes for each call, and the watcher that replaces the policy.          *)
(*                                                                         *)
(* stdin_task handles one line at a time.  Its steps are cut where another *)
(* thread or the clock can get in between: at the end of the reservation   *)
(* (then the verification runs on a blocking thread), at the await of the  *)
(* verification, after the cache is settled, and at the write.  The cache  *)
(* is shared through a mutex but only this task touches it.                *)
(***************************************************************************)
EXTENDS ReceiptVerification, Sequences, FiniteSets, Functions

CONSTANTS
    Lines,        \* the lines a client may send
    Policies,     \* the policies the control plane may publish
    None,         \* no receipt, no line, no snapshot
    Unreadable,   \* a policy file that is missing or does not parse
    ClockMayStepBack, \* whether the system clock is ever set back
    MaxClock, MaxLines, MaxEpoch, MaxLives  \* bounds of the exploration

VARIABLES
    clock,    \* the system clock, in seconds
    policy,   \* rcu_config: the policy in force
    epoch,    \* how many times rcu_config was stored (history)
    life,     \* how many times the broker was started (history)
    reads,    \* how many lines were read (history)
    pc,       \* where stdin_task is
    line,     \* the line it handles
    snapshot, \* current_config: the policy it took for that line, with its epoch
    decision, \* the GateDecision of the line, or why there was none to ask for
    at,       \* the clock when the line was decided (history)
    cache,    \* nonce_cache: timestamp -> the intent ids held under it
    toChild,  \* what was written to the child's stdin (history)
    refused   \* the error responses written to stdout (history)

vars == <<clock, policy, epoch, life, reads, pc, line, snapshot, decision, at,
          cache, toChild, refused>>

ASSUME BrokerAssumption ==
    /\ ClockMayStepBack \in BOOLEAN
    /\ {MaxClock, MaxLines, MaxEpoch, MaxLives} \subseteq Nat
    /\ None \notin Lines
    /\ \A p \in Policies : p.ttl \in Int
    /\ \A l \in Lines : l.receipt # None => l.receipt.timestamp \in Int

---------------------------------------------------------------------------------
Outcomes == Decisions \cup {"no receipt", "replay"}

(* load_policy: the parsed file, or the fallback.                          *)
LoadPolicy(content) == IF content = Unreadable THEN FallbackPolicy ELSE content

LoadedPolicies == {LoadPolicy(content) : content \in Policies \cup {Unreadable}}

(* A line is checked only if it deserializes as a JsonRpcRequest (typed)   *)
(* and its method is tools/call.  Any other line goes to the child as is.  *)
IsGated(l) == l.typed /\ l.method = "tools/call"

Intents == {l.receipt.intent : l \in {m \in Lines : m.receipt # None}}

(* A mistake: only the newest bucket of the map is looked at.              *)
IsReservedInNewest(intent) ==
    \E t \in DOMAIN cache :
        intent \in cache[t] /\ \A u \in DOMAIN cache : u <= t

IsReserved(intent) == \E t \in DOMAIN cache : intent \in cache[t]

(* A mistake: the target is held instead of the intent.                    *)
ReservedTarget(receipt) ==
    [t \in DOMAIN cache \cup {receipt.timestamp} |->
        (IF t \in DOMAIN cache THEN cache[t] ELSE {})
            \cup (IF t = receipt.timestamp THEN {receipt.target} ELSE {})]

(* cache.entry(timestamp).or_default().push(intent_id)                     *)
Reserved(receipt) ==
    [t \in DOMAIN cache \cup {receipt.timestamp} |->
        (IF t \in DOMAIN cache THEN cache[t] ELSE {})
            \cup (IF t = receipt.timestamp THEN {receipt.intent} ELSE {})]

(* Mistakes: nothing is rolled back, the wrong entry is looked up, or the  *)
(* entry goes with everything it holds.                                    *)
NotRolledBack(receipt) == [t \in DOMAIN cache |-> cache[t]]

RolledBackAtClock(receipt) ==
    [t \in DOMAIN cache |->
        IF t = clock THEN cache[t] \ {receipt.intent} ELSE cache[t]]

RolledBackWholeEntry(receipt) ==
    Restrict(cache, DOMAIN cache \ {receipt.timestamp})

(* cache.get_mut(timestamp): the id goes, the entry stays even if empty.   *)
RolledBack(receipt) ==
    [t \in DOMAIN cache |->
        IF t = receipt.timestamp THEN cache[t] \ {receipt.intent} ELSE cache[t]]

(* A mistake: the oldest receipts that are still fresh are pruned.         *)
PrunedEarly(ttl) == Restrict(cache, {t \in DOMAIN cache : t > clock - ttl})

(* cache.retain(|ts, _| ts >= now - evidence_ttl_seconds)                  *)
Pruned(ttl) == Restrict(cache, {t \in DOMAIN cache : t >= clock - ttl})

Snapshots == [policy : LoadedPolicies, epoch : Nat]

(* An entry of toChild, and one of refused.                                *)
Writes == [line : Lines, at : Int, life : Nat, epoch : Nat,
           snapshot : Snapshots \cup {None}]
Answers == [line : Lines, life : Nat, why : Outcomes \ {"Allow"}]

TypeOK ==
    /\ clock \in Int
    /\ policy \in LoadedPolicies
    /\ epoch \in Nat /\ life \in Nat /\ reads \in Nat
    /\ pc \in {"read", "verify", "settle", "forward", "refuse", "closed"}
    /\ line \in Lines \cup {None}
    /\ snapshot \in Snapshots \cup {None}
    /\ decision \in Outcomes \cup {None}
    /\ at \in Int
    /\ DOMAIN cache \subseteq Int
    /\ \A t \in DOMAIN cache : cache[t] \subseteq Intents
    /\ toChild \in Seq(Writes)
    /\ refused \in Seq(Answers)

Init ==
    /\ clock = 0
    /\ policy \in LoadedPolicies
    /\ epoch = 0 /\ life = 0 /\ reads = 0
    /\ pc = "read"
    /\ line = None /\ snapshot = None /\ decision = None /\ at = 0
    /\ cache = [t \in {} |-> {}]
    /\ toChild = <<>> /\ refused = <<>>

---------------------------------------------------------------------------------
(* A turn of the loop of stdin_task ends: the broker is ready to read.     *)
EndTurn ==
    /\ pc' = "read"
    /\ line' = None /\ snapshot' = None /\ decision' = None /\ at' = 0

(* The loop breaks: the task returns and drops the child's stdin.          *)
StopReading ==
    /\ pc' = "closed"
    /\ line' = None /\ snapshot' = None /\ decision' = None /\ at' = 0

Environment == <<clock, policy, epoch, life>>

(* A mistake: the snapshot of an earlier call is kept for the next.        *)
KeepSnapshot ==
    IF toChild # <<>> /\ toChild[Len(toChild)].snapshot # None
    THEN toChild[Len(toChild)].snapshot
    ELSE [policy |-> policy, epoch |-> epoch]

(* current_config = rcu_config.load(), once per call.                      *)
TakeSnapshot == [policy |-> policy, epoch |-> epoch]

Read(l) ==
    /\ pc = "read"
    /\ reads < MaxLines
    /\ reads' = reads + 1
    /\ line' = l

(* Anything but a well-formed tools/call goes straight to the write.       *)
PassThrough(l) ==
    /\ Read(l)
    /\ ~IsGated(l)
    /\ pc' = "forward"
    /\ at' = clock
    /\ UNCHANGED <<Environment, snapshot, decision, cache, toChild, refused>>

CallWithoutReceipt(l) ==
    /\ Read(l)
    /\ IsGated(l)
    /\ l.receipt = None
    /\ snapshot' = TakeSnapshot
    /\ \/ /\ policy.require_receipt
          /\ pc' = "refuse"
          /\ decision' = "no receipt"
       \/ /\ ~policy.require_receipt
          /\ pc' = "forward"
          /\ UNCHANGED decision
    /\ at' = clock
    /\ UNCHANGED <<Environment, cache, toChild, refused>>

(* cache.values().any(|v| v.contains(intent_id)): refused, cache untouched.*)
ReplayedCall(l) ==
    /\ Read(l)
    /\ IsGated(l)
    /\ l.receipt # None
    /\ IsReserved(l.receipt.intent)
    /\ snapshot' = TakeSnapshot
    /\ pc' = "refuse"
    /\ decision' = "replay"
    /\ at' = clock
    /\ UNCHANGED <<Environment, cache, toChild, refused>>

(* The intent is held before the signature is checked.                     *)
Reserve(l) ==
    /\ Read(l)
    /\ IsGated(l)
    /\ l.receipt # None
    /\ ~IsReserved(l.receipt.intent)
    /\ snapshot' = TakeSnapshot
    /\ cache' = Reserved(l.receipt)
    /\ pc' = "verify"
    /\ UNCHANGED <<Environment, decision, at, toChild, refused>>

(* A mistake: the policy is loaded again for the verification.             *)
VerifyUnderLatest ==
    /\ pc = "verify"
    /\ decision' = VerifyReceipt(line.receipt, line.tool, line.args, policy, clock)
    /\ at' = clock
    /\ pc' = "settle"
    /\ UNCHANGED <<Environment, reads, line, snapshot, cache, toChild, refused>>

(* The blocking thread reads the clock and decides, under the snapshot.    *)
Verify ==
    /\ pc = "verify"
    /\ decision' = VerifyReceipt(line.receipt, line.tool, line.args,
                                 snapshot.policy, clock)
    /\ at' = clock
    /\ pc' = "settle"
    /\ UNCHANGED <<Environment, reads, line, snapshot, cache, toChild, refused>>

(* A mistake: a verification that fails counts as an approval.             *)
VerifyAbortedOpen ==
    /\ pc = "verify"
    /\ decision' = "Allow"
    /\ at' = clock
    /\ pc' = "settle"
    /\ UNCHANGED <<Environment, reads, line, snapshot, cache, toChild, refused>>

(* The join of the blocking thread fails.                                  *)
VerifyAborted ==
    /\ pc = "verify"
    /\ decision' = "Block"
    /\ at' = clock
    /\ pc' = "settle"
    /\ UNCHANGED <<Environment, reads, line, snapshot, cache, toChild, refused>>

SettleAllow ==
    /\ pc = "settle"
    /\ decision = "Allow"
    /\ cache' = Pruned(snapshot.policy.ttl)
    /\ pc' = "forward"
    /\ UNCHANGED <<Environment, reads, line, snapshot, decision, at, toChild, refused>>

SettleRefuse ==
    /\ pc = "settle"
    /\ decision \in {"Block", "Suspend"}
    /\ cache' = RolledBack(line.receipt)
    /\ pc' = "refuse"
    /\ UNCHANGED <<Environment, reads, line, snapshot, decision, at, toChild, refused>>

(* child_stdin.write_all and flush.                                        *)
Forward ==
    /\ pc = "forward"
    /\ toChild' = Append(toChild, [line |-> line, at |-> at, life |-> life,
                                   epoch |-> epoch, snapshot |-> snapshot])
    /\ EndTurn
    /\ UNCHANGED <<Environment, reads, cache, refused>>

(* The child's end of the pipe is closed: the intent stays held.           *)
ForwardFails ==
    /\ pc = "forward"
    /\ StopReading
    /\ UNCHANGED <<Environment, reads, cache, toChild, refused>>

(* A mistake: the loop continues before the error response is written.     *)
RefuseSilently ==
    /\ pc = "refuse"
    /\ EndTurn
    /\ UNCHANGED <<Environment, reads, cache, toChild, refused>>

Refuse ==
    /\ pc = "refuse"
    /\ refused' = Append(refused, [line |-> line, life |-> life, why |-> decision])
    /\ EndTurn
    /\ UNCHANGED <<Environment, reads, cache, toChild>>

(* The client's end of the pipe is closed.                                 *)
RefuseFails ==
    /\ pc = "refuse"
    /\ StopReading
    /\ UNCHANGED <<Environment, reads, cache, toChild, refused>>

(* End of input, or a line over the 10 MB limit (answered, then break).    *)
EndOfInput ==
    /\ pc = "read"
    /\ StopReading
    /\ UNCHANGED <<Environment, reads, cache, toChild, refused>>

(* The child process ends: main aborts the task, which stops at an await,  *)
(* and returns.  The settling of the cache holds none.                     *)
ChildExits ==
    /\ pc \in {"read", "verify", "forward", "refuse"}
    /\ StopReading
    /\ UNCHANGED <<Environment, reads, cache, toChild, refused>>

---------------------------------------------------------------------------------
(* The watcher's store: whatever load_policy returns now.                  *)
ReloadPolicy ==
    /\ epoch < MaxEpoch
    /\ policy' \in LoadedPolicies
    /\ epoch' = epoch + 1
    /\ UNCHANGED <<clock, life, reads, pc, line, snapshot, decision, at, cache,
                   toChild, refused>>

(* The broker process ends, at any point, and a new one is started: main   *)
(* begins with an empty cache and loads the policy again.                  *)
Restart ==
    /\ life < MaxLives
    /\ life' = life + 1
    /\ policy' \in LoadedPolicies
    /\ epoch' = epoch + 1
    /\ cache' = [t \in {} |-> {}]
    /\ EndTurn
    /\ UNCHANGED <<clock, reads, toChild, refused>>

Tick ==
    /\ clock < MaxClock
    /\ clock' = clock + 1
    /\ UNCHANGED <<policy, epoch, life, reads, pc, line, snapshot, decision, at,
                   cache, toChild, refused>>

(* SystemTime is not monotonic: an administrator or NTP may set it back.   *)
StepBack ==
    /\ ClockMayStepBack
    /\ clock > 0
    /\ clock' = clock - 1
    /\ UNCHANGED <<policy, epoch, life, reads, pc, line, snapshot, decision, at,
                   cache, toChild, refused>>

---------------------------------------------------------------------------------
ReadLine == \E l \in Lines :
    PassThrough(l) \/ CallWithoutReceipt(l) \/ ReplayedCall(l) \/ Reserve(l)

(* What stdin_task does with a line it has read.                           *)
HandleLine ==
    \/ Verify \/ VerifyAborted \/ SettleAllow \/ SettleRefuse
    \/ Forward \/ ForwardFails \/ Refuse \/ RefuseFails

Next ==
    \/ ReadLine \/ HandleLine \/ EndOfInput \/ ChildExits
    \/ ReloadPolicy \/ Restart \/ Tick \/ StepBack

Spec == Init /\ [][Next]_vars

(* The runtime runs a task that is ready, the blocking pool runs a closure *)
(* that was spawned, and the child is assumed to keep reading its stdin.   *)
(* Nothing is assumed of the client, the clock, the watcher or restarts.   *)
FairSpec == Spec /\ WF_vars(HandleLine)
================================================================================
