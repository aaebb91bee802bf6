------------------------------ MODULE DeploymentGate ------------------------------
(***************************************************************************)
(* The deployment slice: the evidence provider signs what it knows about a *)
(* service, the risk gate checks an intent against the evidence and its    *)
(* policy and issues a receipt, and the broker decides about the call when *)
(* it arrives.  The gate reads the clock twice, once to judge the evidence *)
(* and once to date the receipt, and the broker reads its own later.  The  *)
(* broker's replay cache is the subject of Broker.                         *)
(***************************************************************************)
EXTENDS GateChecks, FiniteSets

CONSTANTS
    Requests,       \* the intents an agent may submit
    Profiles,       \* PROFILES: what the provider may report
    GatePolicies,   \* the policies a gate is built with
    OtherKey,       \* a key that is not the evidence provider's
    None,
    EvidenceTTLs,   \* ttl_seconds of the documents
    MaxClock, MaxEnvelopes, MaxIssued, MaxExecuted  \* bounds of the exploration

ASSUME GateAssumption ==
    /\ {MaxClock, MaxEnvelopes, MaxIssued, MaxExecuted} \subseteq Nat
    /\ EvidenceTTLs \subseteq Int
    /\ EvidenceKey # OtherKey
    /\ GateKey \notin {NoKey, MalformedKey}
    /\ \A p \in Profiles : p.offset \in Int
    /\ \A p \in GatePolicies : p.ttl \in Int /\ p.trusted = EvidenceKey
    /\ \A r \in Requests : ShapeOK(r) => r.target # Blank /\ r.args.canonical

(* What the gate signs with decodes to a signature.                        *)
ASSUME SignatureAssumption ==
    \A profile \in Profiles, ttl \in EvidenceTTLs, t \in 0..MaxClock :
       \A request \in Requests, now \in 0..MaxClock :
          Receipt(request, Document(profile, ttl, t), now).signature # MalformedSig

VARIABLES
    clock,
    envelopes,    \* the signed evidence the agent was given
    gatePolicy,   \* self.policy of the gate
    brokerPolicy, \* the policy the broker has loaded
    pending,      \* an evaluation between its checks and its receipt
    issued,       \* the receipts, with what they were issued for (history)
    executed      \* the calls the broker let through (history)

vars == <<clock, envelopes, gatePolicy, brokerPolicy, pending, issued, executed>>

BrokerVerdict(entry, policy, now) ==
    VerifyReceipt(entry.receipt, entry.request.action, entry.request.args, policy, now)

Init ==
    /\ clock = 0
    /\ envelopes = {}
    /\ gatePolicy \in GatePolicies
    /\ brokerPolicy = BrokerPolicy(gatePolicy)
    /\ pending = None
    /\ issued = {} /\ executed = {}

---------------------------------------------------------------------------------
(* collect_signed_evidence, or the same with a key that is not trusted.    *)
Collect(profile, ttl, key) ==
    /\ Cardinality(envelopes) < MaxEnvelopes
    /\ envelopes' = envelopes \cup {Envelope(Document(profile, ttl, clock), key)}
    /\ UNCHANGED <<clock, gatePolicy, brokerPolicy, pending, issued, executed>>

(* evaluate, up to the last check: a failed check returns a refusal and    *)
(* changes nothing.                                                        *)
Evaluate(request, envelope) ==
    /\ pending = None
    /\ Cardinality(issued) < MaxIssued
    /\ ShapeOK(request)
    /\ EvidenceOK(envelope, gatePolicy, clock)
    /\ PolicyOK(request, envelope.document, gatePolicy)
    /\ pending' = [request |-> request, envelope |-> envelope, checkedAt |-> clock]
    /\ UNCHANGED <<clock, envelopes, gatePolicy, brokerPolicy, issued, executed>>

(* _issue_receipt: the clock is read again, the digest is the envelope's.  *)
IssueReceipt ==
    /\ pending # None
    /\ issued' = issued \cup
          {[receipt   |-> Receipt(pending.request, pending.envelope.digest, clock),
            request   |-> pending.request,
            envelope  |-> pending.envelope,
            checkedAt |-> pending.checkedAt,
            policy    |-> gatePolicy]}
    /\ pending' = None
    /\ UNCHANGED <<clock, envelopes, gatePolicy, brokerPolicy, executed>>

(* DeploymentRiskGate(policy) for another run, and its policy file.        *)
NewGate(policy) ==
    /\ pending = None
    /\ gatePolicy' = policy
    /\ UNCHANGED <<clock, envelopes, brokerPolicy, pending, issued, executed>>

(* A mistake: the gate's own policy is written, without the public key.    *)
WriteGatePolicy ==
    /\ brokerPolicy' = gatePolicy
    /\ UNCHANGED <<clock, envelopes, gatePolicy, pending, issued, executed>>

WriteBrokerPolicy ==
    /\ brokerPolicy' = BrokerPolicy(gatePolicy)
    /\ UNCHANGED <<clock, envelopes, gatePolicy, pending, issued, executed>>

(* The call built from an issued receipt reaches the broker.               *)
RunThroughBroker(entry) ==
    /\ Cardinality(executed) < MaxExecuted
    /\ BrokerVerdict(entry, brokerPolicy, clock) = "Allow"
    /\ executed' = executed \cup {[entry |-> entry, at |-> clock, policy |-> brokerPolicy]}
    /\ UNCHANGED <<clock, envelopes, gatePolicy, brokerPolicy, pending, issued>>

Tick ==
    /\ clock < MaxClock
    /\ clock' = clock + 1
    /\ UNCHANGED <<envelopes, gatePolicy, brokerPolicy, pending, issued, executed>>

Next ==
    \/ \E profile \in Profiles, ttl \in EvidenceTTLs, key \in {EvidenceKey, OtherKey} :
          Collect(profile, ttl, key)
    \/ \E request \in Requests, envelope \in envelopes : Evaluate(request, envelope)
    \/ IssueReceipt
    \/ \E p \in GatePolicies : NewGate(p)
    \/ WriteBrokerPolicy
    \/ \E entry \in issued : RunThroughBroker(entry)
    \/ Tick

Spec == Init /\ [][Next]_vars

---------------------------------------------------------------------------------
Entries == issued \cup {x.entry : x \in executed}

TypeOK ==
    /\ clock \in 0..MaxClock
    /\ gatePolicy \in GatePolicies
    /\ brokerPolicy \in {BrokerPolicy(p) : p \in GatePolicies}
    /\ pending # None => pending.request \in Requests /\ pending.envelope \in envelopes
    /\ \A e \in Entries : /\ e.request \in Requests
                         /\ e.envelope \in envelopes
                         /\ e.policy \in GatePolicies

(* A call executes on evidence no older than the two times-to-live and the *)
(* time the gate took between judging the evidence and dating the receipt: *)
(* nothing else bounds it (riskgate_service.py:132-138 and 168,            *)
(* crypto.rs:101-113).                                                     *)
EvidenceAgeBounded ==
    \A x \in executed :
        LET doc == x.entry.envelope.document
            evaluation == x.entry.receipt.timestamp - x.entry.checkedAt
        IN  doc.ttl > 0 /\ x.policy.ttl > 0
                => x.at - doc.timestamp <= doc.ttl + evaluation + x.policy.ttl

(* Every executed call rests on evidence about its own target, signed by   *)
(* the trusted provider, that reported no freeze, a healthy service and an *)
(* open window, and a rollback for a deployment: whatever policies the     *)
(* gate and the broker had in turn (riskgate_service.py:118-164).  The     *)
(* envelopes are those collect_signed_evidence makes, under one key or     *)
(* another; it says nothing of forged documents or digests.                *)
ExecutedOnSoundEvidence ==
    \A x \in executed :
        LET envelope == x.entry.envelope
            doc == envelope.document
        IN  /\ envelope.signature = [key |-> EvidenceKey, over |-> doc]
            /\ x.entry.receipt.evidence = doc
            /\ doc.subject = x.entry.receipt.target
            /\ doc.healthy /\ doc.window /\ ~doc.freeze
            /\ x.entry.receipt.action = "deploy" => doc.rollback

(* What the gate approves, a broker with the policy that gate publishes    *)
(* allows at the moment the receipt is issued, except for the two checks   *)
(* that only the broker makes (riskgate_service.py:141-185 against         *)
(* crypto.rs:61-199).                                                      *)
GateAndBrokerAgree ==
    \A e \in issued :
        \/ BrokerVerdict(e, BrokerPolicy(e.policy), e.receipt.timestamp) = "Allow"
        \/ LacksDryRun(e.request.action, e.request.args)
        \/ LacksQuorum(e.request.action, e.request.args)

(* With lists that are not empty, the broker executes nothing the gate     *)
(* would refuse for its lists under the policy the broker has: a receipt   *)
(* issued under a wider policy does not outlive it.                        *)
BrokerListsAsStrict ==
    \A x \in executed :
        /\ x.policy.authorized_targets # {}
        /\ Wildcard \notin x.policy.authorized_targets
        /\ x.policy.allowed_actions # {}
        => GateListsAllow(x.entry.request, x.policy)
================================================================================
