--------------------------- MODULE DeploymentGateProofs ---------------------------
(***************************************************************************)
(* The deployment slice, for any requests, profiles and policies: what the *)
(* broker lets through was judged by the gate, on evidence that binds.     *)
(***************************************************************************)
EXTENDS DeploymentGate, TLAPS

BrokerPolicies == {BrokerPolicy(p) : p \in GatePolicies}

(* The envelope binds a document of the provider.                          *)
Bound(envelope) ==
    /\ envelope.digest = envelope.document
    /\ envelope.document.ttl \in Int
    /\ envelope.document.timestamp \in Int
    /\ \E profile \in Profiles, ttl \in EvidenceTTLs, t \in 0..MaxClock :
          envelope.document = Document(profile, ttl, t)

(* The gate found the request and the evidence in order at that time.      *)
Judged(request, envelope, policy, at) ==
    /\ at \in 0..MaxClock
    /\ ShapeOK(request)
    /\ EvidenceOK(envelope, policy, at)
    /\ PolicyOK(request, envelope.document, policy)

(* What an issued receipt rests on.                                        *)
WellIssued(e) ==
    /\ e.request \in Requests /\ e.envelope \in envelopes /\ e.policy \in GatePolicies
    /\ Judged(e.request, e.envelope, e.policy, e.checkedAt)
    /\ Bound(e.envelope)
    /\ \E now \in 0..MaxClock :
          e.receipt = Receipt(e.request, e.envelope.document, now)

Allowed(x) ==
    /\ x.at \in 0..MaxClock
    /\ x.policy \in BrokerPolicies
    /\ BrokerVerdict(x.entry, x.policy, x.at) = "Allow"

GateInv ==
    /\ clock \in 0..MaxClock
    /\ gatePolicy \in GatePolicies
    /\ brokerPolicy \in BrokerPolicies
    /\ \A envelope \in envelopes : Bound(envelope)
    /\ pending # None =>
          /\ pending.request \in Requests /\ pending.envelope \in envelopes
          /\ Judged(pending.request, pending.envelope, gatePolicy, pending.checkedAt)
    /\ \A e \in Entries : WellIssued(e)
    /\ \A x \in executed : Allowed(x)

(* The fields of a receipt.                                                *)
LEMMA ReceiptFields ==
    ASSUME NEW request, NEW digest, NEW now
    PROVE  LET r == Receipt(request, digest, now) IN
           /\ r.intent = request.intent /\ r.action = request.action
           /\ r.target = request.target /\ r.evidence = digest /\ r.timestamp = now
           /\ r.signature = Sign(GateKey, Binding(r, request.args))
  BY DEF Receipt, Unsigned, WithSignature, Sign, Binding

LEMMA PolicyFields ==
    ASSUME NEW p \in GatePolicies
    PROVE  LET b == BrokerPolicy(p) IN
           /\ b.authorized_targets = p.authorized_targets
           /\ b.allowed_actions = p.allowed_actions
           /\ b.forbidden_actions = p.forbidden_actions
           /\ b.ttl = p.ttl /\ b.ttl \in Int
           /\ VerifyingKey(b) = GateKey
  BY GateAssumption DEF BrokerPolicy, VerifyingKey

(* The age of what a verified receipt was issued for is bounded.           *)
LEMMA AllowedFacts ==
    ASSUME NEW receipt, NEW tool, NEW args, NEW policy, NEW now,
           VerifyReceipt(receipt, tool, args, policy, now) = "Allow"
    PROVE  WithinPolicy(receipt, tool, policy) /\ IsFresh(receipt, policy.ttl, now)
  BY DEF VerifyReceipt

LEMMA InitOK == Init => GateInv
  BY GateAssumption DEF Init, GateInv, BrokerPolicies, Entries

LEMMA GateStep == GateInv /\ [Next]_vars => GateInv'
<1> SUFFICES ASSUME GateInv, [Next]_vars PROVE GateInv'
  OBVIOUS
<1> USE DEF GateInv
<1>1. ASSUME NEW profile \in Profiles, NEW ttl \in EvidenceTTLs,
             NEW key \in {EvidenceKey, OtherKey}, Collect(profile, ttl, key)
      PROVE  GateInv'
  <2> DEFINE document == Document(profile, ttl, clock)
             envelope == Envelope(document, key)
  <2>1. envelope.digest = document /\ envelope.document = document
    BY DEF Envelope
  <2>2. document.ttl = ttl /\ document.timestamp = clock + profile.offset
    BY DEF Document
  <2>3. document.ttl \in Int /\ document.timestamp \in Int
    BY <2>2, GateAssumption
  <2> HIDE DEF document
  <2>4. Bound(envelope)
    BY <2>1, <2>3 DEF Bound, document
  <2>5. envelopes' = envelopes \cup {envelope}
    BY <1>1 DEF Collect, document
  <2>6. UNCHANGED <<clock, gatePolicy, brokerPolicy, pending, issued, executed>>
    BY <1>1 DEF Collect
  <2> HIDE DEF envelope
  <2>7. \A e \in envelopes' : Bound(e)
    BY <2>4, <2>5
  <2>8. Entries' = Entries
    BY <2>6 DEF Entries
  <2>9. \A e \in Entries' : WellIssued(e)'
    BY <2>5, <2>8 DEF WellIssued
  <2>10. (pending # None => /\ pending.request \in Requests /\ pending.envelope \in envelopes
          /\ Judged(pending.request, pending.envelope, gatePolicy, pending.checkedAt))'
    BY <2>5, <2>6
  <2>11. \A x \in executed' : Allowed(x)
    BY <2>6
  <2> QED BY <2>6, <2>7, <2>9, <2>10, <2>11
<1>2. ASSUME NEW request \in Requests, NEW envelope \in envelopes, Evaluate(request, envelope)
      PROVE  GateInv'
  <2>1. pending' = [request |-> request, envelope |-> envelope, checkedAt |-> clock]
    BY <1>2 DEF Evaluate
  <2>2. Judged(request, envelope, gatePolicy, clock)
    BY <1>2 DEF Evaluate, Judged
  <2>3. UNCHANGED <<clock, envelopes, gatePolicy, brokerPolicy, issued, executed>>
    BY <1>2 DEF Evaluate
  <2>4. /\ pending'.request \in Requests /\ pending'.envelope \in envelopes
        /\ Judged(pending'.request, pending'.envelope, gatePolicy, pending'.checkedAt)
    BY <2>1, <2>2
  <2>5. Entries' = Entries
    BY <2>3 DEF Entries
  <2>6. \A e \in Entries' : WellIssued(e)'
    BY <2>3, <2>5 DEF WellIssued
  <2> QED BY <2>3, <2>4, <2>6
<1>3. CASE IssueReceipt
  <2> DEFINE entry ==
          [receipt   |-> Receipt(pending.request, pending.envelope.digest, clock),
           request   |-> pending.request,
           envelope  |-> pending.envelope,
           checkedAt |-> pending.checkedAt,
           policy    |-> gatePolicy]
  <2>1. pending # None /\ pending' = None /\ issued' = issued \cup {entry}
    BY <1>3 DEF IssueReceipt
  <2>2. UNCHANGED <<clock, envelopes, gatePolicy, brokerPolicy, executed>>
    BY <1>3 DEF IssueReceipt
  <2>3. Bound(pending.envelope) /\ pending.envelope.digest = pending.envelope.document
    BY <2>1 DEF Bound
  <2>4. WellIssued(entry)
    BY <2>1, <2>3 DEF WellIssued
  <2> HIDE DEF entry
  <2>5. Entries' \subseteq Entries \cup {entry}
    BY <2>1, <2>2 DEF Entries
  <2>6. \A e \in Entries' : WellIssued(e)
    BY <2>4, <2>5
  <2>7. \A e \in Entries' : WellIssued(e)'
    BY <2>2, <2>6 DEF WellIssued
  <2> QED BY <2>1, <2>2, <2>7
<1>4. ASSUME NEW p \in GatePolicies, NewGate(p)
      PROVE  GateInv'
  <2>1. pending = None /\ gatePolicy' = p
    BY <1>4 DEF NewGate
  <2>2. UNCHANGED <<clock, envelopes, brokerPolicy, pending, issued, executed>>
    BY <1>4 DEF NewGate
  <2>3. Entries' = Entries
    BY <2>2 DEF Entries
  <2>4. \A e \in Entries' : WellIssued(e)'
    BY <2>2, <2>3 DEF WellIssued
  <2> QED BY <2>1, <2>2, <2>4
<1>5. CASE WriteBrokerPolicy
  <2>1. brokerPolicy' \in BrokerPolicies
    BY <1>5 DEF WriteBrokerPolicy, BrokerPolicies
  <2>2. UNCHANGED <<clock, envelopes, gatePolicy, pending, issued, executed>>
    BY <1>5 DEF WriteBrokerPolicy
  <2>3. Entries' = Entries
    BY <2>2 DEF Entries
  <2>4. \A e \in Entries' : WellIssued(e)'
    BY <2>2, <2>3 DEF WellIssued
  <2> QED BY <2>1, <2>2, <2>4
<1>6. ASSUME NEW entry \in issued, RunThroughBroker(entry)
      PROVE  GateInv'
  <2> DEFINE call == [entry |-> entry, at |-> clock, policy |-> brokerPolicy]
  <2>1. executed' = executed \cup {call} /\ BrokerVerdict(entry, brokerPolicy, clock) = "Allow"
    BY <1>6 DEF RunThroughBroker
  <2>2. UNCHANGED <<clock, envelopes, gatePolicy, brokerPolicy, pending, issued>>
    BY <1>6 DEF RunThroughBroker
  <2>3. Allowed(call) /\ call.entry = entry
    BY <2>1 DEF Allowed
  <2> HIDE DEF call
  <2>4. Entries' \subseteq Entries
    BY <2>1, <2>2, <2>3 DEF Entries
  <2>5. \A e \in Entries' : WellIssued(e)'
    BY <2>2, <2>4 DEF WellIssued
  <2>6. \A x \in executed' : Allowed(x)
    BY <2>1, <2>3
  <2> QED BY <2>2, <2>5, <2>6
<1>7. CASE Tick
  <2>1. clock' \in 0..MaxClock
    BY <1>7, GateAssumption DEF Tick
  <2>2. UNCHANGED <<envelopes, gatePolicy, brokerPolicy, pending, issued, executed>>
    BY <1>7 DEF Tick
  <2>3. Entries' = Entries
    BY <2>2 DEF Entries
  <2>4. \A e \in Entries' : WellIssued(e)'
    BY <2>2, <2>3 DEF WellIssued
  <2> QED BY <2>1, <2>2, <2>4
<1>8. CASE UNCHANGED vars
  <2>1. UNCHANGED <<clock, envelopes, gatePolicy, brokerPolicy, pending, issued, executed>>
    BY <1>8 DEF vars
  <2>2. Entries' = Entries
    BY <2>1 DEF Entries
  <2>3. \A e \in Entries' : WellIssued(e)'
    BY <2>1, <2>2 DEF WellIssued
  <2> QED BY <2>1, <2>3
<1> QED BY <1>1, <1>2, <1>3, <1>4, <1>5, <1>6, <1>7, <1>8 DEF Next

LEMMA InvariantHolds == Spec => []GateInv
  BY InitOK, GateStep, PTL DEF Spec

(* An executed call was issued.                                            *)
LEMMA ExecutedFacts ==
    ASSUME GateInv, NEW x \in executed
    PROVE  /\ WellIssued(x.entry) /\ Allowed(x)
           /\ WithinPolicy(x.entry.receipt, x.entry.request.action, x.policy)
           /\ IsFresh(x.entry.receipt, x.policy.ttl, x.at)
<1>1. WellIssued(x.entry) /\ Allowed(x)
  BY DEF GateInv, Entries
<1> QED BY <1>1, AllowedFacts DEF Allowed, BrokerVerdict

---------------------------------------------------------------------------------
(* What the gate, the broker and the agent hold keeps its type.            *)
THEOREM TypeCorrect == Spec => []TypeOK
<1>1. GateInv => TypeOK
  BY DEF GateInv, TypeOK, WellIssued, BrokerPolicies
<1> QED BY <1>1, InvariantHolds, PTL

(* The age of the evidence behind an executed call is bounded by the two   *)
(* times-to-live and the time the gate took (riskgate_service.py:132-138   *)
(* and 168, crypto.rs:101-113).                                            *)
THEOREM AgeIsBounded == Spec => []EvidenceAgeBounded
<1>1. GateInv => EvidenceAgeBounded
  <2> SUFFICES ASSUME GateInv, NEW x \in executed,
                      x.entry.envelope.document.ttl > 0, x.policy.ttl > 0
               PROVE  x.at - x.entry.envelope.document.timestamp <=
                        x.entry.envelope.document.ttl
                        + (x.entry.receipt.timestamp - x.entry.checkedAt) + x.policy.ttl
    BY DEF EvidenceAgeBounded
  <2> DEFINE e == x.entry
             doc == e.envelope.document
  <2>1. WellIssued(e) /\ Allowed(x) /\ IsFresh(e.receipt, x.policy.ttl, x.at)
    BY ExecutedFacts
  <2>2. PICK now \in 0..MaxClock : e.receipt = Receipt(e.request, doc, now)
    BY <2>1 DEF WellIssued
  <2>3. e.receipt.timestamp \in Int
    BY <2>2, ReceiptFields
  <2>4. x.at \in Int /\ x.policy.ttl \in Int
    BY <2>1, PolicyFields DEF Allowed, BrokerPolicies
  <2>5. doc.ttl \in Int /\ doc.timestamp \in Int
    BY <2>1 DEF WellIssued, Bound
  <2>6. e.checkedAt \in Int /\ EvidenceOK(e.envelope, e.policy, e.checkedAt)
    BY <2>1 DEF WellIssued, Judged
  <2>7. e.checkedAt - doc.timestamp <= doc.ttl
    BY <2>6 DEF EvidenceOK
  <2>8. x.at - e.receipt.timestamp <= x.policy.ttl
    BY <2>1 DEF IsFresh
  <2> HIDE DEF e, doc
  <2>9. x.at - doc.timestamp <= doc.ttl + (e.receipt.timestamp - e.checkedAt) + x.policy.ttl
    BY <2>3, <2>4, <2>5, <2>6, <2>7, <2>8
  <2> QED BY <2>9 DEF e, doc
<1> QED BY <1>1, InvariantHolds, PTL

(* Every executed call rests on evidence about its target, signed by the   *)
(* trusted provider, that reported nothing against it                      *)
(* (riskgate_service.py:118-164).                                          *)
THEOREM SoundEvidence == Spec => []ExecutedOnSoundEvidence
<1>1. GateInv => ExecutedOnSoundEvidence
  <2> SUFFICES ASSUME GateInv, NEW x \in executed
               PROVE  LET envelope == x.entry.envelope
                          doc == envelope.document
                      IN  /\ envelope.signature = [key |-> EvidenceKey, over |-> doc]
                          /\ x.entry.receipt.evidence = doc
                          /\ doc.subject = x.entry.receipt.target
                          /\ doc.healthy /\ doc.window /\ ~doc.freeze
                          /\ x.entry.receipt.action = "deploy" => doc.rollback
    BY DEF ExecutedOnSoundEvidence
  <2> DEFINE e == x.entry
             doc == e.envelope.document
  <2>1. WellIssued(e)
    BY ExecutedFacts
  <2>2. PICK now \in 0..MaxClock : e.receipt = Receipt(e.request, doc, now)
    BY <2>1 DEF WellIssued
  <2>3. /\ e.receipt.evidence = doc /\ e.receipt.target = e.request.target
        /\ e.receipt.action = e.request.action
    BY <2>2, ReceiptFields
  <2>4. EvidenceOK(e.envelope, e.policy, e.checkedAt) /\ PolicyOK(e.request, doc, e.policy)
    BY <2>1 DEF WellIssued, Judged
  <2>5. e.policy.trusted = EvidenceKey
    BY <2>1, GateAssumption DEF WellIssued
  <2>6. e.envelope.signature = [key |-> EvidenceKey, over |-> doc]
    BY <2>4, <2>5 DEF EvidenceOK, Verifies, Sign
  <2> QED BY <2>3, <2>4, <2>6 DEF PolicyOK
<1> QED BY <1>1, InvariantHolds, PTL

(* What the gate approves, a broker under its policy allows when the       *)
(* receipt is issued, but for the dry run of a destructive call and the    *)
(* quorum (riskgate_service.py:141-185 against crypto.rs:61-199).          *)
THEOREM GateMeansBroker == Spec => []GateAndBrokerAgree
<1>1. GateInv => GateAndBrokerAgree
  <2> SUFFICES ASSUME GateInv, NEW e \in issued,
                      ~LacksDryRun(e.request.action, e.request.args),
                      ~LacksQuorum(e.request.action, e.request.args)
               PROVE  BrokerVerdict(e, BrokerPolicy(e.policy), e.receipt.timestamp) = "Allow"
    BY DEF GateAndBrokerAgree
  <2> DEFINE r == e.receipt
             b == BrokerPolicy(e.policy)
             a == e.request.args
  <2>1. WellIssued(e)
    BY DEF GateInv, Entries
  <2>2. PICK now \in 0..MaxClock : r = Receipt(e.request, e.envelope.document, now)
    BY <2>1 DEF WellIssued
  <2>3. /\ r.action = e.request.action /\ r.target = e.request.target /\ r.timestamp = now
        /\ r.signature = Sign(GateKey, Binding(r, a))
    BY <2>2, ReceiptFields
  <2>4. /\ b.authorized_targets = e.policy.authorized_targets
        /\ b.allowed_actions = e.policy.allowed_actions
        /\ b.forbidden_actions = e.policy.forbidden_actions
        /\ b.ttl \in Int /\ VerifyingKey(b) = GateKey
    BY <2>1, PolicyFields DEF WellIssued
  <2>5. ShapeOK(e.request) /\ GateListsAllow(e.request, e.policy)
    BY <2>1 DEF WellIssued, Judged, PolicyOK
  <2>6. e.request.target # Blank /\ a.canonical
    BY <2>1, <2>5, GateAssumption DEF WellIssued
  <2> HIDE DEF r, b, a
  <2>7. WithinPolicy(r, e.request.action, b)
    BY <2>3, <2>4, <2>5, <2>6 DEF WithinPolicy, TargetIsAuthorized, GateListsAllow
  <2>8. IsFresh(r, b.ttl, r.timestamp)
    BY <2>3, <2>4, VerificationAssumption DEF IsFresh
  <2>9. r.signature # MalformedSig
    BY <2>1, <2>2, SignatureAssumption DEF WellIssued, Bound, r
  <2>10. Decodes(r, a, b)
    BY <2>4, <2>6, <2>9, GateAssumption DEF Decodes
  <2>11. SignatureMatches(r, a, b)
    BY <2>3, <2>4 DEF SignatureMatches, Sign
  <2>12. VerifyReceipt(r, e.request.action, a, b, r.timestamp) = "Allow"
    BY <2>7, <2>8, <2>10, <2>11 DEF VerifyReceipt, a
  <2> QED BY <2>12 DEF BrokerVerdict, r, b, a
<1> QED BY <1>1, InvariantHolds, PTL

(* With lists that are not empty the broker executes nothing that the      *)
(* gate's lists refuse under its policy (riskgate_service.py:141-150       *)
(* against crypto.rs:78-99).                                               *)
THEOREM ListsAsStrict == Spec => []BrokerListsAsStrict
<1>1. GateInv => BrokerListsAsStrict
  <2> SUFFICES ASSUME GateInv, NEW x \in executed,
                      x.policy.authorized_targets # {},
                      Wildcard \notin x.policy.authorized_targets,
                      x.policy.allowed_actions # {}
               PROVE  GateListsAllow(x.entry.request, x.policy)
    BY DEF BrokerListsAsStrict
  <2>1. WellIssued(x.entry) /\ WithinPolicy(x.entry.receipt, x.entry.request.action, x.policy)
    BY ExecutedFacts
  <2>2. PICK now \in 0..MaxClock :
           x.entry.receipt = Receipt(x.entry.request, x.entry.envelope.document, now)
    BY <2>1 DEF WellIssued
  <2>3. /\ x.entry.receipt.target = x.entry.request.target
        /\ x.entry.receipt.action = x.entry.request.action
    BY <2>2, ReceiptFields
  <2> QED BY <2>1, <2>3 DEF WithinPolicy, TargetIsAuthorized, GateListsAllow
<1> QED BY <1>1, InvariantHolds, PTL
================================================================================
