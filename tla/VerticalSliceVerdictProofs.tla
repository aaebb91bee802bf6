----------------------- MODULE VerticalSliceVerdictProofs -----------------------
(***************************************************************************)
(* What the programs report, for any suites that are labelled with what    *)
(* their jobs do, any policy, any faults and any speed of the processes:   *)
(* no attack deploys, no verdict contradicts what was deployed, and a run  *)
(* that is fast enough and meets no fault ends as its label says.          *)
(***************************************************************************)
EXTENDS VerticalSliceProofs, SequenceTheorems

(* The lines in the four pipes, as sets.                                   *)
LinesIn(pipe) == {pipe[k] : k \in DOMAIN pipe}

Asked    == LinesIn(pipes.toBroker)
Sending  == LinesIn(pipes.toTool)
Given    == LinesIn(pipes.fromTool)
Returned == LinesIn(pipes.toClient)

Running == Waiting \cup {"crashed"}

Ending == {"terminate", "communicate", "communicate again"}

Accepting == {"ALLOW", "OUT_OF_SCOPE_ALLOWED", "0"}

(* The suite is what is done and what is left of it.                       *)
SuiteInv ==
    /\ \E S : results \in Seq(S)
    /\ todo \in Seq(Jobs)
    /\ \E suite \in Suites : suite = [k \in 1..Len(results) |-> results[k].job] \o todo
    /\ pc = "done" <=> todo = <<>>
    /\ pc = "done" => work.answers = <<>>
    /\ pc \in Running \cup Before \cup {"done"}
    /\ tool \in {"none", "up", "dead"}

ClockInv ==
    /\ clock \in 0..MaxClock
    /\ pc \notin {"start", "done"} => work.since \in 0..clock

(* A call the broker blocks whenever it comes, and one it lets through in  *)
(* time.                                                                   *)
Refusable(call, policy, now) ==
    IF call.receipt = None THEN policy.require_receipt
    ELSE \A at \in Int : at >= now =>
            VerifyReceipt(call.receipt, call.tool, call.args, policy, at) = "Block"

Approvable(call, policy, since, now) ==
    /\ call.receipt # None /\ call.receipt.timestamp \in Int
    /\ \A at \in Int : at >= now /\ at - since <= policy.ttl =>
            VerifyReceipt(call.receipt, call.tool, call.args, policy, at) = "Allow"

(* The calls of a job, made since a time and looked at now.                *)
CallsOK(job, calls, since, now) ==
    LET policy == BrokerPolicy(GatePolicy(job)) IN
    /\ Len(calls) = IF job.mutation = "replay_attack" THEN 2 ELSE 1
    /\ job.expected \notin {"RISK_GATE_BLOCK", "2"}
    /\ job.expected \in Accepting =>
          job.mutation # "replay_attack" /\ Approvable(calls[1], policy, since, now)
    /\ job.expected = "BROKER_BLOCK" /\ job.mutation # "replay_attack" =>
          Refusable(calls[1], policy, now)
    /\ job.expected = "BROKER_BLOCK" /\ job.mutation = "replay_attack" =>
          /\ Approvable(calls[1], policy, since, now)
          /\ calls[2].receipt = calls[1].receipt
          /\ policy.ttl > 0

Signer(job) == IF job.mutation = "self_signed_evidence" THEN GateKey ELSE EvidenceKey

Collected(job, t) == Envelope(Document(job.profile, DefaultPolicy.ttl, t), Signer(job))

(* What the client has made of its job.                                    *)
MadeInv ==
    /\ pc \notin {"start", "done"} /\ Job.program # "sample" =>
          /\ policyFile = BrokerPolicy(GatePolicy(Job))
          /\ pc \in Before => work.intent = Intent(Job, work.since)
    /\ pc \in {"collect", "evaluate", "issue", "bypass"} => Job.program # "sample"
    /\ pc \in {"evaluate", "issue", "bypass"} =>
          \E t \in work.since..clock : work.envelope = Collected(Job, t)
    /\ pc = "bypass" => Job.mutation \in Bypassing
    /\ pc \in {"evaluate", "issue"} => Job.mutation \notin Bypassing
    /\ pc = "issue" => ~GateRefuses(Job)
    /\ pc \in Running \cup {"spawn"} => CallsOK(Job, work.calls, work.since, clock)

(* The broker of a run and the lines it is given.                          *)
RunInv ==
    pc \in Running =>
      /\ broker.state = "up" /\ Job.program # "sample" =>
            broker.policy = BrokerPolicy(GatePolicy(Job))
      /\ \A line \in Asked \cup Sending :
            line.n \in 1..Len(work.calls) /\ line = work.calls[line.n]
      /\ work.answers = <<>> /\ Sending \cup Given \cup Returned = {} => broker.held = {}
      /\ Len(work.answers) <= Len(work.calls)
      /\ pc \in {"write", "read"} => Len(work.answers) < Len(work.calls)
      /\ pc \in Ending => Len(work.answers) = Len(work.calls)

(* What an attack has sent to the tool, and what is held of it.            *)
QuotaInv ==
    /\ \E S : deployed \in Seq(S)
    /\ pc \notin Running => deployed = <<>>
    /\ pc \in Running /\ Job.expected = "BROKER_BLOCK" =>
          IF Job.mutation # "replay_attack" THEN deployed = <<>> /\ Sending = {}
          ELSE /\ Len(deployed) <= 1
               /\ Sending # {} => deployed = <<>>
               /\ Sending # {} \/ deployed # <<>> =>
                     \E h \in broker.held : h.intent = work.calls[1].receipt.intent

(* A success is shown to the client if and, without a fault, only if there *)
(* is a deployment.                                                        *)
Shown == LinesIn(work.answers) \cup Given \cup Returned

ShownInv ==
    pc \in Running =>
      /\ (\E line \in Shown : line.is = "result") => deployed # <<>>
      /\ ~faulted /\ deployed # <<>> => \E line \in Shown : line.is = "result"
      /\ ~faulted /\ pc \in Ending => Asked \cup Sending \cup Given \cup Returned = {}

(* The answer a job is expected to get to its n-th call.                   *)
Right(job, n) ==
    IF job.expected = "BROKER_BLOCK" /\ ~(job.mutation = "replay_attack" /\ n = 1)
    THEN "error" ELSE "result"

TimelyInv ==
    pc \in Running /\ ~faulted /\ Job.expected # None
          /\ clock - work.since <= GatePolicy(Job).ttl =>
      /\ \A line \in Shown : line.is = Right(Job, line.n)
      /\ \A line \in Sending : Right(Job, line.n) = "result"

(* What is said of a job that is over.                                     *)
ReportOK(x) ==
    /\ x.job.expected \in {"BROKER_BLOCK", "RISK_GATE_BLOCK"}
          => Len(x.deployed) <= IF x.job.mutation = "replay_attack" THEN 1 ELSE 0
    /\ x.actual \in Success => x.deployed # <<>>
    /\ ~x.faulted /\ x.actual \notin Success
          => x.deployed = <<>> \/ x.job.mutation = "replay_attack"
    /\ ~x.faulted /\ x.timely /\ x.job.expected # None
          => expected_matches(x.job.expected, x.actual)

ResultsInv == \A k \in DOMAIN results : ReportOK(results[k])

---------------------------------------------------------------------------------
(* What is assumed of a job.                                               *)
LEMMA AboutJobs ==
    ASSUME NEW job \in Jobs
    PROVE  /\ job.program \in {"redteam", "demo", "sample"}
           /\ job.program # "redteam" => job.mutation = "none"
           /\ DOMAIN job.args = {"id", "dry_run", "destructive", "quorum", "canonical"}
           /\ job.profile.offset \in Int /\ GatePolicy(job).ttl \in Int
           /\ BrokerPolicy(GatePolicy(job)) # None
           /\ \A receipt \in ReceiptsOf(job) :
                 receipt # None /\ receipt.signature # MalformedSig
           /\ Labelled(job)
  BY SuiteAssumption DEF SuiteAssumption

LEMMA TextsOfJob ==
    ASSUME NEW job \in Jobs
    PROVE  /\ \A receipt \in ReceiptsOf(job) :
                 /\ IsText(Text(receipt.intent)) /\ IsText(Text(receipt.action))
                 /\ IsText(Text(receipt.target)) /\ IsText(Text(receipt.evidence))
           /\ LET tampered == [job.args EXCEPT !.id = "v99"] IN
              /\ IsText(Canonical(job.args)) /\ IsText(Canonical(tampered))
              /\ job.args.id # "v99" => Canonical(job.args) # Canonical(tampered)
  BY SuiteAssumption DEF SuiteAssumption

(* The policies of a job differ from the default in their ttl alone.       *)
LEMMA PoliciesOfJob ==
    ASSUME NEW job
    PROVE  LET gate == GatePolicy(job)
               policy == BrokerPolicy(gate)
           IN  /\ gate.authorized_targets = DefaultPolicy.authorized_targets
               /\ gate.allowed_actions = DefaultPolicy.allowed_actions
               /\ gate.forbidden_actions = DefaultPolicy.forbidden_actions
               /\ gate.trusted = DefaultPolicy.trusted
               /\ policy.authorized_targets = DefaultPolicy.authorized_targets
               /\ policy.allowed_actions = DefaultPolicy.allowed_actions
               /\ policy.forbidden_actions = DefaultPolicy.forbidden_actions
               /\ policy.require_receipt = DefaultPolicy.require_receipt
               /\ policy.ttl = gate.ttl /\ policy.public_key = GateKey
  BY SuiteAssumption DEF SuiteAssumption, GatePolicy, BrokerPolicy

LEMMA IntentOfJob ==
    ASSUME NEW job, NEW since
    PROVE  LET request == Intent(job, since) IN
           /\ request.wellFormed /\ request.action = "deploy"
           /\ request.target = job.target /\ request.args = job.args
  BY DEF Intent

LEMMA FieldsOfReceipt ==
    ASSUME NEW request, NEW digest, NEW at
    PROVE  LET receipt == Receipt(request, digest, at) IN
           /\ receipt.action = request.action /\ receipt.target = request.target
           /\ receipt.timestamp = at
           /\ receipt.signature = [key |-> GateKey, over |-> Binding(receipt, request.args)]
  BY DEF Receipt, WithSignature, Unsigned, Sign, Binding

LEMMA FieldsOfCall ==
    ASSUME NEW n, NEW request, NEW receipt
    PROVE  LET call == Call(n, request, receipt) IN
           /\ call.n = n /\ call.tool = request.action /\ call.args = request.args
           /\ call.receipt = receipt
  BY DEF Call

(* The gate's policy is that of the default, whatever the time is.         *)
LEMMA PolicyAtAnyTime ==
    ASSUME NEW job \in Jobs, NEW since, NEW t
    PROVE  PolicyOK(Intent(job, since), Document(job.profile, DefaultPolicy.ttl, t),
                    GatePolicy(job))
              <=> PolicyAllows(job)
<1> DEFINE doc(s) == Document(job.profile, DefaultPolicy.ttl, s)
<1>1. \A s : /\ doc(s).subject = job.profile.subject /\ doc(s).freeze = job.profile.freeze
             /\ doc(s).healthy = job.profile.healthy /\ doc(s).window = job.profile.window
             /\ doc(s).rollback = job.profile.rollback
  BY DEF Document
<1> HIDE DEF doc
<1>2. PolicyOK(Intent(job, since), doc(t), GatePolicy(job))
         <=> PolicyOK(Intent(job, 0), doc(0), DefaultPolicy)
  BY <1>1, PoliciesOfJob, IntentOfJob DEF PolicyOK, GateListsAllow
<1> QED BY <1>2 DEF PolicyAllows, doc

(* What evaluate finds of the evidence of a job.                           *)
Accepts(request, envelope, policy, now) ==
    /\ ShapeOK(request)
    /\ EvidenceOK(envelope, policy, now)
    /\ PolicyOK(request, envelope.document, policy)

LEMMA EvidenceOfJob ==
    ASSUME NEW job \in Jobs, NEW since \in Int, NEW t \in Int, NEW now \in Int
    PROVE  Accepts(Intent(job, since), Collected(job, t), GatePolicy(job), now)
              <=> /\ PolicyAllows(job)
                  /\ Signer(job) = DefaultPolicy.trusted
                  /\ now - (t + job.profile.offset) >= -ClockSkew
                  /\ DefaultPolicy.ttl > 0 =>
                        now - (t + job.profile.offset) <= DefaultPolicy.ttl
<1> DEFINE doc == Document(job.profile, DefaultPolicy.ttl, t)
           envelope == Collected(job, t)
<1>1. /\ envelope.document = doc /\ envelope.signer = Signer(job)
      /\ Verifies(envelope.signature, envelope.signer, envelope.document)
  BY DEF Collected, Envelope, Verifies
<1>2. doc.timestamp = t + job.profile.offset /\ doc.ttl = DefaultPolicy.ttl
  BY DEF Document
<1>3. PolicyOK(Intent(job, since), doc, GatePolicy(job)) <=> PolicyAllows(job)
  BY PolicyAtAnyTime
<1>4. ShapeOK(Intent(job, since)) /\ GatePolicy(job).trusted = DefaultPolicy.trusted
  BY IntentOfJob, PoliciesOfJob DEF ShapeOK
<1> HIDE DEF doc, envelope
<1>5. Accepts(Intent(job, since), envelope, GatePolicy(job), now)
         <=> /\ PolicyAllows(job) /\ Signer(job) = DefaultPolicy.trusted
             /\ now - (t + job.profile.offset) >= -ClockSkew
             /\ DefaultPolicy.ttl > 0 => now - (t + job.profile.offset) <= DefaultPolicy.ttl
  BY <1>1, <1>2, <1>3, <1>4 DEF Accepts, EvidenceOK
<1> QED BY <1>5 DEF envelope

(* The gate refuses what it is said to refuse, and accepts a sound job     *)
(* within its ttl.                                                         *)
LEMMA GateVerdict ==
    ASSUME NEW job \in Jobs, NEW since \in Int, NEW now \in Int, NEW t \in since..now
    PROVE  LET accepts == Accepts(Intent(job, since), Collected(job, t), GatePolicy(job), now)
           IN  /\ GateRefuses(job) => ~accepts
               /\ Sound(job) /\ now - since <= GatePolicy(job).ttl => accepts
<1> DEFINE offset == job.profile.offset
           ttl == DefaultPolicy.ttl
           mine == GatePolicy(job).ttl
           accepts == Accepts(Intent(job, since), Collected(job, t), GatePolicy(job), now)
<1>1. offset \in Int /\ ttl \in Int /\ mine \in Int /\ ClockSkew \in Nat
  BY AboutJobs, SuiteAssumption, VerificationAssumption
     DEF SuiteAssumption, VerificationAssumption
<1>2. accepts <=> /\ PolicyAllows(job)
                  /\ Signer(job) = DefaultPolicy.trusted
                  /\ now - (t + offset) >= -ClockSkew
                  /\ ttl > 0 => now - (t + offset) <= ttl
  <2>1. t \in Int
    OBVIOUS
  <2> QED BY <2>1, EvidenceOfJob, Zenon
<1>3. GateRefuses(job) <=> \/ ~PolicyAllows(job)
                           \/ job.mutation = "self_signed_evidence" /\ GateKey # DefaultPolicy.trusted
                           \/ 0 < ttl /\ ttl < -offset
  BY DEF GateRefuses
<1>4. Sound(job) => /\ PolicyAllows(job) /\ job.mutation # "self_signed_evidence"
                    /\ DefaultPolicy.trusted = EvidenceKey
                    /\ offset \in 0..ClockSkew /\ (ttl > 0 => mine <= ttl)
  BY DEF Sound
<1> HIDE DEF offset, ttl, mine, accepts
<1>5. GateRefuses(job) => ~accepts
  BY <1>1, <1>2, <1>3 DEF Signer
<1>6. Sound(job) /\ now - since <= mine => accepts
  BY <1>1, <1>2, <1>4 DEF Signer
<1> QED BY <1>5, <1>6 DEF accepts, mine

---------------------------------------------------------------------------------
(* What each label says, one at a time.                                    *)
LEMMA Labels ==
    ASSUME NEW job \in Jobs
    PROVE  /\ job.expected \in Accepting =>
                 /\ job.program # "sample" /\ Sound(job)
                 /\ job.mutation \in {"none", "poisoned_context_valid_intent"}
           /\ job.expected = "RISK_GATE_BLOCK" =>
                 job.program = "redteam" /\ job.mutation \notin Bypassing /\ GateRefuses(job)
           /\ job.expected = "2" =>
                 job.program = "demo" /\ job.mutation \notin Bypassing /\ GateRefuses(job)
           /\ job.expected = "BROKER_BLOCK" => job.program = "redteam" /\ BrokerRefuses(job)
           /\ job.expected \in Accepting \cup {"RISK_GATE_BLOCK", "2", "BROKER_BLOCK", None}
           /\ job.program = "sample" => job.expected = None
           /\ job.program = "redteam" /\ job.expected \in Accepting =>
                 job.expected \in {"ALLOW", "OUT_OF_SCOPE_ALLOWED"}
           /\ job.program = "demo" /\ job.expected \in Accepting => job.expected = "0"
           /\ None \notin Accepting \cup {"RISK_GATE_BLOCK", "2", "BROKER_BLOCK"}
<1>1. Labelled(job) /\ (job.program # "redteam" => job.mutation = "none")
  BY AboutJobs
<1>2. None \notin {"ALLOW", "OUT_OF_SCOPE_ALLOWED", "RISK_GATE_BLOCK", "BROKER_BLOCK", "0", "2"}
  BY SuiteAssumption DEF SuiteAssumption
<1> QED BY <1>1, <1>2 DEF Labelled, Accepting, Bypassing

(* A receipt of the gate under the policy the gate has published.          *)
Issued(job, since, t, at) ==
    Receipt(Intent(job, since), Document(job.profile, DefaultPolicy.ttl, t), at)

LEMMA IssuedReceipt ==
    ASSUME NEW job \in Jobs, NEW since \in 0..MaxClock, NEW t \in 0..MaxClock,
           NEW at \in -3..MaxClock
    PROVE  LET receipt == Issued(job, since, t, at) IN
           /\ receipt # None /\ receipt.signature # MalformedSig
           /\ receipt.action = "deploy" /\ receipt.target = job.target
           /\ receipt.timestamp = at
           /\ receipt.signature = [key |-> GateKey, over |-> Binding(receipt, job.args)]
<1>1. Issued(job, since, t, at) \in ReceiptsOf(job)
  BY DEF Issued, ReceiptsOf
<1>2. /\ Intent(job, since).action = "deploy" /\ Intent(job, since).target = job.target
      /\ Intent(job, since).args = job.args
  BY IntentOfJob
<1> QED BY <1>1, <1>2, AboutJobs, FieldsOfReceipt DEF Issued

LEMMA KeyOfGate ==
    ASSUME NEW job
    PROVE  LET policy == BrokerPolicy(GatePolicy(job)) IN
           VerifyingKey(policy) = GateKey /\ GateKey # MalformedKey
  BY PoliciesOfJob, SuiteAssumption DEF SuiteAssumption, VerifyingKey

(* A sound job's receipt lets its call through until the ttl is over.      *)
LEMMA SoundIsApproved ==
    ASSUME NEW job \in Jobs, Sound(job), NEW since \in 0..MaxClock,
           NEW t \in 0..MaxClock, NEW now \in since..MaxClock, NEW n
    PROVE  Approvable(Call(n, Intent(job, since), Issued(job, since, t, now)),
                      BrokerPolicy(GatePolicy(job)), since, now)
<1> DEFINE receipt == Issued(job, since, t, now)
           policy == BrokerPolicy(GatePolicy(job))
           call == Call(n, Intent(job, since), receipt)
<1>1. /\ MaxClock \in Nat /\ ClockSkew \in Nat /\ now \in -3..MaxClock /\ now \in Int
      /\ since \in Int /\ since <= now
  BY SliceAssumption, VerificationAssumption DEF SliceAssumption, VerificationAssumption
<1>2. /\ receipt # None /\ receipt.signature # MalformedSig
      /\ receipt.action = "deploy" /\ receipt.target = job.target
      /\ receipt.timestamp = now
      /\ receipt.signature = [key |-> GateKey, over |-> Binding(receipt, job.args)]
  BY <1>1, IssuedReceipt
<1>3. call.receipt = receipt /\ call.tool = "deploy" /\ call.args = job.args
  BY FieldsOfCall, IntentOfJob
<1>4. /\ job.target # Blank /\ job.args.canonical /\ ~LacksQuorum("deploy", job.args)
      /\ job.target \in DefaultPolicy.authorized_targets
      /\ "deploy" \notin DefaultPolicy.forbidden_actions
      /\ "deploy" \in DefaultPolicy.allowed_actions /\ job.args.dry_run
  BY IntentOfJob DEF Sound, PolicyAllows, PolicyOK, GateListsAllow
<1>5. /\ policy.authorized_targets = DefaultPolicy.authorized_targets
      /\ policy.allowed_actions = DefaultPolicy.allowed_actions
      /\ policy.forbidden_actions = DefaultPolicy.forbidden_actions
      /\ policy.ttl \in Int /\ VerifyingKey(policy) = GateKey /\ GateKey # MalformedKey
  BY PoliciesOfJob, AboutJobs, KeyOfGate
<1> HIDE DEF receipt, policy, call
<1>6. WithinPolicy(receipt, "deploy", policy)
  BY <1>2, <1>4, <1>5 DEF WithinPolicy, TargetIsAuthorized
<1>7. Decodes(receipt, job.args, policy) /\ ~LacksDryRun("deploy", job.args)
  BY <1>2, <1>4, <1>5 DEF Decodes, LacksDryRun
<1>8. SignatureMatches(receipt, job.args, policy)
  BY <1>2, <1>5 DEF SignatureMatches
<1>9. ASSUME NEW at \in Int, at >= now, at - since <= policy.ttl
      PROVE  VerifyReceipt(receipt, "deploy", job.args, policy, at) = "Allow"
  <2>1. IsFresh(receipt, policy.ttl, at)
    BY <1>1, <1>2, <1>5, <1>9 DEF IsFresh
  <2> QED BY <1>4, <1>6, <1>7, <1>8, <2>1 DEF VerifyReceipt
<1>10. Approvable(call, policy, since, now)
  BY <1>1, <1>2, <1>3, <1>9 DEF Approvable
<1> QED BY <1>10 DEF call, policy, receipt

(* The three mutations that go around the gate are blocked.                *)
LEMMA BypassedIsRefused ==
    ASSUME NEW job \in Jobs, BrokerRefuses(job), job.mutation \in Bypassing,
           NEW since \in 0..MaxClock, NEW t \in 0..MaxClock, NEW now \in since..MaxClock,
           NEW n, NEW receipt,
           receipt = IF job.mutation = "missing_receipt" THEN None
                     ELSE Issued(job, since, t,
                                 IF job.mutation = "expired_receipt" THEN now - 3 ELSE now)
    PROVE  Refusable(Call(n, Intent(job, since), receipt), BrokerPolicy(GatePolicy(job)), now)
<1> DEFINE policy == BrokerPolicy(GatePolicy(job))
           call == Call(n, Intent(job, since), receipt)
           made == IF job.mutation = "expired_receipt" THEN now - 3 ELSE now
<1>1. MaxClock \in Nat /\ now \in Int /\ made \in -3..MaxClock
  BY SliceAssumption DEF SliceAssumption
<1>2. call.receipt = receipt
  BY FieldsOfCall
<1>3. CASE job.mutation = "missing_receipt"
  <2>1. receipt = None /\ policy.require_receipt
    BY <1>3, PoliciesOfJob DEF BrokerRefuses
  <2> HIDE DEF policy, call
  <2>2. Refusable(call, policy, now)
    BY <1>2, <2>1 DEF Refusable
  <2> QED BY <2>2 DEF call, policy
<1>4. CASE job.mutation = "expired_receipt"
  <2>1. receipt # None /\ receipt.timestamp = now - 3
    BY <1>1, <1>4, IssuedReceipt
  <2>2. policy.ttl \in 1..2
    BY <1>4, PoliciesOfJob DEF BrokerRefuses
  <2> HIDE DEF policy, call, made
  <2>3. ASSUME NEW at \in Int, at >= now
        PROVE  ~IsFresh(receipt, policy.ttl, at)
    BY <1>1, <2>1, <2>2, <2>3 DEF IsFresh
  <2>4. Refusable(call, policy, now)
    BY <1>2, <2>1, <2>3 DEF Refusable, VerifyReceipt
  <2> QED BY <2>4 DEF call, policy
<1>5. CASE job.mutation = "signed_unauthorized_target"
  <2>1. receipt # None /\ receipt.target = job.target
    <3>1. receipt = Issued(job, since, t, now)
      BY <1>5
    <3>2. now \in -3..MaxClock
      BY <1>1
    <3>3. Issued(job, since, t, now) # None /\ Issued(job, since, t, now).target = job.target
      BY <3>2, IssuedReceipt
    <3> QED BY <3>1, <3>3
  <2>2. /\ policy.authorized_targets # {}
        /\ ~TargetIsAuthorized(job.target, policy.authorized_targets)
    BY <1>5, PoliciesOfJob DEF BrokerRefuses
  <2> HIDE DEF policy, call, made
  <2>3. \A name : ~WithinPolicy(receipt, name, policy)
    BY <2>1, <2>2 DEF WithinPolicy
  <2>4. Refusable(call, policy, now)
    BY <1>2, <2>1, <2>3 DEF Refusable, VerifyReceipt
  <2> QED BY <2>4 DEF call, policy
<1> QED BY <1>3, <1>4, <1>5 DEF Bypassing

(* The bound text of a receipt up to the arguments.                        *)
UpToArguments(r) ==
    ((((((<<"intent:">> \o Text(r.intent)) \o <<"|action:">>) \o Text(r.action))
        \o <<"|target:">>) \o Text(r.target)) \o <<"|payload:">>)

WordsOf(s) == {s[k] : k \in 1..Len(s)}

LEMMA TextIsSequence ==
    ASSUME NEW s, IsText(s), NEW S, WordsOf(s) \subseteq S
    PROVE  s \in Seq(S)
  BY DEF IsText, WordsOf

LEMMA ConcatIsSequence ==
    ASSUME NEW S, NEW s \in Seq(S), NEW t \in Seq(S)
    PROVE  s \o t \in Seq(S)
  BY ConcatProperties

Chain(b, p, l, e, w) == (((b \o p) \o l) \o e) \o w

LEMMA RestCancels ==
    ASSUME NEW S, NEW b \in Seq(S), NEW p \in Seq(S), NEW q \in Seq(S), NEW l \in Seq(S),
           NEW e \in Seq(S), NEW w \in Seq(S),
           Chain(b, p, l, e, w) = Chain(b, q, l, e, w)
    PROVE  p = q
<1>1. /\ b \o p \in Seq(S) /\ (b \o p) \o l \in Seq(S) /\ ((b \o p) \o l) \o e \in Seq(S)
  BY ConcatIsSequence
<1>2. /\ b \o q \in Seq(S) /\ (b \o q) \o l \in Seq(S) /\ ((b \o q) \o l) \o e \in Seq(S)
  BY ConcatIsSequence
<1>3. \A x, y, z \in Seq(S) : x \o z = y \o z => x = y
  BY ConcatSimplifications
<1>4. ((b \o p) \o l) \o e = ((b \o q) \o l) \o e
  BY <1>1, <1>2, <1>3 DEF Chain
<1>5. (b \o p) \o l = (b \o q) \o l
  BY <1>1, <1>2, <1>3, <1>4
<1>6. b \o p = b \o q
  BY <1>1, <1>2, <1>3, <1>5
<1> QED BY <1>6, ConcatSimplifications

(* One receipt binds arguments of one text only.                           *)
LEMMA ArgumentsAreBound ==
    ASSUME NEW r, NEW a, NEW b,
           IsText(Text(r.intent)), IsText(Text(r.action)), IsText(Text(r.target)),
           IsText(Text(r.evidence)), IsText(Canonical(a)), IsText(Canonical(b)),
           Binding(r, a) = Binding(r, b)
    PROVE  Canonical(a) = Canonical(b)
<1> DEFINE S == {"intent:", "|action:", "|target:", "|payload:", "|evidence:", "|ts:",
                 r.timestamp}
                \cup WordsOf(Text(r.intent)) \cup WordsOf(Text(r.action))
                \cup WordsOf(Text(r.target)) \cup WordsOf(Text(r.evidence))
                \cup WordsOf(Canonical(a)) \cup WordsOf(Canonical(b))
           w == <<"|ts:", r.timestamp>>
<1>1. /\ <<"intent:">> \in Seq(S) /\ <<"|action:">> \in Seq(S) /\ <<"|target:">> \in Seq(S)
      /\ <<"|payload:">> \in Seq(S) /\ <<"|evidence:">> \in Seq(S) /\ w \in Seq(S)
  OBVIOUS
<1>2. /\ WordsOf(Text(r.intent)) \subseteq S /\ WordsOf(Text(r.action)) \subseteq S
      /\ WordsOf(Text(r.target)) \subseteq S /\ WordsOf(Text(r.evidence)) \subseteq S
      /\ WordsOf(Canonical(a)) \subseteq S /\ WordsOf(Canonical(b)) \subseteq S
  OBVIOUS
<1> HIDE DEF S, w
<1>3. /\ Text(r.intent) \in Seq(S) /\ Text(r.action) \in Seq(S) /\ Text(r.target) \in Seq(S)
      /\ Text(r.evidence) \in Seq(S) /\ Canonical(a) \in Seq(S) /\ Canonical(b) \in Seq(S)
  BY <1>2, TextIsSequence
<1>4. UpToArguments(r) \in Seq(S)
  <2>1. <<"intent:">> \o Text(r.intent) \in Seq(S)
    BY <1>1, <1>3, ConcatIsSequence
  <2>2. (<<"intent:">> \o Text(r.intent)) \o <<"|action:">> \in Seq(S)
    BY <1>1, <2>1, ConcatIsSequence
  <2>3. ((<<"intent:">> \o Text(r.intent)) \o <<"|action:">>) \o Text(r.action) \in Seq(S)
    BY <1>3, <2>2, ConcatIsSequence
  <2> QED BY <1>1, <1>3, <2>3, ConcatIsSequence DEF UpToArguments
<1> DEFINE before == UpToArguments(r)
           p == Canonical(a)
           q == Canonical(b)
           l == <<"|evidence:">>
           e == Text(r.evidence)
<1>5. Chain(before, p, l, e, w) = Chain(before, q, l, e, w)
  BY DEF Binding, UpToArguments, Chain, w
<1>6. /\ before \in Seq(S) /\ p \in Seq(S) /\ q \in Seq(S) /\ l \in Seq(S)
      /\ e \in Seq(S) /\ w \in Seq(S)
  BY <1>1, <1>3, <1>4
<1> HIDE DEF before, p, q, l, e
<1>7. p = q
  BY <1>5, <1>6, RestCancels
<1> QED BY <1>7 DEF p, q

(* The arguments a receipt was made for, and others.                       *)
LEMMA TamperedIsRefused ==
    ASSUME NEW job \in Jobs, Sound(job), job.args.id # "v99",
           NEW since \in 0..MaxClock, NEW t \in 0..MaxClock, NEW now \in since..MaxClock,
           NEW call,
           call = [Call(1, Intent(job, since), Issued(job, since, t, now))
                      EXCEPT !.args = [@ EXCEPT !.id = "v99"]]
    PROVE  Refusable(call, BrokerPolicy(GatePolicy(job)), now)
<1> DEFINE receipt == Issued(job, since, t, now)
           policy == BrokerPolicy(GatePolicy(job))
           args == [job.args EXCEPT !.id = "v99"]
<1>1. MaxClock \in Nat /\ now \in -3..MaxClock
  BY SliceAssumption DEF SliceAssumption
<1>2. /\ receipt # None /\ receipt \in ReceiptsOf(job)
      /\ receipt.signature = [key |-> GateKey, over |-> Binding(receipt, job.args)]
  BY <1>1, IssuedReceipt DEF Issued, ReceiptsOf
<1>3. call.receipt = receipt /\ call.tool = "deploy" /\ call.args = args
  BY IntentOfJob DEF Call
<1>4. args.id = "v99" /\ args.quorum = job.args.quorum
  BY AboutJobs
<1>5. ~LacksQuorum("deploy", args)
  BY <1>4 DEF Sound, LacksQuorum
<1>6. /\ IsText(Canonical(job.args)) /\ IsText(Canonical(args))
      /\ Canonical(job.args) # Canonical(args)
  BY TextsOfJob
<1> HIDE DEF receipt, policy, args
<1>7. Binding(receipt, args) # Binding(receipt, job.args)
  BY <1>2, <1>6, TextsOfJob, ArgumentsAreBound
<1>8. ~SignatureMatches(receipt, args, policy)
  BY <1>2, <1>7 DEF SignatureMatches
<1>9. \A at \in Int : VerifyReceipt(receipt, "deploy", args, policy, at) = "Block"
  BY <1>5, <1>8 DEF VerifyReceipt
<1>10. Refusable(call, policy, now)
  BY <1>2, <1>3, <1>9 DEF Refusable
<1> QED BY <1>10 DEF policy

---------------------------------------------------------------------------------
(* The calls of a client that went around the gate.                        *)
LEMMA BypassedCalls ==
    ASSUME NEW job \in Jobs, job.mutation \in Bypassing,
           NEW since \in 0..MaxClock, NEW t \in 0..MaxClock, NEW now \in since..MaxClock,
           NEW receipt,
           receipt = IF job.mutation = "missing_receipt" THEN None
                     ELSE Issued(job, since, t,
                                 IF job.mutation = "expired_receipt" THEN now - 3 ELSE now)
    PROVE  CallsOK(job, <<Call(1, Intent(job, since), receipt)>>, since, now)
<1> DEFINE call == Call(1, Intent(job, since), receipt)
           policy == BrokerPolicy(GatePolicy(job))
<1>1. job.mutation # "replay_attack"
  BY DEF Bypassing
<1>2. job.expected \notin {"RISK_GATE_BLOCK", "2"} \cup Accepting
  BY Labels DEF Bypassing
<1>3. job.expected = "BROKER_BLOCK" => Refusable(call, policy, now)
  BY Labels, BypassedIsRefused
<1> HIDE DEF call, policy
<1>4. Len(<<call>>) = 1 /\ <<call>>[1] = call
  OBVIOUS
<1>5. CallsOK(job, <<call>>, since, now)
  BY <1>1, <1>2, <1>3, <1>4 DEF CallsOK, policy
<1> QED BY <1>5 DEF call

(* The calls of a client whom the gate gave a receipt.                     *)
LEMMA IssuedCalls ==
    ASSUME NEW job \in Jobs, job.mutation \notin Bypassing, ~GateRefuses(job),
           NEW since \in 0..MaxClock, NEW t \in 0..MaxClock, NEW now \in since..MaxClock,
           NEW one, one = Call(1, Intent(job, since), Issued(job, since, t, now)),
           NEW two, two = Call(2, Intent(job, since), Issued(job, since, t, now)),
           NEW altered, altered = [one EXCEPT !.args = [@ EXCEPT !.id = "v99"]],
           NEW calls,
           calls = CASE job.mutation = "replay_attack" -> <<one, two>>
                     [] job.mutation = "tamper_payload_after_receipt" -> <<altered>>
                     [] OTHER -> <<one>>
    PROVE  CallsOK(job, calls, since, now)
<1> DEFINE policy == BrokerPolicy(GatePolicy(job))
<1>1. job.expected \notin {"RISK_GATE_BLOCK", "2"}
  BY Labels
<1>2. Sound(job) => Approvable(one, policy, since, now)
  BY SoundIsApproved
<1>3. job.expected = "BROKER_BLOCK" =>
         /\ job.mutation \in {"tamper_payload_after_receipt", "replay_attack"} /\ Sound(job)
         /\ job.mutation = "tamper_payload_after_receipt" => Refusable(altered, policy, now)
         /\ job.mutation = "replay_attack" => policy.ttl > 0
  <2>1. SUFFICES ASSUME job.expected = "BROKER_BLOCK"
                 PROVE  /\ job.mutation \in {"tamper_payload_after_receipt", "replay_attack"}
                        /\ Sound(job)
                        /\ job.mutation = "tamper_payload_after_receipt" =>
                              Refusable(altered, policy, now)
                        /\ job.mutation = "replay_attack" => policy.ttl > 0
    OBVIOUS
  <2>2. BrokerRefuses(job)
    BY <2>1, Labels
  <2>3. job.mutation \in {"tamper_payload_after_receipt", "replay_attack"} /\ Sound(job)
    BY <2>2 DEF BrokerRefuses, Bypassing
  <2>4. job.mutation = "tamper_payload_after_receipt" => job.args.id # "v99"
    BY <2>2 DEF BrokerRefuses
  <2>5. job.mutation = "tamper_payload_after_receipt" => Refusable(altered, policy, now)
    BY <2>3, <2>4, TamperedIsRefused
  <2>6. job.mutation = "replay_attack" => policy.ttl > 0
    BY <2>2, PoliciesOfJob DEF BrokerRefuses
  <2> QED BY <2>3, <2>5, <2>6
<1>4. job.expected \in Accepting =>
         job.mutation \in {"none", "poisoned_context_valid_intent"} /\ Sound(job)
  BY Labels
<1>5. one.receipt = two.receipt
  BY FieldsOfCall
<1> HIDE DEF policy
<1>6. CASE job.mutation = "replay_attack"
  <2>1. Len(calls) = 2 /\ calls[1] = one /\ calls[2] = two
    BY <1>6
  <2> QED BY <1>1, <1>2, <1>3, <1>4, <1>5, <1>6, <2>1 DEF CallsOK, policy
<1>7. CASE job.mutation = "tamper_payload_after_receipt"
  <2>1. Len(calls) = 1 /\ calls[1] = altered
    BY <1>7
  <2> QED BY <1>1, <1>3, <1>4, <1>7, <2>1 DEF CallsOK, policy
<1>8. CASE job.mutation \notin {"replay_attack", "tamper_payload_after_receipt"}
  <2>1. Len(calls) = 1 /\ calls[1] = one
    BY <1>8
  <2> QED BY <1>1, <1>2, <1>3, <1>4, <1>8, <2>1 DEF CallsOK, policy
<1> QED BY <1>6, <1>7, <1>8

(* The middleware's one call.                                              *)
LEMMA RecordedCalls ==
    ASSUME NEW job \in Jobs, job.program = "sample", NEW since, NEW now, NEW call
    PROVE  CallsOK(job, <<call>>, since, now)
<1>1. job.mutation = "none" /\ job.expected = None
  BY AboutJobs, Labels
<1>2. None \notin Accepting \cup {"RISK_GATE_BLOCK", "2", "BROKER_BLOCK"}
  BY Labels, <1>1
<1>3. Len(<<call>>) = 1
  OBVIOUS
<1> QED BY <1>1, <1>2, <1>3 DEF CallsOK

(* What is said of calls is true of them later.                            *)
LEMMA CallsLater ==
    ASSUME NEW job, NEW calls, NEW since \in Int, NEW now \in Int, NEW later \in Int,
           now <= later, CallsOK(job, calls, since, now)
    PROVE  CallsOK(job, calls, since, later)
<1>1. ASSUME NEW call, NEW policy, Refusable(call, policy, now)
      PROVE  Refusable(call, policy, later)
  <2>1. \A at \in Int : at >= later => at >= now
    OBVIOUS
  <2> QED BY <1>1, <2>1 DEF Refusable
<1>2. ASSUME NEW call, NEW policy, Approvable(call, policy, since, now)
      PROVE  Approvable(call, policy, since, later)
  <2>1. \A at \in Int : at >= later => at >= now
    OBVIOUS
  <2> QED BY <1>2, <2>1 DEF Approvable
<1> QED BY <1>1, <1>2 DEF CallsOK

(* The verdicts of a broker that runs under the policy of its job.         *)
LEMMA VerdictRefused ==
    ASSUME NEW call, NEW policy, broker.policy = policy, clock \in Int,
           Refusable(call, policy, clock)
    PROVE  Verdict(call) = "Block"
<1>1. call.receipt # None =>
         VerifyReceipt(call.receipt, call.tool, call.args, policy, clock) = "Block"
  BY DEF Refusable
<1> QED BY <1>1 DEF Refusable, Verdict

LEMMA VerdictApproved ==
    ASSUME NEW call, NEW policy, NEW since, broker.policy = policy, broker.held = {},
           clock \in Int, clock - since <= policy.ttl, Approvable(call, policy, since, clock)
    PROVE  Verdict(call) = "Allow"
<1>1. /\ call.receipt # None
      /\ VerifyReceipt(call.receipt, call.tool, call.args, policy, clock) = "Allow"
  BY DEF Approvable
<1> QED BY <1>1 DEF Verdict

LEMMA VerdictHeld ==
    ASSUME NEW call, call.receipt # None,
           \E h \in broker.held : h.intent = call.receipt.intent
    PROVE  Verdict(call) = "Block"
  BY DEF Verdict

(* What is approved under a ttl is held.                                   *)
LEMMA ApprovedIsHeld ==
    ASSUME NEW call, Verdict(call) = "Allow", call.receipt # None,
           call.receipt.timestamp \in Int, clock \in Int,
           broker.policy.ttl \in Int, broker.policy.ttl > 0
    PROVE  \E h \in Hold(call.receipt) : h.intent = call.receipt.intent
<1> DEFINE receipt == call.receipt
           entry == [intent |-> receipt.intent, at |-> receipt.timestamp]
<1>1. VerifyReceipt(receipt, call.tool, call.args, broker.policy, clock) = "Allow"
  BY DEF Verdict
<1>2. IsFresh(receipt, broker.policy.ttl, clock)
  BY <1>1 DEF VerifyReceipt
<1>3. entry.at >= clock - broker.policy.ttl
  BY <1>2 DEF IsFresh
<1>4. entry \in Hold(receipt)
  BY <1>3 DEF Hold
<1> QED BY <1>4

---------------------------------------------------------------------------------
(* The pipes as sets of lines.                                             *)
Contents(p, b, t, f, c) ==
    /\ LinesIn(p.toBroker) = b /\ LinesIn(p.toTool) = t
    /\ LinesIn(p.fromTool) = f /\ LinesIn(p.toClient) = c

LEMMA ContentsOf ==
    ASSUME NEW line
    PROVE  /\ Contents(NoLines, {}, {}, {}, {})
           /\ Contents(ToBroker(line), {line}, {}, {}, {})
           /\ Contents(ToTool(line), {}, {line}, {}, {})
           /\ Contents(FromTool(line), {}, {}, {line}, {})
           /\ Contents(ToClient(line), {}, {}, {}, {line})
<1>1. LinesIn(<<>>) = {} /\ LinesIn(<<line>>) = {line}
  BY DEF LinesIn
<1>2. ASSUME NEW p, NEW b, NEW t, NEW f, NEW c,
             p = [toBroker |-> b, toTool |-> t, fromTool |-> f, toClient |-> c]
      PROVE  Contents(p, LinesIn(b), LinesIn(t), LinesIn(f), LinesIn(c))
  BY <1>2 DEF Contents
<1>3. /\ Contents(NoLines, LinesIn(<<>>), LinesIn(<<>>), LinesIn(<<>>), LinesIn(<<>>))
      /\ Contents(ToBroker(line), LinesIn(<<line>>), LinesIn(<<>>), LinesIn(<<>>), LinesIn(<<>>))
      /\ Contents(ToTool(line), LinesIn(<<>>), LinesIn(<<line>>), LinesIn(<<>>), LinesIn(<<>>))
      /\ Contents(FromTool(line), LinesIn(<<>>), LinesIn(<<>>), LinesIn(<<line>>), LinesIn(<<>>))
      /\ Contents(ToClient(line), LinesIn(<<>>), LinesIn(<<>>), LinesIn(<<>>), LinesIn(<<line>>))
  BY <1>2, PipeFields
<1> QED BY <1>1, <1>3

(* Where the line is, if there is one.                                     *)
LEMMA WhereTheLineIs ==
    ASSUME SliceInv
    PROVE  /\ pipes.toBroker # <<>> =>
                 \E line : pipes = ToBroker(line) /\ line.n \in Awaited \cup Abandoned
           /\ pipes.toTool # <<>> =>
                 \E line : pipes = ToTool(line) /\ line.n \in Awaited \cup Abandoned
           /\ pipes.fromTool # <<>> =>
                 \E line \in Answers : /\ pipes = FromTool(line) /\ line.is # "end"
                                      /\ line.n \in Awaited \cup Abandoned
           /\ pipes.toClient # <<>> =>
                 \E line \in Answers : /\ pipes = ToClient(line) /\ line.is # "end"
                                      /\ line.n \in Awaited
<1> DEFINE awaited == Awaited
           abandoned == Abandoned
<1>1. LinesOK(pipes, awaited, abandoned)
  BY DEF SliceInv, LineInv
<1> HIDE DEF awaited, abandoned
<1>2. /\ pipes.toBroker # <<>> =>
            \E line : pipes = ToBroker(line) /\ line.n \in awaited \cup abandoned
      /\ pipes.toTool # <<>> =>
            \E line : pipes = ToTool(line) /\ line.n \in awaited \cup abandoned
      /\ pipes.fromTool # <<>> =>
            \E line \in Answers : /\ pipes = FromTool(line) /\ line.is # "end"
                                 /\ line.n \in awaited \cup abandoned
      /\ pipes.toClient # <<>> =>
            \E line \in Answers : /\ pipes = ToClient(line) /\ line.is # "end"
                                 /\ line.n \in awaited
  BY <1>1, WhichLine
<1> QED BY <1>2 DEF awaited, abandoned

(* No line is left where nobody waits, unless the broker is dead.          *)
LEMMA NobodyWaits ==
    ASSUME SliceInv, pc # "read", broker.state # "dead"
    PROVE  pipes = NoLines
  BY DEF SliceInv, LineInv, LinesOK, Awaited, Abandoned

(* What each step does with the lines.                                     *)
Unmoved == UNCHANGED <<Asked, Sending, Given, Returned>>

LEMMA PipesStay == UNCHANGED pipes => Unmoved
  BY DEF Unmoved, Asked, Sending, Given, Returned

LEMMA HandleLines ==
    ASSUME SliceInv, BrokerHandles
    PROVE  \E line :
              /\ pc = "read" /\ broker.state = "up" /\ line.n = NextCall
              /\ Asked = {line} /\ Sending = {} /\ Given = {} /\ Returned = {}
              /\ Asked' = {} /\ Given' = {}
              /\ \/ /\ Verdict(line) = "Allow" /\ Sending' = {line} /\ Returned' = {}
                    /\ broker' = [broker EXCEPT !.held = Hold(line.receipt)]
                 \/ /\ Verdict(line) # "Allow" /\ UNCHANGED broker /\ Sending' = {}
                    /\ Returned' = {[n |-> line.n,
                           is |-> IF Verdict(line) = "Suspend" THEN "suspended" ELSE "error"]}
<1>1. broker.state = "up" /\ pipes.toBroker # <<>>
  BY DEF BrokerHandles
<1>2. PICK line : pipes = ToBroker(line) /\ line.n \in Awaited \cup Abandoned
  BY <1>1, WhereTheLineIs
<1>3. pc = "read" /\ line.n = NextCall
  BY <1>1, <1>2 DEF Awaited, Abandoned
<1>4. Head(pipes.toBroker) = line
  BY <1>2, FirstLine
<1> DEFINE answer == [n |-> line.n,
                      is |-> IF Verdict(line) = "Suspend" THEN "suspended" ELSE "error"]
<1>5. \/ /\ Verdict(line) = "Allow" /\ pipes' = Forward(pipes, line)
         /\ broker' = [broker EXCEPT !.held = Hold(line.receipt)]
      \/ /\ Verdict(line) # "Allow" /\ UNCHANGED broker
         /\ pipes' = Refuse(pipes, answer)
  BY <1>4 DEF BrokerHandles, Forward, Refuse
<1> HIDE DEF answer
<1>6. Asked = {line} /\ Sending = {} /\ Given = {} /\ Returned = {}
  BY <1>2, ContentsOf DEF Contents, Asked, Sending, Given, Returned
<1>7. CASE Verdict(line) = "Allow"
  <2>1. pipes' = ToTool(line)
    BY <1>2, <1>5, <1>7, Moves
  <2>2. Asked' = {} /\ Sending' = {line} /\ Given' = {} /\ Returned' = {}
    BY <2>1, ContentsOf DEF Contents, Asked, Sending, Given, Returned
  <2> QED BY <1>1, <1>3, <1>5, <1>6, <1>7, <2>2
<1>8. CASE Verdict(line) # "Allow"
  <2>1. pipes' = ToClient(answer)
    BY <1>2, <1>5, <1>8, Moves
  <2>2. Asked' = {} /\ Sending' = {} /\ Given' = {} /\ Returned' = {answer}
    BY <2>1, ContentsOf DEF Contents, Asked, Sending, Given, Returned
  <2> QED BY <1>1, <1>3, <1>5, <1>6, <1>8, <2>2 DEF answer
<1> QED BY <1>7, <1>8

LEMMA ToolLines ==
    ASSUME SliceInv, ToolAnswers
    PROVE  \E line :
              /\ Asked = {} /\ Sending = {line} /\ Given = {} /\ Returned = {}
              /\ Asked' = {} /\ Sending' = {} /\ Returned' = {}
              /\ Given' = {[n |-> line.n, is |-> "result"]}
              /\ deployed' = Append(deployed, line)
<1>1. PICK line : pipes = ToTool(line)
  BY WhereTheLineIs DEF ToolAnswers
<1>2. Head(pipes.toTool) = line
  BY <1>1, FirstLine
<1> DEFINE answer == [n |-> line.n, is |-> "result"]
<1>3. pipes' = Respond(pipes, answer) /\ deployed' = Append(deployed, line)
  BY <1>2 DEF ToolAnswers, Respond
<1> HIDE DEF answer
<1>4. pipes' = FromTool(answer)
  BY <1>1, <1>3, Moves
<1>5. Asked = {} /\ Sending = {line} /\ Given = {} /\ Returned = {}
  BY <1>1, ContentsOf DEF Contents, Asked, Sending, Given, Returned
<1>6. Asked' = {} /\ Sending' = {} /\ Given' = {answer} /\ Returned' = {}
  BY <1>4, ContentsOf DEF Contents, Asked, Sending, Given, Returned
<1> QED BY <1>3, <1>5, <1>6 DEF answer

LEMMA RelayLines ==
    ASSUME SliceInv, RelayAnswer
    PROVE  \E line :
              /\ Asked = {} /\ Sending = {} /\ Given = {line} /\ Returned = {}
              /\ Asked' = {} /\ Sending' = {} /\ Given' = {} /\ Returned' = {line}
<1>1. PICK line : pipes = FromTool(line)
  BY WhereTheLineIs DEF RelayAnswer
<1>2. Head(pipes.fromTool) = line
  BY <1>1, FirstLine
<1>3. pipes' = Relay(pipes, line)
  BY <1>2 DEF RelayAnswer, Relay
<1>4. pipes' = ToClient(line)
  BY <1>1, <1>3, Moves
<1>5. Asked = {} /\ Sending = {} /\ Given = {line} /\ Returned = {}
  BY <1>1, ContentsOf DEF Contents, Asked, Sending, Given, Returned
<1>6. Asked' = {} /\ Sending' = {} /\ Given' = {} /\ Returned' = {line}
  BY <1>4, ContentsOf DEF Contents, Asked, Sending, Given, Returned
<1> QED BY <1>5, <1>6

LEMMA SpawnLines ==
    ASSUME Spawn
    PROVE  Asked' = {} /\ Sending' = {} /\ Given' = {} /\ Returned' = {}
<1>1. pipes' = NoLines
  BY DEF Spawn
<1> QED BY <1>1, ContentsOf DEF Contents, Asked, Sending, Given, Returned

LEMMA WriteLines ==
    ASSUME SliceInv, WriteCall
    PROVE  \/ pc' = "crashed" /\ Unmoved
           \/ /\ pc' = "read"
              /\ Asked = {} /\ Sending = {} /\ Given = {} /\ Returned = {}
              /\ Asked' = {work.calls[NextCall]}
              /\ Sending' = {} /\ Given' = {} /\ Returned' = {}
<1>1. CASE broker.state = "dead"
  BY <1>1, PipesStay DEF WriteCall
<1>2. CASE broker.state # "dead"
  <2> DEFINE call == work.calls[NextCall]
  <2>1. pc = "write" /\ pc' = "read" /\ pipes' = Write(pipes, call)
    BY <1>2 DEF WriteCall, Write
  <2> HIDE DEF call
  <2>2. pipes = NoLines
    BY <1>2, <2>1, NobodyWaits
  <2>3. pipes' = ToBroker(call)
    BY <2>1, <2>2, Moves
  <2>4. Asked = {} /\ Sending = {} /\ Given = {} /\ Returned = {}
    BY <2>2, ContentsOf DEF Contents, Asked, Sending, Given, Returned
  <2>5. Asked' = {call} /\ Sending' = {} /\ Given' = {} /\ Returned' = {}
    BY <2>3, ContentsOf DEF Contents, Asked, Sending, Given, Returned
  <2> QED BY <2>1, <2>4, <2>5 DEF call
<1> QED BY <1>1, <1>2

LEMMA ReadLines ==
    ASSUME SliceInv, ReadAnswer
    PROVE  \E line \in Answers :
              /\ line.n = NextCall
              /\ work' = [work EXCEPT !.answers = Append(@, line)]
              /\ \/ /\ Asked = {} /\ Sending = {} /\ Given = {} /\ Returned = {line}
                    /\ Asked' = {} /\ Sending' = {} /\ Given' = {} /\ Returned' = {}
                 \/ faulted /\ line.is = "end" /\ Unmoved
<1>0. pc = "read" /\ Awaited = {NextCall}
  BY DEF ReadAnswer, Awaited
<1>1. CASE /\ pipes.toClient # <<>>
           /\ work' = [work EXCEPT !.answers = Append(@, Head(pipes.toClient))]
           /\ pipes' = [pipes EXCEPT !.toClient = Tail(@)]
  <2>1. PICK line \in Answers : pipes = ToClient(line) /\ line.n = NextCall
    BY <1>0, <1>1, WhereTheLineIs
  <2>2. Head(pipes.toClient) = line
    BY <2>1, FirstLine
  <2>3. pipes' = Read(pipes)
    BY <1>1 DEF Read
  <2>4. pipes' = NoLines
    BY <2>1, <2>3, Moves
  <2>5. Asked = {} /\ Sending = {} /\ Given = {} /\ Returned = {line}
    BY <2>1, ContentsOf DEF Contents, Asked, Sending, Given, Returned
  <2>6. Asked' = {} /\ Sending' = {} /\ Given' = {} /\ Returned' = {}
    BY <2>4, ContentsOf DEF Contents, Asked, Sending, Given, Returned
  <2> QED BY <1>1, <2>1, <2>2, <2>5, <2>6
<1>2. CASE /\ pipes.toClient = <<>> /\ broker.state = "dead"
           /\ work' = [work EXCEPT !.answers = Append(@, [n |-> NextCall, is |-> "end"])]
           /\ UNCHANGED pipes
  <2>1. NextCall \in Nat
    BY <1>0, AwaitedIsNat
  <2>2. [n |-> NextCall, is |-> "end"] \in Answers
    BY <2>1 DEF Answers
  <2>3. faulted
    BY <1>0, <1>2 DEF SliceInv, ProcessInv
  <2> QED BY <1>2, <2>2, <2>3, PipesStay
<1> QED BY <1>1, <1>2 DEF ReadAnswer

---------------------------------------------------------------------------------
IsJoin(r, s, t) ==
    /\ Len(r) = Len(s) + Len(t)
    /\ \A k \in 1..(Len(s) + Len(t)) : r[k] = IF k <= Len(s) THEN s[k] ELSE t[k - Len(s)]

LEMMA Joined ==
    ASSUME NEW S, NEW s \in Seq(S), NEW t \in Seq(S)
    PROVE  s \o t \in Seq(S) /\ IsJoin(s \o t, s, t)
  BY ConcatProperties DEF IsJoin

(* The first job of a list moves to the end of what is done.               *)
LEMMA NextJob ==
    ASSUME NEW S, NEW done \in Seq(S), NEW J, NEW left \in Seq(J), left # <<>>,
           NEW x, x.job = Head(left)
    PROVE  [k \in 1..Len(done) |-> done[k].job] \o left
              = [k \in 1..Len(Append(done, x)) |-> Append(done, x)[k].job] \o Tail(left)
<1> DEFINE U == {done[k].job : k \in 1..Len(done)} \cup {x.job} \cup J
           before == [k \in 1..Len(done) |-> done[k].job]
           more == Append(done, x)
           after == [k \in 1..Len(more) |-> more[k].job]
           rest == Tail(left)
<1>1. Len(done) \in Nat /\ Len(left) \in Nat /\ Len(left) > 0
  OBVIOUS
<1>2. /\ Len(more) = Len(done) + 1 /\ more[Len(done) + 1] = x
      /\ \A k \in 1..Len(done) : more[k] = done[k]
  OBVIOUS
<1>3. /\ rest \in Seq(J) /\ Len(rest) = Len(left) - 1 /\ x.job = left[1]
      /\ \A k \in 1..Len(rest) : rest[k] = left[k + 1]
  OBVIOUS
<1>4. before \in Seq(U) /\ Len(before) = Len(done)
      /\ \A k \in 1..Len(done) : before[k] = done[k].job
  OBVIOUS
<1> HIDE DEF more, rest
<1>5. /\ after \in Seq(U) /\ Len(after) = Len(done) + 1
      /\ \A k \in 1..Len(done) : after[k] = done[k].job
      /\ after[Len(done) + 1] = left[1]
  <2>1. \A k \in 1..Len(more) : more[k].job \in U
    BY <1>1, <1>2
  <2>2. after \in Seq(U) /\ Len(after) = Len(done) + 1
    <3>1. Len(more) \in Nat
      BY <1>1, <1>2
    <3> HIDE DEF U
    <3> QED BY <1>2, <2>1, <3>1
  <2> QED BY <1>1, <1>2, <1>3, <2>2
<1> HIDE DEF before, after
<1> DEFINE one == before \o left
           two == after \o rest
<1>6. /\ one \in Seq(U) /\ Len(one) = Len(done) + Len(left)
      /\ \A k \in 1..Len(one) : one[k] = IF k <= Len(before) THEN before[k]
                                         ELSE left[k - Len(before)]
  <2>1. before \in Seq(U) /\ left \in Seq(U)
    BY <1>4
  <2>2. Len(before) + Len(left) = Len(done) + Len(left)
    BY <1>4
  <2> HIDE DEF U, one
  <2>3. one = before \o left
    BY DEF one
  <2>4. one \in Seq(U) /\ IsJoin(one, before, left)
    BY <2>1, <2>3, Joined, Zenon
  <2> QED BY <2>2, <2>4 DEF IsJoin
<1>7. /\ two \in Seq(U) /\ Len(two) = Len(done) + Len(left)
      /\ \A k \in 1..Len(two) : two[k] = IF k <= Len(after) THEN after[k]
                                         ELSE rest[k - Len(after)]
  <2>1. after \in Seq(U) /\ rest \in Seq(U)
    BY <1>3, <1>5
  <2>2. Len(after) + Len(rest) = Len(done) + Len(left)
    BY <1>1, <1>3, <1>5
  <2> HIDE DEF U, two
  <2>3. two = after \o rest
    BY DEF two
  <2>4. two \in Seq(U) /\ IsJoin(two, after, rest)
    BY <2>1, <2>3, Joined, Zenon
  <2> QED BY <2>2, <2>4 DEF IsJoin
<1> HIDE DEF one, two, U
<1>8. ASSUME NEW k \in 1..Len(one) PROVE one[k] = two[k]
  <2>0. k \in Int /\ Len(before) = Len(done) /\ Len(after) = Len(done) + 1
    BY <1>1, <1>4, <1>5, <1>6
  <2>1. CASE k <= Len(done)
    <3>1. one[k] = before[k] /\ two[k] = after[k] /\ k \in 1..Len(done)
      BY <1>1, <1>6, <1>7, <2>0, <2>1
    <3> QED BY <1>4, <1>5, <3>1
  <2>2. CASE k = Len(done) + 1
    BY <1>1, <1>4, <1>5, <1>6, <1>7, <2>2
  <2>3. CASE k > Len(done) + 1
    <3>1. one[k] = left[k - Len(done)]
      BY <1>1, <1>4, <1>6, <2>3
    <3>2. two[k] = rest[k - (Len(done) + 1)]
      BY <1>1, <1>5, <1>6, <1>7, <2>3
    <3>3. k - (Len(done) + 1) \in 1..Len(rest) /\ k - (Len(done) + 1) + 1 = k - Len(done)
      BY <1>1, <1>3, <1>6, <2>3
    <3> QED BY <1>3, <3>1, <3>2, <3>3
  <2> QED BY <1>1, <2>0, <2>1, <2>2, <2>3
<1>9. one = two
  BY <1>6, <1>7, <1>8, SeqEqual
<1> QED BY <1>9 DEF one, two, before, after, more, rest

(* The client's step that ends a job, and all the other steps.             *)
LEMMA ReportSuite ==
    ASSUME SuiteInv, pc # "done", NEW actual, Report(actual)
    PROVE  /\ \E S : results' \in Seq(S)
           /\ todo' \in Seq(Jobs)
           /\ \E suite \in Suites : suite = [k \in 1..Len(results') |-> results'[k].job] \o todo'
           /\ pc' \in {"start", "done"} /\ (pc' = "done" <=> todo' = <<>>)
           /\ work'.answers = <<>>
<1> DEFINE x == [job |-> Job, actual |-> actual, deployed |-> deployed, faulted |-> faulted,
                 answers |-> work.answers,
                 timely |-> clock - work.since <= GatePolicy(Job).ttl]
<1>1. results' = Append(results, x) /\ todo' = Tail(todo) /\ x.job = Head(todo)
      /\ pc' = IF todo' = <<>> THEN "done" ELSE "start"
  BY DEF Report, Job
<1>2. PICK S : results \in Seq(S)
  BY DEF SuiteInv
<1>3. todo \in Seq(Jobs) /\ todo # <<>>
  BY DEF SuiteInv
<1> HIDE DEF x
<1>4. Append(results, x) \in Seq(S \cup {x}) /\ Tail(todo) \in Seq(Jobs)
  BY <1>2, <1>3
<1>5. PICK suite \in Suites : suite = [k \in 1..Len(results) |-> results[k].job] \o todo
  BY DEF SuiteInv
<1>6. suite = [k \in 1..Len(Append(results, x)) |-> Append(results, x)[k].job] \o Tail(todo)
  BY <1>1, <1>2, <1>3, <1>5, NextJob
<1>7. work'.answers = <<>>
  BY NoWorkFields DEF Report
<1> QED BY <1>1, <1>4, <1>5, <1>6, <1>7

LEMMA SuiteStep ==
    ASSUME SuiteInv, ClockInv, SliceInv, [Next]_vars
    PROVE  SuiteInv'
<1>1. CASE EvaluateRefuses \/ Communicate
  <2>1. PICK actual : Report(actual)
    BY <1>1 DEF EvaluateRefuses, Communicate
  <2>2. pc # "done" /\ UNCHANGED tool
    BY <1>1 DEF EvaluateRefuses, Communicate
  <2> QED BY <2>1, <2>2, ReportSuite DEF SuiteInv, Before
<1>2. CASE ~(EvaluateRefuses \/ Communicate)
  <2>1. /\ UNCHANGED <<todo, results>> /\ (pc' = "done" <=> pc = "done")
        /\ pc' \in Running \cup Before \cup {"done"} /\ tool' \in {"none", "up", "dead"}
    <3>1. CASE Client
      BY <1>2, <3>1 DEF SuiteInv, Client, MakeIntent, CollectEvidence, EvaluateAccepts, IssueReceipt,
         BypassGate, SendRecorded, Spawn, WriteCall, ReadAnswer, Terminate,
         CommunicateTimesOut, processes, Running, Waiting, Before
    <3>2. CASE BrokerProcess \/ ToolProcess \/ ToolFails \/ BrokerFails \/ Tick
      BY <3>2 DEF SuiteInv, BrokerProcess, ToolProcess, Launch, BrokerHandles, RelayAnswer,
         BrokerEnds, ToolAnswers, ToolEnds, ToolFails, BrokerFails, Tick, client, processes
    <3>3. CASE UNCHANGED vars
      BY <3>3 DEF SuiteInv, vars
    <3> QED BY <3>1, <3>2, <3>3 DEF Next
  <2>2. pc = "done" => UNCHANGED work
    BY <1>2 DEF Next, Client, MakeIntent, CollectEvidence, EvaluateAccepts, IssueReceipt,
       BypassGate, SendRecorded, Spawn, WriteCall, ReadAnswer, Terminate,
       CommunicateTimesOut, BrokerProcess, ToolProcess, Launch, BrokerHandles, RelayAnswer,
       BrokerEnds, ToolAnswers, ToolEnds, ToolFails, BrokerFails, Tick, client, vars
  <2> QED BY <2>1, <2>2 DEF SuiteInv
<1> QED BY <1>1, <1>2

LEMMA ClockStep ==
    ASSUME ClockInv, SliceInv, [Next]_vars
    PROVE  ClockInv' /\ clock <= clock' /\ clock \in Int /\ clock' \in Int
<1>1. MaxClock \in Nat
  BY SliceAssumption DEF SliceAssumption
<1>2. CASE Tick
  BY <1>1, <1>2 DEF ClockInv, Tick, client
<1>3. CASE MakeIntent \/ SendRecorded
  <2>1. UNCHANGED clock /\ work'.since = clock
    BY <1>3 DEF MakeIntent, SendRecorded, NoWork
  <2> QED BY <1>1, <2>1 DEF ClockInv
<1>4. CASE EvaluateRefuses \/ Communicate
  <2>1. UNCHANGED clock /\ pc' \in {"start", "done"}
    BY <1>4 DEF EvaluateRefuses, Communicate, Report
  <2> QED BY <1>1, <2>1 DEF ClockInv
<1>5. CASE ~(Tick \/ MakeIntent \/ SendRecorded \/ EvaluateRefuses \/ Communicate)
  <2>1. UNCHANGED clock /\ work'.since = work.since
        /\ (pc \in {"start", "done"} <=> pc' \in {"start", "done"})
    <3>1. CASE CollectEvidence \/ IssueReceipt \/ BypassGate \/ ReadAnswer
      <4>1. UNCHANGED clock /\ {pc, pc'} \cap {"start", "done"} = {}
        BY <3>1 DEF CollectEvidence, IssueReceipt, BypassGate, ReadAnswer
      <4>2. work'.since = work.since
        <5>1. CASE CollectEvidence
          BY <5>1 DEF CollectEvidence, SliceInv, Shapes
        <5>2. CASE IssueReceipt
          <6>1. PICK r, cs : work' = [work EXCEPT !.receipt = r, !.calls = cs]
            BY <5>2 DEF IssueReceipt
          <6> QED BY <6>1 DEF SliceInv, Shapes
        <5>3. CASE BypassGate
          BY <5>3 DEF BypassGate, SliceInv, Shapes
        <5>4. CASE ReadAnswer
          BY <5>4 DEF ReadAnswer, SliceInv, Shapes
        <5> QED BY <3>1, <5>1, <5>2, <5>3, <5>4
      <4> QED BY <4>1, <4>2
    <3>2. CASE ~(CollectEvidence \/ IssueReceipt \/ BypassGate \/ ReadAnswer)
      BY <1>5, <3>2 DEF Next, Client, EvaluateAccepts, Spawn, WriteCall, Terminate,
         CommunicateTimesOut, BrokerProcess, ToolProcess, Launch, BrokerHandles, RelayAnswer,
         BrokerEnds, ToolAnswers, ToolEnds, ToolFails, BrokerFails, client, processes, vars
    <3> QED BY <3>1, <3>2
  <2> QED BY <1>1, <2>1 DEF ClockInv
<1> QED BY <1>2, <1>3, <1>4, <1>5

---------------------------------------------------------------------------------
LEMMA JobOfSuite == SuiteInv /\ pc # "done" => Job \in Jobs
<1> SUFFICES ASSUME SuiteInv, pc # "done" PROVE Job \in Jobs
  OBVIOUS
<1>1. todo \in Seq(Jobs) /\ todo # <<>>
  BY DEF SuiteInv
<1> QED BY <1>1 DEF Job

(* A step with which the client goes on with calls it has made.            *)
LEMMA CallsKept ==
    ASSUME MadeInv, pc \in Running \cup {"spawn"}, pc' \in Running,
           UNCHANGED <<clock, todo, policyFile>>,
           work'.calls = work.calls, work'.since = work.since
    PROVE  MadeInv'
<1>1. Job' = Job
  BY DEF Job
<1>2. pc' \notin Before \cup {"done"} /\ pc \notin {"start", "done"}
  BY DEF Running, Waiting, Before
<1>3. CallsOK(Job, work'.calls, work'.since, clock')
  BY DEF MadeInv
<1>4. Job.program # "sample" => policyFile = BrokerPolicy(GatePolicy(Job))
  BY <1>2 DEF MadeInv
<1> QED BY <1>1, <1>2, <1>3, <1>4 DEF MadeInv, Before

(* A step of anyone but the client, and time that passes.                  *)
LEMMA MadeLater ==
    ASSUME MadeInv, ClockInv, ClockInv', UNCHANGED client, clock <= clock'
    PROVE  MadeInv'
<1>1. UNCHANGED <<todo, pc, work, policyFile>> /\ Job' = Job
  BY DEF client, Job
<1>2. clock \in Int /\ clock' \in Int /\ (pc \notin {"start", "done"} => work.since \in Int)
  BY SliceAssumption DEF ClockInv, SliceAssumption
<1>3. pc \in {"evaluate", "issue", "bypass"} =>
         \E t \in work.since..clock' : work.envelope = Collected(Job, t)
  BY <1>2 DEF MadeInv
<1>4. pc \in Running \cup {"spawn"} => CallsOK(Job, work.calls, work.since, clock')
  <2>1. SUFFICES ASSUME pc \in Running \cup {"spawn"}
                 PROVE  CallsOK(Job, work.calls, work.since, clock')
    OBVIOUS
  <2>2. CallsOK(Job, work.calls, work.since, clock) /\ work.since \in Int
    BY <1>2, <2>1 DEF MadeInv, Running, Waiting
  <2> QED BY <1>2, <2>2, CallsLater
<1>5. /\ pc \notin {"start", "done"} /\ Job.program # "sample" =>
            /\ policyFile = BrokerPolicy(GatePolicy(Job))
            /\ pc \in Before => work.intent = Intent(Job, work.since)
      /\ pc \in {"collect", "evaluate", "issue", "bypass"} => Job.program # "sample"
      /\ pc = "bypass" => Job.mutation \in Bypassing
      /\ pc \in {"evaluate", "issue"} => Job.mutation \notin Bypassing
      /\ pc = "issue" => ~GateRefuses(Job)
  BY DEF MadeInv
<1> HIDE DEF MadeInv
<1> QED BY <1>1, <1>3, <1>4, <1>5 DEF MadeInv

(* The client on its way to its calls.                                     *)
LEMMA PreparingMade ==
    ASSUME MadeInv, ClockInv, SuiteInv, SliceInv,
           MakeIntent \/ CollectEvidence \/ EvaluateAccepts
    PROVE  MadeInv'
<1>0. MaxClock \in Nat /\ clock \in 0..MaxClock /\ UNCHANGED clock /\ Job' = Job
  BY SliceAssumption
     DEF SliceAssumption, ClockInv, MakeIntent, CollectEvidence, EvaluateAccepts, Job
<1>1. CASE MakeIntent
  <2>1. /\ pc' = "collect" /\ Job.program # "sample"
        /\ policyFile' = BrokerPolicy(GatePolicy(Job))
        /\ work'.intent = Intent(Job, clock) /\ work'.since = clock
    BY <1>1 DEF MakeIntent, NoWork
  <2> QED BY <1>0, <2>1 DEF MadeInv, Running, Waiting
<1>2. CASE CollectEvidence
  <2>1. /\ pc = "collect" /\ UNCHANGED policyFile
        /\ pc' = IF Job.mutation \in Bypassing THEN "bypass" ELSE "evaluate"
        /\ work' = [work EXCEPT !.envelope = Collected(Job, clock)]
    BY <1>2 DEF CollectEvidence, Collected, Signer
  <2>2. work'.envelope = Collected(Job, clock) /\ work'.intent = work.intent
        /\ work'.since = work.since
    BY <2>1 DEF SliceInv, Shapes
  <2>3. /\ Job.program # "sample" /\ policyFile = BrokerPolicy(GatePolicy(Job))
        /\ work.intent = Intent(Job, work.since) /\ work.since \in 0..clock
    BY <2>1 DEF MadeInv, Before, ClockInv
  <2>4. clock \in work.since..clock
    BY <1>0, <2>3
  <2> QED BY <1>0, <2>1, <2>2, <2>3, <2>4 DEF MadeInv, Running, Waiting
<1>3. CASE EvaluateAccepts
  <2>1. pc = "evaluate" /\ pc' = "issue" /\ ~Refused /\ UNCHANGED <<policyFile, work>>
    BY <1>3 DEF EvaluateAccepts
  <2>2. /\ Job.program # "sample" /\ policyFile = BrokerPolicy(GatePolicy(Job))
        /\ work.intent = Intent(Job, work.since) /\ work.since \in 0..clock
        /\ Job.mutation \notin Bypassing
    BY <2>1 DEF MadeInv, Before, ClockInv
  <2>3. PICK t \in work.since..clock : work.envelope = Collected(Job, t)
    BY <2>1 DEF MadeInv
  <2>4. Accepts(Intent(Job, work.since), Collected(Job, t), GatePolicy(Job), clock)
    BY <2>1, <2>2, <2>3 DEF Refused, Accepts
  <2>5. ~GateRefuses(Job)
    <3>1. Job \in Jobs /\ work.since \in Int /\ clock \in Int
      BY <1>0, <2>1, <2>2, JobOfSuite
    <3> QED BY <2>4, <3>1, GateVerdict
  <2> QED BY <1>0, <2>1, <2>2, <2>3, <2>5 DEF MadeInv, Running, Waiting
<1> QED BY <1>1, <1>2, <1>3

(* The client makes its calls.                                             *)
LEMMA CallsMade ==
    ASSUME MadeInv, ClockInv, SuiteInv, SliceInv, IssueReceipt \/ BypassGate \/ SendRecorded
    PROVE  MadeInv'
<1>0. /\ MaxClock \in Nat /\ clock \in 0..MaxClock /\ Job \in Jobs
      /\ UNCHANGED <<clock, policyFile>> /\ Job' = Job /\ pc' = "spawn"
  BY SliceAssumption, JobOfSuite
     DEF SliceAssumption, ClockInv, IssueReceipt, BypassGate, SendRecorded, Job
<1>1. CASE IssueReceipt
  <2>1. pc = "issue"
    BY <1>1 DEF IssueReceipt
  <2>2. /\ Job.program # "sample" /\ policyFile = BrokerPolicy(GatePolicy(Job))
        /\ work.intent = Intent(Job, work.since) /\ work.since \in 0..clock
        /\ Job.mutation \notin Bypassing /\ ~GateRefuses(Job)
    BY <2>1 DEF MadeInv, Before, ClockInv
  <2>3. PICK t \in work.since..clock : work.envelope = Collected(Job, t)
    BY <2>1 DEF MadeInv
  <2> DEFINE receipt == Issued(Job, work.since, t, clock)
             one == Call(1, Intent(Job, work.since), receipt)
             two == Call(2, Intent(Job, work.since), receipt)
             altered == [one EXCEPT !.args = [@ EXCEPT !.id = "v99"]]
             calls == CASE Job.mutation = "replay_attack" -> <<one, two>>
                        [] Job.mutation = "tamper_payload_after_receipt" -> <<altered>>
                        [] OTHER -> <<one>>
  <2>4. Receipt(work.intent, work.envelope.digest, clock) = receipt
    BY <2>2, <2>3 DEF Issued, Collected, Envelope
  <2>5. work' = [work EXCEPT !.receipt = receipt, !.calls = calls]
    BY <1>1, <2>2, <2>4 DEF IssueReceipt
  <2>6. CallsOK(Job, calls, work.since, clock)
    <3>1. /\ work.since \in 0..MaxClock /\ t \in 0..MaxClock
          /\ clock \in work.since..MaxClock
      BY <1>0, <2>2, <2>3
    <3> DEFINE since == work.since
               now == clock
    <3>2. one = Call(1, Intent(Job, since), Issued(Job, since, t, now))
          /\ two = Call(2, Intent(Job, since), Issued(Job, since, t, now))
      OBVIOUS
    <3> HIDE DEF one, two, since, now
    <3> QED BY <1>0, <2>2, <3>1, <3>2, IssuedCalls DEF since, now
  <2> HIDE DEF calls, receipt
  <2>7. work'.calls = calls /\ work'.since = work.since /\ work'.intent = work.intent
    BY <2>5 DEF SliceInv, Shapes
  <2> QED BY <1>0, <2>2, <2>6, <2>7 DEF MadeInv
<1>2. CASE BypassGate
  <2>1. pc = "bypass"
    BY <1>2 DEF BypassGate
  <2>2. /\ Job.program # "sample" /\ policyFile = BrokerPolicy(GatePolicy(Job))
        /\ work.intent = Intent(Job, work.since) /\ work.since \in 0..clock
        /\ Job.mutation \in Bypassing
    BY <2>1 DEF MadeInv, Before, ClockInv
  <2>3. PICK t \in work.since..clock : work.envelope = Collected(Job, t)
    BY <2>1 DEF MadeInv
  <2> DEFINE at == IF Job.mutation = "expired_receipt" THEN clock - 3 ELSE clock
             receipt == IF Job.mutation = "missing_receipt" THEN None
                        ELSE Issued(Job, work.since, t, at)
             call == Call(1, Intent(Job, work.since), receipt)
  <2>4. receipt = IF Job.mutation = "missing_receipt" THEN None
                  ELSE Receipt(work.intent, work.envelope.digest, at)
    BY <2>2, <2>3 DEF Issued, Collected, Envelope
  <2>5. work' = [work EXCEPT !.receipt = receipt, !.calls = <<call>>]
    BY <1>2, <2>2, <2>4 DEF BypassGate
  <2>6. CallsOK(Job, <<call>>, work.since, clock)
    <3>1. /\ work.since \in 0..MaxClock /\ t \in 0..MaxClock
          /\ clock \in work.since..MaxClock
      BY <1>0, <2>2, <2>3
    <3> QED BY <1>0, <2>2, <3>1, BypassedCalls
  <2> HIDE DEF call, receipt
  <2>7. work'.calls = <<call>> /\ work'.since = work.since /\ work'.intent = work.intent
    BY <2>5 DEF SliceInv, Shapes
  <2> QED BY <1>0, <2>2, <2>6, <2>7 DEF MadeInv
<1>3. CASE SendRecorded
  <2> DEFINE call == Call(1, Intent(Job, 0), Job.receipt)
  <2>1. Job.program = "sample" /\ work'.calls = <<call>>
    BY <1>3 DEF SendRecorded, NoWork
  <2> HIDE DEF call
  <2>2. CallsOK(Job, <<call>>, work'.since, clock)
    BY <1>0, <2>1, RecordedCalls
  <2> QED BY <1>0, <2>1, <2>2 DEF MadeInv
<1> QED BY <1>1, <1>2, <1>3

LEMMA MadeStep ==
    ASSUME MadeInv, ClockInv, SuiteInv, SliceInv, [Next]_vars
    PROVE  MadeInv'
<1>1. CASE MakeIntent \/ CollectEvidence \/ EvaluateAccepts
  BY <1>1, PreparingMade
<1>2. CASE IssueReceipt \/ BypassGate \/ SendRecorded
  BY <1>2, CallsMade
<1>3. CASE EvaluateRefuses \/ Communicate
  <2>1. pc' \in {"start", "done"}
    BY <1>3 DEF EvaluateRefuses, Communicate, Report
  <2> QED BY <2>1 DEF MadeInv, Running, Waiting
<1>4. CASE Spawn \/ WriteCall \/ ReadAnswer \/ Terminate \/ CommunicateTimesOut
  <2>1. /\ pc \in Running \cup {"spawn"} /\ pc' \in Running
        /\ UNCHANGED <<clock, todo, policyFile>>
    BY <1>4 DEF Spawn, WriteCall, ReadAnswer, Terminate, CommunicateTimesOut, Running, Waiting
  <2>2. work'.calls = work.calls /\ work'.since = work.since
    <3>1. CASE ReadAnswer
      BY <3>1 DEF ReadAnswer, SliceInv, Shapes
    <3>2. CASE ~ReadAnswer
      BY <1>4, <3>2 DEF Spawn, WriteCall, Terminate, CommunicateTimesOut
    <3> QED BY <3>1, <3>2
  <2> QED BY <2>1, <2>2, CallsKept
<1>5. CASE BrokerProcess \/ ToolProcess \/ ToolFails \/ BrokerFails \/ Tick \/ UNCHANGED vars
  <2>1. UNCHANGED client
    BY <1>5 DEF BrokerProcess, ToolProcess, Launch, BrokerHandles, RelayAnswer, BrokerEnds,
       ToolAnswers, ToolEnds, ToolFails, BrokerFails, Tick, client, vars
  <2> QED BY <2>1, ClockStep, MadeLater
<1> QED BY <1>1, <1>2, <1>3, <1>4, <1>5 DEF Next, Client

---------------------------------------------------------------------------------
RunningInv == RunInv /\ QuotaInv /\ ShownInv /\ TimelyInv

LEMMA NotRunning ==
    ASSUME pc' \notin Running, deployed' = <<>>
    PROVE  RunningInv'
<1>1. <<>> \in Seq({})
  OBVIOUS
<1> QED BY <1>1 DEF RunningInv, RunInv, QuotaInv, ShownInv, TimelyInv

(* What is known of the numbers a run is about.                            *)
LEMMA Numbers ==
    ASSUME SuiteInv, ClockInv, SliceInv
    PROVE  /\ clock \in Int /\ (pc \in Running => work.since \in Int)
           /\ pc \in Running => Job \in Jobs /\ GatePolicy(Job).ttl \in Int
           /\ Len(work.answers) \in Nat /\ Len(work.calls) \in Nat
<1>1. MaxClock \in Nat
  BY SliceAssumption DEF SliceAssumption
<1>2. pc \in Running => pc \notin {"start", "done"}
  BY DEF Running, Waiting
<1>3. pc \in Running => Job \in Jobs
  BY <1>2, JobOfSuite
<1>4. Len(work.answers) \in Nat /\ Len(work.calls) \in Nat
  BY DEF SliceInv, AnswerInv, CallInv
<1>5. pc \in Running => GatePolicy(Job).ttl \in Int
  BY <1>3, AboutJobs
<1> QED BY <1>1, <1>2, <1>3, <1>4, <1>5 DEF ClockInv

(* A process starts or ends, time passes, or the client gets on with the   *)
(* end of its run.                                                         *)
LEMMA NothingMoves ==
    ASSUME RunningInv, SuiteInv, ClockInv, ClockInv', SliceInv,
           pc \in Running, pc' \in Running,
           pc' \in Ending => pc \in Ending, pc' \in {"write", "read"} => pc' = pc,
           UNCHANGED <<todo, work, pipes, deployed>>, faulted => faulted', clock <= clock',
           broker'.held = broker.held,
           broker'.state = "up" /\ Job.program # "sample" =>
              broker'.policy = BrokerPolicy(GatePolicy(Job))
    PROVE  RunningInv'
<1>1. Job' = Job /\ Unmoved /\ Shown' = Shown
  BY PipesStay DEF Job, Unmoved, Shown
<1>2. RunInv'
  BY <1>1 DEF RunningInv, RunInv, Unmoved
<1>3. QuotaInv'
  BY <1>1 DEF RunningInv, QuotaInv, Unmoved
<1>4. ShownInv'
  BY <1>1 DEF RunningInv, ShownInv, Unmoved
<1>5. TimelyInv'
  <2>1. clock' \in Int
    BY SliceAssumption DEF ClockInv, SliceAssumption
  <2>2. clock' - work.since <= GatePolicy(Job).ttl => clock - work.since <= GatePolicy(Job).ttl
    BY <2>1, Numbers
  <2> QED BY <1>1, <2>2 DEF RunningInv, TimelyInv, Unmoved
<1> QED BY <1>2, <1>3, <1>4, <1>5 DEF RunningInv

LEMMA SpawnRuns ==
    ASSUME RunningInv, SuiteInv, SliceInv, Spawn
    PROVE  RunningInv'
<1>1. /\ pc = "spawn" /\ pc' = "write" /\ UNCHANGED <<todo, work, deployed>>
      /\ broker'.state = "starting" /\ broker'.held = {}
  BY DEF Spawn, NoBroker
<1>2. Asked' = {} /\ Sending' = {} /\ Given' = {} /\ Returned' = {}
  BY SpawnLines
<1>3. work.answers = <<>> /\ Len(work.calls) > 0 /\ Len(work.answers) = 0
  BY <1>1 DEF SliceInv, CallInv, Before
<1>4. Shown' = {}
  BY <1>1, <1>2, <1>3 DEF Shown, LinesIn
<1>5. (\E S : deployed \in Seq(S)) /\ deployed = <<>> /\ Len(deployed) = 0
  BY <1>1 DEF RunningInv, QuotaInv, Running, Waiting
<1>6. RunInv'
  BY <1>1, <1>2, <1>3 DEF RunInv, Ending, SliceInv, CallInv
<1>7. QuotaInv'
  BY <1>1, <1>2, <1>5 DEF QuotaInv
<1>8. ShownInv' /\ TimelyInv'
  BY <1>1, <1>2, <1>4, <1>5 DEF ShownInv, TimelyInv
<1> QED BY <1>6, <1>7, <1>8 DEF RunningInv

LEMMA WriteRuns ==
    ASSUME RunningInv, SuiteInv, ClockInv, ClockInv', SliceInv, WriteCall
    PROVE  RunningInv'
<1>1. /\ pc = "write" /\ pc' \in {"read", "crashed"}
      /\ UNCHANGED <<clock, todo, work, broker, faulted, deployed>>
  BY DEF WriteCall
<1>2. pc \in Running /\ pc' \in Running /\ pc' \notin Ending
  BY <1>1 DEF Running, Waiting, Ending
<1>3. Len(work.answers) < Len(work.calls) /\ NextCall \in 1..Len(work.calls)
  BY <1>1, Numbers DEF SliceInv, CallInv, NextCall
<1>4. CASE pc' = "crashed" /\ Unmoved
  <2>1. RunInv'
    BY <1>1, <1>2, <1>4 DEF RunningInv, RunInv, Unmoved, Job
  <2>2. QuotaInv'
    BY <1>1, <1>2, <1>4 DEF RunningInv, QuotaInv, Unmoved, Job
  <2>3. ShownInv' /\ TimelyInv'
    BY <1>1, <1>2, <1>4 DEF RunningInv, ShownInv, TimelyInv, Unmoved, Job, Shown
  <2> QED BY <2>1, <2>2, <2>3 DEF RunningInv
<1>5. CASE /\ pc' = "read"
           /\ Asked = {} /\ Sending = {} /\ Given = {} /\ Returned = {}
           /\ Asked' = {work.calls[NextCall]}
           /\ Sending' = {} /\ Given' = {} /\ Returned' = {}
  <2>1. work.calls[NextCall].n = NextCall
    BY <1>3 DEF SliceInv, CallInv
  <2>2. RunInv'
    BY <1>1, <1>2, <1>3, <1>5, <2>1 DEF RunningInv, RunInv, Job
  <2>3. QuotaInv'
    BY <1>1, <1>2, <1>5 DEF RunningInv, QuotaInv, Job
  <2>4. ShownInv' /\ TimelyInv'
    BY <1>1, <1>2, <1>5 DEF RunningInv, ShownInv, TimelyInv, Job, Shown
  <2> QED BY <2>2, <2>3, <2>4 DEF RunningInv
<1> QED BY <1>4, <1>5, WriteLines

(* The client takes an answer out of its pipe, or finds the end of it.     *)
LEMMA ReadRuns ==
    ASSUME RunningInv, SuiteInv, ClockInv, SliceInv, ReadAnswer
    PROVE  RunningInv'
<1>1. pc = "read" /\ UNCHANGED <<clock, todo, broker, faulted, deployed>>
  BY DEF ReadAnswer
<1>2. PICK line \in Answers :
         /\ line.n = NextCall
         /\ work' = [work EXCEPT !.answers = Append(@, line)]
         /\ \/ /\ Asked = {} /\ Sending = {} /\ Given = {} /\ Returned = {line}
               /\ Asked' = {} /\ Sending' = {} /\ Given' = {} /\ Returned' = {}
            \/ faulted /\ line.is = "end" /\ Unmoved
  BY ReadLines
<1>3. /\ work'.answers = Append(work.answers, line)
      /\ work'.calls = work.calls /\ work'.since = work.since
  BY <1>2 DEF SliceInv, Shapes
<1>4. /\ work.answers \in Seq(Answers) /\ Len(work'.answers) = Len(work.answers) + 1
      /\ work'.answers # <<>>
  BY <1>3 DEF SliceInv, AnswerInv
<1>5. LinesIn(work'.answers) = LinesIn(work.answers) \cup {line}
  <2> DEFINE old == work.answers
             new == Append(old, line)
  <2>1. /\ DOMAIN old = 1..Len(old) /\ DOMAIN new = 1..(Len(old) + 1) /\ Len(old) \in Nat
        /\ new[Len(old) + 1] = line /\ \A k \in 1..Len(old) : new[k] = old[k]
    BY <1>4
  <2>2. work'.answers = new
    BY <1>3
  <2> HIDE DEF old, new
  <2>3. LinesIn(new) = LinesIn(old) \cup {line}
    BY <2>1 DEF LinesIn
  <2> QED BY <2>2, <2>3 DEF old
<1>6. Len(work.answers) < Len(work.calls) /\ pc \in Running
  BY <1>1 DEF RunningInv, RunInv, Running, Waiting
<1>7. /\ pc' = IF Len(work'.answers) < Len(work.calls) THEN "write" ELSE "terminate"
      /\ pc' \in Running
  <2>1. pc' = IF Len(work'.answers) < Len(work.calls) THEN "write" ELSE "terminate"
    BY DEF ReadAnswer
  <2> QED BY <2>1 DEF Running, Waiting
<1>8. Job' = Job
  BY <1>1 DEF Job
<1>9. RunInv'
  <2>1. \A x : x \in Asked' \cup Sending' => x \in Asked \cup Sending
    BY <1>2 DEF Unmoved
  <2>2. /\ Len(work'.answers) <= Len(work'.calls)
        /\ pc' \in {"write", "read"} => Len(work'.answers) < Len(work'.calls)
        /\ pc' \in Ending => Len(work'.answers) = Len(work'.calls)
    BY <1>3, <1>4, <1>6, <1>7, Numbers DEF Ending
  <2>3. \A x \in Asked \cup Sending :
           x.n \in 1..Len(work.calls) /\ x = work.calls[x.n]
    BY <1>6 DEF RunningInv, RunInv
  <2>4. broker.state = "up" /\ Job.program # "sample" =>
           broker.policy = BrokerPolicy(GatePolicy(Job))
    BY <1>6 DEF RunningInv, RunInv
  <2> QED BY <1>1, <1>3, <1>4, <1>8, <2>1, <2>2, <2>3, <2>4 DEF RunInv
<1>10. QuotaInv'
  <2>1. Sending' = Sending
    BY <1>2 DEF Unmoved
  <2> QED BY <1>1, <1>3, <1>6, <1>7, <1>8, <2>1 DEF RunningInv, QuotaInv
<1>11. ShownInv' /\ TimelyInv'
  <2>1. CASE /\ Asked = {} /\ Sending = {} /\ Given = {} /\ Returned = {line}
             /\ Asked' = {} /\ Sending' = {} /\ Given' = {} /\ Returned' = {}
    <3>1. Shown' = Shown
      BY <1>5, <2>1 DEF Shown
    <3> QED BY <1>1, <1>3, <1>6, <1>7, <1>8, <2>1, <3>1 DEF RunningInv, ShownInv, TimelyInv
  <2>2. CASE faulted /\ line.is = "end" /\ Unmoved
    <3>1. Shown' = Shown \cup {line}
      BY <1>5, <2>2 DEF Shown, Unmoved
    <3>2. (\E x \in Shown' : x.is = "result") => \E x \in Shown : x.is = "result"
      BY <2>2, <3>1
    <3> QED BY <1>1, <1>6, <2>2, <3>2 DEF RunningInv, ShownInv, TimelyInv
  <2> QED BY <1>2, <2>1, <2>2
<1> QED BY <1>9, <1>10, <1>11 DEF RunningInv

---------------------------------------------------------------------------------
LEMMA RelayRuns ==
    ASSUME RunningInv, SuiteInv, ClockInv, SliceInv, RelayAnswer, pc \in Running
    PROVE  RunningInv'
<1>1. UNCHANGED <<clock, pc, todo, work, broker, faulted, deployed>>
  BY DEF RelayAnswer, client
<1>2. PICK line :
         /\ Asked = {} /\ Sending = {} /\ Given = {line} /\ Returned = {}
         /\ Asked' = {} /\ Sending' = {} /\ Given' = {} /\ Returned' = {line}
  BY RelayLines
<1>3. Shown' = Shown /\ Job' = Job
  BY <1>1, <1>2 DEF Shown, Job
<1>4. RunInv'
  BY <1>1, <1>2, <1>3 DEF RunningInv, RunInv
<1>5. QuotaInv'
  BY <1>1, <1>2, <1>3 DEF RunningInv, QuotaInv
<1>6. ShownInv' /\ TimelyInv'
  BY <1>1, <1>2, <1>3 DEF RunningInv, ShownInv, TimelyInv
<1> QED BY <1>4, <1>5, <1>6 DEF RunningInv

(* The tool executes the call it is sent.                                  *)
LEMMA ToolRuns ==
    ASSUME RunningInv, SuiteInv, ClockInv, SliceInv, ToolAnswers, pc \in Running
    PROVE  RunningInv'
<1>1. UNCHANGED <<clock, pc, todo, work, broker, faulted>>
  BY DEF ToolAnswers, client
<1>2. PICK line :
         /\ Asked = {} /\ Sending = {line} /\ Given = {} /\ Returned = {}
         /\ Asked' = {} /\ Sending' = {} /\ Returned' = {}
         /\ Given' = {[n |-> line.n, is |-> "result"]}
         /\ deployed' = Append(deployed, line)
  BY ToolLines
<1> DEFINE answer == [n |-> line.n, is |-> "result"]
<1>3. Given' = {answer} /\ answer.n = line.n /\ answer.is = "result"
  BY <1>2
<1> HIDE DEF answer
<1>4. Shown' = Shown \cup {answer} /\ Job' = Job
  BY <1>1, <1>2, <1>3 DEF Shown, Job
<1>5. PICK S : deployed \in Seq(S)
  BY DEF RunningInv, QuotaInv
<1>6. /\ deployed' \in Seq(S \cup {line}) /\ deployed' # <<>>
      /\ Len(deployed') = Len(deployed) + 1 /\ (deployed = <<>> => Len(deployed) = 0)
  BY <1>2, <1>5
<1>7. RunInv'
  BY <1>1, <1>2, <1>3, <1>4 DEF RunningInv, RunInv
<1>8. QuotaInv'
  <2>1. Job.expected = "BROKER_BLOCK" =>
           /\ Job.mutation = "replay_attack" /\ deployed = <<>>
           /\ \E h \in broker.held : h.intent = work.calls[1].receipt.intent
    BY <1>2 DEF RunningInv, QuotaInv
  <2>2. \E T : deployed' \in Seq(T)
    BY <1>6
  <2>3. Job.expected = "BROKER_BLOCK" => Len(deployed') <= 1
    BY <1>6, <2>1
  <2> QED BY <1>1, <1>2, <1>4, <2>1, <2>2, <2>3 DEF QuotaInv
<1>9. ShownInv'
  <2>1. ~(~faulted /\ pc \in Ending)
    BY <1>2 DEF RunningInv, ShownInv
  <2> QED BY <1>1, <1>3, <1>4, <1>6, <2>1 DEF ShownInv
<1>10. TimelyInv'
  BY <1>1, <1>2, <1>3, <1>4 DEF RunningInv, TimelyInv
<1> QED BY <1>7, <1>8, <1>9, <1>10 DEF RunningInv

(* The verdict about a call of an attack: what never comes through, and    *)
(* what does not come through twice.                                       *)
LEMMA AttackVerdict ==
    ASSUME RunningInv, MadeInv, SuiteInv, ClockInv, SliceInv,
           pc \in Running, broker.state = "up",
           Job.expected = "BROKER_BLOCK", NEW line \in Asked, Verdict(line) = "Allow"
    PROVE  /\ Job.mutation = "replay_attack" /\ deployed = <<>>
           /\ \E h \in Hold(line.receipt) : h.intent = work.calls[1].receipt.intent
<1> DEFINE policy == BrokerPolicy(GatePolicy(Job))
<1>1. Job \in Jobs /\ clock \in Int /\ policy.ttl \in Int
  <2>1. Job \in Jobs /\ clock \in Int /\ GatePolicy(Job).ttl \in Int
    BY Numbers
  <2> QED BY <2>1, PoliciesOfJob
<1>2. Job.program # "sample"
  BY <1>1, Labels
<1>3. broker.policy = policy
  BY <1>2 DEF RunningInv, RunInv
<1>4. CallsOK(Job, work.calls, work.since, clock)
  BY DEF MadeInv
<1>5. line = work.calls[line.n] /\ line.n \in 1..Len(work.calls)
  BY DEF RunningInv, RunInv
<1>6. Job.mutation = "replay_attack"
  <2>1. SUFFICES ASSUME Job.mutation # "replay_attack" PROVE FALSE
    OBVIOUS
  <2>2. Len(work.calls) = 1 /\ Refusable(work.calls[1], policy, clock)
    BY <1>4, <2>1 DEF CallsOK
  <2>3. line.n = 1
    BY <1>5, <2>2
  <2> HIDE DEF policy
  <2>4. Refusable(line, policy, clock)
    BY <1>5, <2>2, <2>3
  <2>5. Verdict(line) = "Block"
    BY <1>1, <1>3, <2>4, VerdictRefused
  <2> QED BY <2>5
<1>7. /\ Approvable(work.calls[1], policy, work.since, clock)
      /\ work.calls[2].receipt = work.calls[1].receipt /\ policy.ttl > 0
      /\ Len(work.calls) = 2
  BY <1>4, <1>6 DEF CallsOK
<1>8. line.receipt = work.calls[1].receipt
  <2>1. line.n \in {1, 2}
    BY <1>5, <1>7
  <2> QED BY <1>5, <1>7, <2>1
<1>9. line.receipt # None /\ line.receipt.timestamp \in Int
  BY <1>7, <1>8 DEF Approvable
<1>10. deployed = <<>>
  <2>1. SUFFICES ASSUME deployed # <<>> PROVE FALSE
    OBVIOUS
  <2>2. \E h \in broker.held : h.intent = line.receipt.intent
    BY <1>6, <1>8, <2>1 DEF RunningInv, QuotaInv
  <2> QED BY <1>9, <2>2, VerdictHeld
<1>11. \E h \in Hold(line.receipt) : h.intent = line.receipt.intent
  BY <1>1, <1>3, <1>7, <1>9, ApprovedIsHeld
<1> QED BY <1>6, <1>8, <1>10, <1>11

LEMMA SecondCall ==
    ASSUME SliceInv, NextCall = 2
    PROVE  Len(work.answers) = 1 /\ 1 \in DOMAIN work.answers
<1>1. work.answers \in Seq(Answers)
  BY DEF SliceInv, AnswerInv
<1> DEFINE read == Len(work.answers)
<1>2. read \in Nat /\ read + 1 = 2
  BY <1>1 DEF NextCall
<1> HIDE DEF read
<1>3. read = 1
  BY <1>2
<1>4. DOMAIN work.answers = 1..read
  BY <1>1 DEF read
<1> QED BY <1>3, <1>4 DEF read

(* The verdict about a call that comes in time and meets no fault.         *)
LEMMA TimelyVerdict ==
    ASSUME RunningInv, MadeInv, SuiteInv, ClockInv, SliceInv,
           pc \in Running, broker.state = "up", ~faulted, Job.expected # None,
           clock - work.since <= GatePolicy(Job).ttl,
           NEW line, Asked = {line}, Sending = {}, Given = {}, Returned = {}, line.n = NextCall
    PROVE  Verdict(line) = IF Right(Job, line.n) = "result" THEN "Allow" ELSE "Block"
<1> DEFINE policy == BrokerPolicy(GatePolicy(Job))
           since == work.since
<1>1. Job \in Jobs /\ clock \in Int /\ policy.ttl = GatePolicy(Job).ttl
  BY Numbers, PoliciesOfJob
<1>2. Job.program # "sample"
  BY <1>1, Labels
<1>3. broker.policy = policy
  BY <1>2 DEF RunningInv, RunInv
<1>4. CallsOK(Job, work.calls, since, clock)
  BY DEF MadeInv
<1>5. line = work.calls[line.n] /\ line.n \in 1..Len(work.calls)
  BY DEF RunningInv, RunInv
<1>6. Job.expected \in Accepting \cup {"BROKER_BLOCK"}
  BY <1>1, <1>4, Labels DEF CallsOK
<1>7. Len(work.answers) + 1 = line.n /\ work.answers \in Seq(Answers)
  BY DEF NextCall, SliceInv, AnswerInv
<1>8. ASSUME line.n = 1, Approvable(line, policy, since, clock)
      PROVE  Verdict(line) = "Allow"
  <2>1. work.answers = <<>>
    BY <1>7, <1>8
  <2>2. broker.held = {}
    BY <2>1 DEF RunningInv, RunInv
  <2>3. clock - since <= policy.ttl
    BY <1>1
  <2> HIDE DEF policy, since
  <2> QED BY <1>1, <1>3, <1>8, <2>2, <2>3, VerdictApproved
<1>9. CASE Job.expected \in Accepting
  <2>1. Len(work.calls) = 1 /\ Approvable(work.calls[1], policy, since, clock)
    BY <1>4, <1>9 DEF CallsOK
  <2>2. line.n = 1
    BY <1>5, <2>1
  <2>3. Verdict(line) = "Allow"
    BY <1>5, <1>8, <2>1, <2>2
  <2>4. Right(Job, line.n) = "result"
    BY <1>9 DEF Right, Accepting
  <2> QED BY <2>3, <2>4
<1>10. CASE Job.expected = "BROKER_BLOCK" /\ Job.mutation # "replay_attack"
  <2>1. Len(work.calls) = 1 /\ Refusable(work.calls[1], policy, clock)
    BY <1>4, <1>10 DEF CallsOK
  <2>2. line.n = 1
    BY <1>5, <2>1
  <2> HIDE DEF policy
  <2>3. Refusable(line, policy, clock)
    BY <1>5, <2>1, <2>2
  <2>4. Verdict(line) = "Block"
    BY <1>1, <1>3, <2>3, VerdictRefused
  <2>5. Right(Job, line.n) = "error"
    BY <1>10 DEF Right
  <2> QED BY <2>4, <2>5
<1>11. CASE Job.expected = "BROKER_BLOCK" /\ Job.mutation = "replay_attack"
  <2>1. /\ Approvable(work.calls[1], policy, since, clock)
        /\ work.calls[2].receipt = work.calls[1].receipt /\ Len(work.calls) = 2
    BY <1>4, <1>11 DEF CallsOK
  <2>2. CASE line.n = 1
    <3>1. Verdict(line) = "Allow"
      BY <1>5, <1>8, <2>1, <2>2
    <3> QED BY <1>11, <2>2, <3>1 DEF Right
  <2>3. CASE line.n = 2
    <3>1. Len(work.answers) = 1 /\ 1 \in DOMAIN work.answers
      <4>1. NextCall = 2
        BY <2>3
      <4> QED BY <4>1, SecondCall
    <3>2. work.answers[1] \in Shown /\ work.answers[1].n = 1
      BY <3>1 DEF Shown, LinesIn, SliceInv, AnswerInv, AnswersMatch
    <3>3. work.answers[1].is = "result"
      BY <1>11, <3>2 DEF RunningInv, TimelyInv, Right
    <3>4. deployed # <<>>
      BY <3>2, <3>3 DEF RunningInv, ShownInv
    <3>5. \E h \in broker.held : h.intent = work.calls[1].receipt.intent
      BY <1>11, <3>4 DEF RunningInv, QuotaInv
    <3>6. line.receipt = work.calls[1].receipt /\ line.receipt # None
      BY <1>5, <2>1, <2>3 DEF Approvable
    <3>7. Verdict(line) = "Block"
      BY <3>5, <3>6, VerdictHeld
    <3>8. Right(Job, line.n) = "error"
      BY <1>11, <2>3 DEF Right
    <3> QED BY <3>7, <3>8
  <2> QED BY <1>5, <2>1, <2>2, <2>3
<1> QED BY <1>6, <1>9, <1>10, <1>11

(* The broker answers a line or passes it on.                              *)
LEMMA HandleRuns ==
    ASSUME RunningInv, MadeInv, SuiteInv, ClockInv, SliceInv, BrokerHandles
    PROVE  RunningInv'
<1>1. UNCHANGED <<clock, pc, todo, work, faulted, deployed>>
  BY DEF BrokerHandles, client
<1>2. PICK line :
         /\ pc = "read" /\ broker.state = "up" /\ line.n = NextCall
         /\ Asked = {line} /\ Sending = {} /\ Given = {} /\ Returned = {}
         /\ Asked' = {} /\ Given' = {}
         /\ \/ /\ Verdict(line) = "Allow" /\ Sending' = {line} /\ Returned' = {}
               /\ broker' = [broker EXCEPT !.held = Hold(line.receipt)]
            \/ /\ Verdict(line) # "Allow" /\ UNCHANGED broker /\ Sending' = {}
               /\ Returned' = {[n |-> line.n,
                      is |-> IF Verdict(line) = "Suspend" THEN "suspended" ELSE "error"]}
  BY HandleLines
<1>3. Job' = Job /\ pc \in Running /\ pc \notin Ending
  BY <1>1, <1>2 DEF Job, Running, Waiting, Ending
<1> DEFINE attack == Job.expected = "BROKER_BLOCK"
           timely == /\ ~faulted /\ Job.expected # None
                     /\ clock - work.since <= GatePolicy(Job).ttl
<1>4. timely => Verdict(line) = IF Right(Job, line.n) = "result" THEN "Allow" ELSE "Block"
  BY <1>2, <1>3, TimelyVerdict
<1>5. CASE Verdict(line) = "Allow"
  <2>1. /\ Sending' = {line} /\ Returned' = {} /\ Shown' = Shown
        /\ broker' = [broker EXCEPT !.held = Hold(line.receipt)]
    BY <1>1, <1>2, <1>5 DEF Shown
  <2>2. /\ broker'.held = Hold(line.receipt) /\ broker'.policy = broker.policy
        /\ broker'.state = broker.state
    BY <2>1 DEF SliceInv, Shapes
  <2>3. RunInv'
    BY <1>1, <1>2, <1>3, <2>1, <2>2 DEF RunningInv, RunInv
  <2>4. QuotaInv'
    <3>1. attack => /\ Job.mutation = "replay_attack" /\ deployed = <<>>
                    /\ \E h \in Hold(line.receipt) : h.intent = work.calls[1].receipt.intent
      BY <1>2, <1>3, <1>5, AttackVerdict
    <3>2. attack => Len(deployed) <= 1
      BY <1>3, <3>1 DEF RunningInv, QuotaInv
    <3>3. \E S : deployed \in Seq(S)
      BY DEF RunningInv, QuotaInv
    <3> QED BY <1>1, <1>3, <2>1, <2>2, <3>1, <3>2, <3>3 DEF QuotaInv
  <2>5. ShownInv'
    BY <1>1, <1>3, <2>1 DEF RunningInv, ShownInv
  <2>6. TimelyInv'
    <3>1. timely => Right(Job, line.n) = "result"
      BY <1>4, <1>5
    <3> QED BY <1>1, <1>3, <2>1, <3>1 DEF RunningInv, TimelyInv
  <2> QED BY <2>3, <2>4, <2>5, <2>6 DEF RunningInv
<1>6. CASE Verdict(line) # "Allow"
  <2> DEFINE answer == [n |-> line.n,
                        is |-> IF Verdict(line) = "Suspend" THEN "suspended" ELSE "error"]
  <2>1. /\ UNCHANGED broker /\ Sending' = {} /\ Returned' = {answer}
        /\ answer.n = line.n /\ answer.is # "result"
        /\ Verdict(line) = "Block" => answer.is = "error"
    BY <1>2, <1>6
  <2> HIDE DEF answer
  <2>2. Shown' = Shown \cup {answer}
    BY <1>1, <1>2, <2>1 DEF Shown
  <2>3. RunInv'
    BY <1>1, <1>2, <1>3, <2>1 DEF RunningInv, RunInv
  <2>4. QuotaInv'
    BY <1>1, <1>2, <1>3, <2>1 DEF RunningInv, QuotaInv
  <2>5. ShownInv'
    BY <1>1, <1>3, <2>1, <2>2 DEF RunningInv, ShownInv
  <2>6. TimelyInv'
    <3>1. timely => answer.is = Right(Job, answer.n)
      BY <1>4, <1>6, <2>1 DEF Right
    <3> QED BY <1>1, <1>3, <2>1, <2>2, <3>1 DEF RunningInv, TimelyInv
  <2> QED BY <2>3, <2>4, <2>5, <2>6 DEF RunningInv
<1> QED BY <1>5, <1>6

LEMMA RunningStep ==
    ASSUME RunningInv, MadeInv, SuiteInv, ClockInv, ClockInv', SliceInv, [Next]_vars
    PROVE  RunningInv'
<1>0. pc \notin Running => deployed = <<>>
  BY DEF RunningInv, QuotaInv
<1>1. CASE EvaluateRefuses \/ Communicate
  <2>1. pc' \in {"start", "done"} /\ deployed' = <<>>
    BY <1>1 DEF EvaluateRefuses, Communicate, Report
  <2> QED BY <2>1, NotRunning DEF Running, Waiting
<1>2. CASE \/ MakeIntent \/ CollectEvidence \/ EvaluateAccepts
           \/ IssueReceipt \/ BypassGate \/ SendRecorded
  <2>1. pc \notin Running /\ pc' \notin Running /\ UNCHANGED deployed
    BY <1>2 DEF MakeIntent, CollectEvidence, EvaluateAccepts, IssueReceipt, BypassGate,
       SendRecorded, processes, Running, Waiting
  <2> QED BY <1>0, <2>1, NotRunning
<1>3. CASE Spawn \/ WriteCall \/ ReadAnswer
  BY <1>3, SpawnRuns, WriteRuns, ReadRuns
<1>4. CASE Terminate \/ CommunicateTimesOut
  <2>1. /\ pc \in Ending /\ pc' \in {"communicate", "communicate again", "crashed"}
        /\ UNCHANGED <<todo, work, pipes, deployed, faulted, clock>>
        /\ broker' \in {broker, [broker EXCEPT !.state = "dead"]}
    BY <1>4 DEF Terminate, CommunicateTimesOut, processes, Ending
  <2>2. pc \in Running /\ pc' \in Running /\ pc' \notin {"write", "read"}
    BY <2>1 DEF Running, Waiting, Ending
  <2>3. /\ broker'.held = broker.held
        /\ broker'.state = "up" => broker.state = "up" /\ broker'.policy = broker.policy
    BY <2>1 DEF SliceInv, Shapes
  <2>4. broker.state = "up" /\ Job.program # "sample" =>
           broker.policy = BrokerPolicy(GatePolicy(Job))
    BY <2>2 DEF RunningInv, RunInv
  <2>5. clock <= clock'
    <3>1. clock \in Int
      BY Numbers
    <3>2. clock' = clock
      BY <2>1
    <3> QED BY <3>1, <3>2
  <2> QED BY <2>1, <2>2, <2>3, <2>4, <2>5, NothingMoves
<1>5. CASE BrokerHandles \/ RelayAnswer \/ ToolAnswers
  <2>1. broker.state = "up" \/ tool = "up"
    BY <1>5 DEF BrokerHandles, RelayAnswer, ToolAnswers
  <2>2. pc \in Running
    BY <2>1 DEF SliceInv, ProcessInv, ReturnedMeansReaped, Running
  <2> QED BY <1>5, <2>2, HandleRuns, RelayRuns, ToolRuns
<1>6. CASE Launch \/ BrokerEnds \/ ToolEnds \/ ToolFails \/ BrokerFails
  <2>1. broker.state \notin {"none", "dead"} \/ tool = "up"
    BY <1>6 DEF Launch, BrokerEnds, ToolEnds, ToolFails, BrokerFails
  <2>2. pc \in Running
    BY <2>1 DEF SliceInv, ProcessInv, ReturnedMeansReaped, Running
  <2>3. UNCHANGED <<clock, todo, pc, work, pipes, deployed>> /\ (faulted => faulted')
    BY <1>6 DEF Launch, BrokerEnds, ToolEnds, ToolFails, BrokerFails, client
  <2>4. broker'.held = broker.held
    BY <1>6 DEF SliceInv, Shapes, Launch, BrokerEnds, ToolEnds, ToolFails, BrokerFails
  <2>5. broker'.state = "up" /\ Job.program # "sample" =>
           broker'.policy = BrokerPolicy(GatePolicy(Job))
    <3>1. CASE Launch
      <4>1. Job.program # "sample" =>
               policyFile = BrokerPolicy(GatePolicy(Job)) /\ policyFile # None
        BY <2>2, Numbers, AboutJobs DEF MadeInv, Running, Waiting
      <4>2. Job.program # "sample" /\ broker'.state = "up" => broker'.policy = policyFile
        BY <3>1, <4>1 DEF Launch, LoadPolicy, SliceInv, Shapes
      <4> QED BY <4>1, <4>2
    <3>2. CASE ~Launch
      <4>1. broker'.state = "up" => broker.state = "up" /\ broker'.policy = broker.policy
        BY <1>6, <3>2 DEF SliceInv, Shapes, BrokerEnds, ToolEnds, ToolFails, BrokerFails
      <4> QED BY <2>2, <4>1 DEF RunningInv, RunInv
    <3> QED BY <3>1, <3>2
  <2>6. clock <= clock'
    BY <2>3, Numbers
  <2> QED BY <2>2, <2>3, <2>4, <2>5, <2>6, NothingMoves
<1>7. CASE Tick \/ UNCHANGED vars
  <2>1. UNCHANGED <<todo, pc, work, pipes, broker, faulted, deployed>>
    BY <1>7 DEF Tick, client, processes, vars
  <2>2. CASE pc \notin Running
    BY <1>0, <2>1, <2>2, NotRunning
  <2>3. CASE pc \in Running
    <3>1. broker.state = "up" /\ Job.program # "sample" =>
             broker.policy = BrokerPolicy(GatePolicy(Job))
      BY <2>3 DEF RunningInv, RunInv
    <3>2. clock <= clock'
      BY ClockStep
    <3> QED BY <2>1, <2>3, <3>1, <3>2, NothingMoves
  <2> QED BY <2>2, <2>3
<1> QED BY <1>1, <1>2, <1>3, <1>4, <1>5, <1>6, <1>7
        DEF Next, Client, BrokerProcess, ToolProcess

---------------------------------------------------------------------------------
(* What the gate says to a job that is refused there is what its label     *)
(* says, if it is asked in time; nothing was deployed.                     *)
LEMMA RefusalIsRight ==
    ASSUME MadeInv, SuiteInv, ClockInv, pc = "evaluate", Refused,
           clock - work.since <= GatePolicy(Job).ttl, Job.expected # None,
           NEW actual, actual = IF Job.program = "demo" THEN "2" ELSE "RISK_GATE_BLOCK"
    PROVE  expected_matches(Job.expected, actual)
<1>1. /\ MaxClock \in Nat /\ clock \in Int /\ Job \in Jobs
  BY SliceAssumption, JobOfSuite DEF SliceAssumption, ClockInv
<1>2. /\ Job.program # "sample" /\ work.intent = Intent(Job, work.since)
      /\ work.since \in Int /\ Job.mutation \notin Bypassing
  BY <1>1 DEF MadeInv, ClockInv, Before
<1>3. PICK t \in work.since..clock : work.envelope = Collected(Job, t)
  BY DEF MadeInv
<1>4. ~Accepts(Intent(Job, work.since), Collected(Job, t), GatePolicy(Job), clock)
  BY <1>2, <1>3 DEF Refused, Accepts
<1>5. ~Sound(Job)
  BY <1>1, <1>2, <1>4, GateVerdict
<1>6. Job.expected \in {"RISK_GATE_BLOCK", "2"}
  <2>1. Job.expected = "BROKER_BLOCK" => BrokerRefuses(Job)
    BY <1>1, Labels
  <2>2. Job.expected # "BROKER_BLOCK"
    BY <1>2, <1>5, <2>1 DEF BrokerRefuses, Bypassing
  <2>3. Job.expected \notin Accepting
    BY <1>1, <1>5, Labels
  <2> QED BY <1>1, <2>2, <2>3, Labels
<1>7. Job.expected = "RISK_GATE_BLOCK" => Job.program = "redteam"
  BY <1>1, Labels
<1>8. Job.expected = "2" => Job.program = "demo"
  BY <1>1, Labels
<1> QED BY <1>6, <1>7, <1>8 DEF expected_matches

(* The last answer a client has read, and what it makes of it.             *)
LEMMA LastAnswer ==
    ASSUME RunningInv, MadeInv, SuiteInv, ClockInv, SliceInv, pc \in Ending,
           NEW last, last = work.answers[Len(work.answers)]
    PROVE  /\ last \in Shown /\ last.n = Len(work.calls)
           /\ Job.mutation # "replay_attack" => LinesIn(work.answers) = {last}
<1>1. pc \in Running /\ Len(work.answers) \in Nat
  BY Numbers DEF Running, Waiting, Ending
<1>2. Len(work.answers) = Len(work.calls)
  BY <1>1 DEF RunningInv, RunInv
<1>3. Len(work.calls) = IF Job.mutation = "replay_attack" THEN 2 ELSE 1
  BY <1>1 DEF MadeInv, CallsOK
<1>4. DOMAIN work.answers = 1..Len(work.answers)
  BY DEF SliceInv, AnswerInv
<1>5. Len(work.answers) \in DOMAIN work.answers
  BY <1>2, <1>3, <1>4
<1>6. last \in Shown
  BY <1>5 DEF Shown, LinesIn
<1>7. last.n = Len(work.calls)
  BY <1>2, <1>5 DEF SliceInv, AnswerInv, AnswersMatch
<1>8. Job.mutation # "replay_attack" => LinesIn(work.answers) = {last}
  <2>1. SUFFICES ASSUME Job.mutation # "replay_attack"
                 PROVE  LinesIn(work.answers) = {last}
    OBVIOUS
  <2>2. Len(work.answers) = 1
    BY <1>2, <1>3, <2>1
  <2>3. DOMAIN work.answers = {1} /\ last = work.answers[1]
    BY <1>4, <2>2
  <2> QED BY <2>3 DEF LinesIn
<1> QED BY <1>6, <1>7, <1>8

LEMMA OutcomeOf ==
    ASSUME NEW job \in Jobs, NEW answer
    PROVE  /\ Outcome(job, answer) \in Success <=> answer = "result"
           /\ job.program = "redteam" /\ answer = "result" => Outcome(job, answer) = "ALLOW"
           /\ job.program = "redteam" /\ answer = "error" =>
                 Outcome(job, answer) = "BROKER_BLOCK"
           /\ job.program = "demo" /\ answer = "result" => Outcome(job, answer) = "0"
<1>1. job.program \in {"redteam", "demo", "sample"}
  BY AboutJobs
<1>2. job.program = "redteam" => Outcome(job, answer) = classify_broker_response(answer)
  BY DEF Outcome
<1>3. job.program = "demo" => Outcome(job, answer) = IF answer = "result" THEN "0" ELSE "1"
  BY DEF Outcome
<1>4. job.program = "sample" =>
         Outcome(job, answer) = IF answer = "result" THEN "SUCCESS"
                                ELSE IF answer = "end" THEN "ERROR" ELSE "BLOCKED"
  BY DEF Outcome
<1> QED BY <1>1, <1>2, <1>3, <1>4 DEF Success, classify_broker_response

(* A run that is over is reported as what it was.                          *)
LEMMA ReportIsRight ==
    ASSUME RunningInv, MadeInv, SuiteInv, ClockInv, SliceInv,
           \/ EvaluateRefuses
           \/ Communicate,
           NEW x, NEW actual,
           Report(actual) =>
              /\ x.job = Job /\ x.actual = actual /\ x.deployed = deployed
              /\ x.faulted = faulted
              /\ x.timely <=> clock - work.since <= GatePolicy(Job).ttl,
           EvaluateRefuses => 
              /\ Report(actual)
              /\ actual = IF Job.program = "demo" THEN "2" ELSE "RISK_GATE_BLOCK",
           Communicate =>
              /\ Report(actual)
              /\ actual = Outcome(Job, work.answers[Len(work.answers)].is)
    PROVE  ReportOK(x)
<1>1. CASE EvaluateRefuses
  <2>1. pc = "evaluate" /\ Refused
    BY <1>1 DEF EvaluateRefuses
  <2>2. x.deployed = <<>> /\ Len(x.deployed) = 0
    BY <1>1, <2>1 DEF RunningInv, QuotaInv, Running, Waiting
  <2>3. x.actual \notin Success
    BY <1>1 DEF Success
  <2>4. x.timely /\ x.job.expected # None => expected_matches(x.job.expected, x.actual)
    BY <1>1, <2>1, RefusalIsRight
  <2> QED BY <2>2, <2>3, <2>4 DEF ReportOK
<1>2. CASE Communicate
  <2> DEFINE last == work.answers[Len(work.answers)]
  <2>1. pc \in Ending /\ pc \in Running /\ Job \in Jobs /\ Len(<<>>) = 0
    BY <1>2, JobOfSuite DEF Communicate, Ending, Running, Waiting
  <2>2. /\ x.job = Job /\ x.deployed = deployed /\ x.faulted = faulted
        /\ x.timely <=> clock - work.since <= GatePolicy(Job).ttl
        /\ x.actual = Outcome(Job, last.is)
    BY <1>2
  <2>3. /\ last \in Shown /\ last.n = Len(work.calls)
        /\ Job.mutation # "replay_attack" => LinesIn(work.answers) = {last}
    BY <2>1, LastAnswer
  <2> HIDE DEF last
  <2>4. CallsOK(Job, work.calls, work.since, clock)
    BY <2>1 DEF MadeInv
  <2>5. Job.expected \in {"BROKER_BLOCK", "RISK_GATE_BLOCK"} =>
           Len(deployed) <= IF Job.mutation = "replay_attack" THEN 1 ELSE 0
    BY <2>1, <2>4 DEF CallsOK, RunningInv, QuotaInv
  <2>6. Outcome(Job, last.is) \in Success <=> last.is = "result"
    BY <2>1, OutcomeOf
  <2>7. last.is = "result" => deployed # <<>>
    BY <2>1, <2>3 DEF RunningInv, ShownInv
  <2>8. ~faulted /\ deployed # <<>> /\ Job.mutation # "replay_attack" => last.is = "result"
    <3>1. SUFFICES ASSUME ~faulted, deployed # <<>>, Job.mutation # "replay_attack"
                   PROVE  last.is = "result"
      OBVIOUS
    <3>2. PICK line \in Shown : line.is = "result"
      BY <2>1, <3>1 DEF RunningInv, ShownInv
    <3>3. Shown = {last}
      BY <2>1, <2>3, <3>1 DEF RunningInv, ShownInv, Shown
    <3> QED BY <3>2, <3>3
  <2>9. ASSUME ~faulted, x.timely, Job.expected # None
        PROVE  expected_matches(Job.expected, Outcome(Job, last.is))
    <3>1. last.is = Right(Job, last.n)
      BY <2>1, <2>2, <2>3, <2>9 DEF RunningInv, TimelyInv
    <3>2. CASE Job.expected \in Accepting
      <4>1. last.is = "result"
        BY <3>1, <3>2 DEF Right, Accepting
      <4>2. Job.program \in {"redteam", "demo"}
        BY <2>1, <3>2, Labels, AboutJobs
      <4>3. CASE Job.program = "redteam"
        BY <2>1, <3>2, <4>1, <4>3, Labels, OutcomeOf DEF expected_matches
      <4>4. CASE Job.program = "demo"
        BY <2>1, <3>2, <4>1, <4>4, Labels, OutcomeOf DEF expected_matches
      <4> QED BY <4>2, <4>3, <4>4
    <3>3. CASE Job.expected = "BROKER_BLOCK"
      <4>1. last.n = IF Job.mutation = "replay_attack" THEN 2 ELSE 1
        BY <2>3, <2>4 DEF CallsOK
      <4>2. last.is = "error"
        BY <3>1, <3>3, <4>1 DEF Right
      <4>3. Job.program = "redteam"
        BY <2>1, <3>3, Labels
      <4> QED BY <2>1, <3>3, <4>2, <4>3, OutcomeOf DEF expected_matches
    <3> QED BY <2>1, <2>4, <2>9, <3>2, <3>3, Labels DEF CallsOK
  <2> QED BY <2>2, <2>5, <2>6, <2>7, <2>8, <2>9 DEF ReportOK
<1> QED BY <1>1, <1>2

LEMMA ResultsStep ==
    ASSUME ResultsInv, RunningInv, MadeInv, SuiteInv, ClockInv, SliceInv, [Next]_vars
    PROVE  ResultsInv'
<1>1. CASE EvaluateRefuses \/ Communicate
  <2>1. PICK actual :
           /\ Report(actual)
           /\ EvaluateRefuses =>
                 actual = IF Job.program = "demo" THEN "2" ELSE "RISK_GATE_BLOCK"
           /\ Communicate => actual = Outcome(Job, work.answers[Len(work.answers)].is)
    <3>1. CASE EvaluateRefuses
      <4>1. pc = "evaluate"
        BY <3>1 DEF EvaluateRefuses
      <4>2. ~Communicate
        BY <4>1 DEF Communicate
      <4> QED BY <3>1, <4>2 DEF EvaluateRefuses
    <3>2. CASE Communicate
      <4>1. pc # "evaluate"
        BY <3>2 DEF Communicate
      <4>2. ~EvaluateRefuses
        BY <4>1 DEF EvaluateRefuses
      <4> QED BY <3>2, <4>2 DEF Communicate
    <3> QED BY <1>1, <3>1, <3>2
  <2> DEFINE x == [job |-> Job, actual |-> actual, deployed |-> deployed, faulted |-> faulted,
                   answers |-> work.answers,
                   timely |-> clock - work.since <= GatePolicy(Job).ttl]
  <2>2. /\ x.job = Job /\ x.actual = actual /\ x.deployed = deployed /\ x.faulted = faulted
        /\ x.timely = (clock - work.since <= GatePolicy(Job).ttl)
    OBVIOUS
  <2>3. results' = Append(results, x)
    BY <2>1 DEF Report
  <2> HIDE DEF x
  <2>4. ReportOK(x)
    BY <1>1, <2>1, <2>2, ReportIsRight
  <2>5. PICK S : results \in Seq(S)
    BY DEF SuiteInv
  <2> DEFINE more == Append(results, x)
  <2>6. /\ DOMAIN more = 1..(Len(results) + 1) /\ DOMAIN results = 1..Len(results)
        /\ Len(results) \in Nat /\ more[Len(results) + 1] = x
        /\ \A k \in 1..Len(results) : more[k] = results[k]
    BY <2>5
  <2> HIDE DEF more
  <2>7. \A k \in DOMAIN more : ReportOK(more[k])
    BY <2>4, <2>6 DEF ResultsInv
  <2> QED BY <2>3, <2>7 DEF ResultsInv, more
<1>2. CASE ~(EvaluateRefuses \/ Communicate)
  <2>1. UNCHANGED results
    <3>1. CASE Client
      BY <1>2, <3>1 DEF Client, MakeIntent, CollectEvidence, EvaluateAccepts, IssueReceipt,
         BypassGate, SendRecorded, Spawn, WriteCall, ReadAnswer, Terminate,
         CommunicateTimesOut
    <3>2. CASE BrokerProcess \/ ToolProcess \/ ToolFails \/ BrokerFails \/ Tick
      BY <3>2 DEF BrokerProcess, ToolProcess, Launch, BrokerHandles, RelayAnswer,
         BrokerEnds, ToolAnswers, ToolEnds, ToolFails, BrokerFails, Tick, client
    <3>3. CASE UNCHANGED vars
      BY <3>3 DEF vars
    <3> QED BY <3>1, <3>2, <3>3 DEF Next
  <2> QED BY <2>1 DEF ResultsInv
<1> QED BY <1>1, <1>2

---------------------------------------------------------------------------------
VerdictInv ==
    SliceInv /\ SuiteInv /\ ClockInv /\ MadeInv /\ RunningInv /\ ResultsInv

LEMMA VerdictInit == Init => VerdictInv
<1> SUFFICES ASSUME Init PROVE VerdictInv
  OBVIOUS
<1>1. /\ clock = 0 /\ pc = "start" /\ tool = "none" /\ deployed = <<>> /\ results = <<>>
      /\ todo \in Suites
  BY DEF Init
<1>2. todo \in Seq(Jobs) /\ todo # <<>>
  BY <1>1, SuiteAssumption DEF SuiteAssumption
<1>3. <<>> \in Seq({}) /\ DOMAIN <<>> = {}
  OBVIOUS
<1>4. todo = [k \in 1..Len(results) |-> results[k].job] \o todo
  <2>1. [k \in 1..Len(results) |-> results[k].job] = <<>>
    BY <1>1
  <2> QED BY <1>2, <2>1, ConcatEmptySeq
<1>5. SuiteInv
  BY <1>1, <1>2, <1>3, <1>4, NoWorkFields DEF SuiteInv, Before, Init
<1>6. ClockInv
  BY <1>1, SliceAssumption DEF ClockInv, SliceAssumption
<1>7. MadeInv
  BY <1>1 DEF MadeInv, Running, Waiting
<1>8. RunningInv
  BY <1>1, <1>3 DEF RunningInv, RunInv, QuotaInv, ShownInv, TimelyInv, Running, Waiting
<1>9. ResultsInv
  BY <1>1, <1>3 DEF ResultsInv
<1> QED BY <1>5, <1>6, <1>7, <1>8, <1>9, InitOK DEF VerdictInv

LEMMA VerdictInvariant == Spec => []VerdictInv
<1>1. Init => VerdictInv
  BY VerdictInit
<1>2. VerdictInv /\ [Next]_vars => VerdictInv'
  <2> SUFFICES ASSUME VerdictInv, [Next]_vars PROVE VerdictInv'
    OBVIOUS
  <2>1. SliceInv' /\ SuiteInv' /\ ClockInv'
    BY SliceStep, SuiteStep, ClockStep DEF VerdictInv
  <2>2. MadeInv' /\ RunningInv' /\ ResultsInv'
    BY <2>1, MadeStep, RunningStep, ResultsStep DEF VerdictInv
  <2> QED BY <2>1, <2>2 DEF VerdictInv
<1> QED BY <1>1, <1>2, PTL DEF Spec

LEMMA OneLineInAll ==
    ASSUME SliceInv
    PROVE  Len(pipes.toBroker) + Len(pipes.toTool) + Len(pipes.fromTool)
              + Len(pipes.toClient) <= 1
<1>0. PICK line : pipes \in {NoLines, ToBroker(line), ToTool(line), FromTool(line),
                             ToClient(line)}
  BY DEF SliceInv, LineInv, LinesOK
<1>1. Len(<<>>) = 0 /\ Len(<<line>>) = 1
  OBVIOUS
<1>2. CASE pipes = NoLines
  <2>1. /\ pipes.toBroker = <<>> /\ pipes.toTool = <<>> /\ pipes.fromTool = <<>>
        /\ pipes.toClient = <<>>
    BY <1>2, PipeFields
  <2>2. /\ Len(pipes.toBroker) = 0 /\ Len(pipes.toTool) = 0 /\ Len(pipes.fromTool) = 0
        /\ Len(pipes.toClient) = 0
    BY <1>1, <2>1
  <2> QED BY <2>2
<1>3. CASE pipes = ToBroker(line)
  <2>1. /\ pipes.toBroker = <<line>> /\ pipes.toTool = <<>> /\ pipes.fromTool = <<>>
        /\ pipes.toClient = <<>>
    BY <1>3, PipeFields
  <2>2. /\ Len(pipes.toBroker) = 1 /\ Len(pipes.toTool) = 0 /\ Len(pipes.fromTool) = 0
        /\ Len(pipes.toClient) = 0
    BY <1>1, <2>1
  <2> QED BY <2>2
<1>4. CASE pipes = ToTool(line)
  <2>1. /\ pipes.toBroker = <<>> /\ pipes.toTool = <<line>> /\ pipes.fromTool = <<>>
        /\ pipes.toClient = <<>>
    BY <1>4, PipeFields
  <2>2. /\ Len(pipes.toBroker) = 0 /\ Len(pipes.toTool) = 1 /\ Len(pipes.fromTool) = 0
        /\ Len(pipes.toClient) = 0
    BY <1>1, <2>1
  <2> QED BY <2>2
<1>5. CASE pipes = FromTool(line)
  <2>1. /\ pipes.toBroker = <<>> /\ pipes.toTool = <<>> /\ pipes.fromTool = <<line>>
        /\ pipes.toClient = <<>>
    BY <1>5, PipeFields
  <2>2. /\ Len(pipes.toBroker) = 0 /\ Len(pipes.toTool) = 0 /\ Len(pipes.fromTool) = 1
        /\ Len(pipes.toClient) = 0
    BY <1>1, <2>1
  <2> QED BY <2>2
<1>6. CASE pipes = ToClient(line)
  <2>1. /\ pipes.toBroker = <<>> /\ pipes.toTool = <<>> /\ pipes.fromTool = <<>>
        /\ pipes.toClient = <<line>>
    BY <1>6, PipeFields
  <2>2. /\ Len(pipes.toBroker) = 0 /\ Len(pipes.toTool) = 0 /\ Len(pipes.fromTool) = 0
        /\ Len(pipes.toClient) = 1
    BY <1>1, <2>1
  <2> QED BY <2>2
<1> QED BY <1>0, <1>2, <1>3, <1>4, <1>5, <1>6

(* The suite is run job by job, the clock keeps its bound and at most one  *)
(* line is on its way between the processes.                               *)
THEOREM SliceTypes == Spec => []TypeOK
<1>1. VerdictInv => TypeOK
  <2> SUFFICES ASSUME VerdictInv PROVE TypeOK
    OBVIOUS
  <2> USE DEF VerdictInv
  <2>1. clock \in 0..MaxClock
    BY DEF ClockInv
  <2>2. /\ pc \in Waiting \cup {"start", "collect", "evaluate", "issue", "bypass", "spawn",
                              "done", "crashed"}
        /\ \E suite \in Suites : suite = [k \in 1..Len(results) |-> results[k].job] \o todo
        /\ pc = "done" <=> todo = <<>>
        /\ tool \in {"none", "up", "dead"}
    BY DEF SuiteInv, Running, Before
  <2>3. broker.state \in {"none", "starting", "up", "lingering", "dead"} /\ faulted \in BOOLEAN
    BY DEF SliceInv, Shapes, States
  <2>4. Len(pipes.toBroker) + Len(pipes.toTool) + Len(pipes.fromTool)
           + Len(pipes.toClient) <= 1
    BY OneLineInAll
  <2>5. Len(work.answers) <= Len(work.calls)
    <3>1. CASE pc \in Running
      BY <3>1 DEF RunningInv, RunInv
    <3>2. CASE pc \in Before
      <4>1. Len(work.answers) = 0
        BY <3>2, EmptySequence DEF SliceInv, CallInv
      <4> QED BY <4>1, Numbers
    <3>3. CASE pc = "done"
      <4>1. Len(work.answers) = 0
        BY <3>3, EmptySequence DEF SuiteInv
      <4> QED BY <4>1, Numbers
    <3> QED BY <3>1, <3>2, <3>3 DEF SuiteInv
  <2> QED BY <2>1, <2>2, <2>3, <2>4, <2>5 DEF TypeOK
<1> QED BY <1>1, VerdictInvariant, PTL

(* An attack that is labelled as one the broker or the gate blocks deploys *)
(* nothing, and a replay deploys once, for any policy of the gate, any     *)
(* order of the jobs, and whatever fails or is late (attacks/*.json        *)
(* against riskgate_service.py, main.rs:185-330 and crypto.rs:61-200).     *)
THEOREM NoAttackDeploys == Spec => []AttackNeverDeploys
<1>1. VerdictInv => AttackNeverDeploys
  <2> SUFFICES ASSUME VerdictInv, NEW x \in Deployments,
                      x.job.expected \in {"BROKER_BLOCK", "RISK_GATE_BLOCK"}
               PROVE  x.count <= IF x.job.mutation = "replay_attack" THEN 1 ELSE 0
    BY DEF AttackNeverDeploys
  <2> USE DEF VerdictInv
  <2>1. CASE \E y \in Finished : x = [job |-> y.job, count |-> Len(y.deployed)]
    <3>1. PICK y \in Finished : x = [job |-> y.job, count |-> Len(y.deployed)]
      BY <2>1
    <3>2. ReportOK(y) /\ x.job = y.job /\ x.count = Len(y.deployed)
      BY <3>1 DEF Finished, ResultsInv
    <3> QED BY <3>2 DEF ReportOK
  <2>2. CASE todo # <<>> /\ x = [job |-> Job, count |-> Len(deployed)]
    <3>1. x.job = Job /\ x.count = Len(deployed) /\ Len(<<>>) = 0
      BY <2>2
    <3>2. CASE pc \in Running
      <4>1. Job.expected # "RISK_GATE_BLOCK"
        BY <3>2 DEF MadeInv, CallsOK
      <4> QED BY <3>1, <3>2, <4>1 DEF RunningInv, QuotaInv
    <3>3. CASE pc \notin Running
      BY <3>1, <3>3 DEF RunningInv, QuotaInv
    <3> QED BY <3>2, <3>3
  <2> QED BY <2>1, <2>2 DEF Deployments
<1> QED BY <1>1, VerdictInvariant, PTL

(* A success is reported only for a deployment, also after a failure; and  *)
(* without one a deployment is reported, but for the first call of a       *)
(* replay (redteam_runner.py:68-75, orchestrator.py:73 and 113,            *)
(* orchestrator_middleware.py:89-96).                                      *)
THEOREM VerdictsAreTrue == Spec => []VerdictFollowsDeployment
<1>1. VerdictInv => VerdictFollowsDeployment
  BY DEF VerdictInv, ResultsInv, ReportOK, VerdictFollowsDeployment, Finished
<1> QED BY <1>1, VerdictInvariant, PTL

(* A job that meets no failure and takes no longer than its time-to-live   *)
(* reports what its label says (attacks/*.json, redteam_runner.py:147-163).*)
THEOREM TimelyVerdictsPass == Spec => []TimelyVerdictIsPass
<1>1. VerdictInv => TimelyVerdictIsPass
  BY DEF VerdictInv, ResultsInv, ReportOK, TimelyVerdictIsPass, Finished
<1> QED BY <1>1, VerdictInvariant, PTL
================================================================================
