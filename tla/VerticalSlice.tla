------------------------------ MODULE VerticalSlice ------------------------------
(***************************************************************************)
(* The programs that drive the deployment slice from end to end: the demo  *)
(* (orchestrator.py), the red-team suite (redteam_runner.py) and the       *)
(* middleware sample (orchestrator_middleware.py).  Each builds calls, and *)
(* for each run starts a broker, which starts the deployment tool; writes  *)
(* a line, reads a line, and ends both processes.                          *)
(*                                                                         *)
(*    client --toBroker--> broker --toTool--> tool                         *)
(*    client <--toClient-- broker <--fromTool-- tool                       *)
(*                                                                         *)
(* The broker handles a line in one step here; Broker has the steps and    *)
(* what may happen between them.  One fault may happen, if Faults allows:  *)
(* the broker cannot start the tool, or one of the two ends by itself.     *)
(***************************************************************************)
EXTENDS GateChecks, Sequences

CONSTANTS
    Suites,      \* sequences of jobs: attacks, demos, samples
    DefaultPolicy,
    None,
    Faults,      \* whether processes fail
    MaxClock     \* bound of the exploration

ASSUME SliceAssumption == Faults \in BOOLEAN /\ MaxClock \in Nat

VARIABLES
    clock,
    todo,      \* the jobs that are left, the first of them under way
    pc,        \* where the client is
    work,      \* its local variables: intent, envelope, receipt, calls, answers
    policyFile,\* POLICY_PATH, or None
    broker,    \* its state, the policy it loaded, and its replay cache
    tool,      \* none, up or dead
    pipes,     \* the lines in each pipe
    faulted,   \* a fault happened (history)
    deployed,  \* the calls the tool executed for the job under way (history)
    results    \* what became of the jobs (history)

vars == <<clock, todo, pc, work, policyFile, broker, tool, pipes, faulted, deployed, results>>

processes == <<broker, tool, pipes, faulted, deployed>>

client == <<todo, pc, work, policyFile, results>>

---------------------------------------------------------------------------------
Job == Head(todo)

(* The gate's policy with the job's policy_patch.                          *)
GatePolicy(job) == [DefaultPolicy EXCEPT !.ttl = IF job.ttl = None THEN @ ELSE job.ttl]

(* default_deploy_intent with the job's patch: one id per second.          *)
Intent(job, now) ==
    [wellFormed |-> TRUE, intent |-> <<"deploy", now>>, action |-> "deploy",
     target |-> job.target, args |-> job.args]

(* build_mcp_payload; every call has the id 1, n tells them apart here.    *)
Call(n, request, receipt) ==
    [n |-> n, tool |-> request.action, args |-> request.args, receipt |-> receipt]

(* A mistake: an answer that has no message is taken for a success.        *)
classifyWithoutResult(answer) ==
    IF answer = "error" THEN "BROKER_BLOCK"
    ELSE IF answer = "suspended" THEN "BROKER_SUSPEND" ELSE "ALLOW"

(* classify_broker_response.  The end of the pipe is read as an empty      *)
(* object, which has no message.                                           *)
classify_broker_response(answer) ==
    IF answer = "result" THEN "ALLOW"
    ELSE IF answer = "suspended" THEN "BROKER_SUSPEND" ELSE "BROKER_BLOCK"

(* The exit code of run_demo, and what the sample prints.                  *)
Outcome(job, answer) ==
    CASE job.program = "redteam" -> classify_broker_response(answer)
      [] job.program = "demo"    -> IF answer = "result" THEN "0" ELSE "1"
      [] job.program = "sample"  -> IF answer = "result" THEN "SUCCESS"
                                    ELSE IF answer = "end" THEN "ERROR" ELSE "BLOCKED"

expected_matches(expected, actual) ==
    \/ expected = actual
    \/ expected = "OUT_OF_SCOPE_ALLOWED" /\ actual = "ALLOW"

(* The mutations for which the runner does not ask the gate.               *)
Bypassing == {"missing_receipt", "expired_receipt", "signed_unauthorized_target"}

---------------------------------------------------------------------------------
(* What a specification may expect of its job, as far as it can be told    *)
(* from the two files without running anything.                            *)
Jobs == UNION {{suite[k] : k \in DOMAIN suite} : suite \in Suites}

(* The checks of the gate that do not look at the clock.                   *)
PolicyAllows(job) ==
    PolicyOK(Intent(job, 0), Document(job.profile, DefaultPolicy.ttl, 0), DefaultPolicy)

(* A job the gate refuses, however fast the client is.                     *)
GateRefuses(job) ==
    \/ ~PolicyAllows(job)
    \/ job.mutation = "self_signed_evidence" /\ GateKey # DefaultPolicy.trusted
    \/ 0 < DefaultPolicy.ttl /\ DefaultPolicy.ttl < -job.profile.offset

(* A job that the gate accepts and, unaltered, the broker too, in time.    *)
Sound(job) ==
    /\ PolicyAllows(job)
    /\ job.mutation # "self_signed_evidence" /\ DefaultPolicy.trusted = EvidenceKey
    /\ job.profile.offset \in 0..ClockSkew
    /\ DefaultPolicy.ttl > 0 => GatePolicy(job).ttl <= DefaultPolicy.ttl
    /\ job.target # Blank /\ job.args.canonical /\ ~LacksQuorum("deploy", job.args)

(* A job whose last call the broker refuses.                               *)
BrokerRefuses(job) ==
    \/ job.mutation = "missing_receipt" /\ DefaultPolicy.require_receipt
    \/ job.mutation = "expired_receipt" /\ GatePolicy(job).ttl \in 1..2
    \/ /\ job.mutation = "signed_unauthorized_target"
       /\ DefaultPolicy.authorized_targets # {}
       /\ ~TargetIsAuthorized(job.target, DefaultPolicy.authorized_targets)
    \/ /\ job.mutation = "tamper_payload_after_receipt"
       /\ Sound(job) /\ job.args.id # "v99"
    \/ job.mutation = "replay_attack" /\ Sound(job) /\ GatePolicy(job).ttl > 0

Labelled(job) ==
    \/ job.expected = None
    \/ /\ job.program = "redteam" /\ job.expected \in {"ALLOW", "OUT_OF_SCOPE_ALLOWED"}
       /\ job.mutation \in {"none", "poisoned_context_valid_intent"} /\ Sound(job)
    \/ /\ job.program = "redteam" /\ job.expected = "RISK_GATE_BLOCK"
       /\ job.mutation \notin Bypassing /\ GateRefuses(job)
    \/ job.program = "redteam" /\ job.expected = "BROKER_BLOCK" /\ BrokerRefuses(job)
    \/ job.program = "demo" /\ job.expected = "0" /\ Sound(job)
    \/ job.program = "demo" /\ job.expected = "2" /\ GateRefuses(job)

(* The receipts a job may come by.                                         *)
ReceiptsOf(job) ==
    {Receipt(Intent(job, since), Document(job.profile, DefaultPolicy.ttl, t), at) :
        since \in 0..MaxClock, t \in 0..MaxClock, at \in -3..MaxClock}

(* Every job is labelled with what it does, and tampering with its         *)
(* arguments changes their text.  None is no label, no policy and no       *)
(* receipt; the gate's key and its signatures decode.                      *)
ASSUME SuiteAssumption ==
    /\ Suites \subseteq Seq(Jobs) \ {<<>>}
    /\ DOMAIN DefaultPolicy = {"authorized_targets", "allowed_actions", "forbidden_actions",
                               "ttl", "require_receipt", "trusted"}
    /\ DefaultPolicy.ttl \in Int
    /\ GateKey \notin {NoKey, MalformedKey}
    /\ None \notin {"ALLOW", "OUT_OF_SCOPE_ALLOWED", "RISK_GATE_BLOCK", "BROKER_BLOCK",
                    "0", "2"}
    /\ \A job \in Jobs :
          /\ job.program \in {"redteam", "demo", "sample"}
          /\ job.program # "redteam" => job.mutation = "none"
          /\ DOMAIN job.args = {"id", "dry_run", "destructive", "quorum", "canonical"}
          /\ job.profile.offset \in Int /\ GatePolicy(job).ttl \in Int
          /\ BrokerPolicy(GatePolicy(job)) # None
          /\ \A receipt \in ReceiptsOf(job) :
                /\ receipt # None /\ receipt.signature # MalformedSig
                /\ IsText(Text(receipt.intent)) /\ IsText(Text(receipt.action))
                /\ IsText(Text(receipt.target)) /\ IsText(Text(receipt.evidence))
          /\ LET tampered == [job.args EXCEPT !.id = "v99"] IN
             /\ IsText(Canonical(job.args)) /\ IsText(Canonical(tampered))
             /\ job.args.id # "v99" => Canonical(job.args) # Canonical(tampered)
          /\ Labelled(job)
---------------------------------------------------------------------------------

NoWork == [intent |-> None, envelope |-> None, receipt |-> None, calls |-> <<>>,
           answers |-> <<>>, since |-> 0]

NoLines == [toBroker |-> <<>>, toTool |-> <<>>, fromTool |-> <<>>, toClient |-> <<>>]

NoBroker == [state |-> "none", policy |-> None, held |-> {}]

Init ==
    /\ clock = 0
    /\ todo \in Suites
    /\ pc = "start" /\ work = NoWork /\ policyFile = None
    /\ broker = NoBroker /\ tool = "none" /\ pipes = NoLines
    /\ faulted = FALSE /\ deployed = <<>> /\ results = <<>>

---------------------------------------------------------------------------------
(* The job ends with what it reports, and the next one starts.             *)
Report(actual) ==
    /\ results' = Append(results,
          [job |-> Job, actual |-> actual, deployed |-> deployed, faulted |-> faulted,
           answers |-> work.answers,
           timely |-> clock - work.since <= GatePolicy(Job).ttl])
    /\ todo' = Tail(todo)
    /\ pc' = IF todo' = <<>> THEN "done" ELSE "start"
    /\ work' = NoWork /\ deployed' = <<>>

(* A mistake: the policy file is left as it is.                            *)
MakeIntentUnderOldPolicy ==
    /\ pc = "start" /\ Job.program # "sample"
    /\ work' = [NoWork EXCEPT !.intent = Intent(Job, clock), !.since = clock]
    /\ pc' = "collect"
    /\ UNCHANGED <<clock, todo, policyFile, processes, results>>

(* The gate publishes its policy and the agent makes its intent.           *)
MakeIntent ==
    /\ pc = "start" /\ Job.program # "sample"
    /\ policyFile' = BrokerPolicy(GatePolicy(Job))
    /\ work' = [NoWork EXCEPT !.intent = Intent(Job, clock), !.since = clock]
    /\ pc' = "collect"
    /\ UNCHANGED <<clock, todo, processes, results>>

(* collect_signed_evidence; self_signed_evidence signs it with another key *)
(* and keeps the digest.                                                   *)
CollectEvidence ==
    /\ pc = "collect"
    /\ work' = [work EXCEPT !.envelope =
          Envelope(Document(Job.profile, DefaultPolicy.ttl, clock),
                   IF Job.mutation = "self_signed_evidence" THEN GateKey ELSE EvidenceKey)]
    /\ pc' = IF Job.mutation \in Bypassing THEN "bypass" ELSE "evaluate"
    /\ UNCHANGED <<clock, todo, policyFile, processes, results>>

Refused ==
    ~ /\ ShapeOK(work.intent)
      /\ EvidenceOK(work.envelope, GatePolicy(Job), clock)
      /\ PolicyOK(work.intent, work.envelope.document, GatePolicy(Job))

EvaluateRefuses ==
    /\ pc = "evaluate" /\ Refused
    /\ Report(IF Job.program = "demo" THEN "2" ELSE "RISK_GATE_BLOCK")
    /\ UNCHANGED <<clock, policyFile, broker, tool, pipes, faulted>>

EvaluateAccepts ==
    /\ pc = "evaluate" /\ ~Refused
    /\ pc' = "issue"
    /\ UNCHANGED <<clock, todo, work, policyFile, processes, results>>

(* The mutations that use the receipt the gate issued.                     *)
IssueReceipt ==
    /\ pc = "issue"
    /\ LET receipt == Receipt(work.intent, work.envelope.digest, clock)
           call(n) == Call(n, work.intent, receipt)
       IN  work' = [work EXCEPT !.receipt = receipt, !.calls =
               CASE Job.mutation = "replay_attack" -> <<call(1), call(2)>>
                 [] Job.mutation = "tamper_payload_after_receipt" ->
                       <<[call(1) EXCEPT !.args = [@ EXCEPT !.id = "v99"]]>>
                 [] OTHER -> <<call(1)>>]
    /\ pc' = "spawn"
    /\ UNCHANGED <<clock, todo, policyFile, processes, results>>

(* The mutations that go around the gate: no receipt, or manual_receipt,   *)
(* for expired_receipt with a timestamp long past.                         *)
BypassGate ==
    /\ pc = "bypass"
    /\ LET at == IF Job.mutation = "expired_receipt" THEN clock - 3 ELSE clock
           receipt == IF Job.mutation = "missing_receipt" THEN None
                      ELSE Receipt(work.intent, work.envelope.digest, at)
       IN  work' = [work EXCEPT !.receipt = receipt,
                                !.calls = <<Call(1, work.intent, receipt)>>]
    /\ pc' = "spawn"
    /\ UNCHANGED <<clock, todo, policyFile, processes, results>>

(* run_agentic_execution up to the broker: a recorded receipt.             *)
SendRecorded ==
    /\ pc = "start" /\ Job.program = "sample"
    /\ work' = [NoWork EXCEPT !.receipt = Job.receipt, !.since = clock,
                              !.calls = <<Call(1, Intent(Job, 0), Job.receipt)>>]
    /\ pc' = "spawn"
    /\ UNCHANGED <<clock, todo, policyFile, processes, results>>

---------------------------------------------------------------------------------
(* run_through_broker.  Popen: a broker with an empty cache, and pipes.    *)
Spawn ==
    /\ pc = "spawn" /\ pc' = "write"
    /\ broker' = [NoBroker EXCEPT !.state = "starting"]
    /\ tool' = "none" /\ pipes' = NoLines
    /\ UNCHANGED <<clock, todo, work, policyFile, faulted, deployed, results>>

NextCall == Len(work.answers) + 1

WriteCall ==
    /\ pc = "write"
    /\ IF broker.state = "dead"
       THEN pc' = "crashed" /\ UNCHANGED pipes     \* BrokenPipeError
       ELSE /\ pipes' = [pipes EXCEPT !.toBroker = Append(@, work.calls[NextCall])]
            /\ pc' = "read"
    /\ UNCHANGED <<clock, todo, work, policyFile, broker, tool, faulted, deployed, results>>

(* readline: a line, or the end of the pipe once its writer is gone.       *)
ReadAnswer ==
    /\ pc = "read"
    /\ \/ /\ pipes.toClient # <<>>
          /\ work' = [work EXCEPT !.answers = Append(@, Head(pipes.toClient))]
          /\ pipes' = [pipes EXCEPT !.toClient = Tail(@)]
       \/ /\ pipes.toClient = <<>> /\ broker.state = "dead"
          /\ work' = [work EXCEPT !.answers = Append(@, [n |-> NextCall, is |-> "end"])]
          /\ UNCHANGED pipes
    /\ pc' = IF Len(work'.answers) < Len(work.calls) THEN "write" ELSE "terminate"
    /\ UNCHANGED <<clock, todo, policyFile, broker, tool, faulted, deployed, results>>

Terminate ==
    /\ pc = "terminate"
    /\ broker' = [broker EXCEPT !.state = "dead"]
    /\ pc' = "communicate"
    /\ UNCHANGED <<clock, todo, work, policyFile, tool, pipes, faulted, deployed, results>>

(* A mistake: only the broker is waited for, not the end of stderr.        *)
CommunicateWithBroker ==
    /\ pc \in {"communicate", "communicate again"}
    /\ broker.state = "dead"
    /\ Report(Outcome(Job, work.answers[Len(work.answers)].is))
    /\ UNCHANGED <<clock, policyFile, broker, tool, pipes, faulted>>

(* communicate reads stderr to its end.  The tool has inherited it, so     *)
(* that this waits for the tool too.                                       *)
Communicate ==
    /\ pc \in {"communicate", "communicate again"}
    /\ broker.state = "dead" /\ tool # "up"
    /\ Report(Outcome(Job, work.answers[Len(work.answers)].is))
    /\ UNCHANGED <<clock, policyFile, broker, tool, pipes, faulted>>

(* Two seconds are over: kill, which is for the broker and finds it dead,  *)
(* and a second attempt, whose timeout is not caught.  The sample has no   *)
(* timeout.                                                                *)
CommunicateTimesOut ==
    /\ \/ pc = "communicate" /\ pc' = "communicate again"
       \/ pc = "communicate again" /\ pc' = "crashed"
    /\ Job.program # "sample" /\ tool = "up"
    /\ UNCHANGED <<clock, todo, work, policyFile, processes, results>>

---------------------------------------------------------------------------------
(* load_policy; the sample's broker is given a path without a file.        *)
LoadPolicy(file) == IF file = None THEN FallbackPolicy ELSE file

(* Command::spawn with pre_exec.  Exec may fail, and main panics, which    *)
(* aborts; or the privileges cannot be dropped, and the child exits.       *)
(* unshare, prctl and setrlimit may fail without an effect on what follows.*)
Launch ==
    /\ broker.state = "starting"
    /\ LET up == [broker EXCEPT !.state = "up", !.policy =
                     LoadPolicy(IF Job.program = "sample" THEN None ELSE policyFile)]
       IN  \/ broker' = up /\ tool' = "up" /\ UNCHANGED faulted
           \/ /\ Faults /\ ~faulted /\ faulted' = TRUE
              /\ broker' \in {up, [broker EXCEPT !.state = "dead"]} /\ tool' = "dead"
    /\ UNCHANGED <<clock, client, pipes, deployed>>

Verdict(call) ==
    IF call.receipt = None
    THEN IF broker.policy.require_receipt THEN "Block" ELSE "Allow"
    ELSE IF \E h \in broker.held : h.intent = call.receipt.intent THEN "Block"
    ELSE VerifyReceipt(call.receipt, call.tool, call.args, broker.policy, clock)

(* A mistake: what was approved before is not held.                        *)
HoldNothing(receipt) == {}

(* The cache after an approval: the intent is in, what is too old is out.  *)
Hold(receipt) ==
    IF receipt = None THEN broker.held
    ELSE {h \in broker.held \cup {[intent |-> receipt.intent, at |-> receipt.timestamp]} :
            h.at >= clock - broker.policy.ttl}

(* A mistake: a refused call is dropped without an answer.                 *)
BrokerForwardsOnly ==
    /\ broker.state = "up" /\ pipes.toBroker # <<>>
    /\ LET call == Head(pipes.toBroker) IN
       IF Verdict(call) = "Allow" /\ tool = "up"
       THEN /\ pipes' = [pipes EXCEPT !.toBroker = Tail(@), !.toTool = Append(@, call)]
            /\ broker' = [broker EXCEPT !.held = Hold(call.receipt)]
       ELSE /\ pipes' = [pipes EXCEPT !.toBroker = Tail(@)]
            /\ UNCHANGED broker
    /\ UNCHANGED <<clock, client, tool, faulted, deployed>>

(* stdin_task: a line is answered or forwarded.  A forward needs the tool; *)
(* without it the write fails and the task ends.                           *)
BrokerHandles ==
    /\ broker.state = "up" /\ pipes.toBroker # <<>>
    /\ LET call == Head(pipes.toBroker)
           rest == Tail(pipes.toBroker)
           refusal(is) == [pipes EXCEPT !.toBroker = rest,
                                        !.toClient = Append(@, [n |-> call.n, is |-> is])]
       IN  \/ /\ Verdict(call) = "Allow" /\ tool = "up"
              /\ pipes' = [pipes EXCEPT !.toBroker = rest, !.toTool = Append(@, call)]
              /\ broker' = [broker EXCEPT !.held = Hold(call.receipt)]
           \/ /\ Verdict(call) # "Allow"
              /\ pipes' = refusal(IF Verdict(call) = "Suspend" THEN "suspended" ELSE "error")
              /\ UNCHANGED broker
    /\ UNCHANGED <<clock, client, tool, faulted, deployed>>

(* handle_tool_call, for each line that arrives.                           *)
ToolAnswers ==
    /\ tool = "up" /\ pipes.toTool # <<>>
    /\ LET call == Head(pipes.toTool) IN
       /\ deployed' = Append(deployed, call)
       /\ pipes' = [pipes EXCEPT !.toTool = Tail(@),
                                 !.fromTool = Append(@, [n |-> call.n, is |-> "result"])]
    /\ UNCHANGED <<clock, client, broker, tool, faulted>>

(* A mistake: the line is passed on and stays in the buffer.               *)
RelayTwice ==
    /\ broker.state = "up" /\ pipes.fromTool # <<>> /\ Len(pipes.toClient) < 2
    /\ pipes' = [pipes EXCEPT !.toClient = Append(@, Head(pipes.fromTool))]
    /\ UNCHANGED <<clock, client, broker, tool, faulted, deployed>>

(* stdout_task                                                             *)
RelayAnswer ==
    /\ broker.state = "up" /\ pipes.fromTool # <<>>
    /\ pipes' = [pipes EXCEPT !.fromTool = Tail(@),
                              !.toClient = Append(@, Head(pipes.fromTool))]
    /\ UNCHANGED <<clock, client, broker, tool, faulted, deployed>>

(* The tool ends after its broker: killed with its parent, or, if setuid   *)
(* cleared that signal, at the end of its input, with whatever it still    *)
(* read before.                                                            *)
ToolEnds ==
    /\ tool = "up" /\ broker.state = "dead"
    /\ tool' = "dead"
    /\ UNCHANGED <<clock, client, broker, pipes, faulted, deployed>>

ToolFails ==
    /\ Faults /\ ~faulted /\ tool = "up"
    /\ tool' = "dead" /\ faulted' = TRUE
    /\ UNCHANGED <<clock, client, broker, pipes, deployed>>

(* The thread of the watcher panics: the release build aborts.             *)
BrokerFails ==
    /\ Faults /\ ~faulted /\ broker.state = "up"
    /\ broker' = [broker EXCEPT !.state = "dead"] /\ faulted' = TRUE
    /\ UNCHANGED <<clock, client, tool, pipes, deployed>>

(* child.wait returns: both tasks are aborted, with what was not relayed.  *)
(* main returns, and the process waits for its watcher thread, unless that *)
(* thread never started.                                                   *)
BrokerEnds ==
    /\ broker.state = "up" /\ tool = "dead"
    /\ \E s \in {"dead", "lingering"} : broker' = [broker EXCEPT !.state = s]
    /\ UNCHANGED <<clock, client, tool, pipes, faulted, deployed>>

Tick ==
    /\ clock < MaxClock /\ pc \notin {"done", "crashed"}
    /\ clock' = clock + 1
    /\ UNCHANGED <<client, processes>>

---------------------------------------------------------------------------------
Client ==
    \/ MakeIntent \/ CollectEvidence \/ EvaluateRefuses \/ EvaluateAccepts
    \/ IssueReceipt \/ BypassGate \/ SendRecorded
    \/ Spawn \/ WriteCall \/ ReadAnswer \/ Terminate
    \/ Communicate \/ CommunicateTimesOut

BrokerProcess == Launch \/ BrokerHandles \/ RelayAnswer \/ BrokerEnds

ToolProcess == ToolAnswers \/ ToolEnds

Next == Client \/ BrokerProcess \/ ToolProcess \/ ToolFails \/ BrokerFails \/ Tick

Spec == Init /\ [][Next]_vars

(* Each of the three processes runs when it can; stdin_task and            *)
(* stdout_task are tasks of their own.  Nothing is assumed of the clock    *)
(* and of faults.                                                          *)
FairSpec ==
    /\ Spec
    /\ WF_vars(Client)
    /\ WF_vars(Launch) /\ WF_vars(BrokerHandles) /\ WF_vars(RelayAnswer)
    /\ WF_vars(BrokerEnds)
    /\ WF_vars(ToolAnswers) /\ WF_vars(ToolEnds)

---------------------------------------------------------------------------------
Waiting == {"write", "read", "terminate", "communicate", "communicate again"}

(* The jobs of a suite, its position, the processes and their pipes.       *)
TypeOK ==
    /\ clock \in 0..MaxClock
    /\ pc \in Waiting \cup {"start", "collect", "evaluate", "issue", "bypass", "spawn",
                           "done", "crashed"}
    /\ \E suite \in Suites : suite = [k \in 1..Len(results) |-> results[k].job] \o todo
    /\ pc = "done" <=> todo = <<>>
    /\ broker.state \in {"none", "starting", "up", "lingering", "dead"}
    /\ tool \in {"none", "up", "dead"} /\ faulted \in BOOLEAN
    /\ Len(pipes.toBroker) + Len(pipes.toTool) + Len(pipes.fromTool)
          + Len(pipes.toClient) <= 1
    /\ Len(work.answers) <= Len(work.calls)

Finished == {results[k] : k \in DOMAIN results}

(* What each job that ran, or is under way, has deployed.                  *)
Deployments ==
    {[job |-> x.job, count |-> Len(x.deployed)] : x \in Finished}
    \cup (IF todo = <<>> THEN {} ELSE {[job |-> Job, count |-> Len(deployed)]})

(* An attack that is expected to be blocked deploys nothing, and a replay  *)
(* deploys once: however late each process runs, whichever of them fails,  *)
(* and whatever ran before (attacks/*.json against riskgate_service.py,    *)
(* main.rs:185-330 and crypto.rs:61-200).                                  *)
AttackNeverDeploys ==
    \A x \in Deployments :
        x.job.expected \in {"BROKER_BLOCK", "RISK_GATE_BLOCK"}
            => x.count <= IF x.job.mutation = "replay_attack" THEN 1 ELSE 0

Success == {"ALLOW", "0", "SUCCESS"}

(* A success is reported only for a deployment, also when a process failed *)
(* meanwhile; and unless one did, nothing else was deployed than what is   *)
(* reported, but for the first call of a replay (redteam_runner.py:68-75,  *)
(* orchestrator.py:73 and 113, orchestrator_middleware.py:89-96).          *)
VerdictFollowsDeployment ==
    \A x \in Finished :
        /\ x.actual \in Success => x.deployed # <<>>
        /\ ~x.faulted /\ x.actual \notin Success
              => x.deployed = <<>> \/ x.job.mutation = "replay_attack"

(* A job that takes no longer than the time-to-live, without a failure,    *)
(* reports what its specification expects (attacks/*.json,                 *)
(* redteam_runner.py:147-163).                                             *)
TimelyVerdictIsPass ==
    \A x \in Finished :
        ~x.faulted /\ x.timely /\ x.job.expected # None
            => expected_matches(x.job.expected, x.actual)

(* No broker and no tool outlives the call of run_through_broker that      *)
(* started them, by whatever way they ended (orchestrator.py:76-82,        *)
(* orchestrator_middleware.py:80-84, main.rs:114 and 125).                 *)
ReturnedMeansReaped ==
    pc \notin Waiting \cup {"crashed"} => broker.state \in {"none", "dead"} /\ tool # "up"

(* The answers are matched to the calls by their order alone: the k-th     *)
(* line the client reads answers its k-th call, although two tasks of the  *)
(* broker write them; and a client reads the end of its pipe only if a     *)
(* process failed (orchestrator.py:70-74, main.rs:163 and 191).            *)
AnswersMatch ==
    \A k \in DOMAIN work.answers :
        /\ work.answers[k].n = k
        /\ work.answers[k].is = "end" => faulted

(* Without a failure every suite comes to its end, or to the exception of  *)
(* a second timeout: the client waits for lines and for the end of both    *)
(* processes without a limit of its own (orchestrator.py:73 and 77-81).    *)
SuiteEnds == <>(pc \in {"done", "crashed"} \/ faulted)
================================================================================
