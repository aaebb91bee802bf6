# Verification of risk-gated execution

TLA+ models, TLC runs and TLAPS proofs for this repository: the Rust stdio
broker that lets an agent's tool calls through only with a signed receipt, the
Python gate that issues those receipts, and the benchmark that compares the gate
with weaker engines. Paths below are relative to `src/`.

## The system

| Component | State | Operations | Modules |
| --- | --- | --- | --- |
| Receipt verification (`code/mcp_stdio_broker/src/crypto.rs`, `models.rs`) | none | `verify_receipt` | `ReceiptVerification`, `ReceiptLifetime` |
| Broker request path (`main.rs`, `stdin_task`) | idempotency cache, policy snapshot, the line in hand | read, reserve, verify, settle, forward, refuse | `Broker` and its family, `ExecuteOnce` |
| Policy reload (`main.rs`, `load_policy` and the watcher) | `rcu_config`, channel of file events | load, watch, reload | `PolicyReload` (in detail), `Broker` (its effect) |
| Response relay, shutdown (`main.rs`, `stdout_task`, end of `main`) | pipes, tasks | relay a line, abort, wait | `VerticalSlice`; the end of the child also in `Broker` |
| Actuator launch (`main.rs:106-158`) | credentials, namespaces, limits of the child | `pre_exec`, `spawn` | `VerticalSlice` (how it ends) |
| Risk gate (`riskgate_service.py`) | its policy | `evaluate`, `write_broker_policy` | `GateChecks`, `DeploymentGate`, `VerticalSlice` |
| Evidence provider (`evidence_provider.py`) | none | `collect_signed_evidence` | `GateChecks`, `DeploymentGate` |
| Signing utilities (`crypto_utils.py`) | none | bind, sign, verify | symbolic, in `GateChecks` |
| Orchestrator (`orchestrator.py`), red-team runner (`redteam_runner.py`), middleware sample (`orchestrator_middleware.py`) | a broker process per run, intents, answers | `run_demo`, `run_attack`, `run_through_broker`, `run_agentic_execution` | `VerticalSlice` |
| Deployment tool and mock server (`deployment_tool.py`, `dummy_mcp.py`) | none | answer a line | `VerticalSlice` |
| Benchmark (`code/risk_gated_execution/`) | rows, audit ledger, ablations, six files | `run`, `run_ablations`, `summarize`, `write_outputs`, three engines | `BenchmarkGate`, `BenchmarkScenarios`, `BenchmarkRun` |
| Development tools | none | | not modelled |

How they interact. The control plane writes a policy file; the broker loads it
at the start and again at each file event, and keeps it in a cell that readers
take a snapshot of. The gate judges signed evidence about a target and issues a
receipt that binds intent, action, target, arguments, evidence digest and time.
The agent puts the receipt into a `tools/call` line. The broker reads one line at
a time: it takes a snapshot of the policy, reserves the receipt's intent in the
cache, verifies the receipt on another thread, and then either keeps the
reservation, prunes the cache and writes the line to the child, or rolls the
reservation back and answers the client with an error.

What is hard about it:

* Between the reservation and the settling of the cache the task waits for
  another thread. The clock moves (or is set back) and the policy is replaced.
* The cache forgets receipts by age. It has to remember each of them exactly as
  long as the verification, which reads the clock itself, would accept it.
* Every path that refuses has to undo the reservation, no more and no less.
* The process may end between any two steps, and the cache is not persisted.
* The policy file is read by a thread that was told of some event, possibly in
  the middle of a write, possibly too late.
* The gate and the broker are written in two languages, read their own clocks,
  and check the same lists with different conventions.
* Three processes share four pipes. Each may end by itself, two tasks write the
  client's lines, and the client tells answers apart by their order alone.
* The benchmark writes six files one by one over those of an earlier run.

`PROJECT.json` lists these hazards at their lines, with the properties that watch them. Where
the code does suffer what a hazard names, as when a lost response is reported as a refusal or a
killed benchmark leaves a mixture of files, no property forbids it: the models have the step, and the
note of the hazard says which properties exempt it.

## Modules and their correspondence to the code

**`ReceiptVerification`** is `verify_receipt` as operators, one per group of
checks, in the order of the code as far as the three decisions tell it apart: a
call without its quorum is suspended before its signature is looked at. Names are
uninterpreted values. A signature is the pair of the key and the text it was made
over. That text (`Binding`) is the code's `format!` string as a sequence of words: the
labels, and between them the words of each field (`Text`, `Canonical`), which may be labels
too. Neither program escapes a field or looks for a label in it, so that the text does not
determine the fields: an intent id, an action, a digest or a string in the
arguments that contains a label lets two calls share one text. A label has its bar
at the front and nowhere else, so that none arises where two fields meet.
Arguments are a record of what the
scanning functions find in them. `now + 30` is not checked for overflow.

**`Broker`** is `stdin_task` with the cache, the snapshot, reloads, restarts and
the clock. `pc` says where the task is; its steps are cut at the awaits
(verification, write to the child, write of an answer) and at the end of the
reservation. The cache maps a timestamp to the set of intent ids under it, as the
`BTreeMap<i64, Vec<String>>` does; ids enter a vector only after the whole map
was searched for them, so that a set stands for it. A rollback keeps
the emptied entry and an approval prunes by age, as in the code. `reads`,
`toChild`, `refused`, `at`, `epoch` and `life` are histories; no guard of the
broker's own steps reads them, but for the bound on `reads`. A line that ends the
input for being too long is answered under a null id; that answer is
not kept in `refused`, which holds the answers to lines. `ReloadPolicy` may store
any policy or the fallback at any time; `PolicyReload` says when it does. A crash
and a new start are one action, `Restart`, possible between any two steps.
The processing of a line never runs concurrently with that of another: there is one
task and it awaits. The definitions under "A mistake" are forms that a defect in the code could take. No behaviour
uses them; substituted for the definition that follows, each breaks a property.

**`BrokerProperties`** states what the broker promises, and what the repository's
documents say of it that it does not keep. **`BrokerInvariant`** has the inductive
strengthenings.

**`ReceiptLifetime`** applies `verify_receipt` to one receipt over time; the
environment lets time pass, tightens the policy and alters the call, in as many of its
fields together as it likes, and keeps the signature. `SignedPlainly` says that no field of the call that was
*signed* contains a label. It is a hypothesis of `AllowedAsIssued` and of
`SuspendedReceiptIsDead` and not of the model: nothing in `riskgate_service.py` or `crypto.rs`
ensures it, and where it fails the approval may be that of another call as well. What a caller of
the gate has to see to is thus that intent ids and the other fields are free of labels; the intents the programs
of this repository make are. Of the call that is made nothing is assumed.

**`ExecuteOnce`** is what a client may rely on, without lines, cache, clock or
policies: a counter per receipt. `BrokerProperties` instantiates it with the counters
taken from the histories of `Broker`. They count, so that a second execution
would map to a step `ExecuteOnce` does not have; with a set of executed receipts it
would map to a stutter, and the refinement would hold of anything.

**`PolicyReload`** has the writer of the file (in place, as `write_broker_policy`
does, or at once, as a ConfigMap update does), the initial load, the registration
of the watch by a thread that `main` starts afterwards, and the event loop. Loading
and storing are two steps. The notify backend may report that a load opened the
file, so that each load may cause another. The loop passes over events that name
neither `riskgate.json` nor `..data`: under another name (`named`) a write in place is not
announced, a ConfigMap update is.

**`GateChecks`** is what the Python side computes: envelopes, the gate's checks, the
receipt and the published policy. **`DeploymentGate`** composes the evidence
provider, the gate and the broker's verdict. `Evaluate` is the part of `evaluate` up
to the last check, `IssueReceipt` the rest: the clock is read again in between. A
refused evaluation changes nothing and is not a step. The provider's `subject` is
fixed to one service in the code; here a profile names it, so that evidence about
another service exists. Dry-run is a flag, while the gate takes any true value for it
and the broker only the JSON `true`.

**`VerticalSlice`** composes the programs. A suite is a sequence of jobs: an attack
of the red-team runner, a run of the demo, or the sample. The client makes an intent and
collects evidence, asks the gate or goes around it, starts a broker, writes a line,
reads a line, terminates and communicates, one action each. The broker launches the
tool, handles a line (in one step: `Broker` has what happens inside it), relays a
line and ends. The pipes are sequences of lines. Faults (`Launch` that fails, `ToolFails`,
`BrokerFails`) happen at most once per suite. What is easily overlooked and is in the model:
`exec` that fails aborts the broker, while a failed privilege drop leaves one that approves calls
for a dead child; when the child ends the tasks are aborted with what they have not relayed; the process may then
stay, since the watcher's thread blocks (`lingering`); `readline` at the end of
a pipe reads as an empty object; `communicate` waits for the tool as well, which
has inherited stderr.

`SuiteAssumption` says what a job and its label have to do with each other, as far as it can
be read off `attacks/*.json` and the policies without running anything: a job labelled
`RISK_GATE_BLOCK` asks the gate and fails a check of it that does not depend on the clock, one labelled
`BROKER_BLOCK` has no receipt, an expired one, one for a target the broker's policy
does not list, a payload other than the approved one, or is a replay; one labelled `ALLOW` has
a sound intent. Tampering with the arguments changes their canonical text. Jobs without a label are not constrained. TLC evaluates it on the attacks and profiles of the code.

**`BenchmarkGate`** has the three engines, the two actuators and the ledger;
**`BenchmarkScenarios`** the twelve fixtures, reduced to what the engines look at;
**`BenchmarkRun`** the program: the loop of `run`, the six variants of
`run_ablations`, `summarize`, and the files, each truncated and then filled, with a
program that is killed and started again. Reasons and times are left out. The row of
a scenario under a configuration is a value, so that a figure is a cardinality.

**`MCBroker`**, **`MCReceiptLifetime`**, **`MCDeploymentGate`**, **`MCVerticalSlice`** and
**`MCBenchmarkRun`** give the constants of the runs; the modules named `...Proofs` have the theorems.

## What the runs check

Bounds are constants of the modules: `MaxClock`, `MaxLines`, `MaxEpoch`,
`MaxLives`, `MaxVersion`, `MaxEnvelopes`, `MaxIssued`, `MaxExecuted`, `MaxRuns`.
All runs have `CHECK_DEADLOCK FALSE`: at the bounds, at a closed pipe, at the end of a
suite, or when nothing is published any more, the systems do stop.

| Run | Bounds | Properties |
| --- | --- | --- |
| `BrokerOnce` | 3 lines of 6, clock 0..3, one reload, one restart | `TypeOK`, `ClockedInv`, `IntentSpacing`, `SingleExecution`, `ReservationsInWindow` |
| `BrokerClock` | 3 lines of 6, clock 0..2 both ways, one reload | `UnclockedInv`, `NothingUnverified`, `NoPhantomReservation`, `NoFalseReplay`, `OneStaleForward` |
| `BrokerLive` | 2 lines of 6, clock 0..2, one reload, one restart | `EveryLineConcludes`, `ImplementsExecuteOnce` |
| `ReceiptLifetime` | clock 0..4, two of each kind of name, two of them with a label inside, 3 kinds of arguments | `AllowedAsIssued`, `SuspendedReceiptIsDead`, `ExpiryIsFinal`, `TighteningNeverAllows` |
| `PolicyReload` | 3 versions, both namings | `TypeOK`, `PolicyNeverReverts`, `NoReloadPending`, `WatchedChangeLands` |
| `DeploymentGate` | clock 0..3, two envelopes, one receipt and execution, two policies | `TypeOK`, `EvidenceAgeBounded`, `ExecutedOnSoundEvidence`, `GateAndBrokerAgree`, `BrokerListsAsStrict` |
| `VerticalSlice` | 32 suites of one or two jobs, clock 0..3, one fault | `TypeOK`, `AttackNeverDeploys`, `VerdictFollowsDeployment`, `TimelyVerdictIsPass`, `ReturnedMeansReaped`, `AnswersMatch`, `SuiteEnds` |
| `BenchmarkRun` | the 12 fixtures and 64 plans of 6, 0 to 2 iterations, two runs | `TypeOK`, `GateExecutesTheSound`, `EnginesAreOrdered`, `FixturesBehaveAsLabelled`, `PublishedFigures`, `EachAblationTells`, `AblationsOnlyLoosen`, `ArtifactsAgree` |

Why the bounds are enough.

* To execute a receipt twice takes its two calls and one call in between that
  disturbs the cache: three lines. The lines have two intents under one timestamp,
  one intent reissued, one call of each refusal and one without a receipt; the clock
  passes the window of every receipt, with a time-to-live and a skew of one tick. The
  replay needs one life, losing the cache two. Reloads matter in pairs of policies, so
  that one suffices.
* `ReceiptLifetime` has an intent and an action that contain a label, and with them two pairs of an
  intent and an action that share one text: without `SignedPlainly` TLC finds the call approved that was not signed.
  Two names of each kind let any set of fields be altered. Targets and digests are
  interchangeable (`SYMMETRY`); the run has no liveness property. The clock passes the window of every timestamp.
* Three versions let a policy be superseded while its successor is being loaded.
* Two envelopes let evidence arrive between the checks and the receipt; the clock
  reaches the sum of the two times-to-live.
* `VerticalSlice` has every attack of `attacks/`, every profile of the demo, the
  sample under two keys, and each pair of attacks that follow each other in the suite,
  with further pairs in which the first job leaves something behind. A
  time-to-live of 2 stands for the 60 seconds and a clock of 3 outlasts it. Nothing but the
  policy file and the clock passes from one job to the next, so that pairs suffice.
* The plans of `BenchmarkRun` vary everything that the engines look at, with
  ages at the time-to-live and one second past it. Two iterations tell figures per scenario from
  figures per row; with none the program fails. Files of one earlier run are all that a run can find.

Four runs end in a counterexample. Each checks a sentence of the repository.

| Run | Property | What happens |
| --- | --- | --- |
| `TTLZero` | `SingleExecution` | With a time-to-live of 0 ages are not checked, and the next approval prunes receipts older than now. |
| `FallbackAllows` | `FallbackBlocks` | The fallback accepts any target under the compiled-in key. |
| `UntypedCalls` | `ToolCallsAreGated` | A `tools/call` without an id does not deserialize and is forwarded. |
| `StartupGap` | `EveryChangeLands` | A change between the initial load and the watch is not noticed. |

Two sentences of `RED_TEAM_PUBLICATION_REVIEW.md` are not checked by a run, and were found
too strong while modelling: line 27 says "constant memory footprint", but the entries that a rollback empties stay,
and nothing bounds their number; line 42 says children are "guaranteed to
die instantly", but `setuid` (`main.rs:146`), where it changes the user, clears the parent-death signal that `prctl` set before it,
which is why `ToolEnds` of `VerticalSlice` comes at any time after the broker's end.

## Fairness

`FairSpec` of `Broker` has weak fairness of `HandleLine`: the runtime runs a ready
task, the blocking pool runs a closure it was given, and the child keeps reading,
so that a write ends or fails. Nothing is assumed of the client, the clock, the
watcher or restarts. `PolicyReload` has weak fairness of the broker's threads and
of the end of a write that was begun (`write_text` is one call); nobody has to
publish anything. If every load raises an event the loop of loads never ends, and the last
change still lands, since each load reads the file as it is. `FairSpec` of
`VerticalSlice` has weak fairness of the client and of the tool, which are programs of one
thread, and of each of the broker's tasks, which the runtime schedules apart; the
operating system runs all three. Clock and faults have none.
`SuiteEnds` says nothing of a suite in which a process failed: a broker whose tool
died may linger, and the client then reads from its pipe for ever.

## What is proved

All theorems hold for every value of the constants that satisfies the assumptions
their modules name. TLC evaluates those assumptions in each run.

`BrokerProofs` and `BrokerOnceProofs`, from `VerificationAssumption` (skew and
fallback time-to-live are numbers) and `BrokerAssumption` (timestamps and
times-to-live are integers, `None` is not a line):

* `TypeCorrect`: `TypeOK` and `TurnOK`, inductive together. `TurnOK` says what
  each value of `pc` means: that a line about to be settled has a decision, that an
  approved one was approved under its snapshot at the time recorded.
* `AlwaysVerified`: `NothingUnverified`, from `TurnOK`, as only `Forward` adds to
  the log.
* `NoPhantoms` and `ReplaysAreReplays`: `NoPhantomReservation` and `NoFalseReplay`, from `Explained`: each
  reservation is that of an executed call or of the call in flight.
* `AtMostOneStale`: `OneStaleForward`, from `EpochsOK`: the snapshot is no older than the last write.
* `UnclockedHolds`: the conjunction of these, `UnclockedInv`, is an invariant.
* `IntentsAreSpaced`, if the clock is never set back: two executions of one intent
  in one life are apart by more than the time-to-live of some policy. The invariant
  is `Remembered`: an executed call is in the cache until its receipt was outlived,
  and the call in flight came after all earlier executions of its intent
  were. `IntentSpacing` itself is not inductive, since it does not mention the cache. `ClockedHolds` is
  the invariant as a theorem.
* `ReceiptsExecuteOnce`, if moreover all policies, the fallback too, have the same
  time-to-live: `SingleExecution`. A second execution would be of a receipt that was outlived, and
  an approved receipt is not older than its policy's time-to-live. The hypotheses are needed: `TTLZero`
  violates the second, a reload that raises the time-to-live makes a pruned receipt fresh again, and a
  restart begins with an empty cache.
* `RefinesExecuteOnce`, under the same hypotheses: every behaviour of `Broker` is one of `ExecuteOnce`.
  A `Forward` of a receipt is `Execute`, because its counter is still 0 by
  `SingleExecution`; a refusal as a replay is `RefuseReplay`, by `ReplaysExplained`; a `Restart`
  is `StartAnew`; all else stutters.
* `ReservationsAreInWindow`, if the clock is never set back and every policy that is loaded, the fallback too, has
  a positive time-to-live: `ReservationsInWindow`. The pruning of an approval removes what is too old; that
  nothing left is too new needs the invariant `NotAhead`, by which only the reservation of the call
  in hand, which is not verified yet, may be further in the future than the skew. With a time-to-live of 0 the freshness
  check is skipped and `NotAhead` is false.

`ReceiptLifetimeProofs`: `ApprovesOneCall`, `ApprovalsAreSigned`, `WindowsClose` and
`StricterIsStricter`, that is, all four properties of `ReceiptLifetime`. The invariant
says that the receipt still has the signature it was issued with. What the equality of two bound texts then says of
the calls is the lemma `BindingIsRead`: the timestamp, which is the last word, is the same; and if the
fields of one of the two contain no label, the others are too. For then each label occurs once in
that text, hence once in the other, and there is one way to cut both (`Split`, label by label from the end).
`LifetimeAssumption` says that a name or digest is told by its text, as it is the text, and arguments by their canonical form;
it says nothing of what the texts contain.

`PolicyReloadProofs`: `TypeCorrect`, `NeverReverts` and `NothingForgotten`. The invariant
`VersionsOrdered` orders the versions in the file, in the watcher's hand and in force;
`Announced` says that the version announced last is on its way: as an event, as
the loaded policy, or in force.

`DeploymentGateProofs`: `TypeCorrect`, `AgeIsBounded`, `SoundEvidence`, `GateMeansBroker` and
`ListsAsStrict`, all the invariants of `DeploymentGate`. The invariant
keeps with each receipt the judgement it was issued on (`WellIssued`), across changes of the
gate's policy. From `GateAssumption` (the policies trust the provider's key, the
gate's key is one that decodes, well-formed requests have canonical arguments) and
`SignatureAssumption` (a signature decodes).

`VerticalSliceProofs`: `NothingOutlivesItsRun` (`ReturnedMeansReaped`) and
`AnswersBelongToCalls` (`AnswersMatch`), for any suites and with faults. Neither is inductive:
that the k-th line read answers the k-th call needs `LineInv`, by which at most one line is on its way and
is, in whichever pipe, the call the client waits for or its answer, unless a dead broker left it
behind; that the pipe ends only after a failure needs `ProcessInv`, by which, as long as the client talks to its
broker, only a fault ends one of the two processes.

`VerticalSliceVerdictProofs`: `SliceTypes` (`TypeOK`), `NoAttackDeploys` (`AttackNeverDeploys`),
`VerdictsAreTrue` (`VerdictFollowsDeployment`) and `TimelyVerdictsPass` (`TimelyVerdictIsPass`), the other
invariants of `VerticalSlice`, from `SuiteAssumption`: for any suites of rightly labelled jobs in any order, any
time-to-live and any gate's policy patch. The first three also hold with faults and with a client as slow as it likes.
Their invariant, `VerdictInv`, adds to the one above

* `MadeInv`: what the client holds was made of its job, the file has the job's policy, and
  the calls it is about to send are those the label is about (`CallsOK`): to that end the assumption about
  the label is followed through the gate, with the clock readings of its evidence and its receipt;
* `RunInv`: the broker that is up runs under the job's policy, and it holds a receipt in its cache only
  after it has seen a call;
* `QuotaInv`: an attack that is to be blocked has deployed nothing, a replay at most once, and once its first
  call is on the way to the tool the broker holds its intent;
* `ShownInv` and `TimelyInv`: among the lines on their way to the client and those it read is a result
  if, and without a fault only if, something was deployed; while the job is in time, each is the right answer;
* `ResultsInv`: the three promises, for each job that is over.

A line that is on its way is in one of four pipes; the proofs speak of the sets of lines given to the tool and returned by
it (`Sending`, `Given`, `Returned`), so that relaying a line changes nothing they mention.

`BenchmarkProofs`: all eight invariants of `BenchmarkRun`, from `BenchmarkAssumption` and `PlanAssumption` (no scenario
occurs twice in a plan).

* `TypeCorrect`, `GateIsExact`, `EnginesOrdered`: for all plans, from what a row is.
* `AblationsLoosen`: for all plans. The invariant `FiguresInv` says that the run under way
  is a prefix of what a run of its configuration comes to (`RowsOf`), whatever its place in the program, and
  that each row of the table was computed from all of it. With fewer checks the gate executes a larger set of turns, and
  the figures are cardinalities of it.
* `FilesAgree`: for all plans and files left by earlier runs. The invariant `ArtifactsInv` says that
  the files written so far have this run's content, and that the ledgers of the main run and of the first
  variant are equal: both runs extend the same ledger row by row (`Trace`). Without the second the summary and the
  first row of the table could disagree about the records.
* `FixturesAreRight`: each of the twelve fixtures has the flaw that `FlawOf` gives it and no
  other (`Flawed`), one lemma per fixture; `EnginesOfFlaw` then says what each engine makes of a flaw under any
  set of checks.
* `FiguresArePublished` and `AblationsTell`: for any number of iterations. A set of fixtures takes its
  cardinality times the iterations in turns (`CountOfTurns`), and the flaws say which sets they are.

Only model-checked: `EveryLineConcludes`, `WatchedChangeLands` and `SuiteEnds`. They are liveness under fairness,
which this prover does not do. Every safety property that a passing run checks is a theorem.

## What is not modelled

* JSON, base64, canonicalization, hashing and curve arithmetic: libraries, taken to
  do what they promise. The canonical form is one function of the arguments for both
  programs. Malformed or forged envelopes, since every caller in the repository passes on
  what `collect_signed_evidence` returned; `ExecutedOnSoundEvidence` says nothing of them.
* Overflow of 64-bit timestamps (`now + 30`, `now - ttl`).
* Panics: the release profile aborts, which is a `Restart` of `Broker` and a fault of
  `VerticalSlice`. `VerifyAborted` of `Broker` is for builds that unwind.
* Namespaces, resource limits and the environment of the child: they change what the tool
  may do, not what the model sees. The capacity of the stderr pipe, which is read only at the end.
* Lines over the frame limit in the relay; the request path has them.
* Decision times and their quantiles, logging, and what is printed.
* `shadow_actuator.py`, which nothing in the repository starts, and the development tools.

## Plan

1. `PolicyReload` composed with `Broker`: the reloads of the latter are those the former makes.
   Stated as a refinement, with the step of the watcher mapped to `ReloadPolicy`, and proved.
2. The safety half of the liveness properties as theorems: that a line in hand always has a step of the
   broker to take but for a closed pipe, by which `EveryLineConcludes` could only fail by unfairness.
3. Fewer hypotheses: how far apart two executions of an intent still are when the clock is set back by a
   bounded amount, since a receipt that was pruned may then be fresh again.
4. Larger instances: two receipts and executions in `DeploymentGate`, three jobs in `VerticalSlice`.
