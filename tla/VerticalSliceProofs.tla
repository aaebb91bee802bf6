--------------------------- MODULE VerticalSliceProofs ---------------------------
(***************************************************************************)
(* The processes and the pipes of the deployment slice, for any suites and *)
(* policies: nothing outlives its run, and answers belong to their calls.  *)
(***************************************************************************)
EXTENDS VerticalSlice, TLAPS

States == {"none", "starting", "up", "lingering", "dead"}

Answers == [n : Nat, is : {"result", "error", "suspended", "end"}]

Before == {"start", "collect", "evaluate", "issue", "bypass", "spawn"}

(* The records have their fields.                                          *)
Shapes ==
    /\ work = [intent |-> work.intent, envelope |-> work.envelope,
               receipt |-> work.receipt, calls |-> work.calls,
               answers |-> work.answers, since |-> work.since]
    /\ broker = [state |-> broker.state, policy |-> broker.policy, held |-> broker.held]
    /\ broker.state \in States
    /\ faulted \in BOOLEAN

(* Once its run is over nothing is left of it, and while a client talks to *)
(* its broker only a fault ends a process.                                 *)
ProcessInv ==
    /\ ReturnedMeansReaped
    /\ pc \in {"write", "read"} /\ "dead" \in {broker.state, tool} => faulted

(* The calls are numbered, and there is a next one to be written.          *)
CallInv ==
    /\ \E S : work.calls \in Seq(S)
    /\ \A k \in 1..Len(work.calls) : work.calls[k].n = k
    /\ pc \in Before => work.answers = <<>>
    /\ pc = "spawn" => Len(work.calls) > 0
    /\ pc = "write" => Len(work.answers) < Len(work.calls)

(* A pipe holds the line and the others are empty.                         *)
ToBroker(line) == [NoLines EXCEPT !.toBroker = <<line>>]
ToTool(line)   == [NoLines EXCEPT !.toTool = <<line>>]
FromTool(line) == [NoLines EXCEPT !.fromTool = <<line>>]
ToClient(line) == [NoLines EXCEPT !.toClient = <<line>>]

(* At most one line is on its way: the call whose answer the client waits  *)
(* for, or that answer; unless the broker ended and left it behind.        *)
Awaited == IF pc = "read" THEN {NextCall} ELSE {}

Abandoned == IF broker.state = "dead" THEN Nat ELSE {}

LinesOK(lines, awaited, abandoned) ==
    \/ lines = NoLines
    \/ \E line : /\ lines \in {ToBroker(line), ToTool(line)}
                 /\ line.n \in awaited \cup abandoned
    \/ \E line \in Answers : /\ lines = FromTool(line) /\ line.is # "end"
                             /\ line.n \in awaited \cup abandoned
    \/ \E line \in Answers : /\ lines = ToClient(line) /\ line.is # "end"
                             /\ line.n \in awaited

LineInv == LinesOK(pipes, Awaited, Abandoned)

AnswerInv == work.answers \in Seq(Answers) /\ AnswersMatch

SliceInv == Shapes /\ ProcessInv /\ CallInv /\ LineInv /\ AnswerInv

(* What the lines in the pipes are, one pipe at a time.                    *)
LEMMA PipeFields ==
    ASSUME NEW line
    PROVE  /\ NoLines = [toBroker |-> <<>>, toTool |-> <<>>, fromTool |-> <<>>, toClient |-> <<>>]
           /\ ToBroker(line) = [toBroker |-> <<line>>, toTool |-> <<>>,
                                fromTool |-> <<>>, toClient |-> <<>>]
           /\ ToTool(line) = [toBroker |-> <<>>, toTool |-> <<line>>,
                              fromTool |-> <<>>, toClient |-> <<>>]
           /\ FromTool(line) = [toBroker |-> <<>>, toTool |-> <<>>,
                                fromTool |-> <<line>>, toClient |-> <<>>]
           /\ ToClient(line) = [toBroker |-> <<>>, toTool |-> <<>>,
                                fromTool |-> <<>>, toClient |-> <<line>>]
  BY DEF NoLines, ToBroker, ToTool, FromTool, ToClient

LEMMA OneLine ==
    ASSUME NEW line
    PROVE  /\ <<line>> # <<>> /\ Head(<<line>>) = line /\ Tail(<<line>>) = <<>>
           /\ Append(<<>>, line) = <<line>>
  OBVIOUS

LEMMA EmptySequence ==
    <<>> \in Seq({}) /\ <<>> \in Seq(Answers) /\ Len(<<>>) = 0 /\ DOMAIN <<>> = {}
  OBVIOUS

LEMMA NoWorkFields ==
    /\ NoWork = [intent |-> NoWork.intent, envelope |-> NoWork.envelope,
                 receipt |-> NoWork.receipt, calls |-> NoWork.calls,
                 answers |-> NoWork.answers, since |-> NoWork.since]
    /\ NoWork.calls = <<>> /\ NoWork.answers = <<>>
  BY DEF NoWork

LEMMA InitOK == Init => SliceInv
<1> SUFFICES ASSUME Init PROVE SliceInv
  OBVIOUS
<1>1. pc = "start" /\ work = NoWork /\ broker = NoBroker /\ tool = "none" /\ pipes = NoLines
      /\ faulted = FALSE
  BY DEF Init
<1>2. work.calls = <<>> /\ work.answers = <<>>
  BY <1>1, NoWorkFields
<1>3. Shapes
  BY <1>1, NoWorkFields DEF Shapes, NoBroker, States
<1>4. ProcessInv
  BY <1>1 DEF ProcessInv, ReturnedMeansReaped, NoBroker
<1>5. CallInv
  BY <1>1, <1>2 DEF CallInv
<1>6. LineInv
  BY <1>1 DEF LineInv, LinesOK
<1>7. AnswerInv
  BY <1>2 DEF AnswerInv, AnswersMatch
<1> QED BY <1>3, <1>4, <1>5, <1>6, <1>7 DEF SliceInv

---------------------------------------------------------------------------------
(* The client before it starts a broker: the processes of its last run     *)
(* are gone, and it has not read anything.                                 *)
WorkOK(w) ==
    /\ w = [intent |-> w.intent, envelope |-> w.envelope, receipt |-> w.receipt,
            calls |-> w.calls, answers |-> w.answers, since |-> w.since]
    /\ \E S : w.calls \in Seq(S)
    /\ \A k \in 1..Len(w.calls) : w.calls[k].n = k
    /\ w.answers = <<>>

LEMMA QuietStep ==
    ASSUME SliceInv, UNCHANGED <<broker, tool, pipes, faulted>>,
           \/ pc \in Before
           \/ pc \in {"communicate", "communicate again"} /\ broker.state = "dead" /\ tool # "up",
           pc' \in Before \cup {"done"}, WorkOK(work'),
           pc' = "spawn" => Len(work'.calls) > 0
    PROVE  SliceInv'
<1> USE DEF SliceInv
<1>1. Shapes'
  BY DEF Shapes, WorkOK
<1>2. ProcessInv'
  BY DEF ProcessInv, ReturnedMeansReaped, Waiting, Before
<1>3. CallInv'
  BY DEF CallInv, WorkOK, Before
<1>4. LineInv'
  <2>1. Awaited = {} /\ Awaited' = {} /\ Abandoned' = Abandoned
    BY DEF Before, Awaited, Abandoned
  <2> QED BY <2>1 DEF LineInv
<1>5. AnswerInv'
  <2>1. work'.answers = <<>>
    BY DEF WorkOK
  <2>2. work'.answers \in Seq(Answers) /\ DOMAIN work'.answers = {}
    BY <2>1, EmptySequence
  <2> QED BY <2>2 DEF AnswerInv, AnswersMatch
<1> QED BY <1>1, <1>2, <1>3, <1>4, <1>5

LEMMA ReportStep ==
    ASSUME NEW actual, Report(actual)
    PROVE  pc' \in {"start", "done"} /\ WorkOK(work')
<1>1. work' = NoWork /\ pc' \in {"start", "done"}
  BY DEF Report
<1> QED BY <1>1, NoWorkFields DEF WorkOK

LEMMA PreparingStep ==
    ASSUME SliceInv,
           \/ MakeIntent \/ CollectEvidence \/ EvaluateRefuses \/ EvaluateAccepts
           \/ IssueReceipt \/ BypassGate \/ SendRecorded
    PROVE  SliceInv'
<1>0. pc \in Before => WorkOK(work)
  BY DEF SliceInv, Shapes, CallInv, WorkOK
<1>1. CASE MakeIntent
  <2>1. work' = [NoWork EXCEPT !.intent = Intent(Job, clock), !.since = clock]
    BY <1>1 DEF MakeIntent
  <2>2. WorkOK(work')
    <3>1. work'.calls = <<>> /\ work'.answers = <<>>
      BY <2>1 DEF NoWork
    <3>2. work' = [intent |-> work'.intent, envelope |-> work'.envelope,
                   receipt |-> work'.receipt, calls |-> work'.calls,
                   answers |-> work'.answers, since |-> work'.since]
      BY <2>1 DEF NoWork
    <3> QED BY <3>1, <3>2, EmptySequence DEF WorkOK
  <2>3. pc = "start" /\ pc' = "collect" /\ UNCHANGED <<broker, tool, pipes, faulted>>
    BY <1>1 DEF MakeIntent, processes
  <2> QED BY <2>2, <2>3, QuietStep DEF Before
<1>2. CASE CollectEvidence
  <2>1. pc = "collect" /\ pc' \in {"bypass", "evaluate"}
        /\ UNCHANGED <<broker, tool, pipes, faulted>>
    BY <1>2 DEF CollectEvidence, processes
  <2>2. PICK e : work' = [work EXCEPT !.envelope = e]
    BY <1>2 DEF CollectEvidence
  <2>3. WorkOK(work')
    BY <1>0, <2>1, <2>2 DEF WorkOK, Before
  <2> QED BY <2>1, <2>3, QuietStep DEF Before
<1>3. CASE EvaluateRefuses
  <2>1. pc = "evaluate" /\ UNCHANGED <<broker, tool, pipes, faulted>>
    BY <1>3 DEF EvaluateRefuses
  <2>2. pc' \in {"start", "done"} /\ WorkOK(work')
    BY <1>3, ReportStep DEF EvaluateRefuses
  <2> QED BY <2>1, <2>2, QuietStep DEF Before
<1>4. CASE EvaluateAccepts
  <2>1. pc = "evaluate" /\ pc' = "issue" /\ UNCHANGED <<work, broker, tool, pipes, faulted>>
    BY <1>4 DEF EvaluateAccepts, processes
  <2> QED BY <1>0, <2>1, QuietStep DEF Before
<1>5. CASE IssueReceipt
  <2> DEFINE receipt == Receipt(work.intent, work.envelope.digest, clock)
             one == Call(1, work.intent, receipt)
             two == Call(2, work.intent, receipt)
             altered == [one EXCEPT !.args = [@ EXCEPT !.id = "v99"]]
  <2>1. pc = "issue" /\ pc' = "spawn" /\ UNCHANGED <<broker, tool, pipes, faulted>>
    BY <1>5 DEF IssueReceipt, processes
  <2>2. PICK cs \in {<<one, two>>, <<altered>>, <<one>>} :
           work' = [work EXCEPT !.receipt = receipt, !.calls = cs]
    BY <1>5 DEF IssueReceipt
  <2>3. one.n = 1 /\ two.n = 2 /\ altered.n = 1
    BY DEF Call
  <2> HIDE DEF one, two, altered, receipt
  <2>4. /\ \E S : cs \in Seq(S)
        /\ Len(cs) > 0 /\ \A k \in 1..Len(cs) : cs[k].n = k
    <3>1. CASE cs = <<one, two>>
      <4>1. cs \in Seq({one, two}) /\ Len(cs) = 2 /\ cs[1] = one /\ cs[2] = two
        BY <3>1
      <4> QED BY <4>1, <2>3
    <3>2. CASE cs = <<altered>>
      <4>1. cs \in Seq({altered}) /\ Len(cs) = 1 /\ cs[1] = altered
        BY <3>2
      <4> QED BY <4>1, <2>3
    <3>3. CASE cs = <<one>>
      <4>1. cs \in Seq({one}) /\ Len(cs) = 1 /\ cs[1] = one
        BY <3>3
      <4> QED BY <4>1, <2>3
    <3> QED BY <3>1, <3>2, <3>3, <2>2
  <2>5. WorkOK(work') /\ Len(work'.calls) > 0
    BY <1>0, <2>1, <2>2, <2>4 DEF WorkOK, Before
  <2> QED BY <2>1, <2>5, QuietStep DEF Before
<1>6. CASE BypassGate
  <2>1. pc = "bypass" /\ pc' = "spawn" /\ UNCHANGED <<broker, tool, pipes, faulted>>
    BY <1>6 DEF BypassGate, processes
  <2>2. PICK r : work' = [work EXCEPT !.receipt = r, !.calls = <<Call(1, work.intent, r)>>]
    BY <1>6 DEF BypassGate
  <2>3. Call(1, work.intent, r).n = 1
    BY DEF Call
  <2> DEFINE call == Call(1, work.intent, r)
  <2> HIDE DEF call
  <2>4. <<call>> \in Seq({call}) /\ Len(<<call>>) = 1 /\ <<call>>[1] = call
    OBVIOUS
  <2>5. WorkOK(work') /\ Len(work'.calls) > 0
    <3>1. WorkOK(work)
      BY <1>0, <2>1 DEF Before
    <3>2. work'.calls = <<call>> /\ work'.answers = <<>>
      BY <2>2, <3>1 DEF WorkOK, call
    <3>3. Len(work'.calls) = 1 /\ work'.calls[1].n = 1
      BY <3>2, <2>3, <2>4 DEF call
    <3>4. work' = [intent |-> work'.intent, envelope |-> work'.envelope,
                   receipt |-> work'.receipt, calls |-> work'.calls,
                   answers |-> work'.answers, since |-> work'.since]
      BY <2>2, <3>1 DEF WorkOK
    <3>5. \E S : work'.calls \in Seq(S)
      BY <2>4, <3>2
    <3> QED BY <3>2, <3>3, <3>4, <3>5 DEF WorkOK
  <2> QED BY <2>1, <2>5, QuietStep DEF Before
<1>7. CASE SendRecorded
  <2>1. pc = "start" /\ pc' = "spawn" /\ UNCHANGED <<broker, tool, pipes, faulted>>
    BY <1>7 DEF SendRecorded, processes
  <2> DEFINE call == Call(1, Intent(Job, 0), Job.receipt)
  <2>2. work' = [NoWork EXCEPT !.receipt = Job.receipt, !.since = clock, !.calls = <<call>>]
    BY <1>7 DEF SendRecorded
  <2>3. call.n = 1
    BY DEF Call
  <2> HIDE DEF call
  <2>4. <<call>> \in Seq({call}) /\ Len(<<call>>) = 1 /\ <<call>>[1] = call
    OBVIOUS
  <2>5. WorkOK(work') /\ Len(work'.calls) > 0
    <3>1. work'.calls = <<call>> /\ work'.answers = <<>>
      BY <2>2 DEF NoWork
    <3>2. Len(work'.calls) = 1 /\ work'.calls[1].n = 1
      BY <3>1, <2>3, <2>4
    <3>3. work' = [intent |-> work'.intent, envelope |-> work'.envelope,
                   receipt |-> work'.receipt, calls |-> work'.calls,
                   answers |-> work'.answers, since |-> work'.since]
      BY <2>2 DEF NoWork
    <3>4. \E S : work'.calls \in Seq(S)
      BY <2>4, <3>1
    <3> QED BY <3>1, <3>2, <3>3, <3>4 DEF WorkOK
  <2> QED BY <2>1, <2>5, QuietStep DEF Before
<1> QED BY <1>1, <1>2, <1>3, <1>4, <1>5, <1>6, <1>7

---------------------------------------------------------------------------------
(* A line stays where it is while its call is awaited, or once its broker  *)
(* is dead.                                                                *)
LEMMA LinesStay ==
    ASSUME LineInv, UNCHANGED pipes, Awaited \subseteq Awaited', Abandoned \subseteq Abandoned'
    PROVE  LineInv'
<1> DEFINE now == Awaited
           next == Awaited'
           left == Abandoned
           gone == Abandoned'
<1>1. now \subseteq next /\ left \subseteq gone /\ LinesOK(pipes, now, left)
  BY DEF LineInv
<1> HIDE DEF now, next, left, gone
<1>2. LinesOK(pipes, next, gone)
  BY <1>1 DEF LinesOK
<1>3. LinesOK(pipes', next, gone)
  BY <1>2
<1> QED BY <1>3 DEF LineInv, next, gone

(* A step of a process leaves the client as it is.                         *)
LEMMA ClientStays ==
    ASSUME SliceInv, UNCHANGED <<pc, work>>, faulted => faulted', faulted' \in BOOLEAN,
           broker' = [state |-> broker'.state, policy |-> broker'.policy, held |-> broker'.held],
           broker'.state \in States
    PROVE  Shapes' /\ CallInv' /\ AnswerInv' /\ Awaited' = Awaited
<1>1. Shapes'
  BY DEF SliceInv, Shapes
<1>2. CallInv'
  BY DEF SliceInv, CallInv
<1>3. AnswerInv'
  BY DEF SliceInv, AnswerInv, AnswersMatch
<1>4. Awaited' = Awaited
  BY DEF Awaited, NextCall
<1> QED BY <1>1, <1>2, <1>3, <1>4

(* The broker starts its tool, or either of them ends.                     *)
LEMMA ProcessStep ==
    ASSUME SliceInv, Launch \/ BrokerEnds \/ ToolEnds \/ ToolFails \/ BrokerFails
    PROVE  SliceInv'
<1> USE DEF SliceInv
<1>1. UNCHANGED <<pc, work, pipes>> /\ (faulted => faulted') /\ faulted' \in BOOLEAN
  BY DEF Shapes, Launch, BrokerEnds, ToolEnds, ToolFails, BrokerFails, client
<1>2. /\ broker' = [state |-> broker'.state, policy |-> broker'.policy, held |-> broker'.held]
      /\ broker'.state \in States
      /\ broker.state = "dead" => broker'.state = "dead"
  BY DEF Shapes, States, Launch, BrokerEnds, ToolEnds, ToolFails, BrokerFails, client
<1>3. Shapes' /\ CallInv' /\ AnswerInv' /\ Awaited' = Awaited
  BY <1>1, <1>2, ClientStays
<1>4. LineInv'
  <2>1. Abandoned \subseteq Abandoned'
    BY <1>2 DEF Abandoned
  <2> QED BY <1>1, <1>3, <2>1, LinesStay
<1>5. pc \in Waiting \cup {"crashed"}
         \/ (broker.state \in {"none", "dead"} /\ tool # "up")
  BY DEF ProcessInv, ReturnedMeansReaped
<1>6. ReturnedMeansReaped'
  BY <1>1, <1>5 DEF ReturnedMeansReaped, Launch, BrokerEnds, ToolEnds, ToolFails, BrokerFails
<1>7. pc \in {"write", "read"} /\ "dead" \in {broker'.state, tool'} => faulted'
  BY <1>1 DEF ProcessInv, Shapes, Launch, BrokerEnds, ToolEnds, ToolFails, BrokerFails
<1>8. ProcessInv'
  BY <1>1, <1>6, <1>7 DEF ProcessInv
<1> QED BY <1>3, <1>4, <1>8

(* Time passes, or nothing happens.                                        *)
LEMMA IdleStep ==
    ASSUME SliceInv, Tick \/ UNCHANGED vars
    PROVE  SliceInv'
<1> USE DEF SliceInv
<1>1. UNCHANGED <<pc, work, pipes, broker, tool, faulted>>
  BY DEF Tick, vars, client, processes
<1>2. Shapes' /\ CallInv' /\ AnswerInv' /\ Awaited' = Awaited
  <2>1. faulted' \in BOOLEAN /\ broker'.state \in States
        /\ broker' = [state |-> broker'.state, policy |-> broker'.policy, held |-> broker'.held]
    BY <1>1 DEF Shapes
  <2> QED BY <1>1, <2>1, ClientStays
<1>3. LineInv'
  <2>1. Abandoned' = Abandoned
    BY <1>1 DEF Abandoned
  <2> QED BY <1>1, <1>2, <2>1, LinesStay
<1>4. ProcessInv'
  BY <1>1 DEF ProcessInv, ReturnedMeansReaped
<1> QED BY <1>2, <1>3, <1>4

---------------------------------------------------------------------------------
(* The client ends its broker and waits for what that takes.               *)
LEMMA EndingStep ==
    ASSUME SliceInv, Terminate \/ Communicate \/ CommunicateTimesOut
    PROVE  SliceInv'
<1>1. CASE Communicate
  <2>1. /\ pc \in {"communicate", "communicate again"} /\ broker.state = "dead" /\ tool # "up"
        /\ UNCHANGED <<broker, tool, pipes, faulted>>
    BY <1>1 DEF Communicate
  <2>2. pc' \in {"start", "done"} /\ WorkOK(work')
    BY <1>1, ReportStep DEF Communicate
  <2> QED BY <2>1, <2>2, QuietStep DEF Before
<1>2. CASE Terminate \/ CommunicateTimesOut
  <2>1. /\ UNCHANGED <<work, pipes, tool, faulted>>
        /\ pc \in {"terminate", "communicate", "communicate again"}
        /\ pc' \in {"communicate", "communicate again", "crashed"}
        /\ broker' \in {broker, [broker EXCEPT !.state = "dead"]}
    BY <1>2 DEF Terminate, CommunicateTimesOut, processes
  <2>2. Shapes'
    BY <2>1 DEF SliceInv, Shapes, States
  <2>3. ProcessInv'
    BY <2>1 DEF ProcessInv, ReturnedMeansReaped, Waiting
  <2>4. CallInv'
    BY <2>1 DEF SliceInv, CallInv, Before
  <2>5. AnswerInv'
    BY <2>1 DEF SliceInv, AnswerInv, AnswersMatch
  <2>6. LineInv'
    <3>1. Awaited = {} /\ Awaited' = {}
      BY <2>1 DEF Awaited
    <3>2. Abandoned \subseteq Abandoned'
      BY <2>1, <2>2 DEF Abandoned, SliceInv, Shapes
    <3> QED BY <2>1, <3>1, <3>2, LinesStay DEF SliceInv
  <2> QED BY <2>2, <2>3, <2>4, <2>5, <2>6 DEF SliceInv
<1> QED BY <1>1, <1>2

(* A run begins with a new broker and empty pipes.                         *)
LEMMA SpawnStep ==
    ASSUME SliceInv, Spawn
    PROVE  SliceInv'
<1>1. /\ pc = "spawn" /\ pc' = "write" /\ UNCHANGED <<work, faulted>>
      /\ broker' = [NoBroker EXCEPT !.state = "starting"]
      /\ tool' = "none" /\ pipes' = NoLines
  BY DEF Spawn
<1>2. Shapes'
  BY <1>1 DEF SliceInv, Shapes, States, NoBroker
<1>3. broker'.state = "starting"
  BY <1>1 DEF NoBroker
<1>4. ProcessInv'
  BY <1>1, <1>3 DEF ProcessInv, ReturnedMeansReaped, Waiting
<1>5. work.answers = <<>> /\ Len(work.calls) > 0
  BY <1>1 DEF SliceInv, CallInv, Before
<1>6. CallInv'
  BY <1>1, <1>5, EmptySequence DEF SliceInv, CallInv, Before
<1>7. AnswerInv'
  BY <1>1 DEF SliceInv, AnswerInv, AnswersMatch
<1>8. LineInv'
  BY <1>1 DEF LineInv, LinesOK
<1> QED BY <1>2, <1>4, <1>6, <1>7, <1>8 DEF SliceInv

---------------------------------------------------------------------------------
(* Which line it is, when a pipe has one.                                  *)
LEMMA WhichLine ==
    ASSUME NEW lines, NEW awaited, NEW abandoned, LinesOK(lines, awaited, abandoned)
    PROVE  /\ lines.toBroker # <<>> =>
                 \E line : lines = ToBroker(line) /\ line.n \in awaited \cup abandoned
           /\ lines.toTool # <<>> =>
                 \E line : lines = ToTool(line) /\ line.n \in awaited \cup abandoned
           /\ lines.fromTool # <<>> =>
                 \E line \in Answers : /\ lines = FromTool(line) /\ line.is # "end"
                                      /\ line.n \in awaited \cup abandoned
           /\ lines.toClient # <<>> =>
                 \E line \in Answers : /\ lines = ToClient(line) /\ line.is # "end"
                                      /\ line.n \in awaited
<1> DEFINE Goal == /\ lines.toBroker # <<>> =>
                         \E line : lines = ToBroker(line) /\ line.n \in awaited \cup abandoned
                   /\ lines.toTool # <<>> =>
                         \E line : lines = ToTool(line) /\ line.n \in awaited \cup abandoned
                   /\ lines.fromTool # <<>> =>
                         \E line \in Answers : /\ lines = FromTool(line) /\ line.is # "end"
                                              /\ line.n \in awaited \cup abandoned
                   /\ lines.toClient # <<>> =>
                         \E line \in Answers : /\ lines = ToClient(line) /\ line.is # "end"
                                              /\ line.n \in awaited
<1>1. CASE lines = NoLines
  BY <1>1 DEF NoLines
<1>2. ASSUME NEW line, lines = ToBroker(line), line.n \in awaited \cup abandoned
      PROVE  Goal
  <2>1. lines.toTool = <<>> /\ lines.fromTool = <<>> /\ lines.toClient = <<>>
    BY <1>2, PipeFields
  <2> QED BY <1>2, <2>1
<1>3. ASSUME NEW line, lines = ToTool(line), line.n \in awaited \cup abandoned
      PROVE  Goal
  <2>1. lines.toBroker = <<>> /\ lines.fromTool = <<>> /\ lines.toClient = <<>>
    BY <1>3, PipeFields
  <2> QED BY <1>3, <2>1
<1>4. ASSUME NEW line \in Answers, lines = FromTool(line), line.is # "end",
             line.n \in awaited \cup abandoned
      PROVE  Goal
  <2>1. lines.toBroker = <<>> /\ lines.toTool = <<>> /\ lines.toClient = <<>>
    BY <1>4, PipeFields
  <2> QED BY <1>4, <2>1
<1>5. ASSUME NEW line \in Answers, lines = ToClient(line), line.is # "end", line.n \in awaited
      PROVE  Goal
  <2>1. lines.toBroker = <<>> /\ lines.toTool = <<>> /\ lines.fromTool = <<>>
    BY <1>5, PipeFields
  <2> QED BY <1>5, <2>1
<1> QED BY <1>1, <1>2, <1>3, <1>4, <1>5 DEF LinesOK

(* The ways in which a line moves, or is read.                             *)
Write(p, next) == [p EXCEPT !.toBroker = Append(@, next)]

Forward(p, next) == [p EXCEPT !.toBroker = Tail(@), !.toTool = Append(@, next)]

Refuse(p, next) == [p EXCEPT !.toBroker = Tail(@), !.toClient = Append(@, next)]

Respond(p, next) == [p EXCEPT !.toTool = Tail(@), !.fromTool = Append(@, next)]

Relay(p, next) == [p EXCEPT !.fromTool = Tail(@), !.toClient = Append(@, next)]

Read(p) == [p EXCEPT !.toClient = Tail(@)]

(* What a line that moves leaves behind.                                   *)
LEMMA Moves ==
    ASSUME NEW line, NEW next
    PROVE  /\ Write(NoLines, next) = ToBroker(next)
           /\ Forward(ToBroker(line), next) = ToTool(next)
           /\ Refuse(ToBroker(line), next) = ToClient(next)
           /\ Respond(ToTool(line), next) = FromTool(next)
           /\ Relay(FromTool(line), next) = ToClient(next)
           /\ Read(ToClient(line)) = NoLines
<1> SUFFICES ASSUME NEW p, NEW q
             PROVE  /\ p = NoLines /\ q = Write(p, next) => q = ToBroker(next)
                    /\ p = ToBroker(line) /\ q = Forward(p, next) => q = ToTool(next)
                    /\ p = ToBroker(line) /\ q = Refuse(p, next) => q = ToClient(next)
                    /\ p = ToTool(line) /\ q = Respond(p, next) => q = FromTool(next)
                    /\ p = FromTool(line) /\ q = Relay(p, next) => q = ToClient(next)
                    /\ p = ToClient(line) /\ q = Read(p) => q = NoLines
  BY Zenon
<1>1. Tail(<<line>>) = <<>> /\ Append(<<>>, next) = <<next>>
  BY OneLine
<1>2. ASSUME p = NoLines, q = Write(p, next)
      PROVE  q = ToBroker(next)
  <2>1. q = [p EXCEPT !.toBroker = Append(@, next)]
    BY <1>2 DEF Write
  <2>2. p = [toBroker |-> <<>>, toTool |-> <<>>, fromTool |-> <<>>, toClient |-> <<>>]
    BY <1>2, PipeFields
  <2>3. q = [toBroker |-> Append(<<>>, next), toTool |-> <<>>,
             fromTool |-> <<>>, toClient |-> <<>>]
    BY <2>1, <2>2
  <2> QED BY <2>3, <1>1, PipeFields
<1>3. ASSUME p = ToBroker(line), q = Forward(p, next)
      PROVE  q = ToTool(next)
  <2>1. q = [p EXCEPT !.toBroker = Tail(@), !.toTool = Append(@, next)]
    BY <1>3 DEF Forward
  <2>2. p = [toBroker |-> <<line>>, toTool |-> <<>>, fromTool |-> <<>>, toClient |-> <<>>]
    BY <1>3, PipeFields
  <2>3. q = [toBroker |-> Tail(<<line>>), toTool |-> Append(<<>>, next),
             fromTool |-> <<>>, toClient |-> <<>>]
    BY <2>1, <2>2
  <2> QED BY <2>3, <1>1, PipeFields
<1>4. ASSUME p = ToBroker(line), q = Refuse(p, next)
      PROVE  q = ToClient(next)
  <2>1. q = [p EXCEPT !.toBroker = Tail(@), !.toClient = Append(@, next)]
    BY <1>4 DEF Refuse
  <2>2. p = [toBroker |-> <<line>>, toTool |-> <<>>, fromTool |-> <<>>, toClient |-> <<>>]
    BY <1>4, PipeFields
  <2>3. q = [toBroker |-> Tail(<<line>>), toTool |-> <<>>,
             fromTool |-> <<>>, toClient |-> Append(<<>>, next)]
    BY <2>1, <2>2
  <2> QED BY <2>3, <1>1, PipeFields
<1>5. ASSUME p = ToTool(line), q = Respond(p, next)
      PROVE  q = FromTool(next)
  <2>1. q = [p EXCEPT !.toTool = Tail(@), !.fromTool = Append(@, next)]
    BY <1>5 DEF Respond
  <2>2. p = [toBroker |-> <<>>, toTool |-> <<line>>, fromTool |-> <<>>, toClient |-> <<>>]
    BY <1>5, PipeFields
  <2>3. q = [toBroker |-> <<>>, toTool |-> Tail(<<line>>),
             fromTool |-> Append(<<>>, next), toClient |-> <<>>]
    BY <2>1, <2>2
  <2> QED BY <2>3, <1>1, PipeFields
<1>6. ASSUME p = FromTool(line), q = Relay(p, next)
      PROVE  q = ToClient(next)
  <2>1. q = [p EXCEPT !.fromTool = Tail(@), !.toClient = Append(@, next)]
    BY <1>6 DEF Relay
  <2>2. p = [toBroker |-> <<>>, toTool |-> <<>>, fromTool |-> <<line>>, toClient |-> <<>>]
    BY <1>6, PipeFields
  <2>3. q = [toBroker |-> <<>>, toTool |-> <<>>,
             fromTool |-> Tail(<<line>>), toClient |-> Append(<<>>, next)]
    BY <2>1, <2>2
  <2> QED BY <2>3, <1>1, PipeFields
<1>7. ASSUME p = ToClient(line), q = Read(p)
      PROVE  q = NoLines
  <2>1. q = [p EXCEPT !.toClient = Tail(@)]
    BY <1>7 DEF Read
  <2>2. p = [toBroker |-> <<>>, toTool |-> <<>>, fromTool |-> <<>>, toClient |-> <<line>>]
    BY <1>7, PipeFields
  <2>3. q = [toBroker |-> <<>>, toTool |-> <<>>,
             fromTool |-> <<>>, toClient |-> Tail(<<line>>)]
    BY <2>1, <2>2
  <2> QED BY <2>3, <1>1, PipeFields
<1> QED BY <1>2, <1>3, <1>4, <1>5, <1>6, <1>7

(* The line of a pipe is the first one in it.                              *)
LEMMA FirstLine ==
    ASSUME NEW line
    PROVE  /\ Head(ToBroker(line).toBroker) = line /\ Head(ToTool(line).toTool) = line
           /\ Head(FromTool(line).fromTool) = line /\ Head(ToClient(line).toClient) = line
<1>1. /\ ToBroker(line).toBroker = <<line>> /\ ToTool(line).toTool = <<line>>
      /\ FromTool(line).fromTool = <<line>> /\ ToClient(line).toClient = <<line>>
  BY PipeFields
<1> QED BY <1>1, OneLine

LEMMA AwaitedIsNat == SliceInv => Awaited \cup Abandoned \subseteq Nat
<1> SUFFICES ASSUME SliceInv PROVE Awaited \cup Abandoned \subseteq Nat
  OBVIOUS
<1>1. Len(work.answers) \in Nat
  BY DEF SliceInv, AnswerInv
<1>2. Awaited \subseteq Nat
  BY <1>1 DEF Awaited, NextCall
<1> QED BY <1>2 DEF Abandoned

(* A line moves from one pipe to the next, or is answered.                 *)
LEMMA RelayingStep ==
    ASSUME SliceInv, BrokerHandles \/ RelayAnswer \/ ToolAnswers
    PROVE  SliceInv'
<1> USE DEF SliceInv
<1> DEFINE awaited == Awaited
           abandoned == Abandoned
<1>1. UNCHANGED <<pc, work, tool, faulted>>
  BY DEF BrokerHandles, RelayAnswer, ToolAnswers, client
<1>2. /\ broker' = [state |-> broker'.state, policy |-> broker'.policy, held |-> broker'.held]
      /\ broker'.state = broker.state
  BY DEF Shapes, BrokerHandles, RelayAnswer, ToolAnswers
<1>3. Shapes' /\ CallInv' /\ AnswerInv' /\ Awaited' = Awaited
  <2>1. broker'.state \in States /\ faulted \in BOOLEAN
    BY <1>2 DEF Shapes
  <2> QED BY <1>1, <1>2, <2>1, ClientStays
<1>4. ProcessInv'
  BY <1>1, <1>2 DEF ProcessInv, ReturnedMeansReaped
<1>5. Abandoned' = Abandoned
  BY <1>2 DEF Abandoned
<1>6. LinesOK(pipes, awaited, abandoned) /\ awaited \cup abandoned \subseteq Nat
  BY AwaitedIsNat DEF LineInv
<1>7. broker.state = "up" => abandoned = {}
  BY DEF Abandoned
<1> HIDE DEF awaited, abandoned
<1>8. LinesOK(pipes', awaited, abandoned)
  <2>1. CASE BrokerHandles
    <3>1. PICK line : pipes = ToBroker(line) /\ line.n \in awaited
      BY <2>1, <1>6, <1>7, WhichLine DEF BrokerHandles
    <3>2. Head(pipes.toBroker) = line
      BY <3>1, FirstLine
    <3>3. \/ pipes' = Forward(pipes, line)
          \/ \E is \in {"suspended", "error"} :
                pipes' = Refuse(pipes, [n |-> line.n, is |-> is])
      BY <2>1, <3>2 DEF BrokerHandles, Forward, Refuse
    <3>4. CASE pipes' = Forward(pipes, line)
      <4>1. pipes' = ToTool(line)
        BY <3>1, <3>4, Moves
      <4> QED BY <3>1, <4>1 DEF LinesOK
    <3>5. ASSUME NEW is \in {"suspended", "error"},
                 pipes' = Refuse(pipes, [n |-> line.n, is |-> is])
          PROVE  LinesOK(pipes', awaited, abandoned)
      <4> DEFINE answer == [n |-> line.n, is |-> is]
      <4>1. answer \in Answers /\ answer.n = line.n /\ answer.is # "end"
        BY <3>1, <1>6 DEF Answers
      <4>2. pipes' = Refuse(pipes, answer)
        BY <3>5
      <4> HIDE DEF answer
      <4>3. pipes' = ToClient(answer)
        BY <3>1, <4>2, Moves
      <4> QED BY <3>1, <4>1, <4>3 DEF LinesOK
    <3> QED BY <3>3, <3>4, <3>5
  <2>2. CASE RelayAnswer
    <3>1. PICK line \in Answers : /\ pipes = FromTool(line) /\ line.is # "end"
                                  /\ line.n \in awaited
      BY <2>2, <1>6, <1>7, WhichLine DEF RelayAnswer
    <3>2. Head(pipes.fromTool) = line
      BY <3>1, FirstLine
    <3>3. pipes' = Relay(pipes, line)
      BY <2>2, <3>2 DEF RelayAnswer, Relay
    <3>4. pipes' = ToClient(line)
      BY <3>1, <3>3, Moves
    <3> QED BY <3>1, <3>4 DEF LinesOK
  <2>3. CASE ToolAnswers
    <3>1. PICK line : pipes = ToTool(line) /\ line.n \in awaited \cup abandoned
      BY <2>3, <1>6, WhichLine DEF ToolAnswers
    <3>2. Head(pipes.toTool) = line
      BY <3>1, FirstLine
    <3> DEFINE answer == [n |-> line.n, is |-> "result"]
    <3>3. pipes' = Respond(pipes, answer)
      BY <2>3, <3>2 DEF ToolAnswers, Respond
    <3>4. answer \in Answers /\ answer.n = line.n /\ answer.is # "end"
      BY <3>1, <1>6 DEF Answers
    <3> HIDE DEF answer
    <3>5. pipes' = FromTool(answer)
      BY <3>1, <3>3, Moves
    <3> QED BY <3>1, <3>4, <3>5 DEF LinesOK
  <2> QED BY <2>1, <2>2, <2>3
<1>9. LineInv'
  BY <1>3, <1>5, <1>8 DEF LineInv, awaited, abandoned
<1> QED BY <1>3, <1>4, <1>9

---------------------------------------------------------------------------------
(* The client writes its next call, which no other line is in the way of.  *)
LEMMA WriteStep ==
    ASSUME SliceInv, WriteCall
    PROVE  SliceInv'
<1> USE DEF SliceInv
<1>1. pc = "write" /\ UNCHANGED <<work, broker, tool, faulted>> /\ pc' \in {"read", "crashed"}
  BY DEF WriteCall
<1>2. Shapes'
  BY <1>1 DEF Shapes
<1>3. ProcessInv'
  BY <1>1 DEF ProcessInv, ReturnedMeansReaped, Waiting
<1>4. CallInv'
  BY <1>1 DEF CallInv, Before
<1>5. AnswerInv'
  BY <1>1 DEF AnswerInv, AnswersMatch
<1>6. LineInv'
  <2>1. Awaited = {} /\ Abandoned' = Abandoned
    BY <1>1 DEF Awaited, Abandoned
  <2>2. CASE broker.state = "dead"
    <3>1. pc' = "crashed" /\ UNCHANGED pipes
      BY <2>2 DEF WriteCall
    <3> QED BY <2>1, <3>1, LinesStay
  <2>3. CASE broker.state # "dead"
    <3> DEFINE call == work.calls[NextCall]
    <3>1. pc' = "read" /\ pipes' = Write(pipes, call)
      BY <2>3 DEF WriteCall, Write
    <3>2. Awaited' = {NextCall}
      BY <1>1, <3>1 DEF Awaited, NextCall
    <3>3. call.n = NextCall
      <4>1. Len(work.answers) < Len(work.calls) /\ Len(work.answers) \in Nat
            /\ Len(work.calls) \in Nat
        BY <1>1 DEF CallInv, AnswerInv
      <4>2. NextCall \in 1..Len(work.calls)
        BY <4>1 DEF NextCall
      <4> QED BY <4>2 DEF CallInv
    <3> HIDE DEF call
    <3>4. pipes = NoLines
      BY <2>1, <2>3 DEF LineInv, LinesOK, Abandoned
    <3>5. pipes' = ToBroker(call)
      BY <3>1, <3>4, Moves
    <3> DEFINE awaited == Awaited'
               abandoned == Abandoned'
    <3>6. call.n \in awaited
      BY <3>2, <3>3
    <3> HIDE DEF awaited, abandoned
    <3>7. LinesOK(pipes', awaited, abandoned)
      BY <3>5, <3>6 DEF LinesOK
    <3> QED BY <3>7 DEF LineInv, awaited, abandoned
  <2> QED BY <2>2, <2>3
<1> QED BY <1>2, <1>3, <1>4, <1>5, <1>6

(* The client reads the answer to the call it waits for, or the end.       *)
LEMMA ReadStep ==
    ASSUME SliceInv, ReadAnswer
    PROVE  SliceInv'
<1> USE DEF SliceInv
<1>1. /\ pc = "read" /\ UNCHANGED <<broker, tool, faulted>> /\ pc' \in {"write", "terminate"}
      /\ pc' = "write" => Len(work'.answers) < Len(work'.calls)
  <2>1. work'.calls = work.calls
    BY DEF ReadAnswer, Shapes
  <2>2. pc' = IF Len(work'.answers) < Len(work.calls) THEN "write" ELSE "terminate"
    BY DEF ReadAnswer
  <2>3. pc' = "write" => Len(work'.answers) < Len(work.calls)
    BY <2>2
  <2>4. pc = "read" /\ UNCHANGED <<broker, tool, faulted>>
    BY DEF ReadAnswer
  <2> QED BY <2>1, <2>2, <2>3, <2>4
<1>2. Awaited = {NextCall} /\ Awaited' = {} /\ Abandoned' = Abandoned
  BY <1>1 DEF Awaited, Abandoned
<1>3. PICK answer \in Answers :
         /\ work' = [work EXCEPT !.answers = Append(@, answer)]
         /\ answer.n = NextCall /\ (answer.is = "end" => faulted)
         /\ pipes' = NoLines \/ (UNCHANGED pipes /\ pipes.toClient = <<>>)
  <2>1. CASE /\ pipes.toClient # <<>>
             /\ work' = [work EXCEPT !.answers = Append(@, Head(pipes.toClient))]
             /\ pipes' = [pipes EXCEPT !.toClient = Tail(@)]
    <3>1. PICK line \in Answers : /\ pipes = ToClient(line) /\ line.is # "end"
                                  /\ line.n = NextCall
      <4> DEFINE awaited == Awaited
                 abandoned == Abandoned
      <4>1. LinesOK(pipes, awaited, abandoned)
        BY DEF LineInv
      <4>2. \A n : n \in awaited => n = NextCall
        BY <1>2
      <4> HIDE DEF awaited, abandoned
      <4> QED BY <2>1, <4>1, <4>2, WhichLine
    <3>2. Head(pipes.toClient) = line
      BY <3>1, FirstLine
    <3>3. pipes' = Read(pipes)
      BY <2>1 DEF Read
    <3>4. pipes' = NoLines
      BY <3>1, <3>3, Moves
    <3> QED BY <2>1, <3>1, <3>2, <3>4
  <2>2. CASE /\ pipes.toClient = <<>> /\ broker.state = "dead"
             /\ work' = [work EXCEPT !.answers = Append(@, [n |-> NextCall, is |-> "end"])]
             /\ UNCHANGED pipes
    <3>1. NextCall \in Nat
      BY <1>2, AwaitedIsNat
    <3>2. [n |-> NextCall, is |-> "end"] \in Answers
      BY <3>1 DEF Answers
    <3>3. faulted
      BY <1>1, <2>2 DEF ProcessInv
    <3> QED BY <2>2, <3>2, <3>3
  <2> QED BY <2>1, <2>2 DEF ReadAnswer
<1>4. work'.calls = work.calls /\ work'.answers = Append(work.answers, answer)
  BY <1>3 DEF Shapes
<1>5. Shapes'
  <2>1. work' = [intent |-> work'.intent, envelope |-> work'.envelope,
                 receipt |-> work'.receipt, calls |-> work'.calls,
                 answers |-> work'.answers, since |-> work'.since]
    BY <1>3 DEF Shapes
  <2> QED BY <1>1, <2>1 DEF Shapes
<1>6. ProcessInv'
  BY <1>1 DEF ProcessInv, ReturnedMeansReaped, Waiting
<1>7. CallInv'
  BY <1>1, <1>4 DEF CallInv, Before
<1>8. LineInv'
  <2>1. CASE pipes' = NoLines
    BY <2>1 DEF LineInv, LinesOK
  <2>2. CASE UNCHANGED pipes /\ pipes.toClient = <<>>
    <3> DEFINE awaited == Awaited
               abandoned == Abandoned
               next == Awaited'
               gone == Abandoned'
    <3>1. LinesOK(pipes, awaited, abandoned) /\ gone = abandoned /\ next = {}
      BY <1>2 DEF LineInv
    <3>2. pipes = NoLines \/ abandoned = Nat
      <4>1. CASE broker.state = "dead"
        BY <4>1 DEF Abandoned
      <4>2. CASE broker.state # "dead"
        BY <2>2, <4>2, <1>3 DEF ReadAnswer
      <4> QED BY <4>1, <4>2
    <3>3. awaited \subseteq Nat
      BY AwaitedIsNat
    <3> HIDE DEF awaited, abandoned, next, gone
    <3>4. \A line : pipes # ToClient(line)
      <4> TAKE line
      <4>1. ToClient(line).toClient = <<line>> /\ <<line>> # <<>>
        BY PipeFields, OneLine
      <4> QED BY <2>2, <4>1
    <3>5. LinesOK(pipes', next, gone)
      <4>1. CASE pipes = NoLines
        BY <2>2, <4>1 DEF LinesOK
      <4>2. CASE abandoned = Nat
        <5>1. awaited \cup abandoned \subseteq next \cup gone
          BY <3>1, <3>3, <4>2
        <5>2. LinesOK(pipes, next, gone)
          BY <3>1, <3>4, <5>1 DEF LinesOK
        <5> QED BY <2>2, <5>2
      <4> QED BY <3>2, <4>1, <4>2
    <3> QED BY <3>5 DEF LineInv, next, gone
  <2> QED BY <1>3, <2>1, <2>2
<1>9. AnswerInv'
  <2>1. work.answers \in Seq(Answers) /\ \A k \in DOMAIN work.answers :
           work.answers[k].n = k /\ (work.answers[k].is = "end" => faulted)
    BY DEF AnswerInv, AnswersMatch
  <2> DEFINE old == work.answers
             new == Append(old, answer)
  <2>2. /\ new \in Seq(Answers) /\ DOMAIN new = 1..(Len(old) + 1)
        /\ DOMAIN old = 1..Len(old) /\ Len(old) \in Nat
        /\ new[Len(old) + 1] = answer /\ \A k \in 1..Len(old) : new[k] = old[k]
    BY <2>1
  <2>3. answer.n = Len(old) + 1 /\ (answer.is = "end" => faulted)
    BY <1>3 DEF NextCall
  <2>4. work'.answers = new
    BY <1>4
  <2> HIDE DEF old, new
  <2>5. \A k \in DOMAIN new : new[k].n = k /\ (new[k].is = "end" => faulted)
    <3> SUFFICES ASSUME NEW k \in DOMAIN new
                 PROVE  new[k].n = k /\ (new[k].is = "end" => faulted)
      OBVIOUS
    <3>1. CASE k = Len(old) + 1
      BY <3>1, <2>2, <2>3
    <3>2. CASE k # Len(old) + 1
      <4>1. k \in DOMAIN old /\ new[k] = old[k]
        BY <3>2, <2>2
      <4> QED BY <4>1, <2>1 DEF old
    <3> QED BY <3>1, <3>2
  <2> QED BY <1>1, <2>2, <2>4, <2>5 DEF AnswerInv, AnswersMatch
<1> QED BY <1>5, <1>6, <1>7, <1>8, <1>9

---------------------------------------------------------------------------------
LEMMA SliceStep == SliceInv /\ [Next]_vars => SliceInv'
<1> SUFFICES ASSUME SliceInv, [Next]_vars PROVE SliceInv'
  OBVIOUS
<1>1. CASE Client
  BY <1>1, PreparingStep, SpawnStep, WriteStep, ReadStep, EndingStep DEF Client
<1>2. CASE BrokerProcess \/ ToolProcess \/ ToolFails \/ BrokerFails
  BY <1>2, ProcessStep, RelayingStep DEF BrokerProcess, ToolProcess
<1>3. CASE Tick \/ UNCHANGED vars
  BY <1>3, IdleStep
<1> QED BY <1>1, <1>2, <1>3 DEF Next

LEMMA SliceInvariant == Spec => []SliceInv
<1>1. Init => SliceInv
  BY InitOK
<1>2. SliceInv /\ [Next]_vars => SliceInv'
  BY SliceStep
<1> QED BY <1>1, <1>2, PTL DEF Spec

(* Whatever fails, and whenever: between two runs there is no broker and   *)
(* no tool left of an earlier one (orchestrator.py:76-82, main.rs:114 and  *)
(* 125).                                                                   *)
THEOREM NothingOutlivesItsRun == Spec => []ReturnedMeansReaped
<1>1. SliceInv => ReturnedMeansReaped
  BY DEF SliceInv, ProcessInv
<1> QED BY <1>1, SliceInvariant, PTL

(* Two tasks of the broker write to one pipe and nothing but the order of  *)
(* the lines tells whose answer a line is; each is the answer to the call  *)
(* it is taken for, and the pipe ends only after a failure                 *)
(* (orchestrator.py:70-74, main.rs:163 and 191).                           *)
THEOREM AnswersBelongToCalls == Spec => []AnswersMatch
<1>1. SliceInv => AnswersMatch
  BY DEF SliceInv, AnswerInv
<1> QED BY <1>1, SliceInvariant, PTL
================================================================================
