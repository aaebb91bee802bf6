-------------------------- MODULE ReceiptLifetimeProofs --------------------------
(***************************************************************************)
(* What one receipt can be used for, for any names, arguments, policies    *)
(* and times: the proofs rest on the text that the signature covers.       *)
(***************************************************************************)
EXTENDS ReceiptLifetime, SequenceTheorems, TLAPS

Carried(i, a, t, e, ts, s) ==
    [intent |-> i, action |-> a, target |-> t, evidence |-> e, timestamp |-> ts,
     signature |-> s]

IsCarried(r, s) ==
    \E i \in Intents, a \in Actions, t \in Targets, e \in Digests, ts \in Int :
        r = Carried(i, a, t, e, ts, s)

Configs ==
    [authorized_targets : SUBSET Targets, allowed_actions : SUBSET Actions,
     forbidden_actions : SUBSET Actions, ttl : TTLs, require_receipt : BOOLEAN,
     public_key : {PolicyKey}]

(* The receipt that is carried still has the signature it was issued with. *)
LifetimeInv ==
    /\ clock \in 0..MaxClock
    /\ config \in Configs
    /\ issued.args \in Arguments /\ args \in Arguments
    /\ \E i \in Intents, a \in Actions, t \in Targets, e \in Digests :
          issued.receipt = Signed(i, a, t, e, issued.args)
    /\ IsCarried(receipt, issued.receipt.signature)

(* An altered receipt keeps its shape and its signature.                   *)
LEMMA AlteredReceipt ==
    ASSUME NEW r, NEW s, IsCarried(r, s),
           NEW i \in Intents, NEW a \in Actions, NEW t \in Targets, NEW e \in Digests,
           NEW ts \in Int
    PROVE  IsCarried([r EXCEPT !.intent = i, !.action = a, !.target = t,
                               !.evidence = e, !.timestamp = ts], s)
<1>1. [r EXCEPT !.intent = i, !.action = a, !.target = t, !.evidence = e, !.timestamp = ts]
         = Carried(i, a, t, e, ts, s)
  <2>1. PICK j \in Intents, b \in Actions, u \in Targets, f \in Digests, at \in Int :
           r = Carried(j, b, u, f, at, s)
    BY DEF IsCarried
  <2> DEFINE r1 == [r EXCEPT !.intent = i]
             r2 == [r1 EXCEPT !.action = a]
             r3 == [r2 EXCEPT !.target = t]
             r4 == [r3 EXCEPT !.evidence = e]
             r5 == [r4 EXCEPT !.timestamp = ts]
  <2>2. r1 = Carried(i, b, u, f, at, s)
    BY <2>1 DEF Carried
  <2> HIDE DEF r1
  <2>3. r2 = Carried(i, a, u, f, at, s)
    BY <2>2 DEF Carried
  <2> HIDE DEF r2
  <2>4. r3 = Carried(i, a, t, f, at, s)
    BY <2>3 DEF Carried
  <2> HIDE DEF r3
  <2>5. r4 = Carried(i, a, t, e, at, s)
    BY <2>4 DEF Carried
  <2> HIDE DEF r4
  <2>6. r5 = Carried(i, a, t, e, ts, s)
    BY <2>5 DEF Carried
  <2> QED BY <2>6, Zenon DEF r1, r2, r3, r4
<1> QED BY <1>1 DEF IsCarried

(* What a decision to allow implies.                                       *)
LEMMA AllowMeans ==
    ASSUME NEW r, NEW tool, NEW a, NEW policy, NEW now
    PROVE  VerifyReceipt(r, tool, a, policy, now) = "Allow"
             <=> /\ WithinPolicy(r, tool, policy)
                 /\ IsFresh(r, policy.ttl, now)
                 /\ Decodes(r, a, policy)
                 /\ ~LacksDryRun(tool, a)
                 /\ ~LacksQuorum(tool, a)
                 /\ SignatureMatches(r, a, policy)
  BY DEF VerifyReceipt

LEMMA InitOK == Init => LifetimeInv
<1> SUFFICES ASSUME Init PROVE LifetimeInv
  OBVIOUS
<1>1. PICK i \in Intents, a \in Actions, t \in Targets, e \in Digests, over \in Arguments :
         issued = [receipt |-> Signed(i, a, t, e, over), args |-> over]
  BY DEF Init
<1>2. /\ issued.receipt = Signed(i, a, t, e, over) /\ issued.args = over
      /\ args \in Arguments
  BY <1>1 DEF Init
<1>3. receipt = Carried(i, a, t, e, IssueTime, issued.receipt.signature)
  BY <1>2 DEF Init, Signed, Carried
<1>4. IssueTime \in Int /\ 0 \in 0..MaxClock
  BY LifetimeAssumption
<1>5. config \in Configs
  BY DEF Init, Configs
<1>6. clock = 0
  BY DEF Init
<1> QED BY <1>2, <1>3, <1>4, <1>5, <1>6 DEF LifetimeInv, IsCarried

LEMMA LifetimeStep == LifetimeInv /\ [Next]_vars => LifetimeInv'
<1> SUFFICES ASSUME LifetimeInv, [Next]_vars PROVE LifetimeInv'
  OBVIOUS
<1>1. CASE Tick
  BY <1>1, LifetimeAssumption DEF Tick, LifetimeInv
<1>2. CASE Alter
  <2>1. UNCHANGED <<issued, config, clock>> /\ args' \in Arguments
    BY <1>2 DEF Alter
  <2>2. PICK i \in Intents, a \in Actions, t \in Targets, e \in Digests,
             ts \in IssueTime - 1 .. IssueTime + 1 :
           receipt' = [receipt EXCEPT !.intent = i, !.action = a, !.target = t,
                                      !.evidence = e, !.timestamp = ts]
    BY <1>2 DEF Alter
  <2>3. IsCarried(receipt, issued.receipt.signature) /\ ts \in Int
    BY LifetimeAssumption DEF LifetimeInv
  <2>4. IsCarried(receipt', issued.receipt.signature)
    BY <2>2, <2>3, AlteredReceipt
  <2> QED BY <2>1, <2>4 DEF LifetimeInv
<1>3. CASE Tighten
  <2>1. UNCHANGED <<issued, receipt, args, clock>>
    BY <1>3 DEF Tighten
  <2>2. config \in Configs
    BY DEF LifetimeInv
  <2>3. config' \in Configs
    <3>1. ASSUME NEW ts \in SUBSET config.authorized_targets,
                 config' = [config EXCEPT !.authorized_targets = ts]
          PROVE  config' \in Configs
      BY <2>2, <3>1 DEF Configs
    <3>2. ASSUME NEW as \in SUBSET config.allowed_actions,
                 config' = [config EXCEPT !.allowed_actions = as]
          PROVE  config' \in Configs
      BY <2>2, <3>2 DEF Configs
    <3>3. ASSUME NEW a \in Actions, config' = [config EXCEPT !.forbidden_actions = @ \cup {a}]
          PROVE  config' \in Configs
      BY <2>2, <3>3 DEF Configs
    <3> QED BY <1>3, <3>1, <3>2, <3>3 DEF Tighten
  <2> QED BY <2>1, <2>3 DEF LifetimeInv
<1>4. CASE UNCHANGED vars
  BY <1>4 DEF vars, LifetimeInv
<1> QED BY <1>1, <1>2, <1>3, <1>4 DEF Next

LEMMA InvariantHolds == Spec => []LifetimeInv
  BY InitOK, LifetimeStep, PTL DEF Spec

---------------------------------------------------------------------------------
(* The bound text: what can be read back from it.                          *)
WordsOf(s) == {s[k] : k \in 1..Len(s)}

LEMMA TextIsSequence ==
    ASSUME NEW s, IsText(s), NEW S, WordsOf(s) \subseteq S
    PROVE  s \in Seq(S)
  BY DEF IsText, WordsOf

Lacks(s, d) == \A k \in 1..Len(s) : s[k] # d

(* A separator that occurs once splits a sequence in one way only.         *)
LEMMA Split ==
    ASSUME NEW S, NEW s \in Seq(S), NEW t \in Seq(S), NEW u \in Seq(S), NEW v \in Seq(S),
           NEW d \in S, Lacks(s, d), Lacks(t, d),
           (s \o <<d>>) \o t = (u \o <<d>>) \o v
    PROVE  s = u /\ t = v
<1> DEFINE x == (s \o <<d>>) \o t
           y == (u \o <<d>>) \o v
<1>1. <<d>> \in Seq(S) /\ Len(<<d>>) = 1 /\ <<d>>[1] = d
  OBVIOUS
<1>2. /\ s \o <<d>> \in Seq(S) /\ Len(s \o <<d>>) = Len(s) + 1
      /\ \A k \in 1..Len(s) + 1 :
            (s \o <<d>>)[k] = IF k <= Len(s) THEN s[k] ELSE <<d>>[k - Len(s)]
  BY <1>1, ConcatProperties
<1>3. /\ u \o <<d>> \in Seq(S) /\ Len(u \o <<d>>) = Len(u) + 1
      /\ \A k \in 1..Len(u) + 1 :
            (u \o <<d>>)[k] = IF k <= Len(u) THEN u[k] ELSE <<d>>[k - Len(u)]
  BY <1>1, ConcatProperties
<1>4. /\ Len(x) = Len(s) + 1 + Len(t)
      /\ \A k \in 1..Len(s) + 1 + Len(t) :
            x[k] = IF k <= Len(s) + 1 THEN (s \o <<d>>)[k] ELSE t[k - (Len(s) + 1)]
  <2> DEFINE w == s \o <<d>>
  <2>1. w \in Seq(S) /\ Len(w) = Len(s) + 1
    BY <1>2
  <2> HIDE DEF w
  <2>2. /\ Len(w \o t) = Len(w) + Len(t)
        /\ \A k \in 1..Len(w) + Len(t) :
              (w \o t)[k] = IF k <= Len(w) THEN w[k] ELSE t[k - Len(w)]
    BY <2>1, ConcatProperties
  <2>3. x = w \o t
    BY DEF w
  <2> HIDE DEF x
  <2>4. /\ Len(x) = Len(s) + 1 + Len(t)
        /\ \A k \in 1..Len(s) + 1 + Len(t) :
              x[k] = IF k <= Len(s) + 1 THEN w[k] ELSE t[k - (Len(s) + 1)]
    BY <2>1, <2>2, <2>3
  <2> QED BY <2>4 DEF w
<1>5. /\ Len(y) = Len(u) + 1 + Len(v)
      /\ \A k \in 1..Len(u) + 1 + Len(v) :
            y[k] = IF k <= Len(u) + 1 THEN (u \o <<d>>)[k] ELSE v[k - (Len(u) + 1)]
  <2> DEFINE w == u \o <<d>>
  <2>1. w \in Seq(S) /\ Len(w) = Len(u) + 1
    BY <1>3
  <2> HIDE DEF w
  <2>2. /\ Len(w \o v) = Len(w) + Len(v)
        /\ \A k \in 1..Len(w) + Len(v) :
              (w \o v)[k] = IF k <= Len(w) THEN w[k] ELSE v[k - Len(w)]
    BY <2>1, ConcatProperties
  <2>3. y = w \o v
    BY DEF w
  <2> HIDE DEF y
  <2>4. /\ Len(y) = Len(u) + 1 + Len(v)
        /\ \A k \in 1..Len(u) + 1 + Len(v) :
              y[k] = IF k <= Len(u) + 1 THEN w[k] ELSE v[k - (Len(u) + 1)]
    BY <2>1, <2>2, <2>3
  <2> QED BY <2>4 DEF w
<1>6. /\ Len(s) \in Nat /\ Len(t) \in Nat /\ Len(u) \in Nat /\ Len(v) \in Nat
  OBVIOUS
<1>7. x = y
  OBVIOUS
<1> DEFINE m == s \o <<d>>
           n == u \o <<d>>
<1>8. /\ \A k \in 1..Len(s) : m[k] = s[k]
      /\ m[Len(s) + 1] = d
      /\ \A k \in 1..Len(u) : n[k] = u[k]
      /\ n[Len(u) + 1] = d
  BY <1>1, <1>2, <1>3, <1>6
<1>9. /\ \A k \in 1..Len(s) : x[k] = s[k]
      /\ \A k \in 1..Len(t) : x[Len(s) + 1 + k] = t[k]
      /\ \A k \in 1..Len(u) : y[k] = u[k]
      /\ \A k \in 1..Len(v) : y[Len(u) + 1 + k] = v[k]
      /\ y[Len(u) + 1] = d
      /\ Len(x) = Len(s) + 1 + Len(t) /\ Len(y) = Len(u) + 1 + Len(v)
  <2> HIDE DEF x, y
  <2>1. /\ \A k \in 1..Len(s) : x[k] = m[k]
        /\ \A k \in 1..Len(u) : y[k] = n[k]
        /\ y[Len(u) + 1] = n[Len(u) + 1]
    BY <1>4, <1>5, <1>6
  <2>2. \A k \in 1..Len(t) : x[Len(s) + 1 + k] = t[k]
    <3> TAKE k \in 1..Len(t)
    <3>1. /\ Len(s) + 1 + k \in 1..Len(s) + 1 + Len(t) /\ ~(Len(s) + 1 + k <= Len(s) + 1)
          /\ Len(s) + 1 + k - (Len(s) + 1) = k
      BY <1>6
    <3> QED BY <1>4, <3>1
  <2>3. \A k \in 1..Len(v) : y[Len(u) + 1 + k] = v[k]
    <3> TAKE k \in 1..Len(v)
    <3>1. /\ Len(u) + 1 + k \in 1..Len(u) + 1 + Len(v) /\ ~(Len(u) + 1 + k <= Len(u) + 1)
          /\ Len(u) + 1 + k - (Len(u) + 1) = k
      BY <1>6
    <3> QED BY <1>5, <3>1
  <2> HIDE DEF m, n
  <2> QED BY <1>4, <1>5, <1>8, <2>1, <2>2, <2>3
<1> HIDE DEF x, y, m, n
<1>10. Len(u) = Len(s)
  <2>1. CASE Len(u) < Len(s)
    <3>1. Len(u) + 1 \in 1..Len(s)
      BY <1>6, <2>1
    <3> QED BY <1>7, <1>9, <3>1 DEF Lacks
  <2>2. CASE Len(u) > Len(s)
    <3>1. Len(u) - Len(s) \in 1..Len(t) /\ Len(s) + 1 + (Len(u) - Len(s)) = Len(u) + 1
      BY <1>6, <1>7, <1>9, <2>2
    <3> QED BY <1>7, <1>9, <3>1 DEF Lacks
  <2> QED BY <1>6, <2>1, <2>2
<1>11. Len(v) = Len(t)
  BY <1>6, <1>7, <1>9, <1>10
<1>12. s = u
  <2>1. \A k \in 1..Len(s) : s[k] = u[k]
    BY <1>7, <1>9, <1>10
  <2> QED BY <1>10, <2>1, SeqEqual
<1>13. t = v
  <2>1. \A k \in 1..Len(t) : t[k] = v[k]
    <3> TAKE k \in 1..Len(t)
    <3>1. x[Len(s) + 1 + k] = t[k] /\ y[Len(u) + 1 + k] = v[k]
      BY <1>9, <1>11
    <3> QED BY <1>7, <1>10, <3>1
  <2> QED BY <1>11, <2>1, SeqEqual
<1> QED BY <1>12, <1>13

LEMMA Extended ==
    ASSUME NEW S, NEW s \in Seq(S), NEW t \in Seq(S), NEW e \in S
    PROVE  /\ (s \o <<e>>) \o t \in Seq(S)
           /\ \A d : Lacks(s, d) /\ Lacks(t, d) /\ e # d => Lacks((s \o <<e>>) \o t, d)
<1> DEFINE m == s \o <<e>>
           x == m \o t
<1>1. <<e>> \in Seq(S) /\ Len(<<e>>) = 1 /\ <<e>>[1] = e /\ Len(s) \in Nat /\ Len(t) \in Nat
  OBVIOUS
<1>2. /\ m \in Seq(S) /\ Len(m) = Len(s) + 1
      /\ \A k \in 1..Len(s) + 1 : m[k] = IF k <= Len(s) THEN s[k] ELSE <<e>>[k - Len(s)]
  BY <1>1, ConcatProperties
<1> HIDE DEF m
<1>3. /\ x \in Seq(S) /\ Len(x) = Len(s) + 1 + Len(t)
      /\ \A k \in 1..Len(s) + 1 + Len(t) :
            x[k] = IF k <= Len(s) + 1 THEN m[k] ELSE t[k - (Len(s) + 1)]
  <2>1. m \in Seq(S)
    BY <1>2
  <2>2. /\ x \in Seq(S) /\ Len(x) = Len(m) + Len(t)
        /\ \A k \in 1..Len(m) + Len(t) :
              x[k] = IF k <= Len(m) THEN m[k] ELSE t[k - Len(m)]
    BY <2>1, ConcatProperties
  <2> HIDE DEF x
  <2> QED BY <1>2, <2>2
<1> HIDE DEF x
<1>4. ASSUME NEW d, Lacks(s, d), Lacks(t, d), e # d, NEW k \in 1..Len(x)
      PROVE  x[k] # d
  <2>1. CASE k <= Len(s)
    BY <1>1, <1>2, <1>3, <1>4, <2>1 DEF Lacks
  <2>2. CASE k = Len(s) + 1
    BY <1>1, <1>2, <1>3, <1>4, <2>2
  <2>3. CASE k > Len(s) + 1
    <3>1. x[k] = t[k - (Len(s) + 1)] /\ k - (Len(s) + 1) \in 1..Len(t)
      BY <1>1, <1>3, <1>4, <2>3
    <3> QED BY <1>4, <3>1 DEF Lacks
  <2> QED BY <1>1, <1>3, <1>4, <2>1, <2>2, <2>3
<1>5. \A d : Lacks(s, d) /\ Lacks(t, d) /\ e # d => Lacks(x, d)
  BY <1>4 DEF Lacks
<1> QED BY <1>3, <1>5 DEF x, m

(* The text up to one field and the next.                                  *)
UpToIntent(i) == <<"intent:">> \o i
UpToAction(i, a) == (UpToIntent(i) \o <<"|action:">>) \o a
UpToTarget(i, a, t) == (UpToAction(i, a) \o <<"|target:">>) \o t
UpToPayload(i, a, t, p) == (UpToTarget(i, a, t) \o <<"|payload:">>) \o p
UpToEvidence(i, a, t, p, e) == (UpToPayload(i, a, t, p) \o <<"|evidence:">>) \o e
Timed(s, at) == s \o <<"|ts:", at>>

LEMMA BindingIsJoined ==
    ASSUME NEW r, NEW a
    PROVE  Binding(r, a) =
              Timed(UpToEvidence(Text(r.intent), Text(r.action), Text(r.target), Canonical(a),
                                 Text(r.evidence)), r.timestamp)
  BY DEF Binding, Timed, UpToEvidence, UpToPayload, UpToTarget, UpToAction, UpToIntent

Separators == Labels \cup {"intent:"}

LEMMA PrefixesAreSequences ==
    ASSUME NEW S, Separators \subseteq S, NEW i \in Seq(S), NEW a \in Seq(S),
           NEW t \in Seq(S), NEW p \in Seq(S), NEW e \in Seq(S)
    PROVE  /\ UpToIntent(i) \in Seq(S)
           /\ UpToAction(i, a) \in Seq(S)
           /\ UpToTarget(i, a, t) \in Seq(S)
           /\ UpToPayload(i, a, t, p) \in Seq(S)
           /\ UpToEvidence(i, a, t, p, e) \in Seq(S)
<1>1. {"intent:", "|action:", "|target:", "|payload:", "|evidence:"} \subseteq S
  BY DEF Separators, Labels
<1>2. UpToIntent(i) \in Seq(S)
  <2>1. <<"intent:">> \in Seq(S)
    BY <1>1
  <2> QED BY <2>1, ConcatProperties DEF UpToIntent
<1>3. UpToAction(i, a) \in Seq(S)
  BY <1>1, <1>2, Extended DEF UpToAction
<1>4. UpToTarget(i, a, t) \in Seq(S)
  BY <1>1, <1>3, Extended DEF UpToTarget
<1>5. UpToPayload(i, a, t, p) \in Seq(S)
  BY <1>1, <1>4, Extended DEF UpToPayload
<1>6. UpToEvidence(i, a, t, p, e) \in Seq(S)
  BY <1>1, <1>5, Extended DEF UpToEvidence
<1> QED BY <1>2, <1>3, <1>4, <1>5, <1>6

(* Before a label of a plain text there is no such label.                  *)
LEMMA PrefixesLackLabels ==
    ASSUME NEW S, Separators \subseteq S, NEW i \in Seq(S), NEW a \in Seq(S),
           NEW t \in Seq(S), NEW p \in Seq(S),
           IsPlain(i), IsPlain(a), IsPlain(t), IsPlain(p)
    PROVE  /\ Lacks(UpToIntent(i), "|action:")
           /\ Lacks(UpToAction(i, a), "|target:")
           /\ Lacks(UpToTarget(i, a, t), "|payload:")
           /\ Lacks(UpToPayload(i, a, t, p), "|evidence:")
<1>1. {"intent:", "|action:", "|target:", "|payload:", "|evidence:"} \subseteq S
  BY DEF Separators, Labels
<1>2. \A d \in Labels : Lacks(i, d) /\ Lacks(a, d) /\ Lacks(t, d) /\ Lacks(p, d)
  BY DEF IsPlain, Lacks
<1>3. /\ UpToIntent(i) \in Seq(S) /\ UpToAction(i, a) \in Seq(S)
      /\ UpToTarget(i, a, t) \in Seq(S)
  BY PrefixesAreSequences
<1>4. \A d \in Labels : Lacks(UpToIntent(i), d)
  <2>1. <<>> \in Seq(S) /\ (<<>> \o <<"intent:">>) = <<"intent:">> /\ \A d : Lacks(<<>>, d)
    BY DEF Lacks
  <2>2. \A d : Lacks(<<>>, d) /\ Lacks(i, d) /\ "intent:" # d
                  => Lacks((<<>> \o <<"intent:">>) \o i, d)
    BY <1>1, <2>1, Extended
  <2>3. \A d \in Labels : "intent:" # d
    BY DEF Labels
  <2> QED BY <1>2, <2>1, <2>2, <2>3 DEF UpToIntent
<1>5. \A d \in Labels \ {"|action:"} : Lacks(UpToAction(i, a), d)
  BY <1>1, <1>2, <1>3, <1>4, Extended DEF UpToAction
<1>6. \A d \in Labels \ {"|action:", "|target:"} : Lacks(UpToTarget(i, a, t), d)
  BY <1>1, <1>2, <1>3, <1>5, Extended DEF UpToTarget
<1>7. \A d \in Labels \ {"|action:", "|target:", "|payload:"} :
         Lacks(UpToPayload(i, a, t, p), d)
  BY <1>1, <1>2, <1>3, <1>6, Extended DEF UpToPayload
<1>8. /\ "|action:" \in Labels /\ "|target:" \in Labels \ {"|action:"}
      /\ "|payload:" \in Labels \ {"|action:", "|target:"}
      /\ "|evidence:" \in Labels \ {"|action:", "|target:", "|payload:"}
  BY DEF Labels
<1> QED BY <1>4, <1>5, <1>6, <1>7, <1>8

(* The timestamp is the last word, so it can always be read back.          *)
LEMMA TimestampIsRead ==
    ASSUME NEW S, NEW s \in Seq(S), NEW t \in Seq(S), NEW at, NEW now,
           Timed(s, at) = Timed(t, now)
    PROVE  s = t /\ at = now
<1> DEFINE Q == S \cup {"|ts:", at, now}
           m == <<"|ts:", at>>
           n == <<"|ts:", now>>
           x == s \o m
           y == t \o n
<1>1. /\ s \in Seq(Q) /\ t \in Seq(Q) /\ m \in Seq(Q) /\ n \in Seq(Q)
      /\ Len(m) = 2 /\ Len(n) = 2 /\ m[2] = at /\ n[2] = now
      /\ Len(s) \in Nat /\ Len(t) \in Nat
  OBVIOUS
<1>2. x = y
  BY DEF Timed
<1> HIDE DEF Q, m, n
<1>3. /\ Len(x) = Len(s) + 2
      /\ \A k \in 1..Len(s) + 2 : x[k] = IF k <= Len(s) THEN s[k] ELSE m[k - Len(s)]
  <2>1. /\ Len(x) = Len(s) + Len(m)
        /\ \A k \in 1..Len(s) + Len(m) :
              x[k] = IF k <= Len(s) THEN s[k] ELSE m[k - Len(s)]
    BY <1>1, ConcatProperties
  <2> HIDE DEF x
  <2> QED BY <1>1, <2>1
<1>4. /\ Len(y) = Len(t) + 2
      /\ \A k \in 1..Len(t) + 2 : y[k] = IF k <= Len(t) THEN t[k] ELSE n[k - Len(t)]
  <2>1. /\ Len(y) = Len(t) + Len(n)
        /\ \A k \in 1..Len(t) + Len(n) :
              y[k] = IF k <= Len(t) THEN t[k] ELSE n[k - Len(t)]
    BY <1>1, ConcatProperties
  <2> HIDE DEF y
  <2> QED BY <1>1, <2>1
<1> HIDE DEF x, y
<1>5. Len(s) = Len(t)
  BY <1>1, <1>2, <1>3, <1>4
<1>6. \A k \in 1..Len(s) : s[k] = t[k]
  BY <1>1, <1>2, <1>3, <1>4, <1>5
<1>7. x[Len(s) + 2] = m[2] /\ y[Len(s) + 2] = n[2]
  <2>1. Len(s) + 2 \in 1..Len(s) + 2 /\ ~(Len(s) + 2 <= Len(s)) /\ Len(s) + 2 - Len(s) = 2
    BY <1>1
  <2> QED BY <1>3, <1>4, <1>5, <2>1
<1>8. at = now
  BY <1>1, <1>2, <1>7
<1> QED BY <1>1, <1>5, <1>6, <1>8, SeqEqual

(* One field off the end of two texts, of which the first is plain.        *)
Cut(S, s, d, t) == s \in Seq(S) /\ d \in S /\ t \in Seq(S)

CleanCut(S, s, d, t) == Cut(S, s, d, t) /\ Lacks(s, d) /\ Lacks(t, d)

LEMMA LastField ==
    ASSUME NEW S, NEW s, NEW t, NEW u, NEW v, NEW d,
           CleanCut(S, s, d, t), Cut(S, u, d, v),
           (s \o <<d>>) \o t = (u \o <<d>>) \o v
    PROVE  s = u /\ t = v
  BY Split DEF CleanCut, Cut

AreTexts(S, i, a, t, p, e) ==
    /\ Separators \subseteq S
    /\ i \in Seq(S) /\ a \in Seq(S) /\ t \in Seq(S) /\ p \in Seq(S) /\ e \in Seq(S)

ArePlain(i, a, t, p, e) ==
    IsPlain(i) /\ IsPlain(a) /\ IsPlain(t) /\ IsPlain(p) /\ IsPlain(e)

LEMMA TextsAreCut ==
    ASSUME NEW S, NEW i, NEW a, NEW t, NEW p, NEW e, AreTexts(S, i, a, t, p, e)
    PROVE  /\ UpToIntent(i) \in Seq(S) /\ <<"intent:">> \in Seq(S) /\ i \in Seq(S)
           /\ Cut(S, UpToIntent(i), "|action:", a)
           /\ Cut(S, UpToAction(i, a), "|target:", t)
           /\ Cut(S, UpToTarget(i, a, t), "|payload:", p)
           /\ Cut(S, UpToPayload(i, a, t, p), "|evidence:", e)
<1>1. /\ {"intent:", "|action:", "|target:", "|payload:", "|evidence:"} \subseteq S
      /\ i \in Seq(S) /\ a \in Seq(S) /\ t \in Seq(S) /\ p \in Seq(S) /\ e \in Seq(S)
      /\ Separators \subseteq S
  BY DEF AreTexts, Separators, Labels
<1>2. /\ UpToIntent(i) \in Seq(S) /\ UpToAction(i, a) \in Seq(S)
      /\ UpToTarget(i, a, t) \in Seq(S) /\ UpToPayload(i, a, t, p) \in Seq(S)
  BY <1>1, PrefixesAreSequences
<1> QED BY <1>1, <1>2 DEF Cut

LEMMA PlainTextsAreCut ==
    ASSUME NEW S, NEW i, NEW a, NEW t, NEW p, NEW e,
           AreTexts(S, i, a, t, p, e), ArePlain(i, a, t, p, e)
    PROVE  /\ CleanCut(S, UpToIntent(i), "|action:", a)
           /\ CleanCut(S, UpToAction(i, a), "|target:", t)
           /\ CleanCut(S, UpToTarget(i, a, t), "|payload:", p)
           /\ CleanCut(S, UpToPayload(i, a, t, p), "|evidence:", e)
<1>1. /\ Lacks(a, "|action:") /\ Lacks(t, "|target:")
      /\ Lacks(p, "|payload:") /\ Lacks(e, "|evidence:")
  BY DEF AreTexts, ArePlain, IsPlain, Lacks, Labels
<1>2. /\ Lacks(UpToIntent(i), "|action:") /\ Lacks(UpToAction(i, a), "|target:")
      /\ Lacks(UpToTarget(i, a, t), "|payload:")
      /\ Lacks(UpToPayload(i, a, t, p), "|evidence:")
  BY PrefixesLackLabels DEF AreTexts, ArePlain
<1> QED BY <1>1, <1>2, TextsAreCut DEF CleanCut

(* A text signed plainly can be read back whole, whatever the fields of    *)
(* the call it is compared with contain.                                   *)
LEMMA PlainTextIsRead ==
    ASSUME NEW S, NEW i, NEW a, NEW t, NEW p, NEW e, NEW j, NEW b, NEW u, NEW q, NEW f,
           AreTexts(S, i, a, t, p, e), ArePlain(i, a, t, p, e), AreTexts(S, j, b, u, q, f),
           UpToEvidence(i, a, t, p, e) = UpToEvidence(j, b, u, q, f)
    PROVE  i = j /\ a = b /\ t = u /\ p = q /\ e = f
<1>1. /\ CleanCut(S, UpToIntent(i), "|action:", a)
      /\ CleanCut(S, UpToAction(i, a), "|target:", t)
      /\ CleanCut(S, UpToTarget(i, a, t), "|payload:", p)
      /\ CleanCut(S, UpToPayload(i, a, t, p), "|evidence:", e)
  BY PlainTextsAreCut
<1>2. /\ Cut(S, UpToIntent(j), "|action:", b)
      /\ Cut(S, UpToAction(j, b), "|target:", u)
      /\ Cut(S, UpToTarget(j, b, u), "|payload:", q)
      /\ Cut(S, UpToPayload(j, b, u, q), "|evidence:", f)
  BY TextsAreCut
<1>3. UpToPayload(i, a, t, p) = UpToPayload(j, b, u, q) /\ e = f
  <2>1. (UpToPayload(i, a, t, p) \o <<"|evidence:">>) \o e
           = (UpToPayload(j, b, u, q) \o <<"|evidence:">>) \o f
    BY DEF UpToEvidence
  <2>2. CleanCut(S, UpToPayload(i, a, t, p), "|evidence:", e) /\ Cut(S, UpToPayload(j, b, u, q), "|evidence:", f)
    BY <1>1, <1>2
  <2> QED BY <2>1, <2>2, LastField
<1>4. UpToTarget(i, a, t) = UpToTarget(j, b, u) /\ p = q
  <2>1. (UpToTarget(i, a, t) \o <<"|payload:">>) \o p
           = (UpToTarget(j, b, u) \o <<"|payload:">>) \o q
    BY <1>3 DEF UpToPayload
  <2>2. CleanCut(S, UpToTarget(i, a, t), "|payload:", p) /\ Cut(S, UpToTarget(j, b, u), "|payload:", q)
    BY <1>1, <1>2
  <2> QED BY <2>1, <2>2, LastField
<1>5. UpToAction(i, a) = UpToAction(j, b) /\ t = u
  <2>1. (UpToAction(i, a) \o <<"|target:">>) \o t
           = (UpToAction(j, b) \o <<"|target:">>) \o u
    BY <1>4 DEF UpToTarget
  <2>2. CleanCut(S, UpToAction(i, a), "|target:", t) /\ Cut(S, UpToAction(j, b), "|target:", u)
    BY <1>1, <1>2
  <2> QED BY <2>1, <2>2, LastField
<1>6. UpToIntent(i) = UpToIntent(j) /\ a = b
  <2>1. (UpToIntent(i) \o <<"|action:">>) \o a
           = (UpToIntent(j) \o <<"|action:">>) \o b
    BY <1>5 DEF UpToAction
  <2>2. CleanCut(S, UpToIntent(i), "|action:", a) /\ Cut(S, UpToIntent(j), "|action:", b)
    BY <1>1, <1>2
  <2> QED BY <2>1, <2>2, LastField
<1>7. i = j
  <2>1. <<"intent:">> \in Seq(S) /\ i \in Seq(S) /\ j \in Seq(S)
    BY TextsAreCut
  <2> QED BY <1>6, <2>1, ConcatSimplifications DEF UpToIntent
<1> QED BY <1>3, <1>4, <1>5, <1>6, <1>7

OfNames(r) == r.intent \in Names /\ r.action \in Names /\ r.target \in Names /\ r.evidence \in Names

PlainCall(r, a) ==
    ArePlain(Text(r.intent), Text(r.action), Text(r.target), Canonical(a), Text(r.evidence))

(* What two calls with one bound text have in common.                      *)
LEMMA BindingIsRead ==
    ASSUME NEW r, NEW a \in Arguments, OfNames(r),
           NEW q, NEW b \in Arguments, OfNames(q), Binding(r, a) = Binding(q, b)
    PROVE  /\ r.timestamp = q.timestamp
           /\ PlainCall(r, a) => /\ r.intent = q.intent /\ r.action = q.action
                                 /\ r.target = q.target /\ r.evidence = q.evidence
                                 /\ a = b
<1> DEFINE Words(p, c) == WordsOf(Text(p.intent)) \cup WordsOf(Text(p.action))
                          \cup WordsOf(Text(p.target)) \cup WordsOf(Canonical(c))
                          \cup WordsOf(Text(p.evidence))
           S == Separators \cup Words(r, a) \cup Words(q, b)
           Fits(p, c) == AreTexts(S, Text(p.intent), Text(p.action), Text(p.target),
                                  Canonical(c), Text(p.evidence))
           Whole(p, c) == UpToEvidence(Text(p.intent), Text(p.action), Text(p.target),
                                       Canonical(c), Text(p.evidence))
<1>1. \A n \in Names : IsText(Text(n))
  BY LifetimeAssumption
<1>2. \A c \in Arguments : IsText(Canonical(c))
  BY LifetimeAssumption
<1>3. ASSUME NEW p, NEW c \in Arguments, OfNames(p), Words(p, c) \subseteq S
      PROVE  Fits(p, c)
  <2>1. /\ IsText(Text(p.intent)) /\ IsText(Text(p.action)) /\ IsText(Text(p.target))
        /\ IsText(Text(p.evidence)) /\ IsText(Canonical(c))
    BY <1>1, <1>2, <1>3 DEF OfNames
  <2>2. /\ WordsOf(Text(p.intent)) \subseteq S /\ WordsOf(Text(p.action)) \subseteq S
        /\ WordsOf(Text(p.target)) \subseteq S /\ WordsOf(Text(p.evidence)) \subseteq S
        /\ WordsOf(Canonical(c)) \subseteq S
    BY <1>3
  <2>3. Separators \subseteq S
    OBVIOUS
  <2> HIDE DEF S
  <2> QED BY <2>1, <2>2, <2>3, TextIsSequence DEF AreTexts
<1>4. Fits(r, a) /\ Fits(q, b)
  <2>1. Words(r, a) \subseteq S /\ Words(q, b) \subseteq S
    OBVIOUS
  <2> HIDE DEF S, Words, Fits
  <2> QED BY <1>3, <2>1
<1> HIDE DEF S
<1>5. Whole(r, a) \in Seq(S) /\ Whole(q, b) \in Seq(S)
  BY <1>4, PrefixesAreSequences DEF AreTexts
<1>6. Timed(Whole(r, a), r.timestamp) = Timed(Whole(q, b), q.timestamp)
  BY BindingIsJoined
<1>7. Whole(r, a) = Whole(q, b) /\ r.timestamp = q.timestamp
  <2> HIDE DEF Whole
  <2> QED BY <1>5, <1>6, TimestampIsRead
<1>8. ASSUME PlainCall(r, a)
      PROVE  /\ r.intent = q.intent /\ r.action = q.action
             /\ r.target = q.target /\ r.evidence = q.evidence /\ a = b
  <2>1. /\ Text(r.intent) = Text(q.intent) /\ Text(r.action) = Text(q.action)
        /\ Text(r.target) = Text(q.target) /\ Canonical(a) = Canonical(b)
        /\ Text(r.evidence) = Text(q.evidence)
    BY <1>4, <1>7, <1>8, PlainTextIsRead DEF PlainCall
  <2> QED BY <2>1, LifetimeAssumption DEF OfNames
<1> QED BY <1>7, <1>8

LEMMA OnlyAsIssued == LifetimeInv => AllowedAsIssued
<1> SUFFICES ASSUME LifetimeInv, Verdict = "Allow"
             PROVE  /\ receipt.timestamp = issued.receipt.timestamp
                    /\ SignedPlainly => receipt = issued.receipt /\ args = issued.args
  BY DEF AllowedAsIssued
<1>1. PICK i \in Intents, a \in Actions, t \in Targets, e \in Digests :
         issued.receipt = Signed(i, a, t, e, issued.args)
  BY DEF LifetimeInv
<1>2. PICK j \in Intents, b \in Actions, u \in Targets, f \in Digests, ts \in Int :
         receipt = Carried(j, b, u, f, ts, issued.receipt.signature)
  BY DEF LifetimeInv, IsCarried
<1> DEFINE body == [intent |-> i, action |-> a, target |-> t, evidence |-> e,
                    timestamp |-> IssueTime]
<1>3. issued.receipt = Carried(i, a, t, e, IssueTime,
                               [key |-> PolicyKey, over |-> Binding(body, issued.args)])
  BY <1>1 DEF Signed, Carried
<1>4. receipt.signature = [key |-> VerifyingKey(config), over |-> Binding(receipt, args)]
  BY AllowMeans DEF Verdict, SignatureMatches
<1>5. receipt.signature = issued.receipt.signature
  BY <1>2 DEF Carried
<1>6. issued.receipt.signature = [key |-> PolicyKey, over |-> Binding(body, issued.args)]
  BY <1>3 DEF Carried
<1>7. Binding(body, issued.args) = Binding(receipt, args)
  BY <1>4, <1>5, <1>6
<1>8. OfNames(receipt) /\ OfNames(body) /\ args \in Arguments /\ issued.args \in Arguments
  BY <1>2 DEF OfNames, Names, Carried, LifetimeInv
<1>9. /\ body.timestamp = receipt.timestamp
      /\ PlainCall(body, issued.args) =>
            /\ body.intent = receipt.intent /\ body.action = receipt.action
            /\ body.target = receipt.target /\ body.evidence = receipt.evidence
            /\ issued.args = args
  <2> HIDE DEF body
  <2> QED BY <1>7, <1>8, BindingIsRead
<1>10. /\ issued.receipt.timestamp = body.timestamp
       /\ SignedPlainly => PlainCall(body, issued.args)
  BY <1>3 DEF Carried, SignedPlainly, PlainCall, ArePlain
<1>11. receipt.timestamp = issued.receipt.timestamp
  BY <1>9, <1>10
<1>12. ASSUME SignedPlainly PROVE receipt = issued.receipt /\ args = issued.args
  <2>1. /\ body.intent = receipt.intent /\ body.action = receipt.action
        /\ body.target = receipt.target /\ body.evidence = receipt.evidence
        /\ body.timestamp = receipt.timestamp /\ issued.args = args
    BY <1>9, <1>10, <1>12
  <2>2. j = i /\ b = a /\ u = t /\ f = e /\ ts = IssueTime
    BY <1>2, <2>1 DEF Carried
  <2> QED BY <1>2, <1>3, <1>6, <2>1, <2>2
<1> QED BY <1>11, <1>12

---------------------------------------------------------------------------------
(* A receipt that was signed plainly, with no label of the bound text in   *)
(* any of its fields, approves nothing but the call it was signed for,     *)
(* whatever the fields of that call contain; any receipt approves a call   *)
(* of its own time only (crypto.rs:179-199).                               *)
THEOREM ApprovesOneCall == Spec => []AllowedAsIssued
  BY InvariantHolds, OnlyAsIssued, PTL

(* A receipt for a side effect that was signed plainly, without its        *)
(* approvals, can never be used (crypto.rs:167-186).                       *)
THEOREM ApprovalsAreSigned == Spec => []SuspendedReceiptIsDead
<1>1. LifetimeInv => SuspendedReceiptIsDead
  <2> SUFFICES ASSUME LifetimeInv, receipt.action \in SideEffectActions,
                      ~issued.args.quorum, SignedPlainly, Verdict = "Allow"
               PROVE  FALSE
    BY DEF SuspendedReceiptIsDead
  <2>1. args = issued.args
    BY OnlyAsIssued DEF AllowedAsIssued
  <2>2. ~LacksQuorum(receipt.action, args)
    BY AllowMeans DEF Verdict
  <2> QED BY <2>1, <2>2 DEF LacksQuorum
<1> QED BY <1>1, InvariantHolds, PTL

(* The window of a receipt does not reopen (crypto.rs:101-113).            *)
THEOREM WindowsClose == Spec => ExpiryIsFinal
<1> DEFINE Closing == /\ clock' > clock
                      /\ Verdict # "Allow"
                      /\ receipt.timestamp <= clock + ClockSkew
                      => Verdict' # "Allow"
<1>1. LifetimeInv /\ [Next]_vars => [Closing]_vars
  <2> SUFFICES ASSUME LifetimeInv, [Next]_vars, clock' > clock,
                      receipt.timestamp <= clock + ClockSkew, Verdict' = "Allow"
               PROVE  Verdict = "Allow"
    OBVIOUS
  <2>1. clock \in Int /\ config \in Configs
    BY DEF LifetimeInv
  <2>2. UNCHANGED <<receipt, args, config>> /\ clock' = clock + 1
    <3>1. Alter => UNCHANGED clock
      BY Zenon DEF Alter
    <3> QED BY <2>1, <3>1 DEF Next, Tick, Tighten, vars
  <2>3. receipt.timestamp \in Int
    BY DEF LifetimeInv, IsCarried, Carried
  <2>4. config.ttl \in Int
    BY <2>1, LifetimeAssumption DEF Configs
  <2>5. VerifyReceipt(receipt, receipt.action, args, config, clock') = "Allow"
    BY <2>2 DEF Verdict
  <2>6. IsFresh(receipt, config.ttl, clock')
    BY <2>5, AllowMeans
  <2>7. IsFresh(receipt, config.ttl, clock)
    BY <2>1, <2>2, <2>3, <2>4, <2>6, VerificationAssumption DEF IsFresh
  <2> QED BY <2>5, <2>7, AllowMeans DEF Verdict
<1> QED BY <1>1, InvariantHolds, PTL DEF Spec, ExpiryIsFinal

(* Tightening the policy, short of emptying a list, never lets a call in   *)
(* (crypto.rs:78-99).                                                      *)
THEOREM StricterIsStricter == Spec => TighteningNeverAllows
<1> DEFINE Closing == Tighten /\ Verdict # "Allow" => Verdict' # "Allow"
<1>1. LifetimeInv => Closing
  <2> SUFFICES ASSUME LifetimeInv, Tighten, Verdict' = "Allow" PROVE Verdict = "Allow"
    OBVIOUS
  <2>1. config \in Configs
    BY DEF LifetimeInv
  <2>2. UNCHANGED <<receipt, args, clock>>
    BY DEF Tighten
  <2>3. VerifyReceipt(receipt, receipt.action, args, config', clock) = "Allow"
    BY <2>2 DEF Verdict
  <2>4. /\ WithinPolicy(receipt, receipt.action, config')
        /\ IsFresh(receipt, config'.ttl, clock)
        /\ Decodes(receipt, args, config')
        /\ SignatureMatches(receipt, args, config')
    BY <2>3, AllowMeans
  <2>5. config'.ttl = config.ttl /\ config'.public_key = config.public_key
    BY <2>1 DEF Tighten, Configs
  <2> DEFINE Kept(new, old) == new = old \/ (new # {} /\ new \subseteq old)
             Narrower == /\ Kept(config'.authorized_targets, config.authorized_targets)
                         /\ Kept(config'.allowed_actions, config.allowed_actions)
                         /\ config.forbidden_actions \subseteq config'.forbidden_actions
  <2>6. Narrower
    <3>1. ASSUME NEW ts \in (SUBSET config.authorized_targets) \ {{}},
                 config' = [config EXCEPT !.authorized_targets = ts]
          PROVE  Narrower
      <4>1. config'.authorized_targets = ts
        BY <2>1, <3>1 DEF Configs
      <4>2. config'.allowed_actions = config.allowed_actions /\ config'.forbidden_actions = config.forbidden_actions
        BY <2>1, <3>1 DEF Configs
      <4> QED BY <4>1, <4>2
    <3>2. ASSUME NEW as \in (SUBSET config.allowed_actions) \ {{}},
                 config' = [config EXCEPT !.allowed_actions = as]
          PROVE  Narrower
      <4>1. config'.allowed_actions = as
        BY <2>1, <3>2 DEF Configs
      <4>2. config'.authorized_targets = config.authorized_targets /\ config'.forbidden_actions = config.forbidden_actions
        BY <2>1, <3>2 DEF Configs
      <4> QED BY <4>1, <4>2
    <3>3. ASSUME NEW a \in Actions, config' = [config EXCEPT !.forbidden_actions = @ \cup {a}]
          PROVE  Narrower
      BY <2>1, <3>3 DEF Configs
    <3> QED BY <3>1, <3>2, <3>3 DEF Tighten
  <2>7. WithinPolicy(receipt, receipt.action, config)
    BY <2>4, <2>6 DEF WithinPolicy, TargetIsAuthorized
  <2>8. Decodes(receipt, args, config) /\ SignatureMatches(receipt, args, config)
    BY <2>4, <2>5 DEF Decodes, SignatureMatches, VerifyingKey
  <2> QED BY <2>3, <2>4, <2>5, <2>7, <2>8, AllowMeans DEF Verdict
<1> QED BY <1>1, InvariantHolds, PTL DEF TighteningNeverAllows
================================================================================
