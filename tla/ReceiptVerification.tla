-------------------------- MODULE ReceiptVerification --------------------------
(***************************************************************************)
(* The decision the stdio broker takes about one signed receipt: the       *)
(* function verify_receipt of crypto.rs, and the policy that load_policy   *)
(* of main.rs falls back to.                                               *)
(*                                                                         *)
(* Names (targets, actions, intent ids, digests, keys) are uninterpreted   *)
(* values.  A signature is symbolic: the pair of the key that made it and  *)
(* the text it was made over, so it verifies under exactly that key and    *)
(* that text.  A text is a sequence of words: a label of the bound text is *)
(* one word wherever its characters stand, any other character is another, *)
(* and what is read in a text does not depend on the field it came from.   *)
(* The arguments of a call are a record of what the decision looks at:     *)
(*   id           which arguments these are                                *)
(*   dry_run      json_bool finds the flag dry_run, and it is true         *)
(*   destructive  json_contains_string finds DROP or DELETE                *)
(*   quorum       both human_approver fields are present                   *)
(*   canonical    serde_jcs can serialize them                             *)
(***************************************************************************)
EXTENDS Integers, Sequences

CONSTANTS
    Text(_),         \* the words of a name or digest, which nothing restricts
    Canonical(_),    \* the words of the canonical JSON of some arguments
    Wildcard,        \* the target "*" of a policy, which authorizes any target
    Blank,           \* a target that is empty once trimmed
    TransactionalActions, \* actions whose name contains "db" or "deploy" (tier 1)
    SideEffectActions,    \* actions whose name contains "email" or "stripe" (tier 2)
    DefaultKey,      \* DEFAULT_PUBLIC_KEY_B64
    NoKey,           \* public_key_b64 is None
    MalformedKey,    \* a public_key_b64 that does not decode to an Ed25519 key
    MalformedSig,    \* a signature that does not decode to 64 bytes
    ClockSkew,       \* how far ahead of the clock a timestamp may be (30 seconds)
    FallbackTTL      \* evidence_ttl_seconds of the fallback policy (60 seconds)

ASSUME VerificationAssumption ==
    /\ ClockSkew \in Nat
    /\ FallbackTTL \in Nat \ {0}

(* GateConfig, as load_policy builds it when the file cannot be read or    *)
(* parsed.                                                                 *)
FallbackPolicy ==
    [authorized_targets |-> {Wildcard},
     allowed_actions    |-> {},
     forbidden_actions  |-> {},
     ttl                |-> FallbackTTL,
     require_receipt    |-> TRUE,
     public_key         |-> NoKey]

IsText(s) == Len(s) \in Nat /\ s = [k \in 1..Len(s) |-> s[k]]

(* Mistakes: a signature that leaves out the evidence, or the arguments.   *)
BindingWithoutEvidence(receipt, args) ==
    <<"intent:">> \o Text(receipt.intent)
    \o <<"|action:">> \o Text(receipt.action)
    \o <<"|target:">> \o Text(receipt.target)
    \o <<"|payload:">> \o Canonical(args)
    \o <<"|ts:", receipt.timestamp>>

BindingWithoutPayload(receipt, args) ==
    <<"intent:">> \o Text(receipt.intent)
    \o <<"|action:">> \o Text(receipt.action)
    \o <<"|target:">> \o Text(receipt.target)
    \o <<"|evidence:">> \o Text(receipt.evidence)
    \o <<"|ts:", receipt.timestamp>>

(* The text a receipt's signature covers: the fields one after the other,  *)
(* between labels that a field may itself contain.  The timestamp is one   *)
(* number.                                                                 *)
Binding(receipt, args) ==
    <<"intent:">> \o Text(receipt.intent)
    \o <<"|action:">> \o Text(receipt.action)
    \o <<"|target:">> \o Text(receipt.target)
    \o <<"|payload:">> \o Canonical(args)
    \o <<"|evidence:">> \o Text(receipt.evidence)
    \o <<"|ts:", receipt.timestamp>>

TargetIsAuthorized(target, authorized) ==
    Wildcard \in authorized \/ target \in authorized

VerifyingKey(policy) ==
    IF policy.public_key = NoKey THEN DefaultKey ELSE policy.public_key

(* Mistakes: the forbidden list left out, or its test inverted.            *)
WithinPolicyButForbidden(receipt, tool, policy) ==
    /\ receipt.action = tool
    /\ receipt.target # Blank
    /\ \/ policy.authorized_targets = {}
       \/ TargetIsAuthorized(receipt.target, policy.authorized_targets)
    /\ policy.allowed_actions = {} \/ receipt.action \in policy.allowed_actions

WithinInvertedPolicy(receipt, tool, policy) ==
    /\ WithinPolicyButForbidden(receipt, tool, policy)
    /\ receipt.action \in policy.forbidden_actions

(* The policy lists: an empty authorized_targets or allowed_actions does   *)
(* not restrict anything.                                                  *)
WithinPolicy(receipt, tool, policy) ==
    /\ receipt.action = tool
    /\ receipt.target # Blank
    /\ \/ policy.authorized_targets = {}
       \/ TargetIsAuthorized(receipt.target, policy.authorized_targets)
    /\ receipt.action \notin policy.forbidden_actions
    /\ policy.allowed_actions = {} \/ receipt.action \in policy.allowed_actions

(* Mistakes: no limit on the future, or none of the skew allowed for.      *)
IsNotExpired(receipt, ttl, now) ==
    ttl > 0 => now - receipt.timestamp <= ttl

IsFreshWithoutSkew(receipt, ttl, now) ==
    ttl > 0 => receipt.timestamp <= now /\ now - receipt.timestamp <= ttl

(* A time-to-live of zero or less turns both time checks off.              *)
IsFresh(receipt, ttl, now) ==
    ttl > 0 => /\ receipt.timestamp <= now + ClockSkew
               /\ now - receipt.timestamp <= ttl

Decodes(receipt, args, policy) ==
    /\ receipt.signature # MalformedSig
    /\ VerifyingKey(policy) # MalformedKey
    /\ args.canonical

LacksDryRun(tool, args) ==
    tool \in TransactionalActions /\ args.destructive /\ ~args.dry_run

LacksQuorum(tool, args) ==
    tool \in SideEffectActions /\ ~args.quorum

SignatureMatches(receipt, args, policy) ==
    receipt.signature = [key |-> VerifyingKey(policy), over |-> Binding(receipt, args)]

Decisions == {"Allow", "Block", "Suspend"}

(* The checks in the order of the code: a call that lacks its quorum is    *)
(* suspended before its signature is looked at.                            *)
VerifyReceipt(receipt, tool, args, policy, now) ==
    IF \/ ~WithinPolicy(receipt, tool, policy)
       \/ ~IsFresh(receipt, policy.ttl, now)
       \/ ~Decodes(receipt, args, policy)
       \/ LacksDryRun(tool, args)
    THEN "Block"
    ELSE IF LacksQuorum(tool, args) THEN "Suspend"
    ELSE IF SignatureMatches(receipt, args, policy) THEN "Allow"
    ELSE "Block"
================================================================================
