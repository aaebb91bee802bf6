------------------------------- MODULE GateChecks -------------------------------
(***************************************************************************)
(* What the Python side of the deployment slice computes: the evidence     *)
(* envelope, the checks of the risk gate, the receipt it issues and the    *)
(* policy it publishes to the broker.                                      *)
(*                                                                         *)
(* A digest is the document it was computed from; a signature is the key   *)
(* and the text.                                                           *)
(***************************************************************************)
EXTENDS ReceiptVerification

CONSTANTS EvidenceKey, GateKey   \* evidence_keypair, risk_gate_keypair

(* broker_policy: the gate's policy and its public key.                    *)
BrokerPolicy(p) ==
    [authorized_targets |-> p.authorized_targets,
     allowed_actions    |-> p.allowed_actions,
     forbidden_actions  |-> p.forbidden_actions,
     ttl                |-> p.ttl,
     require_receipt    |-> p.require_receipt,
     public_key         |-> GateKey]

Document(profile, ttl, now) ==
    [subject |-> profile.subject, timestamp |-> now + profile.offset, ttl |-> ttl,
     healthy |-> profile.healthy, freeze |-> profile.freeze,
     window |-> profile.window, rollback |-> profile.rollback]

(* A signature verifies under the key that made it and for the same text.  *)
Sign(key, text) == [key |-> key, over |-> text]

Verifies(signature, key, text) == signature = Sign(key, text)

(* What collect_signed_evidence returns, with the key it signs with.       *)
Envelope(document, key) ==
    [document |-> document, signer |-> key,
     signature |-> Sign(key, document), digest |-> document]

ShapeOK(request) == request.wellFormed

(* A mistake: the age of the evidence is not limited.                      *)
EvidenceOfAnyAge(envelope, policy, now) ==
    /\ envelope.signer = policy.trusted
    /\ Verifies(envelope.signature, envelope.signer, envelope.document)
    /\ now - envelope.document.timestamp >= -ClockSkew

(* A time-to-live in the document overrides the policy's; zero or less     *)
(* turns the age check off.                                                *)
EvidenceOK(envelope, policy, now) ==
    LET age == now - envelope.document.timestamp IN
    /\ envelope.signer = policy.trusted
    /\ Verifies(envelope.signature, envelope.signer, envelope.document)
    /\ age >= -ClockSkew
    /\ envelope.document.ttl > 0 => age <= envelope.document.ttl

(* An empty list allows nothing here, and "*" is a name like any other.    *)
GateListsAllow(request, policy) ==
    /\ request.target \in policy.authorized_targets
    /\ request.action \notin policy.forbidden_actions
    /\ request.action \in policy.allowed_actions

(* A mistake: an incident freeze is not looked at.                         *)
PolicyOKInFreeze(request, document, policy) ==
    /\ GateListsAllow(request, policy)
    /\ document.subject = request.target
    /\ document.healthy /\ document.window
    /\ request.action = "deploy" => document.rollback /\ request.args.dry_run

PolicyOK(request, document, policy) ==
    /\ GateListsAllow(request, policy)
    /\ document.subject = request.target
    /\ ~document.freeze /\ document.healthy /\ document.window
    /\ request.action = "deploy" => document.rollback /\ request.args.dry_run

(* The receipt without its signature; the digest stands for the document.  *)
Unsigned(request, digest, now) ==
    [intent |-> request.intent, action |-> request.action,
     target |-> request.target, evidence |-> digest, timestamp |-> now]

WithSignature(body, signature) ==
    [intent |-> body.intent, action |-> body.action, target |-> body.target,
     evidence |-> body.evidence, timestamp |-> body.timestamp, signature |-> signature]

(* A mistake: the receipt is signed with the key of the evidence provider. *)
ReceiptByProvider(request, digest, now) ==
    LET body == Unsigned(request, digest, now) IN
    WithSignature(body, Sign(EvidenceKey, Binding(body, request.args)))

Receipt(request, digest, now) ==
    LET body == Unsigned(request, digest, now) IN
    WithSignature(body, Sign(GateKey, Binding(body, request.args)))
================================================================================
