----------------------------- MODULE ReceiptLifetime -----------------------------
(***************************************************************************)
(* One receipt over time: verify_receipt applied to it while the clock     *)
(* runs, the policy is tightened and the call it approves is altered.  The   *)
(* receipt is issued once, over one set of arguments, by the key whose     *)
(* public half the policy names.                                           *)
(***************************************************************************)
EXTENDS ReceiptVerification, FiniteSets

CONSTANTS
    Actions, Targets, Intents, Digests,  \* the names in use
    Arguments,       \* the arguments a call may carry
    PolicyKey,       \* the public key of the policies
    IssueTime,       \* the timestamp of the receipt
    TTLs,            \* the times-to-live of the policies
    MaxClock         \* bound of the exploration

Names == Intents \cup Actions \cup Targets \cup Digests

(* A name is its text; arguments are told apart by their canonical form.   *)
(* Nothing is assumed of what a text contains.                             *)
ASSUME LifetimeAssumption ==
    /\ IssueTime \in Int /\ MaxClock \in Nat
    /\ TTLs \subseteq Int
    /\ \A n \in Names : IsText(Text(n)) /\ \A m \in Names : Text(m) = Text(n) => m = n
    /\ \A a \in Arguments :
          IsText(Canonical(a)) /\ \A b \in Arguments : Canonical(a) = Canonical(b) => a = b

VARIABLES
    issued,   \* the receipt as it was signed, and the arguments signed
    receipt,  \* the receipt the call carries now
    args,     \* the arguments of the call
    config,   \* the policy
    clock

vars == <<issued, receipt, args, config, clock>>

Verdict == VerifyReceipt(receipt, receipt.action, args, config, clock)

Signed(i, a, t, e, over) ==
    LET body == [intent |-> i, action |-> a, target |-> t, evidence |-> e,
                 timestamp |-> IssueTime]
    IN  [intent |-> i, action |-> a, target |-> t, evidence |-> e,
         timestamp |-> IssueTime,
         signature |-> [key |-> PolicyKey, over |-> Binding(body, over)]]

Init ==
    /\ \E i \in Intents, a \in Actions, t \in Targets, e \in Digests, over \in Arguments :
          issued = [receipt |-> Signed(i, a, t, e, over), args |-> over]
    /\ receipt = issued.receipt
    /\ args = issued.args
    /\ \E ttl \in TTLs :
          config = [authorized_targets |-> Targets, allowed_actions |-> Actions,
                    forbidden_actions |-> {}, ttl |-> ttl, require_receipt |-> TRUE,
                    public_key |-> PolicyKey]
    /\ clock = 0

Tick ==
    /\ clock < MaxClock
    /\ clock' = clock + 1
    /\ UNCHANGED <<issued, receipt, args, config>>

(* The call is altered in any of its fields, in several together or in the *)
(* arguments too, and keeps the signature.  What further alterations would *)
(* reach is reached by one.                                                *)
Alter ==
    /\ receipt = issued.receipt /\ args = issued.args
    /\ \E i \in Intents, a \in Actions, t \in Targets, e \in Digests,
          ts \in IssueTime - 1 .. IssueTime + 1 :
          receipt' = [receipt EXCEPT !.intent = i, !.action = a, !.target = t,
                                     !.evidence = e, !.timestamp = ts]
    /\ args' \in Arguments
    /\ UNCHANGED <<issued, config, clock>>

(* The policy is tightened: fewer targets or actions, but never none (an   *)
(* empty list would restrict nothing), or one more forbidden action.       *)
Tighten ==
    /\ \/ \E ts \in (SUBSET config.authorized_targets) \ {{}} :
             config' = [config EXCEPT !.authorized_targets = ts]
       \/ \E as \in (SUBSET config.allowed_actions) \ {{}} :
             config' = [config EXCEPT !.allowed_actions = as]
       \/ \E a \in Actions : config' = [config EXCEPT !.forbidden_actions = @ \cup {a}]
    /\ UNCHANGED <<issued, receipt, args, clock>>

Next == Tick \/ Alter \/ Tighten

Spec == Init /\ [][Next]_vars

---------------------------------------------------------------------------------
Labels == {"|action:", "|target:", "|payload:", "|evidence:"}

IsPlain(text) == \A k \in DOMAIN text : text[k] \notin Labels

(* No field of the call that was signed contains a label of the bound      *)
(* text.  Neither the gate nor the broker checks this: the intent id and   *)
(* the evidence digest are free strings, and so are the strings in the     *)
(* arguments.                                                              *)
SignedPlainly ==
    /\ IsPlain(Text(issued.receipt.intent)) /\ IsPlain(Text(issued.receipt.action))
    /\ IsPlain(Text(issued.receipt.target)) /\ IsPlain(Text(issued.receipt.evidence))
    /\ IsPlain(Canonical(issued.args))

(* An allowed call is of the time it was signed for, and if it was signed  *)
(* plainly it is the call that was signed, whatever the fields of the call *)
(* that is made contain, under every policy and at every time              *)
(* (crypto.rs:179-199).  A call that was not signed plainly may share its  *)
(* text, and so its approval, with another.                                *)
AllowedAsIssued ==
    Verdict = "Allow" =>
      /\ receipt.timestamp = issued.receipt.timestamp
      /\ SignedPlainly => receipt = issued.receipt /\ args = issued.args

(* A receipt for a side effect that was signed plainly, without the two    *)
(* approvals, can never be used, whatever is added to the call later: the  *)
(* approvals are part of what was signed (crypto.rs:167-177 against        *)
(* 179-186).                                                               *)
SuspendedReceiptIsDead ==
    /\ receipt.action \in SideEffectActions
    /\ ~issued.args.quorum
    /\ SignedPlainly
    => Verdict # "Allow"

(* The window does not reopen: a call that was allowed and is refused only *)
(* because time passed is never allowed again.                             *)
ExpiryIsFinal ==
    [][ /\ clock' > clock
        /\ Verdict # "Allow"
        /\ receipt.timestamp <= clock + ClockSkew
        => Verdict' # "Allow" ]_vars

(* Tightening a policy, short of emptying a list, never lets a call in     *)
(* (crypto.rs:78-99).                                                      *)
TighteningNeverAllows ==
    [][ Tighten /\ Verdict # "Allow"
            => Verdict' # "Allow" ]_vars
================================================================================
