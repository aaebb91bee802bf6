--------------------------------- MODULE MCBroker ---------------------------------
(***************************************************************************)
(* Small instances of the broker: policies, receipts and lines for TLC.    *)
(***************************************************************************)
EXTENDS BrokerInvariant

(* No name and no arguments contain a label of the bound text.             *)
OneWord(x) == <<x>>

Plain == [id |-> "plain", dry_run |-> FALSE, destructive |-> FALSE,
          quorum |-> FALSE, canonical |-> TRUE]

Policy(targets, ttl, require_receipt) ==
    [authorized_targets |-> targets, allowed_actions |-> {"deploy", "email"},
     forbidden_actions |-> {}, ttl |-> ttl, require_receipt |-> require_receipt,
     public_key |-> "gate"]

Signed(intent, action, timestamp, key) ==
    LET body == [intent |-> intent, action |-> action, target |-> "staging",
                 evidence |-> "digest", timestamp |-> timestamp, signature |-> "none"]
    IN  [body EXCEPT !.signature = [key |-> key, over |-> Binding(body, Plain)]]

Call(receipt) == [typed |-> TRUE, method |-> "tools/call", tool |-> receipt.action,
                  args |-> Plain, receipt |-> receipt]

(* Two intents that share a timestamp, and one reissued later.             *)
First    == Call(Signed("i1", "deploy", 0, "gate"))
Second   == Call(Signed("i2", "deploy", 0, "gate"))
Reissued == Call(Signed("i1", "deploy", 2, "gate"))
(* Refused: a wrong key, a call that lacks its quorum.                     *)
Forged   == Call(Signed("i1", "deploy", 0, "other"))
Unripe   == Call(Signed("i2", "email", 1, "gate"))
(* A receipt made with the compiled-in key.                                *)
Default  == Call(Signed("i3", "deploy", 1, "default"))

Bare    == [First EXCEPT !.receipt = None]
List    == [Bare EXCEPT !.method = "tools/list"]
(* A tools/call that does not deserialize as a JsonRpcRequest (no id).     *)
Untyped == [Bare EXCEPT !.typed = FALSE]

Strict == Policy({"staging"}, 1, TRUE)
Narrow == Policy({"elsewhere"}, 1, TRUE)
Lax    == Policy({}, 1, FALSE)

OnceLines    == {First, Second, Reissued, Forged, Unripe, Bare}
OncePolicies == {Strict, Lax}

ClockLines    == {First, Second, Forged, Bare, Default, List}
ClockPolicies == {Policy({"staging"}, 2, TRUE), Policy({}, 0, FALSE)}

LiveLines == {First, Reissued, Forged, Unripe, Bare, List}

ReplayLines  == {First, Second}
ZeroTTL      == {Policy({"staging"}, 0, TRUE)}
OnlyStrict   == {Strict}

FallbackLines == {Default}
NarrowOnly    == {Narrow}
UntypedLines  == {Untyped, Bare}
================================================================================
