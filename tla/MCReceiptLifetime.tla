---------------------------- MODULE MCReceiptLifetime ----------------------------
(***************************************************************************)
(* A small instance of ReceiptLifetime: arguments that differ in what      *)
(* verify_receipt reads, and two names that contain a label, so that       *)
(* <<"i1", "deploy|action:email">> and <<"i1|action:deploy", "email">>     *)
(* share a bound text.                                                     *)
(***************************************************************************)
EXTENDS ReceiptLifetime, TLC

MCText(name) ==
    CASE name = "i1|action:deploy"    -> <<"i1", "|action:", "deploy">>
      [] name = "deploy|action:email" -> <<"deploy", "|action:", "email">>
      [] OTHER -> <<name>>

MCCanonical(a) == <<a.id>>

Args(id, dry_run, destructive, quorum) ==
    [id |-> id, dry_run |-> dry_run, destructive |-> destructive,
     quorum |-> quorum, canonical |-> TRUE]

MCArguments ==
    {Args("plain", FALSE, FALSE, FALSE),
     Args("drop", FALSE, TRUE, FALSE),
     Args("approved", TRUE, TRUE, TRUE)}

(* Nothing tells the targets apart, nor the digests, before a policy or a  *)
(* receipt does.                                                           *)
Interchangeable == Permutations(Targets) \cup Permutations(Digests)
================================================================================
