------------------------------- MODULE SGDiff -------------------------------
(***************************************************************************)
(* The permission data model and the set-difference algorithm of the       *)
(* security-group reconciler (diffIPPermissionInfos in                     *)
(* pkg/networking/security_group_reconciler.go).                           *)
(*                                                                         *)
(* An IPPermissionInfo is abstracted to a record of the rule it denotes    *)
(* (protocol, port range, peer and description folded into one model      *)
(* value) and the label set used only for ownership bookkeeping (one model *)
(* value per label set).                                                   *)
(***************************************************************************)
EXTENDS Sequences, SequencesExt

CONSTANTS
    Rules,   \* the distinct (protocol, port range, peer) rules
    Labels   \* the distinct label sets a permission can carry

Permission == [rule : Rules, labels : Labels]

\* Variant: cmp.Equal without cmpopts.IgnoreFields(..., "Labels").
PermissionEqualWithLabels(p, q) == p = q

(***************************************************************************)
(* cmp.Equal under ec2equality.CompareOptionForIPPermission() and          *)
(* cmpopts.IgnoreFields(IPPermissionInfo{}, "Labels"): two permissions are *)
(* equal when they denote the same rule, whatever their labels.            *)
(***************************************************************************)
PermissionEqual(p, q) == p.rule = q.rule

\* The inner loop: does some element of target equal p (break on first hit).
ContainsInTarget(p, target) == \E i \in 1..Len(target) : PermissionEqual(p, target[i])

(***************************************************************************)
(* diffIPPermissionInfos(source, target): the outer loop over source,      *)
(* appending every element that no element of target equals, in source    *)
(* order and with source's multiplicity.                                   *)
(***************************************************************************)
RECURSIVE diffIPPermissionInfos(_, _)
diffIPPermissionInfos(source, target) ==
    IF source = <<>> THEN <<>>
    ELSE (IF ContainsInTarget(Head(source), target)
          THEN <<>> ELSE <<Head(source)>>)
         \o diffIPPermissionInfos(Tail(source), target)

\* The rules a list of permissions denotes.
RulesOf(S) == {p.rule : p \in S}
=============================================================================
