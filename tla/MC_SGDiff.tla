------------------------------ MODULE MC_SGDiff ------------------------------
(***************************************************************************)
(* Checks diffIPPermissionInfos against a declarative definition of the    *)
(* contract of spec section 4.1 over every pair of permission lists of     *)
(* length at most MaxLen.                                                  *)
(***************************************************************************)
EXTENDS SGDiff, Naturals

CONSTANTS r1, r2, Owned, Unowned

MCRules == {r1, r2}
MCLabels == {Owned, Unowned}
MaxLen == 3

Lists == UNION {[1..n -> Permission] : n \in 0..MaxLen}

VARIABLES source, target
vars == <<source, target>>

Init == source \in Lists /\ target \in Lists

\* ReconcileIngress diffs the same two lists in both directions.
SwapDirection == source' = target /\ target' = source

Spec == Init /\ [][SwapDirection]_vars

(***************************************************************************)
(* The contract of diffIPPermissionInfos: the result is the subsequence of *)
(* source (same order, same multiplicity) of exactly the elements whose    *)
(* rule appears nowhere in target, labels playing no part.  A comparator   *)
(* that looked at Labels, or a loop that dropped or reordered elements,    *)
(* violates it.                                                            *)
(***************************************************************************)
DiffMatchesReference ==
    diffIPPermissionInfos(source, target)
        = SelectSeq(source, LAMBDA p : p.rule \notin RulesOf(ToSet(target)))
=============================================================================
