--------------------------- MODULE MC_SGReconciler ---------------------------
(***************************************************************************)
(* Two security groups, two workers, two rules, an owned and an unowned    *)
(* label, and a selector that manages owned permissions only.              *)
(***************************************************************************)
EXTENDS SGReconciler

CONSTANTS r1, r2, Owned, Unowned, s1, s2, w1, w2

MCRules == {r1, r2}
MCLabels == {Owned, Unowned}
MCSGs == {s1, s2}
MCWorkers == {w1, w2}

\* One worker: a pass on one group waits for a pass on the other.
MCOneWorker == {w1}
MCOwnedLabels == {Owned}

Own(r) == [rule |-> r, labels |-> Owned]

\* Nothing, one rule, the other rule, both rules.
MCDesiredSpecs == {<<>>, <<Own(r1)>>, <<Own(r2)>>, <<Own(r1), Own(r2)>>}

\* One group at a quota of one rule: a change of rule needs a revoke first.
MCOneSG == {s1}
MCOwnedOnly == {Owned}
QuotaDesiredSpecs == {<<>>, <<Own(r1)>>, <<Own(r2)>>}

\* A desired list holding the same rule twice, owned and unowned.
DupDesiredSpecs == {<<Own(r1), [rule |-> r1, labels |-> Unowned]>>}

Symm == Permutations(MCSGs) \cup Permutations(MCWorkers)
=============================================================================
