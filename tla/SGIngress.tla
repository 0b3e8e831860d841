----------------------------- MODULE SGIngress ------------------------------
(***************************************************************************)
(* What security-group ingress reconciliation promises, with no workers,   *)
(* queue, fetch or call plan: each group k is worked towards a target      *)
(* list, the desired list some reconcile pass read, and changes only by    *)
(*                                                                         *)
(*  - Revoke: all the managed permissions whose rule the target does not   *)
(*    name are removed at once;                                            *)
(*  - Grant: some target permissions whose rule the group lacks are added; *)
(*  - a hand edit of permissions the controller does not manage.           *)
(*                                                                         *)
(* A change of the desired list, and the end of a pass, may make the new   *)
(* desired list the target.                                                *)
(***************************************************************************)
EXTENDS SGDiff

CONSTANTS
    SGs,           \* security group IDs
    DesiredSpecs,  \* desired permission lists
    Managed        \* labels whose permissions the controller manages

VARIABLES
    sg,       \* sg[k]: ingress permissions of group k
    desired,  \* desired[k]: the desired list the caller derives now
    target    \* target[k]: the desired list k is being reconciled towards

vars == <<sg, desired, target>>

IsManaged(p) == p.labels \in Managed

\* Managed permissions of k whose rule the target does not name.
Extras(k) == {p \in sg[k] : IsManaged(p) /\ p.rule \notin RulesOf(ToSet(target[k]))}

\* Target permissions whose rule k does not have.
Missing(k) == {p \in ToSet(target[k]) : p.rule \notin RulesOf(sg[k])}

\* Possibly adopt the current desired list as k's target.
MayAdopt(k) == target' \in {target, [target EXCEPT ![k] = desired'[k]]}

Init ==
    /\ sg \in [SGs -> SUBSET Permission]
    /\ desired \in [SGs -> DesiredSpecs]
    /\ target = desired

Revoke(k) ==
    /\ Extras(k) # {}
    /\ sg' = [sg EXCEPT ![k] = @ \ Extras(k)]
    /\ UNCHANGED desired
    /\ MayAdopt(k)

Grant(k) ==
    /\ \E G \in SUBSET Missing(k) :
          /\ G # {}
          /\ sg' = [sg EXCEPT ![k] = @ \cup G]
    /\ UNCHANGED desired
    /\ MayAdopt(k)

Adopt(k) ==
    /\ target' = [target EXCEPT ![k] = desired[k]]
    /\ UNCHANGED <<sg, desired>>

SpecChange(k, d) ==
    /\ desired' = [desired EXCEPT ![k] = d]
    /\ MayAdopt(k)
    /\ UNCHANGED sg

\* Permissions of k the controller does not manage are edited by hand.
HandEdit(k) ==
    /\ \E S \in SUBSET {p \in Permission : ~IsManaged(p)} :
          sg' = [sg EXCEPT ![k] = {p \in @ : IsManaged(p)} \cup S]
    /\ UNCHANGED <<desired, target>>

Next ==
    \E k \in SGs :
        \/ Revoke(k) \/ Grant(k) \/ Adopt(k) \/ HandEdit(k)
        \/ \E d \in DesiredSpecs : SpecChange(k, d)

Spec == Init /\ [][Next]_vars
=============================================================================
