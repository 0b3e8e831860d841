---------------------------- MODULE SGReconciler ----------------------------
(***************************************************************************)
(* defaultSecurityGroupReconciler.ReconcileIngress run by a pool of        *)
(* workers against the security groups of the cloud provider.              *)
(*                                                                         *)
(*  - the security groups (sg) are the only shared mutable state; the      *)
(*    SecurityGroupManager's fetch, revoke and authorize calls act on them *)
(*    with the atomic, duplicate-rejecting semantics of spec section 4.3;  *)
(*  - the reconcile scheduler is a work queue with per-key serialization  *)
(*    (queue, processing, dirty) and MaxConcurrentReconciles workers, as   *)
(*    spec section 5 and ControllerConfig describe it;                     *)
(*  - one pass is split at its blocking calls: Fetch (FetchSGInfosByID and *)
(*    both diffs), Revoke (RevokeSGIngress), Grant (AuthorizeSGIngress);   *)
(*  - the environment changes the desired spec of a group, changes        *)
(*    externally managed (unselected) rules by hand, and resyncs.          *)
(***************************************************************************)
EXTENDS SGDiff, Naturals, FiniteSets

CONSTANTS
    SGs,              \* security group IDs
    Workers,          \* reconcile workers (ServiceMaxConcurrentReconciles)
    OwnedLabels,      \* labels WithPermissionSelector's selector matches
    UseSelector,      \* whether the caller passes WithPermissionSelector
    DesiredSpecs,     \* desired permission lists the caller can derive
    QuotaLimit,       \* provider limit on rules per security group
    MaxFailures,      \* bound on transient API failures
    MaxSpecChanges,   \* bound on changes of the desired spec
    MaxExternal,      \* bound on manual changes of unmanaged rules
    NoSG              \* model value: worker holds no key

ASSUME /\ OwnedLabels \subseteq Labels
       /\ UseSelector \in BOOLEAN
       /\ DesiredSpecs \subseteq Seq(Permission)
       /\ QuotaLimit \in Nat /\ MaxFailures \in Nat
       /\ MaxSpecChanges \in Nat /\ MaxExternal \in Nat
       /\ NoSG \notin SGs

VARIABLES
    sg,          \* sg[k]: ingress permissions of group k at the provider
    desired,     \* desired[k]: permissions the caller currently derives for k
    queue,       \* keys waiting for a worker
    processing,  \* keys a worker is reconciling
    dirty,       \* keys re-added while being processed
    backoff,     \* keys AddRateLimited holds until their delay has passed
    w,           \* per-worker state of its current pass
    failures,    \* transient API failures so far
    changes,     \* desired-spec changes so far
    externals,   \* manual rule changes so far
    drifted      \* history: k was changed by hand since its last fetch

vars == <<sg, desired, queue, processing, dirty, backoff, w, failures,
          changes, externals, drifted>>

(***************************************************************************)
(* ReconcileIngress's options: the default SecurityGroupReconcileOptions   *)
(* selects every permission (labels.Everything()); ApplyOptions with       *)
(* WithPermissionSelector replaces it.                                     *)
(***************************************************************************)
PermissionSelector == IF UseSelector THEN OwnedLabels ELSE Labels

Matches(p) == p.labels \in PermissionSelector

\* A set of permissions the provider can hold: one per rule, within quota.
ValidIngress == {S \in SUBSET Permission :
                    /\ \A p, q \in S : PermissionEqual(p, q) => p = q
                    /\ Cardinality(S) <= QuotaLimit}

\* A SecurityGroupManager call of a pass and the permissions it carries.
Call == [op : {"revoke", "grant"}, perms : Seq(Permission)]

\* A pass: its key, the desiredPermissions it was called with, its
\* permissionsToRevoke, and the calls still to be made.
WorkerState == [key : SGs \cup {NoSG}, desired : Seq(Permission),
                toRevoke : Seq(Permission), plan : Seq(Call)]

Idle == [key |-> NoSG, desired |-> <<>>, toRevoke |-> <<>>, plan |-> <<>>]

(***************************************************************************)
(* Work queue Add: a key being processed is marked dirty and re-queued     *)
(* when its pass is done; any other key is queued.                         *)
(***************************************************************************)
Enqueue(K) ==
    /\ queue' = queue \cup (K \ processing)
    /\ dirty' = dirty \cup (K \cap processing)

\* Variant: an error is not re-queued (AddRateLimited missing).
EndPassNoRequeue(k, ok) ==
    /\ processing' = processing \ {k}
    /\ queue' = IF k \in dirty THEN queue \cup {k} ELSE queue
    /\ dirty' = dirty \ {k}
    /\ UNCHANGED backoff

\* Variant: Done leaves the key marked dirty.
EndPassKeepDirty(k, ok) ==
    /\ processing' = processing \ {k}
    /\ queue' = IF k \in dirty THEN queue \cup {k} ELSE queue
    /\ backoff' = IF ok THEN backoff ELSE backoff \cup {k}
    /\ UNCHANGED dirty

(***************************************************************************)
(* AddRateLimited when the pass returned an error, then work queue Done:   *)
(* a failed key waits out its backoff delay, and the key leaves processing *)
(* and is queued again at once if it was re-added meanwhile.              *)
(***************************************************************************)
EndPass(k, ok) ==
    /\ processing' = processing \ {k}
    /\ queue' = IF k \in dirty THEN queue \cup {k} ELSE queue
    /\ backoff' = IF ok THEN backoff ELSE backoff \cup {k}
    /\ dirty' = dirty \ {k}

\* Variant: the extras are revoked without consulting the selector.
RevokeAllExtras(extra) == extra

\* permissionsToRevoke: the extra permissions the selector matches.
RevokeCandidates(extra) == SelectSeq(extra, Matches)

\* Variant: AuthorizeSGIngress is called before RevokeSGIngress.
CallPlanGrantFirst(toRevoke, toGrant) ==
    (IF toGrant # <<>> THEN <<[op |-> "grant", perms |-> toGrant]>> ELSE <<>>)
    \o (IF toRevoke # <<>> THEN <<[op |-> "revoke", perms |-> toRevoke]>> ELSE <<>>)

(***************************************************************************)
(* The calls a pass makes after the fetch: RevokeSGIngress when            *)
(* permissionsToRevoke is non-empty, then AuthorizeSGIngress when          *)
(* permissionsToGrant is non-empty.                                        *)
(***************************************************************************)
CallPlan(toRevoke, toGrant) ==
    (IF toRevoke # <<>> THEN <<[op |-> "revoke", perms |-> toRevoke]>> ELSE <<>>)
    \o (IF toGrant # <<>> THEN <<[op |-> "grant", perms |-> toGrant]>> ELSE <<>>)

Init ==
    /\ sg \in [SGs -> ValidIngress]
    /\ desired \in [SGs -> DesiredSpecs]
    /\ queue = SGs              \* the informer's initial list adds every key
    /\ processing = {}
    /\ dirty = {} /\ backoff = {}
    /\ w = [x \in Workers |-> Idle]
    /\ failures = 0 /\ changes = 0 /\ externals = 0
    /\ drifted = [k \in SGs |-> FALSE]

(***************************************************************************)
(* A worker takes key k and runs ReconcileIngress up to its first          *)
(* mutation: FetchSGInfosByID, extra = observed - desired filtered by the  *)
(* selector, toGrant = desired - observed.  With nothing to do the pass    *)
(* returns nil at once.                                                    *)
(***************************************************************************)
Fetch(x, k) ==
    /\ w[x].key = NoSG
    /\ k \in queue /\ k \notin processing
    /\ LET observed == SetToSeq(sg[k])
           toRevoke == RevokeCandidates(diffIPPermissionInfos(observed, desired[k]))
           toGrant  == diffIPPermissionInfos(desired[k], observed)
           plan     == CallPlan(toRevoke, toGrant)
       IN /\ queue' = queue \ {k}
          /\ IF plan = <<>>
             THEN UNCHANGED <<processing, w>>
             ELSE /\ processing' = processing \cup {k}
                  /\ w' = [w EXCEPT ![x] = [key |-> k, desired |-> desired[k],
                                            toRevoke |-> toRevoke, plan |-> plan]]
    /\ drifted' = [drifted EXCEPT ![k] = FALSE]
    /\ UNCHANGED <<sg, desired, dirty, backoff, failures, changes, externals>>

(***************************************************************************)
(* FetchSGInfosByID returns an error: the pass returns it before any       *)
(* mutation, and the worker's Get, AddRateLimited and Done move the key    *)
(* from the queue into backoff.                                            *)
(***************************************************************************)
FetchFail(x, k) ==
    /\ w[x].key = NoSG
    /\ k \in queue /\ k \notin processing
    /\ failures < MaxFailures
    /\ failures' = failures + 1
    /\ queue' = queue \ {k}
    /\ backoff' = backoff \cup {k}
    /\ UNCHANGED <<sg, desired, processing, dirty, w, changes, externals,
                   drifted>>

(***************************************************************************)
(* The SecurityGroupManager (spec section 4.3): a revoke removes all the   *)
(* listed permissions; an authorize adds them all, and is rejected when    *)
(* the list holds two equal rules, a rule the group already has, or more   *)
(* rules than the group's quota leaves room for.                           *)
(***************************************************************************)
GrantAccepted(k, perms) ==
    /\ \A i, j \in 1..Len(perms) : i # j => ~PermissionEqual(perms[i], perms[j])
    /\ \A i \in 1..Len(perms) : perms[i].rule \notin RulesOf(sg[k])
    /\ Cardinality(sg[k]) + Len(perms) <= QuotaLimit

Accepted(k, c) == c.op = "revoke" \/ GrantAccepted(k, c.perms)

Applied(k, c) ==
    IF c.op = "revoke" THEN sg[k] \ ToSet(c.perms) ELSE sg[k] \cup ToSet(c.perms)

(***************************************************************************)
(* The worker's next call succeeds; after the last one the pass returns    *)
(* nil.                                                                    *)
(***************************************************************************)
CallSucceeds(x) ==
    LET k == w[x].key
        c == Head(w[x].plan)
    IN /\ k # NoSG
       /\ Accepted(k, c)
       /\ sg' = [sg EXCEPT ![k] = Applied(k, c)]
       /\ IF Tail(w[x].plan) = <<>>
          THEN /\ w' = [w EXCEPT ![x] = Idle]
               /\ EndPass(k, TRUE)
          ELSE /\ w' = [w EXCEPT ![x].plan = Tail(@)]
               /\ UNCHANGED <<queue, processing, dirty, backoff>>
       /\ UNCHANGED <<desired, failures, changes, externals, drifted>>

\* Variant: a failed call does not end the pass; the next call is still made.
CallFailsNoReturn(x) ==
    LET k == w[x].key IN
    /\ k # NoSG
    /\ \/ ~Accepted(k, Head(w[x].plan)) /\ UNCHANGED failures
       \/ failures < MaxFailures /\ failures' = failures + 1
    /\ IF Tail(w[x].plan) = <<>>
       THEN w' = [w EXCEPT ![x] = Idle] /\ EndPass(k, FALSE)
       ELSE w' = [w EXCEPT ![x].plan = Tail(@)] /\ UNCHANGED <<queue, processing, dirty, backoff>>
    /\ UNCHANGED <<sg, desired, changes, externals, drifted>>

(***************************************************************************)
(* The worker's next call is rejected or fails transiently: `return err`,  *)
(* no later call of the pass is made.                                      *)
(***************************************************************************)
CallFails(x) ==
    LET k == w[x].key IN
    /\ k # NoSG
    /\ \/ ~Accepted(k, Head(w[x].plan)) /\ UNCHANGED failures
       \/ failures < MaxFailures /\ failures' = failures + 1
    /\ w' = [w EXCEPT ![x] = Idle]
    /\ EndPass(k, FALSE)
    /\ UNCHANGED <<sg, desired, changes, externals, drifted>>

(***************************************************************************)
(* Environment.                                                            *)
(***************************************************************************)
\* The Service or Ingress changes: the caller derives new desired permissions.
SpecChange(k, d) ==
    /\ changes < MaxSpecChanges
    /\ d # desired[k]
    /\ desired' = [desired EXCEPT ![k] = d]
    /\ changes' = changes + 1
    /\ Enqueue({k})
    /\ UNCHANGED <<sg, processing, backoff, w, failures, externals, drifted>>

\* Someone adds or removes, by hand, a rule the selector does not match.
ExternalChange(k, p) ==
    /\ externals < MaxExternal
    /\ ~Matches(p)
    /\ \/ p \in sg[k]
       \/ p.rule \notin RulesOf(sg[k]) /\ Cardinality(sg[k]) < QuotaLimit
    /\ sg' = [sg EXCEPT ![k] = IF p \in @ THEN @ \ {p} ELSE @ \cup {p}]
    /\ externals' = externals + 1
    /\ drifted' = [drifted EXCEPT ![k] = TRUE]
    /\ UNCHANGED <<desired, queue, processing, dirty, backoff, w, failures,
                   changes>>

\* A key's rate-limiter delay passes: the delaying queue Adds it.
DelayElapsed(k) ==
    /\ k \in backoff
    /\ backoff' = backoff \ {k}
    /\ Enqueue({k})
    /\ UNCHANGED <<sg, desired, processing, w, failures, changes, externals,
                   drifted>>

\* The SyncPeriod elapses: every key is added again.
Resync ==
    /\ Enqueue(SGs)
    /\ UNCHANGED <<sg, desired, processing, backoff, w, failures, changes,
                   externals, drifted>>

WorkerStep(x) ==
    \/ \E k \in SGs : Fetch(x, k) \/ FetchFail(x, k)
    \/ CallSucceeds(x)
    \/ CallFails(x)

Environment ==
    \/ \E k \in SGs, d \in DesiredSpecs : SpecChange(k, d)
    \/ \E k \in SGs, p \in Permission : ExternalChange(k, p)
    \/ \E k \in SGs : DelayElapsed(k)
    \/ Resync

Next == (\E x \in Workers : WorkerStep(x)) \/ Environment

(***************************************************************************)
(* Workers run whenever they can; the work queue is FIFO, so a queued key  *)
(* is eventually handed to an idle worker; the delaying queue re-adds a    *)
(* key whose backoff has passed, and the resync timer keeps firing.        *)
(* Neither failures, spec changes nor manual changes need ever happen.     *)
(***************************************************************************)
Fairness ==
    /\ \A x \in Workers : WF_vars(WorkerStep(x))
    /\ \A k \in SGs : WF_vars(\E x \in Workers : Fetch(x, k) \/ FetchFail(x, k))
    /\ \A k \in SGs : WF_vars(DelayElapsed(k))
    /\ WF_vars(Resync)

Spec == Init /\ [][Next]_vars /\ Fairness

-----------------------------------------------------------------------------
TypeOK ==
    /\ sg \in [SGs -> ValidIngress]
    /\ desired \in [SGs -> DesiredSpecs]
    /\ queue \subseteq SGs /\ processing \subseteq SGs /\ dirty \subseteq processing
    /\ backoff \subseteq SGs
    /\ w \in [Workers -> WorkerState]
    /\ failures \in 0..MaxFailures /\ changes \in 0..MaxSpecChanges
    /\ externals \in 0..MaxExternal
    /\ drifted \in [SGs -> BOOLEAN]

(***************************************************************************)
(* Group k satisfies its desired permissions: every desired rule is there  *)
(* (under any label), and every permission the selector manages is        *)
(* desired.  Unmanaged permissions may be anything (spec section 3).       *)
(***************************************************************************)
Converged(k) ==
    /\ RulesOf(ToSet(desired[k])) \subseteq RulesOf(sg[k])
    /\ \A p \in sg[k] : Matches(p) => p.rule \in RulesOf(ToSet(desired[k]))

(***************************************************************************)
(* Coexistence (ReconcileIngress's selector filter): no reconcile step     *)
(* ever removes a permission the selector does not match; only a manual    *)
(* change does.                                                            *)
(***************************************************************************)
SelectorContainment ==
    [][\A k \in SGs : \A p \in sg[k] \ sg'[k] :
          Matches(p) \/ externals' = externals + 1]_vars

(***************************************************************************)
(* Revoke before grant (ReconcileIngress's call order and its early        *)
(* return): whenever a pass's AuthorizeSGIngress takes effect, none of the *)
(* permissions the pass set out to revoke is still on the group, so stale  *)
(* and new rules never coexist because of a half-applied pass.             *)
(***************************************************************************)
RevokeBeforeGrant ==
    [][\A x \in Workers :
          (/\ w[x].plan # <<>> /\ Head(w[x].plan).op = "grant"
           /\ sg'[w[x].key] # sg[w[x].key])
             => ToSet(w[x].toRevoke) \cap sg[w[x].key] = {}]_vars

(***************************************************************************)
(* A key the scheduler considers done (not queued, not being processed,  *)
(* not waiting out a backoff delay)                                        *)
(* and that nobody changed by hand since its last fetch is converged: a    *)
(* failed pass, a spec change during a pass or a stale diff never leaves a *)
(* group out of sync without a reconcile pending.                          *)
(***************************************************************************)
QuiescentConverged ==
    \A k \in SGs :
        (k \notin queue \cup processing \cup backoff /\ ~drifted[k])
            => Converged(k)

(***************************************************************************)
(* Self-healing (spec section 7): whatever failures, spec changes and      *)
(* manual changes happen, every group eventually stays converged.          *)
(***************************************************************************)
EventuallyConverged == <>[](\A k \in SGs : Converged(k))

-----------------------------------------------------------------------------
(***************************************************************************)
(* Refinement mapping onto SGIngress: a group being reconciled is worked   *)
(* towards the desiredPermissions its pass was called with, any other      *)
(* group towards its current desired list.                                 *)
(***************************************************************************)
PassTarget(k) ==
    IF \E x \in Workers : w[x].key = k
    THEN w[CHOOSE x \in Workers : w[x].key = k].desired
    ELSE desired[k]

Ingress == INSTANCE SGIngress
               WITH target <- [k \in SGs |-> PassTarget(k)],
                    Managed <- PermissionSelector

(***************************************************************************)
(* ReconcileIngress implements SGIngress: across fetch, diff, selector     *)
(* filter, revoke and authorize calls interleaved with other passes, spec  *)
(* changes and hand edits, every change a pass makes to a group is the     *)
(* revocation of exactly the managed rules its desired list does not name, *)
(* or the addition of desired rules the group lacks.                       *)
(***************************************************************************)
ImplementsIngress == Ingress!Spec

\* Group k cannot hold its desired rules next to the unmanaged rules it has.
QuotaStarved(k) ==
    Cardinality(RulesOf(ToSet(desired[k]))
                \cup RulesOf({p \in sg[k] : ~Matches(p)})) > QuotaLimit

(***************************************************************************)
(* At the rule quota (AuthorizeSGIngress after RevokeSGIngress): every     *)
(* group eventually stays converged, unless the rules nobody lets the      *)
(* reconciler touch leave too little room for the desired ones; freeing    *)
(* room by revoking first is always enough otherwise.                      *)
(***************************************************************************)
ConvergedUnlessStarved ==
    <>[](\A k \in SGs : Converged(k) \/ QuotaStarved(k))
=============================================================================
