--------------------------- MODULE E2EServiceTest ---------------------------
(***************************************************************************)
(* The ServiceTest end-to-end helpers of pkg/test/e2e/service: the calls a *)
(* test makes on the cluster, the load balancer and ACM, and the polling   *)
(* and retry loops that wait for the controller.                           *)
(*                                                                         *)
(* The cluster holds one Service (svc); the controller provisions its load *)
(* balancer and completes its deletion; ACM holds the test certificate.    *)
(* The test calls one helper at a time, in any order its preconditions     *)
(* allow.  Every API call may fail; once the test context's deadline has   *)
(* passed (ctxDone) every call made with the context fails.  Object        *)
(* contents are abstracted to what the helpers test: whether the Service   *)
(* exists and has a load-balancer ingress.                                 *)
(***************************************************************************)
EXTENDS Naturals

\* Retry bounds written in SendTrafficToLB and DeleteCertFromACM.
TrafficAttempts == 10
CertDeleteAttempts == 10

VARIABLES
    svc,        \* the Service in the cluster
    cert,       \* the test certificate in ACM
    ctxDone,    \* the test context's deadline has passed
    mService,   \* m.Service: "nil", an empty object, or a Service without/with ingress
    fn,         \* the helper being run, "idle", or "aborted" after a panic
    pc,         \* the step of the helper
    observed,   \* observedSvc of the running wait
    allFailed,  \* every Get of the last condition run failed
    attempt,    \* loop counter of SendTrafficToLB / DeleteCertFromACM
    noerr,      \* SendTrafficToLB's noerr
    lastStatus, \* status code of the last HTTP response
    retFn,      \* the helper that returned last
    retVal      \* what it returned

vars == <<svc, cert, ctxDone, mService, fn, pc, observed, allFailed, attempt,
          noerr, lastStatus, retFn, retVal>>

SvcStates == {"absent", "pending", "active", "deleting"}
ObjStates == {"empty", "inactive", "active"}
Helpers == {"Create", "Update", "Cleanup", "SendTraffic", "DeleteCert", "ImportCert"}

\* A call made with the test context can succeed only before its deadline.
CallMaySucceed == ~ctxDone

\* What a successful Get of the Service copies into observedSvc.
StatusOf(s) == IF s = "active" THEN "active" ELSE "inactive"

\* Helper h returns v to the test.
Return(h, v) ==
    /\ retFn' = h /\ retVal' = v
    /\ fn' = "idle" /\ pc' = "none"

\* An Expect(...) fails or the code panics: the Ginkgo test stops.
Abort == fn' = "aborted" /\ pc' = "none" /\ UNCHANGED <<retFn, retVal>>

Init ==
    /\ svc = "absent" /\ cert = "none" /\ ctxDone = FALSE
    /\ mService = "nil" /\ fn = "idle" /\ pc = "none"
    /\ observed = "empty" /\ allFailed = FALSE /\ attempt = 0
    /\ noerr = FALSE /\ lastStatus = "none"
    /\ retFn = "none" /\ retVal = "none"

(***************************************************************************)
(* Create: K8sClient.Create, then WaitUntilServiceActive with a fresh      *)
(* observedSvc.  A Service that already exists is an error.                *)
(***************************************************************************)
Create ==
    /\ fn = "idle" /\ mService = "nil"
    /\ \/ /\ CallMaySucceed /\ svc = "absent"
          /\ svc' = "pending"
          /\ fn' = "Create" /\ pc' = "poll" /\ observed' = "empty"
          /\ UNCHANGED <<retFn, retVal>>
       \/ /\ Return("Create", "err")
          /\ UNCHANGED <<svc, observed>>
    /\ UNCHANGED <<cert, ctxDone, mService, allFailed, attempt, noerr, lastStatus>>

(***************************************************************************)
(* Update: copies Spec and Annotations into m.Service and K8sClient.Update *)
(* it (an empty object names no Service and fails), then waits.            *)
(***************************************************************************)
Update ==
    /\ fn = "idle" /\ mService # "nil"
    /\ \/ /\ CallMaySucceed /\ mService # "empty" /\ svc \in {"pending", "active"}
          /\ fn' = "Update" /\ pc' = "poll" /\ observed' = "empty"
          /\ UNCHANGED <<retFn, retVal>>
       \/ /\ Return("Update", "err")
          /\ UNCHANGED observed
    /\ UNCHANGED <<svc, cert, ctxDone, mService, allFailed, attempt, noerr, lastStatus>>

(***************************************************************************)
(* WaitUntilServiceActive ends with res and observedSvc o; Create keeps o  *)
(* only when the wait succeeded, Update assigns it and returns nil.        *)
(***************************************************************************)
ActiveWaitEnds(o, res) ==
    /\ mService' = IF fn = "Update" \/ res = "nil" THEN o ELSE mService
    /\ Return(fn, IF fn = "Update" THEN "nil" ELSE res)

\* Variant: the condition returns true once a Get succeeds, ingress or not.
ActiveConditionIgnoringIngress ==
    /\ fn \in {"Create", "Update"} /\ pc = "poll"
    /\ \E someGetOk \in BOOLEAN :
          LET o == IF someGetOk THEN StatusOf(svc) ELSE observed IN
          /\ someGetOk => (CallMaySucceed /\ svc # "absent")
          /\ allFailed' = ~someGetOk
          /\ observed' = o
          /\ IF someGetOk
             THEN ActiveWaitEnds(o, "nil")
             ELSE pc' = "waiting" /\ UNCHANGED <<mService, fn, retFn, retVal>>
    /\ UNCHANGED <<svc, cert, ctxDone, attempt, noerr, lastStatus>>

(***************************************************************************)
(* One run of WaitUntilServiceActive's condition: five Gets into the same  *)
(* observedSvc; a failed Get leaves it as it was and, since i >= 5 never   *)
(* holds inside the loop, is never returned.  The condition is true when   *)
(* the observed Service has an ingress.                                    *)
(***************************************************************************)
ActiveCondition ==
    /\ fn \in {"Create", "Update"} /\ pc = "poll"
    /\ \E someGetOk \in BOOLEAN :
          LET o == IF someGetOk THEN StatusOf(svc) ELSE observed IN
          /\ someGetOk => (CallMaySucceed /\ svc # "absent")
          /\ allFailed' = ~someGetOk
          /\ observed' = o
          /\ IF o = "active"
             THEN ActiveWaitEnds(o, "nil")
             ELSE pc' = "waiting" /\ UNCHANGED <<mService, fn, retFn, retVal>>
    /\ UNCHANGED <<svc, cert, ctxDone, attempt, noerr, lastStatus>>

(***************************************************************************)
(* Cleanup: K8sClient.Delete with foreground propagation, then             *)
(* WaitUntilServiceDeleted.                                                *)
(***************************************************************************)
Cleanup ==
    /\ fn = "idle" /\ mService # "nil"
    /\ \/ /\ CallMaySucceed /\ mService # "empty" /\ svc # "absent"
          /\ svc' = "deleting"
          /\ fn' = "Cleanup" /\ pc' = "poll"
          /\ UNCHANGED <<retFn, retVal>>
       \/ /\ Return("Cleanup", "err")
          /\ UNCHANGED svc
    /\ UNCHANGED <<cert, ctxDone, mService, observed, allFailed, attempt, noerr,
                   lastStatus>>

\* Variant: every Get error is taken for NotFound.
DeletedConditionAnyError ==
    /\ fn = "Cleanup" /\ pc = "poll"
    /\ \/ Return(fn, "nil")
       \/ CallMaySucceed /\ svc # "absent" /\ pc' = "waiting"
                         /\ UNCHANGED <<fn, retFn, retVal>>
    /\ UNCHANGED <<svc, cert, ctxDone, mService, observed, allFailed, attempt,
                   noerr, lastStatus>>

(***************************************************************************)
(* WaitUntilServiceDeleted's condition: NotFound ends the wait with nil,   *)
(* any other Get error ends it with that error, a found Service waits.    *)
(***************************************************************************)
DeletedCondition ==
    /\ fn = "Cleanup" /\ pc = "poll"
    /\ \/ CallMaySucceed /\ svc = "absent" /\ Return(fn, "nil")
       \/ Return(fn, "err")
       \/ CallMaySucceed /\ svc # "absent" /\ pc' = "waiting"
                         /\ UNCHANGED <<fn, retFn, retVal>>
    /\ UNCHANGED <<svc, cert, ctxDone, mService, observed, allFailed, attempt,
                   noerr, lastStatus>>

(***************************************************************************)
(* wait.PollImmediateUntil between condition runs: the interval elapses    *)
(* and the condition runs again, or the stop channel (ctx.Done()) is       *)
(* closed and the wait returns ErrWaitTimeout.                             *)
(***************************************************************************)
PollInterval ==
    /\ pc = "waiting"
    /\ pc' = "poll"
    /\ UNCHANGED <<svc, cert, ctxDone, mService, fn, observed, allFailed, attempt,
                   noerr, lastStatus, retFn, retVal>>

PollStopped ==
    /\ pc = "waiting" /\ ctxDone
    /\ IF fn = "Cleanup" THEN Return(fn, "timeout") /\ UNCHANGED mService
                         ELSE ActiveWaitEnds(observed, "timeout")
    /\ UNCHANGED <<svc, cert, ctxDone, observed, allFailed, attempt, noerr,
                   lastStatus>>

(***************************************************************************)
(* SendTrafficToLB: indexes Status.LoadBalancer.Ingress[0] of m.Service,   *)
(* which panics when it has no ingress, then makes up to ten requests.     *)
(***************************************************************************)
SendTraffic ==
    /\ fn = "idle" /\ mService # "nil"
    /\ IF mService = "active"
       THEN /\ fn' = "SendTraffic" /\ pc' = "request"
            /\ attempt' = 0 /\ noerr' = FALSE
            /\ UNCHANGED <<retFn, retVal>>
       ELSE Abort /\ UNCHANGED <<attempt, noerr>>
    /\ UNCHANGED <<svc, cert, ctxDone, mService, observed, allFailed, lastStatus>>

\* Variant: any HTTP response counts as success.
RequestAnyResponse ==
    /\ fn = "SendTraffic" /\ pc = "request" /\ attempt < TrafficAttempts
    /\ \/ /\ attempt' = attempt + 1
          /\ IF attempt + 1 = TrafficAttempts
             THEN Return(fn, IF noerr THEN "nil" ELSE "err")
             ELSE UNCHANGED <<fn, pc, retFn, retVal>>
          /\ UNCHANGED <<noerr, lastStatus>>
       \/ /\ svc = "active"
          /\ noerr' = TRUE
          /\ \E code \in {"200", "other"} :
                lastStatus' = code /\ Return(fn, "nil")
          /\ UNCHANGED attempt
    /\ UNCHANGED <<svc, cert, ctxDone, mService, observed, allFailed>>

(***************************************************************************)
(* One httpClient.Get: an error sleeps and retries; a response sets noerr *)
(* and returns nil on 200 and an error otherwise.  After the last attempt  *)
(* the loop ends and noerr decides.  The load balancer answers only once  *)
(* provisioned.                                                            *)
(***************************************************************************)
Request ==
    /\ fn = "SendTraffic" /\ pc = "request" /\ attempt < TrafficAttempts
    /\ \/ /\ attempt' = attempt + 1
          /\ IF attempt + 1 = TrafficAttempts
             THEN Return(fn, IF noerr THEN "nil" ELSE "err")
             ELSE UNCHANGED <<fn, pc, retFn, retVal>>
          /\ UNCHANGED <<noerr, lastStatus>>
       \/ /\ svc = "active"
          /\ noerr' = TRUE
          /\ \E code \in {"200", "other"} :
                /\ lastStatus' = code
                /\ Return(fn, IF code = "200" THEN "nil" ELSE "err")
          /\ UNCHANGED attempt
    /\ UNCHANGED <<svc, cert, ctxDone, mService, observed, allFailed>>

(***************************************************************************)
(* GenerateAndImportCertToACM: ImportCertificate, whose error fails an     *)
(* Expect.                                                                 *)
(***************************************************************************)
ImportCert ==
    /\ fn = "idle" /\ cert = "none"
    /\ \/ /\ CallMaySucceed
          /\ cert' = "imported" /\ Return("ImportCert", "nil")
       \/ Abort /\ UNCHANGED cert
    /\ UNCHANGED <<svc, ctxDone, mService, observed, allFailed, attempt, noerr,
                   lastStatus>>

StartDeleteCert ==
    /\ fn = "idle" /\ cert # "none"
    /\ fn' = "DeleteCert" /\ pc' = "delete" /\ attempt' = 0
    /\ UNCHANGED <<svc, cert, ctxDone, mService, observed, allFailed, noerr,
                   lastStatus, retFn, retVal>>

\* Variant: the loop runs while attempt <= CertDeleteAttempts.
DeleteCertCallOffByOne ==
    /\ fn = "DeleteCert" /\ pc = "delete" /\ attempt <= CertDeleteAttempts
    /\ \/ /\ CallMaySucceed /\ cert = "imported"
          /\ cert' = "deleted" /\ Return(fn, "nil")
          /\ UNCHANGED attempt
       \/ /\ attempt' = attempt + 1
          /\ IF attempt = CertDeleteAttempts
             THEN Return(fn, "nil")
             ELSE UNCHANGED <<fn, pc, retFn, retVal>>
          /\ UNCHANGED cert
    /\ UNCHANGED <<svc, ctxDone, mService, observed, allFailed, noerr, lastStatus>>

(***************************************************************************)
(* One DeleteCertificate of DeleteCertFromACM's loop: success breaks, an   *)
(* error sleeps and retries.  The error is assigned to the loop's own      *)
(* `err :=`, so the function returns the outer err, which stays nil.       *)
(***************************************************************************)
DeleteCertCall ==
    /\ fn = "DeleteCert" /\ pc = "delete" /\ attempt < CertDeleteAttempts
    /\ \/ /\ CallMaySucceed /\ cert = "imported"
          /\ cert' = "deleted" /\ Return(fn, "nil")
          /\ UNCHANGED attempt
       \/ /\ attempt' = attempt + 1
          /\ IF attempt + 1 = CertDeleteAttempts
             THEN Return(fn, "nil")
             ELSE UNCHANGED <<fn, pc, retFn, retVal>>
          /\ UNCHANGED cert
    /\ UNCHANGED <<svc, ctxDone, mService, observed, allFailed, noerr, lastStatus>>

(***************************************************************************)
(* Environment: the controller provisions the load balancer and finishes   *)
(* the foreground deletion; the test context's deadline passes.           *)
(***************************************************************************)
Provision ==
    /\ svc = "pending" /\ svc' = "active"
    /\ UNCHANGED <<cert, ctxDone, mService, fn, pc, observed, allFailed, attempt,
                   noerr, lastStatus, retFn, retVal>>

FinishDelete ==
    /\ svc = "deleting" /\ svc' = "absent"
    /\ UNCHANGED <<cert, ctxDone, mService, fn, pc, observed, allFailed, attempt,
                   noerr, lastStatus, retFn, retVal>>

Deadline ==
    /\ ~ctxDone /\ ctxDone' = TRUE
    /\ UNCHANGED <<svc, cert, mService, fn, pc, observed, allFailed, attempt,
                   noerr, lastStatus, retFn, retVal>>

Next ==
    \/ Create \/ Update \/ Cleanup \/ SendTraffic \/ ImportCert \/ StartDeleteCert
    \/ ActiveCondition \/ DeletedCondition \/ PollInterval \/ PollStopped
    \/ Request \/ DeleteCertCall
    \/ Provision \/ FinishDelete \/ Deadline

Spec == Init /\ [][Next]_vars
-----------------------------------------------------------------------------
TypeOK ==
    /\ svc \in SvcStates /\ cert \in {"none", "imported", "deleted"}
    /\ ctxDone \in BOOLEAN
    /\ mService \in {"nil"} \cup ObjStates
    /\ fn \in {"idle", "aborted"} \cup Helpers
    /\ pc \in {"none", "poll", "waiting", "request", "delete"}
    /\ observed \in ObjStates /\ allFailed \in BOOLEAN
    /\ attempt \in 0..10 /\ noerr \in BOOLEAN
    /\ lastStatus \in {"none", "200", "other"}
    /\ retFn \in {"none"} \cup Helpers
    /\ retVal \in {"none", "nil", "err", "timeout"}

Returned(h, v) == retFn = h /\ retVal = v

(***************************************************************************)
(* Create returns nil only with m.Service holding a Service whose load     *)
(* balancer has an ingress, whatever Gets failed or timed out on the way. *)
(***************************************************************************)
CreateReturnsActive == Returned("Create", "nil") => mService = "active"

(***************************************************************************)
(* Cleanup returns nil only when the Service is gone from the cluster.     *)
(***************************************************************************)
CleanupReturnsDeleted == Returned("Cleanup", "nil") => svc = "absent"

(***************************************************************************)
(* SendTrafficToLB returns nil only when a request got HTTP 200.           *)
(***************************************************************************)
TrafficReturnsServed == Returned("SendTraffic", "nil") => lastStatus = "200"

(***************************************************************************)
(* Update returns nil only with m.Service holding an active Service, as    *)
(* Create does; SendTrafficToLB after it relies on Ingress[0].            *)
(***************************************************************************)
UpdateReturnsActive == Returned("Update", "nil") => mService = "active"

(***************************************************************************)
(* DeleteCertFromACM returns nil only when the certificate was deleted;    *)
(* otherwise the test leaks it silently.                                   *)
(***************************************************************************)
DeleteCertReturnsDeleted == Returned("DeleteCert", "nil") => cert = "deleted"

(***************************************************************************)
(* WaitUntilServiceActive's retry loop ("sometimes there's a delay in the  *)
(* resource showing up") means to give up with the Get error once all five *)
(* Gets failed (`if i >= 5 { return false, err }`): a condition run whose  *)
(* Gets all failed never leaves the wait polling on.                       *)
(***************************************************************************)
GetErrorEndsActiveWait ==
    ~(fn \in {"Create", "Update"} /\ pc = "waiting" /\ allFailed)
=============================================================================
