----------------------------- MODULE E2EAWSCheck -----------------------------
(***************************************************************************)
(* ServiceTest.CheckWithAWS of pkg/test/e2e/service: after the Service is  *)
(* active, the test looks its load balancer up by tags, describes it and   *)
(* its listeners, describes its target groups (one per Service port) and   *)
(* the health of each, and then polls the health of the first target      *)
(* group until its targets are healthy.                                    *)
(*                                                                         *)
(* Meanwhile the controller registers the Service's endpoints as targets   *)
(* and the load balancer's health checks move each registered target to    *)
(* healthy and back.  A target group is abstracted to how many targets are *)
(* registered and how many of them are healthy; the load balancer, its     *)
(* type, scheme, listeners and target group protocols are taken to match   *)
(* the expectation, so only the describe calls' failures are kept.  Every  *)
(* failing Expect ends the Ginkgo test (aborted).                          *)
(***************************************************************************)
EXTENDS Naturals

CONSTANTS
    Ports,       \* the Service's ports: one target group each
    NumTargets,  \* expected.NumTargets
    NoTG         \* model value: no target group chosen yet

ASSUME NumTargets \in Nat /\ NoTG \notin Ports

\* The health wait's loop bound written in CheckTargetGroups.
HealthAttempts == 10

VARIABLES
    registered,   \* registered[t]: targets registered in target group t
    healthyCnt,   \* healthyCnt[t]: how many of them are healthy
    pc,           \* the step of CheckWithAWS
    tgArn,        \* CheckTargetGroups' tgArn: the first described group
    toCheck,      \* groups the per-group health check has not reached
    attempt,      \* the wait loop's i
    seenHealthy   \* history: groups a check saw with every target healthy

vars == <<registered, healthyCnt, pc, tgArn, toCheck, attempt, seenHealthy>>

Steps == {"lbArns", "lbType", "listeners", "describeTGs", "tgCheck", "wait",
          "returned", "aborted"}

\* Steps that make an AWS call with an Expect(err).NotTo(HaveOccurred()).
CallSteps == {"lbArns", "lbType", "listeners", "describeTGs", "tgCheck", "wait"}

Init ==
    /\ registered \in [Ports -> 0..NumTargets]
    /\ healthyCnt \in {h \in [Ports -> 0..NumTargets] :
                          \A t \in Ports : h[t] <= registered[t]}
    /\ pc = "lbArns" /\ tgArn = NoTG /\ toCheck = {} /\ attempt = 0
    /\ seenHealthy = {}

TestVars == <<pc, tgArn, toCheck, attempt, seenHealthy>>

\* A failed Expect: Ginkgo stops the test.
Abort == pc' = "aborted"

(***************************************************************************)
(* CheckTargetGroupHealth(t): DescribeTargetHealth, Expect the number of   *)
(* descriptions to be numTargets, and report whether every target is       *)
(* healthy: CountOk holds when the Expect passes, AllHealthy is the result. *)
(***************************************************************************)
\* Variant: the count Expect is off by one and lets one missing target pass.
CountOkOffByOne(t) == registered[t] + 1 >= NumTargets

CountOk(t) == registered[t] = NumTargets
AllHealthy(t) == healthyCnt[t] = registered[t]

\* Any describe call fails: Expect(err).NotTo(HaveOccurred()) stops the test.
CallFails ==
    /\ pc \in CallSteps
    /\ Abort
    /\ UNCHANGED <<registered, healthyCnt, tgArn, toCheck, attempt,
                   seenHealthy>>

\* GetAwsLoadBalancerArns, CheckLoadBalancerType, CheckLoadBalancerListeners.
DescribeLB ==
    /\ \/ pc = "lbArns" /\ pc' = "lbType"
       \/ pc = "lbType" /\ pc' = "listeners"
       \/ pc = "listeners" /\ pc' = "describeTGs"
    /\ UNCHANGED <<registered, healthyCnt, tgArn, toCheck, attempt,
                   seenHealthy>>

\* DescribeTargetGroups: tgArn is whichever group AWS lists first.
DescribeTGs ==
    /\ pc = "describeTGs"
    /\ \E t \in Ports : tgArn' = t
    /\ toCheck' = Ports
    /\ pc' = "tgCheck"
    /\ UNCHANGED <<registered, healthyCnt, attempt, seenHealthy>>

(***************************************************************************)
(* The loop over the described groups, first group first: each group's     *)
(* health is checked with `_, err :=`, so its count is Expected and its    *)
(* health discarded.  After the last group the wait begins.                *)
(***************************************************************************)
CheckTG(t) ==
    /\ pc = "tgCheck"
    /\ t \in toCheck /\ (t = tgArn \/ tgArn \notin toCheck)
    /\ IF ~CountOk(t)
       THEN Abort /\ UNCHANGED <<toCheck, seenHealthy>>
       ELSE /\ toCheck' = toCheck \ {t}
            /\ seenHealthy' = IF AllHealthy(t) THEN seenHealthy \cup {t}
                              ELSE seenHealthy
            /\ pc' = IF toCheck' = {} THEN "wait" ELSE "tgCheck"
    /\ UNCHANGED <<registered, healthyCnt, tgArn, attempt>>

(***************************************************************************)
(* "Waiting until targets are healthy": one iteration of the loop on       *)
(* tgArn; a healthy answer breaks out and CheckWithAWS returns nil.        *)
(***************************************************************************)
WaitPoll ==
    /\ pc = "wait" /\ attempt < HealthAttempts
    /\ IF ~CountOk(tgArn)
       THEN Abort /\ UNCHANGED <<attempt, seenHealthy>>
       ELSE IF AllHealthy(tgArn)
            THEN /\ seenHealthy' = seenHealthy \cup {tgArn}
                 /\ pc' = "returned"
                 /\ UNCHANGED <<attempt>>
            ELSE /\ attempt' = attempt + 1
                 /\ UNCHANGED <<pc, seenHealthy>>
    /\ UNCHANGED <<registered, healthyCnt, tgArn, toCheck>>

\* Variant: the loop falls through to a nil return without Expect(healthy).
WaitExhaustedNoExpect ==
    /\ pc = "wait" /\ attempt = HealthAttempts
    /\ pc' = "returned"
    /\ UNCHANGED <<registered, healthyCnt, tgArn, toCheck, attempt,
                   seenHealthy>>

\* Ten unhealthy answers: Expect(healthy).To(BeTrue()) stops the test.
WaitExhausted ==
    /\ pc = "wait" /\ attempt = HealthAttempts
    /\ Abort
    /\ UNCHANGED <<registered, healthyCnt, tgArn, toCheck, attempt,
                   seenHealthy>>

(***************************************************************************)
(* Environment: the controller registers endpoints, and the load           *)
(* balancer's health checks pass or fail for registered targets.           *)
(***************************************************************************)
Register(t) ==
    /\ registered[t] < NumTargets
    /\ registered' = [registered EXCEPT ![t] = @ + 1]
    /\ UNCHANGED <<healthyCnt>> /\ UNCHANGED TestVars

PassHealthCheck(t) ==
    /\ healthyCnt[t] < registered[t]
    /\ healthyCnt' = [healthyCnt EXCEPT ![t] = @ + 1]
    /\ UNCHANGED <<registered>> /\ UNCHANGED TestVars

FailHealthCheck(t) ==
    /\ healthyCnt[t] > 0
    /\ healthyCnt' = [healthyCnt EXCEPT ![t] = @ - 1]
    /\ UNCHANGED <<registered>> /\ UNCHANGED TestVars

Test ==
    \/ CallFails \/ DescribeLB \/ DescribeTGs \/ WaitPoll \/ WaitExhausted
    \/ \E t \in Ports : CheckTG(t)

Environment ==
    \E t \in Ports : Register(t) \/ PassHealthCheck(t) \/ FailHealthCheck(t)

Next == Test \/ Environment

Spec == Init /\ [][Next]_vars

-----------------------------------------------------------------------------
(***************************************************************************)
(* CheckWithAWS returns nil only when every target group of the Service    *)
(* has all its expected targets registered, although the controller        *)
(* registers them while the checks run (the count Expect of each group),   *)
(* and the health wait saw the group it polls with every target healthy    *)
(* (the wait loop and its closing Expect(healthy)).                        *)
(***************************************************************************)
ReturnedAfterChecks ==
    pc = "returned" =>
        /\ \A t \in Ports : registered[t] = NumTargets
        /\ tgArn \in seenHealthy

(***************************************************************************)
(* "Waiting until targets are healthy": when CheckWithAWS returns nil,     *)
(* every target group of the Service was seen with all its targets         *)
(* healthy.  The wait polls only TargetGroups[0], and the per-group loop   *)
(* discards the health it reads, so a multi-port Service passes with an    *)
(* unhealthy second target group.                                          *)
(***************************************************************************)
AllTargetGroupsSeenHealthy == pc = "returned" => seenHealthy = Ports
=============================================================================
