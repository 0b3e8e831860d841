# TLA+ models of the ALB ingress controller's security-group reconciler

This directory holds TLA+ models of:
- the security-group reconcile core in `src/pkg/test/e2e/service/service.go`
  (the second package in that file, `networking`, lines 367–478), with an
  abstract specification that it is shown to implement;
- the scheduler that runs the reconcile core;
- the controller's start-up through `src/pkg/config/controller_config.go`
  and the aws `CloudConfig` (`src/unnamed/part_000`);
- the e2e `ServiceTest` helpers in `service.go` (lines 1–366).

TLC checks every run listed in `PROJECT.json`.

## 1. Inventory

### Components

| Component | Source | State | Operations |
|---|---|---|---|
| DiffEngine + EqualityPolicy | `diffIPPermissionInfos` (458–478) | none (pure) | set difference of permission lists under a comparator that ignores `Labels` |
| ReconcileOptions | `SecurityGroupReconcileOptions`, `ApplyOptions`, `WithPermissionSelector` (378–400) | the selector | default `labels.Everything()`, replaced by an option |
| Reconciler | `ReconcileIngress` (424–456) | none between calls; within a pass: the fetched state, `permissionsToRevoke`, `permissionsToGrant` | fetch → diff → filter → revoke (if any) → authorize (if any); returns on the first error |
| SecurityGroupManager | not under `src/` (spec §4.3) | the security group's ingress rules at the provider | `FetchSGInfosByID`, atomic `RevokeSGIngress`, atomic duplicate-rejecting `AuthorizeSGIngress` |
| Reconcile scheduler | controller-runtime, not under `src/` (spec §5); configured by `ControllerConfig` | work queue, in-flight keys, dirty keys, keys in backoff | add, get, done, rate-limited requeue on error, periodic resync (`SyncPeriod`, `controller_config.go:100`) with `ServiceMaxConcurrentReconciles` workers (`:58`) |
| ControllerConfig / CloudConfig | `controller_config.go`, `unnamed/part_000` | the config fields; the REST config; the manager options | `NewControllerConfig`, `BindFlags` (both), `Validate`, `BuildRestConfig`, `BuildRuntimeOptions`; main (not in `src/`) parses the command line in between and exits on any error |
| E2E ServiceTest helpers | `service.go` 37–366 | `m.Service`; a Service in the cluster and a certificate in ACM | `Create`, `Update`, `Cleanup`, `WaitUntilServiceActive/Deleted`, `SendTrafficToLB`, `GenerateAndImportCertToACM`, `DeleteCertFromACM`, `Check*` |

### How they interact

The scheduler hands a key (a security group) to a worker. The worker calls
`ReconcileIngress` with the desired permissions that the caller derives from
the Service or Ingress spec. The reconciler reads and mutates the security
group only through the manager. The cloud security group is the only shared
mutable state. Three things can change it besides the reconciler: a person
editing unmanaged rules (the selector exists so that both can coexist), and
concurrent passes, which the scheduler's per-key serialization prevents.
An error makes the scheduler re-add the key after a rate-limiter delay. The resync period re-queues
every key.

Start-up comes first. main builds the `ControllerConfig`, binds its flags
and the `CloudConfig`'s to one flag set, and parses the command line. It
then validates the config, builds the REST config, and starts the manager
with the `BuildRuntimeOptions` options and each controller's
`MaxConcurrentReconciles`. Those options are where the scheduler's worker
count and resync period come from.

The e2e helpers drive the whole system from outside. They create, update
and delete a Service and then poll the cluster, the load balancer and ACM
until the controller's work shows up.

### What is hard

- **Partial failure.** A pass is not transactional. A revoke can succeed and
  the following authorize fail. Correctness rests on the next pass diffing
  afresh, and on the scheduler re-queuing the key.
- **Ordering.** Revoke comes before authorize, and authorize is skipped when
  the revoke failed. This keeps stale and new rules from coexisting, and it
  is the only order that works at the rule quota.
- **Stale reads.** The diff is computed from the state fetched at the start
  of the pass. Manual changes to the group, or changes to the spec, can
  happen before the mutations are applied.
- **Coexistence.** Unmanaged rules must survive every pass.
- **Liveness.** Drift must eventually be repaired, sometimes only by the
  resync.
- **E2E polling.** The helpers have retry loops, context deadlines, and
  errors that are dropped or shadowed.
- **Configuration.** pflag writes each default when a flag is bound, so a
  field's final value depends on both its default and the command line.
  A worker count of 0 or less is accepted and passed on unchanged.

### Properties that make each component correct

- DiffEngine: the result is exactly the source elements whose rule is not in
  the target, in order, with labels ignored.
- Reconciler and scheduler: selector containment; revoke before grant with no
  grant after a failed revoke; a settled key is converged; every group is
  eventually converged, or is starved of quota by unmanaged rules; every
  step refines the abstract `SGIngress`.
- Start-up: the manager starts exactly for a command line that parses,
  names a cluster and has a scheme. It then runs with every value equal to
  the flag's argument or its documented default.
- E2E helpers: a helper that returns nil has really achieved its goal (an
  active Service, a deleted Service, HTTP 200, a deleted certificate), and
  the retry loops surface errors.

## 2. Modules

| Module | Models | Composes |
|---|---|---|
| `SGDiff.tla` | `IPPermissionInfo` (as a rule plus a label value), `PermissionEqual`, `diffIPPermissionInfos` (RECURSIVE, mirroring the nested loop) | — |
| `MC_SGDiff.tla` | checks the diff against a `SelectSeq` reference over all pairs of lists of up to 3 permissions | `SGDiff` |
| `SGReconciler.tla` | `ReconcileIngress` run by workers over shared security groups, plus the work queue, the manager and the environment | `SGDiff` |
| `SGIngress.tla` | the abstract promise of reconciliation: a group changes only by revoking, at once, the managed rules its target list does not name, by gaining missing target rules, or by hand edits of unmanaged rules | `SGDiff` |
| `MC_SGReconciler.tla` | model values and the desired lists for the four reconciler runs | `SGReconciler` |
| `ControllerConfig.tla` | start-up: `NewControllerConfig`, both `BindFlags`, parsing, `Validate`, `BuildRestConfig`, `BuildRuntimeOptions` | — |
| `MC_ControllerConfig.tla` | model values and argument sets for the start-up run | `ControllerConfig` |
| `E2EServiceTest.tla` | the `ServiceTest` helpers against a cluster, controller and ACM environment | — |
| `E2EAWSCheck.tla` | `CheckWithAWS` and its `Check*` helpers against target groups whose targets are registered and change health meanwhile | — |
| `MC_E2EAWSCheck.tla` | two ports as model values, and their symmetry, for the two AWS-check runs | `E2EAWSCheck` |

### SGReconciler: state and actions ↔ code

- `sg[k]` is the security group's ingress rules at the provider (the
  manager's state). `desired[k]` is the caller's current desired list.
- `queue`, `processing` and `dirty` are the work queue. `backoff` holds the
  keys `AddRateLimited` has put in the delaying queue; `DelayElapsed(k)`
  is the delay passing, which Adds k (queued, or dirty if in flight). The
  length of the delay is abstracted away. `w[x]` is worker x's
  pass: its key, the `desiredPermissions` it was called with,
  `permissionsToRevoke`, and the calls still to be made.
- `Fetch(x, k)` covers lines 424–443: the options, `FetchSGInfosByID`, both
  diffs and the selector filter (`RevokeCandidates`). `CallPlan` (444–455)
  holds the calls the `len(...) > 0` guards select, in code order. When the
  plan is empty the pass returns nil in the same step, so no no-op call is
  made.
- `FetchFail` covers 430–433: the worker's Get, the error, AddRateLimited
  and Done, which move the key from the queue into backoff. `CallSucceeds` is one successful
  revoke/authorize. `CallFails` is a rejected or failed call, which
  `return err`s; this ends the pass, and `EndPass` puts the key in backoff and re-queues it
  at once only if it was re-added meanwhile.
- The environment has three actions: `SpecChange` (a new desired list; the
  key is added, or marked dirty if it is in flight), `ExternalChange` (a
  hand-made change to an unmanaged rule) and `Resync`. `Resync` is
  controller-runtime's periodic re-add of every key, not code of this
  repository; `BuildRuntimeOptions` only passes its period (line 100).
- The manager (`GrantAccepted`) rejects an authorize whose list holds two
  equal rules, a rule the group already has, or more rules than the quota
  leaves room for.

### Refinement: SGReconciler implements SGIngress

`SGReconciler` instantiates `SGIngress` with `Managed <- PermissionSelector`.
Its `target` variable is mapped by `PassTarget`:
- a group that a worker holds maps to the `desiredPermissions` its pass
  was called with (the worker's `desired` field);
- any other group maps to its current desired list.

Under this mapping the steps correspond as follows:
- a successful revoke is `Revoke`;
- a successful authorize is `Grant`. It may add fewer rules than are
  missing, because a hand edit can remove an unmanaged rule after the fetch;
- the end of a pass is `Adopt`;
- `ExternalChange` is `HandEdit`;
- a fetch, a failed call and a resync are stuttering steps.

The check passes in the `reconciler` run as the property
`ImplementsIngress`. The abstract module has no fairness: liveness is
checked on the detailed module (`EventuallyConverged`,
`ConvergedUnlessStarved`).

### ControllerConfig: state and actions ↔ code

- `cfg` is the `ControllerConfig` flattened: each field, including those of
  `RuntimeConfig` and `CloudConfig`, maps to its value.
- A `RuntimeConfig` value is a tag `<<field, "default" | "arg">>`, so a
  copy into the wrong option field is visible.
- `args` is the command line. `phase` records how far start-up got.
  `exitErr` is the step whose error made main exit.
- `restCfg` is the REST config's QPS and Burst. `options` is the
  `ctrl.Options`. `workers` is each controller's `MaxConcurrentReconciles`.
- `BindFlags` stores every bound default, as pflag's `StringVar`/`IntVar`
  do. `fs.Var` keeps the preset throttle config.
- `Parse` fails on an int or throttle argument that does not parse.
  Otherwise it overwrites each given flag's field.
- `Validate`, `BuildRestConfig` (which may fail) and `BuildRuntimeOptions`
  follow the source line by line.

### E2EServiceTest: state and actions ↔ code

- `svc`: absent, pending (no ingress), active or deleting. `cert`: the ACM
  certificate. `ctxDone`: the test context's deadline has passed.
- `mService` is `m.Service`: nil, an empty object, without ingress, or with
  ingress. `observed` is the wait's `observedSvc`.
- `Create`, `Update` and `Cleanup` make the first API call. `ActiveCondition`
  and `DeletedCondition` are one run of each poll condition.
  `PollInterval` and `PollStopped` are `wait.PollImmediateUntil` between runs.
  `Request` is one iteration of `SendTrafficToLB`'s loop, and
  `DeleteCertCall` one iteration of `DeleteCertFromACM`'s loop.
- The environment is `Provision`, `FinishDelete` (the controller) and
  `Deadline`.

### E2EAWSCheck: state and actions ↔ code

- A target group is one per Service port (`Ports`), abstracted to
  `registered[t]`, the number of targets the controller has registered, and
  `healthyCnt[t]`, how many of those are healthy. The load balancer's type,
  scheme, listeners and protocols are taken to match; their describe calls
  keep only the failure path (`CallFails`, an `Expect(err)` that stops the
  test).
- `pc` is the step of `CheckWithAWS`. `DescribeLB` is
  `GetAwsLoadBalancerArns`, `CheckLoadBalancerType` and
  `CheckLoadBalancerListeners`. `DescribeTGs` picks `tgArn`, whichever group
  AWS lists first. `CheckTG(t)` is one iteration of the per-group loop
  (lines 218–223), the first group first. `WaitPoll` is one iteration of
  the "Waiting until targets are healthy" loop, and `WaitExhausted` its
  closing `Expect(healthy)`.
- `CountOk` and `AllHealthy` are `CheckTargetGroupHealth`: the exact-count
  `Expect` and the healthy result.
- `seenHealthy` is history: the groups a check saw all healthy.
- The environment is `Register`, `PassHealthCheck` and `FailHealthCheck`:
  the controller registering endpoints and the load balancer's health
  checks, which may flap without bound.

## 3. Runs

| Run | Checks | Shows |
|---|---|---|
| `diff_reference` | `DiffMatchesReference` | The diff contract holds on all 7225 pairs of lists of length ≤ 3 over 2 rules × 2 labels. |
| `reconciler` | `TypeOK`, `QuiescentConverged`, `SelectorContainment`, `RevokeBeforeGrant`, `ImplementsIngress` | 2 groups, 2 workers, 2 rules, owned/unowned labels, 4 desired lists, quota 2; one transient failure (which backs off), one spec change, one manual change; every step refines `SGIngress`. Symmetry of groups and workers; about 315k states, 30 seconds. A key not queued, in flight or in backoff is converged, unless it was edited by hand since its last fetch; only the resync repairs such a key, which the liveness and quota runs check. |
| `reconciler_liveness` | `EventuallyConverged` | The same instance with one worker and no symmetry: every group eventually stays converged. About 420k states, 1 minute. |
| `reconciler_quota` | `ConvergedUnlessStarved` | One group at quota 1, owned and unowned labels, two failures, three spec changes, two manual changes (an unmanaged rule can take the only slot and give it back, which only the resync notices; without `Resync` the run fails). About 10k states. A group stays unconverged only when unmanaged rules take the room its desired rules need. A rule swap converges only because the revoke comes first (the grant-first variant livelocks). |
| `config_startup` | `StartedAsConfigured`, `StartGateExact` | Every command line over the bounded argument sets, with and without a scheme. The manager starts exactly for valid input, and then with every option, worker count, cloud setting and REST limit equal to the argument or the documented default. |
| `reconciler_duplicate_desired` | `EventuallyConverged` (violation) | A desired list with r1 owned and r1 unowned is never reconciled. |
| `e2e_helpers` | `TypeOK`, `CreateReturnsActive`, `CleanupReturnsDeleted`, `TrafficReturnsServed` | Every order of helper calls, with failing calls and a deadline. |
| `e2e_update_ignores_wait` | `UpdateReturnsActive` (violation) | `Update` returns nil after its wait timed out. |
| `e2e_delete_cert_shadowed_err` | `DeleteCertReturnsDeleted` (violation) | `DeleteCertFromACM` returns nil after ten failures. |
| `e2e_wait_swallows_get_error` | `GetErrorEndsActiveWait` (violation) | The Get error path at line 92 is dead. |
| `e2e_aws_checks` | `ReturnedAfterChecks` | Two target groups of three targets, registered and flapping during the check: `CheckWithAWS` returns nil only when every group has all its targets registered, although registration races the checks, and the polled group was seen all healthy. With the ports symmetric, 2363 states. Termination is not checked: the only loop has the constant bound of line 229, and nothing the environment does can block the test's next step, so it would hold whatever the code did. |
| `e2e_aws_unhealthy_second_tg` | `AllTargetGroupsSeenHealthy` (violation) | The check passes with the second target group at 0 healthy targets. |

Every property of a passing run has a mutant in `PROJECT.json`: a variant of a
mapped definition (for example a comparator that looks at labels, no
re-queue on error, revoking unselected extras, continuing after a failed
call, or grant before revoke), and TLC finds each variant violating its
property.

### Bounds

- Two security groups and two workers are enough to interleave passes on
  different keys. Per-key serialization means at most one worker per key,
  so with two keys a third worker (the default of 3) adds no new
  interleaving. Liveness is checked with one worker: symmetry is not sound
  for liveness, and without it two workers and backoff take the run past
  five minutes. Two workers' interleavings are checked by the safety run.
- Two rules and two labels are enough for an equal-rule / different-label
  pair and for a rule swap.
- One failure, one spec change and one manual change each reach the
  failure, dirty re-queue and stale-diff paths.
- The quota run uses a quota of one, where the order of revoke and grant
  decides the outcome. Its two manual changes let an unmanaged rule take the slot
  and free it again. Two groups in that run, or two manual changes in the
  liveness run, take more than two minutes each and add no new case for
  a single key.
- The retry bounds of 10 in the e2e helpers are the code's own constants.
- The AWS-check runs use two ports, the fewest with a group that is not
  `TargetGroups[0]`, and three targets, so that a group can be partly
  registered and partly healthy. Any initial registration and health is
  allowed, since the check starts once the Service is active, whatever the
  controller has done by then. Both AWS-check runs use symmetry of
  the ports.
- Start-up ranges over the following command lines:
  - the cluster name is absent, `""` or a name;
  - each worker count is absent, malformed, 0 or 5;
  - each aws int and the throttle spec is absent or malformed, and the
    throttle spec can also be well-formed;
  - the watch namespace and sync period are absent or given.

  The other option fields keep their own distinct defaults, so a swap of
  any two of them still shows.
- Serialization matters. With a queued key allowed to go to a second worker
  while it is in flight, TLC finds `QuiescentConverged` and
  `RevokeBeforeGrant` violated. That lost update is what spec §5's per-key
  precondition rules out.

### Fairness

Each worker step is weakly fair, because a goroutine with work runs.
Handing out a queued key is weakly fair per key, because the client-go work
queue is FIFO. A key's backoff delay is weakly fair, because the delaying queue's
timer re-adds it once the delay has passed. The resync is weakly fair,
because the SyncPeriod timer keeps firing. Failures, spec changes and manual changes are never forced, and they
are bounded. Start-up is checked for safety only. The e2e runs check safety only: a Ginkgo test that fails an
`Expect` stops, so those runs set `CHECK_DEADLOCK FALSE` where the test
can end.

## 4. Findings

1. **Duplicates in the desired list never converge (spec gap).** Line 443
   grants every copy of a duplicated rule. Spec §3 says duplicates are
   allowed, and §4.3 says authorize rejects them.
2. **`Update` drops the wait error (code bug).** At line 70, `m.Service`
   can be left without an ingress, and `SendTrafficToLB` then panics on
   `Ingress[0]`.
3. **`DeleteCertFromACM` shadows `err` (code bug).** At line 357 it
   reports success after ten failures.
4. **`if i >= 5` is dead code (code bug).** At line 92,
   `WaitUntilServiceActive` never surfaces a Get error.
5. **Only the first target group is waited on (code bug).** At line 221
   the per-group health result is dropped, and the wait polls only
   `TargetGroups[0]`. A multi-port Service passes `CheckWithAWS` with
   another group unhealthy.

## 5. Not modelled

- Concurrent passes on the same group without serialization: a
  precondition (spec §5), not a code path.
- The AWS SDK and throttling. The AWS client is built from `CloudConfig`;
  only the values it is built from are checked.
- `IngressConfig.BindFlags` and `AddonsConfig.BindFlags`, whose code is not
  in the repository and whose values no modelled part reads.
- pflag's parsing of strings, which is an identity here. A real value is
  abstracted to "absent", "given" or "malformed".
- No run checks that the health checks wait for target registration:
  line 195 Expects the exact count on every call, so a registration still
  in progress fails the test. The model reaches that abort, but nothing
  in the code or spec says whether the test should wait for registration.
- The values the `Check*` assertions compare (load balancer type and
  scheme, listener ports and protocols, target type), which are single
  comparisons of AWS descriptions with the expectation. Certificate
  generation is modelled only as a success or a failed Expect.
- A composition of start-up with the reconciler, and of the e2e helpers
  with the controller they test. The code that wires them together is not
  in this repository: `main` starts the manager, controller-runtime applies
  its options and `MaxConcurrentReconciles`, and the e2e suites call the
  helpers. A composed module would therefore be modelled from the spec,
  not translated from source. For example, whether a worker count of 0
  from `service-max-concurrent-reconciles` means no worker or one worker
  is decided in controller-runtime. `StartedAsConfigured` checks that
  value up to the manager's options. The reconciler module takes its
  worker set and resync (`SyncPeriod`) as given.
- The SecurityGroupManager beyond its contract: it is not in `src/`, and
  spec §4.3 gives only atomic revoke and duplicate- and quota-rejecting
  authorize, which `SGReconciler` models. Throttling and SDK retries are
  not in the repository.
- Egress and target-group reconcilers (spec §4.4), which are not in
  `src/`.

## 6. Open questions

1. Should the AWS health checks wait for target registration (line 195)?
   The answer decides whether the abort the model reaches is a bug.
2. Larger reconciler instances (three rules, two workers in the liveness
   run) are beyond five minutes of TLC at present. A run split per
   property would reach them.

