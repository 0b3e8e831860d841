-------------------------- MODULE ControllerConfig --------------------------
(***************************************************************************)
(* Process start-up through pkg/config/controller_config.go and the aws    *)
(* CloudConfig: the config is constructed (NewControllerConfig), the flags *)
(* of both configs are bound (BindFlags,                                   *)
(* which in pflag also stores each default into its field), the command    *)
(* line is parsed, the config is validated, the REST config and the        *)
(* controller-runtime options are built, and the manager is started with   *)
(* them and with the per-kind MaxConcurrentReconciles.                     *)
(*                                                                         *)
(* The main program that sequences these calls and RuntimeConfig (its      *)
(* flags and defaults) are not in this repository's source tree; they are  *)
(* modelled from the spec.  The Go struct is flattened: cfg maps each      *)
(* field name, RuntimeConfig's included, to its value.  A RuntimeConfig    *)
(* value is abstracted to a tag telling which field it came from and       *)
(* whether it is the field's default or a command-line argument.           *)
(***************************************************************************)
EXTENDS Integers, FiniteSets

CONSTANTS
    Nil,           \* the nil *runtime.Scheme
    TheScheme,     \* the scheme main passes to NewControllerConfig
    NotGiven,      \* the command line does not mention a flag
    Malformed,     \* an argument pflag cannot parse as an int
    ClusterNames,  \* cluster-name arguments (strings, "" included)
    LogLevels,     \* log-level arguments
    ReconcileArgs, \* *-max-concurrent-reconciles arguments (ints)
    GivenRuntimeFlags, \* RuntimeConfig flags a command line may give
    AWSIntArgs     \* aws-max-retries / aws-vpc-cache-duration arguments

ASSUME /\ "" \in ClusterNames
       /\ ReconcileArgs \subseteq Int /\ AWSIntArgs \subseteq Int

\* The flag names and defaults of controller_config.go's const block.
flagLogLevel == "log-level"
flagK8sClusterName == "cluster-name"
flagServiceMaxConcurrentReconciles == "service-max-concurrent-reconciles"
flagTargetgroupBindingMaxConcurrentReconciles == "targetgroupbinding-max-concurrent-reconciles"
defaultLogLevel == "info"
defaultMaxConcurrentReconciles == 3
defaultQPS == 1000000
defaultBurst == 1000000

\* The flag names and defaults of CloudConfig's const block.
flagAWSRegion == "aws-region"
flagAWSAPIThrottle == "aws-api-throttle"
flagAWSVpcID == "aws-vpc-id"
flagAWSVpcCacheDuration == "aws-vpc-cache-duration"
flagAWSMaxRetries == "aws-max-retries"
defaultVpcID == ""
defaultRegion == ""
defaultAPIMaxRetries == 10
defaultVpcCacheDuration == 5

\* The throttle config main presets; fs.Var keeps it as the default.
PresetThrottle == <<"ThrottleConfig", "default">>
ThrottleArg == <<"ThrottleConfig", "arg">>

\* RuntimeConfig's fields (flags named after them), and their values.
RuntimeFields == {"APIServer", "KubeConfig", "ControllerPort",
                  "MetricsBindAddress", "EnableLeaderElection",
                  "LeaderElectionID", "LeaderElectionNamespace",
                  "WatchNamespace", "SyncPeriod"}
RuntimeDefault(f) == <<f, "default">>
RuntimeArg(f) == <<f, "arg">>

\* The fields of ControllerConfig, RuntimeConfig's flattened into it.
CfgFields == {"LogLevel", "ClusterName", "ServiceMaxConcurrentReconciles",
              "TargetgroupBindingMaxConcurrentReconciles", "Scheme"}
             \cup RuntimeFields
             \cup {"Region", "ThrottleConfig", "VpcID", "VpcCacheDuration",
                   "MaxRetries"}

\* The Go zero value of each field.
ZeroValue(f) ==
    CASE f \in {"LogLevel", "ClusterName", "Region", "VpcID"} -> ""
      [] f \in {"ServiceMaxConcurrentReconciles", "VpcCacheDuration",
                "TargetgroupBindingMaxConcurrentReconciles", "MaxRetries"} -> 0
      [] f = "Scheme" -> Nil
      [] f = "ThrottleConfig" -> PresetThrottle
      [] OTHER -> <<f, "zero">>

(***************************************************************************)
(* What BindFlags registers: for each flag, the field it is bound to and   *)
(* the default pflag stores there (StringVar/IntVar; Var keeps the value), *)
(* CloudConfig's and RuntimeConfig's BindFlags included.                   *)
(***************************************************************************)
Binding(flag) ==
    CASE flag = flagLogLevel -> [field |-> "LogLevel", default |-> defaultLogLevel]
      [] flag = flagK8sClusterName -> [field |-> "ClusterName", default |-> ""]
      [] flag = flagServiceMaxConcurrentReconciles ->
            [field |-> "ServiceMaxConcurrentReconciles",
             default |-> defaultMaxConcurrentReconciles]
      [] flag = flagTargetgroupBindingMaxConcurrentReconciles ->
            [field |-> "TargetgroupBindingMaxConcurrentReconciles",
             default |-> defaultMaxConcurrentReconciles]
      [] flag = flagAWSRegion -> [field |-> "Region", default |-> defaultRegion]
      [] flag = flagAWSAPIThrottle ->
            [field |-> "ThrottleConfig", default |-> PresetThrottle]
      [] flag = flagAWSVpcID -> [field |-> "VpcID", default |-> defaultVpcID]
      [] flag = flagAWSVpcCacheDuration ->
            [field |-> "VpcCacheDuration", default |-> defaultVpcCacheDuration]
      [] flag = flagAWSMaxRetries ->
            [field |-> "MaxRetries", default |-> defaultAPIMaxRetries]
      [] OTHER -> [field |-> flag, default |-> RuntimeDefault(flag)]

\* Flags whose argument pflag parses, and may fail to parse.
IntFlags == {flagServiceMaxConcurrentReconciles,
             flagTargetgroupBindingMaxConcurrentReconciles,
             flagAWSVpcCacheDuration, flagAWSMaxRetries}
CheckedFlags == IntFlags \cup {flagAWSAPIThrottle}

Flags == {flagLogLevel, flagK8sClusterName, flagAWSRegion, flagAWSAPIThrottle,
          flagAWSVpcID} \cup IntFlags \cup RuntimeFields

(***************************************************************************)
(* A command line: the log-level, cluster-name, worker-count and aws       *)
(* arguments, and which RuntimeConfig flags are given; the region and VPC  *)
(* ID are never given (their values do not reach a checked property).      *)
(***************************************************************************)
CommandLine(level, name, svc, tgb, cache, retries, throttle, given) ==
    [flag \in Flags |->
        CASE flag = flagLogLevel -> level
          [] flag = flagK8sClusterName -> name
          [] flag = flagServiceMaxConcurrentReconciles -> svc
          [] flag = flagTargetgroupBindingMaxConcurrentReconciles -> tgb
          [] flag = flagAWSVpcCacheDuration -> cache
          [] flag = flagAWSMaxRetries -> retries
          [] flag = flagAWSAPIThrottle -> throttle
          [] flag \in {flagAWSRegion, flagAWSVpcID} -> NotGiven
          [] OTHER -> IF flag \in given THEN RuntimeArg(flag) ELSE NotGiven]

CommandLines ==
    {CommandLine(level, name, svc, tgb, cache, retries, throttle, given) :
        level \in {NotGiven} \cup LogLevels,
        name \in {NotGiven} \cup ClusterNames,
        svc \in {NotGiven, Malformed} \cup ReconcileArgs,
        tgb \in {NotGiven, Malformed} \cup ReconcileArgs,
        cache \in {NotGiven, Malformed} \cup AWSIntArgs,
        retries \in {NotGiven, Malformed} \cup AWSIntArgs,
        throttle \in {NotGiven, Malformed, ThrottleArg},
        given \in SUBSET GivenRuntimeFlags}

Phases == {"new", "bound", "parsed", "validated", "restBuilt", "running",
           "exited"}

VARIABLES
    args,        \* the command line
    phase,       \* how far start-up got
    exitErr,     \* which step's error made main exit
    cfg,         \* the ControllerConfig
    restCfg,     \* the *rest.Config, or Nil
    options,     \* the ctrl.Options the manager was started with, or Nil
    workers      \* MaxConcurrentReconciles per controller kind, or Nil

vars == <<args, phase, exitErr, cfg, restCfg, options, workers>>

\* NewControllerConfig: only RuntimeConfig (NewRuntimeConfig) is set.
NewControllerConfig(scheme) ==
    [f \in CfgFields |-> IF f = "Scheme" THEN scheme ELSE ZeroValue(f)]

Init ==
    /\ args \in CommandLines
    /\ \E scheme \in {Nil, TheScheme} : cfg = NewControllerConfig(scheme)
    /\ phase = "new" /\ exitErr = Nil
    /\ restCfg = Nil /\ options = Nil /\ workers = Nil

Exit(err) == phase' = "exited" /\ exitErr' = err

\* BindFlags: registering a flag stores its default into the bound field.
BindFlags ==
    /\ phase = "new"
    /\ phase' = "bound"
    /\ cfg' = [f \in CfgFields |->
                 IF \E flag \in Flags : Binding(flag).field = f
                 THEN Binding(CHOOSE flag \in Flags : Binding(flag).field = f).default
                 ELSE cfg[f]]
    /\ UNCHANGED <<args, exitErr, restCfg, options, workers>>

\* fs.Parse: an int, or a throttle spec, that does not parse is an error;
\* otherwise each given argument overwrites its bound field.
Parse ==
    /\ phase = "bound"
    /\ IF \E flag \in CheckedFlags : args[flag] = Malformed
       THEN Exit("parse") /\ UNCHANGED cfg
       ELSE /\ phase' = "parsed"
            /\ cfg' = [f \in CfgFields |->
                         IF \E flag \in Flags : Binding(flag).field = f /\ args[flag] # NotGiven
                         THEN args[CHOOSE flag \in Flags : Binding(flag).field = f]
                         ELSE cfg[f]]
            /\ UNCHANGED exitErr
    /\ UNCHANGED <<args, restCfg, options, workers>>

\* Variant: Validate checks only the cluster name.
ValidateNoScheme ==
    /\ phase = "parsed"
    /\ IF cfg["ClusterName"] = ""
       THEN Exit("validate")
       ELSE phase' = "validated" /\ UNCHANGED exitErr
    /\ UNCHANGED <<args, cfg, restCfg, options, workers>>

\* Validate, and main exiting on its error.
Validate ==
    /\ phase = "parsed"
    /\ IF cfg["ClusterName"] = "" \/ cfg["Scheme"] = Nil
       THEN Exit("validate")
       ELSE phase' = "validated" /\ UNCHANGED exitErr
    /\ UNCHANGED <<args, cfg, restCfg, options, workers>>

\* BuildRestConfig: clientcmd.BuildConfigFromFlags may fail (no reachable
\* kubeconfig or in-cluster config); otherwise QPS and Burst are raised.
BuildRestConfig ==
    /\ phase = "validated"
    /\ \/ Exit("rest") /\ UNCHANGED restCfg
       \/ /\ phase' = "restBuilt"
          /\ restCfg' = [QPS |-> defaultQPS, Burst |-> defaultBurst]
          /\ UNCHANGED exitErr
    /\ UNCHANGED <<args, cfg, options, workers>>

\* Variant: Namespace is taken from the leader-election namespace.
BuildRuntimeOptionsSwapped ==
    /\ phase = "restBuilt"
    /\ phase' = "running"
    /\ options' = [Scheme |-> cfg["Scheme"],
                   Port |-> cfg["ControllerPort"],
                   MetricsBindAddress |-> cfg["MetricsBindAddress"],
                   LeaderElection |-> cfg["EnableLeaderElection"],
                   LeaderElectionID |-> cfg["LeaderElectionID"],
                   LeaderElectionNamespace |-> cfg["LeaderElectionNamespace"],
                   Namespace |-> cfg["LeaderElectionNamespace"],
                   SyncPeriod |-> cfg["SyncPeriod"]]
    /\ workers' = [service |-> cfg["ServiceMaxConcurrentReconciles"],
                   targetGroupBinding |-> cfg["TargetgroupBindingMaxConcurrentReconciles"]]
    /\ UNCHANGED <<args, exitErr, cfg, restCfg>>

\* BuildRuntimeOptions, and the manager started with the options and each
\* controller with its MaxConcurrentReconciles.
BuildRuntimeOptions ==
    /\ phase = "restBuilt"
    /\ phase' = "running"
    /\ options' = [Scheme |-> cfg["Scheme"],
                   Port |-> cfg["ControllerPort"],
                   MetricsBindAddress |-> cfg["MetricsBindAddress"],
                   LeaderElection |-> cfg["EnableLeaderElection"],
                   LeaderElectionID |-> cfg["LeaderElectionID"],
                   LeaderElectionNamespace |-> cfg["LeaderElectionNamespace"],
                   Namespace |-> cfg["WatchNamespace"],
                   SyncPeriod |-> cfg["SyncPeriod"]]
    /\ workers' = [service |-> cfg["ServiceMaxConcurrentReconciles"],
                   targetGroupBinding |-> cfg["TargetgroupBindingMaxConcurrentReconciles"]]
    /\ UNCHANGED <<args, exitErr, cfg, restCfg>>

Next == BindFlags \/ Parse \/ Validate \/ BuildRestConfig \/ BuildRuntimeOptions

Spec == Init /\ [][Next]_vars

-----------------------------------------------------------------------------
\* The value a flag should end up with: its argument, or its documented
\* default (the usage strings and the const block).
Effective(flag) ==
    IF args[flag] # NotGiven THEN args[flag]
    ELSE CASE flag = flagLogLevel -> "info"
           [] flag \in {flagServiceMaxConcurrentReconciles,
                        flagTargetgroupBindingMaxConcurrentReconciles} -> 3
           [] flag = flagAWSMaxRetries -> 10
           [] flag = flagAWSVpcCacheDuration -> 5
           [] flag \in {flagK8sClusterName, flagAWSRegion, flagAWSVpcID} -> ""
           [] flag = flagAWSAPIThrottle -> PresetThrottle
           [] OTHER -> RuntimeDefault(flag)

\* The RuntimeConfig field each controller-runtime option is meant to carry.
OptionSource == [Port |-> "ControllerPort",
                 MetricsBindAddress |-> "MetricsBindAddress",
                 LeaderElection |-> "EnableLeaderElection",
                 LeaderElectionID |-> "LeaderElectionID",
                 LeaderElectionNamespace |-> "LeaderElectionNamespace",
                 Namespace |-> "WatchNamespace",
                 SyncPeriod |-> "SyncPeriod"]

(***************************************************************************)
(* The manager runs as the command line says: across BindFlags' defaults,  *)
(* Parse's overwrites and BuildRuntimeOptions' copying, every manager      *)
(* option, both worker-pool sizes and the CloudConfig the AWS client is    *)
(* built from are the flag's argument or its documented default, the      *)
(* scheme is main's, and the REST client has the                           *)
(* raised QPS and Burst rather than client-go's low defaults.              *)
(***************************************************************************)
StartedAsConfigured ==
    phase = "running" =>
        /\ \A o \in DOMAIN OptionSource : options[o] = Effective(OptionSource[o])
        /\ options.Scheme = TheScheme
        /\ workers = [service |-> Effective(flagServiceMaxConcurrentReconciles),
                      targetGroupBinding |->
                          Effective(flagTargetgroupBindingMaxConcurrentReconciles)]
        /\ \A flag \in {flagAWSRegion, flagAWSAPIThrottle, flagAWSVpcID,
                         flagAWSVpcCacheDuration, flagAWSMaxRetries} :
              cfg[Binding(flag).field] = Effective(flag)
        /\ restCfg = [QPS |-> defaultQPS, Burst |-> defaultBurst]

\* A command line main can run with: every argument parses, a cluster name
\* is set.
ValidCommandLine ==
    /\ \A flag \in CheckedFlags : args[flag] # Malformed
    /\ args[flagK8sClusterName] \notin {NotGiven, ""}

(***************************************************************************)
(* Start-up gate (Parse and Validate): the manager starts exactly for a    *)
(* valid command line and a non-nil scheme; main exits otherwise, or when  *)
(* the REST config cannot be built.                                        *)
(***************************************************************************)
StartGateExact ==
    /\ phase = "running" => ValidCommandLine /\ cfg["Scheme"] # Nil
    /\ phase = "exited" =>
          exitErr = "rest" \/ ~ValidCommandLine \/ cfg["Scheme"] = Nil
=============================================================================
