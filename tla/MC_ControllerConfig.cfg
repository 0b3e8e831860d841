\* Every command line over two cluster names, one log level, two worker
\* counts (zero included), malformed ints and throttle specs, and arguments
\* for two RuntimeConfig flags (the other option fields keep distinct
\* defaults), with and without a scheme.  Start-up ends with the manager
\* running or main exiting.
CONSTANTS
    nil = nil
    scheme = scheme
    notGiven = notGiven
    malformed = malformed
    Nil <- nil
    TheScheme <- scheme
    NotGiven <- notGiven
    Malformed <- malformed
    ClusterNames <- MCClusterNames
    LogLevels <- MCLogLevels
    ReconcileArgs <- MCReconcileArgs
    GivenRuntimeFlags <- MCGivenRuntimeFlags
    AWSIntArgs <- MCAWSIntArgs
SPECIFICATION Spec
CHECK_DEADLOCK FALSE
INVARIANT StartedAsConfigured
INVARIANT StartGateExact
