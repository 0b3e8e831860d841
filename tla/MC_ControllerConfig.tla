------------------------- MODULE MC_ControllerConfig -------------------------
EXTENDS ControllerConfig

CONSTANTS nil, scheme, notGiven, malformed

MCClusterNames == {"", "c1"}
MCLogLevels == {"debug"}
MCReconcileArgs == {0, 5}
MCGivenRuntimeFlags == {"WatchNamespace", "SyncPeriod"}
MCAWSIntArgs == {}
=============================================================================
