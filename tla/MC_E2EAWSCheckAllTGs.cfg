CONSTANTS
    p1 = p1
    p2 = p2
    noTG = noTG
    Ports <- MCPorts
    NoTG <- noTG
    NumTargets = 3
SYMMETRY Symm
SPECIFICATION Spec
INVARIANT AllTargetGroupsSeenHealthy
