--------------------------- MODULE MC_E2EAWSCheck ---------------------------
(* Two Service ports, hence two target groups, of two targets each.        *)
EXTENDS E2EAWSCheck, TLC

CONSTANTS p1, p2, noTG

MCPorts == {p1, p2}

Symm == Permutations(MCPorts)
=============================================================================
