------------------------- MODULE MCDaemonLifecycle --------------------------
EXTENDS DaemonLifecycle, TLC
CONSTANTS k1, k2, r1, r2
OneConnection == {k1}
TwoConnections == {k1, k2}
TwoRequests == {r1, r2}
Clients == Permutations(Connections) \cup Permutations(Requests)
=============================================================================
