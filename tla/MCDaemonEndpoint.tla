-------------------------- MODULE MCDaemonEndpoint --------------------------
EXTENDS DaemonEndpoint, TLC
CONSTANTS c1, c2, s1, d1, d2, d3
OneConnector == {c1}
TwoConnectors == {c1, c2}
NoStopper == {}
OneStopper == {s1}
TwoDaemons == {d1, d2}
ThreeDaemons == {d1, d2, d3}
AllProcesses == Clients \cup Daemons
Nobody == {}
OneBuild == [c \in Connectors |-> 1]
TwoBuilds == [c \in Connectors |-> IF c = c1 THEN 1 ELSE 2]
DaemonSymmetry == Permutations(Daemons)
AllSymmetry == Permutations(Daemons) \cup Permutations(Connectors)
=============================================================================
