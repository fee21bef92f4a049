-------------------------- MODULE MCSemanticBridge --------------------------
EXTENDS SemanticBridge, TLC
CONSTANTS c1, c2, c3
TwoCallers == {c1, c2}
ThreeCallers == {c1, c2, c3}
CallerSymmetry == Permutations(Callers)
=============================================================================
