---------------------------- MODULE MCGraphCache ----------------------------
EXTENDS GraphCache, TLC
CONSTANTS q1, q2, q3, e1, e2
TwoQueries == {q1, q2}
ThreeQueries == {q1, q2, q3}
OneEditor == {e1}
TwoEditors == {e1, e2}
Threads == Permutations(Queries) \cup Permutations(Editors)
=============================================================================
