--------------------------- MODULE MCDiagnostics ---------------------------
EXTENDS Diagnostics, TLC
CONSTANTS d1, r1, r2, p1, p2
OneDoc == {d1}
NoRuns == {}
TwoRuns == {r1, r2}
TwoPasses == {p1, p2}
\* Project scope on the keystroke, and document scope with either trigger.
SomeSettings ==
    {[project |-> TRUE, continuous |-> TRUE, fails |-> {"pass", "index"}],
     [project |-> FALSE, continuous |-> TRUE,
      fails |-> {"watch", "index", "native"}],
     [project |-> FALSE, continuous |-> FALSE,
      fails |-> {"watch", "native"}]}
ProjectScope == {[project |-> TRUE, continuous |-> TRUE, fails |-> {}]}
\* Each kind of finding is there in one text and gone in another.
TwoFindings ==
    {[native |-> TRUE, proj |-> TRUE, tx |-> FALSE, ms |-> TRUE],
     [native |-> FALSE, proj |-> FALSE, tx |-> TRUE, ms |-> FALSE]}
CleanOrNative == {[native |-> b, proj |-> b, tx |-> FALSE, ms |-> FALSE] :
                    b \in BOOLEAN}
Symmetric == Permutations(Runs) \cup Permutations(Passes)
=============================================================================
