--------------------------- MODULE MCHistoryIndex ---------------------------
EXTENDS HistoryIndex, TLC

CONSTANTS b1, p1, p2

\* One bug in the first product, the others in the second.
MCProductOf == [b \in Bugs |-> IF b = b1 THEN p1 ELSE p2]
BugSymmetry == Permutations(Bugs \ {b1})
=============================================================================
