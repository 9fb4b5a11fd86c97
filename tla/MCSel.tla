------------------------------- MODULE MCSel -------------------------------
EXTENDS Sel, TLC

CONSTANTS e1, e2, e3

MCEntries == {e1, e2, e3}
Symmetry == Permutations(MCEntries)
=============================================================================
