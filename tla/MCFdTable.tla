------------------------------- MODULE MCFdTable -------------------------------
EXTENDS FdTable, TLC

CONSTANTS f1, f2, f3

Symmetry == Permutations(Fds)
=============================================================================
