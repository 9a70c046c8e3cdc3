--------------------------- MODULE MCCodexService ---------------------------
EXTENDS CodexService, TLC

CONSTANTS t1, t2, service, o1

Symmetry == Permutations(Tasks)
=============================================================================
