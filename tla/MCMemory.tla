------------------------------ MODULE MCMemory ------------------------------
EXTENDS Memory, TLC

CONSTANTS p1, p2, p3

Sym == Permutations(Proc)
=============================================================================
