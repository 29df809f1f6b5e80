------------------------------- MODULE MCProc -------------------------------
EXTENDS Proc, TLC

CONSTANTS a, b, c, disk

Sym == Permutations(Thread \ {idle, init})
=============================================================================
