------------------------------ MODULE MCCache -------------------------------
EXTENDS Cache, TLC

CONSTANTS t1, t2, t3, v1, v2, s1, s2, f1, f2

Sym ==
  Permutations(Thread) \cup Permutations(Frame) \cup Permutations(Slot)
  \cup Permutations(Vno)
=============================================================================
