------------------------------ MODULE MCKMutex ------------------------------
EXTENDS KMutex, TLC

CONSTANTS t1, t2, t3, m1, m2, disk

Sym == Permutations(Thread) \cup Permutations(Mutex)
=============================================================================
