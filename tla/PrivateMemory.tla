---------------------------- MODULE PrivateMemory ---------------------------
(***************************************************************************)
(* What fork(2) and mmap(2) promise of private memory: every process has   *)
(* pages of its own, a fork copies all of them at once, and a page that    *)
(* was never written shows the object it was mapped from.                  *)
(***************************************************************************)
CONSTANTS
  Proc,     \* processes
  Page,     \* pages of the private area
  Value,    \* contents of a page
  Unwritten, \* marks a page that still shows the mapped object
  NONE      \* the process has no private area

VARIABLES mem

PageTable == [Page -> Value \cup {Unwritten}]

Init == mem = [p \in Proc |-> NONE]

Map(p) ==
  /\ mem[p] = NONE
  /\ mem' = [mem EXCEPT ![p] = [n \in Page |-> Unwritten]]

Unmap(p) ==
  /\ mem[p] # NONE
  /\ mem' = [mem EXCEPT ![p] = NONE]

Store(p, n, v) ==
  /\ mem[p] # NONE
  /\ mem' = [mem EXCEPT ![p][n] = v]

Fork(p, c) ==
  /\ mem[p] # NONE /\ mem[c] = NONE
  /\ mem' = [mem EXCEPT ![c] = mem[p]]

Next ==
  \E p \in Proc :
    \/ Map(p) \/ Unmap(p)
    \/ \E n \in Page, v \in Value : Store(p, n, v)
    \/ \E c \in Proc : Fork(p, c)

Step == [Next]_mem

Spec == Init /\ [][Next]_mem
=============================================================================
