------------------------------- MODULE Queues --------------------------------
(***************************************************************************)
(* What the kernel's loops take off a list, be it the process list or a    *)
(* wait queue: some of its elements, in the order in which they are on it. *)
(***************************************************************************)
EXTENDS Naturals, FiniteSets, Sequences

(* The elements of the list s that are in S, in the order of s. *)
Only(s, S) ==
  LET at == {i \in DOMAIN s : s[i] \in S}
  IN [k \in 1 .. Cardinality(at) |->
        s[CHOOSE i \in at : Cardinality({j \in at : j <= i}) = k]]
=============================================================================
