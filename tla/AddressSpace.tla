---------------------------- MODULE AddressSpace ----------------------------
(***************************************************************************)
(* What mmap(2), munmap(2) and brk(2) promise: an address space is a map   *)
(* from pages to pages of memory objects.                                  *)
(***************************************************************************)
EXTENDS Naturals

CONSTANTS
  Low, High,   \* user pages are Low .. High - 1
  Heap,        \* the page the break starts in
  Obj,         \* memory objects
  NONE         \* what an unmapped page maps to

VARIABLE mem

Pages == Low .. High - 1

Vacant(R) == \A p \in R : mem[p] = NONE

(* The pages lo .. lo + n - 1 show object o from its first page on. *)
Show(lo, n, o) ==
  mem' = [p \in Pages |-> IF p \in lo .. lo + n - 1 THEN <<o, p - lo>> ELSE mem[p]]

MmapAt(lo, n, o) == lo + n <= High /\ Show(lo, n, o)

(* The highest room there is. *)
MmapAnywhere(n, o) ==
  \E lo \in Pages :
    /\ lo + n <= High /\ Vacant(lo .. lo + n - 1)
    /\ \A hi \in lo + 1 .. High - n : ~Vacant(hi .. hi + n - 1)
    /\ Show(lo, n, o)

Munmap(lo, n) ==
  mem' = [p \in Pages |-> IF p \in lo .. lo + n - 1 THEN NONE ELSE mem[p]]

(* The mapping the heap is in ends at e instead of at top, and takes no    *)
(* page that something else is mapped at.                                  *)
Brk(e) ==
  LET heap == mem[Heap]
      page(p) == <<heap[1], heap[2] + (p - Heap)>>
  IN /\ heap # NONE
     /\ \E top \in Heap + 1 .. High :
          /\ \A p \in Heap .. top - 1 : mem[p] = page(p)
          /\ Vacant(top .. e - 1)
          /\ mem' = [p \in Pages |-> IF p \in Heap .. e - 1 THEN page(p)
                                     ELSE IF p \in e .. top - 1 THEN NONE
                                     ELSE mem[p]]

Init == mem = [p \in Pages |-> NONE]

Next ==
  \/ \E lo \in Pages, n \in 1 .. High - Low :
       Munmap(lo, n) \/ \E o \in Obj : MmapAt(lo, n, o)
  \/ \E n \in 1 .. High - Low, o \in Obj : MmapAnywhere(n, o)
  \/ \E e \in Heap + 1 .. High : Brk(e)

Step == [Next]_mem

Spec == Init /\ [][Next]_mem
=============================================================================
