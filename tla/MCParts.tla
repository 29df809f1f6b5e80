------------------------------- MODULE MCParts ------------------------------
(***************************************************************************)
(* Parts of the system that need few states each, in one run: memory       *)
(* objects and faults, the areas of an address space, the heap, process    *)
(* numbers, and the two warm-ups.  "part" is the one that moves, the others*)
(* stay in their initial state.                                            *)
(***************************************************************************)
EXTENDS Memory, Vmmap, TokenBucket, LinkedList, Pids, Heap, TLC

CONSTANTS
  p1, p2,                                      \* processes
  o1, o2,                                      \* mapped or listed objects
  small, large,                                \* slab allocators
  e1, e2, e3, e4                               \* list elements

VARIABLE part

(* Slabs of one page and of two. *)
SlabOrder == [a \in Allocator |-> IF a = small THEN 0 ELSE 1]
SlabSize  == [a \in Allocator |-> 2]

(* Packets that come from a file and are all let in are packets that do not*)
(* come from one.                                                          *)
PartsInit ==
  /\ part \in {"memory", "space", "heap", "numbers", "list", "bucket"}
  /\ Init /\ SpaceInit /\ PidsInit /\ ListInit /\ BucketInit /\ HeapInit
  /\ part # "memory" => p1 \in live
  /\ readFile_flag => part = "bucket" /\ reqTokens # <<1, 1>>
  /\ part # "bucket" => reqTokens = <<1, 1>>

(* bound: small slabs only beside a block of four pages. *)
FewSlabs == slabs'[small] # {} => \E b \in held' : b.order = 2

Moves(p, A) == part = p /\ A /\ UNCHANGED part

PartsNext ==
  \/ /\ Moves("memory", Next)
     /\ UNCHANGED <<spaceVars, heapVars, pidVars, listVars, bucketVars>>
  \/ /\ Moves("space", SpaceNext)
     /\ UNCHANGED <<vars, heapVars, pidVars, listVars, bucketVars>>
  \/ /\ Moves("heap", HeapNext /\ FewSlabs)
     /\ UNCHANGED <<vars, spaceVars, pidVars, listVars, bucketVars>>
  \/ /\ Moves("numbers", PidsNext)
     /\ UNCHANGED <<vars, spaceVars, heapVars, listVars, bucketVars>>
  \/ /\ Moves("list", ListNext)
     /\ UNCHANGED <<vars, spaceVars, heapVars, pidVars, bucketVars>>
  \/ /\ Moves("bucket", BucketNext)
     /\ UNCHANGED <<vars, spaceVars, heapVars, pidVars, listVars>>

PartsSpec ==
  PartsInit /\ [][PartsNext]_<<part, vars, spaceVars, heapVars, pidVars, listVars, bucketVars>>

Sym == Permutations(Proc) \cup Permutations({o1, o2})

-----------------------------------------------------------------------------
In(p, property) == part = p => property

PartsTypeOK ==
  /\ In("memory", TypeOK) /\ In("space", SpaceTypeOK)
  /\ In("heap", HeapTypeOK)
  /\ In("numbers", PidsTypeOK) /\ In("list", ListTypeOK)
  /\ In("bucket", BucketTypeOK)
=============================================================================
