-------------------------------- MODULE Heap --------------------------------
(***************************************************************************)
(* The kernel's memory: the buddy allocator of mm/page.c and the slab      *)
(* allocators of mm/slab.c on top of it, which give unused slabs back when *)
(* pages run out.  Neither sleeps: a call is one action.                   *)
(*                                                                         *)
(* A block is an order and its first page, counted from pg_baseaddr.  Of   *)
(* several free blocks, slabs or objects the code takes the head of a      *)
(* list, the model any.                                                    *)
(***************************************************************************)
EXTENDS Integers, FiniteSets, FiniteSetsExt

CONSTANTS
  NPages,        \* pages of the group
  MaxOrder,      \* PAGE_NSIZES - 1
  Allocator,     \* slab allocators
  sa_order,      \* the order of their slabs
  sa_slab_nobjs  \* objects in a slab

(* A block of order k has 2^k pages.                                       *)
Size[k \in 0 .. MaxOrder] == IF k = 0 THEN 1 ELSE 2 * Size[k - 1]

HeapAssumption ==
  /\ NPages \in Nat /\ MaxOrder \in Nat
  /\ sa_order \in [Allocator -> 0 .. MaxOrder]
  /\ sa_slab_nobjs \in [Allocator -> Nat \ {0}]

ASSUME GroupAssumption == HeapAssumption

VARIABLES
  free,      \* pg_freelist: the free blocks
  map,       \* pg_map: the bits that are set, by order and index
  freecount, \* page_freecount
  held,      \* blocks that callers of page_alloc_n have
  slabs,     \* sa_slabs: the first pages of the slabs of each allocator
  objs       \* objects that callers have: allocator, slab and number

pagegroup == <<free, map, freecount>>
heapVars  == <<pagegroup, held, slabs, objs>>

Usable  == (NPages \div Size[MaxOrder]) * Size[MaxOrder]
Block   == {b \in [order : 0 .. MaxOrder, page : 0 .. Usable - 1] : b.page % Size[b.order] = 0}
Object  == UNION {{a} \X (0 .. Usable - 1) \X (1 .. sa_slab_nobjs[a]) : a \in Allocator}

HeapTypeOK ==
  /\ free \subseteq Block
  /\ map \subseteq (1 .. MaxOrder) \X (0 .. NPages)
  /\ freecount \in 0 .. NPages
  /\ held \subseteq Block
  /\ slabs \in [Allocator -> SUBSET (0 .. Usable - 1)]
  /\ objs \subseteq Object

(* _pagegroup_create: the pages left over after blocks of the largest size *)
(* are put nowhere, but page_add_range counts them.                        *)
HeapInit ==
  /\ free = {b \in Block : b.order = MaxOrder}
  /\ map = {} /\ freecount = NPages
  /\ held = {} /\ slabs = [a \in Allocator |-> {}] /\ objs = {}

-----------------------------------------------------------------------------
Around(order, page) == [order |-> order, page |-> page - (page % Size[order])]
Buddy(b) ==
  LET size == Size[b.order]
  IN [b EXCEPT !.page = IF (@ \div size) % 2 = 0 THEN @ + size ELSE @ - size]

(* _pagegroup_calculate_index: the bit of order k for a page. *)
Bit(k, page) == <<k, page \div Size[k]>>

(* The bits that change when a block comes or goes at each of some orders. *)
Flip(bits, page, orders) ==
  SymDiff(bits, {Bit(k + 1, page) : k \in orders \ {MaxOrder}})

(* _page_alloc_order and _page_split: b comes out of the free block big,   *)
(* and its buddy of every order below is free.                             *)
Split(h, big, b) ==
  [free |-> (h.free \ {big}) \cup {Buddy(Around(k, b.page)) : k \in b.order .. big.order - 1},
   map  |-> Flip(h.map, b.page, b.order .. big.order),
   freecount |-> h.freecount - Size[b.order]]

(* Mutant of Join: the test of the bit is the wrong way round. *)
Join_Inverted(h, b) ==
  LET top == Min({MaxOrder} \cup
                 {k \in b.order .. MaxOrder - 1 : Bit(k + 1, b.page) \in h.map})
  IN [free |-> (h.free \ {Buddy(Around(k, b.page)) : k \in b.order .. top - 1})
               \cup {Around(top, b.page)},
      map  |-> Flip(h.map, b.page, b.order .. top),
      freecount |-> h.freecount + Size[b.order]]

(* _page_free_order and __page_join: the block is joined with its buddy as *)
(* long as the bit they share says that the buddy is free.                 *)
Join(h, b) ==
  LET top == Min({MaxOrder} \cup
                 {k \in b.order .. MaxOrder - 1 : Bit(k + 1, b.page) \notin h.map})
  IN [free |-> (h.free \ {Buddy(Around(k, b.page)) : k \in b.order .. top - 1})
               \cup {Around(top, b.page)},
      map  |-> Flip(h.map, b.page, b.order .. top),
      freecount |-> h.freecount + Size[b.order]]

Group      == [free |-> free, map |-> map, freecount |-> freecount]
Becomes(h) == free' = h.free /\ map' = h.map /\ freecount' = h.freecount

(* The blocks of some slabs of each allocator. *)
SlabBlocks(of) == UNION {{[order |-> sa_order[a], page |-> s] : s \in of[a]} : a \in Allocator}

(* slabs whose s_inuse is 0. *)
Unused(a) == {s \in slabs[a] : \A o \in objs : o[1] = a => o[2] # s}

(* slab_allocators_reclaim(0). *)
Reclaim ==
  LET gone == SlabBlocks([a \in Allocator |-> Unused(a)])
  IN /\ Becomes(FoldSet(LAMBDA b, h : Join(h, b), Group, gone))
     /\ slabs' = [a \in Allocator |-> slabs[a] \ Unused(a)]

Fits(order) == {b \in free : b.order >= order}

(* A block of some order, out of the smallest free one that is no smaller. *)
_page_alloc_order(order, b) ==
  \E big \in Fits(order) :
    /\ \A c \in Fits(order) : big.order <= c.order
    /\ b \in Block /\ b.order = order /\ Around(big.order, b.page) = big
    /\ Becomes(Split(Group, big, b))

-----------------------------------------------------------------------------
page_alloc_n(order) ==
  \/ \E b \in Block :
       /\ _page_alloc_order(order, b)
       /\ held' = held \cup {b}
       /\ UNCHANGED <<slabs, objs>>
  \/ /\ Fits(order) = {}     \* it fails all the same, SHADOWD being off
     /\ Reclaim
     /\ UNCHANGED <<held, objs>>

page_free_n(b) ==
  /\ held' = held \ {b}
  /\ Becomes(Join(Group, b))
  /\ UNCHANGED <<slabs, objs>>

FreeObjects(a) == {o \in Object : o[1] = a /\ o[2] \in slabs[a] /\ o \notin objs}

(* slab_obj_alloc, which grows the allocator when all its slabs are full.  *)
slab_obj_alloc(a) ==
  \/ /\ FreeObjects(a) # {}
     /\ \E o \in FreeObjects(a) : objs' = objs \cup {o}
     /\ UNCHANGED <<pagegroup, held, slabs>>
  \/ /\ FreeObjects(a) = {}
     /\ \E b \in Block :
          /\ _page_alloc_order(sa_order[a], b)
          /\ slabs' = [slabs EXCEPT ![a] = @ \cup {b.page}]
          /\ objs' = objs \cup {<<a, b.page, 1>>}
     /\ UNCHANGED held
  \/ /\ FreeObjects(a) = {} /\ Fits(sa_order[a]) = {}
     /\ Reclaim
     /\ UNCHANGED <<held, objs>>

slab_obj_free(o) ==
  /\ objs' = objs \ {o}
  /\ UNCHANGED <<pagegroup, held, slabs>>

HeapNext ==
  \/ \E order \in 0 .. MaxOrder : page_alloc_n(order)
  \/ \E b \in held : page_free_n(b)
  \/ \E a \in Allocator : slab_obj_alloc(a)
  \/ \E o \in objs : slab_obj_free(o)

HeapSpec == HeapInit /\ [][HeapNext]_heapVars

-----------------------------------------------------------------------------
InUse == held \cup SlabBlocks(slabs)
PagesIn(b) == b.page .. b.page + Size[b.order] - 1

(* Free blocks, blocks of callers and slabs never overlap, and between     *)
(* them they are all the pages, through any splitting and joining.         *)
NothingOverlaps ==
  LET blocks == free \cup InUse IN
  /\ free \cap InUse = {}
  /\ \A b, c \in blocks : b # c => PagesIn(b) \cap PagesIn(c) = {}
  /\ UNION {PagesIn(b) : b \in blocks} = 0 .. Usable - 1
  /\ \A a, c \in Allocator : a # c => slabs[a] \cap slabs[c] = {}

(* A bit is set when one block of a pair is free and its buddy is not, at  *)
(* every order, and buddies that are both free have been joined.           *)
BitsTellBuddies ==
  /\ \A b \in free : b.order < MaxOrder => Buddy(b) \notin free
  /\ map = {Bit(b.order + 1, b.page) : b \in {c \in free : c.order < MaxOrder}}

(* Memory that runs out is taken from slabs without taking their objects.  *)
ObjectsKeepSlabs == \A o \in objs : o[2] \in slabs[o[1]]

(* page_free_count is the number of free pages, and high by those that     *)
(* _pagegroup_create leaves out, but by nothing else.                      *)
CountIsOff ==
  freecount = Cardinality(UNION {PagesIn(b) : b \in free}) + (NPages - Usable)

(* mm/page.c, slab.c: whatever was allocated, freed and reclaimed, in any  *)
(* order, free blocks, blocks of callers and slabs never overlap and are   *)
(* all the pages, a bit of pg_map is set when just one of two buddies is   *)
(* free, no slab with objects is reclaimed, and the count of free pages is *)
(* off by the discarded ones only.                                         *)
HeapOK == NothingOverlaps /\ BitsTellBuddies /\ ObjectsKeepSlabs /\ CountIsOff
=============================================================================
