-------------------------------- MODULE Vmmap -------------------------------
(***************************************************************************)
(* The list of areas of an address space (vm/vmmap.c) as the system calls  *)
(* mmap, munmap (vm/mmap.c) and brk (vm/brk.c) change it, and the          *)
(* translations page faults leave behind.  Addresses are page numbers:     *)
(* where a call is given a byte address, the page it is in.  Protections   *)
(* travel with an area and are not modelled.                               *)
(***************************************************************************)
EXTENDS Integers, FiniteSets, SequencesExt

CONSTANTS
  Low, High,  \* USER_MEM_LOW and USER_MEM_HIGH, as page numbers
  Heap,       \* the page p_start_brk is in, and not at the start of
  MaxPages,   \* the most pages one call asks for
  Touched,    \* the pages the process touches
  mmobj,      \* memory objects that get mapped
  Unmapped    \* the NULL of vmmap_lookup, and of a page with no translation

VARIABLES
  areas,   \* vmm_list
  refs,    \* the references areas hold to each object
  translation,      \* the page of an object that each translated page leads to
  left,    \* (history) pages brk has given up with their translations
  panic    \* a KASSERT failed or a bad pointer was followed

spaceVars == <<areas, refs, translation, left, panic>>

Pages == Low .. High - 1
vmarea_t == [start : Pages, end : Low + 1 .. High, obj : mmobj, off : Nat]

VmmapAssumption ==
  /\ {Low, High, Heap, MaxPages} \subseteq Nat
  /\ 0 < Low /\ Low <= Heap /\ Heap < High
  /\ Touched \subseteq Pages
  /\ Unmapped \notin vmarea_t /\ Unmapped \notin mmobj \X Nat

ASSUME SpaceAssumption == VmmapAssumption

SpaceTypeOK ==
  /\ areas \in Seq(vmarea_t)
  /\ refs \in [mmobj -> Nat]
  /\ translation \in [Pages -> (mmobj \X Nat) \cup {Unmapped}]
  /\ left \subseteq Pages
  /\ panic \in BOOLEAN

SpaceInit ==
  /\ areas = <<>>
  /\ refs = [o \in mmobj |-> 0]
  /\ translation = [p \in Pages |-> Unmapped]
  /\ left = {}
  /\ panic = FALSE

-----------------------------------------------------------------------------
Covers(a, p) == a.start <= p /\ p < a.end

vmmap_lookup(list, p) ==
  LET hits == {i \in DOMAIN list : Covers(list[i], p)}
  IN IF hits = {} THEN Unmapped ELSE list[Min(hits)]

(* The KASSERT of vmmap_is_range_empty. *)
RangeOK(start, n) == n > 0 /\ Low <= start /\ start + n <= High

vmmap_is_range_empty(list, start, n) ==
  \A i \in DOMAIN list : list[i].start >= start + n \/ list[i].end <= start

(* Before the first area that starts higher. *)
vmmap_insert(list, a) ==
  LET later == {i \in DOMAIN list : list[i].start > a.start}
      at == IF later = {} THEN Len(list) + 1
            ELSE CHOOSE i \in later : \A j \in later : i <= j
  IN InsertAt(list, at, a)

(* Mutant of vmmap_find_range: the room below an area is not checked.      *)
vmmap_find_range_Unchecked(list, n) ==
  LET room == {i \in DOMAIN list : list[i].start >= Low + n} IN
  IF list # <<>> /\ Last(list).end + n <= High THEN High - n
  ELSE IF room = {} THEN -1
  ELSE LET i == CHOOSE i \in room : \A j \in room : j <= i IN list[i].start - n

(* vmmap_find_range from the top: above the last area, else directly below *)
(* an area, the highest first.  Nothing is found in an empty list.         *)
vmmap_find_range(list, n) ==
  LET room == {i \in DOMAIN list :
                 /\ list[i].start >= Low + n
                 /\ vmmap_is_range_empty(list, list[i].start - n, n)}
  IN IF list # <<>> /\ Last(list).end + n <= High THEN High - n
     ELSE IF room = {} THEN -1
     ELSE LET i == CHOOSE i \in room : \A j \in room : j <= i
          IN list[i].start - n

(* Its unsigned start - n wraps below an area whose start is less than n,  *)
(* which it comes to when no higher area has room.                         *)
FindWraps(list, n) ==
  vmmap_find_range(list, n) = -1 /\ \E i \in DOMAIN list : list[i].start < n

-----------------------------------------------------------------------------
(* What is left of area a without lo .. hi - 1, where the pages from hi on *)
(* have offset off: both ends (case 1 of vmmap_remove), its front (2), the *)
(* rest of it (3), nothing (4) or all of it (5).                           *)
Cut(a, lo, hi, off) ==
  LET front == [a EXCEPT !.end = lo]
      rest  == [a EXCEPT !.start = hi, !.off = off]
  IN IF a.start >= hi \/ a.end <= lo THEN <<a>>
     ELSE IF a.start < lo /\ a.end > hi THEN <<front, rest>>
     ELSE IF a.start < lo THEN <<front>>
     ELSE IF a.end > hi THEN <<rest>>
     ELSE <<>>

(* Mutant of Pieces: the rest of an area keeps its offset. *)
Pieces_KeepsOffset(a, lo, hi) == Cut(a, lo, hi, a.off)

Pieces(a, lo, hi) == Cut(a, lo, hi, a.off + (hi - a.start))

vmmap_remove(list, lo, n) ==
  FlattenSeq([i \in DOMAIN list |-> Pieces(list[i], lo, lo + n)])

Uses(list, o) == Cardinality({i \in DOMAIN list : list[i].obj = o})

(* Mutant of Removed: the second half of a split takes no reference. *)
Removed_NoRef(lo, n) ==
  [o \in mmobj |->
     refs[o] - Cardinality({i \in DOMAIN areas :
                 areas[i].obj = o /\ Pieces(areas[i], lo, lo + n) = <<>>})]

(* The references after vmmap_remove: a split takes one, an area that goes *)
(* puts one.                                                               *)
Removed(lo, n) ==
  LET pieces(i) == Len(Pieces(areas[i], lo, lo + n)) IN
  [o \in mmobj |->
     refs[o]
     + Cardinality({i \in DOMAIN areas : areas[i].obj = o /\ pieces(i) = 2})
     - Cardinality({i \in DOMAIN areas : areas[i].obj = o /\ pieces(i) = 0})]

(* pt_unmap_range and the flushing of the TLB. *)
Untranslate(lo, n) ==
  /\ translation' = [p \in Pages |->
       IF p \in lo .. lo + n - 1 THEN Unmapped ELSE translation[p]]
  /\ left' = left \ (lo .. lo + n - 1)

Panic == panic' = TRUE /\ UNCHANGED <<areas, refs, translation, left>>

-----------------------------------------------------------------------------
NewArea(lo, n, o) == [start |-> lo, end |-> lo + n, obj |-> o, off |-> 0]

(* do_mmap at lo: whatever is there goes.  The end of the mapping is not   *)
(* checked before vmmap_map asserts it.                                    *)
MmapAt(lo, n, o) ==
  /\ ~panic
  /\ IF lo + n > High THEN Panic
     ELSE /\ areas' = vmmap_insert(vmmap_remove(areas, lo, n), NewArea(lo, n, o))
          /\ refs' = [Removed(lo, n) EXCEPT ![o] = @ + 1]
          /\ Untranslate(lo, n)
          /\ UNCHANGED panic

(* do_mmap with no address.  When vmmap_map finds no room, do_mmap goes on *)
(* with an area pointer nobody has set: it may fault, or may return.       *)
MmapAnywhere(n, o) ==
  LET lo == vmmap_find_range(areas, n) IN
  /\ ~panic
  /\ IF lo = -1
     THEN Panic \/ (~FindWraps(areas, n) /\ UNCHANGED spaceVars)
     ELSE /\ areas' = vmmap_insert(areas, NewArea(lo, n, o))
          /\ refs' = [refs EXCEPT ![o] = @ + 1]
          /\ Untranslate(lo, n)
          /\ UNCHANGED panic

do_munmap(lo, n) ==
  /\ ~panic
  /\ lo + n <= High       \* else -EINVAL
  /\ areas' = vmmap_remove(areas, lo, n)
  /\ refs' = Removed(lo, n)
  /\ Untranslate(lo, n)
  /\ UNCHANGED panic

(* do_brk to an address addr, with addr - 1 in page e - 1.  addr is not    *)
(* below p_start_brk, which is inside page Heap: e > Heap.  (Left out is a *)
(* break set back to exactly a p_start_brk on a page boundary: e = Heap,   *)
(* where an area that starts at Heap becomes empty.)                       *)
(* Pages that the heap gives up keep their translations.                   *)
do_brk(e) ==
  LET heap == {i \in DOMAIN areas : Covers(areas[i], Heap)} IN
  /\ ~panic
  /\ \/ heap = {} /\ Panic
     \/ \E i \in heap :
          LET top == areas[i].end IN
          IF top < e /\ ~RangeOK(top, e - top) THEN Panic
          ELSE /\ top < e => vmmap_is_range_empty(areas, top, e - top)  \* else -ENOMEM
               /\ areas' = [areas EXCEPT ![i].end = e]
               /\ left' = left \cup
                    {p \in e .. top - 1 : translation[p] # Unmapped}
               /\ UNCHANGED <<refs, translation, panic>>

(* A page fault on a mapped page; others kill the process.                 *)
Fault(p) ==
  LET a == vmmap_lookup(areas, p) IN
  /\ ~panic /\ translation[p] = Unmapped /\ a # Unmapped
  /\ translation' = [translation EXCEPT ![p] = <<a.obj, p - a.start + a.off>>]
  /\ UNCHANGED <<areas, refs, left, panic>>

SpaceNext ==
  \/ \E lo \in Pages, n \in 1 .. MaxPages :
       do_munmap(lo, n) \/ \E o \in mmobj : MmapAt(lo, n, o)
  \/ \E n \in 1 .. MaxPages, o \in mmobj : MmapAnywhere(n, o)
  \/ \E e \in Heap + 1 .. High + 1 : do_brk(e)
  \/ \E p \in Touched : Fault(p)

SpaceSpec == SpaceInit /\ [][SpaceNext]_spaceVars

-----------------------------------------------------------------------------
(* The list is sorted and its areas are disjoint, and every mapped object  *)
(* has one reference for each area that shows it, through splits, trims    *)
(* and replacements.                                                       *)
AreasOK ==
  /\ \A i, j \in DOMAIN areas : i < j => areas[i].end <= areas[j].start
  /\ \A i \in DOMAIN areas : areas[i].start < areas[i].end
  /\ \A o \in mmobj : refs[o] = Uses(areas, o)

(* What page p shows. *)
Shown(p) ==
  LET a == vmmap_lookup(areas, p)
  IN IF a = Unmapped THEN Unmapped ELSE <<a.obj, p - a.start + a.off>>

(* A translation leads where the areas say, except that do_brk drops none  *)
(* of the pages it gives up.                                               *)
TranslationsFollow ==
  \A p \in Pages \ left : translation[p] # Unmapped => translation[p] = Shown(p)

(* The areas, the references and the translations agree. *)
SpaceOK == AreasOK /\ TranslationsFollow

Space == INSTANCE AddressSpace WITH
           Obj <- mmobj, NONE <- Unmapped, mem <- [p \in Pages |-> Shown(p)]

(* The list of areas implements the map from pages to objects that the     *)
(* system calls promise, first fit from the top included: Space!Spec, said *)
(* with the variable the map is a function of.                             *)
ImplementsMap == Space!Init /\ [][areas' = areas \/ Space!Step]_areas
=============================================================================
