----------------------------- MODULE AllocProofs ----------------------------
(***************************************************************************)
(* Ranges of pages that are given out without overlap: the areas of an     *)
(* address space and the blocks of the page allocator, which share no      *)
(* state.                                                                  *)
(*                                                                         *)
(* First the list of areas (module Vmmap).  It stays sorted and disjoint,  *)
(* the references and the translations agree with it, and it implements    *)
(* the map from pages to objects of AddressSpace, for every range of       *)
(* pages, every set of objects and every size a call asks for.             *)
(*                                                                         *)
(* The argument: what a page shows depends only on which areas are in a    *)
(* sorted list, not on where they are (ShownBy, ShownByNone), so that it   *)
(* is enough to know the set of areas each operation leaves.  The loop of  *)
(* vmmap_remove is a recursive function; what it does is proved for the    *)
(* least length of its result for which it would fail (RemoveCuts).        *)
(*                                                                         *)
(* Then the page allocator with its slabs (module Heap), for any number of *)
(* pages, of orders and of slab allocators.                                *)
(*                                                                         *)
(* The argument: there is just one block of each order around a page       *)
(* (Around), so that blocks do not overlap and are all the pages when      *)
(* around each page just one block is free or in use (Tiled).  A block and *)
(* the buddies on the way up to a larger one are its parts, around each    *)
(* page just one (PartsAre); splitting puts the parts in the place of      *)
(* the block, joining the other way round, and the bits that flip are the  *)
(* ones on that way (FlipIs).  Sizes of blocks are a recursive function,   *)
(* and reclaiming folds over a set of slabs: both are proved by the least  *)
(* number for which they would fail.                                       *)
(***************************************************************************)
EXTENDS Vmmap, Heap, SeqLemmas, FiniteSetTheorems

(* The list is in order of addresses and no areas overlap. *)
Sorted(list) == \A i, j \in DOMAIN list : i < j => list[i].end <= list[j].start

Proper(list) == \A i \in DOMAIN list : list[i].start < list[i].end

Well(list) == list \in Seq(vmarea_t) /\ Sorted(list) /\ Proper(list)

IInv == VmmapAssumption /\ SpaceTypeOK /\ SpaceOK

-----------------------------------------------------------------------------
(* Areas as data.                                                          *)

LEMMA AreaFields ==
  ASSUME NEW a \in vmarea_t
  PROVE  /\ a.start \in Pages /\ a.end \in Low + 1 .. High
         /\ a.obj \in mmobj /\ a.off \in Nat
  BY DEF vmarea_t

(* The numbers of pages are natural numbers. *)
LEMMA AreaNumbers ==
  ASSUME VmmapAssumption, NEW a \in vmarea_t
  PROVE  /\ a.start \in Nat /\ a.end \in Nat /\ a.off \in Nat
         /\ Low <= a.start /\ a.start < High /\ Low < a.end /\ a.end <= High
  BY AreaFields DEF VmmapAssumption, Pages

LEMMA ListElements ==
  ASSUME NEW list \in Seq(vmarea_t)
  PROVE  /\ Len(list) \in Nat /\ DOMAIN list = 1 .. Len(list)
         /\ \A i \in DOMAIN list : list[i] \in vmarea_t
         /\ ToSet(list) \subseteq vmarea_t
         /\ \A a : a \in ToSet(list) <=> \E i \in DOMAIN list : list[i] = a
  BY LenProperties DEF ToSet

(* Two areas of a sorted list that have a page in common are the same. *)
LEMMA CoveredOnce ==
  ASSUME VmmapAssumption, NEW list, Well(list), NEW p \in Nat,
         NEW i \in DOMAIN list, NEW j \in DOMAIN list,
         Covers(list[i], p), Covers(list[j], p)
  PROVE  i = j
  <1>1. i \in Nat /\ j \in Nat /\ list[i] \in vmarea_t /\ list[j] \in vmarea_t
    BY ListElements DEF Well
  <1>2. /\ list[i].start \in Nat /\ list[i].end \in Nat
        /\ list[j].start \in Nat /\ list[j].end \in Nat
    BY <1>1, AreaNumbers
  <1>3. list[i].start <= p /\ p < list[i].end /\ list[j].start <= p /\ p < list[j].end
    BY DEF Covers
  <1>4. /\ i < j => list[i].end <= list[j].start
        /\ j < i => list[j].end <= list[i].start
    BY DEF Well, Sorted
  <1> QED
    BY <1>1, <1>2, <1>3, <1>4

(* vmmap_lookup finds the area that covers the page. *)
LEMMA LookupFinds ==
  ASSUME VmmapAssumption, NEW list, Well(list), NEW p \in Nat,
         NEW a \in ToSet(list), Covers(a, p)
  PROVE  vmmap_lookup(list, p) = a
  <1> DEFINE hits == {i \in DOMAIN list : Covers(list[i], p)}
  <1>1. PICK i \in DOMAIN list : list[i] = a
    BY DEF ToSet
  <1>2. i \in hits
    BY <1>1
  <1>3. hits \in SUBSET Nat
    BY ListElements DEF Well
  <1>4. Min(hits) \in hits
    BY <1>2, <1>3, MinIsElement
  <1>5. Min(hits) = i
    BY <1>1, <1>4, CoveredOnce
  <1> QED
    BY <1>1, <1>2, <1>5 DEF vmmap_lookup

LEMMA LookupFails ==
  ASSUME NEW list, NEW p, \A a \in ToSet(list) : ~Covers(a, p)
  PROVE  vmmap_lookup(list, p) = Unmapped
  <1>1. {i \in DOMAIN list : Covers(list[i], p)} = {}
    BY DEF ToSet
  <1> QED
    BY <1>1 DEF vmmap_lookup

(* What page p shows when the areas are those of list. *)
ShownIn(list, p) ==
  LET a == vmmap_lookup(list, p)
  IN IF a = Unmapped THEN Unmapped ELSE <<a.obj, p - a.start + a.off>>

Page(a, p) == <<a.obj, p - a.start + a.off>>

LEMMA ShownBy ==
  ASSUME VmmapAssumption, NEW list, Well(list), NEW p \in Nat,
         NEW a \in ToSet(list), Covers(a, p)
  PROVE  ShownIn(list, p) = Page(a, p) /\ ShownIn(list, p) # Unmapped
  <1>1. vmmap_lookup(list, p) = a
    BY LookupFinds
  <1>2. a \in vmarea_t
    BY ListElements DEF Well
  <1>3. a # Unmapped
    BY <1>2 DEF VmmapAssumption
  <1>4. p - a.start + a.off \in Nat
    BY <1>2, AreaNumbers DEF Covers
  <1>5. Page(a, p) \in mmobj \X Nat
    BY <1>2, <1>4, AreaFields DEF Page
  <1> QED
    BY <1>1, <1>3, <1>5 DEF ShownIn, Page, VmmapAssumption

LEMMA ShownByNone ==
  ASSUME NEW list, NEW p, \A a \in ToSet(list) : ~Covers(a, p)
  PROVE  ShownIn(list, p) = Unmapped
  BY LookupFails DEF ShownIn

(* A page that shows something is covered by an area. *)
LEMMA ShownCovered ==
  ASSUME NEW list, NEW p, ShownIn(list, p) # Unmapped
  PROVE  \E a \in ToSet(list) : Covers(a, p)
  BY ShownByNone

-----------------------------------------------------------------------------
(* Lists put together.                                                     *)

LEMMA ConcatWell ==
  ASSUME NEW s, Well(s), NEW t, Well(t),
         \A a \in ToSet(s), b \in ToSet(t) : a.end <= b.start
  PROVE  Well(s \o t) /\ ToSet(s \o t) = ToSet(s) \cup ToSet(t)
  <1> DEFINE c == s \o t
  <1>1. s \in Seq(vmarea_t) /\ t \in Seq(vmarea_t)
    BY DEF Well
  <1>2. /\ Len(s) \in Nat /\ DOMAIN s = 1 .. Len(s)
        /\ Len(t) \in Nat /\ DOMAIN t = 1 .. Len(t)
    BY <1>1, LenProperties
  <1>3. /\ c \in Seq(vmarea_t) /\ DOMAIN c = 1 .. Len(s) + Len(t)
        /\ \A i \in 1 .. Len(s) + Len(t) :
             c[i] = IF i <= Len(s) THEN s[i] ELSE t[i - Len(s)]
    BY <1>1, ConcatProperties, LenProperties
  <1>4. ToSet(c) = ToSet(s) \cup ToSet(t)
    BY <1>1, ConcatQueue
  <1> HIDE DEF c
  <1>5. \A i \in DOMAIN c :
          \/ i \in DOMAIN s /\ c[i] = s[i]
          \/ i - Len(s) \in DOMAIN t /\ c[i] = t[i - Len(s)] /\ i > Len(s)
    BY <1>2, <1>3
  <1>6. Proper(c)
    BY <1>5 DEF Well, Proper
  <1>7. Sorted(c)
    <2> SUFFICES ASSUME NEW i \in DOMAIN c, NEW j \in DOMAIN c, i < j
                 PROVE  c[i].end <= c[j].start
      BY DEF Sorted
    <2>0. i \in Nat /\ j \in Nat
      BY <1>2, <1>3
    <2>1. CASE i <= Len(s) /\ j <= Len(s)
      <3>1. i \in DOMAIN s /\ c[i] = s[i] /\ j \in DOMAIN s /\ c[j] = s[j]
        BY <2>0, <2>1, <1>5, <1>2
      <3> QED
        BY <3>1 DEF Well, Sorted
    <2>2. CASE i <= Len(s) /\ ~(j <= Len(s))
      <3>1. i \in DOMAIN s /\ c[i] = s[i]
        BY <2>0, <2>2, <1>5
      <3>2. j - Len(s) \in DOMAIN t /\ c[j] = t[j - Len(s)]
        BY <2>0, <2>2, <1>5, <1>2
      <3> QED
        BY <3>1, <3>2 DEF ToSet
    <2>3. CASE ~(i <= Len(s))
      <3>1. i - Len(s) \in DOMAIN t /\ c[i] = t[i - Len(s)]
        BY <2>0, <2>3, <1>5, <1>2
      <3>2. j - Len(s) \in DOMAIN t /\ c[j] = t[j - Len(s)]
        BY <2>0, <2>3, <1>5, <1>2
      <3>3. i - Len(s) < j - Len(s)
        BY <2>0, <1>2
      <3> QED
        BY <3>1, <3>2, <3>3 DEF Well, Sorted
    <2> QED
      BY <2>1, <2>2, <2>3
  <1> QED
    BY <1>3, <1>4, <1>6, <1>7 DEF Well, c

(* The empty list, a list of one area, and one of two. *)
LEMMA EmptyWell == Well(<<>>) /\ ToSet(<<>>) = {}
  BY EmptySeq, EmptyQueue DEF Well, Sorted, Proper

LEMMA SingleWell ==
  ASSUME NEW a \in vmarea_t, a.start < a.end
  PROVE  Well(<<a>>) /\ ToSet(<<a>>) = {a}
  <1>1. <<a>> \in Seq(vmarea_t) /\ DOMAIN <<a>> = {1} /\ <<a>>[1] = a
    OBVIOUS
  <1>2. ~(1 < 1)
    OBVIOUS
  <1>3. Sorted(<<a>>)
    BY <1>1, <1>2 DEF Sorted
  <1>4. Proper(<<a>>)
    BY <1>1 DEF Proper
  <1>5. ToSet(<<a>>) = {a}
    BY <1>1 DEF ToSet
  <1> QED
    BY <1>1, <1>3, <1>4, <1>5 DEF Well

(* How often an object is mapped, for lists put together. *)
LEMMA UsesConcat ==
  ASSUME NEW s \in Seq(vmarea_t), NEW t \in Seq(vmarea_t), NEW o
  PROVE  /\ Uses(s, o) \in Nat /\ Uses(t, o) \in Nat
         /\ Uses(s \o t, o) = Uses(s, o) + Uses(t, o)
  <1> DEFINE c == s \o t
             S == {i \in DOMAIN s : s[i].obj = o}
             T == {i \in DOMAIN t : t[i].obj = o}
             C == {i \in DOMAIN c : c[i].obj = o}
             f == [i \in T |-> i + Len(s)]
             R == {i + Len(s) : i \in T}
  <1>1. /\ Len(s) \in Nat /\ DOMAIN s = 1 .. Len(s)
        /\ Len(t) \in Nat /\ DOMAIN t = 1 .. Len(t)
    BY LenProperties
  <1>2. /\ DOMAIN c = 1 .. Len(s) + Len(t)
        /\ \A i \in 1 .. Len(s) + Len(t) :
             c[i] = IF i <= Len(s) THEN s[i] ELSE t[i - Len(s)]
    BY ConcatProperties, LenProperties
  <1> HIDE DEF c
  <1>3. S \in SUBSET (1 .. Len(s)) /\ T \in SUBSET (1 .. Len(t))
    BY <1>1
  <1>4. C = S \cup R
    <2>1. ASSUME NEW i \in C PROVE i \in S \cup R
      <3>1. CASE i <= Len(s)
        BY <3>1, <1>1, <1>2
      <3>2. CASE ~(i <= Len(s))
        <4>1. i - Len(s) \in DOMAIN t /\ c[i] = t[i - Len(s)]
          BY <3>2, <1>1, <1>2
        <4>2. i = (i - Len(s)) + Len(s)
          BY <1>1, <1>2
        <4> QED
          BY <4>1, <4>2
      <3> QED
        BY <3>1, <3>2
    <2>2. S \subseteq C
      BY <1>1, <1>2
    <2>3. ASSUME NEW i \in T PROVE i + Len(s) \in C
      <3>1. i + Len(s) \in 1 .. Len(s) + Len(t) /\ ~(i + Len(s) <= Len(s))
            /\ (i + Len(s)) - Len(s) = i
        BY <1>1
      <3> QED
        BY <3>1, <1>2
    <2> QED
      BY <2>1, <2>2, <2>3
  <1>5. S \cap R = {}
    BY <1>1
  <1>6. f \in Bijection(T, R)
    <2>1. f \in [T -> R]
      OBVIOUS
    <2>2. \A i, j \in T : f[i] = f[j] => i = j
      BY <1>1
    <2>3. \A r \in R : \E i \in T : f[i] = r
      OBVIOUS
    <2> HIDE DEF f, T, R
    <2> QED
      BY <2>1, <2>2, <2>3 DEF Bijection, Injection, Surjection, IsInjective
  <1> HIDE DEF S, T, C, f, R
  <1>7. /\ IsFiniteSet(S) /\ Cardinality(S) \in Nat
        /\ IsFiniteSet(T) /\ Cardinality(T) \in Nat
    <2>1. IsFiniteSet(1 .. Len(s)) /\ IsFiniteSet(1 .. Len(t))
      BY <1>1, FS_Interval
    <2> QED
      BY <2>1, <1>3, FS_Subset, FS_CardinalityType
  <1>8. IsFiniteSet(R) /\ Cardinality(R) = Cardinality(T)
    <2>1. ExistsBijection(T, R)
      BY <1>6 DEF ExistsBijection
    <2> QED
      BY <2>1, <1>7, FS_Bijection
  <1>9. Cardinality(C) = Cardinality(S) + Cardinality(T)
    <2>1. Cardinality(S \cup R)
            = Cardinality(S) + Cardinality(R) - Cardinality(S \cap R)
      BY <1>7, <1>8, FS_Union
    <2>2. Cardinality(S \cap R) = 0
      BY <1>5, FS_EmptySet
    <2> QED
      BY <2>1, <2>2, <1>4, <1>7, <1>8
  <1> QED
    BY <1>7, <1>9 DEF Uses, S, T, C, c

LEMMA UsesSmall ==
  ASSUME NEW o
  PROVE  /\ Uses(<<>>, o) = 0
         /\ \A a : Uses(<<a>>, o) = IF a.obj = o THEN 1 ELSE 0
  <1>1. {i \in DOMAIN <<>> : <<>>[i].obj = o} = {}
    OBVIOUS
  <1>2. ASSUME NEW a
        PROVE  {i \in DOMAIN <<a>> : <<a>>[i].obj = o} = IF a.obj = o THEN {1} ELSE {}
    <2>1. DOMAIN <<a>> = {1} /\ <<a>>[1] = a
      OBVIOUS
    <2> QED
      BY <2>1
  <1> QED
    BY <1>1, <1>2, FS_EmptySet, FS_Singleton DEF Uses

-----------------------------------------------------------------------------
(* vmmap_remove.                                                           *)

Outside(p, lo, hi) == p < lo \/ hi <= p

(* q is what is left of area a. *)
LeftOf(q, a, lo, hi) ==
  /\ Well(q) /\ Len(q) \in 0 .. 2
  /\ \A b \in ToSet(q) : b.obj = a.obj /\ a.start <= b.start /\ b.end <= a.end
  /\ \A b \in ToSet(q) : \A p \in Nat :
       Covers(b, p) => Covers(a, p) /\ Outside(p, lo, hi) /\ Page(b, p) = Page(a, p)
  /\ \A p \in Nat :
       Covers(a, p) /\ Outside(p, lo, hi) => \E b \in ToSet(q) : Covers(b, p)
  /\ \A o : Uses(q, o) = IF a.obj = o THEN Len(q) ELSE 0

LEMMA PiecesLeft ==
  ASSUME VmmapAssumption, NEW a \in vmarea_t, a.start < a.end,
         NEW lo \in Pages, NEW hi \in Nat, lo < hi, hi <= High
  PROVE  LeftOf(Pieces(a, lo, hi), a, lo, hi)
  <1> DEFINE off == a.off + (hi - a.start)
             front == [a EXCEPT !.end = lo]
             rest == [a EXCEPT !.start = hi, !.off = off]
             q == Pieces(a, lo, hi)
  <1>1. /\ a.start \in Nat /\ a.end \in Nat /\ a.off \in Nat
        /\ Low <= a.start /\ a.start < High /\ Low < a.end /\ a.end <= High
        /\ a.obj \in mmobj
    BY AreaNumbers, AreaFields
  <1>2. lo \in Nat /\ Low <= lo /\ lo < High /\ Low \in Nat /\ High \in Nat /\ hi \in Nat
    BY DEF VmmapAssumption, Pages
  <1>3. ASSUME a.start < lo
        PROVE  /\ front \in vmarea_t /\ front.start = a.start /\ front.end = lo
               /\ front.obj = a.obj /\ front.off = a.off
    <2>1. lo \in Low + 1 .. High
      BY <1>1, <1>2, <1>3
    <2> QED
      BY <2>1 DEF vmarea_t
  <1>4. ASSUME hi < a.end, a.start < hi
        PROVE  /\ rest \in vmarea_t /\ rest.start = hi /\ rest.end = a.end
               /\ rest.obj = a.obj /\ rest.off = off
    <2>1. hi \in Pages /\ off \in Nat
      BY <1>1, <1>2, <1>4 DEF Pages
    <2> HIDE DEF off
    <2> QED
      BY <2>1 DEF vmarea_t
  <1>5. q = IF a.start >= hi \/ a.end <= lo THEN <<a>>
            ELSE IF a.start < lo /\ a.end > hi THEN <<front, rest>>
            ELSE IF a.start < lo THEN <<front>>
            ELSE IF a.end > hi THEN <<rest>>
            ELSE <<>>
    BY DEF Pieces, Cut
  <1>6. ASSUME a.start < lo, NEW p \in Nat
        PROVE  Covers(front, p) <=> (a.start <= p /\ p < lo)
    BY <1>3, <1>6 DEF Covers
  <1>7. ASSUME hi < a.end, a.start < hi, NEW p \in Nat
        PROVE  Covers(rest, p) <=> (hi <= p /\ p < a.end)
    BY <1>4, <1>7 DEF Covers
  <1>8. ASSUME a.start < lo, NEW p \in Nat PROVE Page(front, p) = Page(a, p)
    BY <1>3, <1>8 DEF Page
  <1>9. ASSUME hi < a.end, a.start < hi, NEW p \in Nat PROVE Page(rest, p) = Page(a, p)
    <2>1. p - rest.start + rest.off = p - a.start + a.off
      BY <1>1, <1>4, <1>9
    <2> QED
      BY <2>1, <1>4, <1>9 DEF Page
  <1> HIDE DEF front, rest, q
  <1>10. CASE a.start >= hi \/ a.end <= lo
    <2>1. q = <<a>>
      BY <1>5, <1>10
    <2>2. Well(q) /\ ToSet(q) = {a} /\ Len(q) = 1
      BY <2>1, SingleWell
    <2>3. \A p \in Nat : Covers(a, p) => Outside(p, lo, hi)
      BY <1>1, <1>2, <1>10 DEF Covers, Outside
    <2>4. \A o : Uses(q, o) = IF a.obj = o THEN 1 ELSE 0
      BY <2>1, UsesSmall
    <2>5. a.start <= a.start /\ a.end <= a.end
      BY <1>1
    <2> QED
      BY <2>2, <2>3, <2>4, <2>5 DEF LeftOf, q
  <1>11. CASE a.start < lo /\ a.end > hi
    <2>1. q = <<front, rest>> /\ q = <<front>> \o <<rest>> /\ Len(q) = 2
      <3>1. ~(a.start >= hi \/ a.end <= lo)
        BY <1>1, <1>2, <1>11
      <3> QED
        BY <3>1, <1>5, <1>11
    <2>2. hi < a.end /\ a.start < hi /\ a.start < lo
      BY <1>1, <1>2, <1>11
    <2>3. Well(<<front>>) /\ ToSet(<<front>>) = {front}
      BY <2>2, <1>3, SingleWell
    <2>4. Well(<<rest>>) /\ ToSet(<<rest>>) = {rest}
      BY <2>2, <1>4, SingleWell
    <2>5. Well(q) /\ ToSet(q) = {front, rest}
      <3>1. front.end <= rest.start
        BY <2>2, <1>2, <1>3, <1>4
      <3>2. \A x \in ToSet(<<front>>), y \in ToSet(<<rest>>) : x.end <= y.start
        BY <3>1, <2>3, <2>4
      <3>3. /\ Well(<<front>> \o <<rest>>)
            /\ ToSet(<<front>> \o <<rest>>) = ToSet(<<front>>) \cup ToSet(<<rest>>)
        BY <3>2, <2>3, <2>4, ConcatWell
      <3>4. {front} \cup {rest} = {front, rest}
        OBVIOUS
      <3> QED
        BY <3>3, <3>4, <2>1, <2>3, <2>4
    <2>6. ASSUME NEW o PROVE Uses(q, o) = IF a.obj = o THEN 2 ELSE 0
      <3>1. Uses(q, o) = Uses(<<front>>, o) + Uses(<<rest>>, o)
        BY <2>1, <2>3, <2>4, UsesConcat DEF Well
      <3>2. Uses(<<front>>, o) = (IF a.obj = o THEN 1 ELSE 0)
            /\ Uses(<<rest>>, o) = (IF a.obj = o THEN 1 ELSE 0)
        BY ZenonT(40), <2>2, <1>3, <1>4, UsesSmall
      <3> QED
        BY <3>1, <3>2
    <2>7. \A b \in ToSet(q) : b.obj = a.obj /\ a.start <= b.start /\ b.end <= a.end
      BY <2>2, <2>5, <1>1, <1>2, <1>3, <1>4
    <2>8. ASSUME NEW b \in ToSet(q), NEW p \in Nat, Covers(b, p)
          PROVE  Covers(a, p) /\ Outside(p, lo, hi) /\ Page(b, p) = Page(a, p)
      <3>1. CASE b = front
        <4>1. a.start <= p /\ p < lo
          BY <3>1, <2>8, <2>2, <1>6
        <4> QED
          BY <4>1, <3>1, <2>2, <1>8, <1>1, <1>2 DEF Covers, Outside
      <3>2. CASE b = rest
        <4>1. hi <= p /\ p < a.end
          BY <3>2, <2>8, <2>2, <1>7
        <4> QED
          BY <4>1, <3>2, <2>2, <1>9, <1>1, <1>2 DEF Covers, Outside
      <3> QED
        BY <3>1, <3>2, <2>5
    <2>9. ASSUME NEW p \in Nat, Covers(a, p), Outside(p, lo, hi)
          PROVE  \E b \in ToSet(q) : Covers(b, p)
      BY <2>2, <2>5, <2>9, <1>6, <1>7 DEF Covers, Outside
    <2> QED
      BY <2>1, <2>5, <2>6, <2>7, <2>8, <2>9 DEF LeftOf, q
  <1>12. CASE a.start < lo /\ ~(a.end > hi) /\ ~(a.end <= lo)
    <2>1. q = <<front>>
      <3>1. ~(a.start >= hi \/ a.end <= lo)
        BY <1>1, <1>2, <1>12
      <3> QED
        BY <3>1, <1>5, <1>12
    <2>2. Well(q) /\ ToSet(q) = {front} /\ Len(q) = 1
      BY <2>1, <1>12, <1>3, SingleWell
    <2>3. \A o : Uses(q, o) = IF a.obj = o THEN 1 ELSE 0
      BY <2>1, <1>3, <1>12, UsesSmall
    <2>4. \A b \in ToSet(q) : b.obj = a.obj /\ a.start <= b.start /\ b.end <= a.end
      BY <2>2, <1>1, <1>2, <1>3, <1>12
    <2>5. ASSUME NEW b \in ToSet(q), NEW p \in Nat, Covers(b, p)
          PROVE  Covers(a, p) /\ Outside(p, lo, hi) /\ Page(b, p) = Page(a, p)
      <3>1. a.start <= p /\ p < lo /\ b = front
        BY <2>5, <2>2, <1>6, <1>12
      <3> QED
        BY <3>1, <1>8, <1>1, <1>2, <1>12 DEF Covers, Outside
    <2>6. ASSUME NEW p \in Nat, Covers(a, p), Outside(p, lo, hi)
          PROVE  \E b \in ToSet(q) : Covers(b, p)
      <3>1. a.start <= p /\ p < lo
        BY <2>6, <1>1, <1>2, <1>12 DEF Covers, Outside
      <3> QED
        BY <3>1, <2>2, <1>6, <1>12
    <2> QED
      BY <2>2, <2>3, <2>4, <2>5, <2>6 DEF LeftOf, q
  <1>13. CASE ~(a.start < lo) /\ a.end > hi /\ ~(a.start >= hi)
    <2>1. q = <<rest>>
      <3>1. ~(a.start >= hi \/ a.end <= lo)
        BY <1>1, <1>2, <1>13
      <3> QED
        BY <3>1, <1>5, <1>13
    <2>2. hi < a.end /\ a.start < hi
      BY <1>1, <1>13
    <2>3. Well(q) /\ ToSet(q) = {rest} /\ Len(q) = 1
      BY <2>1, <2>2, <1>4, SingleWell
    <2>4. \A o : Uses(q, o) = IF a.obj = o THEN 1 ELSE 0
      BY <2>1, <2>2, <1>4, UsesSmall
    <2>5. \A b \in ToSet(q) : b.obj = a.obj /\ a.start <= b.start /\ b.end <= a.end
      BY <2>2, <2>3, <1>1, <1>4
    <2>6. ASSUME NEW b \in ToSet(q), NEW p \in Nat, Covers(b, p)
          PROVE  Covers(a, p) /\ Outside(p, lo, hi) /\ Page(b, p) = Page(a, p)
      <3>1. hi <= p /\ p < a.end /\ b = rest
        BY <2>6, <2>2, <2>3, <1>7
      <3> QED
        BY <3>1, <2>2, <1>9, <1>1 DEF Covers, Outside
    <2>7. ASSUME NEW p \in Nat, Covers(a, p), Outside(p, lo, hi)
          PROVE  \E b \in ToSet(q) : Covers(b, p)
      <3>1. hi <= p /\ p < a.end
        BY <2>7, <1>1, <1>2, <1>13 DEF Covers, Outside
      <3> QED
        BY <3>1, <2>2, <2>3, <1>7
    <2> QED
      BY <2>3, <2>4, <2>5, <2>6, <2>7 DEF LeftOf, q
  <1>14. CASE ~(a.start < lo) /\ ~(a.end > hi)
    <2>1. CASE a.start >= hi \/ a.end <= lo
      BY <2>1, <1>10
    <2>2. CASE ~(a.start >= hi \/ a.end <= lo)
      <3>1. q = <<>>
        BY <2>2, <1>5, <1>14
      <3>2. Well(q) /\ ToSet(q) = {} /\ Len(q) = 0
        BY <3>1, EmptyWell
      <3>3. \A o : Uses(q, o) = 0
        BY <3>1, UsesSmall
      <3>4. \A p \in Nat : ~(Covers(a, p) /\ Outside(p, lo, hi))
        BY <1>1, <1>2, <1>14 DEF Covers, Outside
      <3> QED
        BY <3>2, <3>3, <3>4 DEF LeftOf, q
    <2> QED
      BY <2>1, <2>2
  <1> QED
    BY <1>10, <1>11, <1>12, <1>13, <1>14

(* The list r is what is left of list without the pages lo .. hi - 1. *)
Taken(r, list, lo, hi) ==
  /\ Well(r)
  /\ \A b \in ToSet(r) : \E a \in ToSet(list) : \A p \in Nat :
       Covers(b, p) => Covers(a, p) /\ Outside(p, lo, hi) /\ Page(b, p) = Page(a, p)
  /\ \A a \in ToSet(list), p \in Nat :
       Covers(a, p) /\ Outside(p, lo, hi) => \E b \in ToSet(r) : Covers(b, p)

(* The areas of object o up to the k-th that leave c pieces. *)
Leaving(list, lo, hi, k, o, c) ==
  {i \in DOMAIN list : i <= k /\ list[i].obj = o /\ Len(Pieces(list[i], lo, hi)) = c}

Mapping(list, k, o) == {i \in DOMAIN list : i <= k /\ list[i].obj = o}

(* The pieces add up: those of the areas up to the k-th. *)
AddUp(u, list, lo, hi, k, o) ==
  u + Cardinality(Leaving(list, lo, hi, k, o, 0))
    = Cardinality(Mapping(list, k, o)) + Cardinality(Leaving(list, lo, hi, k, o, 2))

LEMMA PartsCounted ==
  ASSUME NEW list \in Seq(vmarea_t), NEW lo, NEW hi, NEW k \in Nat, NEW o, NEW c
  PROVE  /\ IsFiniteSet(Leaving(list, lo, hi, k, o, c)) /\ IsFiniteSet(Mapping(list, k, o))
         /\ Cardinality(Leaving(list, lo, hi, k, o, c)) \in Nat
         /\ Cardinality(Mapping(list, k, o)) \in Nat
  <1>1. Len(list) \in Nat /\ DOMAIN list = 1 .. Len(list)
    BY LenProperties
  <1>2. /\ Leaving(list, lo, hi, k, o, c) \in SUBSET (1 .. Len(list))
        /\ Mapping(list, k, o) \in SUBSET (1 .. Len(list))
    BY <1>1 DEF Leaving, Mapping
  <1>3. IsFiniteSet(1 .. Len(list))
    BY <1>1, FS_Interval
  <1> QED
    BY <1>2, <1>3, FS_Subset, FS_CardinalityType

(* The next area adds itself to the counts. *)
LEMMA CountNext ==
  ASSUME NEW list \in Seq(vmarea_t), NEW lo, NEW hi, NEW k \in Nat,
         k + 1 \in DOMAIN list, NEW o, NEW c
  PROVE  /\ Cardinality(Mapping(list, k + 1, o)) = Cardinality(Mapping(list, k, o))
              + (IF list[k + 1].obj = o THEN 1 ELSE 0)
         /\ Cardinality(Leaving(list, lo, hi, k + 1, o, c))
              = Cardinality(Leaving(list, lo, hi, k, o, c))
              + (IF list[k + 1].obj = o /\ Len(Pieces(list[k + 1], lo, hi)) = c
                 THEN 1 ELSE 0)
  <1> DEFINE M(j) == Mapping(list, j, o)
             L(j) == Leaving(list, lo, hi, j, o, c)
  <1>1. \A i \in DOMAIN list : i \in Nat
    BY LenProperties
  <1>2. \A i \in DOMAIN list : i <= k + 1 <=> i <= k \/ i = k + 1
    BY <1>1
  <1>3. ~(k + 1 <= k)
    OBVIOUS
  <1>4. k + 1 \notin M(k) /\ k + 1 \notin L(k)
    BY <1>3 DEF Mapping, Leaving
  <1>5. M(k + 1) = IF list[k + 1].obj = o THEN M(k) \cup {k + 1} ELSE M(k)
    BY <1>2 DEF Mapping
  <1>6. L(k + 1) = IF list[k + 1].obj = o /\ Len(Pieces(list[k + 1], lo, hi)) = c
                   THEN L(k) \cup {k + 1} ELSE L(k)
    BY <1>2 DEF Leaving
  <1>7. /\ IsFiniteSet(M(k)) /\ IsFiniteSet(L(k))
        /\ Cardinality(M(k)) \in Nat /\ Cardinality(L(k)) \in Nat
    BY PartsCounted
  <1> HIDE DEF M, L
  <1>8. /\ Cardinality(M(k) \cup {k + 1}) = Cardinality(M(k)) + 1
        /\ Cardinality(L(k) \cup {k + 1}) = Cardinality(L(k)) + 1
    BY <1>4, <1>7, FS_AddElement
  <1>9. Cardinality(M(k + 1)) = Cardinality(M(k)) + (IF list[k + 1].obj = o THEN 1 ELSE 0)
    BY <1>5, <1>7, <1>8
  <1>10. Cardinality(L(k + 1)) = Cardinality(L(k))
           + (IF list[k + 1].obj = o /\ Len(Pieces(list[k + 1], lo, hi)) = c
              THEN 1 ELSE 0)
    BY <1>6, <1>7, <1>8
  <1> QED
    BY <1>9, <1>10 DEF M, L

(* One more area: what is left of it goes behind what is left of those     *)
(* before.                                                                 *)
Prefix(r, list, lo, hi, k) ==
  /\ Well(r)
  /\ \A b : b \in ToSet(r) <=>
       \E j \in DOMAIN list : j <= k /\ b \in ToSet(Pieces(list[j], lo, hi))
  /\ \A o : AddUp(Uses(r, o), list, lo, hi, k, o)

LEMMA PrefixNext ==
  ASSUME NEW list, Well(list), NEW lo, NEW hi,
         \A i \in DOMAIN list : LeftOf(Pieces(list[i], lo, hi), list[i], lo, hi),
         VmmapAssumption,
         NEW k \in Nat, k + 1 \in DOMAIN list, NEW r, Prefix(r, list, lo, hi, k)
  PROVE  Prefix(r \o Pieces(list[k + 1], lo, hi), list, lo, hi, k + 1)
  <1> DEFINE q == Pieces(list[k + 1], lo, hi)
  <1>1. list \in Seq(vmarea_t) /\ \A i \in DOMAIN list : i \in Nat
    BY ListElements DEF Well
  <1>2. LeftOf(q, list[k + 1], lo, hi)
    OBVIOUS
  <1>3. Well(q) /\ Well(r)
    BY <1>2 DEF LeftOf, Prefix
  <1>4. ASSUME NEW x \in ToSet(r), NEW y \in ToSet(q) PROVE x.end <= y.start
    <2>1. PICK j \in DOMAIN list : j <= k /\ x \in ToSet(Pieces(list[j], lo, hi))
      BY DEF Prefix
    <2>2. x.end <= list[j].end
      BY <2>1 DEF LeftOf
    <2>3. list[k + 1].start <= y.start
      BY <1>2 DEF LeftOf
    <2>4. list[j].end <= list[k + 1].start
      <3>1. j < k + 1
        BY <2>1, <1>1
      <3> QED
        BY <3>1 DEF Well, Sorted
    <2>5. x \in vmarea_t /\ y \in vmarea_t /\ list[j] \in vmarea_t /\ list[k + 1] \in vmarea_t
      BY <1>1, <1>3, ListElements DEF Well
    <2>6. x.end \in Nat /\ list[j].end \in Nat /\ list[k + 1].start \in Nat /\ y.start \in Nat
      BY <2>5, AreaNumbers
    <2> QED
      BY <2>2, <2>3, <2>4, <2>6
  <1>5. Well(r \o q) /\ ToSet(r \o q) = ToSet(r) \cup ToSet(q)
    BY <1>3, <1>4, ConcatWell
  <1>6. ASSUME NEW b
        PROVE  b \in ToSet(r \o q) <=>
                 \E j \in DOMAIN list : j <= k + 1 /\ b \in ToSet(Pieces(list[j], lo, hi))
    <2>1. \A i \in DOMAIN list : i <= k + 1 <=> i <= k \/ i = k + 1
      BY <1>1
    <2> QED
      BY <2>1, <1>5 DEF Prefix
  <1>7. ASSUME NEW o PROVE AddUp(Uses(r \o q, o), list, lo, hi, k + 1, o)
    <2>1. Uses(r \o q, o) = Uses(r, o) + Uses(q, o) /\ Uses(r, o) \in Nat
      BY <1>3, UsesConcat DEF Well
    <2>2. Uses(q, o) = (IF list[k + 1].obj = o THEN Len(q) ELSE 0) /\ Len(q) \in 0 .. 2
      BY <1>2 DEF LeftOf
    <2>3. AddUp(Uses(r, o), list, lo, hi, k, o)
      BY DEF Prefix
    <2> DEFINE m(j) == Cardinality(Mapping(list, j, o))
               n(j) == Cardinality(Leaving(list, lo, hi, j, o, 0))
               t(j) == Cardinality(Leaving(list, lo, hi, j, o, 2))
    <2>4. /\ m(k + 1) = m(k) + (IF list[k + 1].obj = o THEN 1 ELSE 0)
          /\ n(k + 1) = n(k) + (IF list[k + 1].obj = o /\ Len(q) = 0 THEN 1 ELSE 0)
          /\ t(k + 1) = t(k) + (IF list[k + 1].obj = o /\ Len(q) = 2 THEN 1 ELSE 0)
      <3>1. ASSUME NEW c
            PROVE  /\ Cardinality(Mapping(list, k + 1, o))
                        = Cardinality(Mapping(list, k, o))
                        + (IF list[k + 1].obj = o THEN 1 ELSE 0)
                   /\ Cardinality(Leaving(list, lo, hi, k + 1, o, c))
                        = Cardinality(Leaving(list, lo, hi, k, o, c))
                        + (IF list[k + 1].obj = o /\ Len(q) = c THEN 1 ELSE 0)
        BY <1>1, CountNext
      <3> QED
        BY <3>1
    <2>5. m(k) \in Nat /\ n(k) \in Nat /\ t(k) \in Nat
      BY <1>1, PartsCounted
    <2>6. Uses(r, o) + n(k) = m(k) + t(k)
      BY <2>3 DEF AddUp
    <2> HIDE DEF m, n, t, q
    <2>7. Uses(r \o q, o) + n(k + 1) = m(k + 1) + t(k + 1)
      <3>1. CASE list[k + 1].obj = o
        <4>1. \/ Len(q) = 0
              \/ Len(q) = 1
              \/ Len(q) = 2
          BY <2>2
        <4>2. CASE Len(q) = 0
          BY <3>1, <4>2, <2>1, <2>2, <2>4, <2>5, <2>6
        <4>3. CASE Len(q) = 1
          BY <3>1, <4>3, <2>1, <2>2, <2>4, <2>5, <2>6
        <4>4. CASE Len(q) = 2
          BY <3>1, <4>4, <2>1, <2>2, <2>4, <2>5, <2>6
        <4> QED
          BY <4>1, <4>2, <4>3, <4>4
      <3>2. CASE list[k + 1].obj # o
        BY <3>2, <2>1, <2>2, <2>4, <2>5, <2>6
      <3> QED
        BY <3>1, <3>2
    <2> QED
      BY <2>7 DEF AddUp, m, n, t
  <1> QED
    BY <1>5, <1>6, <1>7 DEF Prefix

LEMMA RemoveCuts ==
  ASSUME VmmapAssumption, NEW list, Well(list),
         NEW lo \in Pages, NEW n \in Nat, n # 0, lo + n <= High
  PROVE  Prefix(vmmap_remove(list, lo, n), list, lo, lo + n, Len(list))
  <1> DEFINE hi == lo + n
             seqs == [i \in DOMAIN list |-> Pieces(list[i], lo, hi)]
  <1>1. /\ list \in Seq(vmarea_t) /\ Len(list) \in Nat /\ DOMAIN list = 1 .. Len(list)
        /\ \A i \in DOMAIN list : list[i] \in vmarea_t
    BY ListElements DEF Well
  <1>2. lo \in Nat /\ hi \in Nat /\ lo < hi /\ hi <= High
    BY DEF Pages, VmmapAssumption
  <1>3. vmmap_remove(list, lo, n) = FlattenSeq(seqs)
    BY DEF vmmap_remove
  <1> HIDE DEF hi
  <1>4. \A i \in DOMAIN list : LeftOf(Pieces(list[i], lo, hi), list[i], lo, hi)
    BY <1>1, <1>2, PiecesLeft DEF Well, Proper
  <1>5. seqs \in Seq(Seq(vmarea_t)) /\ Len(seqs) = Len(list)
    <2>1. \A i \in 1 .. Len(list) : Pieces(list[i], lo, hi) \in Seq(vmarea_t)
      BY <1>1, <1>4 DEF LeftOf, Well
    <2> DEFINE s == [i \in 1 .. Len(list) |-> Pieces(list[i], lo, hi)]
    <2>2. s \in [1 .. Len(list) -> Seq(vmarea_t)] /\ seqs = s
      BY <1>1, <2>1
    <2> HIDE DEF s, seqs
    <2> QED
      BY <1>1, <2>2
  <1>6. \A i \in DOMAIN list : seqs[i] = Pieces(list[i], lo, hi)
    OBVIOUS
  <1> HIDE DEF seqs
  <1>7. Prefix(<<>>, list, lo, hi, 0)
    <2>1. \A i \in DOMAIN list : ~(i <= 0)
      BY <1>1
    <2>2. \A b : b \in ToSet(<<>>) <=>
            \E j \in DOMAIN list : j <= 0 /\ b \in ToSet(Pieces(list[j], lo, hi))
      BY <2>1, EmptyWell
    <2>3. ASSUME NEW o PROVE AddUp(Uses(<<>>, o), list, lo, hi, 0, o)
      <3>1. /\ Mapping(list, 0, o) = {} /\ Leaving(list, lo, hi, 0, o, 0) = {}
            /\ Leaving(list, lo, hi, 0, o, 2) = {}
        BY <2>1 DEF Mapping, Leaving
      <3> QED
        BY <3>1, UsesSmall, FS_EmptySet DEF AddUp
    <2> QED
      BY <2>2, <2>3, EmptyWell DEF Prefix
  <1>8. CASE list = <<>>
    <2>1. Len(list) = 0
      BY <1>8
    <2>2. Len(seqs) = 0
      BY <1>5, <2>1
    <2>3. FlattenSeq(seqs) = seqs
      BY <2>2 DEF FlattenSeq
    <2>4. seqs = <<>>
      BY <1>5, <2>2, EmptySeq
    <2> QED
      BY <1>3, <1>7, <2>1, <2>3, <2>4 DEF hi
  <1>9. CASE list # <<>>
    <2>1. Len(list) # 0
      BY <1>1, <1>9, EmptySeq
    <2>2. seqs # <<>>
      BY <1>5, <2>1, EmptySeq
    <2>3. PICK f \in [1 .. Len(list) -> Seq(vmarea_t)] :
            /\ f[1] = seqs[1]
            /\ \A i \in 1 .. Len(list) : i # 1 => f[i] = f[i - 1] \o seqs[i]
            /\ FlattenSeq(seqs) = f[Len(list)]
      <3>1. seqs \in Seq(Seq(vmarea_t))
        BY <1>5
      <3>2. \E f \in [1 .. Len(seqs) -> Seq(vmarea_t)] :
              /\ f[1] = seqs[1]
              /\ \A i \in 1 .. Len(seqs) : i # 1 => f[i] = f[i - 1] \o seqs[i]
              /\ FlattenSeq(seqs) = f[Len(seqs)]
        BY <3>1, <2>2, FlattenIsConcat, Zenon
      <3> QED
        BY <3>2, <1>5, Zenon
    <2> DEFINE Bad == {k \in 1 .. Len(list) : ~ Prefix(f[k], list, lo, hi, k)}
    <2>4. ASSUME Bad # {} PROVE FALSE
      <3>1. Bad \in SUBSET Nat
        BY <1>1
      <3>2. PICK m \in Bad : \A k \in Bad : m <= k
        <4> HIDE DEF Bad
        <4> QED
          BY <2>4, <3>1, LeastNumber
      <3>3. m \in 1 .. Len(list) /\ ~ Prefix(f[m], list, lo, hi, m)
        OBVIOUS
      <3>4. CASE m = 1
        <4>1. 0 + 1 = 1 /\ 1 \in DOMAIN list /\ 0 \in Nat
          BY <3>3, <3>4, <1>1
        <4>2. Prefix(<<>> \o Pieces(list[1], lo, hi), list, lo, hi, 1)
          BY <4>1, <1>4, <1>7, PrefixNext
        <4>3. <<>> \o Pieces(list[1], lo, hi) = f[1]
          <5>1. f[1] \in Seq(vmarea_t) /\ f[1] = Pieces(list[1], lo, hi)
            BY <4>1, <1>1, <1>6, <2>3
          <5> QED
            BY <5>1, ConcatEmptySeq
        <4> QED
          BY <4>2, <4>3, <3>3, <3>4
      <3>5. CASE m # 1
        <4>1. m - 1 \in 1 .. Len(list) /\ ~(m <= m - 1) /\ m - 1 \in Nat
              /\ (m - 1) + 1 = m /\ m \in DOMAIN list
          BY <3>3, <3>5, <1>1
        <4>2. Prefix(f[m - 1], list, lo, hi, m - 1)
          BY <4>1, <3>2
        <4> DEFINE k == m - 1
        <4>3. k \in Nat /\ k + 1 = m /\ Prefix(f[k], list, lo, hi, k)
          BY <4>1, <4>2
        <4> HIDE DEF k
        <4>4. Prefix(f[k] \o Pieces(list[k + 1], lo, hi), list, lo, hi, k + 1)
          BY <4>1, <4>3, <1>4, PrefixNext
        <4>5. f[m] = f[k] \o Pieces(list[m], lo, hi)
          BY <4>1, <2>3, <3>3, <3>5, <1>6 DEF k
        <4> QED
          BY <4>3, <4>4, <4>5, <3>3
      <3> QED
        BY <3>4, <3>5
    <2>5. Len(list) \in 1 .. Len(list)
      BY <1>1, <2>1
    <2>6. Prefix(f[Len(list)], list, lo, hi, Len(list))
      BY <2>4, <2>5
    <2> QED
      BY <2>3, <2>6, <1>3 DEF hi
  <1> QED
    BY <1>8, <1>9

(* What vmmap_remove leaves. *)
LEMMA RemoveTakes ==
  ASSUME VmmapAssumption, NEW list, Well(list),
         NEW lo \in Pages, NEW n \in Nat, n # 0, lo + n <= High
  PROVE  Taken(vmmap_remove(list, lo, n), list, lo, lo + n)
  <1> DEFINE hi == lo + n
             r == vmmap_remove(list, lo, n)
  <1>1. Prefix(r, list, lo, hi, Len(list))
    BY RemoveCuts
  <1>2. /\ Len(list) \in Nat /\ DOMAIN list = 1 .. Len(list)
        /\ \A i \in DOMAIN list : list[i] \in vmarea_t /\ list[i].start < list[i].end
    BY ListElements DEF Well, Proper
  <1>3. lo \in Nat /\ hi \in Nat /\ lo < hi /\ hi <= High
    BY DEF Pages, VmmapAssumption
  <1> HIDE DEF r, hi
  <1>4. \A i \in DOMAIN list : LeftOf(Pieces(list[i], lo, hi), list[i], lo, hi)
    BY <1>2, <1>3, PiecesLeft
  <1>5. \A b : b \in ToSet(r) <=>
          \E j \in DOMAIN list : b \in ToSet(Pieces(list[j], lo, hi))
    BY <1>1, <1>2 DEF Prefix
  <1>6. ASSUME NEW b \in ToSet(r)
        PROVE  \E a \in ToSet(list) : \A p \in Nat :
                 Covers(b, p) =>
                   Covers(a, p) /\ Outside(p, lo, hi) /\ Page(b, p) = Page(a, p)
    <2>1. PICK j \in DOMAIN list : b \in ToSet(Pieces(list[j], lo, hi))
      BY <1>5
    <2>2. list[j] \in ToSet(list)
      BY DEF ToSet
    <2>3. \A p \in Nat :
            Covers(b, p) =>
              Covers(list[j], p) /\ Outside(p, lo, hi) /\ Page(b, p) = Page(list[j], p)
      BY <2>1, <1>4 DEF LeftOf
    <2> QED
      BY <2>2, <2>3
  <1>7. ASSUME NEW a \in ToSet(list), NEW p \in Nat, Covers(a, p), Outside(p, lo, hi)
        PROVE  \E b \in ToSet(r) : Covers(b, p)
    <2>1. PICK j \in DOMAIN list : list[j] = a
      BY DEF ToSet
    <2>2. \E b \in ToSet(Pieces(list[j], lo, hi)) : Covers(b, p)
      BY <2>1, <1>4, <1>7 DEF LeftOf
    <2> QED
      BY <2>2, <1>5
  <1>8. Taken(r, list, lo, hi)
    BY <1>1, <1>6, <1>7 DEF Taken, Prefix
  <1> QED
    BY <1>8 DEF r, hi

(* A page outside the range shows what it did, one inside shows nothing. *)
LEMMA TakenShows ==
  ASSUME VmmapAssumption, NEW list, Well(list), NEW r, NEW lo, NEW hi,
         Taken(r, list, lo, hi), NEW p \in Nat
  PROVE  ShownIn(r, p) = IF Outside(p, lo, hi) THEN ShownIn(list, p) ELSE Unmapped
  <1>1. CASE \E b \in ToSet(r) : Covers(b, p)
    <2>1. PICK b \in ToSet(r) : Covers(b, p)
      BY <1>1
    <2>2. PICK a \in ToSet(list) :
            Covers(a, p) /\ Outside(p, lo, hi) /\ Page(b, p) = Page(a, p)
      BY <2>1 DEF Taken
    <2>3. ShownIn(r, p) = Page(b, p)
      BY <2>1, ShownBy DEF Taken
    <2>4. ShownIn(list, p) = Page(a, p)
      BY <2>2, ShownBy
    <2> QED
      BY <2>2, <2>3, <2>4
  <1>2. CASE \A b \in ToSet(r) : ~Covers(b, p)
    <2>1. ShownIn(r, p) = Unmapped
      BY <1>2, ShownByNone
    <2>2. ASSUME Outside(p, lo, hi) PROVE ShownIn(list, p) = Unmapped
      <3>1. \A a \in ToSet(list) : ~Covers(a, p)
        BY <1>2, <2>2 DEF Taken
      <3> QED
        BY <3>1, ShownByNone
    <2> QED
      BY <2>1, <2>2
  <1> QED
    BY <1>1, <1>2

-----------------------------------------------------------------------------
(* vmmap_insert.                                                           *)

(* A part of a list is a list of its own. *)
LEMMA PartWell ==
  ASSUME NEW list, Well(list), NEW m \in Nat \ {0}, NEW k \in Nat,
         k <= Len(list)
  PROVE  /\ Well(SubSeq(list, m, k))
         /\ \A a : a \in ToSet(SubSeq(list, m, k)) <=> \E i \in m .. k : a = list[i]
  <1> DEFINE s == SubSeq(list, m, k)
  <1>1. /\ list \in Seq(vmarea_t) /\ Len(list) \in Nat /\ DOMAIN list = 1 .. Len(list)
        /\ \A i \in DOMAIN list : list[i] \in vmarea_t
    BY ListElements DEF Well
  <1>2. m \in Int /\ k \in Int /\ \A i \in m .. k : i \in DOMAIN list /\ list[i] \in vmarea_t
    BY <1>1
  <1>3. /\ s \in Seq(vmarea_t)
        /\ Len(s) = IF m <= k THEN k - m + 1 ELSE 0
        /\ \A i \in 1 .. k - m + 1 : s[i] = list[m + i - 1]
    BY <1>2, SubSeqProperties
  <1>4. DOMAIN s = 1 .. Len(s)
    BY <1>3, LenProperties
  <1> HIDE DEF s
  <1>5. DOMAIN s = 1 .. k - m + 1
    BY <1>3, <1>4
  <1>6. \A i \in DOMAIN s : /\ i \in Nat /\ m + i - 1 \in m .. k
                            /\ m + i - 1 \in DOMAIN list /\ s[i] = list[m + i - 1]
    BY <1>2, <1>3, <1>5
  <1>7. Proper(s)
    BY <1>6 DEF Well, Proper
  <1>8. Sorted(s)
    <2> SUFFICES ASSUME NEW i \in DOMAIN s, NEW j \in DOMAIN s, i < j
                 PROVE  s[i].end <= s[j].start
      BY DEF Sorted
    <2>1. m + i - 1 < m + j - 1
      BY <1>6
    <2> QED
      BY <2>1, <1>6 DEF Well, Sorted
  <1>9. ASSUME NEW i \in m .. k PROVE list[i] \in ToSet(s)
    <2>1. i - m + 1 \in DOMAIN s /\ m + (i - m + 1) - 1 = i
      BY <1>5
    <2>2. s[i - m + 1] = list[i]
      BY <2>1, <1>6
    <2> QED
      BY <2>1, <2>2 DEF ToSet
  <1>10. \A a : a \in ToSet(s) <=> \E i \in m .. k : a = list[i]
    BY <1>6, <1>9 DEF ToSet
  <1> QED
    BY <1>3, <1>7, <1>8, <1>10 DEF Well, s

LEMMA InsertPlaces ==
  ASSUME VmmapAssumption, NEW list, Well(list), NEW a \in vmarea_t, a.start < a.end,
         \A b \in ToSet(list) : b.start >= a.end \/ b.end <= a.start
  PROVE  /\ Well(vmmap_insert(list, a))
         /\ ToSet(vmmap_insert(list, a)) = ToSet(list) \cup {a}
         /\ \A o : Uses(vmmap_insert(list, a), o)
                     = Uses(list, o) + (IF a.obj = o THEN 1 ELSE 0)
  <1> DEFINE later == {i \in DOMAIN list : list[i].start > a.start}
             at == IF later = {} THEN Len(list) + 1
                   ELSE CHOOSE i \in later : \A j \in later : i <= j
             front == SubSeq(list, 1, at - 1)
             back == SubSeq(list, at, Len(list))
  <1>1. /\ list \in Seq(vmarea_t) /\ Len(list) \in Nat /\ DOMAIN list = 1 .. Len(list)
        /\ \A i \in DOMAIN list : list[i] \in vmarea_t /\ list[i] \in ToSet(list)
    BY ListElements DEF Well
  <1>2. \A i \in DOMAIN list :
          /\ i \in Nat /\ list[i].start \in Nat /\ list[i].end \in Nat
          /\ list[i].start < list[i].end
    BY <1>1, AreaNumbers DEF Well, Proper
  <1>3. a.start \in Nat /\ a.end \in Nat
    BY AreaNumbers
  <1>4. later # {} => at \in later /\ \A j \in later : at <= j
    <2>1. later \in SUBSET Nat
      BY <1>1
    <2> HIDE DEF later
    <2>2. later # {} => \E i \in later : \A j \in later : i <= j
      BY <2>1, LeastNumber
    <2> QED
      BY <2>2
  <1>5. later = {} => at = Len(list) + 1
    OBVIOUS
  <1>6. at \in 1 .. Len(list) + 1 /\ \A j \in DOMAIN list : j < at => j \notin later
    <2>1. CASE later = {}
      BY <2>1, <1>1, <1>5
    <2>2. CASE later # {}
      <3>1. at \in DOMAIN list /\ \A j \in later : at <= j
        BY <2>2, <1>4
      <3> HIDE DEF at, later
      <3> QED
        BY <3>1, <1>1
    <2> QED
      BY <2>1, <2>2
  <1>7. vmmap_insert(list, a) = (front \o <<a>>) \o back
    BY DEF vmmap_insert, InsertAt
  <1> HIDE DEF at
  <1>8. at \in Nat \ {0} /\ at - 1 \in Nat /\ at - 1 <= Len(list)
    BY <1>1, <1>6
  <1>9. Well(front) /\ \A x : x \in ToSet(front) <=> \E i \in 1 .. at - 1 : x = list[i]
    BY <1>8, PartWell
  <1>10. Well(back) /\ \A x : x \in ToSet(back) <=> \E i \in at .. Len(list) : x = list[i]
    <2>1. Len(list) \in Nat /\ Len(list) <= Len(list)
      BY <1>1
    <2> QED
      BY <2>1, <1>8, PartWell
  <1>11. front \o back = list
    <2>1. 1 \in 1 .. Len(list) + 1 /\ at - 1 \in 1 - 1 .. Len(list)
          /\ Len(list) \in at - 1 .. Len(list) /\ (at - 1) + 1 = at
      BY <1>1, <1>6
    <2>2. SubSeq(list, 1, at - 1) \o SubSeq(list, (at - 1) + 1, Len(list))
            = SubSeq(list, 1, Len(list))
      BY <2>1, <1>1, ConcatAdjacentSubSeq
    <2> QED
      BY <2>1, <2>2, <1>1, SubSeqFull
  <1>12. ASSUME NEW x \in ToSet(front) PROVE x.end <= a.start
    <2>1. PICK i \in 1 .. at - 1 : x = list[i]
      BY <1>9
    <2>2. i \in DOMAIN list /\ i < at
      BY <1>1, <1>6
    <2>3. ~(list[i].start > a.start)
      BY <2>2, <1>6
    <2>4. list[i].start >= a.end \/ list[i].end <= a.start
      BY <2>2, <1>1
    <2> QED
      BY <2>1, <2>2, <2>3, <2>4, <1>2, <1>3
  <1>13. ASSUME NEW y \in ToSet(back) PROVE a.end <= y.start
    <2>1. PICK j \in at .. Len(list) : y = list[j]
      BY <1>10
    <2>2. j \in DOMAIN list /\ at \in DOMAIN list /\ at <= j
      BY <1>1, <1>6
    <2>3. list[at].start > a.start
      <3>1. later # {}
        BY <1>5, <2>2, <1>1
      <3> QED
        BY <3>1, <1>4
    <2>4. list[at].start <= list[j].start
      <3>1. CASE at = j
        BY <3>1, <2>2, <1>2
      <3>2. CASE at # j
        <4>1. at < j
          BY <3>2, <2>2, <1>2
        <4>2. list[at].end <= list[j].start
          BY <4>1, <2>2 DEF Well, Sorted
        <4> QED
          BY <4>2, <2>2, <1>2
      <3> QED
        BY <3>1, <3>2
    <2>5. list[j].start >= a.end \/ list[j].end <= a.start
      BY <2>2, <1>1
    <2> QED
      BY <2>1, <2>2, <2>3, <2>4, <2>5, <1>2, <1>3
  <1> HIDE DEF front, back, later
  <1>14. Well(<<a>>) /\ ToSet(<<a>>) = {a}
    BY SingleWell
  <1>15. Well(front \o <<a>>) /\ ToSet(front \o <<a>>) = ToSet(front) \cup {a}
    <2>1. \A x \in ToSet(front), y \in ToSet(<<a>>) : x.end <= y.start
      BY <1>12, <1>14
    <2>2. /\ Well(front \o <<a>>)
          /\ ToSet(front \o <<a>>) = ToSet(front) \cup ToSet(<<a>>)
      BY <2>1, <1>9, <1>14, ConcatWell
    <2> QED
      BY <2>2, <1>14
  <1>16. ASSUME NEW x \in ToSet(front) \cup {a}, NEW y \in ToSet(back)
         PROVE  x.end <= y.start
    <2>1. /\ y \in vmarea_t /\ a.end <= y.start /\ y.start \in Nat
      <3>1. y \in vmarea_t
        BY <1>10, ListElements DEF Well
      <3> QED
        BY <3>1, <1>13, AreaNumbers
    <2>2. CASE x = a
      BY <2>1, <2>2
    <2>3. CASE x \in ToSet(front)
      <3>1. x \in vmarea_t
        BY <2>3, <1>9, ListElements DEF Well
      <3>2. x.end \in Nat /\ x.end <= a.start
        BY <2>3, <3>1, <1>12, AreaNumbers
      <3> QED
        BY <3>2, <2>1, <1>3
    <2> QED
      BY <2>2, <2>3
  <1>17. /\ Well((front \o <<a>>) \o back)
         /\ ToSet((front \o <<a>>) \o back) = (ToSet(front) \cup {a}) \cup ToSet(back)
    BY <1>10, <1>15, <1>16, ConcatWell
  <1>18. ToSet(list) = ToSet(front) \cup ToSet(back)
    BY ZenonT(40), <1>9, <1>10, <1>11, ConcatQueue DEF Well
  <1>19. ASSUME NEW o
         PROVE  Uses((front \o <<a>>) \o back, o)
                  = Uses(list, o) + (IF a.obj = o THEN 1 ELSE 0)
    <2>1. Uses(list, o) = Uses(front, o) + Uses(back, o)
          /\ Uses(front, o) \in Nat /\ Uses(back, o) \in Nat
      BY <1>9, <1>10, <1>11, UsesConcat DEF Well
    <2>2. Uses(front \o <<a>>, o) = Uses(front, o) + Uses(<<a>>, o)
      BY <1>9, <1>14, UsesConcat DEF Well
    <2>3. Uses((front \o <<a>>) \o back, o) = Uses(front \o <<a>>, o) + Uses(back, o)
      BY <1>10, <1>15, UsesConcat DEF Well
    <2>4. Uses(<<a>>, o) = IF a.obj = o THEN 1 ELSE 0
      BY UsesSmall
    <2> QED
      BY <2>1, <2>2, <2>3, <2>4
  <1> QED
    BY <1>7, <1>17, <1>18, <1>19

(* The new area is shown, and the others as before. *)
LEMMA InsertShows ==
  ASSUME VmmapAssumption, NEW list, Well(list), NEW a \in vmarea_t,
         NEW r, Well(r), ToSet(r) = ToSet(list) \cup {a}, NEW p \in Nat
  PROVE  ShownIn(r, p) = IF Covers(a, p) THEN Page(a, p) ELSE ShownIn(list, p)
  <1>1. CASE Covers(a, p)
    BY <1>1, ShownBy
  <1>2. CASE ~Covers(a, p) /\ \E b \in ToSet(list) : Covers(b, p)
    <2>1. PICK b \in ToSet(list) : Covers(b, p)
      BY <1>2
    <2>2. ShownIn(list, p) = Page(b, p)
      BY <2>1, ShownBy
    <2>3. ShownIn(r, p) = Page(b, p)
      BY <2>1, ShownBy
    <2> QED
      BY <2>2, <2>3, <1>2
  <1>3. CASE ~Covers(a, p) /\ ~ \E b \in ToSet(list) : Covers(b, p)
    <2>1. ShownIn(list, p) = Unmapped
      BY <1>3, ShownByNone
    <2>2. ShownIn(r, p) = Unmapped
      BY <1>3, ShownByNone
    <2> QED
      BY <2>1, <2>2, <1>3
  <1> QED
    BY <1>1, <1>2, <1>3

-----------------------------------------------------------------------------
(* The invariant.                                                          *)

LEMMA AreasWell ==
  SpaceTypeOK /\ SpaceOK <=>
    /\ Well(areas) /\ refs \in [mmobj -> Nat] /\ \A o \in mmobj : refs[o] = Uses(areas, o)
    /\ translation \in [Pages -> (mmobj \X Nat) \cup {Unmapped}] /\ left \subseteq Pages
    /\ panic \in BOOLEAN /\ TranslationsFollow
  BY DEF SpaceTypeOK, SpaceOK, AreasOK, Well, Sorted, Proper

LEMMA ShownIsIn == \A p : Shown(p) = ShownIn(areas, p)
  BY DEF Shown, ShownIn

LEMMA InitStep ==
  VmmapAssumption /\ SpaceInit => IInv
  <1> SUFFICES ASSUME VmmapAssumption, SpaceInit PROVE IInv
    OBVIOUS
  <1>1. Well(areas)
    BY EmptyWell DEF SpaceInit
  <1>2. refs \in [mmobj -> Nat] /\ \A o \in mmobj : refs[o] = Uses(areas, o)
    BY UsesSmall DEF SpaceInit
  <1>3. /\ translation \in [Pages -> (mmobj \X Nat) \cup {Unmapped}] /\ left \subseteq Pages
        /\ panic \in BOOLEAN
    BY DEF SpaceInit
  <1>4. TranslationsFollow
    BY DEF SpaceInit, TranslationsFollow
  <1> QED
    BY <1>1, <1>2, <1>3, <1>4, AreasWell DEF IInv

(* The pages of a call are pages of user memory. *)
LEMMA PagesOf ==
  ASSUME VmmapAssumption
  PROVE  /\ Pages \subseteq Nat /\ Low \in Nat /\ High \in Nat /\ Heap \in Nat
         /\ MaxPages \in Nat /\ Heap \in Pages
         /\ \A lo \in Nat, n \in Nat, p \in Pages :
              p \in lo .. lo + n - 1 <=> ~Outside(p, lo, lo + n)
  BY DEF VmmapAssumption, Pages, Outside

(* pt_unmap_range keeps the translations in step with areas that show the  *)
(* same outside the range.                                                 *)
LEMMA UnmapFollows ==
  ASSUME IInv, NEW lo \in Nat, NEW n \in Nat, Untranslate(lo, n),
         Well(areas'), UNCHANGED panic,
         refs' \in [mmobj -> Nat], \A o \in mmobj : refs'[o] = Uses(areas', o),
         \A p \in Pages :
           Outside(p, lo, lo + n) => ShownIn(areas', p) = ShownIn(areas, p)
  PROVE  IInv'
  <1>1. \A p \in Pages : p \in lo .. lo + n - 1 <=> ~Outside(p, lo, lo + n)
    BY PagesOf DEF IInv
  <1> DEFINE R == lo .. lo + n - 1
  <1>2. translation' = [p \in Pages |-> IF p \in R THEN Unmapped ELSE translation[p]] /\ left' = left \ R
    BY DEF Untranslate
  <1> HIDE DEF R
  <1>3. translation \in [Pages -> (mmobj \X Nat) \cup {Unmapped}] /\ left \subseteq Pages /\ panic \in BOOLEAN
    BY DEF IInv, SpaceTypeOK
  <1>4. /\ translation' \in [Pages -> (mmobj \X Nat) \cup {Unmapped}] /\ left' \subseteq Pages
        /\ panic' \in BOOLEAN
    BY <1>2, <1>3
  <1>5. ASSUME NEW p \in Pages \ left', translation'[p] # Unmapped PROVE translation'[p] = ShownIn(areas', p)
    <2>1. p \notin R /\ translation'[p] = translation[p] /\ p \notin left
      BY <1>2, <1>5
    <2>2. Outside(p, lo, lo + n)
      BY <2>1, <1>1 DEF R
    <2>3. translation[p] = ShownIn(areas, p)
      BY <2>1, <1>5, ShownIsIn DEF IInv, SpaceOK, TranslationsFollow
    <2> QED
      BY <2>1, <2>2, <2>3
  <1>6. TranslationsFollow'
    <2>1. \A p : Shown(p)' = ShownIn(areas', p)
      BY DEF Shown, ShownIn
    <2> QED
      BY <1>5, <2>1 DEF TranslationsFollow
  <1>7. (SpaceTypeOK /\ SpaceOK)'
    BY <1>4, <1>6 DEF SpaceTypeOK, SpaceOK, AreasOK, Well, Sorted, Proper
  <1> QED
    BY <1>7 DEF IInv, VmmapAssumption

-----------------------------------------------------------------------------
(* One operation after the other: what the list, the references and the    *)
(* pages shown are afterwards.                                             *)

LEMMA RemovedCounts ==
  ASSUME IInv, NEW lo \in Pages, NEW n \in Nat, n # 0, lo + n <= High
  PROVE  /\ Removed(lo, n) \in [mmobj -> Nat]
         /\ \A o \in mmobj : Removed(lo, n)[o] = Uses(vmmap_remove(areas, lo, n), o)
  <1> DEFINE r == vmmap_remove(areas, lo, n)
             L == Len(areas)
             gone(o) == Leaving(areas, lo, lo + n, L, o, 0)
             split(o) == Leaving(areas, lo, lo + n, L, o, 2)
  <1>1. VmmapAssumption /\ Well(areas) /\ areas \in Seq(vmarea_t)
    BY AreasWell DEF IInv, Well
  <1>2. Prefix(r, areas, lo, lo + n, L)
    BY <1>1, RemoveCuts
  <1>3. L \in Nat /\ DOMAIN areas = 1 .. L
    BY <1>1, LenProperties
  <1>4. \A i \in DOMAIN areas : i <= L
    BY <1>3
  <1>5. ASSUME NEW o \in mmobj
        PROVE  Removed(lo, n)[o]
                 = refs[o] + Cardinality(split(o)) - Cardinality(gone(o))
    <2>1. \A c : {i \in DOMAIN areas :
                    areas[i].obj = o /\ Len(Pieces(areas[i], lo, lo + n)) = c}
                 = Leaving(areas, lo, lo + n, L, o, c)
      BY <1>4 DEF Leaving
    <2> QED
      BY <2>1 DEF Removed
  <1>6. ASSUME NEW o \in mmobj PROVE refs[o] = Cardinality(Mapping(areas, L, o))
    <2>1. {i \in DOMAIN areas : areas[i].obj = o} = Mapping(areas, L, o)
      BY <1>4 DEF Mapping
    <2> QED
      BY <2>1 DEF IInv, SpaceOK, AreasOK, Uses
  <1>7. ASSUME NEW o \in mmobj
        PROVE  Removed(lo, n)[o] = Uses(r, o) /\ Uses(r, o) \in Nat
    <2>1. Uses(r, o) \in Nat
      BY <1>2, UsesConcat DEF Prefix, Well
    <2>2. /\ Cardinality(gone(o)) \in Nat /\ Cardinality(split(o)) \in Nat
          /\ Cardinality(Mapping(areas, L, o)) \in Nat
      BY <1>1, <1>3, PartsCounted
    <2>3. Uses(r, o) + Cardinality(gone(o))
            = Cardinality(Mapping(areas, L, o)) + Cardinality(split(o))
      BY <1>2 DEF Prefix, AddUp
    <2> HIDE DEF gone, split, r, L
    <2> QED
      BY <2>1, <2>2, <2>3, <1>5, <1>6
  <1>8. Removed(lo, n) = [o \in mmobj |-> Removed(lo, n)[o]]
    BY DEF Removed
  <1> QED
    BY <1>7, <1>8

(* do_munmap. *)
LEMMA MunmapStep ==
  ASSUME IInv, NEW lo \in Pages, NEW n \in 1 .. MaxPages, do_munmap(lo, n)
  PROVE  /\ IInv'
         /\ lo + n <= High
         /\ \A p \in Pages :
              ShownIn(areas', p) =
                IF p \in lo .. lo + n - 1 THEN Unmapped ELSE ShownIn(areas, p)
  <1>1. VmmapAssumption /\ Well(areas)
    BY AreasWell DEF IInv
  <1>2. n \in Nat /\ n # 0 /\ lo + n <= High /\ lo \in Nat
    BY <1>1, PagesOf DEF do_munmap
  <1>3. areas' = vmmap_remove(areas, lo, n)
    BY DEF do_munmap
  <1>4. Taken(areas', areas, lo, lo + n)
    BY <1>1, <1>2, <1>3, RemoveTakes
  <1>5. Well(areas')
    BY <1>4 DEF Taken
  <1>6. \A p \in Nat :
          ShownIn(areas', p) = IF Outside(p, lo, lo + n) THEN ShownIn(areas, p) ELSE Unmapped
    BY <1>1, <1>4, TakenShows
  <1>7. refs' \in [mmobj -> Nat] /\ \A o \in mmobj : refs'[o] = Uses(areas', o)
    BY <1>2, <1>3, RemovedCounts DEF do_munmap
  <1>8. IInv'
    <2>1. Untranslate(lo, n) /\ UNCHANGED panic
      BY DEF do_munmap
    <2>2. \A p \in Pages :
            Outside(p, lo, lo + n) => ShownIn(areas', p) = ShownIn(areas, p)
      BY <1>1, <1>6, PagesOf
    <2> QED
      BY <2>1, <2>2, <1>2, <1>5, <1>7, UnmapFollows
  <1> QED
    BY <1>1, <1>2, <1>6, <1>8, PagesOf

(* The new area. *)
LEMMA NewAreaIs ==
  ASSUME VmmapAssumption, NEW lo \in Pages, NEW n \in Nat, n # 0, lo + n <= High,
         NEW o \in mmobj
  PROVE  /\ NewArea(lo, n, o) \in vmarea_t
         /\ NewArea(lo, n, o).start = lo /\ NewArea(lo, n, o).end = lo + n
         /\ NewArea(lo, n, o).obj = o
         /\ \A p \in Pages :
              /\ Covers(NewArea(lo, n, o), p) <=> p \in lo .. lo + n - 1
              /\ Page(NewArea(lo, n, o), p) = <<o, p - lo>>
  <1> DEFINE a == NewArea(lo, n, o)
  <1>1. lo \in Nat /\ Low <= lo /\ Low \in Nat /\ High \in Nat
    BY PagesOf DEF Pages
  <1>2. lo + n \in Low + 1 .. High
    BY <1>1
  <1>3. /\ a \in vmarea_t /\ a.start = lo /\ a.end = lo + n /\ a.obj = o /\ a.off = 0
    BY <1>2 DEF NewArea, vmarea_t
  <1> HIDE DEF a
  <1>4. ASSUME NEW p \in Pages
        PROVE  /\ Covers(a, p) <=> p \in lo .. lo + n - 1
               /\ Page(a, p) = <<o, p - lo>>
    <2>1. p \in Nat
      BY PagesOf
    <2>2. p - a.start + a.off = p - lo
      BY <2>1, <1>1, <1>3
    <2> QED
      BY <2>1, <2>2, <1>1, <1>3 DEF Covers, Page
  <1> QED
    BY <1>3, <1>4 DEF a

LEMMA TakenApart ==
  ASSUME VmmapAssumption, NEW list, NEW r, NEW lo \in Nat, NEW hi \in Nat, lo < hi,
         Taken(r, list, lo, hi), NEW b \in ToSet(r)
  PROVE  b.start >= hi \/ b.end <= lo
  <1>1. b \in vmarea_t /\ b.start < b.end
    <2>1. PICK i \in DOMAIN r : r[i] = b
      BY DEF ToSet
    <2> QED
      BY <2>1, ListElements DEF Taken, Well, Proper
  <1>2. b.start \in Nat /\ b.end \in Nat
    BY <1>1, AreaNumbers
  <1>3. \A p \in Nat : Covers(b, p) => Outside(p, lo, hi)
    BY DEF Taken
  <1>4. Covers(b, b.start)
    BY <1>1, <1>2 DEF Covers
  <1>5. b.start < lo \/ hi <= b.start
    BY <1>2, <1>3, <1>4 DEF Outside
  <1>6. ~Covers(b, lo)
    BY <1>3 DEF Outside
  <1> QED
    BY <1>2, <1>5, <1>6 DEF Covers

(* do_mmap at an address. *)
LEMMA MmapAtStep ==
  ASSUME IInv, NEW lo \in Pages, NEW n \in 1 .. MaxPages, NEW o \in mmobj,
         MmapAt(lo, n, o), lo + n <= High
  PROVE  /\ IInv'
         /\ \A p \in Pages :
              ShownIn(areas', p) =
                IF p \in lo .. lo + n - 1 THEN <<o, p - lo>> ELSE ShownIn(areas, p)
  <1> DEFINE r == vmmap_remove(areas, lo, n)
             a == NewArea(lo, n, o)
             hi == lo + n
  <1>1. VmmapAssumption /\ Well(areas)
    BY AreasWell DEF IInv
  <1>2. /\ n \in Nat /\ n # 0 /\ lo \in Nat /\ hi \in Nat /\ lo < hi
        /\ High \in Nat /\ ~(lo + n > High)
    BY <1>1, PagesOf
  <1>3. /\ areas' = vmmap_insert(r, a) /\ refs' = [Removed(lo, n) EXCEPT ![o] = @ + 1]
        /\ Untranslate(lo, n) /\ UNCHANGED panic
    BY <1>2 DEF MmapAt
  <1>4. Taken(r, areas, lo, hi)
    BY <1>1, <1>2, RemoveTakes
  <1>5. /\ a \in vmarea_t /\ a.start = lo /\ a.end = hi /\ a.obj = o
        /\ \A p \in Pages : /\ Covers(a, p) <=> p \in lo .. lo + n - 1
                            /\ Page(a, p) = <<o, p - lo>>
    BY <1>1, <1>2, NewAreaIs
  <1>6. Removed(lo, n) \in [mmobj -> Nat] /\ \A x \in mmobj : Removed(lo, n)[x] = Uses(r, x)
    BY <1>2, RemovedCounts
  <1> HIDE DEF r, a, hi
  <1>7. Well(r)
    BY <1>4 DEF Taken
  <1>8. \A b \in ToSet(r) : b.start >= a.end \/ b.end <= a.start
    BY <1>1, <1>2, <1>4, <1>5, TakenApart
  <1>9. /\ Well(areas') /\ ToSet(areas') = ToSet(r) \cup {a}
        /\ \A x : Uses(areas', x) = Uses(r, x) + (IF o = x THEN 1 ELSE 0)
    BY <1>1, <1>2, <1>3, <1>5, <1>7, <1>8, InsertPlaces
  <1>10. refs' \in [mmobj -> Nat] /\ \A x \in mmobj : refs'[x] = Uses(areas', x)
    <2>1. refs' \in [mmobj -> Nat]
      BY <1>3, <1>6
    <2>2. ASSUME NEW x \in mmobj PROVE refs'[x] = Uses(areas', x)
      <3>1. Removed(lo, n)[x] \in Nat
        BY <1>6
      <3>2. refs'[x] = IF x = o THEN Removed(lo, n)[o] + 1 ELSE Removed(lo, n)[x]
        BY <1>3, <1>6
      <3> QED
        BY <3>1, <3>2, <1>6, <1>9
    <2> QED
      BY <2>1, <2>2
  <1>11. ASSUME NEW p \in Pages
         PROVE  ShownIn(areas', p) = IF p \in lo .. lo + n - 1 THEN <<o, p - lo>>
                                     ELSE ShownIn(areas, p)
    <2>1. p \in Nat /\ (p \in lo .. lo + n - 1 <=> ~Outside(p, lo, hi))
      BY <1>1, <1>2, PagesOf DEF hi
    <2>2. ShownIn(areas', p) = IF Covers(a, p) THEN Page(a, p) ELSE ShownIn(r, p)
      BY <2>1, <1>1, <1>5, <1>7, <1>9, InsertShows
    <2>3. ShownIn(r, p) = IF Outside(p, lo, hi) THEN ShownIn(areas, p) ELSE Unmapped
      BY <2>1, <1>1, <1>4, TakenShows
    <2>4. Covers(a, p) <=> p \in lo .. lo + n - 1
      BY <1>5
    <2>5. Page(a, p) = <<o, p - lo>>
      BY <1>5
    <2> QED
      BY <2>1, <2>2, <2>3, <2>4, <2>5
  <1>12. \A p \in Pages :
           Outside(p, lo, lo + n) => ShownIn(areas', p) = ShownIn(areas, p)
    BY <1>1, <1>2, <1>11, PagesOf
  <1>13. IInv'
    BY <1>2, <1>3, <1>9, <1>10, <1>12, UnmapFollows
  <1> QED
    BY <1>11, <1>13

-----------------------------------------------------------------------------
(* vmmap_find_range.                                                       *)

Empty(list, lo, hi) == \A b \in ToSet(list) : b.start >= hi \/ b.end <= lo

LEMMA EmptyIsEmpty ==
  ASSUME NEW list, NEW lo, NEW n
  PROVE  vmmap_is_range_empty(list, lo, n) <=> Empty(list, lo, lo + n)
  BY DEF vmmap_is_range_empty, Empty, ToSet

(* A range is empty just when none of its pages shows anything. *)
LEMMA EmptyIsVacant ==
  ASSUME VmmapAssumption, NEW list, Well(list),
         NEW lo \in Nat, NEW hi \in Nat, lo < hi
  PROVE  /\ Empty(list, lo, hi) =>
              \A p \in Nat : lo <= p /\ p < hi => ShownIn(list, p) = Unmapped
         /\ (\A p \in Nat : lo <= p /\ p < hi => ShownIn(list, p) = Unmapped) =>
              Empty(list, lo, hi)
  <1>1. \A b \in ToSet(list) : b \in vmarea_t /\ b.start < b.end
    BY ListElements DEF Well, Proper, ToSet
  <1>2. \A b \in ToSet(list) : b.start \in Nat /\ b.end \in Nat /\ b.start < b.end
    BY <1>1, AreaNumbers
  <1>3. ASSUME Empty(list, lo, hi), NEW p \in Nat, lo <= p, p < hi
        PROVE  ShownIn(list, p) = Unmapped
    <2>1. \A b \in ToSet(list) : ~Covers(b, p)
      BY <1>2, <1>3 DEF Empty, Covers
    <2> QED
      BY <2>1, ShownByNone
  <1>4. ASSUME \A p \in Nat : lo <= p /\ p < hi => ShownIn(list, p) = Unmapped,
               NEW b \in ToSet(list), ~(b.start >= hi \/ b.end <= lo)
        PROVE  FALSE
    <2>0. b.start \in Nat /\ b.end \in Nat /\ b.start < b.end
      BY <1>2
    <2>1. CASE b.start >= lo
      <3>1. Covers(b, b.start) /\ b.start \in Nat /\ lo <= b.start /\ b.start < hi
        BY <2>0, <2>1, <1>4 DEF Covers
      <3> QED
        BY <3>1, <1>4, ShownBy
    <2>2. CASE ~(b.start >= lo)
      <3>1. Covers(b, lo) /\ lo <= lo
        BY <2>0, <2>2, <1>4 DEF Covers
      <3> QED
        BY <3>1, <1>4, ShownBy
    <2> QED
      BY <2>1, <2>2
  <1> QED
    BY <1>3, <1>4 DEF Empty

(* The last area ends highest. *)
LEMMA LastEndsHighest ==
  ASSUME VmmapAssumption, NEW list, Well(list), list # <<>>
  PROVE  Last(list) \in ToSet(list) /\ \A b \in ToSet(list) : b.end <= Last(list).end
  <1>1. /\ list \in Seq(vmarea_t) /\ Len(list) \in Nat /\ DOMAIN list = 1 .. Len(list)
        /\ \A i \in DOMAIN list : list[i] \in vmarea_t
    BY ListElements DEF Well
  <1>2. Len(list) \in DOMAIN list
    BY <1>1, EmptySeq
  <1>3. Last(list) = list[Len(list)]
    BY DEF Last
  <1>4. \A i \in DOMAIN list : /\ list[i].start \in Nat /\ list[i].end \in Nat
                               /\ list[i].start < list[i].end
    BY <1>1, AreaNumbers DEF Well, Proper
  <1>5. ASSUME NEW i \in DOMAIN list PROVE list[i].end <= list[Len(list)].end
    <2>1. CASE i = Len(list)
      BY <2>1, <1>4
    <2>2. CASE i # Len(list)
      <3>1. i < Len(list)
        BY <2>2, <1>1
      <3>2. list[i].end <= list[Len(list)].start
        BY <3>1, <1>2 DEF Well, Sorted
      <3> QED
        BY <3>2, <1>2, <1>4
    <2> QED
      BY <2>1, <2>2
  <1> QED
    BY <1>2, <1>3, <1>5 DEF ToSet

LEMMA StartsInOrder ==
  ASSUME VmmapAssumption, NEW list, Well(list),
         NEW i \in DOMAIN list, NEW j \in DOMAIN list, i <= j
  PROVE  list[i].start <= list[j].start
  <1>1. /\ i \in Nat /\ j \in Nat /\ list[i] \in vmarea_t /\ list[j] \in vmarea_t
        /\ list[i].start < list[i].end
    BY ListElements DEF Well, Proper
  <1>2. list[i].start \in Nat /\ list[i].end \in Nat /\ list[j].start \in Nat
    BY <1>1, AreaNumbers
  <1>3. CASE i = j
    BY <1>2, <1>3
  <1>4. CASE i # j
    <2>1. i < j
      BY <1>1, <1>4
    <2>2. list[i].end <= list[j].start
      BY <2>1 DEF Well, Sorted
    <2> QED
      BY <2>2, <1>1, <1>2
  <1> QED
    BY <1>3, <1>4

(* vmmap_find_range finds room, and none that is higher. *)
LEMMA HighestRoom ==
  ASSUME VmmapAssumption, NEW list, Well(list), NEW n \in Nat, n # 0,
         NEW lo, lo = vmmap_find_range(list, n), lo # -1
  PROVE  /\ lo \in Pages /\ lo + n <= High /\ Empty(list, lo, lo + n)
         /\ \A hi \in lo + 1 .. High - n : ~Empty(list, hi, hi + n)
  <1> DEFINE room == {i \in DOMAIN list :
                        /\ list[i].start >= Low + n
                        /\ vmmap_is_range_empty(list, list[i].start - n, n)}
             top == CHOOSE i \in room : \A j \in room : j <= i
  <1>1. /\ list \in Seq(vmarea_t) /\ Len(list) \in Nat /\ DOMAIN list = 1 .. Len(list)
        /\ \A i \in DOMAIN list : list[i] \in vmarea_t /\ list[i] \in ToSet(list)
        /\ \A b \in ToSet(list) : \E i \in DOMAIN list : b = list[i]
    BY ListElements DEF Well
  <1>2. \A i \in DOMAIN list :
          /\ i \in Nat /\ list[i].start \in Nat /\ list[i].end \in Nat
          /\ Low <= list[i].start /\ list[i].start < High
          /\ Low < list[i].end /\ list[i].start < list[i].end
    BY <1>1, AreaNumbers DEF Well, Proper
  <1>3. Low \in Nat /\ High \in Nat /\ Low > 0
    BY DEF VmmapAssumption
  <1>4. lo = IF list # <<>> /\ Last(list).end + n <= High THEN High - n
             ELSE IF room = {} THEN -1 ELSE list[top].start - n
    BY DEF vmmap_find_range
  <1>5. room # {} => top \in room /\ \A j \in room : j <= top
    <2>1. room \in SUBSET Nat /\ \A j \in room : j <= Len(list)
      BY <1>1
    <2> HIDE DEF room
    <2>2. room # {} => \E m \in room : \A j \in room : j <= m
      BY <2>1, <1>1, GreatestNumber
    <2> QED
      BY <2>2
  <1> HIDE DEF top
  <1>6. CASE list # <<>> /\ Last(list).end + n <= High
    <2>1. Last(list) \in ToSet(list) /\ \A b \in ToSet(list) : b.end <= Last(list).end
      BY <1>6, LastEndsHighest
    <2>2. Last(list).end \in Nat /\ Low < Last(list).end
      BY <2>1, <1>1, <1>2
    <2>3. lo = High - n
      BY <1>4, <1>6
    <2>4. lo \in Pages /\ lo + n <= High /\ lo + 1 > High - n
      BY <2>2, <2>3, <1>3, <1>6 DEF Pages
    <2>5. \A b \in ToSet(list) : b.end <= lo
      BY <2>1, <2>2, <2>3, <1>1, <1>2, <1>3, <1>6
    <2>6. lo + 1 .. High - n = {}
      BY <2>3, <1>3
    <2> QED
      BY <2>4, <2>5, <2>6 DEF Empty
  <1>7. CASE ~(list # <<>> /\ Last(list).end + n <= High)
    <2>1. room # {} /\ lo = list[top].start - n
      BY <1>4, <1>7
    <2>2. /\ top \in DOMAIN list /\ list[top].start >= Low + n
          /\ vmmap_is_range_empty(list, list[top].start - n, n)
          /\ \A j \in room : j <= top
      BY <2>1, <1>5
    <2>3. lo \in Pages /\ lo + n = list[top].start /\ lo + n <= High
      BY <2>1, <2>2, <1>2, <1>3 DEF Pages
    <2>4. Empty(list, lo, lo + n)
      BY <2>1, <2>2, EmptyIsEmpty
    <2>5. ASSUME NEW hi \in lo + 1 .. High - n, Empty(list, hi, hi + n)
          PROVE  FALSE
      <3>1. hi \in Nat /\ lo < hi /\ hi + n <= High /\ Low <= hi /\ lo \in Nat
        BY <2>3, <1>3 DEF Pages
      <3>2. list # <<>> /\ Last(list).end + n > High
        <4>1. list # <<>>
          BY <2>2, <1>1
        <4>2. Last(list).end \in Nat
          BY <4>1, LastEndsHighest, <1>1, <1>2
        <4> QED
          BY <4>1, <4>2, <1>3, <1>7
      <3>3. Last(list) = list[Len(list)] /\ Len(list) \in DOMAIN list
        BY <3>2, <1>1, EmptySeq DEF Last
      <3> DEFINE Up == {j \in DOMAIN list : list[j].start >= hi + n}
      <3>4. Len(list) \in Up
        <4>1. list[Len(list)].start >= hi + n \/ list[Len(list)].end <= hi
          BY <2>5, <3>3, <1>1 DEF Empty
        <4> QED
          BY <4>1, <3>1, <3>2, <3>3, <1>2, <1>3
      <3>5. PICK k \in Up : \A j \in Up : k <= j
        <4>1. Up \in SUBSET Nat /\ Up # {}
          BY <3>4, <1>1
        <4> HIDE DEF Up
        <4> QED
          BY <4>1, LeastNumber
      <3>6. k \in DOMAIN list /\ list[k].start >= hi + n
        OBVIOUS
      <3>7. \A j \in DOMAIN list : k <= j \/ ~(list[j].start >= hi + n)
        BY <3>5
      <3> HIDE DEF Up
      <3>8. list[k].start - n + n = list[k].start
        BY <3>6, <1>2
      <3>9. ASSUME NEW j \in DOMAIN list
            PROVE  list[j].start >= list[k].start \/ list[j].end <= list[k].start - n
        <4>1. CASE k <= j
          <5>1. list[k].start <= list[j].start
            BY <4>1, <3>6, StartsInOrder
          <5> QED
            BY <5>1, <3>6, <1>2
        <4>2. CASE ~(list[j].start >= hi + n)
          <5>1. list[j].start >= hi + n \/ list[j].end <= hi
            BY <2>5, <1>1 DEF Empty
          <5> QED
            BY <5>1, <4>2, <3>1, <3>6, <1>2
        <4> QED
          BY <4>1, <4>2, <3>7
      <3>10. Empty(list, list[k].start - n, list[k].start - n + n)
        BY <3>8, <3>9, <1>1 DEF Empty
      <3>11. k \in room
        BY <3>6, <3>10, <3>1, <1>2, <1>3, EmptyIsEmpty
      <3>12. list[k].start <= list[top].start
        BY <3>6, <3>11, <2>2, StartsInOrder
      <3> QED
        BY <3>1, <3>6, <3>12, <2>1, <2>2, <1>2
    <2> QED
      BY <2>3, <2>4, <2>5
  <1> QED
    BY <1>6, <1>7

(* do_mmap with no address. *)
LEMMA MmapAnywhereStep ==
  ASSUME IInv, NEW n \in 1 .. MaxPages, NEW o \in mmobj, MmapAnywhere(n, o),
         NEW lo, lo = vmmap_find_range(areas, n), lo # -1
  PROVE  /\ IInv'
         /\ lo \in Pages /\ lo + n <= High /\ Empty(areas, lo, lo + n)
         /\ \A hi \in lo + 1 .. High - n : ~Empty(areas, hi, hi + n)
         /\ \A p \in Pages :
              ShownIn(areas', p) =
                IF p \in lo .. lo + n - 1 THEN <<o, p - lo>> ELSE ShownIn(areas, p)
  <1> DEFINE a == NewArea(lo, n, o)
  <1>1. VmmapAssumption /\ Well(areas)
    BY AreasWell DEF IInv
  <1>2. n \in Nat /\ n # 0
    BY <1>1, PagesOf
  <1>3. /\ areas' = vmmap_insert(areas, a) /\ refs' = [refs EXCEPT ![o] = @ + 1]
        /\ Untranslate(lo, n) /\ UNCHANGED panic
    BY DEF MmapAnywhere
  <1>4. /\ lo \in Pages /\ lo + n <= High /\ Empty(areas, lo, lo + n)
        /\ \A hi \in lo + 1 .. High - n : ~Empty(areas, hi, hi + n)
    BY <1>1, <1>2, HighestRoom
  <1>5. /\ a \in vmarea_t /\ a.start = lo /\ a.end = lo + n /\ a.obj = o
        /\ \A p \in Pages : /\ Covers(a, p) <=> p \in lo .. lo + n - 1
                            /\ Page(a, p) = <<o, p - lo>>
    BY <1>1, <1>2, <1>4, NewAreaIs
  <1> HIDE DEF a
  <1>6. lo \in Nat /\ lo < lo + n
    BY <1>1, <1>2, <1>4, PagesOf
  <1>7. /\ Well(areas') /\ ToSet(areas') = ToSet(areas) \cup {a}
        /\ \A x : Uses(areas', x) = Uses(areas, x) + (IF o = x THEN 1 ELSE 0)
    <2>1. \A b \in ToSet(areas) : b.start >= a.end \/ b.end <= a.start
      BY <1>4, <1>5 DEF Empty
    <2>2. a.start < a.end
      BY <1>5, <1>6
    <2> QED
      BY <2>1, <2>2, <1>1, <1>3, <1>5, InsertPlaces
  <1>8. refs' \in [mmobj -> Nat] /\ \A x \in mmobj : refs'[x] = Uses(areas', x)
    <2>1. refs \in [mmobj -> Nat] /\ \A x \in mmobj : refs[x] = Uses(areas, x)
      BY AreasWell DEF IInv
    <2>2. refs' \in [mmobj -> Nat]
      BY <1>3, <2>1
    <2>3. ASSUME NEW x \in mmobj PROVE refs'[x] = Uses(areas', x)
      <3>1. refs[x] \in Nat
        BY <2>1
      <3>2. refs'[x] = IF x = o THEN refs[o] + 1 ELSE refs[x]
        BY <1>3, <2>1
      <3> QED
        BY <3>1, <3>2, <2>1, <1>7
    <2> QED
      BY <2>2, <2>3
  <1>9. ASSUME NEW p \in Pages
        PROVE  ShownIn(areas', p) = IF p \in lo .. lo + n - 1 THEN <<o, p - lo>>
                                    ELSE ShownIn(areas, p)
    <2>1. p \in Nat
      BY <1>1, PagesOf
    <2>2. ShownIn(areas', p) = IF Covers(a, p) THEN Page(a, p) ELSE ShownIn(areas, p)
      BY <2>1, <1>1, <1>5, <1>7, InsertShows
    <2>3. Covers(a, p) <=> p \in lo .. lo + n - 1
      BY <1>5
    <2>4. Page(a, p) = <<o, p - lo>>
      BY <1>5
    <2> QED
      BY <2>2, <2>3, <2>4
  <1>10. \A p \in Pages :
           Outside(p, lo, lo + n) => ShownIn(areas', p) = ShownIn(areas, p)
    BY <1>1, <1>2, <1>6, <1>9, PagesOf
  <1>11. IInv'
    BY <1>2, <1>3, <1>6, <1>7, <1>8, <1>10, UnmapFollows
  <1> QED
    BY <1>4, <1>9, <1>11

-----------------------------------------------------------------------------
(* do_brk moves the end of the area at place i to e. *)
Moved(r, list, i, e) ==
  /\ Well(r) /\ \A o : Uses(r, o) = Uses(list, o)
  /\ DOMAIN r = DOMAIN list
  /\ \A j \in DOMAIN list : j # i => r[j] = list[j]
  /\ r[i].start = list[i].start /\ r[i].end = e
  /\ r[i].obj = list[i].obj /\ r[i].off = list[i].off

LEMMA BrkList ==
  ASSUME VmmapAssumption, NEW list, Well(list), NEW i \in DOMAIN list,
         NEW e \in Nat, list[i].start < e, e <= High,
         list[i].end < e => Empty(list, list[i].end, e),
         NEW r, r = [list EXCEPT ![i].end = e]
  PROVE  Moved(r, list, i, e)
  <1> DEFINE x == [list[i] EXCEPT !.end = e]
  <1>1. /\ list \in Seq(vmarea_t) /\ Len(list) \in Nat /\ DOMAIN list = 1 .. Len(list)
        /\ \A j \in DOMAIN list : list[j] \in vmarea_t /\ list[j] \in ToSet(list)
    BY ListElements DEF Well
  <1>2. \A j \in DOMAIN list :
          /\ j \in Nat /\ list[j].start \in Nat /\ list[j].end \in Nat
          /\ list[j].start < list[j].end /\ Low <= list[j].start
    BY <1>1, AreaNumbers DEF Well, Proper
  <1>3. e \in Low + 1 .. High /\ Low \in Nat /\ High \in Nat
    BY <1>2 DEF VmmapAssumption
  <1>4. /\ x \in vmarea_t /\ x.start = list[i].start /\ x.end = e
        /\ x.obj = list[i].obj /\ x.off = list[i].off
    BY <1>1, <1>3 DEF vmarea_t
  <1>5. r = [list EXCEPT ![i] = x]
    OBVIOUS
  <1> HIDE DEF x
  <1>6. /\ r \in Seq(vmarea_t) /\ DOMAIN r = DOMAIN list
        /\ r[i] = x /\ \A j \in DOMAIN list : j # i => r[j] = list[j]
    <2>1. /\ [list EXCEPT ![i] = x] \in Seq(vmarea_t)
          /\ Len([list EXCEPT ![i] = x]) = Len(list)
          /\ \A j \in 1 .. Len(list) :
               [list EXCEPT ![i] = x][j] = IF j = i THEN x ELSE list[j]
      BY <1>1, <1>4, ExceptSeq
    <2> QED
      BY <2>1, <1>1, <1>5
  <1>7. Proper(r)
    BY <1>4, <1>6 DEF Well, Proper
  <1>8. Sorted(r)
    <2> SUFFICES ASSUME NEW j \in DOMAIN r, NEW k \in DOMAIN r, j < k
                 PROVE  r[j].end <= r[k].start
      BY DEF Sorted
    <2>1. j \in DOMAIN list /\ k \in DOMAIN list /\ list[j].end <= list[k].start
      BY <1>6 DEF Well, Sorted
    <2>2. CASE j # i
      <3>1. r[j] = list[j] /\ r[k].start = list[k].start
        BY <2>1, <2>2, <1>4, <1>6
      <3> QED
        BY <2>1, <3>1
    <2>3. CASE j = i
      <3>1. k # i /\ r[k] = list[k] /\ r[j].end = e
        BY SMTT(30), <2>1, <2>3, <1>2, <1>4, <1>6
      <3>2. CASE list[i].end < e
        <4>1. list[k].start >= e \/ list[k].end <= list[i].end
          BY <3>2, <2>1, <1>1 DEF Empty
        <4> QED
          BY <4>1, <3>1, <2>1, <2>3, <1>2
      <3>3. CASE ~(list[i].end < e)
        BY <3>1, <3>3, <2>1, <2>3, <1>2
      <3> QED
        BY <3>2, <3>3
    <2> QED
      BY <2>2, <2>3
  <1>9. ASSUME NEW o PROVE Uses(r, o) = Uses(list, o)
    <2>1. {j \in DOMAIN r : r[j].obj = o} = {j \in DOMAIN list : list[j].obj = o}
      BY <1>4, <1>6
    <2> QED
      BY <2>1 DEF Uses
  <1> QED
    BY <1>4, <1>6, <1>7, <1>8, <1>9 DEF Well, Moved

(* The pages the area has gained show its object, those it has given up    *)
(* show nothing, and the others what they did.                             *)
LEMMA BrkShows ==
  ASSUME VmmapAssumption, NEW list, Well(list), NEW i \in DOMAIN list,
         NEW e \in Nat, NEW r, Moved(r, list, i, e), NEW p \in Nat
  PROVE  ShownIn(r, p) =
           IF list[i].start <= p /\ p < e THEN Page(list[i], p)
           ELSE IF e <= p /\ p < list[i].end THEN Unmapped
           ELSE ShownIn(list, p)
  <1>1. /\ Well(r) /\ DOMAIN r = DOMAIN list
        /\ \A j \in DOMAIN list : j # i => r[j] = list[j]
        /\ r[i].start = list[i].start /\ r[i].end = e
        /\ r[i].obj = list[i].obj /\ r[i].off = list[i].off
    BY DEF Moved
  <1>2. /\ \A j \in DOMAIN list : list[j] \in ToSet(list) /\ r[j] \in ToSet(r)
        /\ \A b \in ToSet(r) : \E j \in DOMAIN list : b = r[j]
    BY <1>1 DEF ToSet
  <1>3. Page(r[i], p) = Page(list[i], p)
    BY <1>1 DEF Page
  <1>4. list[i].start \in Nat /\ list[i].end \in Nat
    BY ListElements, AreaNumbers DEF Well
  <1>5. CASE list[i].start <= p /\ p < e
    <2>1. Covers(r[i], p)
      BY <1>1, <1>5 DEF Covers
    <2> QED
      BY <2>1, <1>1, <1>2, <1>3, <1>5, ShownBy
  <1>6. CASE ~(list[i].start <= p /\ p < e) /\ e <= p /\ p < list[i].end
    <2>0. list[i].start < e
      BY <1>1 DEF Well, Proper
    <2>1. Covers(list[i], p)
      BY <2>0, <1>4, <1>6 DEF Covers
    <2>2. ASSUME NEW b \in ToSet(r), Covers(b, p) PROVE FALSE
      <3>1. PICK j \in DOMAIN list : b = r[j]
        BY <1>2
      <3>2. j # i
        BY <3>1, <2>2, <1>1, <1>6 DEF Covers
      <3>3. Covers(list[j], p)
        BY <3>1, <3>2, <2>2, <1>1
      <3> QED
        BY <3>2, <3>3, <2>1, CoveredOnce
    <2> QED
      BY <2>2, <1>6, ShownByNone
  <1>7. CASE ~(list[i].start <= p /\ p < e) /\ ~(e <= p /\ p < list[i].end)
    <2>0. ~Covers(list[i], p) /\ ~Covers(r[i], p)
      BY <1>1, <1>4, <1>7 DEF Covers
    <2>1. CASE \E b \in ToSet(list) : Covers(b, p)
      <3>1. PICK b \in ToSet(list) : Covers(b, p)
        BY <2>1
      <3>2. PICK j \in DOMAIN list : list[j] = b
        BY DEF ToSet
      <3>3. b \in ToSet(r)
        BY <3>1, <3>2, <2>0, <1>1, <1>2
      <3>4. ShownIn(r, p) = Page(b, p) /\ ShownIn(list, p) = Page(b, p)
        BY <3>1, <3>3, <1>1, ShownBy
      <3> QED
        BY <3>4, <1>7
    <2>2. CASE ~ \E b \in ToSet(list) : Covers(b, p)
      <3>1. ASSUME NEW b \in ToSet(r), Covers(b, p) PROVE FALSE
        <4>1. PICK j \in DOMAIN list : b = r[j]
          BY <1>2
        <4>2. j # i
          BY <4>1, <3>1, <2>0
        <4> QED
          BY <4>1, <4>2, <3>1, <2>2, <1>1, <1>2
      <3>2. ShownIn(r, p) = Unmapped /\ ShownIn(list, p) = Unmapped
        BY <3>1, <2>2, ShownByNone
      <3> QED
        BY <3>2, <1>7
    <2> QED
      BY <2>1, <2>2
  <1> QED
    BY <1>5, <1>6, <1>7

(* What do_brk(e) leaves when it succeeds with the area at place i. *)
LEMMA BrkStep ==
  ASSUME IInv, NEW e \in Heap + 1 .. High + 1, NEW i \in DOMAIN areas,
         Covers(areas[i], Heap),
         ~(areas[i].end < e /\ ~RangeOK(areas[i].end, e - areas[i].end)),
         areas[i].end < e =>
           vmmap_is_range_empty(areas, areas[i].end, e - areas[i].end),
         areas' = [areas EXCEPT ![i].end = e],
         left' = left \cup {p \in e .. areas[i].end - 1 : translation[p] # Unmapped},
         UNCHANGED <<refs, translation, panic>>
  PROVE  /\ IInv'
         /\ e <= High /\ areas[i] \in vmarea_t
         /\ areas[i].end < e => Empty(areas, areas[i].end, e)
         /\ \A p \in Pages :
              ShownIn(areas', p) =
                IF areas[i].start <= p /\ p < e THEN Page(areas[i], p)
                ELSE IF e <= p /\ p < areas[i].end THEN Unmapped
                ELSE ShownIn(areas, p)
  <1> DEFINE a == areas[i]
             top == a.end
  <1>1. VmmapAssumption /\ Well(areas)
    BY AreasWell DEF IInv
  <1>2. a \in vmarea_t
    BY <1>1, ListElements DEF Well
  <1>3. /\ a.start \in Nat /\ a.end \in Nat /\ a.start <= Heap /\ Heap < a.end
        /\ a.end <= High /\ Low <= a.start
    BY <1>1, <1>2, AreaNumbers DEF Covers
  <1>4. e \in Nat /\ Heap < e /\ Heap \in Nat /\ High \in Nat /\ Low \in Nat
    BY <1>1, PagesOf
  <1>5. a.start < e
    BY <1>3, <1>4
  <1>6. e <= High
    <2>1. CASE top < e
      <3>1. top + (e - top) <= High
        BY <2>1 DEF RangeOK
      <3> QED
        BY <3>1, <1>3, <1>4
    <2>2. CASE ~(top < e)
      BY <2>2, <1>3, <1>4
    <2> QED
      BY <2>1, <2>2
  <1>7. top < e => Empty(areas, top, e)
    <2>1. top + (e - top) = e
      BY <1>3, <1>4
    <2>2. vmmap_is_range_empty(areas, top, e - top) => Empty(areas, top, e)
      BY <2>1, EmptyIsEmpty
    <2> QED
      BY <2>2
  <1>8. Moved(areas', areas, i, e)
    BY <1>1, <1>4, <1>5, <1>6, <1>7, BrkList
  <1>9. ASSUME NEW p \in Pages
        PROVE  ShownIn(areas', p) =
                 IF a.start <= p /\ p < e THEN Page(a, p)
                 ELSE IF e <= p /\ p < a.end THEN Unmapped
                 ELSE ShownIn(areas, p)
    <2>1. p \in Nat
      BY <1>1, PagesOf
    <2> QED
      BY <2>1, <1>1, <1>4, <1>8, BrkShows
  <1>10. /\ refs' \in [mmobj -> Nat] /\ \A o \in mmobj : refs'[o] = Uses(areas', o)
         /\ translation' \in [Pages -> (mmobj \X Nat) \cup {Unmapped}] /\ panic' \in BOOLEAN
    BY <1>8, AreasWell DEF IInv, Moved
  <1>11. left' \subseteq Pages
    <2>1. e .. top - 1 \subseteq Pages
      BY <1>3, <1>4 DEF Pages
    <2>2. left \subseteq Pages
      BY DEF IInv, SpaceTypeOK
    <2> QED
      BY <2>1, <2>2
  <1>12. ASSUME NEW p \in Pages \ left', translation'[p] # Unmapped
         PROVE  translation'[p] = ShownIn(areas', p)
    <2>1. p \notin left /\ translation'[p] = translation[p]
      BY <1>12
    <2>2. translation[p] = ShownIn(areas, p)
      BY <2>1, <1>12, ShownIsIn DEF IInv, SpaceOK, TranslationsFollow
    <2>3. p \notin e .. top - 1
      BY <1>12, <2>1
    <2>4. p \in Nat
      BY <1>1, PagesOf
    <2>5. ~(e <= p /\ p < top)
      BY <2>3, <2>4, <1>3, <1>4
    <2>6. CASE a.start <= p /\ p < e
      <3>1. PICK b \in ToSet(areas) : Covers(b, p)
        BY <2>1, <2>2, <1>12, ShownCovered
      <3>2. a \in ToSet(areas)
        BY DEF ToSet
      <3>3. CASE p < top
        <4>1. Covers(a, p)
          BY <3>3, <2>6 DEF Covers
        <4>2. ShownIn(areas, p) = Page(a, p)
          BY <4>1, <3>2, <2>4, <1>1, ShownBy
        <4> QED
          BY <4>2, <2>1, <2>2, <2>6, <1>9
      <3>4. CASE ~(p < top)
        <4>1. b.start >= e \/ b.end <= top
          BY <3>1, <3>4, <2>4, <2>6, <1>3, <1>4, <1>7 DEF Empty
        <4>2. b \in vmarea_t
          BY <1>1, ListElements DEF Well
        <4>3. b.start \in Nat /\ b.end \in Nat
          BY <4>2, <1>1, AreaNumbers
        <4> QED
          BY <4>1, <4>3, <3>1, <3>4, <2>4, <2>6, <1>3, <1>4 DEF Covers
      <3> QED
        BY <3>3, <3>4
    <2>7. CASE ~(a.start <= p /\ p < e)
      BY <2>1, <2>2, <2>5, <2>7, <1>9
    <2> QED
      BY <2>6, <2>7
  <1>13. TranslationsFollow'
    <2>1. \A p : Shown(p)' = ShownIn(areas', p)
      BY DEF Shown, ShownIn
    <2> QED
      BY <1>12, <2>1 DEF TranslationsFollow
  <1>14. Well(areas')
    BY <1>8 DEF Moved
  <1>15. (SpaceTypeOK /\ SpaceOK)'
    BY <1>10, <1>11, <1>13, <1>14 DEF SpaceTypeOK, SpaceOK, AreasOK, Well, Sorted, Proper
  <1>16. IInv'
    BY <1>15 DEF IInv, VmmapAssumption
  <1> QED
    BY <1>2, <1>6, <1>7, <1>9, <1>16

(* A page fault leaves the translation the areas ask for. *)
LEMMA FaultStep ==
  ASSUME IInv, NEW p \in Touched, Fault(p)
  PROVE  IInv' /\ UNCHANGED areas
  <1> DEFINE a == vmmap_lookup(areas, p)
  <1>1. VmmapAssumption /\ Well(areas)
    BY AreasWell DEF IInv
  <1>2. p \in Pages /\ p \in Nat
    BY <1>1, PagesOf DEF VmmapAssumption
  <1>3. /\ a # Unmapped /\ translation' = [translation EXCEPT ![p] = <<a.obj, p - a.start + a.off>>]
        /\ UNCHANGED <<areas, refs, left, panic>>
    BY DEF Fault
  <1>4. ShownIn(areas, p) = <<a.obj, p - a.start + a.off>>
    BY <1>3 DEF ShownIn
  <1>5. ShownIn(areas, p) \in mmobj \X Nat
    <2>1. PICK b \in ToSet(areas) : Covers(b, p)
      BY <1>3, LookupFails
    <2>2. a = b
      BY <2>1, <1>1, <1>2, LookupFinds
    <2>3. b \in vmarea_t
      BY <1>1, ListElements DEF Well
    <2>4. p - b.start + b.off \in Nat /\ b.obj \in mmobj
      BY <2>1, <2>3, <1>1, <1>2, AreaNumbers, AreaFields DEF Covers
    <2> HIDE DEF a
    <2> QED
      BY <2>2, <2>4, <1>4
  <1>6. translation' = [translation EXCEPT ![p] = ShownIn(areas, p)]
    BY <1>3, <1>4
  <1> HIDE DEF a
  <1>7. translation \in [Pages -> (mmobj \X Nat) \cup {Unmapped}]
    BY DEF IInv, SpaceTypeOK
  <1>8. translation' \in [Pages -> (mmobj \X Nat) \cup {Unmapped}]
    BY <1>5, <1>6, <1>7
  <1>9. TranslationsFollow'
    <2>1. \A x : Shown(x)' = ShownIn(areas', x)
      BY DEF Shown, ShownIn
    <2>2. ASSUME NEW x \in Pages \ left, translation'[x] # Unmapped PROVE translation'[x] = ShownIn(areas, x)
      <3>1. CASE x = p
        BY <3>1, <1>2, <1>6, <1>7
      <3>2. CASE x # p
        <4>1. translation'[x] = translation[x]
          BY <3>2, <1>6, <1>7
        <4> QED
          BY <4>1, <2>2, ShownIsIn DEF IInv, SpaceOK, TranslationsFollow
      <3> QED
        BY <3>1, <3>2
    <2> QED
      BY <2>1, <2>2, <1>3 DEF TranslationsFollow
  <1>10. (SpaceTypeOK /\ SpaceOK)'
    BY <1>3, <1>8, <1>9
       DEF IInv, SpaceTypeOK, SpaceOK, AreasOK, Uses
  <1> QED
    BY <1>3, <1>10 DEF IInv, VmmapAssumption

-----------------------------------------------------------------------------
(* The steps of the map.                                                   *)

LEMMA PagesShown ==
  /\ [p \in Pages |-> Shown(p)] = [p \in Pages |-> ShownIn(areas, p)]
  /\ [p \in Pages |-> Shown(p)]' = [p \in Pages |-> ShownIn(areas', p)]
  BY DEF Shown, ShownIn

LEMMA AbstractMunmap ==
  ASSUME IInv, NEW lo \in Pages, NEW n \in 1 .. MaxPages, do_munmap(lo, n)
  PROVE  Space!Next
  <1>1. n \in 1 .. High - Low
    BY MunmapStep, PagesOf DEF IInv, Pages
  <1>2. Space!Munmap(lo, n)
    BY MunmapStep, PagesShown DEF Space!Munmap, Space!Pages, Pages
  <1> QED
    BY <1>1, <1>2 DEF Space!Next, Space!Pages, Pages

LEMMA AbstractMmapAt ==
  ASSUME IInv, NEW lo \in Pages, NEW n \in 1 .. MaxPages, NEW o \in mmobj,
         MmapAt(lo, n, o), lo + n <= High
  PROVE  Space!Next
  <1>1. n \in 1 .. High - Low
    BY PagesOf DEF IInv, Pages
  <1>2. Space!MmapAt(lo, n, o)
    BY MmapAtStep, PagesShown DEF Space!MmapAt, Space!Show, Space!Pages, Pages
  <1> QED
    BY <1>1, <1>2 DEF Space!Next, Space!Pages, Pages

(* No room in the list is no room in the map. *)
LEMMA VacantIsEmpty ==
  ASSUME IInv, NEW lo \in Pages, NEW n \in Nat, n # 0, lo + n <= High
  PROVE  Space!Vacant(lo .. lo + n - 1) <=> Empty(areas, lo, lo + n)
  <1>1. VmmapAssumption /\ Well(areas)
    BY AreasWell DEF IInv
  <1>2. lo \in Nat /\ lo + n \in Nat /\ lo < lo + n /\ Low \in Nat /\ High \in Nat
    BY <1>1, PagesOf
  <1>3. \A p : p \in lo .. lo + n - 1 <=> p \in Nat /\ lo <= p /\ p < lo + n
    BY <1>2
  <1>4. \A p \in lo .. lo + n - 1 : p \in Pages
    BY <1>2 DEF Pages
  <1> DEFINE mem == [p \in Pages |-> Shown(p)]
  <1>5. \A p \in Pages : mem[p] = ShownIn(areas, p)
    BY ShownIsIn
  <1>6. Space!Vacant(lo .. lo + n - 1) <=> \A p \in lo .. lo + n - 1 : mem[p] = Unmapped
    BY DEF Space!Vacant
  <1> HIDE DEF mem
  <1>7. Space!Vacant(lo .. lo + n - 1) <=>
          \A p \in Nat : lo <= p /\ p < lo + n => ShownIn(areas, p) = Unmapped
    BY <1>3, <1>4, <1>5, <1>6
  <1> QED
    BY <1>1, <1>2, <1>7, EmptyIsVacant

LEMMA AbstractMmapAnywhere ==
  ASSUME IInv, NEW n \in 1 .. MaxPages, NEW o \in mmobj, MmapAnywhere(n, o),
         vmmap_find_range(areas, n) # -1
  PROVE  Space!Next
  <1> DEFINE lo == vmmap_find_range(areas, n)
  <1>1. /\ lo \in Pages /\ lo + n <= High /\ Empty(areas, lo, lo + n)
        /\ \A hi \in lo + 1 .. High - n : ~Empty(areas, hi, hi + n)
        /\ \A p \in Pages :
             ShownIn(areas', p) =
               IF p \in lo .. lo + n - 1 THEN <<o, p - lo>> ELSE ShownIn(areas, p)
    BY MmapAnywhereStep
  <1> HIDE DEF lo
  <1>2. n \in Nat /\ n # 0 /\ n \in 1 .. High - Low /\ Low \in Nat /\ High \in Nat
    BY <1>1, PagesOf DEF IInv, Pages
  <1>3. Space!Vacant(lo .. lo + n - 1)
    BY <1>1, <1>2, VacantIsEmpty
  <1>4. ASSUME NEW hi \in lo + 1 .. High - n
        PROVE  ~Space!Vacant(hi .. hi + n - 1)
    <2>1. hi \in Pages /\ hi + n <= High
      BY <1>1, <1>2 DEF Pages
    <2> QED
      BY <2>1, <1>1, <1>2, VacantIsEmpty
  <1>5. Space!Show(lo, n, o)
    BY <1>1, PagesShown DEF Space!Show, Space!Pages, Pages
  <1>6. Space!MmapAnywhere(n, o)
    BY <1>1, <1>3, <1>4, <1>5 DEF Space!MmapAnywhere, Space!Pages, Pages
  <1> QED
    BY <1>2, <1>6 DEF Space!Next

LEMMA AbstractBrk ==
  ASSUME IInv, NEW e \in Heap + 1 .. High + 1, NEW i \in DOMAIN areas,
         Covers(areas[i], Heap), e <= High, areas[i] \in vmarea_t,
         areas[i].end < e => Empty(areas, areas[i].end, e),
         \A p \in Pages :
           ShownIn(areas', p) =
             IF areas[i].start <= p /\ p < e THEN Page(areas[i], p)
             ELSE IF e <= p /\ p < areas[i].end THEN Unmapped
             ELSE ShownIn(areas, p)
  PROVE  Space!Next
  <1> DEFINE a == areas[i]
             top == a.end
             mem == [p \in Pages |-> Shown(p)]
             pages(p) == <<mem[Heap][1], mem[Heap][2] + (p - Heap)>>
  <1>1. VmmapAssumption /\ Well(areas)
    BY AreasWell DEF IInv
  <1>2. /\ a.start \in Nat /\ top \in Nat /\ a.off \in Nat
        /\ a.start <= Heap /\ Heap < top /\ top <= High /\ Low <= a.start
    BY <1>1, AreaNumbers DEF Covers
  <1>3. /\ Heap \in Pages /\ Heap \in Nat /\ e \in Nat /\ Heap < e
        /\ Low \in Nat /\ High \in Nat /\ Pages \subseteq Nat /\ Pages = Low .. High - 1
    BY <1>1, PagesOf DEF Pages
  <1>4. \A p \in Pages : mem[p] = ShownIn(areas, p)
    BY ShownIsIn
  <1>5. a \in ToSet(areas)
    BY DEF ToSet
  <1>6. \A p \in Pages : Covers(a, p) => mem[p] = Page(a, p) /\ mem[p] # Unmapped
    BY <1>1, <1>3, <1>4, <1>5, ShownBy
  <1>7. mem[Heap] = <<a.obj, Heap - a.start + a.off>> /\ mem[Heap] # Unmapped
    BY <1>3, <1>6 DEF Page
  <1>8. \A p \in Pages : pages(p) = Page(a, p)
    <2>1. mem[Heap][1] = a.obj /\ mem[Heap][2] = Heap - a.start + a.off
      BY <1>7
    <2>2. \A p \in Pages : mem[Heap][2] + (p - Heap) = p - a.start + a.off
      BY <2>1, <1>2, <1>3
    <2> HIDE DEF mem
    <2> QED
      BY <2>1, <2>2 DEF Page
  <1>9. \A p \in Heap .. top - 1 : mem[p] = pages(p)
    <2>1. \A p \in Heap .. top - 1 : p \in Pages /\ Covers(a, p)
      BY <1>2, <1>3 DEF Covers
    <2> QED
      BY <2>1, <1>6, <1>8
  <1>10. Space!Vacant(top .. e - 1)
    <2>1. CASE top < e
      <3>1. \A p \in Nat : top <= p /\ p < e => ShownIn(areas, p) = Unmapped
        BY <2>1, <1>1, <1>2, <1>3, EmptyIsVacant
      <3>2. \A p \in top .. e - 1 : p \in Pages /\ p \in Nat /\ top <= p /\ p < e
        BY <1>2, <1>3
      <3>3. \A p \in top .. e - 1 : mem[p] = Unmapped
        BY <3>1, <3>2, <1>4
      <3> QED
        BY <3>3 DEF Space!Vacant
    <2>2. CASE ~(top < e)
      <3>1. top .. e - 1 = {}
        BY <2>2, <1>2, <1>3
      <3> QED
        BY <3>1 DEF Space!Vacant
    <2> QED
      BY <2>1, <2>2
  <1> HIDE DEF mem
  <1>11. ASSUME NEW p \in Pages
         PROVE  ShownIn(areas', p) =
                  IF p \in Heap .. e - 1 THEN pages(p)
                  ELSE IF p \in e .. top - 1 THEN Unmapped
                  ELSE mem[p]
    <2>1. p \in Nat /\ mem[p] = ShownIn(areas, p) /\ pages(p) = Page(a, p)
      BY <1>3, <1>4, <1>8
    <2>2. /\ p \in Heap .. e - 1 <=> Heap <= p /\ p < e
          /\ p \in e .. top - 1 <=> e <= p /\ p < top
      BY <2>1, <1>2, <1>3
    <2>3. CASE a.start <= p /\ p < Heap
      <3>1. Covers(a, p)
        BY <2>1, <2>3, <1>2, <1>3 DEF Covers
      <3>2. mem[p] = Page(a, p)
        BY <3>1, <1>6
      <3>3. p < e
        BY <2>1, <2>3, <1>3
      <3>4. ~(Heap <= p) /\ ~(e <= p)
        BY <2>1, <2>3, <1>3
      <3> QED
        BY <3>2, <3>3, <3>4, <2>2, <2>3
    <2>4. CASE ~(a.start <= p /\ p < Heap)
      <3>1. (a.start <= p /\ p < e) <=> (Heap <= p /\ p < e)
        BY <2>1, <2>4, <1>2, <1>3
      <3> QED
        BY <3>1, <2>1, <2>2
    <2> QED
      BY <2>3, <2>4
  <1>12. [p \in Pages |-> Shown(p)]' =
           [p \in Pages |-> IF p \in Heap .. e - 1 THEN pages(p)
                            ELSE IF p \in e .. top - 1 THEN Unmapped
                            ELSE mem[p]]
    BY <1>11, PagesShown
  <1>13. top \in Heap + 1 .. High /\ e \in Heap + 1 .. High
    BY <1>2, <1>3
  <1>14. Space!Brk(e)
    BY <1>7, <1>9, <1>10, <1>12, <1>13 DEF Space!Brk, Space!Pages, Pages, mem
  <1> QED
    BY <1>13, <1>14 DEF Space!Next

(* A step that leaves the areas alone leaves the map alone. *)
LEMMA AbstractStutter ==
  ASSUME UNCHANGED areas
  PROVE  Space!Step
  <1>1. [p \in Pages |-> Shown(p)]' = [p \in Pages |-> Shown(p)]
    BY PagesShown
  <1> QED
    BY <1>1 DEF Space!Step

(* A step that changes nothing but whether the kernel has panicked. *)
LEMMA NothingMoves ==
  ASSUME IInv, UNCHANGED <<areas, refs, translation, left>>, panic' \in BOOLEAN
  PROVE  IInv' /\ Space!Step
  <1>1. SpaceTypeOK'
    BY DEF IInv, SpaceTypeOK
  <1>2. AreasOK'
    BY DEF IInv, SpaceOK, AreasOK, Uses
  <1>3. TranslationsFollow'
    <2>1. \A p : Shown(p)' = Shown(p)
      BY ShownIsIn DEF Shown, ShownIn
    <2> QED
      BY <2>1 DEF IInv, SpaceOK, TranslationsFollow
  <1>4. IInv'
    BY <1>1, <1>2, <1>3 DEF IInv, VmmapAssumption, SpaceOK
  <1> QED
    BY <1>4, AbstractStutter

(* Every step keeps the invariant, and is a step of the map or leaves it   *)
(* alone.                                                                  *)
LEMMA NextStep ==
  ASSUME IInv, [SpaceNext]_spaceVars
  PROVE  IInv' /\ Space!Step
  <1>1. ASSUME NEW lo \in Pages, NEW n \in 1 .. MaxPages, do_munmap(lo, n)
        PROVE  IInv' /\ Space!Step
    BY <1>1, MunmapStep, AbstractMunmap DEF Space!Step
  <1>2. ASSUME Panic PROVE IInv' /\ Space!Step
    BY <1>2, NothingMoves DEF Panic
  <1>3. ASSUME UNCHANGED spaceVars PROVE IInv' /\ Space!Step
    BY <1>3, NothingMoves DEF spaceVars, IInv, SpaceTypeOK
  <1>4. ASSUME NEW lo \in Pages, NEW n \in 1 .. MaxPages, NEW o \in mmobj,
               MmapAt(lo, n, o)
        PROVE  IInv' /\ Space!Step
    <2>1. CASE lo + n > High
      BY <2>1, <1>2, <1>4 DEF MmapAt
    <2>2. CASE ~(lo + n > High)
      <3>1. lo + n <= High
        BY <2>2, PagesOf DEF IInv
      <3> QED
        BY <3>1, <1>4, MmapAtStep, AbstractMmapAt DEF Space!Step
    <2> QED
      BY <2>1, <2>2
  <1>5. ASSUME NEW n \in 1 .. MaxPages, NEW o \in mmobj, MmapAnywhere(n, o)
        PROVE  IInv' /\ Space!Step
    <2>1. CASE vmmap_find_range(areas, n) = -1
      <3>1. Panic \/ UNCHANGED spaceVars
        BY <2>1, <1>5 DEF MmapAnywhere
      <3> QED
        BY <3>1, <1>2, <1>3
    <2>2. CASE vmmap_find_range(areas, n) # -1
      BY <2>2, <1>5, MmapAnywhereStep, AbstractMmapAnywhere DEF Space!Step
    <2> QED
      BY <2>1, <2>2
  <1>6. ASSUME NEW e \in Heap + 1 .. High + 1, do_brk(e)
        PROVE  IInv' /\ Space!Step
    <2>1. CASE Panic
      BY <2>1, <1>2
    <2>2. CASE ~Panic
      <3>1. PICK i \in DOMAIN areas :
              /\ Covers(areas[i], Heap)
              /\ ~(areas[i].end < e /\ ~RangeOK(areas[i].end, e - areas[i].end))
              /\ areas[i].end < e =>
                   vmmap_is_range_empty(areas, areas[i].end, e - areas[i].end)
              /\ areas' = [areas EXCEPT ![i].end = e]
              /\ left' = left \cup {p \in e .. areas[i].end - 1 : translation[p] # Unmapped}
              /\ UNCHANGED <<refs, translation, panic>>
        BY <2>2, <1>6 DEF do_brk
      <3>2. /\ IInv'
            /\ e <= High /\ areas[i] \in vmarea_t
            /\ areas[i].end < e => Empty(areas, areas[i].end, e)
            /\ \A p \in Pages :
                 ShownIn(areas', p) =
                   IF areas[i].start <= p /\ p < e THEN Page(areas[i], p)
                   ELSE IF e <= p /\ p < areas[i].end THEN Unmapped
                   ELSE ShownIn(areas, p)
        BY <3>1, BrkStep
      <3>3. Space!Next
        BY <3>1, <3>2, AbstractBrk
      <3> QED
        BY <3>2, <3>3 DEF Space!Step
    <2> QED
      BY <2>1, <2>2
  <1>7. ASSUME NEW p \in Touched, Fault(p) PROVE IInv' /\ Space!Step
    BY <1>7, FaultStep, AbstractStutter
  <1> QED
    BY <1>1, <1>3, <1>4, <1>5, <1>6, <1>7 DEF SpaceNext

LEMMA AbstractInit ==
  SpaceInit => Space!Init
  <1> SUFFICES ASSUME SpaceInit PROVE Space!Init
    OBVIOUS
  <1>1. areas = <<>>
    BY DEF SpaceInit
  <1>2. \A p \in Pages : Shown(p) = Unmapped
    BY <1>1, EmptyQueue, ShownByNone, ShownIsIn
  <1> QED
    BY <1>2 DEF Space!Init, Space!Pages, Pages

(* The invariant holds in every state. *)
LEMMA SpaceInvariant == SpaceSpec => []IInv
  <1>1. SpaceInit => IInv
    BY SpaceAssumption, InitStep
  <1>2. IInv /\ [SpaceNext]_spaceVars => IInv'
    BY NextStep
  <1> QED
    BY <1>1, <1>2, PTL DEF SpaceSpec

(* The areas, references, translations and the pages given up have the     *)
(* types they are declared with: no reference count drops below 0, and no  *)
(* area leaves user memory.                                                *)
THEOREM TypeCorrect == SpaceSpec => []SpaceTypeOK
  <1>1. IInv => SpaceTypeOK
    BY DEF IInv
  <1> QED
    BY <1>1, SpaceInvariant, PTL

(* vmmap.c, mmap.c, brk.c: the areas stay sorted and disjoint, every       *)
(* object has just the references its areas hold, and a translation leads  *)
(* where the areas say, except for the pages do_brk gave up.               *)
THEOREM AreasAgree == SpaceSpec => []SpaceOK
  <1>1. IInv => SpaceOK
    BY DEF IInv
  <1> QED
    BY <1>1, SpaceInvariant, PTL

(* vmmap.c: what mmap, munmap and brk do to the list of areas is what they *)
(* promise to do to the map from pages to objects, down to taking the      *)
(* highest room there is; nothing else changes what a page shows.          *)
THEOREM Refinement == SpaceSpec => Space!Spec /\ ImplementsMap
  <1>1. IInv /\ [SpaceNext]_spaceVars => [Space!Next]_([p \in Pages |-> Shown(p)])
    BY NextStep DEF Space!Step
  <1>2. IInv /\ [SpaceNext]_spaceVars => [areas' = areas \/ Space!Step]_areas
    BY NextStep
  <1>3. SpaceInit => Space!Init
    BY AbstractInit
  <1> QED
    BY <1>1, <1>2, <1>3, SpaceInvariant, PTL DEF SpaceSpec, ImplementsMap, Space!Spec

-----------------------------------------------------------------------------
Order == 0 .. MaxOrder
PageNo  == 0 .. Usable - 1

-----------------------------------------------------------------------------
(* The sizes up to some order. *)
Sizes(n, f) == f = [k \in 0 .. n |-> IF k = 0 THEN 1 ELSE 2 * f[k - 1]]

(* There are such sizes. *)
LEMMA SizesExist ==
  ASSUME NEW n \in Nat
  PROVE  \E f : Sizes(n, f)
  <1> DEFINE Bad == {k \in Nat : ~ \E f : Sizes(k, f)}
  <1>1. SUFFICES ASSUME Bad # {} PROVE FALSE
    OBVIOUS
  <1>2. PICK m \in Bad : \A k \in Bad : m <= k
    BY <1>1, LeastNumber
  <1>3. m \in Nat /\ ~ \E f : Sizes(m, f)
    OBVIOUS
  <1>4. CASE m = 0
    <2> DEFINE f == [k \in 0 .. 0 |-> 1]
    <2>1. f = [k \in 0 .. 0 |-> IF k = 0 THEN 1 ELSE 2 * f[k - 1]]
      OBVIOUS
    <2> QED
      BY <2>1, <1>3, <1>4 DEF Sizes
  <1>5. CASE m # 0
    <2>1. m - 1 \in Nat /\ m - 1 \notin Bad
      BY <1>2, <1>3, <1>5
    <2>2. PICK f : Sizes(m - 1, f)
      BY <2>1
    <2> DEFINE g == [k \in 0 .. m |-> IF k = m THEN 2 * f[m - 1] ELSE f[k]]
    <2>3. \A k \in 0 .. m - 1 : f[k] = IF k = 0 THEN 1 ELSE 2 * f[k - 1]
      BY <2>2 DEF Sizes
    <2>4. \A k \in 0 .. m : g[k] = IF k = 0 THEN 1 ELSE 2 * g[k - 1]
      <3>1. \A k \in 0 .. m - 1 : g[k] = f[k]
        BY <1>3
      <3>2. g[m] = 2 * f[m - 1]
        BY <1>3
      <3> HIDE DEF g
      <3> QED
        BY <3>1, <3>2, <2>1, <2>3, <1>3, <1>5
    <2>5. g = [k \in 0 .. m |-> g[k]]
      OBVIOUS
    <2> HIDE DEF g
    <2>6. Sizes(m, g)
      BY <2>4, <2>5 DEF Sizes
    <2> QED
      BY <2>6, <1>3
  <1> QED
    BY <1>4, <1>5

(* Each order has twice the pages of the one below. *)
LEMMA SizeIs ==
  ASSUME HeapAssumption
  PROVE  /\ MaxOrder \in Nat /\ NPages \in Nat
         /\ Size[0] = 1
         /\ \A k \in Order : Size[k] \in Nat \ {0}
         /\ \A k \in Order : k < MaxOrder => k + 1 \in Order /\ Size[k + 1] = 2 * Size[k]
  <1>1. MaxOrder \in Nat /\ NPages \in Nat
    BY DEF HeapAssumption
  <1>2. \E f : f = [k \in 0 .. MaxOrder |-> IF k = 0 THEN 1 ELSE 2 * f[k - 1]]
    BY <1>1, SizesExist DEF Sizes
  <1>3. Size = [k \in 0 .. MaxOrder |-> IF k = 0 THEN 1 ELSE 2 * Size[k - 1]]
    BY <1>2, Zenon DEF Size
  <1>4. \A k \in Order : Size[k] = IF k = 0 THEN 1 ELSE 2 * Size[k - 1]
    BY <1>3 DEF Order
  <1>5. Size[0] = 1
    BY <1>1, <1>4 DEF Order
  <1>6. \A k \in Order : k < MaxOrder => k + 1 \in Order /\ Size[k + 1] = 2 * Size[k]
    BY <1>1, <1>4 DEF Order
  <1>7. ASSUME NEW o \in Order, Size[o] \notin Nat \ {0}
        PROVE  FALSE
    <2> DEFINE Bad == {k \in Order : Size[k] \notin Nat \ {0}}
    <2>1. Bad \in SUBSET Nat /\ Bad # {}
      BY <1>7, <1>1 DEF Order
    <2>2. PICK m \in Bad : \A k \in Bad : m <= k
      BY <2>1, LeastNumber
    <2>3. m # 0 /\ m \in Order /\ m - 1 \in Order /\ m - 1 \notin Bad
      BY <2>2, <1>1, <1>5 DEF Order
    <2>4. Size[m] = 2 * Size[m - 1] /\ Size[m - 1] \in Nat \ {0}
      BY <2>3, <1>4
    <2> QED
      BY <2>2, <2>4
  <1> QED
    BY <1>1, <1>5, <1>6, <1>7

(* The usable pages are blocks of any order, and pairs of any but the      *)
(* largest.                                                                *)
LEMMA UsableIs ==
  ASSUME HeapAssumption
  PROVE  /\ Usable \in Nat /\ Usable <= NPages
         /\ \A k \in Order : \E n \in Nat :
              Usable = n * Size[k] /\ (k < MaxOrder => \E m \in Nat : n = 2 * m)
  <1>1. MaxOrder \in Nat /\ NPages \in Nat /\ MaxOrder \in Order /\ Size[MaxOrder] \in Nat \ {0}
    BY SizeIs DEF Order
  <1>2. PICK d \in Nat \ {0} : d = Size[MaxOrder]
    BY <1>1
  <1>3. NPages \div d \in Nat /\ (NPages \div d) * d \in Nat /\ (NPages \div d) * d <= NPages
    BY <1>1
  <1>4. Usable \in Nat /\ Usable <= NPages /\ Usable = (NPages \div d) * Size[MaxOrder]
    BY <1>2, <1>3 DEF Usable
  <1> DEFINE Good(k) == \E n \in Nat :
               Usable = n * Size[k] /\ (k < MaxOrder => \E m \in Nat : n = 2 * m)
             Bad == {k \in Order : ~ Good(k)}
  <1>5. Good(MaxOrder)
    BY <1>3, <1>4, <1>1
  <1>6. ASSUME Bad # {} PROVE FALSE
    <2>1. Bad \in SUBSET Nat /\ \A k \in Bad : k <= MaxOrder
      BY <1>1 DEF Order
    <2>2. PICK k \in Bad : \A j \in Bad : j <= k
      BY <2>1, <1>6, <1>1, GreatestNumber
    <2>3. k \in Order /\ k # MaxOrder
      BY <1>5
    <2>4. k \in Nat /\ k < MaxOrder /\ k + 1 \in Order /\ Size[k + 1] = 2 * Size[k] /\ Size[k] \in Nat
      BY <2>3, <1>1, SizeIs DEF Order
    <2>5. k + 1 \notin Bad
      <3>1. \A j \in Bad : j <= k
        BY <2>2
      <3> HIDE DEF Bad
      <3> QED
        BY <3>1, <2>4
    <2>6. PICK n \in Nat : Usable = n * Size[k + 1]
      BY <2>4, <2>5
    <2>7. Usable = (2 * n) * Size[k] /\ 2 * n \in Nat
      BY <2>4, <2>6
    <2>8. Good(k)
      BY <2>7
    <2> QED
      BY <2>2, <2>8
  <1> QED
    BY <1>4, <1>6

-----------------------------------------------------------------------------
(* Blocks.  The block of an order around a page is told by an index.       *)
Index(k, p) == p \div Size[k]

(* Multiples of a number, and quotients. *)
LEMMA Multiples ==
  /\ \A a \in Nat, d \in Nat \ {0} : /\ a \div d \in Nat
                                     /\ a - (a % d) = (a \div d) * d
                                     /\ (a \div d) * d <= a /\ a < (a \div d) * d + d
                                     /\ (a \div d) * d \in Nat
  /\ \A i \in Nat, d \in Nat \ {0} : (i * d) % d = 0 /\ (i * d) \div d = i
  /\ \A a \in Nat, i \in Nat, d \in Nat \ {0} : i * d <= a /\ a < i * d + d => a \div d = i
  /\ \A i \in Nat, n \in Nat, d \in Nat \ {0} : i * d < n * d => i < n /\ i * d + d <= n * d
  /\ \A i \in Nat, n \in Nat, d \in Nat \ {0} : i < n => i * d < n * d
  /\ \A a \in Nat, d \in Nat \ {0} : a \div (2 * d) = (a \div d) \div 2
  <1>1. \A a \in Nat, d \in Nat \ {0} : /\ a \div d \in Nat
                                        /\ a - (a % d) = (a \div d) * d
                                        /\ (a \div d) * d <= a /\ a < (a \div d) * d + d
                                        /\ (a \div d) * d \in Nat
    OBVIOUS
  <1>2. \A i \in Nat, d \in Nat \ {0} : (i * d) % d = 0 /\ (i * d) \div d = i
    OBVIOUS
  <1>3. \A a \in Nat, i \in Nat, d \in Nat \ {0} : i * d <= a /\ a < i * d + d => a \div d = i
    OBVIOUS
  <1>4. \A i \in Nat, n \in Nat, d \in Nat \ {0} : i * d < n * d => i < n /\ i * d + d <= n * d
    OBVIOUS
  <1>5. \A i \in Nat, n \in Nat, d \in Nat \ {0} : i < n => i * d < n * d
    OBVIOUS
  <1>6. \A a \in Nat, d \in Nat \ {0} : a \div (2 * d) = (a \div d) \div 2
    OBVIOUS
  <1> QED
    BY <1>1, <1>2, <1>3, <1>4, <1>5, <1>6

(* The block of an order around a page, which is in it. *)
LEMMA AroundIs ==
  ASSUME HeapAssumption, NEW k \in Order, NEW p \in PageNo
  PROVE  /\ p \in Nat /\ Index(k, p) \in Nat
         /\ Around(k, p) = [order |-> k, page |-> Index(k, p) * Size[k]]
         /\ Around(k, p).order = k /\ Around(k, p).page = Index(k, p) * Size[k]
         /\ Around(k, p).page \in PageNo
         /\ Around(k, p).page <= p /\ p < Around(k, p).page + Size[k]
         /\ Around(k, p) \in Block
         /\ Index(k, Around(k, p).page) = Index(k, p)
  <1>1. p \in Nat /\ Usable \in Nat /\ p < Usable
    BY UsableIs DEF PageNo
  <1>2. PICK d \in Nat \ {0} : d = Size[k]
    BY SizeIs
  <1>3. p - (p % d) = (p \div d) * d /\ (p \div d) * d \in Nat /\ p \div d \in Nat
        /\ (p \div d) * d <= p /\ p < (p \div d) * d + d
    BY <1>1, Multiples
  <1>4. Around(k, p) = [order |-> k, page |-> (p \div d) * d] /\ Index(k, p) = p \div d
    BY <1>2, <1>3 DEF Around, Index
  <1>5. (p \div d) * d \in PageNo
    BY <1>1, <1>3 DEF PageNo
  <1>6. ((p \div d) * d) % d = 0 /\ ((p \div d) * d) \div d = p \div d
    BY <1>3, Multiples
  <1>7. Around(k, p) \in Block
    BY <1>2, <1>4, <1>5, <1>6 DEF Block, Order, PageNo
  <1>8. Index(k, Around(k, p).page) = Index(k, p)
    BY <1>2, <1>4, <1>6 DEF Index
  <1> QED
    BY <1>1, <1>2, <1>3, <1>4, <1>5, <1>7, <1>8

(* A block is the one around its first page. *)
LEMMA BlockIs ==
  ASSUME HeapAssumption, NEW b \in Block
  PROVE  /\ b.order \in Order /\ b.page \in PageNo
         /\ b = [order |-> b.order, page |-> b.page]
         /\ Around(b.order, b.page) = b
  <1>1. b \in [order : Order, page : PageNo] /\ b.page % Size[b.order] = 0
    BY DEF Block, Order, PageNo
  <1>2. b.order \in Order /\ b.page \in PageNo /\ b = [order |-> b.order, page |-> b.page]
    BY <1>1
  <1>3. b.page \in Nat
    BY <1>2, UsableIs DEF PageNo
  <1> QED
    BY <1>1, <1>2, <1>3 DEF Around

(* Two pages have the same block around them when the index is the same.   *)
LEMMA SameAround ==
  ASSUME HeapAssumption, NEW k \in Order, NEW p \in PageNo, NEW q \in PageNo
  PROVE  Around(k, p) = Around(k, q) <=> Index(k, p) = Index(k, q)
  <1>1. Index(k, p) = Index(k, q) => Around(k, p) = Around(k, q)
    BY AroundIs
  <1>2. Around(k, p) = Around(k, q) => Index(k, p) = Index(k, q)
    BY AroundIs
  <1> QED
    BY <1>1, <1>2

(* The pages of a block are those it is around. *)
LEMMA PagesAround ==
  ASSUME HeapAssumption, NEW b \in Block, NEW q
  PROVE  q \in PagesIn(b) <=> q \in PageNo /\ Around(b.order, q) = b
  <1>1. b.order \in Order /\ b.page \in PageNo /\ Around(b.order, b.page) = b
    BY BlockIs
  <1>2. PICK d \in Nat \ {0} : d = Size[b.order]
    BY SizeIs, <1>1
  <1>3. PICK i \in Nat : b.page = i * d
    BY <1>1, <1>2, AroundIs
  <1>4. PICK n \in Nat : Usable = n * d
    BY <1>1, <1>2, UsableIs
  <1>5. b.page \in Nat /\ Usable \in Nat /\ b.page < Usable
    BY <1>1, UsableIs DEF PageNo
  <1>6. i * d + d <= n * d
    BY <1>3, <1>4, <1>5, Multiples
  <1>7. ASSUME q \in PagesIn(b)
        PROVE  q \in PageNo /\ Around(b.order, q) = b
    <2>1. q \in Nat /\ b.page <= q /\ q < b.page + d
      BY <1>7, <1>2, <1>5 DEF PagesIn
    <2>2. q \in PageNo
      BY <2>1, <1>3, <1>4, <1>5, <1>6 DEF PageNo
    <2>3. q \div d = i
      <3>1. i * d <= q /\ q < i * d + d
        BY <2>1, <1>3
      <3> QED
        BY <3>1, <2>1, Multiples, Zenon
    <2>4. b.page \div d = i
      BY <1>3, Multiples
    <2>5. Index(b.order, q) = Index(b.order, b.page)
      BY <2>3, <2>4, <1>2 DEF Index
    <2> QED
      BY <2>2, <2>5, <1>1, SameAround
  <1>8. ASSUME q \in PageNo, Around(b.order, q) = b
        PROVE  q \in PagesIn(b)
    <2>1. q \in Nat /\ b.page <= q /\ q < b.page + d
      BY <1>8, <1>1, <1>2, AroundIs
    <2> QED
      BY <2>1, <1>2, <1>5 DEF PagesIn
  <1> QED
    BY <1>7, <1>8

(* Halves of numbers. *)
Other(i) == IF i % 2 = 0 THEN i + 1 ELSE i - 1

LEMMA Halves ==
  /\ \A i \in Nat : Other(i) \in Nat /\ Other(i) # i /\ Other(i) \div 2 = i \div 2
  /\ \A i, j \in Nat : i \div 2 = j \div 2 <=> j = i \/ j = Other(i)
  /\ \A i, m \in Nat : i < 2 * m => Other(i) < 2 * m
  BY DEF Other

(* The index of the next order is half. *)
LEMMA IndexUp ==
  ASSUME HeapAssumption, NEW k \in Order, k < MaxOrder, NEW p \in PageNo
  PROVE  k + 1 \in Order /\ Index(k + 1, p) = Index(k, p) \div 2
  <1>1. k + 1 \in Order /\ Size[k + 1] = 2 * Size[k] /\ Size[k] \in Nat \ {0}
    BY SizeIs
  <1>2. p \in Nat
    BY AroundIs
  <1> QED
    BY ZenonT(40), <1>1, <1>2, Multiples DEF Index

(* The buddy of a block is the other one in the block of the next order.   *)
LEMMA BuddyIs ==
  ASSUME HeapAssumption, NEW k \in Order, k < MaxOrder, NEW p \in PageNo
  PROVE  LET b == Around(k, p)
         IN /\ Buddy(b) \in Block /\ Buddy(b).order = k /\ Buddy(b).page \in PageNo
            /\ Index(k, Buddy(b).page) = Other(Index(k, p))
  <1> DEFINE b == Around(k, p)
             i == Index(k, p)
  <1>1. /\ i \in Nat /\ b \in Block /\ b = [order |-> k, page |-> i * Size[k]]
        /\ b.order = k /\ b.page = i * Size[k] /\ Index(k, b.page) = i
        /\ b.page \in PageNo
    BY AroundIs
  <1> HIDE DEF b, i
  <1>2. PICK d \in Nat \ {0} : d = Size[k]
    BY SizeIs
  <1>3. PICK n \in Nat, m \in Nat : Usable = n * d /\ n = 2 * m
    BY <1>2, UsableIs
  <1>4. b.page \in Nat /\ b.page < Usable /\ Usable \in Nat
    BY <1>1, UsableIs DEF PageNo
  <1>5. i < n /\ Other(i) < n /\ Other(i) \in Nat
    <2>1. i * d < n * d
      BY <1>1, <1>2, <1>3, <1>4
    <2>2. i < n
      BY <2>1, <1>1, Multiples
    <2> QED
      BY <2>2, <1>1, <1>3, Halves
  <1>6. Other(i) * d \in Nat /\ Other(i) * d < Usable /\ (Other(i) * d) \div d = Other(i)
        /\ (Other(i) * d) % d = 0
    <2>1. Other(i) * d < n * d
      BY <1>5, Multiples, Zenon
    <2>2. (Other(i) * d) \div d = Other(i) /\ (Other(i) * d) % d = 0
      BY <1>5, Multiples, Zenon
    <2>3. Other(i) * d \in Nat
      BY <1>5
    <2> QED
      BY <2>1, <2>2, <2>3, <1>3
  <1>7. Buddy(b) = [order |-> k, page |-> Other(i) * d]
    <2>1. b.page \div d = i
      BY <1>1, <1>2 DEF Index
    <2>2. Buddy(b) = [b EXCEPT !.page = IF i % 2 = 0 THEN b.page + d ELSE b.page - d]
      BY <2>1, <1>1, <1>2 DEF Buddy
    <2>3. IF i % 2 = 0 THEN b.page + d = Other(i) * d ELSE b.page - d = Other(i) * d
      BY <1>1, <1>2 DEF Other
    <2> QED
      BY <2>2, <2>3, <1>1
  <1>8. Other(i) * d \in PageNo
    BY <1>6, <1>4 DEF PageNo
  <1>9. Buddy(b) \in Block /\ Buddy(b).order = k /\ Buddy(b).page \in PageNo
    BY <1>7, <1>8, <1>6, <1>2 DEF Block, Order, PageNo
  <1>10. Index(k, Buddy(b).page) = Other(i)
    BY <1>7, <1>6, <1>2 DEF Index
  <1> QED
    BY <1>9, <1>10 DEF b, i

(* Two blocks are in one of the next order just when they are buddies.   *)
LEMMA Pairs ==
  ASSUME HeapAssumption, NEW k \in Order, k < MaxOrder, NEW p \in PageNo, NEW q \in PageNo
  PROVE  /\ Around(k + 1, p) = Around(k + 1, q)
              <=> Around(k, q) = Around(k, p) \/ Around(k, q) = Buddy(Around(k, p))
         /\ Buddy(Around(k, p)) # Around(k, p)
         /\ Buddy(Buddy(Around(k, p))) = Around(k, p)
  <1> DEFINE b == Around(k, p)
             r == Buddy(b).page
  <1>1. b \in Block /\ Buddy(b) \in Block /\ Buddy(b).order = k /\ r \in PageNo
        /\ Index(k, r) = Other(Index(k, p))
    BY AroundIs, BuddyIs
  <1>2. Around(k, r) = Buddy(b)
    BY <1>1, BlockIs
  <1> HIDE DEF b, r
  <1>3. Index(k, p) \in Nat /\ Index(k, q) \in Nat /\ Index(k, r) \in Nat
    BY <1>1, AroundIs
  <1>4. Around(k + 1, p) = Around(k + 1, q) <=> Index(k, p) \div 2 = Index(k, q) \div 2
    BY IndexUp, SameAround
  <1>5. Around(k, q) = b <=> Index(k, q) = Index(k, p)
    BY SameAround DEF b
  <1>6. Around(k, q) = Buddy(b) <=> Index(k, q) = Other(Index(k, p))
    BY <1>1, <1>2, SameAround
  <1>7. Buddy(b) # b
    <2>1. Index(k, r) # Index(k, p)
      BY <1>1, <1>3, Halves
    <2> QED
      BY <2>1, <1>2, <1>1, SameAround DEF b
  <1>8. Buddy(Buddy(b)) = b
    <2> DEFINE s == Buddy(Around(k, r)).page
    <2>1. /\ Buddy(Around(k, r)) \in Block /\ Buddy(Around(k, r)).order = k /\ s \in PageNo
          /\ Index(k, s) = Other(Index(k, r))
      BY <1>1, BuddyIs
    <2>2. Around(k, s) = Buddy(Around(k, r))
      BY <2>1, BlockIs
    <2>3. Other(Other(Index(k, p))) = Index(k, p)
      BY <1>3 DEF Other
    <2> HIDE DEF s
    <2>4. Around(k, s) = Around(k, p)
      BY <2>1, <2>3, <1>1, SameAround
    <2> QED
      BY <2>2, <2>4, <1>2 DEF b
  <1> QED
    BY <1>3, <1>4, <1>5, <1>6, <1>7, <1>8, Halves DEF b

(* Pages in one block are in one block of any larger order.                *)
LEMMA Nested ==
  ASSUME HeapAssumption, NEW j \in Order, NEW k \in Order, j <= k,
         NEW p \in PageNo, NEW q \in PageNo, Around(j, p) = Around(j, q)
  PROVE  Around(k, p) = Around(k, q)
  <1> DEFINE Bad == {i \in Order : j <= i /\ Around(i, p) # Around(i, q)}
  <1>1. MaxOrder \in Nat
    BY SizeIs
  <1>2. SUFFICES ASSUME Bad # {} PROVE FALSE
    OBVIOUS
  <1>3. Bad \in SUBSET Nat
    BY <1>1 DEF Order
  <1>4. PICK m \in Bad : \A i \in Bad : m <= i
    BY <1>2, <1>3, LeastNumber
  <1>5. m \in Order /\ m # j /\ j <= m /\ Around(m, p) # Around(m, q)
    OBVIOUS
  <1>6. m - 1 \in Order /\ m - 1 < MaxOrder /\ j <= m - 1 /\ (m - 1) + 1 = m /\ ~(m <= m - 1)
    BY <1>1, <1>5 DEF Order
  <1>7. Around(m - 1, p) = Around(m - 1, q)
    BY <1>4, <1>6
  <1> HIDE DEF Bad
  <1>8. Around((m - 1) + 1, p) = Around((m - 1) + 1, q)
    <2>1. PICK i \in Order : i = m - 1
      BY <1>6
    <2>2. i < MaxOrder /\ Around(i, p) = Around(i, q)
      BY <2>1, <1>6, <1>7
    <2>3. Around(i + 1, p) = Around(i + 1, q)
      BY <2>2, Pairs
    <2> QED
      BY <2>3, <2>1
  <1> QED
    BY <1>5, <1>6, <1>8

(* A bit belongs to one pair of buddies. *)
LEMMA BitIs ==
  ASSUME HeapAssumption, NEW j \in Order, j < MaxOrder, NEW k \in Order, k < MaxOrder,
         NEW p \in PageNo, NEW q \in PageNo
  PROVE  Bit(j + 1, p) = Bit(k + 1, q) <=> j = k /\ Around(k + 1, p) = Around(k + 1, q)
  <1>1. j \in Int /\ k \in Int
    BY SizeIs DEF Order
  <1>2. k + 1 \in Order
    BY SizeIs
  <1>3. Around(k + 1, p) = Around(k + 1, q) <=> Index(k + 1, p) = Index(k + 1, q)
    BY <1>2, SameAround
  <1>4. Bit(j + 1, p) = <<j + 1, Index(j + 1, p)>> /\ Bit(k + 1, q) = <<k + 1, Index(k + 1, q)>>
    BY DEF Bit, Index
  <1>5. j + 1 = k + 1 <=> j = k
    BY <1>1
  <1> QED
    BY <1>3, <1>4, <1>5

(* A block has as many pages as its order says. *)
LEMMA PagesCounted ==
  ASSUME HeapAssumption, NEW b \in Block
  PROVE  /\ IsFiniteSet(PagesIn(b)) /\ Cardinality(PagesIn(b)) = Size[b.order]
         /\ PagesIn(b) \subseteq PageNo
  <1>1. b.order \in Order /\ b.page \in Nat
    BY BlockIs, AroundIs
  <1>2. Size[b.order] \in Nat \ {0}
    BY <1>1, SizeIs
  <1>3. PagesIn(b) = b.page .. b.page + Size[b.order] - 1
    BY DEF PagesIn
  <1>4. IsFiniteSet(PagesIn(b)) /\ Cardinality(PagesIn(b)) = Size[b.order]
    <2>1. PICK a \in Int, z \in Int : a = b.page /\ z = b.page + Size[b.order] - 1
      BY <1>1, <1>2
    <2>2. a <= z /\ z - a + 1 = Size[b.order]
      BY <2>1, <1>1, <1>2
    <2>3. IsFiniteSet(a .. z) /\ Cardinality(a .. z) = IF a > z THEN 0 ELSE z - a + 1
      BY FS_Interval, Zenon
    <2>4. Cardinality(a .. z) = Size[b.order]
      BY <2>2, <2>3
    <2> QED
      BY <2>1, <2>3, <2>4, <1>3
  <1>5. PagesIn(b) \subseteq PageNo
    BY PagesAround
  <1> QED
    BY <1>4, <1>5

-----------------------------------------------------------------------------
(* A block around page q of order g, cut into one of order o around q and  *)
(* the buddies of those in between.                                        *)
Buds(o, g, q)   == {Buddy(Around(k, q)) : k \in o .. g - 1}
Parts(o, g, q) == {Around(o, q)} \cup Buds(o, g, q)

(* The buddies are blocks beside the one around q. *)
LEMMA BudsAre ==
  ASSUME HeapAssumption, NEW o \in Order, NEW g \in Order, o <= g, NEW q \in PageNo
  PROVE  /\ \A k \in o .. g - 1 : k \in Order /\ k < MaxOrder /\ Buddy(Around(k, q)) \in Buds(o, g, q)
         /\ \A c \in Buds(o, g, q) :
              /\ c \in Block /\ c.order \in o .. g - 1 /\ c.order \in Order /\ c.order < MaxOrder
              /\ c = Buddy(Around(c.order, q)) /\ c # Around(c.order, q)
              /\ c.page \in PageNo /\ Around(c.order, c.page) = c
              /\ Around(c.order + 1, c.page) = Around(c.order + 1, q)
  <1>1. \A k \in o .. g - 1 : k \in Order /\ k < MaxOrder
    BY SizeIs DEF Order
  <1>2. ASSUME NEW c \in Buds(o, g, q)
        PROVE  /\ c \in Block /\ c.order \in o .. g - 1
               /\ c = Buddy(Around(c.order, q)) /\ c # Around(c.order, q)
               /\ c.page \in PageNo /\ Around(c.order, c.page) = c
               /\ Around(c.order + 1, c.page) = Around(c.order + 1, q)
    <2>1. PICK k \in o .. g - 1 : c = Buddy(Around(k, q))
      BY DEF Buds
    <2>2. k \in Order /\ k < MaxOrder
      BY <1>1
    <2>3. c \in Block /\ c.order = k /\ c.page \in PageNo
      BY <2>1, <2>2, BuddyIs
    <2>4. Around(k, c.page) = c
      BY <2>3, BlockIs
    <2>5. c # Around(k, q) /\ Around(k + 1, q) = Around(k + 1, c.page)
      BY <2>1, <2>2, <2>3, <2>4, Pairs
    <2> QED
      BY <2>1, <2>3, <2>4, <2>5
  <1> QED
    BY <1>1, <1>2 DEF Buds

(* The pieces are all the pages of the block, once each.                   *)
LEMMA PartsAre ==
  ASSUME HeapAssumption, NEW o \in Order, NEW g \in Order, o <= g, NEW q \in PageNo
  PROVE  /\ Parts(o, g, q) \subseteq Block
         /\ \A p \in PageNo : Around(g, p) = Around(g, q)
              => \E k \in Order : Around(k, p) \in Parts(o, g, q)
         /\ \A p \in PageNo, k \in Order : Around(k, p) \in Parts(o, g, q)
              => Around(g, p) = Around(g, q)
         /\ \A p \in PageNo, j, k \in Order :
              Around(j, p) \in Parts(o, g, q) /\ Around(k, p) \in Parts(o, g, q) => j = k
  <1>1. MaxOrder \in Nat /\ Order \subseteq Nat
    BY SizeIs DEF Order
  <1>2. Parts(o, g, q) \subseteq Block
    BY BudsAre, AroundIs DEF Parts
  <1>3. ASSUME NEW p \in PageNo, Around(g, p) = Around(g, q)
        PROVE  \E k \in Order : Around(k, p) \in Parts(o, g, q)
    <2> DEFINE N == {k \in Order : o <= k /\ Around(k, p) = Around(k, q)}
    <2>1. g \in N
      BY <1>3
    <2>2. PICK m \in N : \A k \in N : m <= k
      BY <2>1, <1>1, LeastNumber
    <2>3. m \in Order /\ o <= m /\ Around(m, p) = Around(m, q) /\ m <= g
      BY <2>1, <2>2
    <2>4. CASE m = o
      BY <2>3, <2>4 DEF Parts
    <2>5. CASE m # o
      <3>1. PICK k \in o .. g - 1 : m = k + 1
        <4>1. m - 1 \in o .. g - 1 /\ m = (m - 1) + 1
          BY <2>3, <2>5, <1>1
        <4> QED
          BY <4>1
      <3>2. k \in Order /\ k < MaxOrder /\ Buddy(Around(k, q)) \in Buds(o, g, q)
        BY BudsAre
      <3>3. Around(k, p) # Around(k, q)
        <4>1. k \notin N
          <5>1. ~(m <= k)
            BY <3>1, <1>1
          <5> HIDE DEF N
          <5> QED
            BY <5>1, <2>2
        <4>2. o <= k
          BY <1>1
        <4> QED
          BY <4>1, <4>2, <3>2
      <3>4. Around(k + 1, q) = Around(k + 1, p)
        BY <3>1, <2>3
      <3>5. Around(k, p) = Buddy(Around(k, q))
        BY <3>2, <3>3, <3>4, Pairs
      <3> QED
        BY <3>2, <3>5 DEF Parts
    <2> QED
      BY <2>4, <2>5
  <1>4. ASSUME NEW p \in PageNo, NEW k \in Order, Around(k, p) \in Parts(o, g, q)
        PROVE  \/ k = o /\ Around(o, p) = Around(o, q)
               \/ /\ k \in o .. g - 1 /\ k < MaxOrder /\ Around(k, p) # Around(k, q)
                  /\ Around(k + 1, p) = Around(k + 1, q)
    <2>1. Around(k, p).order = k /\ Around(o, q).order = o
      BY AroundIs
    <2>2. CASE Around(k, p) = Around(o, q)
      BY <2>1, <2>2
    <2>3. CASE Around(k, p) \in Buds(o, g, q)
      <3>1. /\ k \in o .. g - 1 /\ k < MaxOrder /\ Around(k, p) = Buddy(Around(k, q))
            /\ Around(k, p) # Around(k, q)
        BY <2>1, <2>3, BudsAre
      <3>2. Around(k + 1, p) = Around(k + 1, q)
        BY <3>1, Pairs
      <3> QED
        BY <3>1, <3>2
    <2> QED
      BY <1>4, <2>2, <2>3 DEF Parts
  <1>5. ASSUME NEW p \in PageNo, NEW k \in Order, Around(k, p) \in Parts(o, g, q)
        PROVE  Around(g, p) = Around(g, q)
    <2>1. CASE k = o /\ Around(o, p) = Around(o, q)
      BY <2>1, Nested
    <2>2. CASE k \in o .. g - 1 /\ k < MaxOrder /\ Around(k + 1, p) = Around(k + 1, q)
      <3>1. k + 1 \in Order /\ k + 1 <= g
        BY <2>2, <1>1, SizeIs
      <3> QED
        BY <3>1, <2>2, Nested
    <2> QED
      BY <1>4, <1>5, <2>1, <2>2
  <1>6. ASSUME NEW p \in PageNo, NEW j \in Order, NEW k \in Order, j < k,
               Around(j, p) \in Parts(o, g, q), Around(k, p) \in Parts(o, g, q)
        PROVE  FALSE
    <2>1. k # o /\ k \in o .. g - 1 /\ Around(k, p) # Around(k, q)
      <3>1. o <= j
        BY <1>6, <1>4, <1>1
      <3>2. k # o
        BY <3>1, <1>6, <1>1
      <3> QED
        BY <3>2, <1>6, <1>4
    <2>2. CASE j = o /\ Around(o, p) = Around(o, q)
      <3>1. o <= k
        BY <2>1, <1>1
      <3>2. Around(k, p) = Around(k, q)
        BY <2>2, <3>1, Nested
      <3> QED
        BY <3>2, <2>1
    <2>3. CASE j \in o .. g - 1 /\ j < MaxOrder /\ Around(j + 1, p) = Around(j + 1, q)
      <3>1. j + 1 \in Order /\ j + 1 <= k
        BY <2>3, <1>6, <1>1, SizeIs
      <3>2. Around(k, p) = Around(k, q)
        BY <2>3, <3>1, Nested
      <3> QED
        BY <3>2, <2>1
    <2> QED
      BY <1>4, <1>6, <2>2, <2>3
  <1>7. ASSUME NEW p \in PageNo, NEW j \in Order, NEW k \in Order,
               Around(j, p) \in Parts(o, g, q), Around(k, p) \in Parts(o, g, q)
        PROVE  j = k
    <2>1. ~(j < k) /\ ~(k < j)
      BY <1>6, <1>7
    <2> QED
      BY <2>1, <1>1
  <1> QED
    BY <1>2, <1>3, <1>5, <1>7

-----------------------------------------------------------------------------
(* The bits that the free blocks F ask for, and what one tells.            *)
BitSet(F)     == {Bit(b.order + 1, b.page) : b \in {c \in F : c.order < MaxOrder}}
Half(F, k, p) == Around(k, p) \in F \/ Buddy(Around(k, p)) \in F

(* It tells that one of the two is free. *)
LEMMA InBitSet ==
  ASSUME HeapAssumption, NEW F \in SUBSET Block, NEW k \in Order, k < MaxOrder, NEW p \in PageNo
  PROVE  Bit(k + 1, p) \in BitSet(F) <=> Half(F, k, p)
  <1>1. ASSUME Bit(k + 1, p) \in BitSet(F)
        PROVE  Half(F, k, p)
    <2>1. PICK b \in F : b.order < MaxOrder /\ Bit(k + 1, p) = Bit(b.order + 1, b.page)
      BY <1>1 DEF BitSet
    <2>2. b \in Block /\ b.order \in Order /\ b.page \in PageNo /\ Around(b.order, b.page) = b
      BY BlockIs
    <2>3. k = b.order /\ Around(k + 1, p) = Around(k + 1, b.page)
      BY <2>1, <2>2, BitIs
    <2>4. b = Around(k, p) \/ b = Buddy(Around(k, p))
      BY <2>2, <2>3, Pairs
    <2> QED
      BY <2>4 DEF Half
  <1>2. ASSUME NEW b \in F, b = Around(k, p) \/ b = Buddy(Around(k, p))
        PROVE  Bit(k + 1, p) \in BitSet(F)
    <2>1. b \in Block /\ b.order = k /\ b.page \in PageNo /\ Around(k, b.page) = b
      BY <1>2, BlockIs, AroundIs, BuddyIs
    <2>2. Around(k + 1, p) = Around(k + 1, b.page)
      BY <1>2, <2>1, Pairs
    <2>3. Bit(k + 1, p) = Bit(b.order + 1, b.page)
      BY <2>1, <2>2, BitIs
    <2> QED
      BY <2>1, <2>3 DEF BitSet
  <1> QED
    BY <1>1, <1>2 DEF Half

(* Buddies share their bit. *)
LEMMA HalfShared ==
  ASSUME HeapAssumption, NEW F, NEW k \in Order, k < MaxOrder, NEW p \in PageNo, NEW q \in PageNo,
         Around(k + 1, p) = Around(k + 1, q)
  PROVE  Half(F, k, p) <=> Half(F, k, q)
  <1>1. \/ Around(k, q) = Around(k, p) \/ Around(k, q) = Buddy(Around(k, p))
    BY Pairs
  <1>2. Buddy(Buddy(Around(k, p))) = Around(k, p)
    BY Pairs
  <1> QED
    BY <1>1, <1>2 DEF Half

(* The bits that flip are those of the pieces and the block.               *)
LEMMA FlipIs ==
  ASSUME HeapAssumption, NEW o \in Order, NEW g \in Order, o <= g, NEW q \in PageNo,
         NEW F \in SUBSET Block, NEW F2 \in SUBSET Block,
         \A c \in Block : c \notin Buds(o, g, q) /\ c # Around(g, q) => (c \in F2 <=> c \in F),
         \A k \in o .. g : k < MaxOrder => (Half(F2, k, q) <=> ~ Half(F, k, q))
  PROVE  Flip(BitSet(F), q, o .. g) = BitSet(F2)
  <1>1. MaxOrder \in Nat /\ Order \subseteq Nat /\ \A k \in o .. g : k \in Order
    BY SizeIs DEF Order
  <1> DEFINE X == {Bit(k + 1, q) : k \in (o .. g) \ {MaxOrder}}
  <1>2. \A k \in (o .. g) \ {MaxOrder} : k \in Order /\ k < MaxOrder
    BY <1>1 DEF Order
  <1>3. ASSUME NEW k \in Order, k < MaxOrder, NEW p \in PageNo
        PROVE  Bit(k + 1, p) \in X <=> k \in o .. g /\ Around(k + 1, p) = Around(k + 1, q)
    <2>1. \A j \in (o .. g) \ {MaxOrder} :
            Bit(k + 1, p) = Bit(j + 1, q) <=> k = j /\ Around(j + 1, p) = Around(j + 1, q)
      BY <1>2, <1>3, BitIs
    <2>2. k # MaxOrder
      BY <1>3, <1>1
    <2> QED
      BY <2>1, <2>2
  <1>4. ASSUME NEW k \in Order, k < MaxOrder, NEW p \in PageNo
        PROVE  Bit(k + 1, p) \in BitSet(F2) <=> ~(Bit(k + 1, p) \in BitSet(F) <=> Bit(k + 1, p) \in X)
    <2> HIDE DEF X
    <2>1. SUFFICES Half(F2, k, p) <=> ~(Half(F, k, p) <=> Bit(k + 1, p) \in X)
      BY <1>4, InBitSet
    <2>2. CASE k \in o .. g /\ Around(k + 1, p) = Around(k + 1, q)
      <3>1. (Half(F, k, p) <=> Half(F, k, q)) /\ (Half(F2, k, p) <=> Half(F2, k, q))
        BY <2>2, <1>4, HalfShared
      <3> QED
        BY <3>1, <2>2, <1>3, <1>4
    <2>3. CASE ~(k \in o .. g /\ Around(k + 1, p) = Around(k + 1, q))
      <3>1. ASSUME NEW c \in {Around(k, p), Buddy(Around(k, p))}
            PROVE  c \in F2 <=> c \in F
        <4>1. c \in Block /\ c.order = k /\ c.page \in PageNo /\ Around(k, c.page) = c
          BY <1>4, BlockIs, AroundIs, BuddyIs
        <4>2. Around(k + 1, c.page) = Around(k + 1, p)
          BY <1>4, <4>1, Pairs
        <4>3. c \notin Buds(o, g, q)
          <5>1. ASSUME c \in Buds(o, g, q)
                PROVE  k \in o .. g - 1 /\ Around(k + 1, c.page) = Around(k + 1, q)
            BY <5>1, <4>1, BudsAre
          <5>2. k \in o .. g - 1 => k \in o .. g
            BY <1>1
          <5> QED
            BY <5>1, <5>2, <4>2, <2>3
        <4>4. c # Around(g, q)
          <5>1. ASSUME c = Around(g, q) PROVE FALSE
            <6>1. k = g /\ Around(k, c.page) = Around(k, q)
              BY <5>1, <4>1, AroundIs
            <6>2. Around(k + 1, c.page) = Around(k + 1, q)
              BY <6>1, <4>1, <1>4, Pairs
            <6>3. k \in o .. g
              BY <6>1, <1>1
            <6> QED
              BY <6>2, <6>3, <4>2, <2>3
          <5> QED
            BY <5>1
        <4> QED
          BY <4>1, <4>3, <4>4
      <3>2. Half(F2, k, p) <=> Half(F, k, p)
        BY <3>1 DEF Half
      <3> QED
        BY <3>2, <2>3, <1>3, <1>4
    <2> QED
      BY <2>2, <2>3
  <1>5. ASSUME NEW x \in BitSet(F) \cup BitSet(F2) \cup X
        PROVE  \E k \in Order, p \in PageNo : k < MaxOrder /\ x = Bit(k + 1, p)
    <2>1. CASE x \in X
      BY <2>1, <1>2
    <2>2. CASE x \in BitSet(F) \cup BitSet(F2)
      <3>1. PICK b \in F \cup F2 : b.order < MaxOrder /\ x = Bit(b.order + 1, b.page)
        BY <2>2 DEF BitSet
      <3>2. b.order \in Order /\ b.page \in PageNo
        BY BlockIs
      <3> QED
        BY <3>1, <3>2
    <2> QED
      BY <1>5, <2>1, <2>2
  <1>6. Flip(BitSet(F), q, o .. g) = (BitSet(F) \ X) \cup (X \ BitSet(F))
    BY DEF Flip, SymDiff
  <1> HIDE DEF X
  <1>7. \A x : x \in BitSet(F) \cup BitSet(F2) \cup X
               => (x \in BitSet(F2) <=> ~(x \in BitSet(F) <=> x \in X))
    BY <1>4, <1>5
  <1> QED
    BY <1>6, <1>7

-----------------------------------------------------------------------------
(* Free blocks F and blocks U in use: around each page is just one.        *)
Tiled(F, U) ==
  /\ F \in SUBSET Block /\ U \in SUBSET Block /\ F \cap U = {}
  /\ \A p \in PageNo : \E k \in Order : Around(k, p) \in F \cup U
  /\ \A p \in PageNo, j, k \in Order :
       Around(j, p) \in F \cup U /\ Around(k, p) \in F \cup U => j = k

NoPairs(F)   == \A b \in F : b.order < MaxOrder => Buddy(b) \notin F
FreePages(F) == UNION {PagesIn(b) : b \in F}

(* The group h when the blocks U are in use. *)
Fit(h, U) ==
  /\ h \in [free : SUBSET Block, map : SUBSET ((1 .. MaxOrder) \X Nat), freecount : Int]
  /\ Tiled(h.free, U)
  /\ NoPairs(h.free) /\ h.map = BitSet(h.free)
  /\ h.freecount = Cardinality(FreePages(h.free)) + (NPages - Usable)

(* Bits have the numbers of pg_map. *)
LEMMA BitSetType ==
  ASSUME HeapAssumption, NEW F \in SUBSET Block
  PROVE  BitSet(F) \in SUBSET ((1 .. MaxOrder) \X (0 .. NPages))
  <1> SUFFICES ASSUME NEW b \in F, b.order < MaxOrder
               PROVE  Bit(b.order + 1, b.page) \in (1 .. MaxOrder) \X (0 .. NPages)
    BY DEF BitSet
  <1>1. b.order \in Order /\ b.page \in PageNo
    BY BlockIs
  <1>2. b.order + 1 \in Order /\ b.order + 1 \in 1 .. MaxOrder
    BY <1>1, SizeIs DEF Order
  <1>3. /\ Index(b.order + 1, b.page) \in Nat /\ b.page \in Nat
        /\ Index(b.order + 1, b.page) * Size[b.order + 1] \in PageNo
    BY <1>1, <1>2, AroundIs
  <1>4. Index(b.order + 1, b.page) <= NPages
    <2>1. PICK i \in Nat, d \in Nat \ {0} : i = Index(b.order + 1, b.page) /\ d = Size[b.order + 1]
      BY <1>2, <1>3, SizeIs
    <2>2. i <= i * d
      BY <2>1
    <2>3. i * d < Usable /\ Usable <= NPages /\ Usable \in Nat /\ NPages \in Nat
      BY <1>3, <2>1, UsableIs, SizeIs DEF PageNo
    <2>4. i * d \in Nat
      BY <2>1
    <2> QED
      BY <2>1, <2>2, <2>3, <2>4
  <1>5. NPages \in Nat
    BY SizeIs
  <1> QED
    BY <1>2, <1>3, <1>4, <1>5 DEF Bit, Index

(* The free pages, of which there are no more than usable ones.          *)
LEMMA FreePagesAre ==
  ASSUME HeapAssumption, NEW F \in SUBSET Block
  PROVE  /\ FreePages(F) \in SUBSET PageNo
         /\ \A p \in PageNo : p \in FreePages(F) <=> \E k \in Order : Around(k, p) \in F
         /\ IsFiniteSet(FreePages(F)) /\ Cardinality(FreePages(F)) \in 0 .. Usable
  <1>1. FreePages(F) \in SUBSET PageNo
    BY PagesAround DEF FreePages
  <1>2. ASSUME NEW p \in PageNo
        PROVE  p \in FreePages(F) <=> \E k \in Order : Around(k, p) \in F
    <2>1. \A b \in F : p \in PagesIn(b) <=> Around(b.order, p) = b
      BY PagesAround
    <2>2. \A b \in F : b.order \in Order
      BY BlockIs
    <2>3. \A k \in Order : Around(k, p).order = k
      BY AroundIs
    <2> QED
      BY <2>1, <2>2, <2>3 DEF FreePages
  <1>3. IsFiniteSet(PageNo) /\ Cardinality(PageNo) = Usable
    <2>1. PICK a \in Int, z \in Int : a = 0 /\ z = Usable - 1
      BY UsableIs
    <2>2. IsFiniteSet(a .. z) /\ Cardinality(a .. z) = IF a > z THEN 0 ELSE z - a + 1
      BY FS_Interval, Zenon
    <2>3. (IF a > z THEN 0 ELSE z - a + 1) = Usable
      BY <2>1, UsableIs
    <2> QED
      BY <2>1, <2>2, <2>3 DEF PageNo
  <1>4. IsFiniteSet(FreePages(F)) /\ Cardinality(FreePages(F)) <= Usable
    BY <1>1, <1>3, FS_Subset
  <1>5. Cardinality(FreePages(F)) \in Nat
    BY <1>4, FS_CardinalityType
  <1>6. Usable \in Nat
    BY UsableIs
  <1> QED
    BY <1>1, <1>2, <1>4, <1>5, <1>6

(* Whatever of two sets of free blocks is equal but for the pages of b.    *)
LEMMA CountsBlock ==
  ASSUME HeapAssumption, NEW F \in SUBSET Block, NEW F2 \in SUBSET Block, NEW b \in Block,
         \A p \in PageNo : (\E k \in Order : Around(k, p) \in F2)
                           <=> (\E k \in Order : Around(k, p) \in F) /\ Around(b.order, p) # b,
         \A p \in PageNo : Around(b.order, p) = b => \E k \in Order : Around(k, p) \in F
  PROVE  /\ Cardinality(FreePages(F)) \in Nat /\ Cardinality(FreePages(F2)) \in Nat
         /\ Cardinality(FreePages(F2)) = Cardinality(FreePages(F)) - Size[b.order]
  <1>1. FreePages(F2) = FreePages(F) \ PagesIn(b)
    BY FreePagesAre, PagesAround
  <1>2. PagesIn(b) \subseteq FreePages(F)
    BY FreePagesAre, PagesAround
  <1>3. /\ IsFiniteSet(FreePages(F)) /\ Cardinality(FreePages(F)) \in Nat
        /\ Cardinality(FreePages(F2)) \in Nat
    <2>1. /\ Cardinality(FreePages(F)) \in 0 .. Usable /\ Cardinality(FreePages(F2)) \in 0 .. Usable
          /\ IsFiniteSet(FreePages(F))
      BY FreePagesAre
    <2>2. Usable \in Nat
      BY UsableIs
    <2> QED
      BY <2>1, <2>2
  <1>4. IsFiniteSet(PagesIn(b)) /\ Cardinality(PagesIn(b)) = Size[b.order]
    BY PagesCounted
  <1>5. FreePages(F) \cap PagesIn(b) = PagesIn(b)
    BY <1>2
  <1>6. Cardinality(FreePages(F) \ PagesIn(b))
          = Cardinality(FreePages(F)) - Cardinality(FreePages(F) \cap PagesIn(b))
    BY <1>3, FS_Difference
  <1> QED
    BY <1>1, <1>3, <1>4, <1>5, <1>6

-----------------------------------------------------------------------------
(* A block b comes out of a free one. *)
LEMMA SplitKeeps ==
  ASSUME HeapAssumption, NEW h, NEW U, Fit(h, U),
         NEW big \in h.free, NEW b \in Block, b.order <= big.order,
         Around(big.order, b.page) = big
  PROVE  Fit(Split(h, big, b), U \cup {b}) /\ b \notin U
  <1> DEFINE F == h.free
             o == b.order
             g == big.order
             q == b.page
             B == Buds(o, g, q)
             N == Parts(o, g, q)
             F2 == (F \ {big}) \cup B
             U2 == U \cup {b}
  <1>1. /\ F \in SUBSET Block /\ U \in SUBSET Block /\ F \cap U = {}
        /\ \A p \in PageNo : \E k \in Order : Around(k, p) \in F \cup U
        /\ \A p \in PageNo, j, k \in Order :
             Around(j, p) \in F \cup U /\ Around(k, p) \in F \cup U => j = k
    BY DEF Fit, Tiled
  <1>2. /\ o \in Order /\ q \in PageNo /\ Around(o, q) = b /\ b.order = o
        /\ g \in Order /\ Around(g, q) = big /\ o <= g /\ big \in F /\ big.order = g
        /\ b \in Block
    BY <1>1, BlockIs
  <1>3. MaxOrder \in Nat /\ Order \subseteq Nat
    BY SizeIs DEF Order
  <1>4. NoPairs(F) /\ h.map = BitSet(F)
        /\ h.freecount = Cardinality(FreePages(F)) + (NPages - Usable)
    BY DEF Fit
  <1>5. Split(h, big, b) = [free |-> F2, map |-> Flip(h.map, q, o .. g),
                            freecount |-> h.freecount - Size[o]]
    BY DEF Split, Buds
  <1> HIDE DEF F, o, g, q, B, N, F2, U2
  <1>6. /\ N = {b} \cup B /\ N \subseteq Block
        /\ \A p \in PageNo : Around(g, p) = big => \E k \in Order : Around(k, p) \in N
        /\ \A p \in PageNo, k \in Order : Around(k, p) \in N => Around(g, p) = big
        /\ \A p \in PageNo, j, k \in Order : Around(j, p) \in N /\ Around(k, p) \in N => j = k
    BY <1>2, PartsAre DEF N, B, Parts
  <1>7. /\ \A k \in o .. g - 1 : k \in Order /\ k < MaxOrder /\ Buddy(Around(k, q)) \in B
        /\ \A c \in B : /\ c \in Block /\ c.order \in o .. g - 1 /\ c.order \in Order
                        /\ c.order < MaxOrder
                        /\ c = Buddy(Around(c.order, q)) /\ c # Around(c.order, q)
                        /\ c.page \in PageNo /\ Around(c.order, c.page) = c
                        /\ Around(c.order + 1, c.page) = Around(c.order + 1, q)
    BY <1>2, BudsAre DEF B
  (* Only big is around the pages of big. *)
  <1>8. ASSUME NEW p \in PageNo, NEW k \in Order, Around(g, p) = big, Around(k, p) \in F \cup U
        PROVE  k = g /\ Around(k, p) = big
    BY <1>1, <1>2, <1>8
  <1>9. ASSUME NEW c \in N
        PROVE  c \notin U /\ (c \in F => c = big)
    <2>1. c.page \in PageNo /\ c.order \in Order /\ Around(c.order, c.page) = c
      BY <1>6, BlockIs
    <2>2. Around(g, c.page) = big
      BY <1>6, <2>1
    <2>3. c \in F \cup U => c = big
      BY <1>8, <2>1, <2>2
    <2> QED
      BY <2>3, <1>1, <1>2
  <1>10. b \notin U /\ b \notin B
    <2>1. ASSUME b \in B PROVE FALSE
      BY <2>1, <1>7, <1>2
    <2> QED
      BY <2>1, <1>9, <1>6
  <1>11. F2 \in SUBSET Block /\ U2 \in SUBSET Block
    BY <1>1, <1>2, <1>6 DEF F2, U2
  <1>12. F2 \cap U2 = {}
    <2>1. b \notin F \ {big}
      BY <1>6, <1>9
    <2> QED
      BY <2>1, <1>1, <1>6, <1>9, <1>10 DEF F2, U2
  <1>13. F2 \cup U2 = ((F \cup U) \ {big}) \cup N
    BY <1>1, <1>2, <1>6 DEF F2, U2
  <1>14. ASSUME NEW p \in PageNo
         PROVE  \E k \in Order : Around(k, p) \in F2 \cup U2
    <2>1. CASE Around(g, p) = big
      BY <2>1, <1>6, <1>13
    <2>2. CASE Around(g, p) # big
      <3>1. PICK k \in Order : Around(k, p) \in F \cup U
        BY <1>1
      <3>2. Around(k, p) # big
        BY <2>2, <1>2, AroundIs
      <3> QED
        BY <3>1, <3>2, <1>13
    <2> QED
      BY <2>1, <2>2
  <1>15. ASSUME NEW p \in PageNo, NEW j \in Order, NEW k \in Order,
                Around(j, p) \in F2 \cup U2, Around(k, p) \in F2 \cup U2
         PROVE  j = k
    <2>1. CASE Around(g, p) = big
      <3>1. \A i \in Order : Around(i, p) \in F2 \cup U2 => Around(i, p) \in N
        BY <2>1, <1>8, <1>13
      <3> QED
        BY <3>1, <1>6, <1>15
    <2>2. CASE Around(g, p) # big
      <3>1. \A i \in Order : Around(i, p) \in F2 \cup U2 => Around(i, p) \in F \cup U
        BY <2>2, <1>6, <1>13
      <3> QED
        BY <3>1, <1>1, <1>15
    <2> QED
      BY <2>1, <2>2
  <1>16. Tiled(F2, U2)
    BY <1>11, <1>12, <1>14, <1>15 DEF Tiled
  (* No piece around q of a smaller order was free. *)
  <1>17. ASSUME NEW k \in o .. g - 1
         PROVE  Around(k, q) \notin F /\ Buddy(Around(k, q)) \notin F
                /\ Around(k, q) # big /\ Around(k, q) \notin B
    <2>1. k \in Order /\ k # g /\ k < MaxOrder /\ Buddy(Around(k, q)) \in B
      BY <1>7, <1>2, <1>3
    <2>2. Around(k, q) \notin F /\ Around(k, q) # big
      BY <2>1, <1>2, <1>8
    <2>3. Buddy(Around(k, q)) # big
      <3>1. Buddy(Around(k, q)).order = k
        BY <2>1, <1>2, BuddyIs
      <3> QED
        BY <3>1, <2>1, <1>2
    <2>4. Around(k, q) \notin B
      <3>1. Around(k, q).order = k
        BY <2>1, <1>2, AroundIs
      <3> QED
        BY <3>1, <1>7
    <2> QED
      BY <2>1, <2>2, <2>3, <2>4, <1>6, <1>9
  <1>18. NoPairs(F2)
    <2> SUFFICES ASSUME NEW c \in F2, c.order < MaxOrder, Buddy(c) \in F2
                 PROVE  FALSE
      BY DEF NoPairs
    <2>1. c \in Block /\ c.order \in Order /\ c.page \in PageNo /\ Around(c.order, c.page) = c
      BY <1>11, BlockIs
    <2>2. Buddy(Buddy(c)) = c
      BY <2>1, Pairs
    <2>3. ASSUME NEW d \in B
          PROVE  Buddy(d) \notin F2
      <3>1. d.order \in o .. g - 1 /\ d = Buddy(Around(d.order, q)) /\ d.order \in Order
            /\ d.order < MaxOrder
        BY <1>7
      <3>2. Buddy(d) = Around(d.order, q)
        BY <3>1, <1>2, Pairs
      <3> QED
        BY <3>1, <3>2, <1>17 DEF F2
    <2>4. c \notin B /\ Buddy(c) \notin B
      BY <2>2, <2>3
    <2>5. c \in F /\ Buddy(c) \in F
      BY <2>4 DEF F2
    <2> QED
      BY <2>5, <1>4 DEF NoPairs
  <1>19. \A c \in Block : c \notin B /\ c # big => (c \in F2 <=> c \in F)
    BY DEF F2
  <1>20. ASSUME NEW k \in o .. g, k < MaxOrder
         PROVE  Half(F2, k, q) <=> ~ Half(F, k, q)
    <2>1. CASE k \in o .. g - 1
      <3>1. ~ Half(F, k, q)
        BY <2>1, <1>17 DEF Half
      <3>2. Half(F2, k, q)
        BY <2>1, <1>7 DEF Half, F2
      <3> QED
        BY <3>1, <3>2
    <2>2. CASE k = g
      <3>1. Half(F, g, q)
        BY <1>2 DEF Half
      <3>2. big \notin B /\ Buddy(big) \notin B /\ Buddy(big) \notin F
        <4>1. Buddy(big).order = g
          BY <2>2, <1>2, <1>20, BuddyIs
        <4>2. g \notin o .. g - 1
          BY <1>2, <1>3
        <4> QED
          BY <4>1, <4>2, <1>2, <1>4, <1>7, <1>20, <2>2 DEF NoPairs
      <3>3. ~ Half(F2, g, q)
        BY <3>2, <1>2 DEF Half, F2
      <3> QED
        BY <3>1, <3>3, <2>2
    <2>3. k \in o .. g - 1 \/ k = g
      BY <1>2, <1>3
    <2> QED
      BY <2>1, <2>2, <2>3
  <1>21. Flip(h.map, q, o .. g) = BitSet(F2)
    BY <1>1, <1>2, <1>4, <1>11, <1>19, <1>20, FlipIs DEF B
  <1>22. ASSUME NEW p \in PageNo
         PROVE  /\ (\E k \in Order : Around(k, p) \in F2)
                     <=> (\E k \in Order : Around(k, p) \in F) /\ Around(b.order, p) # b
                /\ Around(b.order, p) = b => \E k \in Order : Around(k, p) \in F
    <2>1. CASE Around(g, p) = big
      <3>1. \E k \in Order : Around(k, p) \in F
        BY <2>1, <1>2
      <3>2. PICK k \in Order : Around(k, p) \in N
        BY <2>1, <1>6
      <3>3. \A i \in Order : Around(i, p) \in F \ {big} => FALSE
        BY <2>1, <1>8
      <3>4. (\E i \in Order : Around(i, p) \in F2) <=> \E i \in Order : Around(i, p) \in B
        BY <3>3 DEF F2
      <3>5. (\E i \in Order : Around(i, p) \in B) <=> Around(o, p) # b
        <4>1. ASSUME NEW i \in Order, Around(i, p) \in B PROVE Around(o, p) # b
          <5>1. Around(o, p) = b => i = o
            BY <4>1, <1>2, <1>6
          <5> QED
            BY <5>1, <4>1, <1>10
        <4>2. Around(o, p) # b => Around(k, p) \in B
          <5>1. Around(k, p) = b => k = o
            BY <1>2, AroundIs
          <5> QED
            BY <5>1, <3>2, <1>6
        <4> QED
          BY <4>1, <4>2
      <3> QED
        BY <3>1, <3>4, <3>5, <1>2
    <2>2. CASE Around(g, p) # big
      <3>1. Around(o, p) # b
        BY <2>2, <1>2, <1>6
      <3>2. \A i \in Order : Around(i, p) \in F2 <=> Around(i, p) \in F
        <4>1. \A i \in Order : Around(i, p) \notin B
          BY <2>2, <1>6
        <4>2. \A i \in Order : Around(i, p) # big
          BY <2>2, <1>2, AroundIs
        <4> QED
          BY <4>1, <4>2 DEF F2
      <3> QED
        BY <3>1, <3>2, <1>2
    <2> QED
      BY <2>1, <2>2
  <1>23. /\ Cardinality(FreePages(F)) \in Nat /\ Cardinality(FreePages(F2)) \in Nat
         /\ Cardinality(FreePages(F2)) = Cardinality(FreePages(F)) - Size[b.order]
    BY SMTT(30), <1>1, <1>11, <1>22, CountsBlock
  <1>24. h.freecount - Size[o] = Cardinality(FreePages(F2)) + (NPages - Usable)
         /\ h.freecount - Size[o] \in Int
    BY <1>23, <1>4, <1>2, SizeIs, UsableIs
  <1>25. BitSet(F2) \in SUBSET ((1 .. MaxOrder) \X Nat)
    <2>1. BitSet(F2) \in SUBSET ((1 .. MaxOrder) \X (0 .. NPages))
      BY <1>11, BitSetType
    <2>2. 0 .. NPages \subseteq Nat
      OBVIOUS
    <2> QED
      BY <2>1, <2>2
  <1>26. Fit([free |-> F2, map |-> BitSet(F2), freecount |-> h.freecount - Size[o]], U2)
    BY <1>11, <1>16, <1>18, <1>24, <1>25 DEF Fit
  <1> QED
    BY <1>5, <1>10, <1>21, <1>26 DEF U2

-----------------------------------------------------------------------------
(* The order up to which a block is joined with its buddies.               *)
TopOf(h, b) == Min({MaxOrder} \cup {k \in b.order .. MaxOrder - 1 : Bit(k + 1, b.page) \notin h.map})

(* Up to there every bit is set, and there it is not. *)
LEMMA TopIs ==
  ASSUME HeapAssumption, NEW h, NEW b \in Block
  PROVE  /\ TopOf(h, b) \in Order /\ b.order <= TopOf(h, b)
         /\ \A k \in b.order .. TopOf(h, b) - 1 :
              k \in Order /\ k < MaxOrder /\ Bit(k + 1, b.page) \in h.map
         /\ TopOf(h, b) < MaxOrder => Bit(TopOf(h, b) + 1, b.page) \notin h.map
  <1> DEFINE S == {MaxOrder} \cup {k \in b.order .. MaxOrder - 1 : Bit(k + 1, b.page) \notin h.map}
  <1>1. /\ MaxOrder \in Nat /\ Order \subseteq Nat /\ b.order \in Nat /\ b.order <= MaxOrder
        /\ \A k \in b.order .. MaxOrder : k \in Order
    BY SizeIs, BlockIs DEF Order
  <1>2. S \in SUBSET Nat /\ MaxOrder \in S
    BY <1>1
  <1>3. \E m \in S : \A k \in S : m <= k
    BY <1>2, LeastNumber
  <1>4. TopOf(h, b) \in S /\ \A k \in S : TopOf(h, b) <= k
    BY <1>3 DEF TopOf, Min
  <1> DEFINE t == TopOf(h, b)
  <1> HIDE DEF t
  <1>5. t \in S /\ t <= MaxOrder /\ t \in Nat /\ \A k \in S : t <= k
    BY <1>2, <1>4 DEF t
  <1>6. t \in Order /\ b.order <= t
    BY <1>5, <1>1
  <1>7. ASSUME NEW k \in b.order .. t - 1
        PROVE  k \in Order /\ k < MaxOrder /\ Bit(k + 1, b.page) \in h.map
    <2>1. k \in b.order .. MaxOrder - 1 /\ k \in Order /\ k < MaxOrder /\ ~(t <= k)
      BY <1>1, <1>5
    <2> QED
      BY <2>1, <1>5
  <1>8. t < MaxOrder => Bit(t + 1, b.page) \notin h.map
    BY <1>5, <1>1
  <1> QED
    BY <1>6, <1>7, <1>8 DEF t

(* A block b comes back. *)
LEMMA JoinKeeps ==
  ASSUME HeapAssumption, NEW h, NEW U, Fit(h, U), NEW b \in U
  PROVE  Fit(Join(h, b), U \ {b})
  <1> DEFINE F == h.free
             o == b.order
             g == TopOf(h, b)
             q == b.page
             T == Around(g, q)
             B == Buds(o, g, q)
             N == Parts(o, g, q)
             F2 == (F \ B) \cup {T}
             U2 == U \ {b}
  <1>1. /\ F \in SUBSET Block /\ U \in SUBSET Block /\ F \cap U = {}
        /\ \A p \in PageNo : \E k \in Order : Around(k, p) \in F \cup U
        /\ \A p \in PageNo, j, k \in Order :
             Around(j, p) \in F \cup U /\ Around(k, p) \in F \cup U => j = k
    BY DEF Fit, Tiled
  <1>2. /\ o \in Order /\ q \in PageNo /\ Around(o, q) = b /\ b.order = o
        /\ g \in Order /\ Around(g, q) = T /\ o <= g
        /\ b \in Block /\ b \in U /\ T \in Block /\ T.order = g
    BY <1>1, BlockIs, TopIs, AroundIs
  <1>3. /\ MaxOrder \in Nat /\ Order \subseteq Nat
        /\ \A k \in o .. g - 1 : k \in Order /\ k < MaxOrder /\ Bit(k + 1, q) \in h.map
        /\ g < MaxOrder => Bit(g + 1, q) \notin h.map
    <2>1. MaxOrder \in Nat /\ Order \subseteq Nat
      BY SizeIs DEF Order
    <2> QED
      BY <2>1, <1>2, TopIs
  <1>4. NoPairs(F) /\ h.map = BitSet(F)
        /\ h.freecount = Cardinality(FreePages(F)) + (NPages - Usable)
    BY DEF Fit
  <1>5. Join(h, b) = [free |-> F2, map |-> Flip(h.map, q, o .. g),
                       freecount |-> h.freecount + Size[o]]
    BY DEF Join, Buds, TopOf
  <1> HIDE DEF F, o, g, q, T, B, N, F2, U2
  <1>6. /\ N = {b} \cup B /\ N \subseteq Block
        /\ \A p \in PageNo : Around(g, p) = T => \E k \in Order : Around(k, p) \in N
        /\ \A p \in PageNo, k \in Order : Around(k, p) \in N => Around(g, p) = T
        /\ \A p \in PageNo, j, k \in Order : Around(j, p) \in N /\ Around(k, p) \in N => j = k
    BY <1>2, PartsAre DEF N, B, Parts
  <1>7. /\ \A k \in o .. g - 1 : k \in Order /\ k < MaxOrder /\ Buddy(Around(k, q)) \in B
        /\ \A c \in B : /\ c \in Block /\ c.order \in o .. g - 1 /\ c.order \in Order
                        /\ c.order < MaxOrder
                        /\ c = Buddy(Around(c.order, q)) /\ c # Around(c.order, q)
                        /\ c.page \in PageNo /\ Around(c.order, c.page) = c
                        /\ Around(c.order + 1, c.page) = Around(c.order + 1, q)
    BY <1>2, BudsAre DEF B
  (* What is around q is b: nothing free, and no other block in use.        *)
  <1>8. \A k \in Order : Around(k, q) \in F \cup U => Around(k, q) = b
    BY <1>1, <1>2
  <1>9. b \notin F /\ b \notin B /\ \A k \in Order : Around(k, q) \notin F
    <2>1. ASSUME b \in B PROVE FALSE
      BY <2>1, <1>7, <1>2
    <2> QED
      BY <2>1, <1>1, <1>2, <1>8
  (* The bits tell the truth: the buddies are free. *)
  <1>10. ASSUME NEW k \in Order, k < MaxOrder
         PROVE  Half(F, k, q) <=> Bit(k + 1, q) \in h.map
    BY <1>1, <1>2, <1>4, <1>10, InBitSet
  <1>11. B \subseteq F
    <2> SUFFICES ASSUME NEW c \in B PROVE c \in F
      OBVIOUS
    <2>1. /\ c.order \in o .. g - 1 /\ c.order \in Order /\ c.order < MaxOrder
          /\ c = Buddy(Around(c.order, q))
      BY <1>7
    <2>2. Half(F, c.order, q)
      BY <2>1, <1>3, <1>10
    <2> QED
      BY <2>1, <2>2, <1>9 DEF Half
  <1>12. N \subseteq F \cup U
    BY <1>2, <1>6, <1>11
  (* Nothing else is around the pages of T. *)
  <1>13. ASSUME NEW p \in PageNo, NEW k \in Order, Around(g, p) = T, Around(k, p) \in F \cup U
         PROVE  Around(k, p) \in N
    BY <1>1, <1>6, <1>12, <1>13
  <1>14. T \in F \cup U => T = b
    BY <1>2, <1>8
  <1>15. F2 \in SUBSET Block /\ U2 \in SUBSET Block
    BY <1>1, <1>2 DEF F2, U2
  <1>16. F2 \cap U2 = {}
    BY <1>1, <1>14 DEF F2, U2
  <1>17. F2 \cup U2 = ((F \cup U) \ N) \cup {T}
    BY <1>1, <1>2, <1>6, <1>9, <1>11 DEF F2, U2
  <1>18. ASSUME NEW p \in PageNo
         PROVE  \E k \in Order : Around(k, p) \in F2 \cup U2
    <2>1. CASE Around(g, p) = T
      BY <2>1, <1>2, <1>17
    <2>2. CASE Around(g, p) # T
      <3>1. PICK k \in Order : Around(k, p) \in F \cup U
        BY <1>1
      <3> QED
        BY <2>2, <3>1, <1>6, <1>17
    <2> QED
      BY <2>1, <2>2
  <1>19. ASSUME NEW p \in PageNo, NEW j \in Order, NEW k \in Order,
                Around(j, p) \in F2 \cup U2, Around(k, p) \in F2 \cup U2
         PROVE  j = k
    <2>1. \A i \in Order : Around(i, p) = T => i = g
      BY <1>2, AroundIs
    <2>2. CASE Around(g, p) = T
      <3>1. \A i \in Order : Around(i, p) \in F2 \cup U2 => i = g
        BY <2>1, <2>2, <1>13, <1>17
      <3> QED
        BY <3>1, <1>19
    <2>3. CASE Around(g, p) # T
      <3>1. \A i \in Order : Around(i, p) \in F2 \cup U2 => Around(i, p) \in F \cup U
        BY <2>1, <2>3, <1>17
      <3> QED
        BY <3>1, <1>1, <1>19
    <2> QED
      BY <2>2, <2>3
  <1>20. Tiled(F2, U2)
    BY <1>15, <1>16, <1>18, <1>19 DEF Tiled
  <1>21. g < MaxOrder => ~ Half(F, g, q)
    BY <1>2, <1>3, <1>10
  <1>22. NoPairs(F2)
    <2> SUFFICES ASSUME NEW c \in F2, c.order < MaxOrder, Buddy(c) \in F2
                 PROVE  FALSE
      BY DEF NoPairs
    <2>1. c \in Block /\ c.order \in Order /\ c.page \in PageNo /\ Around(c.order, c.page) = c
      BY <1>15, BlockIs
    <2>2. Buddy(Buddy(c)) = c /\ Buddy(c) # c
      BY <2>1, Pairs
    <2>3. g < MaxOrder => Buddy(T) \notin F
      BY <1>21, <1>2 DEF Half
    <2>4. CASE c = T
      <3>1. Buddy(c) \in F /\ g < MaxOrder
        BY <2>2, <2>4, <1>2 DEF F2
      <3> QED
        BY <3>1, <2>3, <2>4
    <2>5. CASE Buddy(c) = T
      <3>1. Buddy(c).order = c.order
        BY <2>1, BuddyIs
      <3>2. g < MaxOrder /\ Buddy(T) = c /\ c \in F
        BY <3>1, <2>2, <2>5, <1>2 DEF F2
      <3> QED
        BY <3>2, <2>3
    <2>6. CASE c # T /\ Buddy(c) # T
      BY <2>6, <1>4 DEF F2, NoPairs
    <2> QED
      BY <2>4, <2>5, <2>6
  <1>23. \A c \in Block : c \notin B /\ c # T => (c \in F2 <=> c \in F)
    BY DEF F2
  <1>24. ASSUME NEW k \in o .. g, k < MaxOrder
         PROVE  Half(F2, k, q) <=> ~ Half(F, k, q)
    <2>1. CASE k \in o .. g - 1
      <3>1. k \in Order /\ Buddy(Around(k, q)) \in B /\ k # g
        BY <2>1, <1>2, <1>3, <1>7
      <3>2. Half(F, k, q)
        BY <3>1, <1>11 DEF Half
      <3>3. Around(k, q) # T /\ Buddy(Around(k, q)) # T
        <4>1. Around(k, q).order = k /\ Buddy(Around(k, q)).order = k
          BY <3>1, <1>2, <1>24, AroundIs, BuddyIs
        <4> QED
          BY <4>1, <3>1, <1>2
      <3>4. ~ Half(F2, k, q)
        BY <3>1, <3>3, <1>9 DEF Half, F2
      <3> QED
        BY <3>2, <3>4
    <2>2. CASE k = g
      BY <2>2, <1>2, <1>21, <1>24 DEF Half, F2
    <2>3. k \in o .. g - 1 \/ k = g
      BY <1>2, <1>3
    <2> QED
      BY <2>1, <2>2, <2>3
  <1>25. Flip(h.map, q, o .. g) = BitSet(F2)
    BY <1>1, <1>2, <1>4, <1>15, <1>23, <1>24, FlipIs DEF B, T
  <1>26. ASSUME NEW p \in PageNo
         PROVE  /\ (\E k \in Order : Around(k, p) \in F)
                     <=> (\E k \in Order : Around(k, p) \in F2) /\ Around(b.order, p) # b
                /\ Around(b.order, p) = b => \E k \in Order : Around(k, p) \in F2
    <2>1. CASE Around(g, p) = T
      <3>1. \E k \in Order : Around(k, p) \in F2
        BY <2>1, <1>2 DEF F2
      <3>2. PICK k \in Order : Around(k, p) \in N
        BY <2>1, <1>6
      <3>3. \A i \in Order : Around(i, p) \in F => i = k
        BY <2>1, <3>2, <1>6, <1>13
      <3>4. (\E i \in Order : Around(i, p) \in F) <=> Around(o, p) # b
        <4>1. ASSUME NEW i \in Order, Around(i, p) \in F PROVE Around(o, p) # b
          <5>1. Around(o, p) = b => o = i
            BY <4>1, <1>1, <1>2
          <5> QED
            BY <5>1, <4>1, <1>9
        <4>2. Around(o, p) # b => Around(k, p) \in F
          <5>1. Around(k, p) = b => k = o
            BY <1>2, AroundIs
          <5> QED
            BY <5>1, <3>2, <1>6, <1>11
        <4> QED
          BY <4>1, <4>2
      <3> QED
        BY <3>1, <3>4, <1>2
    <2>2. CASE Around(g, p) # T
      <3>1. Around(o, p) # b
        BY <2>2, <1>2, <1>6
      <3>2. \A i \in Order : Around(i, p) \in F2 <=> Around(i, p) \in F
        <4>1. \A i \in Order : Around(i, p) \notin B
          BY <2>2, <1>6
        <4>2. \A i \in Order : Around(i, p) # T
          BY <2>2, <1>2, AroundIs
        <4> QED
          BY <4>1, <4>2 DEF F2
      <3> QED
        BY <3>1, <3>2, <1>2
    <2> QED
      BY <2>1, <2>2
  <1>27. /\ Cardinality(FreePages(F)) \in Nat /\ Cardinality(FreePages(F2)) \in Nat
         /\ Cardinality(FreePages(F)) = Cardinality(FreePages(F2)) - Size[b.order]
    BY <1>1, <1>2, <1>15, <1>26, CountsBlock
  <1>28. h.freecount + Size[o] = Cardinality(FreePages(F2)) + (NPages - Usable)
         /\ h.freecount + Size[o] \in Int
    BY <1>27, <1>4, <1>2, SizeIs, UsableIs
  <1>29. BitSet(F2) \in SUBSET ((1 .. MaxOrder) \X Nat)
    <2>1. BitSet(F2) \in SUBSET ((1 .. MaxOrder) \X (0 .. NPages))
      BY <1>15, BitSetType
    <2>2. 0 .. NPages \subseteq Nat
      OBVIOUS
    <2> QED
      BY <2>1, <2>2
  <1>30. Fit([free |-> F2, map |-> BitSet(F2), freecount |-> h.freecount + Size[o]], U2)
    BY <1>15, <1>20, <1>22, <1>28, <1>29 DEF Fit
  <1> QED
    BY <1>5, <1>25, <1>30 DEF U2

-----------------------------------------------------------------------------
(* Blocks come back one after the other, as FoldSet takes them.            *)
Pick(s) == CHOOSE x \in s : TRUE
Folds(f, D, h) ==
  f = [s \in D |-> IF s = {} THEN h ELSE Join(f[s \ {Pick(s)}], Pick(s))]

(* A set without the element that is picked is smaller by one.           *)
LEMMA Picked ==
  ASSUME NEW S, IsFiniteSet(S), NEW s \in SUBSET S
  PROVE  /\ Cardinality(s) \in Nat
         /\ s = {} => Cardinality(s) = 0
         /\ s # {} => /\ Pick(s) \in s /\ s \ {Pick(s)} \in SUBSET S
                      /\ Cardinality(s) # 0
                      /\ Cardinality(s \ {Pick(s)}) = Cardinality(s) - 1
  <1>1. IsFiniteSet(s)
    BY FS_Subset
  <1>2. Cardinality(s) \in Nat /\ (Cardinality(s) = 0 <=> s = {})
    BY <1>1, FS_CardinalityType, FS_EmptySet
  <1>3. s # {} => Pick(s) \in s
    BY DEF Pick
  <1>4. s # {} => Cardinality(s \ {Pick(s)}) = Cardinality(s) - 1
    BY <1>1, <1>3, FS_RemoveElement
  <1> QED
    BY <1>2, <1>3, <1>4

(* There is a fold over the sets of at most n elements.                    *)
LEMMA FoldsUpTo ==
  ASSUME NEW S, IsFiniteSet(S), NEW h, NEW n \in Nat
  PROVE  \E f : Folds(f, {s \in SUBSET S : Cardinality(s) <= n}, h)
  <1> DEFINE Level(m) == {s \in SUBSET S : Cardinality(s) <= m}
             Bad == {m \in Nat : ~ \E f : Folds(f, Level(m), h)}
  <1>1. SUFFICES ASSUME Bad # {} PROVE FALSE
    OBVIOUS
  <1>2. PICK m \in Bad : \A k \in Bad : m <= k
    BY <1>1, LeastNumber
  <1>3. m \in Nat /\ ~ \E f : Folds(f, Level(m), h)
    OBVIOUS
  <1>4. CASE m = 0
    <2>1. \A s \in Level(0) : s = {}
      <3> SUFFICES ASSUME NEW s \in SUBSET S, Cardinality(s) <= 0 PROVE s = {}
        OBVIOUS
      <3>1. Cardinality(s) \in Nat /\ (s # {} => Cardinality(s) # 0)
        BY Picked
      <3> QED
        BY <3>1
    <2> DEFINE f == [s \in Level(0) |-> h]
    <2>2. f = [s \in Level(0) |-> IF s = {} THEN h ELSE Join(f[s \ {Pick(s)}], Pick(s))]
      BY <2>1
    <2> QED
      BY <2>2, <1>3, <1>4 DEF Folds
  <1>5. CASE m # 0
    <2>1. m - 1 \in Nat /\ m - 1 \notin Bad
      <3>1. m - 1 \in Nat /\ ~(m <= m - 1)
        BY <1>3, <1>5
      <3> HIDE DEF Bad
      <3> QED
        BY <3>1, <1>2
    <2>2. PICK f : Folds(f, Level(m - 1), h)
      BY <2>1
    <2> DEFINE Of(a, s) == IF s = {} THEN h ELSE Join(a[s \ {Pick(s)}], Pick(s))
               g == [s \in Level(m) |-> Of(f, s)]
    <2>3. \A s \in Level(m - 1) : f[s] = Of(f, s)
      BY <2>2, Zenon DEF Folds
    <2>4. Level(m - 1) \subseteq Level(m)
      <3> SUFFICES ASSUME NEW s \in SUBSET S, Cardinality(s) <= m - 1 PROVE Cardinality(s) <= m
        OBVIOUS
      <3>1. Cardinality(s) \in Nat
        BY Picked
      <3> QED
        BY <3>1, <1>3
    <2>5. \A s \in Level(m) : s # {} => s \ {Pick(s)} \in Level(m - 1)
      <3> SUFFICES ASSUME NEW s \in SUBSET S, Cardinality(s) <= m, s # {}
                   PROVE  s \ {Pick(s)} \in SUBSET S /\ Cardinality(s \ {Pick(s)}) <= m - 1
        OBVIOUS
      <3>1. /\ Cardinality(s) \in Nat /\ s \ {Pick(s)} \in SUBSET S
            /\ Cardinality(s \ {Pick(s)}) = Cardinality(s) - 1
        BY Picked
      <3> QED
        BY <3>1, <1>3
    <2> HIDE DEF Level
    <2>6. \A s \in Level(m - 1) : g[s] = f[s]
      BY <2>3, <2>4
    <2>7. \A s \in Level(m) : g[s] = Of(g, s)
      <3>1. ASSUME NEW s \in Level(m) PROVE Of(f, s) = Of(g, s)
        <4>1. CASE s = {}
          BY <4>1
        <4>2. CASE s # {}
          <5>1. g[s \ {Pick(s)}] = f[s \ {Pick(s)}]
            BY <4>2, <2>5, <2>6
          <5> HIDE DEF g
          <5> QED
            BY <5>1, <4>2, Zenon
        <4> QED
          BY <4>1, <4>2
      <3>2. \A s \in Level(m) : g[s] = Of(f, s)
        BY Zenon
      <3> QED
        BY <3>1, <3>2, Zenon
    <2>8. g = [s \in Level(m) |-> g[s]]
      BY Zenon
    <2>9. g = [s \in Level(m) |-> Of(g, s)]
      <3> HIDE DEF g, Of
      <3> QED
        BY <2>7, <2>8, Zenon
    <2> HIDE DEF g
    <2>10. Folds(g, Level(m), h)
      BY <2>9, Zenon DEF Folds
    <2> QED
      BY <2>10, <1>3
  <1> QED
    BY <1>4, <1>5

(* FoldSet is such a fold. *)
LEMMA FoldIs ==
  ASSUME NEW S, IsFiniteSet(S), NEW h
  PROVE  \E f : Folds(f, SUBSET S, h)
                /\ FoldSet(LAMBDA b, g : Join(g, b), h, S) = f[S]
  <1>1. Cardinality(S) \in Nat
    BY FS_CardinalityType
  <1>2. \A s \in SUBSET S : Cardinality(s) <= Cardinality(S)
    BY FS_Subset
  <1>3. {s \in SUBSET S : Cardinality(s) <= Cardinality(S)} = SUBSET S
    BY <1>2
  <1>4. \E f : Folds(f, SUBSET S, h)
    <2>1. \E f : Folds(f, {s \in SUBSET S : Cardinality(s) <= Cardinality(S)}, h)
      BY <1>1, FoldsUpTo
    <2> QED
      BY <2>1, <1>3
  <1> DEFINE f == CHOOSE f : Folds(f, SUBSET S, h)
  <1>5. Folds(f, SUBSET S, h)
    BY <1>4, Zenon
  <1>6. FoldSet(LAMBDA b, g : Join(g, b), h, S) = f[S]
    BY Zenon DEF FoldSet, MapThenFoldSet, Folds, Pick
  <1> QED
    BY <1>5, <1>6

(* Whatever the order, each of the blocks comes back.                      *)
LEMMA AllJoinKeep ==
  ASSUME HeapAssumption, NEW h, NEW U, Fit(h, U), NEW S \in SUBSET U, IsFiniteSet(S)
  PROVE  Fit(FoldSet(LAMBDA b, g : Join(g, b), h, S), U \ S)
  <1>1. PICK f : Folds(f, SUBSET S, h)
                 /\ FoldSet(LAMBDA b, g : Join(g, b), h, S) = f[S]
    BY FoldIs
  <1>2. \A s \in SUBSET S : f[s] = IF s = {} THEN h ELSE Join(f[s \ {Pick(s)}], Pick(s))
    BY <1>1, Zenon DEF Folds
  <1> DEFINE Bad == {s \in SUBSET S : ~ Fit(f[s], U \ s)}
             N == {Cardinality(s) : s \in Bad}
  <1>3. ASSUME Bad # {} PROVE FALSE
    <2>1. N \in SUBSET Nat /\ N # {}
      <3>1. \A s \in SUBSET S : Cardinality(s) \in Nat
        BY Picked
      <3>2. Bad \subseteq SUBSET S
        OBVIOUS
      <3> HIDE DEF Bad
      <3> QED
        BY <3>1, <3>2, <1>3
    <2>2. PICK m \in N : \A k \in N : m <= k
      BY <2>1, LeastNumber
    <2>3. PICK s \in Bad : m = Cardinality(s)
      BY <2>2
    <2>4. s \in SUBSET S /\ ~ Fit(f[s], U \ s)
      OBVIOUS
    <2>5. CASE s = {}
      <3>1. f[s] = h /\ U \ s = U
        BY <2>5, <1>2
      <3> QED
        BY <3>1, <2>4
    <2>6. CASE s # {}
      <3> DEFINE x == Pick(s)
                 t == s \ {x}
      <3>1. x \in s /\ t \in SUBSET S /\ Cardinality(t) = m - 1 /\ m \in Nat /\ x \in U
        BY <2>3, <2>4, <2>6, Picked
      <3>2. f[s] = Join(f[t], x)
        BY <2>4, <2>6, <1>2, Zenon
      <3> HIDE DEF x
      <3>3. t \notin Bad
        <4>1. ~(m <= m - 1)
          BY <3>1
        <4>2. Cardinality(t) \notin N
          BY <4>1, <3>1, <2>2
        <4> QED
          BY <4>2
      <3> HIDE DEF t
      <3>4. Fit(f[t], U \ t)
        BY <3>1, <3>3
      <3>5. x \in U \ t /\ (U \ t) \ {x} = U \ s
        BY <3>1 DEF t
      <3>6. Fit(Join(f[t], x), (U \ t) \ {x})
        BY <3>4, <3>5, JoinKeeps
      <3> QED
        BY <3>2, <3>5, <3>6, <2>4
    <2> QED
      BY <2>5, <2>6
  <1>4. S \notin Bad /\ S \in SUBSET S
    BY <1>3
  <1> QED
    BY <1>1, <1>4

-----------------------------------------------------------------------------
(* There are finitely many blocks. *)
LEMMA BlocksFinite ==
  ASSUME HeapAssumption, NEW S \in SUBSET Block
  PROVE  IsFiniteSet(S)
  <1>1. IsFiniteSet(Order) /\ IsFiniteSet(PageNo)
    <2>1. \A a, z \in Int : IsFiniteSet(a .. z)
      BY FS_Interval
    <2>2. MaxOrder \in Int /\ Usable - 1 \in Int
      BY SizeIs, UsableIs
    <2> QED
      BY <2>1, <2>2 DEF Order, PageNo
  <1> DEFINE P == Order \X PageNo
             T == [order : Order, page : PageNo]
             f == [x \in P |-> [order |-> x[1], page |-> x[2]]]
  <1>2. IsFiniteSet(P)
    BY <1>1, FS_Product
  <1>3. f \in [P -> T]
    OBVIOUS
  <1>4. ASSUME NEW b \in T PROVE \E x \in P : f[x] = b
    <2>1. <<b.order, b.page>> \in P
      OBVIOUS
    <2>2. f[<<b.order, b.page>>] = [order |-> b.order, page |-> b.page]
      BY <2>1
    <2>3. b = [order |-> b.order, page |-> b.page]
      OBVIOUS
    <2> QED
      BY <2>1, <2>2, <2>3
  <1> HIDE DEF f, P, T
  <1>5. f \in Surjection(P, T)
    BY <1>3, <1>4 DEF Surjection
  <1>6. IsFiniteSet(T)
    BY <1>2, <1>5, FS_Surjection
  <1>7. Block \subseteq T
    BY DEF Block, T, Order, PageNo
  <1> QED
    BY <1>6, <1>7, FS_Subset

(* What is in use is what callers hold and the slabs, which are apart.     *)
SlabsApart ==
  /\ slabs \in [Allocator -> SUBSET PageNo]
  /\ held \cap SlabBlocks(slabs) = {}
  /\ \A a, c \in Allocator : a # c => slabs[a] \cap slabs[c] = {}

ObjectsIn == objs \subseteq Object /\ ObjectsKeepSlabs

HeapInv == HeapAssumption /\ Fit(Group, InUse) /\ SlabsApart /\ ObjectsIn

(* The blocks of slabs. *)
LEMMA SlabBlocksAre ==
  ASSUME NEW of
  PROVE  \A b : b \in SlabBlocks(of)
                  <=> \E a \in Allocator : \E s \in of[a] : b = [order |-> sa_order[a], page |-> s]
  BY DEF SlabBlocks

(* Becomes sets all of the group. *)
LEMMA BecomesIs ==
  ASSUME NEW h, NEW U, Fit(h, U), Becomes(h)
  PROVE  Group' = h
  BY DEF Fit, Becomes, Group

(* The invariant has the types,                                            *)
LEMMA HeapTypes ==
  ASSUME HeapInv
  PROVE  HeapTypeOK
  <1>1. /\ HeapAssumption /\ Fit(Group, InUse) /\ SlabsApart /\ ObjectsIn
        /\ Group.free = free /\ Group.map = map /\ Group.freecount = freecount
    BY DEF HeapInv, Group
  <1>2. free \in SUBSET Block /\ map = BitSet(free) /\ InUse \in SUBSET Block
        /\ freecount = Cardinality(FreePages(free)) + (NPages - Usable)
    BY <1>1 DEF Fit, Tiled
  <1>3. map \in SUBSET ((1 .. MaxOrder) \X (0 .. NPages))
    BY <1>1, <1>2, BitSetType
  <1>4. Cardinality(FreePages(free)) \in 0 .. Usable
    BY <1>1, <1>2, FreePagesAre
  <1>5. freecount \in 0 .. NPages
    BY <1>1, <1>2, <1>4, UsableIs, SizeIs
  <1>6. held \subseteq Block
    BY <1>2 DEF InUse
  <1> QED
    BY <1>1, <1>2, <1>3, <1>5, <1>6 DEF HeapTypeOK, SlabsApart, ObjectsIn, PageNo

(* and the properties. *)
LEMMA HeapGood ==
  ASSUME HeapInv
  PROVE  HeapOK
  <1>1. /\ HeapAssumption /\ Fit(Group, InUse) /\ SlabsApart /\ ObjectsIn
        /\ Group.free = free /\ Group.map = map /\ Group.freecount = freecount
    BY DEF HeapInv, Group
  <1>2. /\ Tiled(free, InUse) /\ NoPairs(free) /\ map = BitSet(free)
        /\ freecount = Cardinality(FreePages(free)) + (NPages - Usable)
    BY <1>1 DEF Fit
  <1> DEFINE A == free \cup InUse
  <1>3. /\ A \in SUBSET Block /\ free \cap InUse = {}
        /\ \A p \in PageNo : \E k \in Order : Around(k, p) \in A
        /\ \A p \in PageNo, j, k \in Order : Around(j, p) \in A /\ Around(k, p) \in A => j = k
    BY <1>2 DEF Tiled
  <1> HIDE DEF A
  <1>4. ASSUME NEW b \in A, NEW c \in A, NEW p, p \in PagesIn(b), p \in PagesIn(c)
        PROVE  b = c
    <2>1. p \in PageNo /\ Around(b.order, p) = b /\ Around(c.order, p) = c
      BY <1>1, <1>3, <1>4, PagesAround
    <2>2. b.order \in Order /\ c.order \in Order
      BY <1>1, <1>3, BlockIs
    <2> QED
      BY <2>1, <2>2, <1>3
  <1>5. ASSUME NEW p
        PROVE  p \in PageNo <=> \E b \in A : p \in PagesIn(b)
    <2>1. ASSUME p \in PageNo PROVE \E b \in A : p \in PagesIn(b)
      <3>1. PICK k \in Order : Around(k, p) \in A
        BY <1>3, <2>1
      <3>2. Around(k, p) \in Block /\ Around(k, p).order = k
        BY <1>1, <2>1, AroundIs
      <3>3. p \in PagesIn(Around(k, p))
        BY <1>1, <2>1, <3>2, PagesAround
      <3> QED
        BY <3>1, <3>3
    <2>2. ASSUME NEW b \in A, p \in PagesIn(b) PROVE p \in PageNo
      BY <1>1, <1>3, <2>2, PagesAround
    <2> QED
      BY <2>1, <2>2
  <1>6. UNION {PagesIn(b) : b \in A} = 0 .. Usable - 1
    BY <1>5 DEF PageNo
  <1>7. NothingOverlaps
    BY <1>1, <1>3, <1>4, <1>6 DEF NothingOverlaps, SlabsApart, A
  <1>8. BitsTellBuddies
    BY <1>2 DEF BitsTellBuddies, NoPairs, BitSet
  <1>9. CountIsOff
    BY <1>2 DEF CountIsOff, FreePages
  <1> QED
    BY <1>1, <1>7, <1>8, <1>9 DEF HeapOK, ObjectsIn

(* _pagegroup_create: every page is in a free block of the largest size.   *)
LEMMA HeapInitOK ==
  ASSUME HeapAssumption, HeapInit
  PROVE  HeapInv
  <1>1. MaxOrder \in Order /\ MaxOrder \in Nat /\ NPages \in Nat /\ Usable \in Nat
    BY SizeIs, UsableIs DEF Order
  <1>2. free \in SUBSET Block /\ \A b \in Block : b \in free <=> b.order = MaxOrder
    BY DEF HeapInit
  <1>3. InUse = {} /\ SlabBlocks(slabs) = {}
    BY DEF HeapInit, InUse, SlabBlocks
  <1>4. \A p \in PageNo, k \in Order : Around(k, p) \in free <=> k = MaxOrder
    BY <1>2, AroundIs
  <1>5. Tiled(free, InUse)
    BY <1>1, <1>2, <1>3, <1>4 DEF Tiled
  <1>6. \A b \in free : ~(b.order < MaxOrder)
    BY <1>1, <1>2
  <1>7. NoPairs(free) /\ BitSet(free) = {} /\ map = {}
    BY <1>6 DEF NoPairs, BitSet, HeapInit
  <1>8. freecount = Cardinality(FreePages(free)) + (NPages - Usable)
    <2>1. FreePages(free) = PageNo
      <3>1. \A p \in PageNo : \E k \in Order : Around(k, p) \in free
        BY <1>1, <1>4
      <3>2. /\ FreePages(free) \in SUBSET PageNo
            /\ \A p \in PageNo : p \in FreePages(free) <=> \E k \in Order : Around(k, p) \in free
        BY <1>2, FreePagesAre
      <3> QED
        BY <3>1, <3>2
    <2>2. Cardinality(PageNo) = Usable
      <3>1. PICK a \in Int, z \in Int : a = 0 /\ z = Usable - 1
        BY <1>1
      <3>2. Cardinality(a .. z) = IF a > z THEN 0 ELSE z - a + 1
        BY FS_Interval, Zenon
      <3>3. (IF a > z THEN 0 ELSE z - a + 1) = Usable
        BY <3>1, <1>1
      <3> QED
        BY <3>1, <3>2, <3>3 DEF PageNo
    <2> QED
      BY <2>1, <2>2, <1>1 DEF HeapInit
  <1>9. Fit(Group, InUse)
    <2>1. Group = [free |-> free, map |-> map, freecount |-> freecount]
      BY DEF Group
    <2>2. freecount \in Int
      BY <1>1 DEF HeapInit
    <2> QED
      BY <2>1, <2>2, <1>2, <1>5, <1>7, <1>8 DEF Fit
  <1>10. SlabsApart /\ ObjectsIn
    BY <1>3 DEF SlabsApart, ObjectsIn, ObjectsKeepSlabs, HeapInit
  <1> QED
    BY <1>9, <1>10 DEF HeapInv

(* A block that is taken was not in use, and now it is. *)
LEMMA AllocTakes ==
  ASSUME HeapInv, NEW order \in Order, NEW b \in Block, _page_alloc_order(order, b)
  PROVE  /\ b.order = order /\ b \notin InUse
         /\ Fit(Group', InUse \cup {b})
  <1>1. PICK big \in Fits(order) :
          b.order = order /\ Around(big.order, b.page) = big /\ Becomes(Split(Group, big, b))
    BY DEF _page_alloc_order
  <1>2. big \in Group.free /\ order <= big.order
    BY DEF Fits, Group
  <1>3. HeapAssumption /\ Fit(Group, InUse)
    BY DEF HeapInv
  <1>4. Fit(Split(Group, big, b), InUse \cup {b}) /\ b \notin InUse
    BY <1>1, <1>2, <1>3, SplitKeeps
  <1>5. Group' = Split(Group, big, b)
    BY <1>1, <1>4, BecomesIs
  <1> QED
    BY <1>1, <1>4, <1>5

(* slab_allocators_reclaim: only slabs without objects go.                 *)
LEMMA ReclaimKeeps ==
  ASSUME HeapInv, Reclaim, UNCHANGED <<held, objs>>
  PROVE  HeapInv'
  <1>1. /\ HeapAssumption /\ Fit(Group, InUse) /\ SlabsApart /\ ObjectsIn
    BY DEF HeapInv
  <1> DEFINE un == [a \in Allocator |-> Unused(a)]
             gone == SlabBlocks(un)
             all == FoldSet(LAMBDA b, h : Join(h, b), Group, gone)
  <1>2. /\ Becomes(all)
        /\ slabs' = [a \in Allocator |-> slabs[a] \ Unused(a)] /\ held' = held /\ objs' = objs
    BY DEF Reclaim
  <1>3. \A a \in Allocator : Unused(a) \subseteq slabs[a] /\ slabs'[a] = slabs[a] \ Unused(a)
                             /\ un[a] = Unused(a)
    BY <1>2 DEF Unused
  <1> HIDE DEF un
  <1>4. gone \subseteq SlabBlocks(slabs)
    <2>1. ASSUME NEW b \in gone PROVE b \in SlabBlocks(slabs)
      <3>1. b \in SlabBlocks(un)
        OBVIOUS
      <3> HIDE DEF gone
      <3>2. PICK a \in Allocator : \E s \in un[a] :
              b = [order |-> sa_order[a], page |-> s]
        BY <3>1, SlabBlocksAre
      <3>3. PICK s \in un[a] : b = [order |-> sa_order[a], page |-> s]
        BY <3>2
      <3>4. s \in slabs[a]
        BY <1>3
      <3> QED
        BY <3>3, <3>4, SlabBlocksAre
    <2> HIDE DEF gone
    <2> QED
      BY <2>1
  <1>5. SlabBlocks(slabs') = SlabBlocks(slabs) \ gone
    <2>1. ASSUME NEW a \in Allocator, NEW s \in slabs'[a]
          PROVE  [order |-> sa_order[a], page |-> s] \in SlabBlocks(slabs) \ gone
      <3>1. s \in slabs[a] /\ s \notin Unused(a)
        BY <1>3
      <3>2. ASSUME [order |-> sa_order[a], page |-> s] \in gone PROVE FALSE
        <4>1. PICK c \in Allocator : \E t \in un[c] :
                [order |-> sa_order[a], page |-> s] = [order |-> sa_order[c], page |-> t]
          BY <3>2, SlabBlocksAre
        <4>2. PICK t \in un[c] : [order |-> sa_order[a], page |-> s] = [order |-> sa_order[c], page |-> t]
          BY <4>1
        <4>3. s = t
          BY <4>2
        <4>4. s \in Unused(c) /\ s \in slabs[c]
          BY <4>3, <1>3
        <4>5. a = c
          BY <4>4, <3>1, <1>1 DEF SlabsApart
        <4> QED
          BY <4>4, <4>5, <3>1
      <3>3. [order |-> sa_order[a], page |-> s] \in SlabBlocks(slabs)
        BY <3>1, SlabBlocksAre
      <3> QED
        BY <3>2, <3>3
    <2>2. ASSUME NEW a \in Allocator, NEW s \in slabs[a],
                 [order |-> sa_order[a], page |-> s] \notin gone
          PROVE  s \in slabs'[a]
      <3>1. s \notin un[a]
        BY <2>2, SlabBlocksAre
      <3> QED
        BY <3>1, <1>3
    <2> HIDE DEF gone
    <2>3. \A b : b \in SlabBlocks(slabs') => b \in SlabBlocks(slabs) \ gone
      BY <2>1, SlabBlocksAre
    <2>4. \A b : b \in SlabBlocks(slabs) \ gone => b \in SlabBlocks(slabs')
      <3> SUFFICES ASSUME NEW b \in SlabBlocks(slabs) \ gone PROVE b \in SlabBlocks(slabs')
        OBVIOUS
      <3>1. PICK a \in Allocator : \E s \in slabs[a] :
              b = [order |-> sa_order[a], page |-> s]
        BY SlabBlocksAre
      <3>2. PICK s \in slabs[a] : b = [order |-> sa_order[a], page |-> s]
        BY <3>1
      <3>3. s \in slabs'[a]
        BY <3>2, <2>2
      <3> QED
        BY <3>2, <3>3, SlabBlocksAre
    <2> QED
      BY <2>3, <2>4
  <1> HIDE DEF gone
  <1>6. gone \in SUBSET InUse /\ IsFiniteSet(gone)
    <2>1. gone \in SUBSET InUse
      BY <1>4 DEF InUse
    <2>2. InUse \in SUBSET Block
      BY <1>1 DEF Fit, Tiled
    <2> QED
      BY <2>1, <2>2, <1>1, BlocksFinite
  <1>7. Fit(all, InUse \ gone)
    BY <1>1, <1>6, AllJoinKeep
  <1> HIDE DEF all
  <1>8. Group' = all
    BY <1>2, <1>7, BecomesIs
  <1>9. held \cap SlabBlocks(slabs) = {}
    BY <1>1 DEF SlabsApart
  <1>10. InUse' = InUse \ gone
    <2>1. InUse' = held' \cup SlabBlocks(slabs')
      BY DEF InUse, SlabBlocks
    <2> QED
      BY <2>1, <1>2, <1>4, <1>5, <1>9 DEF InUse
  <1>11. Fit(Group, InUse)'
    <2>1. Fit(Group', InUse')
      BY <1>7, <1>8, <1>10
    <2> QED
      BY <2>1 DEF Fit, Tiled, NoPairs, BitSet, FreePages
  <1>12. SlabsApart'
    <2>1. slabs' \in [Allocator -> SUBSET PageNo]
      <3>1. \A a \in Allocator : slabs[a] \ Unused(a) \in SUBSET PageNo
        BY <1>1 DEF SlabsApart
      <3> QED
        BY <3>1, <1>2
    <2>2. SlabBlocks(slabs)' = SlabBlocks(slabs')
      BY DEF SlabBlocks
    <2>3. \A a, c \in Allocator : a # c => slabs'[a] \cap slabs'[c] = {}
      BY <1>1, <1>3 DEF SlabsApart
    <2>4. held' \cap SlabBlocks(slabs') = {}
      BY <1>2, <1>5, <1>9
    <2> QED
      BY <2>1, <2>2, <2>3, <2>4 DEF SlabsApart
  <1>13. ObjectsIn'
    <2>1. ASSUME NEW o \in objs PROVE o[2] \in slabs'[o[1]]
      <3>1. o[2] \in slabs[o[1]] /\ o[1] \in Allocator
        BY <1>1 DEF ObjectsIn, ObjectsKeepSlabs, Object
      <3>2. o[2] \notin Unused(o[1])
        BY DEF Unused
      <3> QED
        BY <3>1, <3>2, <1>3
    <2> QED
      BY <2>1, <1>1, <1>2 DEF ObjectsIn, ObjectsKeepSlabs
  <1> QED
    BY <1>1, <1>11, <1>12, <1>13 DEF HeapInv

-----------------------------------------------------------------------------
(* page_alloc_n takes a block, or reclaims slabs. *)
LEMMA AllocKeeps ==
  ASSUME HeapInv, NEW order \in Order, page_alloc_n(order)
  PROVE  HeapInv'
  <1>1. /\ HeapAssumption /\ Fit(Group, InUse) /\ SlabsApart /\ ObjectsIn
    BY DEF HeapInv
  <1>2. CASE \E b \in Block : /\ _page_alloc_order(order, b)
                              /\ held' = held \cup {b}
                              /\ UNCHANGED <<slabs, objs>>
    <2>1. PICK b \in Block : /\ _page_alloc_order(order, b)
                             /\ held' = held \cup {b} /\ slabs' = slabs /\ objs' = objs
      BY <1>2
    <2>2. b \notin InUse /\ Fit(Group', InUse \cup {b})
      BY <2>1, AllocTakes
    <2>3. SlabBlocks(slabs)' = SlabBlocks(slabs)
      BY <2>1 DEF SlabBlocks
    <2>4. InUse' = InUse \cup {b}
      BY <2>1, <2>3 DEF InUse
    <2>5. Fit(Group, InUse)'
      <3>1. Fit(Group', InUse')
        BY <2>2, <2>4
      <3> QED
        BY <3>1 DEF Fit, Tiled, NoPairs, BitSet, FreePages
    <2>6. SlabsApart'
      BY <1>1, <2>1, <2>2, <2>3 DEF SlabsApart, InUse
    <2>7. ObjectsIn'
      BY <1>1, <2>1 DEF ObjectsIn, ObjectsKeepSlabs
    <2> QED
      BY <1>1, <2>5, <2>6, <2>7 DEF HeapInv
  <1>3. CASE Reclaim /\ UNCHANGED <<held, objs>>
    BY <1>3, ReclaimKeeps
  <1> QED
    BY <1>2, <1>3 DEF page_alloc_n

(* page_free_n gives one back. *)
LEMMA FreeKeeps ==
  ASSUME HeapInv, NEW b \in held, page_free_n(b)
  PROVE  HeapInv'
  <1>1. /\ HeapAssumption /\ Fit(Group, InUse) /\ SlabsApart /\ ObjectsIn
    BY DEF HeapInv
  <1>2. held' = held \ {b} /\ Becomes(Join(Group, b)) /\ slabs' = slabs /\ objs' = objs
    BY DEF page_free_n
  <1>3. b \in InUse /\ b \notin SlabBlocks(slabs)
    BY <1>1 DEF InUse, SlabsApart
  <1>4. Fit(Join(Group, b), InUse \ {b})
    BY <1>1, <1>3, JoinKeeps
  <1>5. Group' = Join(Group, b)
    BY <1>2, <1>4, BecomesIs
  <1>6. SlabBlocks(slabs)' = SlabBlocks(slabs)
    BY <1>2 DEF SlabBlocks
  <1>7. InUse' = InUse \ {b}
    BY <1>2, <1>3, <1>6 DEF InUse
  <1>8. Fit(Group, InUse)'
    <2>1. Fit(Group', InUse')
      BY <1>4, <1>5, <1>7
    <2> QED
      BY <2>1 DEF Fit, Tiled, NoPairs, BitSet, FreePages
  <1>9. SlabsApart'
    BY <1>1, <1>2, <1>6 DEF SlabsApart
  <1>10. ObjectsIn'
    BY <1>1, <1>2 DEF ObjectsIn, ObjectsKeepSlabs
  <1> QED
    BY <1>1, <1>8, <1>9, <1>10 DEF HeapInv

(* A new slab is a block of its own, and no slab of another allocator has  *)
(* its first page.                                                         *)
LEMMA GrowKeeps ==
  ASSUME HeapInv, NEW a \in Allocator, NEW b \in Block, _page_alloc_order(sa_order[a], b),
         slabs' = [slabs EXCEPT ![a] = @ \cup {b.page}],
         objs' = objs \cup {<<a, b.page, 1>>}, held' = held
  PROVE  HeapInv'
  <1>1. /\ HeapAssumption /\ Fit(Group, InUse) /\ SlabsApart /\ ObjectsIn
    BY DEF HeapInv
  <1>2. sa_order[a] \in Order /\ sa_slab_nobjs[a] \in Nat \ {0}
    BY <1>1 DEF HeapAssumption, Order
  <1>3. b.order = sa_order[a] /\ b \notin InUse /\ Fit(Group', InUse \cup {b})
    BY <1>2, AllocTakes
  <1>4. b.page \in PageNo /\ b = [order |-> sa_order[a], page |-> b.page]
        /\ Around(b.order, b.page) = b /\ b.order \in Order
    BY <1>1, <1>3, BlockIs
  <1>5. /\ slabs' \in [Allocator -> SUBSET PageNo]
        /\ slabs'[a] = slabs[a] \cup {b.page}
        /\ \A c \in Allocator : c # a => slabs'[c] = slabs[c]
    BY <1>1, <1>4 DEF SlabsApart
  <1>6. SlabBlocks(slabs') = SlabBlocks(slabs) \cup {b}
    <2>1. \A x : x \in SlabBlocks(slabs') => x \in SlabBlocks(slabs) \cup {b}
      <3> SUFFICES ASSUME NEW x, x \in SlabBlocks(slabs'), x # b PROVE x \in SlabBlocks(slabs)
        OBVIOUS
      <3>1. PICK c \in Allocator : \E s \in slabs'[c] :
              x = [order |-> sa_order[c], page |-> s]
        BY SlabBlocksAre
      <3>2. PICK s \in slabs'[c] : x = [order |-> sa_order[c], page |-> s]
        BY <3>1
      <3>3. s \in slabs[c]
        BY <3>2, <1>4, <1>5
      <3> QED
        BY <3>2, <3>3, SlabBlocksAre
    <2>2. \A x : x \in SlabBlocks(slabs) => x \in SlabBlocks(slabs')
      <3> SUFFICES ASSUME NEW x, x \in SlabBlocks(slabs) PROVE x \in SlabBlocks(slabs')
        OBVIOUS
      <3>1. PICK c \in Allocator : \E s \in slabs[c] :
              x = [order |-> sa_order[c], page |-> s]
        BY SlabBlocksAre
      <3>2. PICK s \in slabs[c] : x = [order |-> sa_order[c], page |-> s]
        BY <3>1
      <3>3. s \in slabs'[c]
        BY <1>5
      <3> QED
        BY <3>2, <3>3, SlabBlocksAre
    <2>3. b \in SlabBlocks(slabs')
      BY <1>4, <1>5, SlabBlocksAre
    <2> QED
      BY <2>1, <2>2, <2>3
  <1>7. SlabBlocks(slabs)' = SlabBlocks(slabs')
    BY DEF SlabBlocks
  <1>8. InUse' = InUse \cup {b}
    BY <1>6, <1>7 DEF InUse
  <1>9. Fit(Group, InUse)'
    <2>1. Fit(Group', InUse')
      BY <1>3, <1>8
    <2> QED
      BY <2>1 DEF Fit, Tiled, NoPairs, BitSet, FreePages
  <1>10. ASSUME NEW c \in Allocator, c # a
         PROVE  b.page \notin slabs[c]
    <2> SUFFICES ASSUME b.page \in slabs[c] PROVE FALSE
      OBVIOUS
    <2> DEFINE d == [order |-> sa_order[c], page |-> b.page]
    <2>1. d \in InUse /\ d.order = sa_order[c] /\ d.page = b.page
      BY SlabBlocksAre DEF InUse
    <2>2. InUse \in SUBSET Block
      BY <1>1 DEF Fit, Tiled
    <2> HIDE DEF d
    <2>3. Around(d.order, b.page) = d /\ d.order \in Order
      BY <1>1, <2>1, <2>2, BlockIs
    <2>4. d.order = b.order
      BY <1>3, <1>4, <2>1, <2>3 DEF Fit, Tiled
    <2>5. d = b
      BY <2>3, <2>4, <1>4
    <2> QED
      BY <2>1, <2>5, <1>3
  <1>11. SlabsApart'
    <2>1. held' \cap SlabBlocks(slabs)' = {}
      BY <1>1, <1>3, <1>6, <1>7 DEF SlabsApart, InUse
    <2>2. \A c, d \in Allocator : c # d => slabs'[c] \cap slabs'[d] = {}
      BY <1>1, <1>5, <1>10 DEF SlabsApart
    <2> QED
      BY <2>1, <2>2, <1>5 DEF SlabsApart
  <1>12. ObjectsIn'
    <2>1. <<a, b.page, 1>> \in Object
      <3>1. 1 \in 1 .. sa_slab_nobjs[a]
        BY <1>2
      <3> QED
        BY <3>1, <1>4 DEF Object, PageNo
    <2>2. \A o \in objs : o[2] \in slabs'[o[1]]
      <3> SUFFICES ASSUME NEW o \in objs PROVE o[2] \in slabs'[o[1]]
        OBVIOUS
      <3>1. o[1] \in Allocator /\ o[2] \in slabs[o[1]]
        BY <1>1 DEF ObjectsIn, ObjectsKeepSlabs, Object
      <3> QED
        BY <3>1, <1>5
    <2> QED
      BY <2>1, <2>2, <1>1, <1>5 DEF ObjectsIn, ObjectsKeepSlabs
  <1> QED
    BY <1>1, <1>9, <1>11, <1>12 DEF HeapInv

(* Steps that change no page. *)
LEMMA PagesStay ==
  ASSUME HeapInv, UNCHANGED <<pagegroup, held, slabs>>, ObjectsIn'
  PROVE  HeapInv'
  <1>1. Group' = Group /\ InUse' = InUse /\ SlabBlocks(slabs)' = SlabBlocks(slabs)
    BY DEF Group, InUse, SlabBlocks, pagegroup
  <1>2. Fit(Group, InUse)'
    <2>1. Fit(Group', InUse')
      BY <1>1 DEF HeapInv
    <2> QED
      BY <2>1 DEF Fit, Tiled, NoPairs, BitSet, FreePages
  <1> QED
    BY <1>1, <1>2 DEF HeapInv, SlabsApart

(* slab_obj_alloc takes an object, a slab, or reclaims slabs.            *)
LEMMA SlabKeeps ==
  ASSUME HeapInv, NEW a \in Allocator, slab_obj_alloc(a)
  PROVE  HeapInv'
  <1>1. ObjectsIn
    BY DEF HeapInv
  <1>2. CASE /\ \E o \in FreeObjects(a) : objs' = objs \cup {o}
             /\ UNCHANGED <<pagegroup, held, slabs>>
    <2>1. PICK o \in FreeObjects(a) : objs' = objs \cup {o}
      BY <1>2
    <2>2. ObjectsIn'
      BY <1>1, <1>2, <2>1 DEF ObjectsIn, ObjectsKeepSlabs, FreeObjects
    <2> QED
      BY <1>2, <2>2, PagesStay
  <1>3. CASE /\ \E b \in Block : /\ _page_alloc_order(sa_order[a], b)
                                 /\ slabs' = [slabs EXCEPT ![a] = @ \cup {b.page}]
                                 /\ objs' = objs \cup {<<a, b.page, 1>>}
             /\ UNCHANGED held
    BY <1>3, GrowKeeps
  <1>4. CASE Reclaim /\ UNCHANGED <<held, objs>>
    BY <1>4, ReclaimKeeps
  <1> QED
    BY <1>2, <1>3, <1>4 DEF slab_obj_alloc

(* Every operation keeps the invariant. *)
LEMMA HeapNextKeeps == HeapInv /\ [HeapNext]_heapVars => HeapInv'
  <1> SUFFICES ASSUME HeapInv, [HeapNext]_heapVars PROVE HeapInv'
    OBVIOUS
  <1>1. ASSUME NEW order \in 0 .. MaxOrder, page_alloc_n(order) PROVE HeapInv'
    BY <1>1, AllocKeeps DEF Order
  <1>2. ASSUME NEW b \in held, page_free_n(b) PROVE HeapInv'
    BY <1>2, FreeKeeps
  <1>3. ASSUME NEW a \in Allocator, slab_obj_alloc(a) PROVE HeapInv'
    BY <1>3, SlabKeeps
  <1>4. ASSUME NEW o \in objs, slab_obj_free(o) PROVE HeapInv'
    <2>1. ObjectsIn'
      BY <1>4 DEF HeapInv, ObjectsIn, ObjectsKeepSlabs, slab_obj_free
    <2> QED
      BY <2>1, <1>4, PagesStay DEF slab_obj_free
  <1>5. CASE UNCHANGED heapVars
    <2>1. ObjectsIn'
      BY <1>5 DEF HeapInv, ObjectsIn, ObjectsKeepSlabs, heapVars
    <2> QED
      BY <2>1, <1>5, PagesStay DEF heapVars
  <1> QED
    BY <1>1, <1>2, <1>3, <1>4, <1>5 DEF HeapNext

(* mm/page.c and mm/slab.c: blocks are type-correct, and the count of free *)
(* pages is never negative nor above the number of pages, for any number of*)
(* pages, of orders and of slab allocators.                                *)
THEOREM HeapIsTyped == HeapSpec => []HeapTypeOK
  <1>1. HeapInv => HeapTypeOK
    BY HeapTypes
  <1>2. HeapInit => HeapInv
    BY HeapInitOK, GroupAssumption
  <1> QED
    BY <1>1, <1>2, HeapNextKeeps, PTL DEF HeapSpec

(* mm/page.c and mm/slab.c: blocks never overlap and are all the pages, a  *)
(* bit tells whether just one of two buddies is free, objects keep their   *)
(* slabs, and the count is off by the discarded pages only, for any number *)
(* of pages, of orders and of slab allocators.                             *)
THEOREM HeapStaysWhole == HeapSpec => []HeapOK
  <1>1. HeapInv => HeapOK
    BY HeapGood
  <1>2. HeapInit => HeapInv
    BY HeapInitOK, GroupAssumption
  <1> QED
    BY <1>1, <1>2, HeapNextKeeps, PTL DEF HeapSpec
=============================================================================
