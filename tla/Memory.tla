------------------------------- MODULE Memory -------------------------------
(***************************************************************************)
(* Memory objects and page faults: vm/anon.c, vm/shadow.c, vm/pagefault.c, *)
(* the mapping half of proc/fork.c and what vm/vmmap.c does to the objects *)
(* of its areas.  A process has at most one area, private or shared, over  *)
(* new anonymous memory or over the one file.                              *)
(*                                                                         *)
(* Pages of anonymous and shadow objects are pinned when they are filled   *)
(* and stay until the object goes; the pages of the file are the page      *)
(* cache's (module Cache), where sync cleans them.  A fault and the access *)
(* that caused it are one action: nothing else of the process runs, and    *)
(* the object it fills is the process's own.                               *)
(***************************************************************************)
EXTENDS Naturals, FiniteSets, SequencesExt

CONSTANTS
  Proc,    \* processes
  Obj,     \* anonymous and shadow mmobj_t's, free or in use
  Page,    \* page numbers of an area
  Value,   \* contents of a page, 0 (zeros) among them
  File,    \* the mmobj of a vnode
  NULL

ASSUME MemoryAssumption ==
  /\ IsFiniteSet(Proc) /\ IsFiniteSet(Page)
  /\ IsFiniteSet(Obj) /\ Obj \subseteq Nat
  /\ 0 \in Value
  /\ NULL \notin Value \cup Obj \cup {File} /\ File \notin Obj
  /\ NULL \notin [Page -> Value \cup {NULL}]

VARIABLES
  live,    \* processes that exist
  mmo,     \* refcount of each memory object, and the objects below it:
           \* mmo_shadowed first, the bottom object last
  data,    \* the resident pages of each object, with their contents
  area,    \* vma_obj of each process, and whether MAP_PRIVATE
  vmas,    \* processes with an area on the mmo_vmas list of the file
  pt,      \* page tables: the object a page was taken from, and if writable
  dirty    \* the dirty pages of the file

vars == <<live, mmo, data, area, vmas, pt, dirty>>

NoArea == [obj |-> NULL, private |-> FALSE]
Free   == [refs |-> 0, below |-> <<>>]
NoPages == [n \in Page |-> NULL]

TypeOK ==
  /\ live \subseteq Proc
  /\ mmo \in [Obj -> [refs : Nat, below : Seq(Obj \cup {File})]]
  /\ data \in [Obj \cup {File} -> [Page -> Value \cup {NULL}]]
  /\ area \in [Proc -> [obj : Obj \cup {File, NULL}, private : BOOLEAN]]
  /\ vmas \subseteq Proc
  /\ pt \in [Proc -> [Page -> [obj : Obj \cup {File}, w : BOOLEAN] \cup {NULL}]]
  /\ dirty \subseteq Page

Init ==
  /\ \E p \in Proc : live = {p}
  /\ mmo = [o \in Obj |-> Free]
  /\ data = [o \in Obj \cup {File} |->
               IF o = File THEN [n \in Page |-> 0] ELSE NoPages]
  /\ area = [p \in Proc |-> NoArea]
  /\ vmas = {}
  /\ pt = [p \in Proc |-> NoPages]
  /\ dirty = {}

-----------------------------------------------------------------------------
Resident(o)   == {n \in Page : data[o][n] # NULL}
nrespages(o)  == Cardinality(Resident(o))
FreeObjs      == {o \in Obj : mmo[o].refs = 0}

(* The slab allocator's choice: the k-th free object. *)
Nth(k) ==
  CHOOSE o \in FreeObjs : Cardinality({x \in FreeObjs : x <= o}) = k

Chain(o)  == <<o>> \o IF o \in Obj THEN mmo[o].below ELSE <<>>
Bottom(o) == Last(Chain(o))

(* The object whose page n a lookup for reading finds: the first of the    *)
(* chain that has it, else the bottom object (shadow_lookuppage).          *)
Holder(o, n) ==
  LET c == Chain(o)
  IN c[CHOOSE i \in DOMAIN c :
         /\ data[c[i]][n] # NULL \/ i = Len(c)
         /\ \A j \in 1 .. i - 1 : data[c[j]][n] = NULL]

-----------------------------------------------------------------------------
(* Mutant of Doomed: only the first object of the chain goes. *)
Doomed_OnlyTop(o) ==
  {x \in {o} \cap Obj : mmo[x].refs - 1 = nrespages(x)}

(* shadow_put and anon_put: an object whose other references are those of  *)
(* its pages goes, pages and all, and puts the object it shadows.          *)
Doomed(o) ==
  LET c == Chain(o) IN
  {c[i] : i \in {i \in DOMAIN c : \A j \in 1 .. i :
                   c[j] \in Obj /\ mmo[c[j]].refs - 1 = nrespages(c[j])}}

(* put of an object. *)
Put(o) ==
  LET gone == Doomed(o)
      kept == ({o} \cup {Head(mmo[g].below) : g \in {g \in gone : mmo[g].below # <<>>}})
              \ gone
  IN /\ mmo' = [x \in Obj |->
                  IF x \in gone THEN Free
                  ELSE IF x \in kept THEN [mmo[x] EXCEPT !.refs = @ - 1]
                  ELSE mmo[x]]
     /\ data' = [x \in Obj \cup {File} |->
                   IF x \in gone THEN NoPages ELSE data[x]]

(* vmmap_map of the file or of new anonymous memory. *)
MapShared(p, base) ==
  /\ p \in live /\ area[p] = NoArea
  /\ IF base = File THEN UNCHANGED mmo
     ELSE /\ FreeObjs # {}
          /\ mmo' = [mmo EXCEPT ![Nth(1)].refs = 1]       \* anon_create
  /\ area' = [area EXCEPT ![p].obj = IF base = File THEN File ELSE Nth(1)]
  /\ UNCHANGED <<live, data, vmas, pt, dirty>>

(* A private area gets a shadow over the object and, unlike a shared one,  *)
(* goes on its mmo_vmas list.                                              *)
MapPrivate(p, base) ==
  /\ p \in live /\ area[p] = NoArea
  /\ IF base = File
     THEN /\ FreeObjs # {}
          /\ mmo' = [mmo EXCEPT ![Nth(1)] = [refs |-> 1, below |-> <<File>>]]
          /\ area' = [area EXCEPT ![p] = [obj |-> Nth(1), private |-> TRUE]]
          /\ vmas' = vmas \cup {p}
     ELSE /\ Cardinality(FreeObjs) >= 2
          /\ mmo' = [mmo EXCEPT ![Nth(1)].refs = 1,
                                ![Nth(2)] = [refs |-> 1, below |-> <<Nth(1)>>]]
          /\ area' = [area EXCEPT ![p] = [obj |-> Nth(2), private |-> TRUE]]
          /\ UNCHANGED vmas
  /\ UNCHANGED <<live, data, pt, dirty>>

(* The area goes: it leaves the list, its object is put and its            *)
(* translations are dropped.                                               *)
Unmap(p) ==
  /\ p \in live
  /\ IF area[p] = NoArea THEN UNCHANGED <<mmo, data>> ELSE Put(area[p].obj)
  /\ area' = [area EXCEPT ![p] = NoArea]
  /\ vmas' = vmas \ {p}
  /\ pt' = [pt EXCEPT ![p] = NoPages]
  /\ UNCHANGED dirty

(* do_munmap of the whole area. *)
munmap(p) == area[p] # NoArea /\ Unmap(p) /\ UNCHANGED live

(* vmmap_destroy and pt_destroy_pagedir of an exiting process. *)
vmmap_destroy(p) == Unmap(p) /\ live' = live \ {p}

-----------------------------------------------------------------------------
(* Page n of object o becomes resident with contents v, if it is not.      *)
Fill(o, n, v) ==
  IF data[o][n] # NULL THEN UNCHANGED <<mmo, data>>
  ELSE /\ data' = [data EXCEPT ![o][n] = v]
       /\ mmo' = [mmo EXCEPT ![o].refs = @ + 1]

(* handle_pagefault for a read: a read-only translation of the page that   *)
(* the lookup finds.                                                       *)
ReadFault(p, n) ==
  LET o == area[p].obj
      h == Holder(o, n)
  IN /\ p \in live /\ o # NULL /\ pt[p][n] = NULL
     /\ Fill(h, n, 0)
     /\ pt' = [pt EXCEPT ![p][n] = [obj |-> h, w |-> FALSE]]
     /\ UNCHANGED <<live, area, vmas, dirty>>

Writable(p, n) == IF pt[p][n] = NULL THEN FALSE ELSE pt[p][n].w

(* A write of v to page n of p goes to object o, which shadow_fillpage     *)
(* fills with a copy of what a reader would see; the bottom object fills   *)
(* its page on the way.                                                    *)
WriteTo(o, p, n, v) ==
  LET new == {x \in {o, Holder(o, n)} : data[x][n] = NULL} IN
  /\ p \in live /\ area[p] # NoArea /\ ~Writable(p, n)
  /\ data' = [x \in Obj \cup {File} |->
                IF x = o THEN [data[x] EXCEPT ![n] = v]
                ELSE IF x \in new THEN [data[x] EXCEPT ![n] = 0]
                ELSE data[x]]
  /\ mmo' = [x \in Obj |->
               IF x \in new THEN [mmo[x] EXCEPT !.refs = @ + 1] ELSE mmo[x]]
  /\ dirty' = IF o = File THEN dirty \cup {n} ELSE dirty
  /\ pt' = [pt EXCEPT ![p][n] = [obj |-> o, w |-> TRUE]]
  /\ UNCHANGED <<live, area, vmas>>

(* Mutant of WriteFault: a page an older shadow has is written in place.   *)
WriteFault_InPlace(p, n, v) ==
  LET o == area[p].obj
      h == IF o = NULL THEN NULL ELSE Holder(o, n)
  IN o # NULL /\ WriteTo(IF h = Bottom(o) THEN o ELSE h, p, n, v)

(* handle_pagefault for a write: the page is looked up in the area's own   *)
(* object.                                                                 *)
WriteFault(p, n, v) == WriteTo(area[p].obj, p, n, v)

(* A write through a translation that allows it: no fault. *)
Store(p, n, v) ==
  /\ p \in live /\ Writable(p, n)
  /\ data' = [data EXCEPT ![pt[p][n].obj][n] = v]
  /\ UNCHANGED <<live, mmo, area, vmas, pt, dirty>>

-----------------------------------------------------------------------------
(* vmmap_clone takes a reference to the object of the area; the one to a   *)
(* private object becomes that of the second of two new shadows, and the   *)
(* child's area goes on the list of the bottom object.                     *)
Clone(p, c) ==
  LET top   == area[p].obj
      twin  == [refs |-> 1, below |-> Chain(top)]
      twins == IF area[p].private THEN {Nth(1), Nth(2)} ELSE {}
  IN /\ area[p].private => Cardinality(FreeObjs) >= 2
     /\ mmo' = [o \in Obj |-> IF o \in twins THEN twin
                              ELSE IF o = top THEN [mmo[o] EXCEPT !.refs = @ + 1]
                              ELSE mmo[o]]
     /\ IF area[p].private
        THEN /\ area' = [area EXCEPT ![p].obj = Nth(2),
                                     ![c] = [obj |-> Nth(1), private |-> TRUE]]
             /\ vmas' = IF Bottom(top) = File THEN vmas \cup {c} ELSE vmas
        ELSE area' = [area EXCEPT ![c] = area[p]] /\ UNCHANGED vmas

(* Mutant of do_fork: the parent keeps its translations. *)
do_fork_KeepsTlb(p, c) ==
  /\ p \in live /\ c \notin live
  /\ Clone(p, c)
  /\ live' = live \cup {c}
  /\ UNCHANGED <<data, pt, dirty>>

(* do_fork: the child starts with no translations and the parent loses its.*)
do_fork(p, c) ==
  /\ p \in live /\ c \notin live
  /\ Clone(p, c)
  /\ pt' = [pt EXCEPT ![p] = NoPages]
  /\ live' = live \cup {c}
  /\ UNCHANGED <<data, dirty>>

(* pframe_clean of page n of the file: marked clean, removed from the page *)
(* tables of the areas on the list, written out.                           *)
Clean(n) ==
  /\ n \in dirty
  /\ dirty' = dirty \ {n}
  /\ pt' = [p \in Proc |-> IF p \in vmas THEN [pt[p] EXCEPT ![n] = NULL] ELSE pt[p]]
  /\ UNCHANGED <<live, mmo, data, area, vmas>>

Next ==
  \/ \E p \in Proc :
       \/ \E base \in {File, NULL} : MapShared(p, base) \/ MapPrivate(p, base)
       \/ munmap(p) \/ vmmap_destroy(p)
       \/ \E n \in Page : ReadFault(p, n)
       \/ \E n \in Page, v \in Value : WriteFault(p, n, v) \/ Store(p, n, v)
       \/ \E c \in Proc : do_fork(p, c)
  \/ \E n \in Page : Clean(n)

Spec == Init /\ [][Next]_vars

-----------------------------------------------------------------------------
Areas(o)   == {p \in Proc : area[p].obj = o}
Shadows(o) == {s \in Obj : mmo[s].below # <<>> /\ Head(mmo[s].below) = o}

(* mmo_refcount counts the areas, the shadows and the resident pages of an *)
(* object, through forks, exits and unmaps in any order; an object is free *)
(* exactly when no area reaches it, so nothing leaks and nothing in use    *)
(* goes.                                                                   *)
RefcountExact ==
  /\ \A o \in Obj :
       mmo[o].refs = Cardinality(Areas(o)) + nrespages(o) + Cardinality(Shadows(o))
  /\ Obj \ FreeObjs =
       Obj \cap UNION {Range(Chain(area[p].obj)) : p \in Proc \ Areas(NULL)}

(* A translation leads to the page a lookup would find now, and a writable *)
(* one to a page of the area's own object: no process reads what another   *)
(* has replaced, and none writes a page that others see.                   *)
TranslationsFresh ==
  \A p \in Proc, n \in Page :
    LET e == pt[p][n]
        o == area[p].obj
    IN e # NULL =>
         /\ o # NULL /\ e.obj = Holder(o, n) /\ data[e.obj][n] # NULL
         /\ e.w => e.obj = o

(* mm/pframe.c, pframe_clean: "Make sure a future write to the page will   *)
(* fault (and hence dirty it)".                                            *)
CleanPagesFault ==
  \A p \in Proc, n \in Page :
    Writable(p, n) /\ pt[p][n].obj = File => n \in dirty

(* Private memory as its process sees it. *)
Private(p, n) ==
  LET h == Holder(area[p].obj, n) IN
  IF h = Bottom(area[p].obj) THEN NULL ELSE data[h][n]

Abs == INSTANCE PrivateMemory WITH
         Unwritten <- NULL,
         NONE <- NULL,
         mem <- [p \in Proc |-> IF area[p].private
                                THEN [n \in Page |-> Private(p, n)] ELSE NULL]

(* Copy-on-write implements fork's promise: a process sees its own writes  *)
(* and those its ancestors made before the fork, and no others.            *)
CopyOnWrite == Abs!Spec
=============================================================================
