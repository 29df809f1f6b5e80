-------------------------- MODULE FileSystemProofs --------------------------
(***************************************************************************)
(* The counts and flags of vnodes and pages (module Cache), and who sleeps *)
(* for them, for any finite sets of threads and frames and any vnodes,     *)
(* inode and page numbers; then the counts and links of the file system in *)
(* memory (module Files), for any finite tables and any paths.             *)
(*                                                                         *)
(* Cache: three arguments.  A busy page belongs to the one thread that     *)
(* works on it across its disk call, so that thread finds it as it left it *)
(* (PagesOK).  A vnode somebody holds a reference to is neither busy nor   *)
(* free, so that the last reference is really the last (VnodesOK).  Who    *)
(* sleeps is nowhere else, and what it sleeps for changes only with a      *)
(* broadcast on its queue (SleepInv).                                      *)
(*                                                                         *)
(* Files: two.  What is counted is there: a file_t that a descriptor names *)
(* has a vnode and a vnode with a reference has an inode, so that every    *)
(* call takes references to something and drops the ones it counted        *)
(* (FilesCounted).  An inode has at least as many links as entries name    *)
(* it, so that none does when it is freed (Linked).                        *)
(***************************************************************************)
EXTENDS Cache, Files, SeqLemmas

(* The places of a thread at which a page or a vnode is busy because of it.*)
OnPage  == {"fillpage", "dirtypage", "cleanpage"}
OnVnode == {"read_vnode", "delete_vnode"}

(* TypeOK without the queues of the scheduler and the bound of refs.       *)
TypesOK ==
  /\ vnode \in [Slot -> [vno : Vno \cup {NULL}, busy : BOOLEAN, refs : Int]]
  /\ pframe \in [Frame -> [obj : Slot \cup {NULL}, pagenum : PageNo \cup {NULL},
                           busy : BOOLEAN, dirty : BOOLEAN, ahead : BOOLEAN]]
  /\ pc \in [Thread -> PC]
  /\ ref \in [Thread -> Slot \cup {NULL}]
  /\ map \in [Thread -> Frame \cup {NULL}]
  /\ want \in [Thread -> Vno \cup (PageNo \X Why) \cup {NULL}]
  /\ cur \in [Thread -> Slot \cup Frame \cup {NULL}]
  /\ \A t \in Thread :
       /\ pc[t] = "get" => cur[t] \in Frame /\ want[t] \in PageNo \X Why
       /\ pc[t] = "vget" => want[t] \in Vno
       /\ pc[t] \in {"fillpage", "dirtypage"} => want[t] \in PageNo \X Why

(* A busy page has one owner and is not dirty, so that a process that still*)
(* maps it puts nothing on it that is counted as written, and it holds     *)
(* nothing that is newer than the disk unless that is just being written.  *)
PagesOK ==
  /\ \A t \in Thread : pc[t] \in OnPage =>
       /\ cur[t] \in Frame
       /\ pframe[cur[t]].busy /\ pframe[cur[t]].obj # NULL
       /\ ~pframe[cur[t]].dirty
       /\ pc[t] # "cleanpage" => ~pframe[cur[t]].ahead
       /\ \A u \in Thread : pc[u] \in OnPage /\ cur[u] = cur[t] => u = t
  /\ \A f \in Frame :
       /\ pframe[f].busy => \E t \in Thread : pc[t] \in OnPage /\ cur[t] = f
       /\ pframe[f].dirty => pframe[f].obj # NULL
       /\ pframe[f].ahead => pframe[f].dirty \/ pframe[f].busy

(* Whose vnode a thread's call works on. *)
CallsOK ==
  \A t \in Thread :
    /\ pc[t] \in OnVnode =>
         /\ cur[t] \in Slot
         /\ vnode[cur[t]].busy /\ InUse(cur[t])
         /\ \A u \in Thread : pc[u] \in OnVnode /\ cur[u] = cur[t] => u = t
    /\ pc[t] \in {"vget", "read_vnode"} => ref[t] = NULL
    /\ pc[t] = "fillpage" => ref[t] = pframe[cur[t]].obj
    /\ pc[t] = "purge" => ref[t] # NULL /\ vnode[ref[t]].vno \notin linked

(* The three parts of RefcountExact. *)
Counted(s) ==
  ~vnode[s].busy => vnode[s].refs = nrespages(s) + Cardinality(Holders(s))

Unheld(s) ==
  vnode[s].busy \/ ~InUse(s) => Holders(s) = {} /\ Pages(s) = {}

OneSlot ==
  \A r, s \in Slot : InUse(s) /\ vnode[r].vno = vnode[s].vno => r = s

VnodesOK ==
  /\ CallsOK
  /\ \A s \in Slot : Counted(s) /\ Unheld(s)
  /\ OneSlot

IInv == TypesOK /\ PagesOK /\ VnodesOK

-----------------------------------------------------------------------------
(* The counts speak of vnodes, of references and of whose the frames are.  *)
LEMMA CountsStay ==
  ASSUME VnodesOK, vnode' = vnode, ref' = ref,
         \A f \in Frame : pframe'[f].obj = pframe[f].obj
  PROVE  /\ \A s \in Slot : Counted(s)' /\ Unheld(s)'
         /\ OneSlot'
  <1>1. \A s \in Slot : Pages(s)' = Pages(s) /\ Holders(s)' = Holders(s)
    BY DEF Pages, Holders
  <1>2. \A s \in Slot : nrespages(s)' = nrespages(s)
    BY <1>1 DEF nrespages
  <1>3. \A s \in Slot : Counted(s)' /\ Unheld(s)'
    BY <1>1, <1>2 DEF VnodesOK, Counted, Unheld, InUse
  <1>4. OneSlot'
    BY DEF VnodesOK, OneSlot, InUse
  <1> QED
    BY <1>3, <1>4

(* The finite sets whose cardinalities are counted.                        *)
LEMMA Finite ==
  ASSUME NEW s
  PROVE  /\ IsFiniteSet(Pages(s)) /\ IsFiniteSet(Holders(s))
         /\ nrespages(s) \in Nat /\ Cardinality(Holders(s)) \in Nat
  <1>1. Pages(s) \in SUBSET Frame /\ Holders(s) \in SUBSET Thread
    BY DEF Pages, Holders
  <1>2. IsFiniteSet(Pages(s)) /\ IsFiniteSet(Holders(s))
    BY <1>1, FS_Subset, CacheAssumption
  <1> QED
    BY <1>2, FS_CardinalityType DEF nrespages

(* A thread that works on no page and no vnode goes elsewhere, or to sleep.*)
LEMMA StepAside ==
  ASSUME IInv, NEW t \in Thread, pc[t] \notin OnPage \cup OnVnode,
         NEW l \in PC \ (OnPage \cup OnVnode), NEW x \in Slot \cup Frame \cup {NULL},
         Goto(t, l, x),
         UNCHANGED <<vnode, pframe, ref, map, linked>>,
         want' \in [Thread -> Vno \cup (PageNo \X Why) \cup {NULL}],
         \A u \in Thread \ {t} : want'[u] = want[u],
         l = "get" => x \in Frame /\ want'[t] \in PageNo \X Why,
         l = "vget" => want'[t] \in Vno /\ ref[t] = NULL,
         l = "purge" => ref[t] # NULL /\ vnode[ref[t]].vno \notin linked
  PROVE  IInv'
  <1> USE DEF IInv, OnPage, OnVnode
  <1>1. /\ pc' \in [Thread -> PC] /\ cur' \in [Thread -> Slot \cup Frame \cup {NULL}]
        /\ pc'[t] = l /\ cur'[t] = x
        /\ \A u \in Thread \ {t} : pc'[u] = pc[u] /\ cur'[u] = cur[u]
    BY DEF Goto, TypesOK
  <1>2. TypesOK'
    BY <1>1 DEF TypesOK
  <1>3. PagesOK'
    BY <1>1 DEF PagesOK
  <1>4. CallsOK'
    BY <1>1 DEF VnodesOK, CallsOK, InUse
  <1>5. VnodesOK'
    BY <1>4, CountsStay DEF VnodesOK
  <1> QED
    BY <1>2, <1>3, <1>5

LEMMA Panics ==
  ASSUME IInv, NEW t \in Thread, pc[t] \notin OnPage \cup OnVnode, Panic(t)
  PROVE  IInv'
  BY StepAside DEF Panic, Goto, PC, OnPage, OnVnode, IInv, TypesOK, threadVars

-----------------------------------------------------------------------------
(* vget.  A slot that is taken for a vnode was free, so nobody refers to   *)
(* it; a vnode that is found and not busy gains a holder with its count.   *)
LEMMA FindKeeps ==
  ASSUME IInv, NEW t \in Thread, NEW vno \in Vno, Find(t, vno),
         pc[t] \in {"run", "vget"}, ref[t] = NULL
  PROVE  IInv'
  <1> DEFINE found == {s \in Slot : vnode[s].vno = vno}
  <1>1. ASSUME NEW s \in found, vnode[s].busy, SleepOn(t, "vget", s),
               want' = [want EXCEPT ![t] = vno],
               UNCHANGED <<vnode, pframe, linked, ref, map>>
        PROVE  IInv'
    BY <1>1, StepAside DEF SleepOn, PC, OnPage, OnVnode, IInv, TypesOK
  <1>2. ASSUME NEW s \in found, ~vnode[s].busy,
               vnode' = [vnode EXCEPT ![s].refs = @ + 1],
               ref' = [ref EXCEPT ![t] = s], want' = [want EXCEPT ![t] = NULL],
               Goto(t, "run", NULL),
               UNCHANGED <<pframe, linked, map, cpuVars>>
        PROVE  IInv'
    <2>1. InUse(s) /\ s \in Slot /\ s # NULL
      BY CacheAssumption DEF InUse
    <2>2. TypesOK'
      BY <1>2 DEF IInv, TypesOK, Goto, PC
    <2>3. PagesOK'
      BY <1>2 DEF IInv, TypesOK, PagesOK, Goto, OnPage
    <2>4. CallsOK'
      BY <1>2, <2>1 DEF IInv, TypesOK, VnodesOK, CallsOK, InUse, Goto, OnVnode
    <2>5. Holders(s)' = Holders(s) \cup {t} /\ t \notin Holders(s)
      BY <1>2, <2>1 DEF IInv, TypesOK, Holders
    <2>6. \A r \in Slot : /\ Pages(r)' = Pages(r)
                          /\ r # s => Holders(r)' = Holders(r)
      BY <1>2, CacheAssumption DEF IInv, TypesOK, Pages, Holders
    <2>7. ASSUME NEW r \in Slot PROVE Counted(r)' /\ Unheld(r)'
      <3>1. CASE r # s
        BY <1>2, <2>6, <3>1 DEF IInv, TypesOK, VnodesOK, Counted, Unheld, InUse, nrespages
      <3>2. CASE r = s
        <4>1. Cardinality(Holders(s)') = Cardinality(Holders(s)) + 1
          BY <2>5, Finite, FS_AddElement
        <4>2. vnode'[s].refs = vnode[s].refs + 1
          BY <1>2 DEF IInv, TypesOK
        <4>3. Counted(s)'
          BY <1>2, <2>6, <4>1, <4>2, Finite DEF IInv, VnodesOK, Counted, nrespages
        <4>4. ~vnode'[s].busy /\ InUse(s)'
          BY <1>2, <2>1 DEF IInv, TypesOK, InUse
        <4> QED
          BY <3>2, <4>3, <4>4 DEF Unheld
      <3> QED
        BY <3>1, <3>2
    <2>8. OneSlot'
      BY <1>2 DEF IInv, TypesOK, VnodesOK, OneSlot, InUse
    <2> QED
      BY <2>2, <2>3, <2>4, <2>7, <2>8 DEF IInv, VnodesOK
  <1>3. ASSUME NEW s \in Slot, found = {}, ~InUse(s),
               vnode' = [vnode EXCEPT ![s] = [vno |-> vno, busy |-> TRUE, refs |-> 0]],
               Goto(t, "read_vnode", s), want' = [want EXCEPT ![t] = vno],
               UNCHANGED <<pframe, linked, ref, map, cpuVars>>
        PROVE  IInv'
    <2>1. TypesOK'
      BY <1>3 DEF IInv, TypesOK, Goto, PC
    <2>2. PagesOK'
      BY <1>3 DEF IInv, TypesOK, PagesOK, Goto, OnPage
    <2>3. Holders(s) = {} /\ Pages(s) = {}
      BY <1>3 DEF IInv, VnodesOK, Unheld
    <2>4. CallsOK'
      BY <1>3, <2>3, CacheAssumption
         DEF IInv, TypesOK, VnodesOK, CallsOK, InUse, Goto, OnVnode, Holders
    <2>5. \A r \in Slot : Pages(r)' = Pages(r) /\ Holders(r)' = Holders(r)
      BY <1>3 DEF Pages, Holders
    <2>6. \A r \in Slot : Counted(r)' /\ Unheld(r)'
      BY <1>3, <2>3, <2>5
         DEF IInv, TypesOK, VnodesOK, Counted, Unheld, InUse, nrespages
    <2>7. OneSlot'
      BY <1>3 DEF IInv, TypesOK, VnodesOK, OneSlot, InUse
    <2> QED
      BY <2>1, <2>2, <2>4, <2>6, <2>7 DEF IInv, VnodesOK
  <1>4. Panic(t) => IInv'
    BY Panics DEF OnPage, OnVnode
  <1> QED
    BY <1>1, <1>2, <1>3, <1>4 DEF Find

(* The count and the flag of one vnode change.                             *)
LEMMA OneVnode ==
  ASSUME TypesOK, NEW s \in Slot, NEW b \in BOOLEAN, NEW n \in Int,
         vnode' = [vnode EXCEPT ![s].busy = b, ![s].refs = n]
  PROVE  vnode' \in [Slot -> [vno : Vno \cup {NULL}, busy : BOOLEAN, refs : Int]]
  <1>1. [vnode EXCEPT ![s].busy = b]
          \in [Slot -> [vno : Vno \cup {NULL}, busy : BOOLEAN, refs : Int]]
    BY DEF TypesOK
  <1> QED
    BY <1>1, ZenonT(60) DEF TypesOK

(* read_vnode is back: its caller is the first holder of the vnode.        *)
LEMMA ReadVnodeKeeps ==
  ASSUME IInv, NEW t \in Thread, ReadVnode(t)
  PROVE  IInv'
  <1>0. PICK s \in Slot : s = cur[t]
    BY DEF ReadVnode, At, IInv, VnodesOK, CallsOK, OnVnode
  <1>1. /\ s # NULL /\ vnode[s].busy /\ InUse(s) /\ ref[t] = NULL
        /\ pc[t] = "read_vnode"
        /\ \A u \in Thread : pc[u] \in OnVnode /\ cur[u] = s => u = t
    BY <1>0, CacheAssumption DEF ReadVnode, At, IInv, VnodesOK, CallsOK, OnVnode
  <1>2. vnode' = [vnode EXCEPT ![s].busy = FALSE, ![s].refs = 1]
        /\ ref' = [ref EXCEPT ![t] = s]
    BY <1>0 DEF ReadVnode
  <1>3. TypesOK'
    <2>1. vnode' \in [Slot -> [vno : Vno \cup {NULL}, busy : BOOLEAN, refs : Int]]
      <3>1. PICK b \in BOOLEAN : ~b
        OBVIOUS
      <3>3. PICK n \in Int : n = 1
        OBVIOUS
      <3>2. vnode' = [vnode EXCEPT ![s].busy = b, ![s].refs = n]
        BY <1>2, <3>1, <3>3
      <3> QED
        BY <3>2, OneVnode DEF IInv
    <2> QED
      BY <2>1, <1>1, <1>2 DEF ReadVnode, IInv, TypesOK, Goto, PC
  <1>4. PagesOK'
    BY <1>0, <1>1 DEF ReadVnode, IInv, TypesOK, PagesOK, Goto, OnPage
  <1>5. CallsOK'
    BY <1>0, <1>1 DEF ReadVnode, IInv, TypesOK, VnodesOK, CallsOK, InUse, Goto, OnVnode
  <1>6. Holders(s) = {} /\ Pages(s) = {}
    BY <1>1 DEF IInv, VnodesOK, Unheld
  <1>7. Holders(s)' = {t}
    BY <1>1, <1>2, <1>6 DEF IInv, TypesOK, Holders
  <1>8. \A r \in Slot : /\ Pages(r)' = Pages(r)
                        /\ r # s => Holders(r)' = Holders(r)
    BY <1>0, <1>1, CacheAssumption DEF ReadVnode, IInv, TypesOK, Pages, Holders
  <1>9. ASSUME NEW r \in Slot PROVE Counted(r)' /\ Unheld(r)'
    <2>1. CASE r # s
      BY <1>1, <1>2, <1>8, <2>1
         DEF IInv, TypesOK, VnodesOK, Counted, Unheld, InUse, nrespages
    <2>2. CASE r = s
      <3>1. vnode'[s].refs = 1 /\ ~vnode'[s].busy /\ InUse(s)'
        BY <1>1, <1>2 DEF IInv, TypesOK, InUse
      <3>2. Cardinality(Holders(s)') = 1 /\ nrespages(s)' = 0
        BY <1>1, <1>6, <1>7, <1>8, FS_Singleton, FS_EmptySet DEF nrespages
      <3> QED
        BY <2>2, <3>1, <3>2 DEF Counted, Unheld
    <2> QED
      BY <2>1, <2>2
  <1>10. OneSlot'
    BY <1>1, <1>2 DEF IInv, TypesOK, VnodesOK, OneSlot, InUse
  <1> QED
    BY <1>3, <1>4, <1>5, <1>9, <1>10 DEF IInv, VnodesOK
-----------------------------------------------------------------------------
(* vput frees the pages D, which are not busy, and drops one reference for *)
(* each of them, and its own at the end.                                   *)
LEMMA PagesGo ==
  ASSUME IInv, NEW t \in Thread, NEW s \in Slot, NEW D \in SUBSET Pages(s),
         \A f \in D : ~pframe[f].busy, FreePages(D),
         pc[t] \in {"run", "purge"}, NEW l \in {"run", "purge", "delete_vnode"},
         NEW x \in Slot \cup Frame \cup {NULL}, Goto(t, l, x)
  PROVE  /\ PagesOK'
         /\ pframe' \in [Frame -> [obj : Slot \cup {NULL}, pagenum : PageNo \cup {NULL},
                                   busy : BOOLEAN, dirty : BOOLEAN, ahead : BOOLEAN]]
         /\ map' \in [Thread -> Frame \cup {NULL}]
         /\ Pages(s)' = Pages(s) \ D
         /\ nrespages(s)' = nrespages(s) - Cardinality(D) /\ Cardinality(D) \in Nat
         /\ \A r \in Slot \ {s} : Pages(r)' = Pages(r)
         /\ \A f \in Frame : f \notin D => pframe'[f] = pframe[f]
  <1>1. D \subseteq Frame /\ \A f \in D : pframe[f].obj = s /\ s # NULL
    BY CacheAssumption DEF Pages
  <1>2. /\ \A f \in Frame : pframe'[f] = IF f \in D THEN FreeFrame ELSE pframe[f]
        /\ DOMAIN pframe' = Frame
    BY DEF FreePages
  <1>3. /\ pframe' \in [Frame -> [obj : Slot \cup {NULL}, pagenum : PageNo \cup {NULL},
                                  busy : BOOLEAN, dirty : BOOLEAN, ahead : BOOLEAN]]
        /\ map' \in [Thread -> Frame \cup {NULL}]
    BY DEF FreePages, FreeFrame, IInv, TypesOK
  <1>4. PagesOK'
    <2>1. /\ \A u \in Thread : pc[u] \in OnPage \/ pc'[u] \in OnPage
                                => pc'[u] = pc[u] /\ cur'[u] = cur[u]
          /\ \A u \in Thread : pc[u] \in OnPage => cur[u] \in Frame \ D
      BY <1>1 DEF IInv, TypesOK, PagesOK, Goto, OnPage
    <2>2. \A f \in Frame \ D : pframe'[f] = pframe[f]
      BY <1>2
    <2>3. \A f \in D : ~pframe'[f].busy /\ ~pframe'[f].dirty /\ ~pframe'[f].ahead
      BY <1>1, <1>2 DEF FreeFrame
    <2>5. \A u \in Thread : pc'[u] \in OnPage =>
            /\ cur'[u] \in Frame
            /\ pframe'[cur'[u]].busy /\ pframe'[cur'[u]].obj # NULL
            /\ pc'[u] # "cleanpage" => ~pframe'[cur'[u]].ahead
            /\ ~pframe'[cur'[u]].dirty
            /\ \A v \in Thread : pc'[v] \in OnPage /\ cur'[v] = cur'[u] => v = u
      BY <2>1, <2>2 DEF IInv, PagesOK
    <2>6. \A f \in Frame :
            /\ pframe'[f].busy => \E u \in Thread : pc'[u] \in OnPage /\ cur'[u] = f
            /\ pframe'[f].dirty => pframe'[f].obj # NULL
            /\ pframe'[f].ahead => pframe'[f].dirty \/ pframe'[f].busy
      BY <2>1, <2>2, <2>3 DEF IInv, PagesOK
    <2> QED
      BY <2>5, <2>6 DEF PagesOK
  <1>5. Pages(s)' = Pages(s) \ D /\ \A r \in Slot \ {s} : Pages(r)' = Pages(r)
    BY <1>1, <1>2, CacheAssumption DEF FreeFrame, Pages
  <1>6. nrespages(s)' = nrespages(s) - Cardinality(D) /\ Cardinality(D) \in Nat
    <2>1. Pages(s) \cap D = D
      OBVIOUS
    <2>4. IsFiniteSet(Pages(s)) /\ IsFiniteSet(D)
      BY Finite, FS_Subset
    <2>2. Cardinality(Pages(s) \ D) = Cardinality(Pages(s)) - Cardinality(D)
      <3>1. Cardinality(Pages(s) \ D) = Cardinality(Pages(s)) - Cardinality(Pages(s) \cap D)
        BY <2>4, FS_Difference
      <3> QED
        BY <2>1, <3>1
    <2>3. Cardinality(D) \in Nat
      BY Finite, FS_Subset, FS_CardinalityType
    <2> QED
      BY <1>5, <2>2, <2>3 DEF nrespages
  <1> QED
    BY <1>2, <1>3, <1>4, <1>5, <1>6

(* The last part of vput.  The vnode goes when the count comes to nothing, *)
(* and then nobody holds it and it has no pages.                           *)
LEMMA DropKeeps ==
  ASSUME IInv, NEW t \in Thread, NEW s \in Slot, ref[t] = s,
         pc[t] \in {"run", "purge"}, NEW D \in SUBSET Pages(s),
         \A f \in D : ~pframe[f].busy, Drop(t, s, D)
  PROVE  IInv'
  <1> DEFINE n == vnode[s].refs - Cardinality(D) - 1
             l == IF n = 0 THEN "delete_vnode" ELSE "run"
             x == IF n = 0 THEN s ELSE NULL
  <1>1. /\ Goto(t, l, x) /\ FreePages(D) /\ linked' = linked /\ want' = want
        /\ vnode' = [vnode EXCEPT ![s].refs = n, ![s].busy = (n = 0)]
        /\ ref' = [ref EXCEPT ![t] = NULL]
    BY DEF Drop
  <1>2. /\ l \in {"run", "purge", "delete_vnode"} /\ x \in Slot \cup Frame \cup {NULL}
    OBVIOUS
  <1>3. /\ PagesOK'
        /\ pframe' \in [Frame -> [obj : Slot \cup {NULL}, pagenum : PageNo \cup {NULL},
                                  busy : BOOLEAN, dirty : BOOLEAN, ahead : BOOLEAN]]
        /\ map' \in [Thread -> Frame \cup {NULL}]
        /\ nrespages(s)' = nrespages(s) - Cardinality(D) /\ Cardinality(D) \in Nat
        /\ \A r \in Slot \ {s} : Pages(r)' = Pages(r)
        /\ \A f \in Frame : f \notin D => pframe'[f] = pframe[f]
    BY <1>1, <1>2, PagesGo
  <1>4. /\ t \in Holders(s) /\ s # NULL
        /\ Holders(s)' = Holders(s) \ {t}
        /\ \A r \in Slot \ {s} : Holders(r)' = Holders(r)
    BY <1>1, CacheAssumption DEF IInv, TypesOK, Holders
  <1>5. ~vnode[s].busy /\ InUse(s)
    BY <1>4 DEF IInv, VnodesOK, Unheld
  <1>6. /\ n = nrespages(s)' + Cardinality(Holders(s)')
        /\ nrespages(s)' \in Nat /\ Cardinality(Holders(s)') \in Nat
    <2>5. IsFiniteSet(Holders(s))
      BY Finite
    <2>1. Cardinality(Holders(s)') = Cardinality(Holders(s)) - 1
      <3>1. Cardinality(Holders(s) \ {t}) = Cardinality(Holders(s)) - 1
        BY <1>4, <2>5, FS_RemoveElement
      <3> QED
        BY <1>4, <3>1
    <2>2. Cardinality(Holders(s)') \in Nat
      BY <1>4, Finite, FS_RemoveElement, FS_CardinalityType
    <2>3. nrespages(s)' \in Nat
      <3>1. IsFiniteSet(Pages(s)')
        BY <1>1, <1>2, PagesGo, Finite, FS_Subset
      <3> QED
        BY <3>1, FS_CardinalityType DEF nrespages
    <2>4. vnode[s].refs = nrespages(s) + Cardinality(Holders(s))
      BY <1>5 DEF IInv, VnodesOK, Counted
    <2> QED
      BY <1>3, <2>1, <2>2, <2>3, <2>4, Finite
  <1>7. n \in Int
    BY <1>6
  <1> HIDE DEF n
  <1>8. /\ vnode' \in [Slot -> [vno : Vno \cup {NULL}, busy : BOOLEAN, refs : Int]]
        /\ vnode'[s].refs = n /\ (vnode'[s].busy <=> n = 0)
        /\ vnode'[s].vno = vnode[s].vno
        /\ \A r \in Slot \ {s} : vnode'[r] = vnode[r]
    <2> DEFINE v == [vnode EXCEPT ![s].refs = n]
    <2>1. v \in [Slot -> [vno : Vno \cup {NULL}, busy : BOOLEAN, refs : Int]]
      BY <1>7, ZenonT(60) DEF IInv, TypesOK
    <2>2. /\ v[s].refs = n /\ v[s].vno = vnode[s].vno
          /\ \A r \in Slot \ {s} : v[r] = vnode[r]
      BY DEF IInv, TypesOK
    <2>3. PICK b \in BOOLEAN : b <=> n = 0
      OBVIOUS
    <2>4. vnode' = [v EXCEPT ![s].busy = b]
      BY <1>1, <2>3
    <2> HIDE DEF v
    <2> QED
      BY <2>1, <2>2, <2>3, <2>4
  <1>9. TypesOK'
    <2>1. vnode' \in [Slot -> [vno : Vno \cup {NULL}, busy : BOOLEAN, refs : Int]]
      BY <1>8
    <2>2. /\ pc' \in [Thread -> PC] /\ cur' \in [Thread -> Slot \cup Frame \cup {NULL}]
          /\ ref' \in [Thread -> Slot \cup {NULL}]
          /\ \A u \in Thread :
               pc'[u] \in {"get", "vget", "fillpage", "dirtypage"}
                 => pc'[u] = pc[u] /\ cur'[u] = cur[u]
      BY <1>1 DEF IInv, TypesOK, Goto, PC
    <2> QED
      BY <1>1, <1>3, <2>1, <2>2 DEF IInv, TypesOK
  <1>10. CallsOK'
    BY <1>1, <1>3, <1>4, <1>5, <1>8
       DEF IInv, TypesOK, VnodesOK, CallsOK, InUse, Goto, OnVnode, PagesOK, OnPage
  <1>11. ASSUME NEW r \in Slot PROVE Counted(r)' /\ Unheld(r)'
    <2>1. CASE r # s
      BY <1>3, <1>4, <1>8, <2>1
         DEF IInv, VnodesOK, Counted, Unheld, InUse, nrespages
    <2>2. CASE r = s
      <3>1. Counted(s)'
        BY <1>6, <1>8 DEF Counted
      <3>2. InUse(s)'
        BY <1>5, <1>8 DEF InUse
      <3>3. ASSUME n = 0 PROVE Holders(s)' = {} /\ Pages(s)' = {}
        <4>1. nrespages(s)' = 0 /\ Cardinality(Holders(s)') = 0
          BY <1>6, <3>3
        <4>2. IsFiniteSet(Pages(s)') /\ IsFiniteSet(Holders(s)')
          BY <1>1, <1>2, <1>4, PagesGo, Finite, FS_Subset, FS_RemoveElement
        <4> QED
          BY <4>1, <4>2, FS_EmptySet DEF nrespages
      <3> QED
        BY <2>2, <3>1, <3>2, <3>3, <1>8 DEF Unheld
    <2> QED
      BY <2>1, <2>2
  <1>12. OneSlot'
    <2>1. \A r \in Slot : vnode'[r].vno = vnode[r].vno
      BY <1>8
    <2> QED
      BY <2>1 DEF IInv, VnodesOK, OneSlot, InUse
  <1> QED
    BY <1>3, <1>9, <1>10, <1>11, <1>12 DEF IInv, VnodesOK
(* The page loop of vput: it goes on to the end, or to a page that is busy.*)
LEMMA PurgeKeeps ==
  ASSUME IInv, NEW t \in Thread, NEW s \in Slot, ref[t] = s,
         pc[t] \in {"run", "purge"}, vnode[s].vno \notin linked, Purge(t, s)
  PROVE  IInv'
  <1> DEFINE busy == {f \in Pages(s) : pframe[f].busy}
             idle == Pages(s) \ busy
  <1>1. ASSUME busy = {}, Drop(t, s, Pages(s)) PROVE IInv'
    BY <1>1, DropKeeps
  <1>2. Panic(t) => IInv'
    BY Panics DEF OnPage, OnVnode
  <1>3. ASSUME NEW f \in busy, NEW D \in SUBSET idle,
               SleepOn(t, "purge", f), FreePages(D),
               vnode' = [vnode EXCEPT ![s].refs = @ - Cardinality(D)],
               UNCHANGED <<linked, ref, want>>
        PROVE  IInv'
    <2>1. /\ D \in SUBSET Pages(s) /\ \A g \in D : ~pframe[g].busy
          /\ f \in Frame /\ Goto(t, "purge", f)
      BY <1>3 DEF Pages, SleepOn
    <2>2. /\ PagesOK'
          /\ pframe' \in [Frame -> [obj : Slot \cup {NULL}, pagenum : PageNo \cup {NULL},
                                    busy : BOOLEAN, dirty : BOOLEAN, ahead : BOOLEAN]]
          /\ map' \in [Thread -> Frame \cup {NULL}]
          /\ nrespages(s)' = nrespages(s) - Cardinality(D) /\ Cardinality(D) \in Nat
          /\ \A r \in Slot \ {s} : Pages(r)' = Pages(r)
          /\ \A g \in Frame : g \notin D => pframe'[g] = pframe[g]
      BY <1>3, <2>1, PagesGo
    <2>3. t \in Holders(s) /\ s # NULL /\ \A r \in Slot : Holders(r)' = Holders(r)
      BY <1>3, CacheAssumption DEF Holders
    <2>4. ~vnode[s].busy /\ InUse(s)
      BY <2>3 DEF IInv, VnodesOK, Unheld
    <2>5. /\ vnode'[s] \in [vno : Vno \cup {NULL}, busy : BOOLEAN, refs : Int]
          /\ vnode'[s].refs = vnode[s].refs - Cardinality(D)
          /\ vnode'[s].busy = vnode[s].busy /\ vnode'[s].vno = vnode[s].vno
          /\ \A r \in Slot \ {s} : vnode'[r] = vnode[r]
          /\ vnode' = [vnode EXCEPT ![s] = vnode'[s]]
      BY <1>3, <2>2 DEF IInv, TypesOK
    <2>6. TypesOK'
      <3>1. vnode' \in [Slot -> [vno : Vno \cup {NULL}, busy : BOOLEAN, refs : Int]]
        BY <2>5 DEF IInv, TypesOK
      <3>2. /\ pc' \in [Thread -> PC] /\ cur' \in [Thread -> Slot \cup Frame \cup {NULL}]
            /\ \A u \in Thread :
                 pc'[u] \in {"get", "vget", "fillpage", "dirtypage"}
                   => pc'[u] = pc[u] /\ cur'[u] = cur[u]
        BY <2>1 DEF IInv, TypesOK, Goto, PC
      <3> QED
        BY <1>3, <2>2, <3>1, <3>2 DEF IInv, TypesOK
    <2>7. CallsOK'
      BY <1>3, <2>1, <2>2, <2>3, <2>4, <2>5
         DEF IInv, TypesOK, VnodesOK, CallsOK, InUse, Goto, OnVnode, PagesOK, OnPage
    <2>8. ASSUME NEW r \in Slot PROVE Counted(r)' /\ Unheld(r)'
      <3>1. CASE r # s
        BY <2>2, <2>3, <2>5, <3>1
           DEF IInv, VnodesOK, Counted, Unheld, InUse, nrespages
      <3>2. CASE r = s
        <4>1. Counted(s)'
          BY <2>2, <2>3, <2>4, <2>5, Finite DEF IInv, VnodesOK, Counted
        <4>2. ~vnode'[s].busy /\ InUse(s)'
          BY <2>4, <2>5 DEF InUse
        <4> QED
          BY <3>2, <4>1, <4>2 DEF Unheld
      <3> QED
        BY <3>1, <3>2
    <2>9. OneSlot'
      <3>1. \A r \in Slot : vnode'[r].vno = vnode[r].vno
        BY <2>5
      <3> QED
        BY <3>1 DEF IInv, VnodesOK, OneSlot, InUse
    <2> QED
      BY <2>2, <2>6, <2>7, <2>8, <2>9 DEF IInv, VnodesOK
  <1> QED
    BY <1>1, <1>2, <1>3 DEF Purge

LEMMA vputKeeps ==
  ASSUME IInv, NEW t \in Thread, vput(t) \/ PurgeAgain(t)
  PROVE  IInv'
  <1>1. ASSUME vput(t) PROVE IInv'
    <2>1. pc[t] = "run" /\ ref[t] # NULL
      BY <1>1 DEF vput, Calls, At
    <2>2. PICK s \in Slot : s = ref[t]
      BY <2>1 DEF IInv, TypesOK
    <2>3. CASE Drop(t, s, {})
      BY <2>1, <2>2, <2>3, DropKeeps
    <2>4. CASE vnode[s].vno \notin linked /\ Purge(t, s)
      BY <2>1, <2>2, <2>4, PurgeKeeps
    <2> QED
      BY <1>1, <2>2, <2>3, <2>4 DEF vput
  <1>2. ASSUME PurgeAgain(t) PROVE IInv'
    <2>1. pc[t] = "purge" /\ ref[t] # NULL /\ vnode[ref[t]].vno \notin linked
      BY <1>2 DEF PurgeAgain, At, IInv, VnodesOK, CallsOK
    <2>2. ref[t] \in Slot
      BY <2>1 DEF IInv, TypesOK
    <2> QED
      BY <1>2, <2>1, <2>2, PurgeKeeps DEF PurgeAgain
  <1> QED
    BY <1>1, <1>2

(* delete_vnode is back: the slot is free, and nobody referred to it.      *)
LEMMA DeleteVnodeKeeps ==
  ASSUME IInv, NEW t \in Thread, DeleteVnode(t)
  PROVE  IInv'
  <1>1. PICK s \in Slot : s = cur[t]
    BY DEF DeleteVnode, At, IInv, VnodesOK, CallsOK, OnVnode
  <1>2. /\ vnode' = [vnode EXCEPT ![s] = Free] /\ Goto(t, "run", NULL)
        /\ UNCHANGED <<pframe, linked, ref, map, want>>
        /\ pc[t] = "delete_vnode" /\ vnode[s].busy
        /\ \A u \in Thread : pc[u] \in OnVnode /\ cur[u] = s => u = t
    BY <1>1 DEF DeleteVnode, At, threadVars, IInv, VnodesOK, CallsOK, OnVnode
  <1>3. TypesOK'
    BY <1>2 DEF IInv, TypesOK, Goto, PC, Free
  <1>4. PagesOK'
    BY <1>2 DEF IInv, TypesOK, PagesOK, Goto, OnPage
  <1>5. Holders(s) = {} /\ Pages(s) = {}
    BY <1>2 DEF IInv, VnodesOK, Unheld
  <1>6. CallsOK'
    BY <1>1, <1>2, <1>5 DEF IInv, TypesOK, VnodesOK, CallsOK, InUse, Goto, OnVnode, Holders
  <1>7. \A r \in Slot : Pages(r)' = Pages(r) /\ Holders(r)' = Holders(r)
    BY <1>2 DEF Pages, Holders
  <1>8. nrespages(s) = 0 /\ Cardinality(Holders(s)) = 0
    BY <1>5, FS_EmptySet DEF nrespages
  <1>9. ASSUME NEW r \in Slot PROVE Counted(r)' /\ Unheld(r)'
    <2>1. CASE r # s
      BY <1>2, <1>7, <2>1
         DEF IInv, TypesOK, VnodesOK, Counted, Unheld, InUse, nrespages
    <2>2. CASE r = s
      <3>1. vnode'[s].refs = 0
        BY <1>2 DEF IInv, TypesOK, Free
      <3>2. nrespages(s)' = 0 /\ Cardinality(Holders(s)') = 0
        BY <1>7, <1>8 DEF nrespages
      <3> QED
        BY <1>5, <1>7, <2>2, <3>1, <3>2 DEF Counted, Unheld
    <2> QED
      BY <2>1, <2>2
  <1>10. OneSlot'
    BY <1>2 DEF IInv, TypesOK, VnodesOK, OneSlot, InUse, Free
  <1> QED
    BY <1>3, <1>4, <1>6, <1>9, <1>10 DEF IInv, VnodesOK
-----------------------------------------------------------------------------
(* A thread that owns the page in f, or finds it not busy, sets its flags  *)
(* and keeps the page for itself exactly when it goes on to a disk call.   *)
PageMoves(t, f, l, x) ==
  /\ pframe[f].obj # NULL
  /\ \/ pc[t] \in OnPage /\ cur[t] = f
     \/ pc[t] \notin OnPage \cup OnVnode /\ ~pframe[f].busy
  /\ Goto(t, l, x)
  /\ l \in {"run", "sync", "dirtypage", "cleanpage"}
  /\ x \in Slot \cup Frame \cup {NULL}
  /\ l \in OnPage => x = f
  /\ UNCHANGED <<vnode, linked, ref>>
  /\ pframe' \in [Frame -> [obj : Slot \cup {NULL}, pagenum : PageNo \cup {NULL},
                            busy : BOOLEAN, dirty : BOOLEAN, ahead : BOOLEAN]]
  /\ \A g \in Frame \ {f} : pframe'[g] = pframe[g]
  /\ pframe'[f].obj = pframe[f].obj
  /\ pframe'[f].busy <=> l \in OnPage
  /\ pframe'[f].ahead => pframe'[f].dirty \/ l = "cleanpage"
  /\ l = "dirtypage" => ~pframe'[f].ahead
  /\ map' \in [Thread -> Frame \cup {NULL}]
  /\ l \in OnPage => ~pframe'[f].dirty
  /\ want' \in [Thread -> Vno \cup (PageNo \X Why) \cup {NULL}]
  /\ \A u \in Thread \ {t} : want'[u] = want[u]
  /\ l = "dirtypage" => want'[t] \in PageNo \X Why

LEMMA PageStep ==
  ASSUME IInv, NEW t \in Thread, NEW f \in Frame, NEW l, NEW x,
         PageMoves(t, f, l, x)
  PROVE  IInv'
  <1> USE DEF OnPage, OnVnode, PageMoves
  <1>1. /\ pc' \in [Thread -> PC] /\ cur' \in [Thread -> Slot \cup Frame \cup {NULL}]
        /\ pc'[t] = l /\ cur'[t] = x
        /\ \A u \in Thread \ {t} : pc'[u] = pc[u] /\ cur'[u] = cur[u]
    BY DEF Goto, IInv, TypesOK, PC
  <1>2. TypesOK'
    BY <1>1 DEF IInv, TypesOK
  <1>3. \A u \in Thread \ {t} : pc[u] \in OnPage => cur[u] \in Frame \ {f}
    BY DEF IInv, PagesOK
  <1>5. PagesOK'
    <2>1. ASSUME NEW u \in Thread, pc'[u] \in OnPage
          PROVE  /\ cur'[u] \in Frame
                 /\ pframe'[cur'[u]].busy /\ pframe'[cur'[u]].obj # NULL
                 /\ pc'[u] # "cleanpage" => ~pframe'[cur'[u]].ahead
                 /\ ~pframe'[cur'[u]].dirty
                 /\ \A v \in Thread : pc'[v] \in OnPage /\ cur'[v] = cur'[u] => v = u
      <3>1. CASE u = t
        <4>1. l \in OnPage /\ cur'[u] = f /\ pc'[u] = l
          BY <1>1, <2>1, <3>1
        <4>3. \A v \in Thread : pc'[v] \in OnPage /\ cur'[v] = cur'[u] => v = u
          BY <1>1, <1>3, <3>1, <4>1
        <4>4. cur'[u] \in Frame /\ pframe'[cur'[u]].obj # NULL
          BY <4>1
        <4>5. pframe'[cur'[u]].busy
          BY <4>1
        <4>6. pc'[u] # "cleanpage" => ~pframe'[cur'[u]].ahead
          BY <4>1
        <4>7. ~pframe'[cur'[u]].dirty
          BY <4>1
        <4> QED
          BY <4>3, <4>4, <4>5, <4>6, <4>7
      <3>2. CASE u # t
        <4>1. /\ pc'[u] = pc[u] /\ cur'[u] = cur[u] /\ pc[u] \in OnPage
              /\ cur[u] \in Frame \ {f}
          BY <1>1, <1>3, <2>1, <3>2
        <4>2. pframe'[cur[u]] = pframe[cur[u]]
          BY <4>1
        <4>3. /\ pframe'[cur'[u]].busy /\ pframe'[cur'[u]].obj # NULL
              /\ pc'[u] # "cleanpage" => ~pframe'[cur'[u]].ahead
          BY <4>1, <4>2 DEF IInv, PagesOK
        <4>4. ~pframe'[cur'[u]].dirty
          BY <4>1, <4>2 DEF IInv, PagesOK
        <4>5. \A v \in Thread : pc'[v] \in OnPage /\ cur'[v] = cur'[u] => v = u
          <5>1. \A v \in Thread \ {t} : pc'[v] \in OnPage /\ cur'[v] = cur'[u] => v = u
            BY <1>1, <4>1 DEF IInv, PagesOK
          <5>2. pc'[t] \in OnPage => cur'[t] # cur'[u]
            BY <1>1, <4>1
          <5> QED
            BY <5>1, <5>2
        <4> QED
          BY <4>1, <4>3, <4>4, <4>5
      <3> QED
        BY <3>1, <3>2
    <2>2. ASSUME NEW g \in Frame
          PROVE  /\ pframe'[g].busy => \E u \in Thread : pc'[u] \in OnPage /\ cur'[u] = g
                 /\ pframe'[g].dirty => pframe'[g].obj # NULL
                 /\ pframe'[g].ahead => pframe'[g].dirty \/ pframe'[g].busy
      <3>1. CASE g = f
        BY <1>1, <3>1
      <3>2. CASE g # f
        <4>1. pframe'[g] = pframe[g]
          BY <3>2
        <4>2. pframe[g].busy => \E u \in Thread \ {t} : pc[u] \in OnPage /\ cur[u] = g
          BY <3>2 DEF IInv, PagesOK
        <4> QED
          BY <1>1, <4>1, <4>2 DEF IInv, PagesOK
      <3> QED
        BY <3>1, <3>2
    <2> QED
      BY <2>1, <2>2 DEF PagesOK
  <1>6. \A g \in Frame : pframe'[g].obj = pframe[g].obj
    OBVIOUS
  <1>7. CallsOK'
    <2>1. vnode' = vnode /\ ref' = ref /\ linked' = linked
      OBVIOUS
    <2>2. \A u \in Thread :
            pc'[u] \in OnVnode \cup {"vget", "read_vnode", "fillpage", "purge"}
              => pc'[u] = pc[u] /\ cur'[u] = cur[u]
      BY <1>1
    <2>3. \A u \in Thread : pc'[u] = "fillpage" => cur[u] \in Frame
      BY <2>2 DEF IInv, PagesOK
    <2> HIDE DEF PageMoves
    <2> QED
      BY <1>6, <2>1, <2>2, <2>3 DEF IInv, VnodesOK, CallsOK, InUse
  <1>8. VnodesOK'
    BY <1>6, <1>7, CountsStay DEF IInv, VnodesOK
  <1> QED
    BY <1>2, <1>5, <1>8 DEF IInv

(* pframe_dirty done: the page belongs to nobody, and is dirty.            *)
LEMMA WroteKeeps ==
  ASSUME IInv, NEW t \in Thread, NEW f \in Frame, NEW w \in PageNo \X Why,
         pframe[f].obj # NULL,
         \/ pc[t] \in OnPage /\ cur[t] = f
         \/ pc[t] \notin OnPage \cup OnVnode /\ ~pframe[f].busy,
         Wrote(t, f, w)
  PROVE  IInv'
  <1> DEFINE p == [pframe EXCEPT ![f].busy = FALSE]
             q == [p EXCEPT ![f].dirty = TRUE]
             e == pframe[f].ahead \/ w[2] = "write"
  <1>1. p \in [Frame -> [obj : Slot \cup {NULL}, pagenum : PageNo \cup {NULL},
                         busy : BOOLEAN, dirty : BOOLEAN, ahead : BOOLEAN]]
    BY ZenonT(60) DEF IInv, TypesOK
  <1>2. q \in [Frame -> [obj : Slot \cup {NULL}, pagenum : PageNo \cup {NULL},
                         busy : BOOLEAN, dirty : BOOLEAN, ahead : BOOLEAN]]
    <2> HIDE DEF p
    <2> QED
      BY <1>1, ZenonT(60)
  <1>3. /\ pframe' = [q EXCEPT ![f].ahead = e]
        /\ \A g \in Frame \ {f} : pframe'[g] = pframe[g]
        /\ pframe'[f].obj = pframe[f].obj
        /\ ~pframe'[f].busy /\ pframe'[f].dirty
    BY DEF Wrote, IInv, TypesOK
  <1>8. e \in BOOLEAN
    OBVIOUS
  <1>4. pframe' \in [Frame -> [obj : Slot \cup {NULL}, pagenum : PageNo \cup {NULL},
                               busy : BOOLEAN, dirty : BOOLEAN, ahead : BOOLEAN]]
    <2> HIDE DEF q, e
    <2> QED
      BY <1>2, <1>3, <1>8, ZenonT(60)
  <1>5. map' \in [Thread -> Frame \cup {NULL}]
    BY DEF Wrote, IInv, TypesOK
  <1>6. /\ want' \in [Thread -> Vno \cup (PageNo \X Why) \cup {NULL}]
        /\ \A u \in Thread \ {t} : want'[u] = want[u]
    BY DEF Wrote, IInv, TypesOK
  <1>7. Goto(t, "run", NULL) /\ UNCHANGED <<vnode, linked, ref>>
    BY DEF Wrote
  <1> HIDE DEF p, q, e
  <1> QED
    <2>1. PageMoves(t, f, "run", NULL)
      BY <1>3, <1>4, <1>5, <1>6, <1>7 DEF PageMoves, OnPage
    <2> QED
      BY <2>1, PageStep

(* A page that somebody gets is not busy: nobody owns it.                  *)
LEMMA GetResidentKeeps ==
  ASSUME IInv, NEW t \in Thread, pc[t] \in {"run", "get"},
         NEW f \in Frame, NEW w \in PageNo \X Why, GetResident(t, f, w)
  PROVE  IInv'
  <1>1. pc[t] \notin OnPage \cup OnVnode
    BY DEF OnPage, OnVnode
  <1>2. ASSUME pframe[f].busy, SleepOn(t, "get", f), want' = [want EXCEPT ![t] = w],
               UNCHANGED <<vnode, pframe, linked, ref, map>>
        PROVE  IInv'
    BY <1>1, <1>2, StepAside DEF SleepOn, PC, OnPage, OnVnode, IInv, TypesOK
  <1>3. ASSUME Goto(t, "run", NULL), want' = [want EXCEPT ![t] = NULL],
               UNCHANGED <<vnode, pframe, linked, ref, map>>
        PROVE  IInv'
    BY <1>1, <1>3, StepAside DEF PC, OnPage, OnVnode, IInv, TypesOK
  <1>4. ASSUME ~pframe[f].busy, pframe[f].obj # NULL, Wrote(t, f, w)
        PROVE  IInv'
    BY <1>1, <1>4, WroteKeeps
  <1>5. ASSUME ~pframe[f].busy, pframe[f].obj # NULL, ~pframe[f].dirty,
               Goto(t, "dirtypage", f), want' = [want EXCEPT ![t] = w],
               pframe' = [pframe EXCEPT ![f].busy = TRUE],
               UNCHANGED <<vnode, linked, ref, map>>
        PROVE  IInv'
    <2>1. pframe' \in [Frame -> [obj : Slot \cup {NULL}, pagenum : PageNo \cup {NULL},
                                 busy : BOOLEAN, dirty : BOOLEAN, ahead : BOOLEAN]]
      BY <1>5, ZenonT(60) DEF IInv, TypesOK
    <2>6. /\ \A g \in Frame \ {f} : pframe'[g] = pframe[g]
          /\ pframe'[f].obj = pframe[f].obj /\ pframe'[f].busy
          /\ pframe'[f].ahead = pframe[f].ahead /\ ~pframe'[f].dirty
      BY <1>5 DEF IInv, TypesOK
    <2>2. ~pframe[f].ahead
      BY <1>5 DEF IInv, PagesOK
    <2>3. /\ want' \in [Thread -> Vno \cup (PageNo \X Why) \cup {NULL}]
          /\ want'[t] \in PageNo \X Why
          /\ \A u \in Thread \ {t} : want'[u] = want[u]
      BY <1>5 DEF IInv, TypesOK
    <2>4. map' \in [Thread -> Frame \cup {NULL}]
      BY <1>5 DEF IInv, TypesOK
    <2>5. PageMoves(t, f, "dirtypage", f)
      BY <1>1, <1>5, <2>1, <2>2, <2>3, <2>4, <2>6 DEF PageMoves, OnPage
    <2> QED
      BY <2>5, PageStep
  <1>6. Panic(t) => IInv'
    BY <1>1, Panics
  <1> QED
    BY <1>2, <1>3, <1>4, <1>5, <1>6 DEF GetResident, Got, cpuVars

(* pframe_alloc: a frame without an object becomes one more page of a      *)
(* vnode that t holds, and one more reference to it.                       *)
LEMMA NewPageKeeps ==
  ASSUME IInv, NEW t \in Thread, pc[t] = "run", NEW s \in Slot, ref[t] = s,
         NEW w \in PageNo \X Why, NewPage(t, s, w)
  PROVE  IInv'
  <1>1. PICK f \in Frame :
          /\ pframe[f].obj = NULL
          /\ pframe' = [pframe EXCEPT ![f] =
               [FreeFrame EXCEPT !.obj = s, !.pagenum = w[1], !.busy = TRUE]]
          /\ vnode' = [vnode EXCEPT ![s].refs = @ + 1]
          /\ Goto(t, "fillpage", f) /\ want' = [want EXCEPT ![t] = w]
          /\ UNCHANGED <<linked, ref, map>>
    BY DEF NewPage
  <1>2. /\ pc' \in [Thread -> PC] /\ cur' \in [Thread -> Slot \cup Frame \cup {NULL}]
        /\ pc'[t] = "fillpage" /\ cur'[t] = f
        /\ \A u \in Thread \ {t} : pc'[u] = pc[u] /\ cur'[u] = cur[u]
    BY <1>1 DEF Goto, IInv, TypesOK, PC
  <1>3. /\ pframe'[f] = [obj |-> s, pagenum |-> w[1], busy |-> TRUE,
                         dirty |-> FALSE, ahead |-> FALSE]
        /\ \A g \in Frame \ {f} : pframe'[g] = pframe[g]
    BY <1>1 DEF IInv, TypesOK, FreeFrame
  <1>4. pframe' \in [Frame -> [obj : Slot \cup {NULL}, pagenum : PageNo \cup {NULL},
                               busy : BOOLEAN, dirty : BOOLEAN, ahead : BOOLEAN]]
    <2>1. w[1] \in PageNo
      OBVIOUS
    <2>2. pframe'[f] \in [obj : Slot \cup {NULL}, pagenum : PageNo \cup {NULL},
                          busy : BOOLEAN, dirty : BOOLEAN, ahead : BOOLEAN]
      BY <1>3, <2>1
    <2>3. pframe' = [pframe EXCEPT ![f] = pframe'[f]]
      BY <1>1 DEF IInv, TypesOK
    <2> QED
      BY <2>2, <2>3 DEF IInv, TypesOK
  <1>5. /\ s # NULL /\ f # NULL /\ t \in Holders(s)
        /\ ~vnode[s].busy /\ InUse(s)
    BY CacheAssumption DEF IInv, VnodesOK, Unheld, Holders
  <1>6. /\ vnode' \in [Slot -> [vno : Vno \cup {NULL}, busy : BOOLEAN, refs : Int]]
        /\ vnode'[s].refs = vnode[s].refs + 1
        /\ vnode'[s].busy = vnode[s].busy
        /\ \A r \in Slot : vnode'[r].vno = vnode[r].vno
        /\ \A r \in Slot \ {s} : vnode'[r] = vnode[r]
    BY <1>1 DEF IInv, TypesOK
  <1>7. TypesOK'
    <2>1. /\ want' \in [Thread -> Vno \cup (PageNo \X Why) \cup {NULL}]
          /\ want'[t] = w /\ \A u \in Thread \ {t} : want'[u] = want[u]
      BY <1>1 DEF IInv, TypesOK
    <2>2. \A u \in Thread :
            /\ pc'[u] = "get" => cur'[u] \in Frame /\ want'[u] \in PageNo \X Why
            /\ pc'[u] = "vget" => want'[u] \in Vno
            /\ pc'[u] \in {"fillpage", "dirtypage"} => want'[u] \in PageNo \X Why
      BY <1>2, <2>1 DEF IInv, TypesOK
    <2>3. /\ ref' \in [Thread -> Slot \cup {NULL}] /\ map' \in [Thread -> Frame \cup {NULL}]
      BY <1>1 DEF IInv, TypesOK
    <2> QED
      BY <1>2, <1>4, <1>6, <2>1, <2>2, <2>3 DEF TypesOK
  <1>8. \A u \in Thread : pc[u] \in OnPage => cur[u] # f
    BY <1>1, <1>5 DEF IInv, PagesOK
  <1>9. PagesOK'
    <2>1. ASSUME NEW u \in Thread, pc'[u] \in OnPage
          PROVE  /\ cur'[u] \in Frame
                 /\ pframe'[cur'[u]].busy /\ pframe'[cur'[u]].obj # NULL
                 /\ pc'[u] # "cleanpage" => ~pframe'[cur'[u]].ahead
                 /\ ~pframe'[cur'[u]].dirty
                 /\ \A v \in Thread : pc'[v] \in OnPage /\ cur'[v] = cur'[u] => v = u
      <3>1. CASE u = t
        <4>1. /\ pframe'[f].busy /\ pframe'[f].obj # NULL /\ ~pframe'[f].ahead
              /\ ~pframe'[f].dirty /\ cur'[u] = f
          BY <1>2, <1>3, <1>5, <3>1
        <4>3. \A v \in Thread : pc'[v] \in OnPage /\ cur'[v] = f => v = u
          BY <1>2, <1>8, <3>1
        <4> QED
          BY <4>1, <4>3
      <3>2. CASE u # t
        BY <1>1, <1>2, <1>3, <1>8, <2>1, <3>2 DEF IInv, PagesOK
      <3> QED
        BY <3>1, <3>2
    <2>2. ASSUME NEW g \in Frame
          PROVE  /\ pframe'[g].busy => \E u \in Thread : pc'[u] \in OnPage /\ cur'[u] = g
                 /\ pframe'[g].dirty => pframe'[g].obj # NULL
                 /\ pframe'[g].ahead => pframe'[g].dirty \/ pframe'[g].busy
      <3>1. CASE g = f
        BY <1>2, <1>3, <3>1 DEF OnPage
      <3>2. CASE g # f
        <4>1. pframe[g].busy => \E u \in Thread \ {t} : pc[u] \in OnPage /\ cur[u] = g
          BY DEF IInv, PagesOK, OnPage
        <4> QED
          BY <1>2, <1>3, <3>2, <4>1 DEF IInv, PagesOK
      <3> QED
        BY <3>1, <3>2
    <2> QED
      BY <2>1, <2>2 DEF PagesOK
  <1>10. CallsOK'
    <2>1. \A u \in Thread \ {t} : pc[u] = "fillpage" => pframe'[cur[u]] = pframe[cur[u]]
      BY <1>3, <1>8 DEF IInv, PagesOK, OnPage
    <2>2. \A r \in Slot : vnode'[r].busy = vnode[r].busy
      BY <1>6
    <2>3. ref[t] = pframe'[f].obj
      BY <1>3
    <2>4. ref' = ref /\ linked' = linked
      BY <1>1
    <2>5. ASSUME NEW u \in Thread
          PROVE  /\ pc'[u] \in OnVnode =>
                      /\ cur'[u] \in Slot
                      /\ vnode'[cur'[u]].busy /\ InUse(cur[u])'
                      /\ \A v \in Thread : pc'[v] \in OnVnode /\ cur'[v] = cur'[u] => v = u
                 /\ pc'[u] \in {"vget", "read_vnode"} => ref'[u] = NULL
                 /\ pc'[u] = "fillpage" => ref'[u] = pframe'[cur'[u]].obj
                 /\ pc'[u] = "purge" => ref'[u] # NULL /\ vnode'[ref'[u]].vno \notin linked'
      <3>1. CASE u = t
        BY <1>2, <2>3, <2>4, <3>1 DEF OnVnode
      <3>2. CASE u # t
        <4>1. pc[t] \notin OnVnode /\ pc'[t] \notin OnVnode
          BY <1>2 DEF OnVnode
        <4>2. pc'[u] = pc[u] /\ cur'[u] = cur[u]
          BY <1>2, <3>2
        <4>3. pc'[u] \in OnVnode =>
                \A v \in Thread : pc'[v] \in OnVnode /\ cur'[v] = cur'[u] => v = u
          BY <1>2, <4>1, <4>2 DEF IInv, VnodesOK, CallsOK
        <4>4. pc'[u] \in OnVnode =>
                cur'[u] \in Slot /\ vnode'[cur'[u]].busy /\ InUse(cur[u])'
          BY <1>6, <2>2, <4>2 DEF IInv, VnodesOK, CallsOK, InUse
        <4>5. /\ pc'[u] \in {"vget", "read_vnode"} => ref'[u] = NULL
              /\ pc'[u] = "fillpage" => ref'[u] = pframe'[cur'[u]].obj
          BY <2>1, <2>4, <3>2, <4>2 DEF IInv, VnodesOK, CallsOK
        <4>6. pc'[u] = "purge" => ref'[u] # NULL /\ vnode'[ref'[u]].vno \notin linked'
          <5>1. pc[u] = "purge" => ref[u] # NULL /\ vnode[ref[u]].vno \notin linked
            BY DEF IInv, VnodesOK, CallsOK
          <5>2. ref[u] # NULL => ref[u] \in Slot
            BY DEF IInv, TypesOK
          <5> QED
            BY <1>6, <2>4, <4>2, <5>1, <5>2
        <4> QED
          BY <4>3, <4>4, <4>5, <4>6
      <3> QED
        BY <3>1, <3>2
    <2> QED
      BY <2>5 DEF CallsOK
  <1>11. /\ Pages(s)' = Pages(s) \cup {f} /\ f \notin Pages(s)
         /\ \A r \in Slot \ {s} : Pages(r)' = Pages(r)
         /\ \A r \in Slot : Holders(r)' = Holders(r)
    BY <1>1, <1>3, <1>5, CacheAssumption DEF Pages, Holders
  <1>12. nrespages(s)' = nrespages(s) + 1
    BY <1>11, Finite, FS_AddElement DEF nrespages
  <1>13. ASSUME NEW r \in Slot PROVE Counted(r)' /\ Unheld(r)'
    <2>1. CASE r # s
      BY <1>6, <1>11, <2>1 DEF IInv, VnodesOK, Counted, Unheld, InUse, nrespages
    <2>2. CASE r = s
      <3>1. Counted(s)'
        BY <1>5, <1>6, <1>11, <1>12, Finite DEF IInv, VnodesOK, Counted
      <3>2. ~vnode'[s].busy /\ InUse(s)'
        BY <1>5, <1>6 DEF InUse
      <3> QED
        BY <2>2, <3>1, <3>2 DEF Unheld
    <2> QED
      BY <2>1, <2>2
  <1>14. OneSlot'
    BY <1>6 DEF IInv, VnodesOK, OneSlot, InUse
  <1> QED
    BY <1>7, <1>9, <1>10, <1>13, <1>14 DEF IInv, VnodesOK

LEMMA GetKeeps ==
  ASSUME IInv, NEW t \in Thread,
         GetAgain(t) \/ \E w \in PageNo \X Why : pframe_get(t, w)
  PROVE  IInv'
  <1>1. ASSUME GetAgain(t) PROVE IInv'
    <2>1. pc[t] = "get" /\ cur[t] \in Frame /\ want[t] \in PageNo \X Why
      BY <1>1 DEF GetAgain, At, IInv, TypesOK
    <2> QED
      BY <1>1, <2>1, GetResidentKeeps DEF GetAgain
  <1>2. ASSUME NEW w \in PageNo \X Why, pframe_get(t, w) PROVE IInv'
    <2>1. pc[t] = "run" /\ ref[t] # NULL
      BY <1>2 DEF pframe_get, Calls, At
    <2>2. PICK s \in Slot : s = ref[t]
      BY <2>1 DEF IInv, TypesOK
    <2>3. NewPage(t, s, w) => IInv'
      BY <2>1, <2>2, NewPageKeeps
    <2>4. ASSUME NEW f \in Frame, GetResident(t, f, w) PROVE IInv'
      BY <2>1, <2>4, GetResidentKeeps
    <2> QED
      BY <1>2, <2>2, <2>3, <2>4 DEF pframe_get, Pages
  <1> QED
    BY <1>1, <1>2

-----------------------------------------------------------------------------
(* The disk calls on a page are back: the thread owned the page meanwhile. *)
LEMMA PageCallsKeep ==
  ASSUME IInv, NEW t \in Thread,
         Filled(t) \/ Dirtied(t) \/ DirtyFailed(t) \/ Cleaned(t) \/ CleanFailed(t)
  PROVE  IInv'
  <1>1. PICK f \in Frame : f = cur[t]
    BY DEF Filled, Dirtied, DirtyFailed, Cleaned, CleanFailed, At, OnPage, IInv, PagesOK
  <1>2. /\ f # NULL /\ pc[t] \in OnPage /\ cur[t] = f
        /\ pframe[f].obj # NULL /\ pframe[f].busy /\ ~pframe[f].dirty
        /\ pc[t] # "cleanpage" => ~pframe[f].ahead
        /\ pc[t] \in {"fillpage", "dirtypage"} => want[t] \in PageNo \X Why
    BY <1>1, CacheAssumption
       DEF Filled, Dirtied, DirtyFailed, Cleaned, CleanFailed, At, OnPage,
           IInv, TypesOK, PagesOK
  <1> DEFINE p == [pframe EXCEPT ![f].busy = FALSE]
  <1>3. p \in [Frame -> [obj : Slot \cup {NULL}, pagenum : PageNo \cup {NULL},
                         busy : BOOLEAN, dirty : BOOLEAN, ahead : BOOLEAN]]
    BY ZenonT(60) DEF IInv, TypesOK
  <1>4. /\ \A g \in Frame \ {f} : p[g] = pframe[g]
        /\ p[f].obj = pframe[f].obj /\ ~p[f].busy
        /\ p[f].dirty = pframe[f].dirty /\ p[f].ahead = pframe[f].ahead
    BY <1>2 DEF IInv, TypesOK
  <1>5. map' = map => map' \in [Thread -> Frame \cup {NULL}]
    BY DEF IInv, TypesOK
  <1>6. want' = want \/ want' = [want EXCEPT ![t] = NULL] =>
          /\ want' \in [Thread -> Vno \cup (PageNo \X Why) \cup {NULL}]
          /\ \A u \in Thread \ {t} : want'[u] = want[u]
    BY DEF IInv, TypesOK
  <1>7. ASSUME Filled(t) PROVE IInv'
    <2>1. pc[t] = "fillpage" /\ UNCHANGED <<vnode, linked, ref, map>>
      BY <1>7 DEF Filled, At
    <2>2. CASE pframe' = p /\ Goto(t, "run", NULL) /\ want' = [want EXCEPT ![t] = NULL]
      <3>1. PageMoves(t, f, "run", NULL)
        <4> HIDE DEF p
        <4> QED
          BY <1>2, <1>3, <1>4, <1>5, <1>6, <2>1, <2>2 DEF PageMoves, OnPage
      <3> QED
        BY <1>2, <3>1, PageStep
    <2>3. CASE UNCHANGED <<pframe, want>> /\ Goto(t, "dirtypage", f)
      <3>1. pframe' \in [Frame -> [obj : Slot \cup {NULL}, pagenum : PageNo \cup {NULL},
                                   busy : BOOLEAN, dirty : BOOLEAN, ahead : BOOLEAN]]
        BY <2>3 DEF IInv, TypesOK
      <3>2. PageMoves(t, f, "dirtypage", f)
        BY <1>2, <1>5, <1>6, <2>1, <2>3, <3>1 DEF PageMoves, OnPage
      <3> QED
        BY <1>2, <3>2, PageStep
    <2> QED
      BY <1>1, <1>7, <2>2, <2>3 DEF Filled
  <1>8. ASSUME Dirtied(t) PROVE IInv'
    <2>1. Wrote(t, f, want[t]) /\ want[t] \in PageNo \X Why
      BY <1>1, <1>2, <1>8 DEF Dirtied, At
    <2> QED
      BY <1>2, <2>1, WroteKeeps
  <1>9. ASSUME DirtyFailed(t) PROVE IInv'
    <2>1. /\ pc[t] = "dirtypage" /\ pframe' = p /\ Goto(t, "run", NULL)
          /\ want' = [want EXCEPT ![t] = NULL]
          /\ UNCHANGED <<vnode, linked, ref, map>>
      BY <1>1, <1>9 DEF DirtyFailed, At
    <2>2. PageMoves(t, f, "run", NULL)
      <3> HIDE DEF p
      <3> QED
        BY <1>2, <1>3, <1>4, <1>5, <1>6, <2>1 DEF PageMoves, OnPage
    <2> QED
      BY <1>2, <2>2, PageStep
  <1>10. ASSUME Cleaned(t) PROVE IInv'
    <2>1. /\ Goto(t, "sync", NULL) /\ UNCHANGED <<vnode, linked, ref, map, want>>
          /\ pframe' = [p EXCEPT ![f].ahead = FALSE]
      BY <1>1, <1>10 DEF Cleaned, threadVars
    <2> HIDE DEF p
    <2>2. pframe' \in [Frame -> [obj : Slot \cup {NULL}, pagenum : PageNo \cup {NULL},
                                 busy : BOOLEAN, dirty : BOOLEAN, ahead : BOOLEAN]]
      BY <1>3, <2>1, ZenonT(60)
    <2>4. /\ \A g \in Frame \ {f} : pframe'[g] = p[g]
          /\ pframe'[f].obj = p[f].obj /\ pframe'[f].busy = p[f].busy
          /\ ~pframe'[f].ahead
      BY <1>3, <2>1
    <2>3. PageMoves(t, f, "sync", NULL)
      BY <1>2, <1>4, <1>5, <1>6, <2>1, <2>2, <2>4 DEF PageMoves, OnPage
    <2> QED
      BY <1>2, <2>3, PageStep
  <1>11. ASSUME CleanFailed(t) PROVE IInv'
    <2>1. /\ Goto(t, "sync", NULL) /\ UNCHANGED <<vnode, linked, ref, map, want>>
          /\ pframe' = [p EXCEPT ![f].dirty = TRUE]
      BY <1>1, <1>11 DEF CleanFailed, threadVars
    <2> HIDE DEF p
    <2>2. pframe' \in [Frame -> [obj : Slot \cup {NULL}, pagenum : PageNo \cup {NULL},
                                 busy : BOOLEAN, dirty : BOOLEAN, ahead : BOOLEAN]]
      BY <1>3, <2>1, ZenonT(60)
    <2>4. /\ \A g \in Frame \ {f} : pframe'[g] = p[g]
          /\ pframe'[f].obj = p[f].obj /\ pframe'[f].busy = p[f].busy
          /\ pframe'[f].dirty
      BY <1>3, <2>1
    <2>3. PageMoves(t, f, "sync", NULL)
      BY <1>2, <1>4, <1>5, <1>6, <2>1, <2>2, <2>4 DEF PageMoves, OnPage
    <2> QED
      BY <1>2, <2>3, PageStep
  <1> QED
    BY <1>7, <1>8, <1>9, <1>10, <1>11

(* One round of pframe_clean_all: the page it starts on is not busy, and   *)
(* marked clean although a process may go on storing to it.                *)
LEMMA CleanAllKeeps ==
  ASSUME IInv, NEW t \in Thread, pframe_clean_all(t) \/ CleanAllAgain(t)
  PROVE  IInv'
  <1>1. pc[t] \in {"run", "sync"} /\ pc[t] \notin OnPage \cup OnVnode /\ CleanAll(t)
    BY DEF pframe_clean_all, CleanAllAgain, Calls, At, OnPage, OnVnode
  <1>2. ASSUME NEW f \in Frame, SleepOn(t, "sync", f),
               UNCHANGED <<vnode, pframe, linked, threadVars>>
        PROVE  IInv'
    BY <1>1, <1>2, StepAside DEF SleepOn, threadVars, PC, OnPage, OnVnode, IInv, TypesOK
  <1>3. ASSUME Goto(t, "run", NULL), UNCHANGED <<vnode, pframe, linked, threadVars>>
        PROVE  IInv'
    BY <1>1, <1>3, StepAside DEF threadVars, PC, OnPage, OnVnode, IInv, TypesOK
  <1>4. ASSUME NEW f \in Frame, ~pframe[f].busy, CleanStart(t, f) PROVE IInv'
    <2> DEFINE p == [pframe EXCEPT ![f].dirty = FALSE]
    <2>1. /\ pframe[f].dirty /\ Goto(t, "cleanpage", f)
          /\ pframe' = [p EXCEPT ![f].busy = TRUE]
          /\ UNCHANGED <<vnode, linked, ref, map, want>>
      BY <1>4 DEF CleanStart, threadVars
    <2>2. pframe[f].obj # NULL
      BY <2>1 DEF IInv, PagesOK
    <2>3. p \in [Frame -> [obj : Slot \cup {NULL}, pagenum : PageNo \cup {NULL},
                           busy : BOOLEAN, dirty : BOOLEAN, ahead : BOOLEAN]]
      BY ZenonT(60) DEF IInv, TypesOK
    <2>8. /\ \A g \in Frame \ {f} : p[g] = pframe[g]
          /\ p[f].obj = pframe[f].obj /\ ~p[f].dirty
      BY DEF IInv, TypesOK
    <2> HIDE DEF p
    <2>4. pframe' \in [Frame -> [obj : Slot \cup {NULL}, pagenum : PageNo \cup {NULL},
                                 busy : BOOLEAN, dirty : BOOLEAN, ahead : BOOLEAN]]
      BY <2>1, <2>3, ZenonT(60)
    <2>9. /\ \A g \in Frame \ {f} : pframe'[g] = p[g]
          /\ pframe'[f].obj = p[f].obj /\ pframe'[f].busy
          /\ pframe'[f].dirty = p[f].dirty
      BY <2>1, <2>3
    <2>5. map' \in [Thread -> Frame \cup {NULL}]
      BY <2>1 DEF IInv, TypesOK
    <2>6. /\ want' \in [Thread -> Vno \cup (PageNo \X Why) \cup {NULL}]
          /\ \A u \in Thread \ {t} : want'[u] = want[u]
      BY <2>1 DEF IInv, TypesOK
    <2>7. PageMoves(t, f, "cleanpage", f)
      BY <1>1, <1>4, <2>1, <2>2, <2>3, <2>4, <2>5, <2>6, <2>8, <2>9
         DEF PageMoves, OnPage
    <2> QED
      BY <2>7, PageStep
  <1> QED
    BY <1>1, <1>2, <1>3, <1>4 DEF CleanAll

(* A page that could not be filled goes, with its reference.               *)
LEMMA FillFailedKeeps ==
  ASSUME IInv, NEW t \in Thread, FillFailed(t)
  PROVE  IInv'
  <1>1. PICK f \in Frame : f = cur[t]
    BY DEF FillFailed, At, OnPage, IInv, PagesOK
  <1>2. /\ pc[t] = "fillpage" /\ pframe[f].obj # NULL /\ ref[t] = pframe[f].obj
        /\ \A u \in Thread : pc[u] \in OnPage /\ cur[u] = f => u = t
    BY <1>1 DEF FillFailed, At, OnPage, IInv, PagesOK, VnodesOK, CallsOK
  <1>3. PICK s \in Slot : s = ref[t] /\ s # NULL /\ pframe[f].obj = s
    BY <1>2 DEF IInv, TypesOK
  <1>4. /\ pframe' = [pframe EXCEPT ![f] = FreeFrame]
        /\ vnode' = [vnode EXCEPT ![s].refs = @ - 1]
        /\ Goto(t, "run", NULL) /\ want' = [want EXCEPT ![t] = NULL]
        /\ UNCHANGED <<linked, ref, map>>
    BY <1>1, <1>3 DEF FillFailed
  <1>5. /\ pc' \in [Thread -> PC] /\ cur' \in [Thread -> Slot \cup Frame \cup {NULL}]
        /\ pc'[t] = "run" /\ cur'[t] = NULL
        /\ \A u \in Thread \ {t} : pc'[u] = pc[u] /\ cur'[u] = cur[u]
    BY <1>4 DEF Goto, IInv, TypesOK, PC
  <1>6. /\ pframe'[f] = FreeFrame /\ \A g \in Frame \ {f} : pframe'[g] = pframe[g]
        /\ pframe' \in [Frame -> [obj : Slot \cup {NULL}, pagenum : PageNo \cup {NULL},
                                  busy : BOOLEAN, dirty : BOOLEAN, ahead : BOOLEAN]]
    BY <1>4 DEF IInv, TypesOK, FreeFrame
  <1>7. t \in Holders(s) /\ ~vnode[s].busy /\ InUse(s)
    BY <1>3 DEF IInv, VnodesOK, Unheld, Holders
  <1>8. /\ vnode' \in [Slot -> [vno : Vno \cup {NULL}, busy : BOOLEAN, refs : Int]]
        /\ vnode'[s].refs = vnode[s].refs - 1
        /\ \A r \in Slot : vnode'[r].vno = vnode[r].vno /\ vnode'[r].busy = vnode[r].busy
        /\ \A r \in Slot \ {s} : vnode'[r] = vnode[r]
    BY <1>4 DEF IInv, TypesOK
  <1>9. TypesOK'
    <2>1. /\ want' \in [Thread -> Vno \cup (PageNo \X Why) \cup {NULL}]
          /\ \A u \in Thread \ {t} : want'[u] = want[u]
      BY <1>4 DEF IInv, TypesOK
    <2>2. /\ ref' \in [Thread -> Slot \cup {NULL}] /\ map' \in [Thread -> Frame \cup {NULL}]
      BY <1>4 DEF IInv, TypesOK
    <2> QED
      BY <1>5, <1>6, <1>8, <2>1, <2>2 DEF IInv, TypesOK
  <1>10. PagesOK'
    <2>1. \A u \in Thread : pc'[u] \in OnPage =>
            /\ pc'[u] = pc[u] /\ cur'[u] = cur[u] /\ cur[u] \in Frame \ {f}
      BY <1>2, <1>5 DEF OnPage, IInv, PagesOK
    <2>2. \A u \in Thread : pc'[u] \in OnPage =>
            /\ cur'[u] \in Frame
            /\ pframe'[cur'[u]].busy /\ pframe'[cur'[u]].obj # NULL
            /\ pc'[u] # "cleanpage" => ~pframe'[cur'[u]].ahead
            /\ ~pframe'[cur'[u]].dirty
            /\ \A v \in Thread : pc'[v] \in OnPage /\ cur'[v] = cur'[u] => v = u
      BY <1>4, <1>6, <2>1 DEF IInv, PagesOK
    <2>3. ASSUME NEW g \in Frame
          PROVE  /\ pframe'[g].busy => \E u \in Thread : pc'[u] \in OnPage /\ cur'[u] = g
                 /\ pframe'[g].dirty => pframe'[g].obj # NULL
                 /\ pframe'[g].ahead => pframe'[g].dirty \/ pframe'[g].busy
      <3>1. CASE g = f
        BY <1>6, <3>1 DEF FreeFrame
      <3>2. CASE g # f
        <4>1. pframe[g].busy => \E u \in Thread \ {t} : pc[u] \in OnPage /\ cur[u] = g
          BY <1>1, <3>2 DEF IInv, PagesOK
        <4> QED
          BY <1>5, <1>6, <3>2, <4>1 DEF IInv, PagesOK
      <3> QED
        BY <3>1, <3>2
    <2> QED
      BY <2>2, <2>3 DEF PagesOK
  <1>11. CallsOK'
    <2>1. \A u \in Thread \ {t} : pc[u] = "fillpage" => pframe'[cur[u]] = pframe[cur[u]]
      BY <1>2, <1>6 DEF IInv, PagesOK, OnPage
    <2>2. pc[t] \notin OnVnode /\ pc'[t] \notin OnVnode
      BY <1>2, <1>5 DEF OnVnode
    <2>3. pc'[t] \notin {"vget", "read_vnode", "fillpage", "purge"}
      BY <1>5
    <2>4. ASSUME NEW u \in Thread, pc[u] = "purge"
          PROVE  ref[u] # NULL /\ vnode'[ref[u]].vno \notin linked
      <3>1. ref[u] # NULL /\ vnode[ref[u]].vno \notin linked
        BY <2>4 DEF IInv, VnodesOK, CallsOK
      <3>2. ref[u] \in Slot
        BY <3>1 DEF IInv, TypesOK
      <3> QED
        BY <1>8, <3>1, <3>2
    <2>5. ref' = ref /\ linked' = linked
      BY <1>4
    <2> QED
      BY <1>5, <1>8, <2>1, <2>2, <2>3, <2>4, <2>5
         DEF IInv, VnodesOK, CallsOK, InUse
  <1>12. /\ Pages(s)' = Pages(s) \ {f} /\ f \in Pages(s)
         /\ \A r \in Slot \ {s} : Pages(r)' = Pages(r)
         /\ \A r \in Slot : Holders(r)' = Holders(r)
    BY <1>3, <1>4, <1>6, CacheAssumption DEF Pages, Holders, FreeFrame
  <1>13. nrespages(s)' = nrespages(s) - 1
    BY <1>12, Finite, FS_RemoveElement DEF nrespages
  <1>14. ASSUME NEW r \in Slot PROVE Counted(r)' /\ Unheld(r)'
    <2>1. CASE r # s
      BY <1>8, <1>12, <2>1 DEF IInv, VnodesOK, Counted, Unheld, InUse, nrespages
    <2>2. CASE r = s
      <3>1. Counted(s)'
        BY <1>7, <1>8, <1>12, <1>13, Finite DEF IInv, VnodesOK, Counted
      <3>2. ~vnode'[s].busy /\ InUse(s)'
        BY <1>7, <1>8 DEF InUse
      <3> QED
        BY <2>2, <3>1, <3>2 DEF Unheld
    <2> QED
      BY <2>1, <2>2
  <1>15. OneSlot'
    BY <1>8 DEF IInv, VnodesOK, OneSlot, InUse
  <1> QED
    BY <1>9, <1>10, <1>11, <1>14, <1>15 DEF IInv, VnodesOK

-----------------------------------------------------------------------------
(* The process of t writes through its mapping, or unmaps the file.        *)
LEMMA MappingKeeps ==
  ASSUME IInv, NEW t \in Thread, Store(t) \/ Unmap(t)
  PROVE  IInv'
  <1>1. PICK f \in Frame : f = map[t]
    BY DEF Store, Unmap, IInv, TypesOK
  <1>2. pc[t] = "run" /\ f # NULL
    BY CacheAssumption DEF Store, Unmap, Calls, At
  <1>4. ASSUME Store(t) PROVE IInv'
    <2> DEFINE a == pframe[f].ahead \/ pframe[f].dirty
    <2>1. /\ pframe' = [pframe EXCEPT ![f].ahead = a]
          /\ UNCHANGED <<vnode, linked, pc, cur, ref, map, want>>
      BY <1>1, <1>4 DEF Store, threadVars
    <2>2. a \in BOOLEAN
      OBVIOUS
    <2>3. pframe' \in [Frame -> [obj : Slot \cup {NULL}, pagenum : PageNo \cup {NULL},
                                 busy : BOOLEAN, dirty : BOOLEAN, ahead : BOOLEAN]]
      <3> HIDE DEF a
      <3> QED
        BY <2>1, <2>2, ZenonT(60) DEF IInv, TypesOK
    <2>4. \A g \in Frame :
            /\ pframe'[g].obj = pframe[g].obj /\ pframe'[g].busy = pframe[g].busy
            /\ pframe'[g].dirty = pframe[g].dirty
            /\ pframe'[g].ahead => pframe[g].ahead \/ pframe[g].dirty
      BY <2>1 DEF IInv, TypesOK
    <2> HIDE DEF a
    <2>5. TypesOK'
      BY <2>1, <2>3 DEF IInv, TypesOK
    <2>6. PagesOK'
      BY <2>1, <2>4 DEF IInv, PagesOK
    <2>7. CallsOK'
      <3>1. \A u \in Thread : pc[u] = "fillpage" => cur[u] \in Frame
        BY DEF IInv, PagesOK, OnPage
      <3> QED
        BY <2>1, <2>4, <3>1 DEF IInv, VnodesOK, CallsOK, InUse
    <2> QED
      BY <2>1, <2>4, <2>5, <2>6, <2>7, CountsStay DEF IInv, VnodesOK
  <1>5. ASSUME Unmap(t) PROVE IInv'
    <2>1. /\ map' = [map EXCEPT ![t] = NULL]
          /\ UNCHANGED <<vnode, pframe, linked, pc, cur, ref, want>>
      BY <1>5 DEF Unmap
    <2>2. map' \in [Thread -> Frame \cup {NULL}]
      BY <2>1 DEF IInv, TypesOK
    <2>3. TypesOK'
      BY <2>1, <2>2 DEF IInv, TypesOK
    <2>4. PagesOK'
      BY <2>1 DEF IInv, PagesOK
    <2>5. CallsOK'
      BY <2>1 DEF IInv, VnodesOK, CallsOK, InUse
    <2> QED
      BY <2>1, <2>3, <2>4, <2>5, CountsStay DEF IInv, VnodesOK
  <1> QED
    BY <1>4, <1>5

(* Links come and go; the file system makes no file of an inode number     *)
(* somebody still has in memory.                                           *)
LEMMA LinksKeep ==
  ASSUME IInv, NEW t \in Thread, Unlink(t) \/ \E vno \in Vno : Create(t, vno)
  PROVE  IInv'
  <1>1. UNCHANGED <<vnode, pframe, pc, cur, ref, map, want>>
    BY DEF Unlink, Create, threadVars
  <1>2. ASSUME NEW s \in Slot, vnode[s].vno \notin linked PROVE vnode[s].vno \notin linked'
    BY <1>2 DEF Unlink, Create
  <1>3. TypesOK'
    BY <1>1 DEF IInv, TypesOK
  <1>4. PagesOK'
    BY <1>1 DEF IInv, PagesOK
  <1>5. CallsOK'
    BY <1>1, <1>2 DEF IInv, TypesOK, VnodesOK, CallsOK, InUse
  <1> QED
    BY <1>1, <1>3, <1>4, <1>5, CountsStay DEF IInv, VnodesOK

(* The queues of the scheduler are no part of the invariant.               *)
LEMMA QueuesKeep ==
  ASSUME IInv, UNCHANGED <<vnode, pframe, linked, pc, cur, ref, map, want>>
  PROVE  IInv'
  <1>1. TypesOK'
    BY DEF IInv, TypesOK
  <1>2. PagesOK'
    BY DEF IInv, PagesOK
  <1>3. CallsOK'
    BY DEF IInv, VnodesOK, CallsOK, InUse
  <1> QED
    BY <1>1, <1>2, <1>3, CountsStay DEF IInv, VnodesOK

-----------------------------------------------------------------------------
LEMMA InitOK == Init => IInv
  <1> SUFFICES ASSUME Init PROVE IInv
    OBVIOUS
  <1>1. TypesOK
    BY DEF Init, TypesOK, Free, FreeFrame, PC
  <1>2. PagesOK
    BY DEF Init, PagesOK, FreeFrame, OnPage
  <1>3. CallsOK
    BY DEF Init, CallsOK, OnVnode
  <1>4. ASSUME NEW s \in Slot PROVE Counted(s) /\ Unheld(s)
    <2>1. Pages(s) = {} /\ Holders(s) = {}
      BY CacheAssumption DEF Init, Pages, Holders, FreeFrame
    <2>2. vnode[s].refs = 0
      BY DEF Init, Free
    <2> QED
      BY <2>1, <2>2, FS_EmptySet DEF Counted, Unheld, nrespages
  <1>5. OneSlot
    BY DEF Init, OneSlot, InUse, Free
  <1> QED
    BY <1>1, <1>2, <1>3, <1>4, <1>5 DEF IInv, VnodesOK

LEMMA NextKeeps == IInv /\ [Next]_vars => IInv'
  <1> SUFFICES ASSUME IInv, [Next]_vars PROVE IInv'
    OBVIOUS
  <1>1. ASSUME NEW t \in Thread, NEW vno \in Vno, vget(t, vno) PROVE IInv'
    BY <1>1, FindKeeps DEF vget, Calls, At
  <1>2. ASSUME NEW t \in Thread, FindAgain(t) PROVE IInv'
    <2>1. pc[t] = "vget" /\ want[t] \in Vno /\ ref[t] = NULL
      BY <1>2 DEF FindAgain, At, IInv, TypesOK, VnodesOK, CallsOK
    <2> QED
      BY <1>2, <2>1, FindKeeps DEF FindAgain
  <1>3. ASSUME NEW t \in Thread, Operation(t) PROVE IInv'
    BY <1>1, <1>3, GetKeeps, vputKeeps, CleanAllKeeps, MappingKeeps, LinksKeep
       DEF Operation
  <1>4. ASSUME NEW t \in Thread, DiskDone(t) PROVE IInv'
    BY <1>4, ReadVnodeKeeps, DeleteVnodeKeeps, PageCallsKeep, FillFailedKeeps
       DEF DiskDone
  <1>5. ASSUME NEW t \in Thread, Resume(t) PROVE IInv'
    BY <1>2, <1>5, GetKeeps, vputKeeps, CleanAllKeeps DEF Resume
  <1>6. ASSUME NEW t \in Thread, Block(t) \/ Interrupt(t) PROVE IInv'
    BY <1>6, QueuesKeep DEF Block, Interrupt, threadVars
  <1>7. CASE Switch
    BY <1>7, QueuesKeep DEF Switch, threadVars
  <1>8. CASE UNCHANGED vars
    BY <1>8, QueuesKeep DEF vars, threadVars
  <1> QED
    BY <1>3, <1>4, <1>5, <1>6, <1>7, <1>8 DEF Next

(* The invariant holds of every state: a page's flags tell who works on it,*)
(* and a vnode's count who refers to it.                                   *)
THEOREM CacheInvariant == Spec => []IInv
  BY InitOK, NextKeeps, PTL DEF Spec

(* fs/vnode.c, mm/pframe.c: through reads, fills that fail, purges and     *)
(* deletions that sleep in any order, vn_refcount is the number of         *)
(* references and cached pages, and a slot is freed only without either.   *)
THEOREM CountsAreExact == Spec => []RefcountExact
  <1>1. IInv => RefcountExact
    BY DEF IInv, VnodesOK, Counted, Unheld, OneSlot, RefcountExact
  <1> QED
    BY CacheInvariant, <1>1, PTL

(* mm/pframe.c: a busy page is resident and is being filled, dirtied or    *)
(* cleaned by exactly one thread; a page that is not busy, by none.        *)
THEOREM BusyPagesAreOwned == Spec => []BusyHasOneOwner
  <1>1. ASSUME IInv, NEW f \in Frame
        PROVE  LET owners == {t \in Thread : pc[t] \in {"fillpage", "dirtypage", "cleanpage"}
                                             /\ cur[t] = f}
               IN /\ Cardinality(owners) = IF pframe[f].busy THEN 1 ELSE 0
                  /\ pframe[f].busy => pframe[f].obj # NULL
    <2> DEFINE owners == {t \in Thread : pc[t] \in OnPage /\ cur[t] = f}
    <2>1. CASE pframe[f].busy
      <3>1. PICK t \in Thread : pc[t] \in OnPage /\ cur[t] = f
        BY <1>1, <2>1 DEF IInv, PagesOK
      <3>2. owners = {t} /\ pframe[f].obj # NULL
        BY <1>1, <3>1 DEF IInv, PagesOK
      <3>3. Cardinality(owners) = 1
        BY <3>2, FS_Singleton
      <3> QED
        BY <2>1, <3>2, <3>3 DEF OnPage
    <2>2. CASE ~pframe[f].busy
      <3>1. owners = {}
        BY <1>1, <2>2 DEF IInv, PagesOK
      <3>2. Cardinality(owners) = 0
        BY <3>1, FS_EmptySet
      <3> QED
        BY <2>2, <3>2 DEF OnPage
    <2> QED
      BY <2>1, <2>2
  <1>2. IInv => BusyHasOneOwner
    BY <1>1 DEF BusyHasOneOwner
  <1> QED
    BY CacheInvariant, <1>2, PTL

(* mm/pframe.c: what was written to a dirty page, and the disk does not    *)
(* have, is on a page that is dirty or being written out, so that clearing *)
(* the dirty bit before the write loses nothing of it.  What a process     *)
(* stores on a clean page it still maps is not part of the promise.        *)
THEOREM NothingIsLost == Spec => []NoLostWrite
  <1>1. IInv => NoLostWrite
    BY DEF IInv, PagesOK, NoLostWrite
  <1> QED
    BY CacheInvariant, <1>1, PTL

-----------------------------------------------------------------------------
(* What one step does to a page that holds newer data than the disk.       *)
DataStays ==
  \A f \in Frame :
    pframe[f].ahead /\ pframe'[f].obj # pframe[f].obj
      => vnode[pframe[f].obj].vno \notin linked

LEMMA PutKeepsData ==
  ASSUME IInv, NEW t \in Thread, vput(t) \/ PurgeAgain(t)
  PROVE  DataStays
  <1>1. PICK s \in Slot : s = ref[t]
    BY DEF vput, PurgeAgain, At, IInv, TypesOK, VnodesOK, CallsOK
  <1>2. Drop(t, s, {}) \/ (vnode[s].vno \notin linked /\ Purge(t, s))
    BY <1>1 DEF vput, PurgeAgain, At, IInv, VnodesOK, CallsOK
  <1>3. ASSUME Drop(t, s, {}) PROVE DataStays
    BY <1>3 DEF Drop, FreePages, DataStays
  <1>4. ASSUME vnode[s].vno \notin linked, NEW D \in SUBSET Pages(s), FreePages(D)
        PROVE  DataStays
    BY <1>4 DEF FreePages, Pages, DataStays
  <1>5. ASSUME Panic(t) PROVE DataStays
    BY <1>5 DEF Panic, DataStays
  <1>6. ASSUME vnode[s].vno \notin linked, Purge(t, s) PROVE DataStays
    <2>1. \/ Panic(t)
          \/ \E D \in SUBSET Pages(s) : FreePages(D)
      BY <1>6 DEF Purge, Drop
    <2> QED
      BY <1>4, <1>5, <1>6, <2>1
  <1> QED
    BY <1>2, <1>3, <1>6

LEMMA GetKeepsData ==
  ASSUME IInv, NEW t \in Thread,
         \/ GetAgain(t) \/ \E w \in PageNo \X Why : pframe_get(t, w)
         \/ Filled(t) \/ FillFailed(t) \/ Dirtied(t) \/ DirtyFailed(t)
  PROVE  DataStays
  <1>1. ASSUME NEW f \in Frame, NEW w \in PageNo \X Why, Wrote(t, f, w)
        PROVE  \A g \in Frame : pframe'[g].obj = pframe[g].obj
    BY <1>1 DEF Wrote, IInv, TypesOK
  <1>2. ASSUME NEW f \in Frame, NEW w \in PageNo \X Why, GetResident(t, f, w)
        PROVE  \A g \in Frame : pframe'[g].obj = pframe[g].obj
    <2>1. CASE UNCHANGED pframe
      BY <2>1
    <2>2. CASE pframe' = [pframe EXCEPT ![f].busy = TRUE]
      BY <2>2 DEF IInv, TypesOK
    <2> QED
      BY <1>1, <1>2, <2>1, <2>2 DEF GetResident, Got, Panic
  <1>3. ASSUME NEW s \in Slot, NEW w \in PageNo \X Why, NewPage(t, s, w)
        PROVE  DataStays
    <2>1. PICK f \in Frame :
            /\ pframe[f].obj = NULL
            /\ \A g \in Frame \ {f} : pframe'[g] = pframe[g]
      BY <1>3 DEF NewPage, IInv, TypesOK
    <2>2. ~pframe[f].ahead
      BY <2>1 DEF IInv, PagesOK
    <2> QED
      BY <2>1, <2>2 DEF DataStays
  <1>4. ASSUME NEW w \in PageNo \X Why, pframe_get(t, w) PROVE DataStays
    <2>1. PICK s \in Slot : s = ref[t]
      BY <1>4 DEF pframe_get, IInv, TypesOK
    <2> QED
      BY <1>2, <1>3, <1>4, <2>1 DEF pframe_get, Pages, DataStays
  <1>5. ASSUME GetAgain(t) PROVE DataStays
    <2>1. cur[t] \in Frame /\ want[t] \in PageNo \X Why
      BY <1>5 DEF GetAgain, At, IInv, TypesOK
    <2> QED
      BY <1>2, <1>5, <2>1 DEF GetAgain, DataStays
  <1>6. ASSUME pc[t] \in {"fillpage", "dirtypage"}
        PROVE  /\ cur[t] \in Frame /\ ~pframe[cur[t]].ahead
               /\ want[t] \in PageNo \X Why
    BY <1>6 DEF IInv, TypesOK, PagesOK, OnPage
  <1>7. ASSUME Filled(t) \/ FillFailed(t) \/ DirtyFailed(t) PROVE DataStays
    <2>1. PICK f \in Frame : f = cur[t] /\ ~pframe[f].ahead
      BY <1>6, <1>7 DEF Filled, FillFailed, DirtyFailed, At
    <2>2. \A g \in Frame \ {f} : pframe'[g] = pframe[g]
      BY <1>7, <2>1 DEF Filled, FillFailed, DirtyFailed, IInv, TypesOK
    <2> QED
      BY <2>1, <2>2 DEF DataStays
  <1>8. ASSUME Dirtied(t) PROVE DataStays
    BY <1>1, <1>6, <1>8 DEF Dirtied, At, DataStays
  <1> QED
    BY <1>4, <1>5, <1>7, <1>8

LEMMA CleanKeepsData ==
  ASSUME IInv, NEW t \in Thread,
         \/ pframe_clean_all(t) \/ CleanAllAgain(t) \/ Cleaned(t) \/ CleanFailed(t)
         \/ Store(t)
  PROVE  DataStays
  <1>1. ASSUME NEW f \in Frame, CleanStart(t, f)
        PROVE  \A g \in Frame : pframe'[g].obj = pframe[g].obj
    BY <1>1 DEF CleanStart, IInv, TypesOK
  <1>2. ASSUME CleanAll(t) PROVE DataStays
    BY <1>1, <1>2 DEF CleanAll, DataStays
  <1>3. ASSUME Cleaned(t) \/ CleanFailed(t) PROVE DataStays
    <2>1. PICK f \in Frame : f = cur[t]
      BY <1>3 DEF Cleaned, CleanFailed, At, IInv, PagesOK, OnPage
    <2>2. \A g \in Frame : pframe'[g].obj = pframe[g].obj
      BY <1>3, <2>1 DEF Cleaned, CleanFailed, IInv, TypesOK
    <2> QED
      BY <2>2 DEF DataStays
  <1>4. ASSUME Store(t) PROVE DataStays
    <2>1. PICK f \in Frame : f = map[t]
      BY <1>4 DEF Store, IInv, TypesOK
    <2>2. \A g \in Frame : pframe'[g].obj = pframe[g].obj
      BY <1>4, <2>1 DEF Store, IInv, TypesOK
    <2> QED
      BY <2>2 DEF DataStays
  <1> QED
    BY <1>2, <1>3, <1>4 DEF pframe_clean_all, CleanAllAgain

LEMMA NextKeepsData == IInv /\ [Next]_vars => DataStays
  <1> SUFFICES ASSUME IInv, [Next]_vars PROVE DataStays
    OBVIOUS
  <1>1. UNCHANGED pframe => DataStays
    BY DEF DataStays
  <1>2. ASSUME NEW t \in Thread, NEW vno \in Vno, Find(t, vno) \/ Create(t, vno)
        PROVE  UNCHANGED pframe
    BY <1>2 DEF Find, Panic, Create
  <1>3. ASSUME NEW t \in Thread, Operation(t) PROVE DataStays
    <2>1. Unmap(t) \/ Unlink(t) => UNCHANGED pframe
      BY DEF Unmap, Unlink
    <2> QED
      BY <1>1, <1>2, <1>3, <2>1, PutKeepsData, GetKeepsData, CleanKeepsData
         DEF Operation, vget
  <1>4. ASSUME NEW t \in Thread, DiskDone(t) PROVE DataStays
    <2>1. ReadVnode(t) \/ DeleteVnode(t) => UNCHANGED pframe
      BY DEF ReadVnode, DeleteVnode
    <2> QED
      BY <1>1, <1>4, <2>1, GetKeepsData, CleanKeepsData DEF DiskDone
  <1>5. ASSUME NEW t \in Thread, Resume(t) PROVE DataStays
    <2>1. FindAgain(t) => UNCHANGED pframe
      <3>1. At(t, "vget") => want[t] \in Vno
        BY DEF At, IInv, TypesOK
      <3> QED
        BY <1>2, <3>1 DEF FindAgain
    <2> QED
      BY <1>1, <1>5, <2>1, PutKeepsData, GetKeepsData, CleanKeepsData DEF Resume
  <1>6. ASSUME NEW t \in Thread, Block(t) \/ Interrupt(t) PROVE UNCHANGED pframe
    BY <1>6 DEF Block, Interrupt
  <1>7. Switch \/ UNCHANGED vars => UNCHANGED pframe
    BY DEF Switch, vars
  <1> QED
    BY <1>1, <1>3, <1>4, <1>5, <1>6, <1>7 DEF Next

(* mm/pframe.c, fs/vnode.c: a page leaves memory with data that was        *)
(* written to it while it was dirty, and that the disk does not have, only *)
(* when its file has no links left.                                        *)
THEOREM LinkedDataIsKept == Spec => DataKept
  <1>1. IInv /\ [Next]_vars
          => [\A f \in Frame :
                pframe[f].ahead /\ pframe'[f].obj # pframe[f].obj
                  => vnode[pframe[f].obj].vno \notin linked]_vars
    BY NextKeepsData DEF DataStays
  <1> QED
    BY CacheInvariant, <1>1, PTL DEF Spec, DataKept

-----------------------------------------------------------------------------
(* The sleepers.  Each thread has one place, so that a thread that runs is *)
(* no sleeper; and what a sleeper waits for changes only with a broadcast  *)
(* on its queue.                                                           *)
PlacesOK ==
  /\ runq \in Seq(Thread) /\ asleep \in Seq(Thread)
  /\ Injective(runq) /\ Injective(asleep)
  /\ ToSet(runq) \cap ToSet(asleep) = {}
  /\ cpu \in Thread \cup {NULL} /\ cpu \notin ToSet(runq) \cup ToSet(asleep)

(* What the sleeper t waits for is still to come.                          *)
Awaits(t) ==
  /\ pc[t] \in {"get", "purge", "sync"} => cur[t] \in Frame /\ pframe[cur[t]].busy
  /\ pc[t] = "vget" => cur[t] \in Slot /\ vnode[cur[t]].vno = want[t]

SleepInv == PlacesOK /\ \A t \in ToSet(asleep) : Awaits(t)

(* Only t moves.                                                           *)
Alone(t) ==
  \A u \in Thread \ {t} : pc'[u] = pc[u] /\ cur'[u] = cur[u] /\ want'[u] = want[u]

(* Nobody's wait ends but that of the sleepers on the queue of x.          *)
Settles(x) ==
  /\ \A f \in Frame : pframe[f].busy => pframe'[f].busy \/ f = x
  /\ \A s \in Slot : InUse(s) => vnode'[s].vno = vnode[s].vno \/ s = x

LEMMA SleepOnPlaces ==
  ASSUME PlacesOK, NEW t \in Thread, cpu = t, NEW l, NEW x, SleepOn(t, l, x)
  PROVE  PlacesOK' /\ ToSet(asleep)' = ToSet(asleep) \cup {t}
  <1>1. /\ asleep' = Append(asleep, t) /\ runq' = runq /\ cpu' = NULL
        /\ asleep \in Seq(Thread) /\ runq \in Seq(Thread)
        /\ t \notin ToSet(asleep) /\ t \notin ToSet(runq)
    BY DEF SleepOn, PlacesOK
  <1>2. /\ asleep' \in Seq(Thread) /\ ToSet(asleep') = ToSet(asleep) \cup {t}
        /\ Injective(asleep')
    BY <1>1, AppendQueue DEF PlacesOK
  <1>3. ToSet(asleep) \subseteq Thread /\ ToSet(runq) \subseteq Thread
    BY <1>1, MemberNonEmpty
  <1> QED
    BY <1>1, <1>2, <1>3, CacheAssumption DEF PlacesOK

LEMMA BroadcastPlaces ==
  ASSUME PlacesOK, NEW x, Broadcast(x)
  PROVE  /\ PlacesOK' /\ ToSet(asleep)' \subseteq ToSet(asleep)
         /\ \A u \in ToSet(asleep)' : cur[u] # x
  <1> DEFINE on  == Only(asleep, {t \in Thread : cur[t] = x})
             off == Only(asleep, {t \in Thread : cur[t] # x})
  <1>1. /\ asleep \in Seq(Thread) /\ runq \in Seq(Thread)
        /\ Injective(asleep) /\ Injective(runq)
    BY DEF PlacesOK
  <1>2. /\ on \in Seq(Thread) /\ Injective(on)
        /\ ToSet(on) = ToSet(asleep) \cap {t \in Thread : cur[t] = x}
    BY <1>1, OnlyQueue
  <1>3. /\ off \in Seq(Thread) /\ Injective(off)
        /\ ToSet(off) = ToSet(asleep) \cap {t \in Thread : cur[t] # x}
    BY <1>1, OnlyQueue
  <1>4. runq' = runq \o on /\ asleep' = off /\ cpu' = cpu
    BY DEF Broadcast
  <1> HIDE DEF on, off
  <1>5. ToSet(runq) \cap ToSet(on) = {}
    BY <1>2 DEF PlacesOK
  <1>6. /\ runq' \in Seq(Thread) /\ Injective(runq')
        /\ ToSet(runq') = ToSet(runq) \cup ToSet(on)
    BY <1>1, <1>2, <1>4, <1>5, ConcatQueue
  <1> QED
    BY <1>2, <1>3, <1>4, <1>6 DEF PlacesOK

(* A running thread goes on, perhaps after waking the sleepers for x.      *)
LEMMA AwakeStep ==
  ASSUME SleepInv, NEW t \in Thread, cpu = t, TypesOK, NEW x,
         (UNCHANGED cpuVars /\ x = NULL) \/ Broadcast(x), Alone(t), Settles(x)
  PROVE  SleepInv'
  <1>1. /\ PlacesOK' /\ ToSet(asleep)' \subseteq ToSet(asleep)
        /\ \A u \in ToSet(asleep)' : cur[u] # x \/ x = NULL
    <2>1. CASE UNCHANGED cpuVars /\ x = NULL
      BY <2>1 DEF SleepInv, PlacesOK, cpuVars
    <2>2. CASE Broadcast(x)
      BY <2>2, BroadcastPlaces DEF SleepInv
    <2> QED
      BY <2>1, <2>2
  <1>2. ASSUME NEW u \in ToSet(asleep)' PROVE Awaits(u)'
    <2>1. u \in Thread /\ u # t /\ Awaits(u)
      BY <1>1, <1>2, MemberNonEmpty DEF SleepInv, PlacesOK
    <2>2. pc'[u] = pc[u] /\ cur'[u] = cur[u] /\ want'[u] = want[u]
      BY <2>1 DEF Alone
    <2>3. cur[u] \in Slot \cup Frame => cur[u] # x
      BY <1>1, <1>2, CacheAssumption
    <2>4. ASSUME pc[u] \in {"get", "purge", "sync"}
          PROVE  cur[u] \in Frame /\ pframe'[cur[u]].busy
      BY <2>1, <2>3, <2>4 DEF Awaits, Settles
    <2>5. ASSUME pc[u] = "vget"
          PROVE  cur[u] \in Slot /\ vnode'[cur[u]].vno = want[u]
      <3>1. cur[u] \in Slot /\ vnode[cur[u]].vno = want[u] /\ want[u] \in Vno
        BY <2>1, <2>5 DEF Awaits, TypesOK
      <3> QED
        BY <3>1, <2>3, CacheAssumption DEF Settles, InUse
    <2> QED
      BY <2>2, <2>4, <2>5 DEF Awaits
  <1> QED
    BY <1>1, <1>2 DEF SleepInv

(* A running thread goes to sleep, for something that is still to come.    *)
LEMMA SleepStep ==
  ASSUME SleepInv, NEW t \in Thread, cpu = t, TypesOK, NEW l, NEW x,
         SleepOn(t, l, x), Alone(t), Settles(NULL), Awaits(t)'
  PROVE  SleepInv'
  <1>1. PlacesOK' /\ ToSet(asleep)' = ToSet(asleep) \cup {t}
    BY SleepOnPlaces DEF SleepInv
  <1>2. ASSUME NEW u \in ToSet(asleep) PROVE Awaits(u)'
    <2>1. u \in Thread /\ u # t /\ Awaits(u)
      BY MemberNonEmpty DEF SleepInv, PlacesOK
    <2>2. pc'[u] = pc[u] /\ cur'[u] = cur[u] /\ want'[u] = want[u]
      BY <2>1 DEF Alone
    <2>3. ASSUME pc[u] \in {"get", "purge", "sync"}
          PROVE  cur[u] \in Frame /\ pframe'[cur[u]].busy
      BY <2>1, <2>3, CacheAssumption DEF Awaits, Settles
    <2>4. ASSUME pc[u] = "vget"
          PROVE  cur[u] \in Slot /\ vnode'[cur[u]].vno = want[u]
      <3>1. cur[u] \in Slot /\ vnode[cur[u]].vno = want[u] /\ want[u] \in Vno
        BY <2>1, <2>4 DEF Awaits, TypesOK
      <3> QED
        BY <3>1, CacheAssumption DEF Settles, InUse
    <2> QED
      BY <2>2, <2>3, <2>4 DEF Awaits
  <1> QED
    BY <1>1, <1>2 DEF SleepInv

(* A thread alone goes elsewhere, with or without a change of its request. *)
LEMMA GotoAlone ==
  ASSUME TypesOK, NEW t \in Thread, NEW l, NEW x, Goto(t, l, x),
         want' = want \/ \E w : want' = [want EXCEPT ![t] = w]
  PROVE  Alone(t) /\ pc'[t] = l /\ cur'[t] = x
  BY DEF TypesOK, Goto, Alone

LEMMA PanicSleeps ==
  ASSUME IInv, SleepInv, NEW t \in Thread, cpu = t, Panic(t)
  PROVE  SleepInv'
  <1>1. Alone(t) /\ Settles(NULL) /\ UNCHANGED cpuVars
    BY GotoAlone DEF Panic, IInv, threadVars, Settles
  <1> QED
    BY <1>1, AwakeStep DEF IInv

(* vget sleeps for a vnode of the number it looks for; a slot that is      *)
(* taken was free, and nobody waits for a free slot.                       *)
LEMMA FindSleeps ==
  ASSUME IInv, SleepInv, NEW t \in Thread, cpu = t, NEW vno \in Vno, Find(t, vno)
  PROVE  SleepInv'
  <1> DEFINE found == {s \in Slot : vnode[s].vno = vno}
  <1>0. TypesOK
    BY DEF IInv
  <1>1. ASSUME NEW s \in found, SleepOn(t, "vget", s),
               want' = [want EXCEPT ![t] = vno],
               UNCHANGED <<vnode, pframe, linked, ref, map>>
        PROVE  SleepInv'
    <2>1. Alone(t) /\ Settles(NULL) /\ pc'[t] = "vget" /\ cur'[t] = s
      BY <1>0, <1>1, GotoAlone DEF SleepOn, Settles
    <2>2. Awaits(t)'
      BY <1>0, <1>1, <2>1 DEF Awaits, TypesOK
    <2> QED
      BY <1>0, <1>1, <2>1, <2>2, SleepStep
  <1>2. ASSUME NEW s \in found, vnode' = [vnode EXCEPT ![s].refs = @ + 1],
               want' = [want EXCEPT ![t] = NULL], Goto(t, "run", NULL),
               UNCHANGED <<pframe, linked, map, cpuVars>>
        PROVE  SleepInv'
    <2>1. Alone(t)
      BY <1>0, <1>2, GotoAlone
    <2>2. Settles(NULL)
      BY <1>0, <1>2 DEF Settles, TypesOK
    <2> QED
      BY <1>0, <1>2, <2>1, <2>2, AwakeStep
  <1>3. ASSUME NEW s \in Slot, ~InUse(s),
               vnode' = [vnode EXCEPT ![s] = [vno |-> vno, busy |-> TRUE, refs |-> 0]],
               Goto(t, "read_vnode", s), want' = [want EXCEPT ![t] = vno],
               UNCHANGED <<pframe, linked, ref, map, cpuVars>>
        PROVE  SleepInv'
    <2>1. Alone(t) /\ Settles(NULL)
      BY ZenonT(40), <1>0, <1>3, GotoAlone DEF Settles, TypesOK
    <2> QED
      BY <1>0, <1>3, <2>1, AwakeStep
  <1> QED
    BY <1>1, <1>2, <1>3, PanicSleeps DEF Find

(* Pages that are freed were not busy.                                     *)
LEMMA FreeSettles ==
  ASSUME TypesOK, NEW D, \A f \in D : ~pframe[f].busy, FreePages(D),
         \A s \in Slot : vnode'[s].vno = vnode[s].vno
  PROVE  Settles(NULL)
  BY DEF Settles, FreePages, TypesOK

LEMMA DropSleeps ==
  ASSUME IInv, SleepInv, NEW t \in Thread, cpu = t, NEW s \in Slot,
         NEW D, \A f \in D : ~pframe[f].busy, Drop(t, s, D)
  PROVE  SleepInv'
  <1>1. \A r \in Slot : vnode'[r].vno = vnode[r].vno
    BY DEF Drop, IInv, TypesOK
  <1>2. Settles(NULL)
    BY <1>1, FreeSettles DEF Drop, IInv
  <1>3. Alone(t) /\ UNCHANGED cpuVars
    BY GotoAlone DEF Drop, IInv
  <1> QED
    BY <1>2, <1>3, AwakeStep DEF IInv

LEMMA PurgeSleeps ==
  ASSUME IInv, SleepInv, NEW t \in Thread, cpu = t, NEW s \in Slot, Purge(t, s)
  PROVE  SleepInv'
  <1> DEFINE busy == {f \in Pages(s) : pframe[f].busy}
             idle == Pages(s) \ busy
  <1>1. ASSUME busy = {}, Drop(t, s, Pages(s)) PROVE SleepInv'
    BY <1>1, DropSleeps
  <1>2. ASSUME NEW f \in busy, NEW D \in SUBSET idle,
               SleepOn(t, "purge", f), FreePages(D),
               vnode' = [vnode EXCEPT ![s].refs = @ - Cardinality(D)],
               UNCHANGED <<linked, ref, want>>
        PROVE  SleepInv'
    <2>1. \A r \in Slot : vnode'[r].vno = vnode[r].vno
      BY <1>2 DEF IInv, TypesOK
    <2>2. Settles(NULL)
      BY <1>2, <2>1, FreeSettles DEF IInv
    <2>3. Alone(t) /\ pc'[t] = "purge" /\ cur'[t] = f
      BY <1>2, GotoAlone DEF SleepOn, IInv
    <2>4. f \in Frame /\ pframe'[f].busy
      BY <1>2 DEF Pages, FreePages
    <2>5. Awaits(t)'
      BY <2>3, <2>4 DEF Awaits
    <2> QED
      BY <1>2, <2>2, <2>3, <2>5, SleepStep DEF IInv
  <1> QED
    BY <1>1, <1>2, PanicSleeps DEF Purge

LEMMA vputSleeps ==
  ASSUME IInv, SleepInv, NEW t \in Thread, cpu = t, vput(t) \/ PurgeAgain(t)
  PROVE  SleepInv'
  <1>1. ref[t] \in Slot
    BY DEF vput, PurgeAgain, At, IInv, TypesOK, VnodesOK, CallsOK
  <1> QED
    BY <1>1, DropSleeps, PurgeSleeps DEF vput, PurgeAgain

(* A deleted vnode's slot is free: its sleepers are told.                  *)
LEMMA VnodeCallsSleep ==
  ASSUME IInv, SleepInv, NEW t \in Thread, cpu = t, ReadVnode(t) \/ DeleteVnode(t)
  PROVE  SleepInv'
  <1>1. cur[t] \in Slot /\ TypesOK
    BY DEF ReadVnode, DeleteVnode, At, IInv, VnodesOK, CallsOK, OnVnode
  <1>2. CASE ReadVnode(t)
    <2>1. Alone(t) /\ UNCHANGED cpuVars
      BY <1>1, <1>2, GotoAlone DEF ReadVnode
    <2>2. Settles(NULL)
      BY <1>1, <1>2 DEF ReadVnode, Settles, TypesOK
    <2> QED
      BY <1>1, <2>1, <2>2, AwakeStep
  <1>3. CASE DeleteVnode(t)
    <2>1. Alone(t) /\ Settles(cur[t]) /\ Broadcast(cur[t])
      BY <1>1, <1>3, GotoAlone DEF DeleteVnode, Settles, TypesOK, threadVars
    <2> QED
      BY <1>1, <2>1, AwakeStep
  <1> QED
    BY <1>2, <1>3

(* A page that is no longer busy: its sleepers are told.                   *)
LEMMA WroteSleeps ==
  ASSUME IInv, SleepInv, NEW t \in Thread, cpu = t, NEW f \in Frame, NEW w, Wrote(t, f, w)
  PROVE  SleepInv'
  <1>1. Alone(t) /\ Broadcast(f)
    BY GotoAlone DEF Wrote, IInv
  <1>2. Settles(f)
    BY DEF Wrote, Settles, IInv, TypesOK
  <1> QED
    BY <1>1, <1>2, AwakeStep DEF IInv

LEMMA GetResidentSleeps ==
  ASSUME IInv, SleepInv, NEW t \in Thread, cpu = t, NEW f \in Frame, NEW w,
         GetResident(t, f, w)
  PROVE  SleepInv'
  <1>0. TypesOK
    BY DEF IInv
  <1>1. ASSUME pframe[f].busy, SleepOn(t, "get", f), want' = [want EXCEPT ![t] = w],
               UNCHANGED <<vnode, pframe, linked, ref, map>>
        PROVE  SleepInv'
    <2>1. Alone(t) /\ Settles(NULL) /\ pc'[t] = "get" /\ cur'[t] = f
      BY <1>0, <1>1, GotoAlone DEF SleepOn, Settles
    <2>2. Awaits(t)'
      BY <1>1, <2>1 DEF Awaits
    <2> QED
      BY <1>0, <1>1, <2>1, <2>2, SleepStep
  <1>2. ASSUME Goto(t, "run", NULL), want' = [want EXCEPT ![t] = NULL],
               UNCHANGED <<vnode, pframe, linked, ref, map, cpuVars>>
        PROVE  SleepInv'
    <2>1. Alone(t) /\ Settles(NULL)
      BY <1>0, <1>2, GotoAlone DEF Settles
    <2> QED
      BY <1>0, <1>2, <2>1, AwakeStep
  <1>3. ASSUME Goto(t, "dirtypage", f), want' = [want EXCEPT ![t] = w],
               pframe' = [pframe EXCEPT ![f].busy = TRUE],
               UNCHANGED <<vnode, linked, ref, map, cpuVars>>
        PROVE  SleepInv'
    <2>1. Alone(t)
      BY <1>0, <1>3, GotoAlone
    <2>2. Settles(NULL)
      BY <1>0, <1>3 DEF Settles, TypesOK
    <2> QED
      BY <1>0, <1>3, <2>1, <2>2, AwakeStep
  <1> QED
    BY <1>1, <1>2, <1>3, WroteSleeps, PanicSleeps DEF GetResident, Got

LEMMA GetSleeps ==
  ASSUME IInv, SleepInv, NEW t \in Thread, cpu = t,
         GetAgain(t) \/ \E w \in PageNo \X Why : pframe_get(t, w)
  PROVE  SleepInv'
  <1>0. TypesOK
    BY DEF IInv
  <1>1. ASSUME GetAgain(t) PROVE SleepInv'
    BY <1>0, <1>1, GetResidentSleeps DEF GetAgain, At, TypesOK
  <1>2. ASSUME NEW w \in PageNo \X Why, pframe_get(t, w) PROVE SleepInv'
    <2>1. ref[t] \in Slot
      BY <1>0, <1>2 DEF pframe_get, TypesOK
    <2>2. ASSUME NEW f \in Frame, GetResident(t, f, w) PROVE SleepInv'
      BY <2>2, GetResidentSleeps
    <2>3. ASSUME NewPage(t, ref[t], w) PROVE SleepInv'
      <3>1. Alone(t) /\ UNCHANGED cpuVars
        BY <1>0, <2>3, GotoAlone DEF NewPage
      <3>2. Settles(NULL)
        BY <1>0, <2>1, <2>3 DEF NewPage, Settles, TypesOK, FreeFrame
      <3> QED
        BY <1>0, <3>1, <3>2, AwakeStep
    <2> QED
      BY <1>2, <2>2, <2>3 DEF pframe_get, Pages
  <1> QED
    BY <1>1, <1>2

(* The disk is done with a page.                                           *)
LEMMA PageCallsSleep ==
  ASSUME IInv, SleepInv, NEW t \in Thread, cpu = t,
         \/ Filled(t) \/ FillFailed(t) \/ Dirtied(t) \/ DirtyFailed(t)
         \/ Cleaned(t) \/ CleanFailed(t)
  PROVE  SleepInv'
  <1>1. cur[t] \in Frame /\ TypesOK
    BY DEF Filled, FillFailed, Dirtied, DirtyFailed, Cleaned, CleanFailed,
           At, IInv, PagesOK, OnPage
  <1>2. ASSUME Dirtied(t) PROVE SleepInv'
    BY <1>1, <1>2, WroteSleeps DEF Dirtied
  <1>3. ASSUME Filled(t) PROVE SleepInv'
    <2>1. Alone(t) /\ Broadcast(cur[t])
      BY <1>1, <1>3, GotoAlone DEF Filled
    <2>2. Settles(cur[t])
      BY <1>1, <1>3 DEF Filled, Settles, TypesOK
    <2> QED
      BY <1>1, <2>1, <2>2, AwakeStep
  <1>4. ASSUME FillFailed(t) PROVE SleepInv'
    <2>1. Alone(t) /\ Broadcast(cur[t])
      BY <1>1, <1>4, GotoAlone DEF FillFailed
    <2>2. ref[t] \in Slot
      BY <1>4 DEF FillFailed, At, IInv, TypesOK, VnodesOK, CallsOK, PagesOK, OnPage
    <2>3. Settles(cur[t])
      BY <1>1, <1>4, <2>2 DEF FillFailed, Settles, TypesOK
    <2> QED
      BY <1>1, <2>1, <2>3, AwakeStep
  <1>5. ASSUME DirtyFailed(t) \/ Cleaned(t) \/ CleanFailed(t) PROVE SleepInv'
    <2>1. Alone(t) /\ Broadcast(cur[t])
      BY <1>1, <1>5, GotoAlone DEF DirtyFailed, Cleaned, CleanFailed, threadVars
    <2>2. Settles(cur[t])
      BY <1>1, <1>5 DEF DirtyFailed, Cleaned, CleanFailed, Settles, TypesOK
    <2> QED
      BY <1>1, <2>1, <2>2, AwakeStep
  <1> QED
    BY <1>2, <1>3, <1>4, <1>5

LEMMA CleanAllSleeps ==
  ASSUME IInv, SleepInv, NEW t \in Thread, cpu = t, CleanAll(t)
  PROVE  SleepInv'
  <1>0. TypesOK
    BY DEF IInv
  <1>1. ASSUME NEW f \in Frame, pframe[f].busy, SleepOn(t, "sync", f),
               UNCHANGED <<vnode, pframe, linked, threadVars>>
        PROVE  SleepInv'
    <2>1. Alone(t) /\ Settles(NULL) /\ pc'[t] = "sync" /\ cur'[t] = f
      BY <1>0, <1>1, GotoAlone DEF SleepOn, Settles, threadVars
    <2>2. Awaits(t)'
      BY <1>1, <2>1 DEF Awaits
    <2> QED
      BY <1>0, <1>1, <2>1, <2>2, SleepStep
  <1>2. ASSUME NEW f \in Frame, CleanStart(t, f) PROVE SleepInv'
    <2>1. Alone(t) /\ UNCHANGED cpuVars
      BY <1>0, <1>2, GotoAlone DEF CleanStart, threadVars
    <2>2. Settles(NULL)
      BY <1>0, <1>2 DEF CleanStart, Settles, TypesOK
    <2> QED
      BY <1>0, <2>1, <2>2, AwakeStep
  <1>3. ASSUME Goto(t, "run", NULL), UNCHANGED <<vnode, pframe, linked, threadVars, cpuVars>>
        PROVE  SleepInv'
    <2>1. Alone(t) /\ Settles(NULL)
      BY <1>0, <1>3, GotoAlone DEF Settles, threadVars
    <2> QED
      BY <1>0, <1>3, <2>1, AwakeStep
  <1> QED
    BY <1>1, <1>2, <1>3 DEF CleanAll

(* Mapping, unmapping, linking and unlinking.                              *)
LEMMA OthersSleep ==
  ASSUME IInv, SleepInv, NEW t \in Thread, cpu = t,
         \/ Store(t) \/ Unmap(t) \/ Unlink(t)
         \/ \E vno \in Vno : Create(t, vno)
  PROVE  SleepInv'
  <1>1. Alone(t) /\ UNCHANGED cpuVars
    BY DEF Store, Unmap, Unlink, Create, Alone, threadVars
  <1>2. Store(t) => Settles(NULL)
    <2> SUFFICES ASSUME Store(t) PROVE Settles(NULL)
      OBVIOUS
    <2>1. PICK f \in Frame : f = map[t]
      BY DEF Store, IInv, TypesOK
    <2>2. \A g \in Frame : pframe'[g].busy = pframe[g].busy
      BY <2>1 DEF Store, IInv, TypesOK
    <2> QED
      BY <2>2 DEF Store, Settles
  <1>3. ~Store(t) => Settles(NULL)
    BY DEF Unmap, Unlink, Create, Settles
  <1> QED
    BY <1>1, <1>2, <1>3, AwakeStep DEF IInv

(* The scheduler moves threads between the processor, the run queue and    *)
(* the disk.                                                               *)
LEMMA SwitchSleeps ==
  ASSUME SleepInv,
         \/ \E t \in Thread : Block(t) \/ Interrupt(t)
         \/ Switch \/ UNCHANGED vars
  PROVE  SleepInv'
  <1>1. /\ asleep' = asleep
        /\ UNCHANGED <<vnode, pframe, pc, cur, want>>
    BY DEF Block, Interrupt, Switch, vars, cpuVars, threadVars
  <1>2. \A u \in ToSet(asleep)' : Awaits(u)'
    BY <1>1 DEF SleepInv, Awaits
  <1>3. PlacesOK'
    <2>1. /\ runq \in Seq(Thread) /\ asleep \in Seq(Thread)
          /\ ToSet(runq) \subseteq Thread /\ ToSet(asleep) \subseteq Thread
      BY MemberNonEmpty DEF SleepInv, PlacesOK
    <2>2. CASE \E t \in Thread : Block(t)
      BY <2>1, <2>2, CacheAssumption DEF Block, SleepInv, PlacesOK
    <2>3. ASSUME NEW t \in Thread, Interrupt(t) PROVE PlacesOK'
      <3>1. /\ runq' = Append(runq, t) /\ cpu' = cpu /\ cpu # t
            /\ t \notin ToSet(runq) /\ t \notin ToSet(asleep)
        BY <2>3 DEF Interrupt, ToSet
      <3>2. /\ runq' \in Seq(Thread) /\ ToSet(runq') = ToSet(runq) \cup {t}
            /\ Injective(runq')
        BY <2>1, <3>1, AppendQueue DEF SleepInv, PlacesOK
      <3> QED
        BY <1>1, <3>1, <3>2 DEF SleepInv, PlacesOK
    <2>4. CASE Switch
      <3>1. /\ runq # <<>> /\ cpu' = Head(runq) /\ runq' = Tail(runq)
        BY <2>4 DEF Switch
      <3>2. /\ runq' \in Seq(Thread) /\ Injective(runq')
            /\ ToSet(runq') = ToSet(runq) \ {cpu'} /\ cpu' \in ToSet(runq)
        BY <2>1, <3>1, TailQueue DEF SleepInv, PlacesOK
      <3> QED
        BY <1>1, <2>1, <3>2 DEF SleepInv, PlacesOK
    <2>5. CASE UNCHANGED vars
      BY <2>5 DEF vars, cpuVars, SleepInv, PlacesOK
    <2> QED
      BY <2>2, <2>3, <2>4, <2>5
  <1> QED
    BY <1>2, <1>3 DEF SleepInv

LEMMA NextSleeps == IInv /\ SleepInv /\ [Next]_vars => SleepInv'
  <1> SUFFICES ASSUME IInv, SleepInv, [Next]_vars PROVE SleepInv'
    OBVIOUS
  <1>1. ASSUME NEW t \in Thread, cpu = t, Operation(t) PROVE SleepInv'
    <2>1. \A vno \in Vno : vget(t, vno) => SleepInv'
      BY <1>1, FindSleeps DEF vget
    <2> QED
      BY <1>1, <2>1, GetSleeps, vputSleeps, CleanAllSleeps, OthersSleep
         DEF Operation, pframe_clean_all
  <1>2. ASSUME NEW t \in Thread, cpu = t, DiskDone(t) PROVE SleepInv'
    BY <1>2, VnodeCallsSleep, PageCallsSleep DEF DiskDone
  <1>3. ASSUME NEW t \in Thread, cpu = t, Resume(t) PROVE SleepInv'
    <2>1. FindAgain(t) => SleepInv'
      BY <1>3, FindSleeps DEF FindAgain, At, IInv, TypesOK
    <2> QED
      BY <1>3, <2>1, GetSleeps, vputSleeps, CleanAllSleeps DEF Resume, CleanAllAgain
  <1> QED
    BY <1>1, <1>2, <1>3, SwitchSleeps DEF Next

LEMMA InitSleeps == Init => SleepInv
  BY EmptyQueue DEF Init, SleepInv, PlacesOK

(* fs/vnode.c, mm/pframe.c: nobody sleeps for a page that is not busy, nor *)
(* for a vnode whose slot is free or has been given to another file.       *)
THEOREM SleepersAreTold == Spec => []SleepersOK
  <1>1. Init => IInv /\ SleepInv
    BY InitOK, InitSleeps
  <1>2. IInv /\ SleepInv /\ [Next]_vars => (IInv /\ SleepInv)'
    BY NextKeeps, NextSleeps
  <1>3. SleepInv => SleepersOK
    BY DEF SleepInv, Awaits, SleepersOK, PageWakeups, VnodeWaiters, Asleep, ToSet
  <1> QED
    BY <1>1, <1>2, <1>3, PTL DEF Spec

-----------------------------------------------------------------------------
(* The types.  The bound of vn_refcount follows from its being exact; the  *)
(* vnodes it is not exact for, the busy ones, have no references at all.   *)
BusyZero ==
  linked \subseteq Vno /\ \A s \in Slot : vnode[s].busy => vnode[s].refs = 0

LEMMA HeldIsIdle ==
  ASSUME IInv, NEW t \in Thread, ref[t] # NULL
  PROVE  ref[t] \in Slot /\ ~vnode[ref[t]].busy
  <1>1. ref[t] \in Slot /\ t \in Holders(ref[t])
    BY DEF IInv, TypesOK, Holders
  <1> QED
    BY <1>1 DEF IInv, VnodesOK, Unheld

LEMMA FindCounts ==
  ASSUME IInv, BusyZero, NEW t \in Thread, NEW vno \in Vno, Find(t, vno)
  PROVE  BusyZero'
  <1>1. ASSUME NEW s \in Slot, ~vnode[s].busy,
               vnode' = [vnode EXCEPT ![s].refs = @ + 1], linked' = linked
        PROVE  BusyZero'
    BY <1>1 DEF BusyZero, IInv, TypesOK
  <1>2. ASSUME NEW s \in Slot, linked' = linked,
               vnode' = [vnode EXCEPT ![s] = [vno |-> vno, busy |-> TRUE, refs |-> 0]]
        PROVE  BusyZero'
    BY <1>2 DEF BusyZero, IInv, TypesOK
  <1>3. ASSUME UNCHANGED <<vnode, linked>> PROVE BusyZero'
    BY <1>3 DEF BusyZero
  <1> QED
    BY <1>1, <1>2, <1>3 DEF Find, Panic

LEMMA vputCounts ==
  ASSUME IInv, BusyZero, NEW t \in Thread, vput(t) \/ PurgeAgain(t)
  PROVE  BusyZero'
  <1>1. ref[t] \in Slot /\ ~vnode[ref[t]].busy
    BY HeldIsIdle DEF vput, PurgeAgain, At, IInv, VnodesOK, CallsOK
  <1>2. ASSUME NEW D, Drop(t, ref[t], D) PROVE BusyZero'
    BY <1>1, <1>2 DEF Drop, BusyZero, IInv, TypesOK
  <1>3. ASSUME Purge(t, ref[t]) PROVE BusyZero'
    BY <1>1, <1>2, <1>3 DEF Purge, Panic, BusyZero, IInv, TypesOK
  <1> QED
    BY <1>2, <1>3 DEF vput, PurgeAgain

LEMMA VnodeCallsCount ==
  ASSUME IInv, BusyZero, NEW t \in Thread, ReadVnode(t) \/ DeleteVnode(t)
  PROVE  BusyZero'
  <1>1. cur[t] \in Slot
    BY DEF ReadVnode, DeleteVnode, At, IInv, VnodesOK, CallsOK, OnVnode
  <1> QED
    BY <1>1 DEF ReadVnode, DeleteVnode, Free, BusyZero, IInv, TypesOK

LEMMA GetCounts ==
  ASSUME IInv, BusyZero, NEW t \in Thread,
         GetAgain(t) \/ \E w \in PageNo \X Why : pframe_get(t, w)
  PROVE  BusyZero'
  <1>1. ASSUME NEW f, NEW w, GetResident(t, f, w) PROVE BusyZero'
    BY <1>1 DEF GetResident, Got, Wrote, Panic, BusyZero
  <1>2. ASSUME NEW w, ref[t] # NULL, NewPage(t, ref[t], w) PROVE BusyZero'
    <2>1. ref[t] \in Slot /\ ~vnode[ref[t]].busy
      BY <1>2, HeldIsIdle
    <2> QED
      BY <1>2, <2>1 DEF NewPage, BusyZero, IInv, TypesOK
  <1> QED
    BY <1>1, <1>2 DEF GetAgain, pframe_get

LEMMA PageCallsCount ==
  ASSUME IInv, BusyZero, NEW t \in Thread,
         \/ Filled(t) \/ FillFailed(t) \/ Dirtied(t) \/ DirtyFailed(t)
         \/ Cleaned(t) \/ CleanFailed(t)
  PROVE  BusyZero'
  <1>1. CASE FillFailed(t)
    <2>1. ref[t] # NULL
      BY <1>1 DEF FillFailed, At, IInv, PagesOK, OnPage, VnodesOK, CallsOK
    <2>2. ref[t] \in Slot /\ ~vnode[ref[t]].busy
      BY <2>1, HeldIsIdle
    <2> QED
      BY <1>1, <2>2 DEF FillFailed, BusyZero, IInv, TypesOK
  <1>2. CASE ~FillFailed(t)
    BY <1>2 DEF Filled, Dirtied, Wrote, DirtyFailed, Cleaned, CleanFailed, BusyZero
  <1> QED
    BY <1>1, <1>2

LEMMA NextCounts == IInv /\ BusyZero /\ [Next]_vars => BusyZero'
  <1> SUFFICES ASSUME IInv, BusyZero, [Next]_vars PROVE BusyZero'
    OBVIOUS
  <1>1. ASSUME NEW t \in Thread, Operation(t) PROVE BusyZero'
    <2>1. ASSUME NEW vno \in Vno, vget(t, vno) PROVE BusyZero'
      BY <2>1, FindCounts DEF vget
    <2>2. CASE CleanAll(t) \/ Store(t) \/ Unmap(t)
      BY <2>2 DEF CleanAll, CleanStart, Store, Unmap, BusyZero
    <2>3. CASE Unlink(t) \/ \E vno \in Vno : Create(t, vno)
      BY <2>3 DEF Unlink, Create, BusyZero
    <2> QED
      BY <1>1, <2>1, <2>2, <2>3, GetCounts, vputCounts DEF Operation, pframe_clean_all
  <1>2. ASSUME NEW t \in Thread, DiskDone(t) PROVE BusyZero'
    BY <1>2, VnodeCallsCount, PageCallsCount DEF DiskDone
  <1>3. ASSUME NEW t \in Thread, Resume(t) PROVE BusyZero'
    <2>1. FindAgain(t) => BusyZero'
      BY FindCounts DEF FindAgain, At, IInv, TypesOK
    <2>2. CASE CleanAll(t)
      BY <2>2 DEF CleanAll, CleanStart, BusyZero
    <2> QED
      BY <1>3, <2>1, <2>2, GetCounts, vputCounts DEF Resume, CleanAllAgain
  <1>4. CASE \/ \E t \in Thread : Block(t) \/ Interrupt(t)
             \/ Switch \/ UNCHANGED vars
    BY <1>4 DEF Block, Interrupt, Switch, vars, BusyZero
  <1> QED
    BY <1>1, <1>2, <1>3, <1>4 DEF Next

LEMMA CountBounds ==
  ASSUME IInv, BusyZero, NEW s \in Slot
  PROVE  vnode[s].refs \in 0 .. Cardinality(Thread) + Cardinality(Frame)
  <1>1. /\ Cardinality(Thread) \in Nat /\ Cardinality(Frame) \in Nat
        /\ Pages(s) \in SUBSET Frame /\ Holders(s) \in SUBSET Thread
    BY FS_CardinalityType, CacheAssumption DEF Pages, Holders
  <1>2. /\ nrespages(s) \in Nat /\ nrespages(s) <= Cardinality(Frame)
        /\ Cardinality(Holders(s)) \in Nat
        /\ Cardinality(Holders(s)) <= Cardinality(Thread)
    BY <1>1, FS_Subset, Finite, CacheAssumption DEF nrespages
  <1>3. vnode[s].busy \/ vnode[s].refs = nrespages(s) + Cardinality(Holders(s))
    BY DEF IInv, VnodesOK, Counted
  <1> QED
    BY <1>1, <1>2, <1>3 DEF BusyZero

(* Every variable has its type, the counts their bounds.                   *)
THEOREM TypeCorrect == Spec => []TypeOK
  <1>1. Init => IInv /\ SleepInv /\ BusyZero
    BY InitOK, InitSleeps DEF Init, Free, BusyZero
  <1>2. IInv /\ SleepInv /\ BusyZero /\ [Next]_vars
          => (IInv /\ SleepInv /\ BusyZero)'
    BY NextKeeps, NextSleeps, NextCounts
  <1>3. ASSUME IInv, SleepInv, BusyZero PROVE TypeOK
    <2>1. \A s \in Slot :
            vnode[s] \in [vno : Vno \cup {NULL}, busy : BOOLEAN,
                         refs : 0 .. Cardinality(Thread) + Cardinality(Frame)]
      BY <1>3, CountBounds DEF IInv, TypesOK
    <2>2. DOMAIN vnode = Slot /\ vnode = [s \in Slot |-> vnode[s]]
      BY <1>3 DEF IInv, TypesOK
    <2> QED
      BY <1>3, <2>1, <2>2 DEF IInv, TypesOK, SleepInv, PlacesOK, BusyZero, TypeOK
  <1> QED
    BY <1>1, <1>2, <1>3, PTL DEF Spec

-----------------------------------------------------------------------------
-----------------------------------------------------------------------------
(* The counts of the model, with the state they count as a parameter.      *)
Holds(pf, f)  == {x \in Proc \X FD : pf[x[1]][x[2]] = f}
OpenOn(fl, v) == {f \in FileId : fl[f].vno = v}
Homes(cw, v)  == {p \in Proc : cw[p] = v}

(* The types of the tables, and the counts that tables of these types have. *)
FilesTypes(fl, pf, cw) ==
  /\ fl \in [FileId -> [vno : Ino \cup {None}, refs : Int]]
  /\ pf \in [Proc -> [FD -> FileId \cup {None}]]
  /\ cw \in [Proc -> Ino \cup {None}]

FileCounts(fl, pf) == \A f \in FileId : fl[f].refs = Cardinality(Holds(pf, f))

VnodeCount(fl, cw, kp, v) ==
  (IF v = Root THEN 1 ELSE 0) + kp[v]
    + Cardinality(OpenOn(fl, v)) + Cardinality(Homes(cw, v))

(* What every call leaves as it was, on any paths; here a link count may   *)
(* be any number.                                                          *)
FilesCounted ==
  /\ inode \in [Ino -> Inodes(Int) \cup {None}]
  /\ vref \in [Ino -> Int]
  /\ FilesTypes(file, p_files, p_cwd)
  /\ kept \in [Ino -> Nat] /\ fault \in Faults
  /\ FileCounts(file, p_files)
  /\ \A v \in Ino : vref[v] = VnodeCount(file, p_cwd, kept, v)
  /\ \A f \in FileId : file[f].refs = 0 <=> file[f].vno = None
  /\ \A p \in Proc : p_cwd[p] = None => p_files[p] = NoFiles
  /\ \A v \in Ino : vref[v] > 0 => inode[v] # None

(* The entries that name an inode. *)
NamedBy(nodes, v) ==
  {x \in Ino \X Dirent :
     /\ nodes[x[1]] # None
     /\ nodes[x[1]].slot[x[2]].name # None
     /\ nodes[x[1]].slot[x[2]].ino = v}

(* No entry names what was freed or is named by more than its link count;  *)
(* ".." names a directory or what was freed.                               *)
Linked(nodes) ==
  /\ \A v \in Ino : nodes[v] # None => nodes[v].nlink >= Cardinality(NamedBy(nodes, v))
  /\ \A v \in Ino : NamedBy(nodes, v) # {} => nodes[v] # None
  /\ \A v \in Ino : nodes[v] # None /\ nodes[v].up # None =>
       nodes[nodes[v].up] # None /\ nodes[nodes[v].up].dir

(* The invariant of the calls whose paths do not end in a slash. *)
FilesInv == FilesCounted /\ Linked(inode)
-----------------------------------------------------------------------------

(* All that is counted is finite. *)
LEMMA FilesFinite ==
  /\ IsFiniteSet(Proc \X FD) /\ IsFiniteSet(Ino \X Dirent)
  /\ IsFiniteSet(FileId) /\ IsFiniteSet(Proc)
  /\ \A pf, f : IsFiniteSet(Holds(pf, f)) /\ Cardinality(Holds(pf, f)) \in Nat
  /\ \A fl, v : Cardinality(OpenOn(fl, v)) \in Nat
  /\ \A cw, v : Cardinality(Homes(cw, v)) \in Nat
  /\ \A nodes, v : IsFiniteSet(NamedBy(nodes, v)) /\ Cardinality(NamedBy(nodes, v)) \in Nat
  <1>1. IsFiniteSet(Proc \X FD) /\ IsFiniteSet(Ino \X Dirent)
    BY FilesAssumption, FS_Product
  <1>2. \A pf, f : Holds(pf, f) \subseteq Proc \X FD
    BY DEF Holds
  <1>3. \A fl, v : OpenOn(fl, v) \subseteq FileId
    BY DEF OpenOn
  <1>4. \A cw, v : Homes(cw, v) \subseteq Proc
    BY DEF Homes
  <1>5. \A nodes, v : NamedBy(nodes, v) \subseteq Ino \X Dirent
    BY DEF NamedBy
  <1> QED
    BY <1>1, <1>2, <1>3, <1>4, <1>5, FilesAssumption, PartIsFinite

(* A descriptor is set, a file_t gets a vnode, a process another directory.*)
FdSet(pf, new, p, fd, g) ==
  \A q \in Proc, k \in FD : new[q][k] = IF q = p /\ k = fd THEN g ELSE pf[q][k]
VnoSet(fl, new, f, v) ==
  \A x \in FileId : new[x].vno = IF x = f THEN v ELSE fl[x].vno
HomeSet(cw, new, p, u) ==
  \A q \in Proc : new[q] = IF q = p THEN u ELSE cw[q]

(* Then the descriptors of the old file_t are one less, of the new one more*)
LEMMA DescriptorCounts ==
  ASSUME NEW pf, NEW new, NEW p \in Proc, NEW fd \in FD, NEW g,
         FdSet(pf, new, p, fd, g)
  PROVE  \A f : Cardinality(Holds(new, f))
               = Cardinality(Holds(pf, f))
                 + (IF g = f THEN 1 ELSE 0) - (IF pf[p][fd] = f THEN 1 ELSE 0)
  <1> DEFINE D == Proc \X FD
             F == [x \in D |-> pf[x[1]][x[2]]]
             G == [x \in D |-> new[x[1]][x[2]]]
             d == <<p, fd>>
  <1>1. \A q \in Proc, k \in FD : new[q][k] = IF q = p /\ k = fd THEN g ELSE pf[q][k]
    BY DEF FdSet
  <1>2. d \in D /\ IsFiniteSet(D) /\ F[d] = pf[p][fd] /\ G[d] = g
    BY <1>1, FilesFinite
  <1>3. \A x \in D \ {d} : F[x] = G[x]
    BY <1>1
  <1>4. \A f : /\ Cardinality(Holds(pf, f)) = Tally(D, F, f)
                /\ Cardinality(Holds(new, f)) = Tally(D, G, f)
    <2>1. \A f : Holds(pf, f) = {x \in D : F[x] = f} /\ Holds(new, f) = {x \in D : G[x] = f}
      BY DEF Holds
    <2> HIDE DEF D, F, G
    <2> QED
      BY <2>1 DEF Tally
  <1> HIDE DEF D, F, G, d
  <1>5. \A f : Tally(D, G, f) = Tally(D, F, f)
                 + (IF G[d] = f THEN 1 ELSE 0) - (IF F[d] = f THEN 1 ELSE 0)
    BY <1>2, <1>3, TallyMoves
  <1> QED
    BY <1>2, <1>4, <1>5

(* So are the open files of a vnode, *)
LEMMA FileChange ==
  ASSUME NEW fl, NEW new, NEW f \in FileId, NEW w, VnoSet(fl, new, f, w)
  PROVE  \A v : Cardinality(OpenOn(new, v))
               = Cardinality(OpenOn(fl, v))
                 + (IF w = v THEN 1 ELSE 0) - (IF fl[f].vno = v THEN 1 ELSE 0)
  <1> DEFINE F == [x \in FileId |-> fl[x].vno]
             G == [x \in FileId |-> new[x].vno]
  <1>1. F[f] = fl[f].vno /\ G[f] = w /\ \A x \in FileId \ {f} : F[x] = G[x]
    BY DEF VnoSet
  <1>2. \A v : /\ Cardinality(OpenOn(fl, v)) = Tally(FileId, F, v)
                /\ Cardinality(OpenOn(new, v)) = Tally(FileId, G, v)
    <2>1. \A v : /\ OpenOn(fl, v) = {x \in FileId : F[x] = v}
                  /\ OpenOn(new, v) = {x \in FileId : G[x] = v}
      BY DEF OpenOn
    <2> HIDE DEF F, G
    <2> QED
      BY <2>1 DEF Tally
  <1> HIDE DEF F, G
  <1>3. \A v : Tally(FileId, G, v) = Tally(FileId, F, v)
                 + (IF G[f] = v THEN 1 ELSE 0) - (IF F[f] = v THEN 1 ELSE 0)
    BY <1>1, FilesFinite, TallyMoves
  <1> QED
    BY <1>1, <1>2, <1>3

(* and the processes in a directory. *)
LEMMA HomeChange ==
  ASSUME NEW cw, NEW new, NEW p \in Proc, NEW u, HomeSet(cw, new, p, u)
  PROVE  \A v : Cardinality(Homes(new, v))
               = Cardinality(Homes(cw, v))
                 + (IF u = v THEN 1 ELSE 0) - (IF cw[p] = v THEN 1 ELSE 0)
  <1>1. new[p] = u /\ \A q \in Proc \ {p} : cw[q] = new[q]
    BY DEF HomeSet
  <1>2. \A c, v : Cardinality(Homes(c, v)) = Tally(Proc, c, v)
    BY DEF Homes, Tally
  <1>3. \A v : Tally(Proc, new, v) = Tally(Proc, cw, v)
                 + (IF new[p] = v THEN 1 ELSE 0) - (IF cw[p] = v THEN 1 ELSE 0)
    BY <1>1, FilesFinite, TallyMoves
  <1> QED
    BY <1>1, <1>2, <1>3

-----------------------------------------------------------------------------
(* A walk along a path is always at an inode that is there.                *)
Walks == {w \in [res : {"found", "fail", "freed"}, at : Ino, stale : BOOLEAN] :
            inode[w.at] # None}

(* A table of inodes; a link count may be any number. *)
InodeTable == [Ino -> Inodes(Int) \cup {None}]

InodesTyped == inode \in [Ino -> Inodes(Int) \cup {None}]

(* The fields of an inode that is there. *)
LEMMA InodeParts ==
  ASSUME InodesTyped, NEW v \in Ino, inode[v] # None
  PROVE  /\ inode[v] \in Inodes(Int)
         /\ inode[v].dir \in BOOLEAN /\ inode[v].nlink \in Int
         /\ inode[v].up \in Ino \cup {None}
         /\ \A i \in Dirent : /\ inode[v].slot[i].name \in Names \cup {None}
                              /\ inode[v].slot[i].ino \in Ino
  BY DEF InodesTyped, Inodes

(* ramfs_lookup answers an inode number or nothing. *)
LEMMA LookupOK ==
  ASSUME InodesTyped, NEW d \in Ino, inode[d] # None, NEW n
  PROVE  lookup(d, n) \subseteq Ino \cup {None}
  <1>1. Entry(d, n) \subseteq Ino
    BY InodeParts DEF Entry, SlotOf
  <1> QED
    BY <1>1, InodeParts DEF lookup

(* One name further, a walk is still at an inode that is there. *)
LEMMA StepOK ==
  ASSUME InodesTyped, NEW w \in Walks, NEW n
  PROVE  /\ Step(w, n) \in Walks
         /\ w.res = "found" /\ inode[w.at].dir =>
              /\ Step(w, n).res = "fail" => lookup(w.at, n) = {}
              /\ Step(w, n).res = "found" => Step(w, n).at \in lookup(w.at, n)
  <1>1. /\ w = [res |-> w.res, at |-> w.at, stale |-> w.stale]
        /\ w.at \in Ino /\ w.stale \in BOOLEAN /\ inode[w.at] # None
    BY DEF Walks
  <1> DEFINE v == CHOOSE v \in lookup(w.at, n) : TRUE
             fail  == [w EXCEPT !.res = "fail"]
             freed == [w EXCEPT !.res = "freed"]
             on    == [res |-> "found", at |-> v, stale |-> TRUE]
  <1>2. fail \in Walks /\ freed \in Walks /\ fail.res = "fail" /\ freed.res = "freed"
    BY <1>1 DEF Walks
  <1>3. lookup(w.at, n) # {} => v \in lookup(w.at, n) /\ v \in Ino \cup {None}
    BY <1>1, LookupOK
  <1>4. Step(w, n) = IF w.res # "found" THEN w
                     ELSE IF ~inode[w.at].dir \/ lookup(w.at, n) = {} THEN fail
                     ELSE IF v = None \/ inode[v] = None THEN freed ELSE on
    BY DEF Step, IsDir
  <1>5. v \in Ino /\ inode[v] # None => on \in Walks
    BY DEF Walks
  <1>6. on.res = "found" /\ on.at = v
    OBVIOUS
  <1> HIDE DEF v, fail, freed, on
  <1> QED
    BY <1>2, <1>3, <1>4, <1>5, <1>6

(* So it is at the end of any path, by induction on the number of names. *)
LEMMA WalkOK ==
  ASSUME InodesTyped, NEW p \in Proc, NEW path \in Path,
         p_cwd[p] \in Ino, inode[p_cwd[p]] # None, inode[Root] # None
  PROVE  /\ dir_namev(p, path) \in Walks
         /\ dir_namev(p, path).res = "found" => inode[dir_namev(p, path).at].dir
  <1> DEFINE abs   == path[1] = "/"
             start == [res |-> "found", at |-> IF abs THEN Root ELSE p_cwd[p],
                       stale |-> FALSE]
             n     == Len(path) - 1
             IsWalk(g) ==
               g = [i \in 0 .. n |->
                      IF i = 0 \/ (i = 1 /\ abs) THEN start ELSE Step(g[i - 1], path[i])]
             step  == [i \in 1 .. n |-> [x \in Walks |->
                        IF i = 1 /\ abs THEN start ELSE Step(x, path[i])]]
  <1>1. n \in Nat
    BY FilesAssumption, LenProperties, EmptySeq
  <1>2. start \in Walks
    BY FilesAssumption DEF Walks, Root
  <1> HIDE DEF n, start, abs
  <1>3. \A i \in 1 .. n : \A x \in Walks : step[i][x] \in Walks
    BY <1>2, StepOK
  <1>4. PICK f \in [0 .. n -> Walks] :
          f[0] = start /\ \A i \in 1 .. n : f[i] = step[i][f[i - 1]]
    <2> HIDE DEF step
    <2>1. StepsIn(Walks, step, n)
      BY <1>3 DEF StepsIn
    <2>2. PICK f : Follows(f, Walks, start, step, n)
      BY <1>1, <1>2, <2>1, RecursionAlong
    <2> QED
      BY <2>2 DEF Follows
  <1>5. IsWalk(f)
    <2> DEFINE h == [i \in 0 .. n |->
                      IF i = 0 \/ (i = 1 /\ abs) THEN start ELSE Step(f[i - 1], path[i])]
    <2>1. ASSUME NEW i \in 0 .. n PROVE h[i] = f[i]
      <3>1. CASE i = 0
        BY <3>1, <1>4
      <3>2. CASE i # 0
        <4>1. i \in 1 .. n /\ i - 1 \in 0 .. n
          BY <3>2, <1>1
        <4>2. f[i - 1] \in Walks
          BY <4>1, <1>4
        <4>3. f[i] = IF i = 1 /\ abs THEN start ELSE Step(f[i - 1], path[i])
          BY <4>1, <4>2, <1>4
        <4> QED
          BY <4>3, <3>2
      <3> QED
        BY <3>1, <3>2
    <2>2. f = [i \in 0 .. n |-> f[i]]
      BY <1>4
    <2> QED
      BY <2>1, <2>2
  <1> DEFINE g == CHOOSE g : IsWalk(g)
             w == g[n]
  <1>6. IsWalk(g)
    BY <1>5
  <1>7. dir_namev(p, path) = IF w.res = "found" /\ ~inode[w.at].dir
                             THEN [w EXCEPT !.res = "fail"] ELSE w
    BY DEF dir_namev, IsDir, n, abs, start
  <1> HIDE DEF g
  <1>8. ASSUME NEW k \in 0 .. n, g[k] \notin Walks PROVE FALSE
    <2> DEFINE D == {i \in 0 .. n : g[i] \notin Walks}
    <2>1. D \in SUBSET Nat /\ D # {}
      BY <1>8, <1>1
    <2>2. PICK m \in D : \A i \in D : m <= i
      <3> HIDE DEF D
      <3> QED
        BY <2>1, LeastNumber
    <2>3. m \in 0 .. n /\ g[m] \notin Walks
      OBVIOUS
    <2>4. g[m] = IF m = 0 \/ (m = 1 /\ abs) THEN start ELSE Step(g[m - 1], path[m])
      BY <1>6, <2>3
    <2>5. m # 0
      BY <2>3, <2>4, <1>2
    <2>6. m - 1 \in 0 .. n /\ ~(m <= m - 1)
      BY <2>3, <2>5, <1>1
    <2>7. g[m - 1] \in Walks
      BY <2>2, <2>6
    <2> QED
      BY <2>3, <2>4, <2>7, <1>2, StepOK
  <1>9. w \in Walks
    <2>1. n \in 0 .. n
      BY <1>1
    <2> QED
      BY <2>1, <1>8
  <1>10. /\ [w EXCEPT !.res = "fail"] \in Walks
         /\ [w EXCEPT !.res = "fail"].res = "fail"
         /\ inode[w.at] # None /\ w.at \in Ino
    BY <1>9 DEF Walks
  <1>11. inode[w.at].dir \in BOOLEAN
    BY <1>10, InodeParts
  <1> HIDE DEF w
  <1> QED
    BY <1>7, <1>9, <1>10, <1>11

(* What dir_namev and open_namev find is there. *)
LEMMA NamevOK ==
  ASSUME InodesTyped, NEW p \in Proc, NEW path \in Path,
         p_cwd[p] \in Ino, inode[p_cwd[p]] # None, inode[Root] # None,
         NEW r, r = Namev(p, path)
  PROVE  /\ r.res \in {"found", "fail", "freed", "absent"}
         /\ r.dir \in Ino /\ inode[r.dir] # None
         /\ r.res \in {"found", "absent"} => inode[r.dir].dir
         /\ r.res = "found" => /\ r.vno \in Ino /\ inode[r.vno] # None
                               /\ r.vno \in lookup(r.dir, Last(path))
         /\ r.res = "absent" => Last(path) \in Names
  <1> DEFINE d == dir_namev(p, path)
             n == Last(path)
             w == Step(d, n)
  <1>1. d \in Walks /\ (d.res = "found" => inode[d.at].dir)
    BY WalkOK
  <1> HIDE DEF d, n
  <1>2. /\ w \in Walks
        /\ d.res = "found" => /\ w.res = "fail" => lookup(d.at, n) = {}
                              /\ w.res = "found" => w.at \in lookup(d.at, n)
    BY <1>1, StepOK
  <1>3. lookup(d.at, n) = {} => n # "" /\ n # ".."
    BY DEF lookup
  <1>4. n \in UNION {Range(q) : q \in Path} /\ n # "/"
    <2>1. Len(path) \in Nat /\ Len(path) # 0 /\ DOMAIN path = 1 .. Len(path)
      BY FilesAssumption, LenProperties, EmptySeq
    <2>2. Len(path) \in DOMAIN path /\ n = path[Len(path)]
      BY <2>1 DEF n, Last
    <2>3. n \in Range(path)
      BY <2>2 DEF Range
    <2>4. n = "/" => FALSE
      <3>1. ASSUME n = "/" PROVE path = <<"/">>
        <4>1. Len(path) = 1
          BY <3>1, <2>2, FilesAssumption
        <4>2. path = [i \in 1 .. 1 |-> path[i]] /\ path[1] = "/"
          BY <4>1, <2>1, <2>2, <3>1, FilesAssumption, LenProperties
        <4> QED
          BY <4>1, <4>2, FilesAssumption
      <3> QED
        BY <3>1, FilesAssumption
    <2> QED
      BY <2>3, <2>4
  <1>5. r = IF d.res # "found"
            THEN [res |-> d.res, dir |-> d.at, vno |-> None, stale |-> d.stale]
            ELSE [res |-> IF w.res = "fail" THEN "absent" ELSE w.res,
                  dir |-> d.at, vno |-> w.at, stale |-> TRUE]
    BY DEF Namev, d, n
  <1>6. /\ d.res \in {"found", "fail", "freed"} /\ d.at \in Ino /\ inode[d.at] # None
        /\ w.res \in {"found", "fail", "freed"} /\ w.at \in Ino /\ inode[w.at] # None
    BY <1>1, <1>2 DEF Walks
  <1> HIDE DEF w
  <1>7. CASE d.res # "found"
    <2>1. r.res = d.res /\ r.dir = d.at
      BY <1>5, <1>7
    <2> QED
      BY <2>1, <1>6, <1>7
  <1>8. CASE d.res = "found"
    <2>1. r.res = (IF w.res = "fail" THEN "absent" ELSE w.res) /\ r.dir = d.at /\ r.vno = w.at
      BY <1>5, <1>8
    <2>2. r.res = "absent" => n \in Names
      BY <2>1, <1>2, <1>3, <1>4, <1>6, <1>8 DEF Names
    <2> QED
      BY <2>1, <2>2, <1>1, <1>2, <1>6, <1>8 DEF n
  <1> QED
    BY <1>7, <1>8

-----------------------------------------------------------------------------
(* What VPut makes of the counts and the table it is given.                *)
LEMMA VPutOK ==
  ASSUME NEW nodes \in [Ino -> Inodes(Int) \cup {None}], NEW refs \in [Ino -> Int],
         NEW v \in Ino, nodes[v] # None, VPut(nodes, refs, v)
  PROVE  /\ vref' = [refs EXCEPT ![v] = @ - 1]
         /\ inode' \in [Ino -> Inodes(Int) \cup {None}]
         /\ \A u \in Ino : inode'[u] # None <=>
              nodes[u] # None /\ ~(u = v /\ refs[v] = 1 /\ nodes[v].nlink = 0)
  <1>1. \A u \in Ino : nodes[u] # None =>
          /\ [nodes[u] EXCEPT !.up = IF @ = v THEN None ELSE @] \in Inodes(Int)
    BY DEF Inodes
  <1>2. Freed(nodes, v) \in [Ino -> Inodes(Int) \cup {None}]
    BY <1>1 DEF Freed
  <1>3. \A u \in Ino : Freed(nodes, v)[u] # None <=> u # v /\ nodes[u] # None
    BY <1>1, FilesAssumption DEF Freed
  <1> QED
    BY <1>2, <1>3 DEF VPut

(* vput of a reference that is among the counted ones leaves a vnode that  *)
(* still has one its inode.                                                *)
LEMMA VPutKeeps ==
  ASSUME NEW nodes \in [Ino -> Inodes(Int) \cup {None}], NEW refs \in [Ino -> Int],
         NEW v \in Ino, VPut(nodes, refs, v), refs[v] > 0,
         \A u \in Ino : refs[u] > 0 => nodes[u] # None
  PROVE  /\ vref' \in [Ino -> Int] /\ InodesTyped'
         /\ \A u \in Ino : vref'[u] = refs[u] - (IF u = v THEN 1 ELSE 0)
         /\ \A u \in Ino : vref'[u] > 0 => inode'[u] # None
  <1>1. /\ vref' = [refs EXCEPT ![v] = @ - 1] /\ InodesTyped'
        /\ \A u \in Ino : inode'[u] # None <=>
             nodes[u] # None /\ ~(u = v /\ refs[v] = 1 /\ nodes[v].nlink = 0)
    BY VPutOK DEF InodesTyped
  <1>2. vref' \in [Ino -> Int]
        /\ \A u \in Ino : vref'[u] = refs[u] - (IF u = v THEN 1 ELSE 0)
    BY <1>1
  <1> QED
    BY <1>1, <1>2

-----------------------------------------------------------------------------
(* What the counts say of a reference that is held.                        *)
LEMMA HeldIsThere ==
  ASSUME FilesCounted
  PROVE  /\ InodesTyped /\ Root \in Ino /\ inode[Root] # None
         /\ \A v \in Ino : vref[v] \in Nat
         /\ \A p \in Proc : p_cwd[p] # None =>
              p_cwd[p] \in Ino /\ vref[p_cwd[p]] > 0 /\ inode[p_cwd[p]] # None
         /\ \A f \in FileId : file[f].vno # None =>
              file[f].vno \in Ino /\ vref[file[f].vno] > 0
         /\ \A p \in Proc, fd \in FD : p_files[p][fd] # None =>
              /\ p_files[p][fd] \in FileId /\ file[p_files[p][fd]].refs > 0
              /\ file[p_files[p][fd]].vno # None
  <1>1. /\ InodesTyped /\ Root \in Ino /\ FilesTypes(file, p_files, p_cwd)
        /\ \A v \in Ino : vref[v] = VnodeCount(file, p_cwd, kept, v) /\ kept[v] \in Nat
        /\ \A v \in Ino : vref[v] > 0 => inode[v] # None
        /\ FileCounts(file, p_files)
        /\ \A f \in FileId : file[f].refs = 0 <=> file[f].vno = None
    BY FilesAssumption DEF FilesCounted, InodesTyped, Root
  <1>2. \A v \in Ino : /\ Cardinality(OpenOn(file, v)) \in Nat
                       /\ Cardinality(Homes(p_cwd, v)) \in Nat
    BY FilesFinite
  <1>3. \A v \in Ino : /\ vref[v] \in Nat
                       /\ vref[v] > 0 \/ Cardinality(OpenOn(file, v)) = 0
                       /\ vref[v] > 0 \/ Cardinality(Homes(p_cwd, v)) = 0
                       /\ v = Root => vref[v] > 0
    BY <1>1, <1>2 DEF VnodeCount
  <1>4. ASSUME NEW p \in Proc, p_cwd[p] # None
        PROVE  p_cwd[p] \in Ino /\ vref[p_cwd[p]] > 0
    <2>1. p_cwd[p] \in Ino /\ p \in Homes(p_cwd, p_cwd[p])
      BY <1>1, <1>4 DEF FilesTypes, Homes
    <2>2. Cardinality(Homes(p_cwd, p_cwd[p])) # 0
      BY <2>1, FilesFinite, PartIsFinite DEF Homes
    <2> QED
      BY <2>1, <2>2, <1>3
  <1>5. ASSUME NEW f \in FileId, file[f].vno # None
        PROVE  file[f].vno \in Ino /\ vref[file[f].vno] > 0
    <2>1. file[f].vno \in Ino /\ f \in OpenOn(file, file[f].vno)
      BY <1>1, <1>5 DEF FilesTypes, OpenOn
    <2>2. Cardinality(OpenOn(file, file[f].vno)) # 0
      BY <2>1, FilesFinite, PartIsFinite DEF OpenOn
    <2> QED
      BY <2>1, <2>2, <1>3
  <1>6. ASSUME NEW p \in Proc, NEW fd \in FD, p_files[p][fd] # None
        PROVE  /\ p_files[p][fd] \in FileId /\ file[p_files[p][fd]].refs > 0
               /\ file[p_files[p][fd]].vno # None
    <2> DEFINE f == p_files[p][fd]
    <2>1. f \in FileId /\ <<p, fd>> \in Holds(p_files, f)
      BY <1>1, <1>6 DEF FilesTypes, Holds
    <2>2. Cardinality(Holds(p_files, f)) # 0 /\ Cardinality(Holds(p_files, f)) \in Nat
      BY <2>1, FilesFinite, FS_EmptySet
    <2>3. file[f].refs = Cardinality(Holds(p_files, f))
      BY <2>1, <1>1 DEF FileCounts
    <2> QED
      BY <2>1, <2>2, <2>3, <1>1
  <1> QED
    BY <1>1, <1>3, <1>4, <1>5, <1>6

(* The first free number is free. *)
LEMMA LowestOK ==
  ASSUME NEW S \in SUBSET Nat, S # {}
  PROVE  Lowest(S) \in S
  <1>1. \E x \in S : \A y \in S : x <= y
    BY LeastNumber
  <1> QED
    BY <1>1 DEF Lowest

(* The table with one entry more, and with one entry less.                 *)
EntryAdded(nodes, W, d, n, v) ==
  /\ W \in InodeTable
  /\ \A u \in Ino : W[u] # None <=> nodes[u] # None
  /\ \A u \in Ino : nodes[u] # None =>
       W[u].dir = nodes[u].dir /\ W[u].up = nodes[u].up /\ W[u].nlink = nodes[u].nlink
  /\ \E s \in Dirent :
       /\ inode[d].slot[s].name = None
       /\ \A u \in Ino, i \in Dirent : nodes[u] # None =>
            W[u].slot[i] = IF u = d /\ i = s THEN [name |-> n, ino |-> v]
                           ELSE nodes[u].slot[i]

(* WithEntry adds the entry, in the first free place of d. *)
LEMMA WithEntryOK ==
  ASSUME InodesTyped, NEW nodes \in InodeTable,
         NEW d \in Ino, inode[d] # None, nodes[d] # None, FreeSlots(d) # {},
         NEW n \in Names, NEW v \in Ino
  PROVE  EntryAdded(nodes, WithEntry(d, n, v, nodes), d, n, v)
  <1> DEFINE s == Lowest(FreeSlots(d))
             W == WithEntry(d, n, v, nodes)
  <1>1. s \in Dirent /\ inode[d].slot[s].name = None
    <2>1. FreeSlots(d) \in SUBSET Nat
      BY FilesAssumption DEF FreeSlots, SlotOf
    <2>2. s \in FreeSlots(d)
      BY <2>1, LowestOK
    <2> QED
      BY <2>2 DEF FreeSlots, SlotOf
  <1>2. W = [nodes EXCEPT ![d].slot[s] = [name |-> n, ino |-> v]]
    BY DEF WithEntry
  <1> HIDE DEF s, W
  <1> DEFINE r == [nodes[d] EXCEPT !.slot[s] = [name |-> n, ino |-> v]]
  <1>3. W = [nodes EXCEPT ![d] = r]
    BY <1>2
  <1>4. nodes[d] \in Inodes(Int)
    BY DEF InodeTable
  <1>5. /\ r \in Inodes(Int)
        /\ r.dir = nodes[d].dir /\ r.up = nodes[d].up /\ r.nlink = nodes[d].nlink
        /\ \A i \in Dirent : r.slot[i] = IF i = s THEN [name |-> n, ino |-> v]
                                         ELSE nodes[d].slot[i]
    BY <1>1, <1>4 DEF Inodes
  <1> HIDE DEF r
  <1>6. r # None
    BY <1>5, FilesAssumption
  <1>7. \A u \in Ino : W[u] = IF u = d THEN r ELSE nodes[u]
    BY <1>3 DEF InodeTable
  <1>8. W \in InodeTable
    BY <1>3, <1>5 DEF InodeTable
  <1>9. \A u \in Ino, i \in Dirent : nodes[u] # None =>
          W[u].slot[i] = IF u = d /\ i = s THEN [name |-> n, ino |-> v]
                         ELSE nodes[u].slot[i]
    BY <1>5, <1>7
  <1>10. \A u \in Ino : W[u] # None <=> nodes[u] # None
    BY <1>6, <1>7
  <1>11. \A u \in Ino : nodes[u] # None =>
              W[u].dir = nodes[u].dir /\ W[u].up = nodes[u].up /\ W[u].nlink = nodes[u].nlink
    BY <1>5, <1>7
  <1> QED
    BY <1>1, <1>8, <1>9, <1>10, <1>11 DEF EntryAdded, W

(* The table without the entries n of d, and with a link less for v. *)
EntryRemoved(W, d, n, v) ==
  /\ W \in InodeTable
  /\ \A u \in Ino : W[u] # None <=> inode[u] # None
  /\ \A u \in Ino : inode[u] # None =>
       /\ W[u].dir = inode[u].dir /\ W[u].up = inode[u].up
       /\ W[u].nlink = inode[u].nlink - (IF u = v THEN 1 ELSE 0)
       /\ \A i \in Dirent :
            /\ W[u].slot[i].ino = inode[u].slot[i].ino
            /\ W[u].slot[i].name = IF u = d /\ inode[d].slot[i].name = n THEN None
                                   ELSE inode[u].slot[i].name

(* WithoutEntry removes them. *)
LEMMA WithoutEntryOK ==
  ASSUME InodesTyped, NEW d \in Ino, inode[d] # None, NEW v \in Ino, inode[v] # None, NEW n
  PROVE  EntryRemoved(WithoutEntry(d, n, v), d, n, v)
  <1> DEFINE W == WithoutEntry(d, n, v)
  <1> DEFINE slots == [i \in Dirent |-> IF i \in SlotOf(d, n)
                                        THEN [inode[d].slot[i] EXCEPT !.name = None]
                                        ELSE inode[d].slot[i]]
             r == [inode[d] EXCEPT !.slot = slots]
             mid == [inode EXCEPT ![d] = r]
             q == [mid[v] EXCEPT !.nlink = @ - 1]
  <1>1. W = [mid EXCEPT ![v] = q]
    BY DEF WithoutEntry
  <1> HIDE DEF W
  <1>2. inode[d] \in Inodes(Int) /\ inode[v] \in Inodes(Int)
        /\ inode \in [Ino -> Inodes(Int) \cup {None}]
    BY DEF InodesTyped
  <1>3. slots \in [Dirent -> [name : Names \cup {None}, ino : Ino]]
    BY <1>2 DEF Inodes
  <1>4. \A i \in Dirent :
          /\ slots[i].ino = inode[d].slot[i].ino
          /\ slots[i].name = IF inode[d].slot[i].name = n THEN None ELSE inode[d].slot[i].name
    BY <1>2 DEF Inodes, SlotOf
  <1> HIDE DEF slots
  <1>5. /\ r \in Inodes(Int) /\ r.slot = slots
        /\ r.dir = inode[d].dir /\ r.up = inode[d].up /\ r.nlink = inode[d].nlink
    BY <1>2, <1>3 DEF Inodes
  <1> HIDE DEF r
  <1>6. mid \in [Ino -> Inodes(Int) \cup {None}] /\ mid[v] \in Inodes(Int)
        /\ \A u \in Ino : mid[u] = IF u = d THEN r ELSE inode[u]
    BY <1>2, <1>5
  <1> HIDE DEF mid
  <1>7. /\ q \in Inodes(Int) /\ q.slot = mid[v].slot
        /\ q.dir = mid[v].dir /\ q.up = mid[v].up /\ q.nlink = mid[v].nlink - 1
    BY <1>6 DEF Inodes
  <1> HIDE DEF q
  <1>8. W \in [Ino -> Inodes(Int) \cup {None}] /\ \A u \in Ino : W[u] = IF u = v THEN q ELSE mid[u]
    BY <1>1, <1>6, <1>7
  <1>9. r # None /\ q # None
    BY <1>5, <1>7, FilesAssumption
  <1>10. \A u \in Ino : W[u] # None <=> inode[u] # None
    BY <1>6, <1>8, <1>9
  <1>11. ASSUME NEW u \in Ino, inode[u] # None
         PROVE  /\ W[u].dir = inode[u].dir /\ W[u].up = inode[u].up
                /\ W[u].nlink = inode[u].nlink - (IF u = v THEN 1 ELSE 0)
                /\ W[u].slot = IF u = d THEN slots ELSE inode[u].slot
    <2>1. inode[u].nlink \in Int
      BY <1>11, InodeParts
    <2>2. mid[u].dir = inode[u].dir /\ mid[u].up = inode[u].up /\ mid[u].nlink = inode[u].nlink
          /\ mid[u].slot = IF u = d THEN slots ELSE inode[u].slot
      BY <1>5, <1>6
    <2> QED
      BY <2>1, <2>2, <1>7, <1>8
  <1> QED
    BY <1>4, <1>8, <1>10, <1>11 DEF EntryRemoved, W, InodeTable

(* The table with a new inode v, and an entry n of d for it. *)
InodeAdded(W, d, n, isDir, v) ==
  /\ v \in Ino /\ inode[v] = None
  /\ W \in InodeTable
  /\ \A u \in Ino : W[u] # None <=> u = v \/ inode[u] # None
  /\ W[v].dir = isDir /\ W[v].up = d /\ W[v].nlink = 1
  /\ \A i \in Dirent : W[v].slot[i].name = None
  /\ \A u \in Ino : inode[u] # None =>
       W[u].dir = inode[u].dir /\ W[u].up = inode[u].up /\ W[u].nlink = inode[u].nlink
  /\ \E s \in Dirent :
       /\ inode[d].slot[s].name = None
       /\ \A u \in Ino, i \in Dirent : inode[u] # None =>
            W[u].slot[i] = IF u = d /\ i = s THEN [name |-> n, ino |-> v]
                           ELSE inode[u].slot[i]

(* NewEntry makes both, for the first free inode number. *)
LEMMA NewEntryOK ==
  ASSUME InodesTyped, NEW d \in Ino, inode[d] # None, HasRoom(d), NEW n \in Names,
         NEW isDir \in BOOLEAN
  PROVE  InodeAdded(NewEntry(d, n, isDir), d, n, isDir, Lowest(FreeInos))
  <1> DEFINE v == Lowest(FreeInos)
             W == NewEntry(d, n, isDir)
             new == New(isDir, d)
             nodes == [inode EXCEPT ![v] = new]
  <1>1. v \in Ino /\ inode[v] = None
    <2>1. FreeInos \in SUBSET Nat /\ FreeInos # {}
      BY FilesAssumption DEF FreeInos, HasRoom
    <2>2. v \in FreeInos
      BY <2>1, LowestOK
    <2> QED
      BY <2>2 DEF FreeInos
  <1>2. /\ new \in Inodes(Int) /\ new.dir = isDir /\ new.up = d /\ new.nlink = 1
        /\ \A i \in Dirent : new.slot[i].name = None
    BY FilesAssumption DEF New, Inodes
  <1>3. W = WithEntry(d, n, v, nodes)
    BY DEF NewEntry
  <1> HIDE DEF new, v, W
  <1>4. /\ nodes \in InodeTable /\ new # None
        /\ \A u \in Ino : nodes[u] = IF u = v THEN new ELSE inode[u]
    BY <1>1, <1>2, FilesAssumption DEF InodesTyped, InodeTable
  <1>5. FreeSlots(d) # {} /\ nodes[d] # None /\ d # v
    BY <1>1, <1>4 DEF HasRoom
  <1> HIDE DEF nodes
  <1>6. EntryAdded(nodes, W, d, n, v)
    BY <1>1, <1>4, <1>3, <1>5, WithEntryOK
  <1>7. /\ W \in InodeTable
        /\ \A u \in Ino : W[u] # None <=> nodes[u] # None
        /\ \A u \in Ino : nodes[u] # None =>
              W[u].dir = nodes[u].dir /\ W[u].up = nodes[u].up /\ W[u].nlink = nodes[u].nlink
    BY <1>6 DEF EntryAdded
  <1>8. PICK s \in Dirent :
              /\ inode[d].slot[s].name = None
              /\ \A u \in Ino, i \in Dirent : nodes[u] # None =>
                   W[u].slot[i] = IF u = d /\ i = s THEN [name |-> n, ino |-> v]
                                  ELSE nodes[u].slot[i]
    BY <1>6 DEF EntryAdded
  <1>9. \A i \in Dirent : W[v].slot[i].name = None
    BY <1>1, <1>2, <1>4, <1>5, <1>8
  <1>10. \A u \in Ino, i \in Dirent : inode[u] # None =>
                   W[u].slot[i] = IF u = d /\ i = s THEN [name |-> n, ino |-> v]
                                  ELSE inode[u].slot[i]
    BY <1>1, <1>4, <1>8
  <1>11. \A u \in Ino : inode[u] # None =>
              W[u].dir = inode[u].dir /\ W[u].up = inode[u].up /\ W[u].nlink = inode[u].nlink
    BY <1>1, <1>4, <1>7
  <1>12. W[v].dir = isDir /\ W[v].up = d /\ W[v].nlink = 1
    BY <1>1, <1>2, <1>4, <1>7
  <1>13. \A u \in Ino : W[u] # None <=> u = v \/ inode[u] # None
    BY <1>4, <1>7
  <1> HIDE DEF nodes
  <1> QED
    BY <1>1, <1>7, <1>8, <1>9, <1>10, <1>11, <1>12, <1>13 DEF InodeAdded, v, W

-----------------------------------------------------------------------------
(* What is left to show of a step that keeps the counts.                   *)
CountsOK ==
  /\ vref \in [Ino -> Int] /\ FilesTypes(file, p_files, p_cwd) /\ kept \in [Ino -> Nat]
  /\ FileCounts(file, p_files)
  /\ \A v \in Ino : vref[v] = VnodeCount(file, p_cwd, kept, v)
  /\ \A f \in FileId : file[f].refs = 0 <=> file[f].vno = None
  /\ \A p \in Proc : p_cwd[p] = None => p_files[p] = NoFiles

(* FilesCounted in two parts: the inodes and the counts. *)
LEMMA CountedIs ==
  /\ FilesCounted <=> /\ InodesTyped /\ CountsOK /\ fault \in Faults
                      /\ \A v \in Ino : vref[v] > 0 => inode[v] # None
  /\ FilesCounted' <=> /\ InodesTyped' /\ CountsOK' /\ fault' \in Faults
                       /\ \A v \in Ino : vref'[v] > 0 => inode'[v] # None
  BY DEF FilesCounted, InodesTyped, CountsOK

(* A new file_t, a descriptor for it and one reference more to its vnode. *)
LEMMA OpenedOK ==
  ASSUME CountsOK, NEW p \in Proc, p_cwd[p] # None, FreeFd(p) # {}, NEW v \in Ino,
         Opened(p, v), UNCHANGED <<p_cwd, kept>>
  PROVE  CountsOK' /\ \A u \in Ino : vref'[u] = vref[u] + (IF u = v THEN 1 ELSE 0)
  <1>1. PICK f \in FileId :
          /\ file[f].refs = 0
          /\ file' = [file EXCEPT ![f] = [vno |-> v, refs |-> 1]]
          /\ p_files' = [p_files EXCEPT ![p][Lowest(FreeFd(p))] = f]
          /\ vref' = [vref EXCEPT ![v] = @ + 1]
    BY DEF Opened
  <1> DEFINE fd == Lowest(FreeFd(p))
  <1>2. fd \in FD /\ p_files[p][fd] = None
    <2>1. FreeFd(p) \in SUBSET Nat
      BY FilesAssumption DEF FreeFd
    <2>2. fd \in FreeFd(p)
      BY <2>1, LowestOK
    <2> QED
      BY <2>2 DEF FreeFd
  <1>3. p_files' = [p_files EXCEPT ![p][fd] = f]
    BY <1>1
  <1> HIDE DEF fd
  <1>4. FilesTypes(file, p_files, p_cwd) /\ file[f].vno = None /\ vref \in [Ino -> Int]
    BY <1>1 DEF CountsOK
  <1>5. FilesTypes(file', p_files', p_cwd') /\ vref' \in [Ino -> Int]
    <2>1. [vno |-> v, refs |-> 1] \in [vno : Ino \cup {None}, refs : Int]
      OBVIOUS
    <2>2. file' \in [FileId -> [vno : Ino \cup {None}, refs : Int]]
      BY <1>1, <1>4, <2>1 DEF FilesTypes
    <2>3. p_files' \in [Proc -> [FD -> FileId \cup {None}]]
      BY <1>2, <1>3, <1>4 DEF FilesTypes
    <2> QED
      BY <2>2, <2>3, <1>1, <1>4 DEF FilesTypes
  <1>6. \A u \in Ino : vref'[u] = vref[u] + (IF u = v THEN 1 ELSE 0)
    BY <1>1, <1>4
  <1>7. FileCounts(file', p_files')
    <2>1. \A g : Cardinality(Holds(p_files', g)) = Cardinality(Holds(p_files, g))
                   + (IF f = g THEN 1 ELSE 0) - (IF None = g THEN 1 ELSE 0)
      <3>1. FdSet(p_files, p_files', p, fd, f)
        BY <1>3, <1>4 DEF FdSet, FilesTypes
      <3> QED
        BY <1>2, <3>1, DescriptorCounts
    <2> SUFFICES ASSUME NEW g \in FileId PROVE file'[g].refs = Cardinality(Holds(p_files', g))
      BY DEF FileCounts
    <2>2. file[g].refs = Cardinality(Holds(p_files, g)) /\ file[g].refs \in Int
          /\ Cardinality(Holds(p_files, g)) \in Nat /\ g # None
      BY <1>4, FilesFinite, FilesAssumption DEF CountsOK, FileCounts, FilesTypes
    <2>3. file'[g].refs = IF g = f THEN 1 ELSE file[g].refs
      BY <1>1, <1>4 DEF FilesTypes
    <2>4. Cardinality(Holds(p_files', g)) = Cardinality(Holds(p_files, g)) + (IF f = g THEN 1 ELSE 0)
      BY <2>1, <2>2
    <2> QED
      BY <2>2, <2>3, <2>4, <1>1
  <1>8. \A u \in Ino : vref'[u] = VnodeCount(file', p_cwd', kept', u)
    <2>1. \A u : Cardinality(OpenOn(file', u)) = Cardinality(OpenOn(file, u))
                   + (IF v = u THEN 1 ELSE 0) - (IF None = u THEN 1 ELSE 0)
      <3>1. VnoSet(file, file', f, v)
        BY <1>1, <1>4 DEF VnoSet, FilesTypes
      <3> QED
        BY <1>4, <3>1, FileChange
    <2> SUFFICES ASSUME NEW u \in Ino PROVE vref'[u] = VnodeCount(file', p_cwd', kept', u)
      OBVIOUS
    <2>2. vref[u] = VnodeCount(file, p_cwd, kept, u) /\ u # None
          /\ Cardinality(OpenOn(file, u)) \in Nat /\ Cardinality(Homes(p_cwd, u)) \in Nat
          /\ kept[u] \in Nat
      BY FilesFinite, FilesAssumption DEF CountsOK
    <2>3. Cardinality(OpenOn(file', u)) = Cardinality(OpenOn(file, u)) + (IF v = u THEN 1 ELSE 0)
      BY <2>1, <2>2
    <2> QED
      BY <2>2, <2>3, <1>6 DEF VnodeCount
  <1>9. \A g \in FileId : file'[g].refs = 0 <=> file'[g].vno = None
    <2>1. \A g \in FileId : file'[g] = IF g = f THEN [vno |-> v, refs |-> 1] ELSE file[g]
      BY <1>1, <1>4 DEF FilesTypes
    <2>2. v # None
      BY FilesAssumption
    <2> QED
      BY <2>1, <2>2 DEF CountsOK
  <1>10. \A q \in Proc : p_cwd'[q] = None => p_files'[q] = NoFiles
    <2>1. \A q \in Proc : q # p => p_files'[q] = p_files[q]
      BY <1>3, <1>4 DEF FilesTypes
    <2> QED
      BY <2>1 DEF CountsOK
  <1>11. kept' \in [Ino -> Nat]
    BY DEF CountsOK
  <1> QED
    BY <1>5, <1>6, <1>7, <1>8, <1>9, <1>10, <1>11 DEF CountsOK

(* A call that stops the kernel changes nothing else. *)
LEMMA StopKeeps ==
  ASSUME FilesCounted, NEW what \in Faults, Stop(what)
  PROVE  FilesCounted'
  BY CountedIs DEF Stop, InodesTyped, CountsOK, FileCounts, VnodeCount, FilesTypes

(* A call that leaves the counts and the file_t's alone, and only adds to  *)
(* the inodes.                                                             *)
LEMMA TableKeeps ==
  ASSUME FilesCounted, InodesTyped', \A u \in Ino : inode[u] # None => inode'[u] # None,
         UNCHANGED <<vref, file, p_files, p_cwd, kept, fault>>
  PROVE  FilesCounted'
  <1>1. CountsOK' /\ fault' \in Faults
    BY CountedIs DEF CountsOK, FileCounts, VnodeCount, FilesTypes
  <1> QED
    BY <1>1, CountedIs

(* ramfs_rmdir and ramfs_unlink between vget and vput. *)
LEMMA BorrowKeeps ==
  ASSUME FilesCounted, NEW W \in [Ino -> Inodes(Int) \cup {None}],
         \A u \in Ino : W[u] # None <=> inode[u] # None,
         NEW v \in Ino, inode[v] # None,
         VPut(W, [vref EXCEPT ![v] = @ + 1], v),
         UNCHANGED <<file, p_files, p_cwd, kept, fault>>
  PROVE  FilesCounted'
  <1> DEFINE refs == [vref EXCEPT ![v] = @ + 1]
  <1>1. /\ vref \in [Ino -> Int] /\ \A u \in Ino : vref[u] \in Nat
        /\ \A u \in Ino : vref[u] > 0 => inode[u] # None
    BY HeldIsThere DEF FilesCounted
  <1>2. /\ refs \in [Ino -> Int] /\ refs[v] > 0
        /\ \A u \in Ino : refs[u] = vref[u] + (IF u = v THEN 1 ELSE 0)
        /\ \A u \in Ino : refs[u] > 0 => W[u] # None
    BY <1>1
  <1>3. VPut(W, refs, v)
    OBVIOUS
  <1> HIDE DEF refs
  <1>4. /\ vref' \in [Ino -> Int] /\ InodesTyped'
        /\ \A u \in Ino : vref'[u] = refs[u] - (IF u = v THEN 1 ELSE 0)
        /\ \A u \in Ino : vref'[u] > 0 => inode'[u] # None
    BY <1>2, <1>3, VPutKeeps
  <1>5. \A u \in Ino : vref'[u] = vref[u]
    BY <1>1, <1>2, <1>4
  <1>6. CountsOK' /\ fault' \in Faults
    BY <1>4, <1>5, CountedIs DEF CountsOK, FileCounts, VnodeCount, FilesTypes
  <1> QED
    BY <1>4, <1>6, CountedIs

(* do_open. *)
LEMMA OpenKeeps ==
  ASSUME FilesCounted, NEW p \in Proc, NEW path \in Path, NEW creat \in BOOLEAN,
         do_open(p, path, creat)
  PROVE  FilesCounted'
  <1>1. PICK r \in {Namev(p, path)} :
          \/ FreeFd(p) = {} /\ Stop("descriptor")
          \/ FreeFd(p) # {} /\ r.res = "freed" /\ Stop("inode")
          \/ /\ FreeFd(p) # {} /\ r.res = "found"
             /\ Opened(p, r.vno)
             /\ UNCHANGED <<inode, p_cwd, kept, fault>>
          \/ /\ FreeFd(p) # {} /\ r.res = "absent" /\ creat /\ HasRoom(r.dir)
             /\ Opened(p, Lowest(FreeInos))
             /\ inode' = NewEntry(r.dir, Last(path), FALSE)
             /\ UNCHANGED <<p_cwd, kept, fault>>
    BY DEF do_open
  <1>2. r = Namev(p, path) /\ p_cwd[p] # None
    BY DEF do_open, Runs
  <1> HIDE DEF do_open
  <1>3. /\ InodesTyped /\ CountsOK /\ inode[Root] # None /\ fault \in Faults
        /\ p_cwd[p] \in Ino /\ inode[p_cwd[p]] # None
        /\ \A u \in Ino : vref[u] > 0 => inode[u] # None
    BY <1>2, HeldIsThere, CountedIs
  <1>4. /\ r.dir \in Ino /\ inode[r.dir] # None
        /\ r.res = "found" => r.vno \in Ino /\ inode[r.vno] # None
        /\ r.res = "absent" => Last(path) \in Names
    BY <1>2, <1>3, NamevOK
  <1>5. CASE Stop("descriptor") \/ Stop("inode")
    BY <1>5, StopKeeps DEF Faults
  <1>6. CASE /\ FreeFd(p) # {} /\ r.res = "found" /\ Opened(p, r.vno)
             /\ UNCHANGED <<inode, p_cwd, kept, fault>>
    <2>1. CountsOK' /\ \A u \in Ino : vref'[u] = vref[u] + (IF u = r.vno THEN 1 ELSE 0)
      BY <1>2, <1>3, <1>4, <1>6, OpenedOK
    <2>2. \A u \in Ino : vref'[u] > 0 => inode'[u] # None
      BY <2>1, <1>3, <1>4, <1>6 DEF CountsOK
    <2>3. InodesTyped' /\ fault' \in Faults
      BY <1>3, <1>6 DEF InodesTyped
    <2> QED
      BY <2>1, <2>2, <2>3, CountedIs
  <1>7. CASE /\ FreeFd(p) # {} /\ r.res = "absent" /\ HasRoom(r.dir)
             /\ Opened(p, Lowest(FreeInos))
             /\ inode' = NewEntry(r.dir, Last(path), FALSE)
             /\ UNCHANGED <<p_cwd, kept, fault>>
    <2> DEFINE v == Lowest(FreeInos)
    <2>1. /\ v \in Ino /\ InodesTyped'
          /\ \A u \in Ino : inode'[u] # None <=> u = v \/ inode[u] # None
      <3>1. InodeAdded(inode', r.dir, Last(path), FALSE, v)
        BY <1>3, <1>4, <1>7, NewEntryOK
      <3> HIDE DEF v
      <3> QED
        BY <3>1 DEF InodeAdded, InodesTyped, InodeTable
    <2>2. Opened(p, v)
      BY <1>7
    <2> HIDE DEF v
    <2>3. CountsOK' /\ \A u \in Ino : vref'[u] = vref[u] + (IF u = v THEN 1 ELSE 0)
      BY <1>2, <1>3, <1>7, <2>1, <2>2, OpenedOK
    <2>4. \A u \in Ino : vref'[u] > 0 => inode'[u] # None
      BY <2>1, <2>3, <1>3 DEF CountsOK
    <2> QED
      BY <2>1, <2>3, <2>4, <1>3, <1>7, CountedIs
  <1> QED
    BY <1>1, <1>5, <1>6, <1>7

(* do_mkdir, and do_mknod, which only differs in the kind of inode.        *)
LEMMA MkdirKeeps ==
  ASSUME FilesCounted, NEW p \in Proc, NEW path \in Path, NEW isDir \in BOOLEAN,
         do_mkdir(p, path, isDir)
  PROVE  FilesCounted'
  <1>1. PICK r \in {Namev(p, path)} :
          \/ r.res = "freed" /\ Stop("inode")
          \/ /\ r.res = "absent" /\ HasRoom(r.dir)
             /\ inode' = NewEntry(r.dir, Last(path), isDir)
             /\ UNCHANGED <<vref, file, p_files, p_cwd, kept, fault>>
    BY DEF do_mkdir
  <1>2. r = Namev(p, path) /\ p_cwd[p] # None
    BY DEF do_mkdir, Runs
  <1>3. /\ r.dir \in Ino /\ inode[r.dir] # None /\ InodesTyped
        /\ r.res = "absent" => Last(path) \in Names
    BY <1>2, HeldIsThere, NamevOK
  <1>4. CASE Stop("inode")
    BY <1>4, StopKeeps DEF Faults
  <1>5. CASE /\ r.res = "absent" /\ HasRoom(r.dir)
             /\ inode' = NewEntry(r.dir, Last(path), isDir)
             /\ UNCHANGED <<vref, file, p_files, p_cwd, kept, fault>>
    <2>1. /\ InodesTyped'
          /\ \A u \in Ino : inode'[u] # None <=> u = Lowest(FreeInos) \/ inode[u] # None
      <3>1. InodeAdded(inode', r.dir, Last(path), isDir, Lowest(FreeInos))
        BY <1>3, <1>5, NewEntryOK
      <3> QED
        BY <3>1 DEF InodeAdded, InodesTyped, InodeTable
    <2> QED
      BY <2>1, <1>5, TableKeeps
  <1> QED
    BY <1>1, <1>4, <1>5

(* do_rmdir. *)
LEMMA RmdirKeeps ==
  ASSUME FilesCounted, NEW p \in Proc, NEW path \in Path, do_rmdir(p, path)
  PROVE  FilesCounted'
  <1> DEFINE r == Namev(p, path)
             d == r.dir
             v == IF Last(path) # "" THEN r.vno
                  ELSE inode[d].slot[Lowest(FreeSlots(d))].ino
  <1>1. \/ Stop("inode")
        \/ /\ r.res = "found" /\ (Last(path) = "" => FreeSlots(d) # {}) /\ inode[v] # None
           /\ VPut(WithoutEntry(d, Last(path), v), [vref EXCEPT ![v] = @ + 1], v)
           /\ UNCHANGED <<file, p_files, p_cwd, kept, fault>>
    BY DEF do_rmdir
  <1>2. /\ d \in Ino /\ inode[d] # None /\ InodesTyped
        /\ r.res = "found" => r.vno \in Ino
    BY ZenonT(40), HeldIsThere, NamevOK DEF do_rmdir, Runs
  <1> HIDE DEF r, d
  <1>3. CASE Stop("inode")
    BY <1>3, StopKeeps DEF Faults
  <1>4. CASE /\ r.res = "found" /\ (Last(path) = "" => FreeSlots(d) # {}) /\ inode[v] # None
             /\ VPut(WithoutEntry(d, Last(path), v), [vref EXCEPT ![v] = @ + 1], v)
             /\ UNCHANGED <<file, p_files, p_cwd, kept, fault>>
    <2>1. v \in Ino
      <3>1. CASE Last(path) # ""
        BY <3>1, <1>2, <1>4
      <3>2. CASE Last(path) = ""
        <4>1. FreeSlots(d) \in SUBSET Nat /\ FreeSlots(d) # {} /\ FreeSlots(d) \subseteq Dirent
          BY <3>2, <1>4, FilesAssumption DEF FreeSlots, SlotOf
        <4>2. Lowest(FreeSlots(d)) \in Dirent
          BY <4>1, LowestOK
        <4> QED
          BY <4>2, <3>2, <1>2, InodeParts
      <3> QED
        BY <3>1, <3>2
    <2> HIDE DEF v
    <2> DEFINE W == WithoutEntry(d, Last(path), v)
    <2>2. /\ W \in [Ino -> Inodes(Int) \cup {None}]
          /\ \A u \in Ino : W[u] # None <=> inode[u] # None
      <3>1. EntryRemoved(W, d, Last(path), v)
        BY <2>1, <1>2, <1>4, WithoutEntryOK
      <3> QED
        BY <3>1 DEF EntryRemoved, InodeTable
    <2>3. VPut(W, [vref EXCEPT ![v] = @ + 1], v)
      BY <1>4
    <2> HIDE DEF W
    <2> QED
      BY <2>1, <2>2, <2>3, <1>4, BorrowKeeps
  <1> QED
    BY <1>1, <1>3, <1>4

(* do_unlink. *)
LEMMA UnlinkKeeps ==
  ASSUME FilesCounted, NEW p \in Proc, NEW path \in Path, do_unlink(p, path)
  PROVE  FilesCounted'
  <1> DEFINE r == Namev(p, path)
             d == r.dir
             v == r.vno
  <1>1. \/ GoOnAnyway(r)
        \/ Stop("inode")
        \/ /\ r.res = "found"
           /\ VPut(WithoutEntry(d, Last(path), v), [vref EXCEPT ![v] = @ + 1], v)
           /\ UNCHANGED <<file, p_files, p_cwd, kept, fault>>
    BY DEF do_unlink
  <1>2. /\ d \in Ino /\ inode[d] # None /\ InodesTyped
        /\ r.res = "found" => v \in Ino /\ inode[v] # None
    BY HeldIsThere, NamevOK DEF do_unlink, Runs
  <1> HIDE DEF r, d, v
  <1>3. CASE Stop("inode") \/ GoOnAnyway(r)
    BY <1>3, StopKeeps DEF Faults, GoOnAnyway
  <1>4. CASE /\ r.res = "found"
             /\ VPut(WithoutEntry(d, Last(path), v), [vref EXCEPT ![v] = @ + 1], v)
             /\ UNCHANGED <<file, p_files, p_cwd, kept, fault>>
    <2> DEFINE W == WithoutEntry(d, Last(path), v)
    <2>1. /\ W \in [Ino -> Inodes(Int) \cup {None}]
          /\ \A u \in Ino : W[u] # None <=> inode[u] # None
      <3>1. EntryRemoved(W, d, Last(path), v)
        BY <1>2, <1>4, WithoutEntryOK
      <3> QED
        BY <3>1 DEF EntryRemoved, InodeTable
    <2>2. VPut(W, [vref EXCEPT ![v] = @ + 1], v)
      BY <1>4
    <2> HIDE DEF W
    <2> QED
      BY <1>2, <2>1, <2>2, <1>4, BorrowKeeps
  <1> QED
    BY <1>1, <1>3, <1>4

(* do_link. *)
LEMMA LinkKeeps ==
  ASSUME FilesCounted, NEW p \in Proc, NEW from \in Path, NEW to \in Path, do_link(p, from, to)
  PROVE  FilesCounted'
  <1> DEFINE r == Namev(p, from)
             t == Namev(p, to)
             v == r.vno
  <1>1. \/ Stop("pointer") \/ Stop("inode")
        \/ /\ r.res = "found" /\ t.res = "fail"
           /\ vref' = [vref EXCEPT ![v] = @ + 1]
           /\ kept' = [kept EXCEPT ![v] = @ + 1]
           /\ UNCHANGED <<inode, file, p_files, p_cwd, fault>>
        \/ /\ r.res = "found" /\ t.res = "absent" /\ FreeSlots(t.dir) # {}
           /\ inode' = WithEntry(t.dir, Last(to), v, [inode EXCEPT ![v].nlink = @ + 1])
           /\ UNCHANGED <<vref, file, p_files, p_cwd, kept, fault>>
    BY DEF do_link
  <1>2. /\ InodesTyped /\ CountsOK /\ fault \in Faults
        /\ t.dir \in Ino /\ inode[t.dir] # None
        /\ r.res = "found" => v \in Ino /\ inode[v] # None
        /\ t.res = "absent" => Last(to) \in Names
        /\ \A u \in Ino : vref[u] > 0 => inode[u] # None
    BY HeldIsThere, NamevOK, CountedIs DEF do_link, Runs
  <1> HIDE DEF r, t, v
  <1>3. CASE Stop("pointer") \/ Stop("inode")
    BY <1>3, StopKeeps DEF Faults
  <1>4. CASE /\ r.res = "found" /\ t.res = "fail"
             /\ vref' = [vref EXCEPT ![v] = @ + 1]
             /\ kept' = [kept EXCEPT ![v] = @ + 1]
             /\ UNCHANGED <<inode, file, p_files, p_cwd, fault>>
    <2>1. /\ vref' \in [Ino -> Int] /\ kept' \in [Ino -> Nat]
          /\ \A u \in Ino : vref'[u] = vref[u] + (IF u = v THEN 1 ELSE 0)
          /\ \A u \in Ino : kept'[u] = kept[u] + (IF u = v THEN 1 ELSE 0)
      BY <1>2, <1>4 DEF CountsOK
    <2>2. ASSUME NEW u \in Ino PROVE vref'[u] = VnodeCount(file', p_cwd', kept', u)
      <3>1. vref[u] = VnodeCount(file, p_cwd, kept, u) /\ kept[u] \in Nat
            /\ Cardinality(OpenOn(file, u)) \in Nat /\ Cardinality(Homes(p_cwd, u)) \in Nat
        BY <1>2, FilesFinite DEF CountsOK
      <3>2. /\ VnodeCount(file', p_cwd', kept', u)
                 = (IF u = Root THEN 1 ELSE 0) + kept'[u]
                   + Cardinality(OpenOn(file, u)) + Cardinality(Homes(p_cwd, u))
            /\ VnodeCount(file, p_cwd, kept, u)
                 = (IF u = Root THEN 1 ELSE 0) + kept[u]
                   + Cardinality(OpenOn(file, u)) + Cardinality(Homes(p_cwd, u))
        BY <1>4 DEF VnodeCount
      <3> QED
        BY <3>1, <3>2, <2>1
    <2>3. CountsOK'
      BY <2>1, <2>2, <1>2, <1>4 DEF CountsOK, FileCounts, FilesTypes
    <2>4. \A u \in Ino : vref'[u] > 0 => inode'[u] # None
      BY <2>1, <1>2, <1>4 DEF CountsOK
    <2> QED
      BY <2>3, <2>4, <1>2, <1>4, CountedIs DEF InodesTyped
  <1>5. CASE /\ r.res = "found" /\ t.res = "absent" /\ FreeSlots(t.dir) # {}
             /\ inode' = WithEntry(t.dir, Last(to), v, [inode EXCEPT ![v].nlink = @ + 1])
             /\ UNCHANGED <<vref, file, p_files, p_cwd, kept, fault>>
    <2> DEFINE q == [inode[v] EXCEPT !.nlink = @ + 1]
               nodes == [inode EXCEPT ![v] = q]
    <2>1. q \in Inodes(Int) /\ q # None
      <3>1. inode[v] \in Inodes(Int)
        BY <1>2, <1>5, InodeParts
      <3>2. q \in Inodes(Int)
        BY <3>1 DEF Inodes
      <3> HIDE DEF q
      <3> QED
        BY <3>2, FilesAssumption
    <2>2. inode' = WithEntry(t.dir, Last(to), v, nodes)
      BY <1>5
    <2> HIDE DEF q
    <2>3. /\ nodes \in [Ino -> Inodes(Int) \cup {None}]
          /\ \A u \in Ino : inode[u] # None => nodes[u] # None
      BY <2>1, <1>2, <1>5 DEF InodesTyped
    <2> HIDE DEF nodes
    <2>4. InodesTyped' /\ \A u \in Ino : inode'[u] # None <=> nodes[u] # None
      <3>1. nodes \in InodeTable
        BY <2>3 DEF InodeTable
      <3>2. /\ InodesTyped /\ t.dir \in Ino /\ inode[t.dir] # None /\ nodes[t.dir] # None
            /\ FreeSlots(t.dir) # {} /\ Last(to) \in Names /\ v \in Ino
        BY <2>3, <1>2, <1>5
      <3>3. EntryAdded(nodes, WithEntry(t.dir, Last(to), v, nodes), t.dir, Last(to), v)
        BY <3>1, <3>2, WithEntryOK
      <3>4. EntryAdded(nodes, inode', t.dir, Last(to), v)
        BY <3>3, <2>2
      <3> QED
        BY <3>4 DEF EntryAdded, InodesTyped, InodeTable
    <2> QED
      BY <2>3, <2>4, <1>5, TableKeeps
  <1> QED
    BY <1>1, <1>3, <1>4, <1>5

(* do_chdir. *)
LEMMA ChdirKeeps ==
  ASSUME FilesCounted, NEW p \in Proc, NEW path \in Path, do_chdir(p, path)
  PROVE  FilesCounted'
  <1> DEFINE r == Namev(p, path)
             v == r.vno
             refs == [vref EXCEPT ![v] = @ + 1]
             old == p_cwd[p]
  <1>1. \/ Stop("inode")
        \/ /\ r.res = "found" /\ VPut(inode, refs, old)
           /\ p_cwd' = [p_cwd EXCEPT ![p] = v]
           /\ UNCHANGED <<file, p_files, kept, fault>>
    BY DEF do_chdir
  <1>2. /\ InodesTyped /\ CountsOK /\ fault \in Faults
        /\ old \in Ino /\ vref[old] > 0
        /\ r.res = "found" => v \in Ino /\ inode[v] # None
        /\ \A u \in Ino : vref[u] > 0 => inode[u] # None
    BY HeldIsThere, NamevOK, CountedIs DEF do_chdir, Runs
  <1> HIDE DEF r, v
  <1>3. CASE Stop("inode")
    BY <1>3, StopKeeps DEF Faults
  <1>4. CASE /\ r.res = "found" /\ VPut(inode, refs, old)
             /\ p_cwd' = [p_cwd EXCEPT ![p] = v]
             /\ UNCHANGED <<file, p_files, kept, fault>>
    <2>1. FilesTypes(file, p_files, p_cwd) /\ vref \in [Ino -> Int]
          /\ inode \in [Ino -> Inodes(Int) \cup {None}]
      BY <1>2 DEF CountsOK, InodesTyped
    <2>2. /\ refs \in [Ino -> Int]
          /\ \A u \in Ino : refs[u] = vref[u] + (IF u = v THEN 1 ELSE 0)
          /\ refs[old] > 0 /\ \A u \in Ino : refs[u] > 0 => inode[u] # None
      BY <2>1, <1>2, <1>4
    <2> HIDE DEF refs
    <2>3. /\ vref' \in [Ino -> Int] /\ InodesTyped'
          /\ \A u \in Ino : vref'[u] = refs[u] - (IF u = old THEN 1 ELSE 0)
          /\ \A u \in Ino : vref'[u] > 0 => inode'[u] # None
      BY <2>1, <2>2, <1>2, <1>4, VPutKeeps
    <2>4. \A u : Cardinality(Homes(p_cwd', u)) = Cardinality(Homes(p_cwd, u))
                   + (IF v = u THEN 1 ELSE 0) - (IF old = u THEN 1 ELSE 0)
      <3>1. HomeSet(p_cwd, p_cwd', p, v)
        BY <2>1, <1>4 DEF HomeSet, FilesTypes
      <3> QED
        BY <3>1, HomeChange
    <2>5. ASSUME NEW u \in Ino PROVE vref'[u] = VnodeCount(file', p_cwd', kept', u)
      <3>1. vref[u] = VnodeCount(file, p_cwd, kept, u) /\ kept[u] \in Nat
            /\ Cardinality(OpenOn(file, u)) \in Nat /\ Cardinality(Homes(p_cwd, u)) \in Nat
        BY <1>2, FilesFinite DEF CountsOK
      <3>2. vref'[u] = vref[u] + (IF u = v THEN 1 ELSE 0) - (IF u = old THEN 1 ELSE 0)
        <4>1. vref'[u] = refs[u] - (IF u = old THEN 1 ELSE 0)
          BY <2>3
        <4>2. refs[u] = vref[u] + (IF u = v THEN 1 ELSE 0)
          BY <2>2
        <4>3. vref[u] \in Int
          BY <2>1
        <4> HIDE DEF old
        <4> QED
          BY <4>1, <4>2, <4>3
      <3>3. kept' = kept /\ file' = file
        BY <1>4
      <3> QED
        BY <3>1, <3>2, <3>3, <2>4 DEF VnodeCount
    <2>6. FilesTypes(file', p_files', p_cwd')
      BY <2>1, <1>2, <1>4 DEF FilesTypes
    <2>7. \A q \in Proc : p_cwd'[q] = None => p_files'[q] = NoFiles
      <3>1. \A q \in Proc : p_cwd'[q] = IF q = p THEN v ELSE p_cwd[q]
        BY <2>1, <1>4 DEF FilesTypes
      <3>2. v # None
        BY <1>2, <1>4, FilesAssumption
      <3> QED
        BY <3>1, <3>2, <1>2, <1>4 DEF CountsOK
    <2>8. CountsOK'
      BY <2>3, <2>5, <2>6, <2>7, <1>2, <1>4 DEF CountsOK, FileCounts
    <2> QED
      BY <2>3, <2>8, <1>2, <1>4, CountedIs
  <1> QED
    BY <1>1, <1>3, <1>4

(* The rest of a process that has closed its files. *)
LEMMA ExitKeeps ==
  ASSUME FilesCounted, NEW p \in Proc, Exit(p)
  PROVE  FilesCounted'
  <1> DEFINE old == p_cwd[p]
  <1>1. /\ old # None /\ p_files[p] = NoFiles
        /\ VPut(inode, vref, old)
        /\ p_cwd' = [p_cwd EXCEPT ![p] = None]
        /\ UNCHANGED <<file, p_files, kept, fault>>
    BY DEF Exit, Runs
  <1>2. /\ InodesTyped /\ CountsOK /\ fault \in Faults
        /\ old \in Ino /\ vref[old] > 0
        /\ \A u \in Ino : vref[u] > 0 => inode[u] # None
    BY <1>1, HeldIsThere, CountedIs
  <1>3. FilesTypes(file, p_files, p_cwd) /\ vref \in [Ino -> Int]
        /\ inode \in [Ino -> Inodes(Int) \cup {None}]
    BY <1>2 DEF CountsOK, InodesTyped
  <1>4. /\ vref' \in [Ino -> Int] /\ InodesTyped'
        /\ \A u \in Ino : vref'[u] = vref[u] - (IF u = old THEN 1 ELSE 0)
        /\ \A u \in Ino : vref'[u] > 0 => inode'[u] # None
    BY <1>1, <1>2, <1>3, VPutKeeps
  <1>5. \A u : Cardinality(Homes(p_cwd', u)) = Cardinality(Homes(p_cwd, u))
                 + (IF None = u THEN 1 ELSE 0) - (IF old = u THEN 1 ELSE 0)
    <2>1. HomeSet(p_cwd, p_cwd', p, None)
      BY <1>1, <1>3 DEF HomeSet, FilesTypes
    <2> QED
      BY <2>1, HomeChange
  <1>6. ASSUME NEW u \in Ino PROVE vref'[u] = VnodeCount(file', p_cwd', kept', u)
    <2>1. vref[u] = VnodeCount(file, p_cwd, kept, u) /\ kept[u] \in Nat /\ u # None
          /\ Cardinality(OpenOn(file, u)) \in Nat /\ Cardinality(Homes(p_cwd, u)) \in Nat
      BY <1>2, FilesFinite, FilesAssumption DEF CountsOK
    <2>2. vref'[u] = vref[u] - (IF u = old THEN 1 ELSE 0)
      BY <1>4
    <2>3. kept' = kept /\ file' = file
      BY <1>1
    <2> QED
      BY <2>1, <2>2, <2>3, <1>5 DEF VnodeCount
  <1>7. FilesTypes(file', p_files', p_cwd')
    BY <1>1, <1>3 DEF FilesTypes
  <1>8. \A q \in Proc : p_cwd'[q] = None => p_files'[q] = NoFiles
    <2>1. \A q \in Proc : q # p => p_cwd'[q] = p_cwd[q]
      BY <1>1, <1>3 DEF FilesTypes
    <2> QED
      BY <2>1, <1>1, <1>2 DEF CountsOK
  <1>9. CountsOK'
    BY <1>1, <1>2, <1>4, <1>6, <1>7, <1>8 DEF CountsOK, FileCounts
  <1> QED
    BY <1>1, <1>2, <1>4, <1>9, CountedIs

(* One descriptor comes to name g in place of old: f_refcount of both      *)
(* follows, and the vnode of old is put when that was the last.            *)
LastOf(old, g) == old # None /\ old # g /\ file[old].refs = 1

(* What the call does to the counts, the vnode and the rest. *)
Renamed(old, g) ==
  /\ \A h \in FileId :
       /\ file'[h].refs = file[h].refs + (IF g = h THEN 1 ELSE 0) - (IF old = h THEN 1 ELSE 0)
       /\ file'[h].vno = IF LastOf(old, g) /\ h = old THEN None ELSE file[h].vno
  /\ LastOf(old, g) => VPut(inode, vref, file[old].vno)
  /\ ~LastOf(old, g) => inode' = inode /\ vref' = vref
  /\ UNCHANGED <<p_cwd, kept, fault>>

(* Then the counts stay exact, whichever call it is. *)
LEMMA DescriptorKeeps ==
  ASSUME FilesCounted, NEW p \in Proc, NEW fd \in FD, p_cwd[p] # None,
         NEW g \in FileId \cup {None}, g # None => file[g].vno # None,
         FdSet(p_files, p_files', p, fd, g),
         FilesTypes(file', p_files', p_cwd'),
         Renamed(p_files[p][fd], g)
  PROVE  FilesCounted'
  <1> DEFINE old == p_files[p][fd]
             last == LastOf(old, g)
  <1>1. /\ InodesTyped /\ CountsOK /\ fault \in Faults
        /\ FilesTypes(file, p_files, p_cwd) /\ vref \in [Ino -> Int]
        /\ \A u \in Ino : vref[u] > 0 => inode[u] # None
        /\ inode \in [Ino -> Inodes(Int) \cup {None}]
    BY CountedIs DEF CountsOK, InodesTyped
  <1>2. /\ \A h \in FileId : file'[h].refs = file[h].refs + (IF g = h THEN 1 ELSE 0)
                                               - (IF old = h THEN 1 ELSE 0)
        /\ \A h \in FileId : file'[h].vno = IF last /\ h = old THEN None ELSE file[h].vno
        /\ last => VPut(inode, vref, file[old].vno)
        /\ ~last => inode' = inode /\ vref' = vref
        /\ last \in BOOLEAN /\ (last <=> old # None /\ old # g /\ file[old].refs = 1)
        /\ p_cwd' = p_cwd /\ kept' = kept /\ fault' = fault
    BY DEF Renamed, LastOf
  <1>3. FileCounts(file', p_files')
    <2>1. \A h : Cardinality(Holds(p_files', h)) = Cardinality(Holds(p_files, h))
                   + (IF g = h THEN 1 ELSE 0) - (IF old = h THEN 1 ELSE 0)
      BY DescriptorCounts
    <2>2. \A h \in FileId : file[h].refs = Cardinality(Holds(p_files, h))
      BY <1>1 DEF CountsOK, FileCounts
    <2> HIDE DEF old
    <2> QED
      BY <2>1, <2>2, <1>2 DEF FileCounts
  <1>4. old # None => /\ old \in FileId /\ file[old].refs > 0
                      /\ file[old].vno \in Ino /\ vref[file[old].vno] > 0
    BY HeldIsThere
  <1> HIDE DEF last
  <1>5. \A h \in FileId : file'[h].refs = 0 <=> file'[h].vno = None
    <2> SUFFICES ASSUME NEW h \in FileId
                 PROVE  file'[h].refs = 0 <=> file'[h].vno = None
      OBVIOUS
    <2>1. file[h].refs \in Nat /\ (file[h].refs = 0 <=> file[h].vno = None) /\ h # None
      <3>1. file[h].refs = Cardinality(Holds(p_files, h))
        BY <1>1 DEF CountsOK, FileCounts
      <3> QED
        BY <3>1, <1>1, FilesFinite, FilesAssumption DEF CountsOK
    <2> HIDE DEF old
    <2>2. CASE old = h
      BY <2>1, <2>2, <1>2, <1>4
    <2>3. CASE old # h
      BY <2>1, <2>3, <1>2
    <2> QED
      BY <2>2, <2>3
  <1>6. \A q \in Proc : p_cwd'[q] = None => p_files'[q] = NoFiles
    <2>1. ASSUME NEW q \in Proc, q # p PROVE p_files'[q] = p_files[q]
      <3>1. \A k \in FD : p_files'[q][k] = p_files[q][k]
        BY <2>1 DEF FdSet
      <3>2. p_files'[q] \in [FD -> FileId \cup {None}] /\ p_files[q] \in [FD -> FileId \cup {None}]
        BY <1>1 DEF FilesTypes
      <3> QED
        BY <3>1, <3>2
    <2> QED
      BY <2>1, <1>1, <1>2 DEF CountsOK
  <1>7. CASE last
    <2> DEFINE v == file[old].vno
    <2>1. v \in Ino /\ vref[v] > 0 /\ VPut(inode, vref, v) /\ old \in FileId
      BY <1>2, <1>4, <1>7
    <2> HIDE DEF v
    <2>2. /\ vref' \in [Ino -> Int] /\ InodesTyped'
          /\ \A u \in Ino : vref'[u] = vref[u] - (IF u = v THEN 1 ELSE 0)
          /\ \A u \in Ino : vref'[u] > 0 => inode'[u] # None
      BY <2>1, <1>1, VPutKeeps
    <2>3. VnoSet(file, file', old, None)
      BY <1>2, <1>7 DEF VnoSet
    <2>4. \A u : Cardinality(OpenOn(file', u)) = Cardinality(OpenOn(file, u))
                   + (IF None = u THEN 1 ELSE 0) - (IF v = u THEN 1 ELSE 0)
      BY <2>1, <2>3, FileChange DEF v
    <2>5. ASSUME NEW u \in Ino PROVE vref'[u] = VnodeCount(file', p_cwd', kept', u)
      <3>1. vref[u] = VnodeCount(file, p_cwd, kept, u) /\ kept[u] \in Nat /\ u # None
            /\ Cardinality(OpenOn(file, u)) \in Nat /\ Cardinality(Homes(p_cwd, u)) \in Nat
        BY <1>1, FilesFinite, FilesAssumption DEF CountsOK
      <3>2. Cardinality(OpenOn(file', u)) = Cardinality(OpenOn(file, u))
                                            - (IF v = u THEN 1 ELSE 0)
        BY <2>4, <3>1
      <3>3. vref'[u] = vref[u] - (IF u = v THEN 1 ELSE 0)
        BY <2>2
      <3>4. p_cwd' = p_cwd /\ kept' = kept
        BY <1>2
      <3> QED
        BY <3>1, <3>2, <3>3, <3>4 DEF VnodeCount
    <2>6. CountsOK'
      BY <1>1, <1>2, <1>3, <1>5, <1>6, <2>2, <2>5 DEF CountsOK
    <2> QED
      BY <2>2, <2>6, <1>1, <1>2, CountedIs
  <1>8. CASE ~last
    <2>1. inode' = inode /\ vref' = vref
      BY <1>2, <1>8
    <2>2. \A u : OpenOn(file', u) = OpenOn(file, u)
      BY <1>2, <1>8 DEF OpenOn
    <2>3. CountsOK'
      BY <1>1, <1>2, <1>3, <1>5, <1>6, <2>1, <2>2 DEF CountsOK, VnodeCount
    <2> QED
      BY <2>1, <2>3, <1>1, <1>2, CountedIs DEF InodesTyped
  <1> QED
    BY <1>7, <1>8

(* do_close. *)
LEMMA CloseKeeps ==
  ASSUME FilesCounted, NEW p \in Proc, NEW fd \in FD, do_close(p, fd)
  PROVE  FilesCounted'
  <1> DEFINE f == p_files[p][fd]
             last == file[f].refs = 1
  <1>1. /\ p_cwd[p] # None /\ f # None
        /\ p_files' = [p_files EXCEPT ![p][fd] = None]
        /\ IF file[f].refs > 1
           THEN file' = [file EXCEPT ![f].refs = @ - 1] /\ UNCHANGED fs
           ELSE file' = [file EXCEPT ![f] = NoFile] /\ VPut(inode, vref, file[f].vno)
        /\ UNCHANGED <<p_cwd, kept, fault>>
    BY DEF do_close, fput, Runs
  <1>2. /\ f \in FileId /\ file[f].refs > 0 /\ file[f].refs \in Int
        /\ file \in [FileId -> [vno : Ino \cup {None}, refs : Int]]
    BY <1>1, HeldIsThere DEF FilesCounted, FilesTypes
  <1>3. file[f].refs > 1 <=> ~last
    BY <1>2
  <1> HIDE DEF f
  <1>4. NoFile \in [vno : Ino \cup {None}, refs : Int] /\ NoFile.vno = None /\ NoFile.refs = 0
    BY DEF NoFile
  <1>5. /\ file' \in [FileId -> [vno : Ino \cup {None}, refs : Int]]
        /\ \A h \in FileId : file'[h].refs = file[h].refs - (IF f = h THEN 1 ELSE 0)
        /\ \A h \in FileId : file'[h].vno = IF last /\ h = f THEN None ELSE file[h].vno
    BY <1>1, <1>2, <1>3, <1>4
  <1>6. \A h \in FileId : file'[h].refs = file[h].refs + (IF None = h THEN 1 ELSE 0)
                                          - (IF f = h THEN 1 ELSE 0)
    <2>1. \A h \in FileId : h # None /\ file[h].refs \in Int
      BY <1>2, FilesAssumption
    <2> QED
      BY <2>1, <1>5
  <1>7. Renamed(f, None)
    <2>1. LastOf(f, None) <=> last
      BY <1>1 DEF LastOf
    <2>2. (last => VPut(inode, vref, file[f].vno)) /\ (~last => inode' = inode /\ vref' = vref)
      BY <1>1, <1>3 DEF fs
    <2>3. p_cwd' = p_cwd /\ kept' = kept /\ fault' = fault
      BY <1>1
    <2> HIDE DEF last
    <2> QED
      BY <2>1, <2>2, <2>3, <1>5, <1>6 DEF Renamed
  <1>8. FilesTypes(file, p_files, p_cwd)
    BY DEF FilesCounted
  <1>9. FilesTypes(file', p_files', p_cwd') /\ FdSet(p_files, p_files', p, fd, None)
    BY <1>1, <1>5, <1>8 DEF FilesTypes, FdSet
  <1> QED
    BY <1>1, <1>7, <1>9, DescriptorKeeps DEF f

(* do_dup. *)
LEMMA DupKeeps ==
  ASSUME FilesCounted, NEW p \in Proc, NEW fd \in FD, do_dup(p, fd)
  PROVE  FilesCounted'
  <1> DEFINE f == p_files[p][fd]
             new == Lowest(FreeFd(p))
  <1>1. /\ p_cwd[p] # None /\ f # None /\ FreeFd(p) # {}
        /\ file' = [file EXCEPT ![f].refs = @ + 1]
        /\ p_files' = [p_files EXCEPT ![p][new] = f]
        /\ UNCHANGED <<fs, p_cwd, kept, fault>>
    BY DEF do_dup, Runs
  <1>2. /\ f \in FileId /\ file[f].vno # None
        /\ file \in [FileId -> [vno : Ino \cup {None}, refs : Int]]
    BY <1>1, HeldIsThere DEF FilesCounted, FilesTypes
  <1>3. new \in FD /\ p_files[p][new] = None
    <2>1. FreeFd(p) \in SUBSET Nat
      BY FilesAssumption DEF FreeFd
    <2>2. new \in FreeFd(p)
      BY <2>1, <1>1, LowestOK
    <2> QED
      BY <2>2 DEF FreeFd
  <1> HIDE DEF f, new
  <1>4. /\ file' \in [FileId -> [vno : Ino \cup {None}, refs : Int]]
        /\ \A h \in FileId : file'[h].vno = file[h].vno
        /\ \A h \in FileId : file'[h].refs = file[h].refs + (IF f = h THEN 1 ELSE 0)
    BY <1>1, <1>2
  <1>5. \A h \in FileId : file'[h].refs = file[h].refs + (IF f = h THEN 1 ELSE 0)
                                          - (IF None = h THEN 1 ELSE 0)
    <2>1. \A h \in FileId : h # None /\ file[h].refs \in Int
      BY <1>2, FilesAssumption
    <2> QED
      BY <2>1, <1>4
  <1>6. Renamed(None, f)
    <2>1. ~LastOf(None, f)
      BY DEF LastOf
    <2>2. inode' = inode /\ vref' = vref /\ UNCHANGED <<p_cwd, kept, fault>>
      BY <1>1 DEF fs
    <2> QED
      BY <2>1, <2>2, <1>4, <1>5 DEF Renamed
  <1>7. FilesTypes(file, p_files, p_cwd)
    BY DEF FilesCounted
  <1>8. FilesTypes(file', p_files', p_cwd') /\ FdSet(p_files, p_files', p, new, f)
    BY <1>1, <1>2, <1>3, <1>4, <1>7 DEF FilesTypes, FdSet
  <1> QED
    BY <1>1, <1>2, <1>3, <1>6, <1>8, DescriptorKeeps

(* do_dup2. *)
LEMMA Dup2Keeps ==
  ASSUME FilesCounted, NEW p \in Proc, NEW ofd \in FD, NEW nfd \in FD, do_dup2(p, ofd, nfd)
  PROVE  FilesCounted'
  <1> DEFINE f == p_files[p][ofd]
             g == p_files[p][nfd]
             last == g # None /\ g # f /\ file[g].refs = 1
  <1>1. /\ p_cwd[p] # None /\ f # None
        /\ p_files' = [p_files EXCEPT ![p][nfd] = f]
        /\ IF g = None
           THEN file' = [file EXCEPT ![f].refs = @ + 1] /\ UNCHANGED fs
           ELSE IF g = f THEN UNCHANGED <<file, fs>>
           ELSE IF file[g].refs > 1
           THEN /\ file' = [file EXCEPT ![f].refs = @ + 1, ![g].refs = @ - 1]
                /\ UNCHANGED fs
           ELSE /\ file' = [file EXCEPT ![f].refs = @ + 1, ![g] = NoFile]
                /\ VPut(inode, vref, file[g].vno)
        /\ UNCHANGED <<p_cwd, kept, fault>>
    BY DEF do_dup2, Runs
  <1>2. /\ f \in FileId /\ file[f].vno # None
        /\ g # None => g \in FileId /\ file[g].refs > 0
        /\ file \in [FileId -> [vno : Ino \cup {None}, refs : Int]]
    BY <1>1, HeldIsThere DEF FilesCounted, FilesTypes
  <1>3. g = p_files[p][nfd]
    OBVIOUS
  <1> HIDE DEF f, g
  <1>4. NoFile \in [vno : Ino \cup {None}, refs : Int] /\ NoFile.vno = None /\ NoFile.refs = 0
    BY DEF NoFile
  <1>5. g # None => file[g].refs \in Int /\ (file[g].refs > 1 \/ file[g].refs = 1)
    BY <1>2
  <1>6. IF last THEN VPut(inode, vref, file[g].vno) ELSE UNCHANGED fs
    BY <1>1, <1>5
  <1>7. /\ file' \in [FileId -> [vno : Ino \cup {None}, refs : Int]]
        /\ \A h \in FileId : file'[h].vno = IF last /\ h = g THEN None ELSE file[h].vno
        /\ \A h \in FileId : file'[h].refs = file[h].refs + (IF f = h THEN 1 ELSE 0)
                                             - (IF g = h THEN 1 ELSE 0)
    <2>1. \A h \in FileId : h # None /\ file[h].refs \in Int /\ file[h] \in [vno : Ino \cup {None}, refs : Int]
      BY <1>2, FilesAssumption
    <2>2. CASE g = None
      BY <2>1, <2>2, <1>1, <1>2
    <2>3. CASE g = f
      <3>1. file' = file /\ f # None
        BY <2>3, <1>1
      <3> QED
        BY <2>1, <2>3, <3>1, <1>2
    <2>4. CASE g # None /\ g # f /\ file[g].refs > 1
      <3>1. file' = [file EXCEPT ![f].refs = @ + 1, ![g].refs = @ - 1] /\ ~last
        BY <2>4, <1>1
      <3> QED
        BY <2>1, <2>4, <3>1, <1>2
    <2>5. CASE g # None /\ g # f /\ file[g].refs = 1
      <3>1. file' = [file EXCEPT ![f].refs = @ + 1, ![g] = NoFile] /\ last
        BY <2>5, <1>1
      <3> QED
        BY <2>1, <2>5, <3>1, <1>2, <1>4
    <2> QED
      BY <2>2, <2>3, <2>4, <2>5, <1>5
  <1>8. Renamed(g, f)
    <2>1. LastOf(g, f) <=> last
      BY DEF LastOf
    <2>2. (last => VPut(inode, vref, file[g].vno)) /\ (~last => inode' = inode /\ vref' = vref)
      BY <1>6 DEF fs
    <2>3. p_cwd' = p_cwd /\ kept' = kept /\ fault' = fault
      BY <1>1
    <2> HIDE DEF last
    <2> QED
      BY <2>1, <2>2, <2>3, <1>7 DEF Renamed
  <1> HIDE DEF last
  <1>9. FilesTypes(file, p_files, p_cwd)
    BY DEF FilesCounted
  <1>10. FilesTypes(file', p_files', p_cwd') /\ FdSet(p_files, p_files', p, nfd, f)
    BY <1>1, <1>2, <1>7, <1>9 DEF FilesTypes, FdSet
  <1> QED
    BY <1>1, <1>2, <1>3, <1>8, <1>10, DescriptorKeeps

(* do_fork: every file_t gets as many references as the parent has         *)
(* descriptors of it.                                                      *)
LEMMA ForkKeeps ==
  ASSUME FilesCounted, NEW p \in Proc, NEW c \in Proc, do_fork(p, c)
  PROVE  FilesCounted'
  <1> DEFINE old == p_cwd[p]
             D(f) == {fd \in FD : p_files[p][fd] = f}
  <1>1. /\ old # None /\ p_cwd[c] = None
        /\ p_files' = [p_files EXCEPT ![c] = p_files[p]]
        /\ p_cwd' = [p_cwd EXCEPT ![c] = old]
        /\ vref' = [vref EXCEPT ![old] = @ + 1]
        /\ file' = [f \in FileId |-> [file[f] EXCEPT !.refs = @ + Cardinality(D(f))]]
        /\ UNCHANGED <<inode, kept, fault>>
    BY DEF do_fork, Runs
  <1>2. /\ InodesTyped /\ CountsOK /\ fault \in Faults
        /\ old \in Ino /\ inode[old] # None
        /\ \A u \in Ino : vref[u] \in Nat /\ (vref[u] > 0 => inode[u] # None)
        /\ FilesTypes(file, p_files, p_cwd) /\ vref \in [Ino -> Int]
        /\ p_files[c] = NoFiles
    BY <1>1, HeldIsThere, CountedIs DEF CountsOK
  <1>3. \A f : IsFiniteSet(D(f)) /\ Cardinality(D(f)) \in Nat
    <2>1. \A f : D(f) \subseteq FD
      OBVIOUS
    <2> HIDE DEF D
    <2> QED
      BY <2>1, FilesAssumption, PartIsFinite
  <1>4. ASSUME NEW f \in FileId
        PROVE  Cardinality(Holds(p_files', f)) = Cardinality(Holds(p_files, f))
                                                 + Cardinality(D(f))
    <2> DEFINE N == {c} \X D(f)
    <2>1. \A q \in Proc : p_files'[q] = IF q = c THEN p_files[p] ELSE p_files[q]
      BY <1>1, <1>2 DEF FilesTypes
    <2>2. \A fd \in FD : p_files[c][fd] # f
      BY <1>2, FilesAssumption DEF NoFiles
    <2>3. Holds(p_files', f) = Holds(p_files, f) \cup N
      BY <2>1, <2>2 DEF Holds
    <2>4. Holds(p_files, f) \cap N = {}
      BY <2>2 DEF Holds
    <2>5. IsFiniteSet(N) /\ Cardinality(N) = Cardinality(D(f))
      <3>1. IsFiniteSet({c}) /\ Cardinality({c}) = 1
        BY FS_Singleton
      <3> HIDE DEF D
      <3>2. IsFiniteSet(N) /\ Cardinality(N) = Cardinality({c}) * Cardinality(D(f))
        BY <1>3, <3>1, FS_Product
      <3> QED
        BY <1>3, <3>1, <3>2
    <2> HIDE DEF N, D
    <2>6. Cardinality(Holds(p_files, f) \cup N)
            = Cardinality(Holds(p_files, f)) + Cardinality(N)
              - Cardinality(Holds(p_files, f) \cap N)
      BY <2>5, FilesFinite, FS_Union
    <2>7. Cardinality(Holds(p_files, f) \cap N) = 0
      BY <2>4, FS_EmptySet
    <2> QED
      BY <2>3, <2>5, <2>6, <2>7, <1>3, FilesFinite
  <1> HIDE DEF D, old
  <1>5. /\ file \in [FileId -> [vno : Ino \cup {None}, refs : Int]]
        /\ \A f \in FileId : file[f].refs = Cardinality(Holds(p_files, f))
        /\ \A f \in FileId : file[f].refs \in Nat
    BY <1>2, FilesFinite DEF FilesTypes, CountsOK, FileCounts
  <1>6. /\ file' \in [FileId -> [vno : Ino \cup {None}, refs : Int]]
        /\ \A f \in FileId : /\ file'[f].refs = file[f].refs + Cardinality(D(f))
                             /\ file'[f].vno = file[f].vno
    BY <1>1, <1>3, <1>5
  <1>7. FilesTypes(file', p_files', p_cwd')
    BY <1>1, <1>2, <1>6 DEF FilesTypes
  <1>8. FileCounts(file', p_files')
    BY <1>4, <1>5, <1>6 DEF FileCounts
  <1>9. \A f \in FileId : file'[f].refs = 0 <=> file'[f].vno = None
    <2> SUFFICES ASSUME NEW f \in FileId PROVE file'[f].refs = 0 <=> file'[f].vno = None
      OBVIOUS
    <2>1. file[f].refs = 0 <=> file[f].vno = None
      BY <1>2 DEF CountsOK
    <2>2. file[f].refs = 0 => Cardinality(D(f)) = 0
      <3>1. ASSUME D(f) # {} PROVE Holds(p_files, f) # {}
        <4>1. PICK fd \in FD : p_files[p][fd] = f
          BY <3>1 DEF D
        <4>2. <<p, fd>> \in Holds(p_files, f)
          BY <4>1 DEF Holds
        <4> QED
          BY <4>2
      <3> QED
        BY <3>1, <1>3, <1>5, FilesFinite, FS_EmptySet
    <2> QED
      BY <2>1, <2>2, <1>3, <1>5, <1>6
  <1>10. \A u : Cardinality(Homes(p_cwd', u)) = Cardinality(Homes(p_cwd, u))
                  + (IF old = u THEN 1 ELSE 0) - (IF None = u THEN 1 ELSE 0)
    <2>1. HomeSet(p_cwd, p_cwd', c, old)
      BY <1>1, <1>2 DEF HomeSet, FilesTypes
    <2> QED
      BY <1>1, <2>1, HomeChange
  <1>11. \A u \in Ino : vref'[u] = vref[u] + (IF u = old THEN 1 ELSE 0)
    BY <1>1, <1>2
  <1>12. \A u : OpenOn(file', u) = OpenOn(file, u)
    BY <1>6 DEF OpenOn
  <1>13. ASSUME NEW u \in Ino PROVE vref'[u] = VnodeCount(file', p_cwd', kept', u)
    <2>1. vref[u] = VnodeCount(file, p_cwd, kept, u) /\ kept[u] \in Nat /\ u # None
          /\ Cardinality(OpenOn(file, u)) \in Nat /\ Cardinality(Homes(p_cwd, u)) \in Nat
      BY <1>2, FilesFinite, FilesAssumption DEF CountsOK
    <2>2. Cardinality(Homes(p_cwd', u)) = Cardinality(Homes(p_cwd, u))
                                          + (IF old = u THEN 1 ELSE 0)
      BY <2>1, <1>10
    <2>3. OpenOn(file', u) = OpenOn(file, u) /\ kept' = kept
      BY <1>1, <1>12
    <2> QED
      BY <2>1, <2>2, <2>3, <1>11 DEF VnodeCount
  <1>14. \A q \in Proc : p_cwd'[q] = None => p_files'[q] = NoFiles
    <2>1. \A q \in Proc : /\ p_cwd'[q] = IF q = c THEN old ELSE p_cwd[q]
                          /\ q # c => p_files'[q] = p_files[q]
      BY <1>1, <1>2 DEF FilesTypes
    <2> QED
      BY <2>1, <1>1, <1>2 DEF CountsOK
  <1>15. vref' \in [Ino -> Int] /\ kept' \in [Ino -> Nat]
    BY <1>1, <1>2 DEF CountsOK
  <1>16. \A u \in Ino : vref'[u] > 0 => inode'[u] # None
    <2>1. \A u \in Ino : inode'[u] = inode[u]
      BY <1>1
    <2> QED
      BY <2>1, <1>2, <1>11
  <1>17. CountsOK'
    BY <1>7, <1>8, <1>9, <1>13, <1>14, <1>15 DEF CountsOK
  <1> QED
    BY <1>1, <1>2, <1>16, <1>17, CountedIs DEF InodesTyped

(* The first process has opened nothing. *)
LEMMA FilesInitCounted == FilesInit => FilesCounted
  <1> SUFFICES ASSUME FilesInit PROVE FilesCounted
    OBVIOUS
  <1>1. PICK p \in Proc : p_cwd = [q \in Proc |-> IF q = p THEN Root ELSE None]
    BY DEF FilesInit
  <1> DEFINE new == New(TRUE, Root)
  <1>2. Root \in Ino /\ 0 \in Ino /\ None \notin Ino /\ None \notin FileId
    BY FilesAssumption DEF Root
  <1>3. new \in Inodes(Int) /\ new # None
    <2>1. new \in Inodes(Int)
      BY <1>2 DEF New, Inodes
    <2> QED
      BY <2>1, FilesAssumption
  <1> HIDE DEF new
  <1>4. /\ inode = [v \in Ino |-> IF v = Root THEN new ELSE None]
        /\ vref = [v \in Ino |-> IF v = Root THEN 2 ELSE 0]
        /\ file = [f \in FileId |-> NoFile]
        /\ p_files = [q \in Proc |-> NoFiles]
        /\ kept = [v \in Ino |-> 0] /\ fault = "none"
    BY DEF FilesInit, new
  <1>5. InodesTyped /\ \A v \in Ino : vref[v] > 0 => inode[v] # None
    BY <1>2, <1>3, <1>4 DEF InodesTyped
  <1>6. FilesTypes(file, p_files, p_cwd)
    BY <1>1, <1>2, <1>4 DEF FilesTypes, NoFile, NoFiles
  <1>7. FileCounts(file, p_files)
    <2>1. \A f \in FileId : Holds(p_files, f) = {} /\ file[f].refs = 0
      BY <1>2, <1>4 DEF Holds, NoFiles, NoFile
    <2> QED
      BY <2>1, FS_EmptySet DEF FileCounts
  <1>8. ASSUME NEW v \in Ino PROVE vref[v] = VnodeCount(file, p_cwd, kept, v)
    <2>1. OpenOn(file, v) = {} /\ Homes(p_cwd, v) = IF v = Root THEN {p} ELSE {}
      BY <1>1, <1>2, <1>4 DEF OpenOn, NoFile, Homes
    <2>2. Cardinality(OpenOn(file, v)) = 0
          /\ Cardinality(Homes(p_cwd, v)) = IF v = Root THEN 1 ELSE 0
      BY <2>1, FS_EmptySet, FS_Singleton
    <2> QED
      BY <2>2, <1>4 DEF VnodeCount
  <1>9. CountsOK
    BY <1>1, <1>4, <1>6, <1>7, <1>8 DEF CountsOK, NoFile
  <1> QED
    BY <1>4, <1>5, <1>9, CountedIs DEF Faults

(* Every step keeps the counts. *)
LEMMA FilesNextKeeps == FilesCounted /\ [FilesNext]_fileVars => FilesCounted'
  <1> SUFFICES ASSUME FilesCounted, [FilesNext]_fileVars PROVE FilesCounted'
    OBVIOUS
  <1>1. CASE UNCHANGED fileVars
    BY <1>1, CountedIs
    DEF fileVars, InodesTyped, CountsOK, FileCounts, VnodeCount, FilesTypes
  <1>2. ASSUME NEW p \in Proc, NEW path \in Path, NEW creat \in BOOLEAN, do_open(p, path, creat)
        PROVE  FilesCounted'
    BY <1>2, OpenKeeps
  <1>3. ASSUME NEW p \in Proc, NEW path \in Path, NEW isDir \in BOOLEAN, do_mkdir(p, path, isDir)
        PROVE  FilesCounted'
    BY <1>3, MkdirKeeps
  <1>4. ASSUME NEW p \in Proc, NEW path \in Path,
               do_rmdir(p, path) \/ do_unlink(p, path) \/ do_chdir(p, path)
        PROVE  FilesCounted'
    BY <1>4, RmdirKeeps, UnlinkKeeps, ChdirKeeps
  <1>5. ASSUME NEW p \in Proc, NEW path \in Path, NEW to \in Path, do_link(p, path, to)
        PROVE  FilesCounted'
    BY <1>5, LinkKeeps
  <1>6. ASSUME NEW p \in Proc, NEW fd \in FD, do_close(p, fd) \/ do_dup(p, fd)
        PROVE  FilesCounted'
    BY <1>6, CloseKeeps, DupKeeps
  <1>7. ASSUME NEW p \in Proc, NEW ofd \in FD, NEW nfd \in FD, do_dup2(p, ofd, nfd)
        PROVE  FilesCounted'
    BY <1>7, Dup2Keeps
  <1>8. ASSUME NEW p \in Proc, NEW c \in Proc, do_fork(p, c) PROVE FilesCounted'
    BY <1>8, ForkKeeps
  <1>9. ASSUME NEW p \in Proc, Exit(p) PROVE FilesCounted'
    BY <1>9, ExitKeeps
  <1> QED
    BY <1>1, <1>2, <1>3, <1>4, <1>5, <1>6, <1>7, <1>8, <1>9 DEF FilesNext

(* The counts hold whatever the paths are. *)
THEOREM FilesAreCounted == FilesSpec => []FilesCounted
  BY FilesInitCounted, FilesNextKeeps, PTL DEF FilesSpec

(* f_refcount is the number of descriptors that name the file_t, and       *)
(* vn_refcount the number of its open files and working directories, with  *)
(* one of the root for the mount and those that do_link has lost.          *)
THEOREM FileCountsAreExact == FilesSpec => []FileRefsExact
  <1>1. FilesCounted => FileRefsExact
    BY DEF FilesCounted, FileRefsExact, FileCounts, VnodeCount, Holds, OpenOn, Homes
  <1> QED
    BY <1>1, FilesAreCounted, PTL

-----------------------------------------------------------------------------
(* The entries that name inodes.                                           *)

(* An entry n for v is made at the free place s of d, for an inode that    *)
(* was there or a new one.                                                 *)
LinkAdded(W, d, s, n, v) ==
  /\ \A u \in Ino : W[u] # None <=> u = v \/ inode[u] # None
  /\ \A u \in Ino : inode[u] # None =>
       /\ W[u].dir = inode[u].dir /\ W[u].up = inode[u].up
       /\ W[u].nlink = inode[u].nlink + (IF u = v THEN 1 ELSE 0)
       /\ \A i \in Dirent :
            W[u].slot[i] = IF u = d /\ i = s THEN [name |-> n, ino |-> v]
                           ELSE inode[u].slot[i]
  /\ inode[v] = None => /\ W[v].up = d /\ W[v].nlink = 1
                        /\ \A i \in Dirent : W[v].slot[i].name = None

(* Such an entry keeps the links: v has one more and is named once more. *)
LEMMA EntryLinks ==
  ASSUME Linked(inode), InodesTyped, NEW W,
         NEW d \in Ino, inode[d] # None, inode[d].dir,
         NEW s \in Dirent, inode[d].slot[s].name = None,
         NEW n, n # None, NEW v \in Ino, LinkAdded(W, d, s, n, v)
  PROVE  Linked(W)
  <1>1. /\ \A u \in Ino : W[u] # None <=> u = v \/ inode[u] # None
        /\ \A u \in Ino : inode[u] # None =>
             /\ W[u].dir = inode[u].dir /\ W[u].up = inode[u].up
             /\ W[u].nlink = inode[u].nlink + (IF u = v THEN 1 ELSE 0)
             /\ \A i \in Dirent :
                  W[u].slot[i] = IF u = d /\ i = s THEN [name |-> n, ino |-> v]
                                 ELSE inode[u].slot[i]
        /\ inode[v] = None => /\ W[v].up = d /\ W[v].nlink = 1
                              /\ \A i \in Dirent : W[v].slot[i].name = None
    BY DEF LinkAdded
  <1> DEFINE x == <<d, s>>
  <1>2. \A u \in Ino : NamedBy(W, u) = IF u = v THEN NamedBy(inode, u) \cup {x}
                                       ELSE NamedBy(inode, u)
    <2>1. \A a \in Ino, i \in Dirent :
            W[a] # None /\ W[a].slot[i].name # None
            <=> inode[a] # None /\ (<<a, i>> = x \/ inode[a].slot[i].name # None)
      <3> SUFFICES ASSUME NEW a \in Ino, NEW i \in Dirent
                   PROVE  W[a] # None /\ W[a].slot[i].name # None
                          <=> inode[a] # None /\ (<<a, i>> = x \/ inode[a].slot[i].name # None)
        OBVIOUS
      <3>1. CASE inode[a] = None
        BY <3>1, <1>1
      <3>2. CASE inode[a] # None
        BY <3>2, <1>1
      <3> QED
        BY <3>1, <3>2
    <2>2. \A a \in Ino, i \in Dirent : inode[a] # None =>
            W[a].slot[i].ino = IF <<a, i>> = x THEN v ELSE inode[a].slot[i].ino
      BY <1>1
    <2>3. x \in Ino \X Dirent /\ \A u : x \notin NamedBy(inode, u)
      BY DEF NamedBy
    <2>4. \A u \in Ino, a \in Ino, i \in Dirent :
            <<a, i>> \in NamedBy(W, u) <=> \/ <<a, i>> \in NamedBy(inode, u)
                                           \/ u = v /\ <<a, i>> = x
      BY <2>1, <2>2 DEF NamedBy
    <2>5. \A u : NamedBy(W, u) \subseteq Ino \X Dirent /\ NamedBy(inode, u) \subseteq Ino \X Dirent
      BY DEF NamedBy
    <2> HIDE DEF x
    <2>6. ASSUME NEW u \in Ino
          PROVE  NamedBy(W, u) = IF u = v THEN NamedBy(inode, u) \cup {x}
                                 ELSE NamedBy(inode, u)
      <3> DEFINE new == NamedBy(W, u)
                 was == NamedBy(inode, u)
      <3>1. ASSUME NEW y \in Ino \X Dirent
            PROVE  y \in new <=> (y \in was \/ (u = v /\ y = x))
        <4>1. PICK a \in Ino, i \in Dirent : y = <<a, i>>
          OBVIOUS
        <4> QED
          BY <4>1, <2>4
      <3>2. new \subseteq Ino \X Dirent /\ was \subseteq Ino \X Dirent
        BY <2>5
      <3>3. x \in Ino \X Dirent
        BY <2>3
      <3> HIDE DEF new, was
      <3>4. CASE u = v
        <4>1. new = was \cup {x}
          BY <3>1, <3>2, <3>3, <3>4
        <4> QED
          BY <4>1, <3>4 DEF new, was
      <3>5. CASE u # v
        <4>1. new = was
          BY <3>1, <3>2, <3>5
        <4> QED
          BY <4>1, <3>5 DEF new, was
      <3> QED
        BY <3>4, <3>5
    <2> QED
      BY <2>6
  <1>3. \A u \in Ino : /\ Cardinality(NamedBy(inode, u)) \in Nat
                       /\ Cardinality(NamedBy(W, u)) =
                            Cardinality(NamedBy(inode, u)) + (IF u = v THEN 1 ELSE 0)
    <2>1. \A u : x \notin NamedBy(inode, u)
      BY DEF NamedBy
    <2> HIDE DEF x
    <2> QED
      BY <1>2, <2>1, FilesFinite, FS_AddElement
  <1>4. ASSUME NEW u \in Ino, W[u] # None
        PROVE  W[u].nlink >= Cardinality(NamedBy(W, u))
    <2>1. CASE inode[u] # None
      <3>1. inode[u].nlink \in Int /\ inode[u].nlink >= Cardinality(NamedBy(inode, u))
        BY <2>1, InodeParts DEF Linked
      <3>2. W[u].nlink = inode[u].nlink + (IF u = v THEN 1 ELSE 0)
        BY <2>1, <1>1
      <3> QED
        BY <3>1, <3>2, <1>3
    <2>2. CASE inode[u] = None
      <3>1. u = v /\ NamedBy(inode, u) = {}
        BY <2>2, <1>4, <1>1 DEF Linked
      <3>2. Cardinality(NamedBy(inode, u)) = 0
        BY <3>1, FS_EmptySet
      <3>3. Cardinality(NamedBy(W, u)) = Cardinality(NamedBy(inode, u)) + 1
        BY <3>1, <1>3
      <3>4. W[u].nlink = 1
        BY <3>1, <2>2, <1>1
      <3> QED
        BY <3>2, <3>3, <3>4
    <2> QED
      BY <2>1, <2>2
  <1>5. \A u \in Ino : NamedBy(W, u) # {} => W[u] # None
    BY <1>1, <1>2 DEF Linked
  <1>6. ASSUME NEW u \in Ino, W[u] # None, W[u].up # None
        PROVE  W[W[u].up] # None /\ W[W[u].up].dir
    <2>1. CASE inode[u] # None
      <3>1. /\ W[u].up = inode[u].up /\ inode[u].up \in Ino
            /\ inode[inode[u].up] # None /\ inode[inode[u].up].dir
        BY <2>1, <1>1, <1>6, InodeParts DEF Linked
      <3> QED
        BY <3>1, <1>1
    <2>2. CASE inode[u] = None
      <3>1. u = v /\ W[u].up = d
        BY <2>2, <1>1, <1>6
      <3> QED
        BY <3>1, <1>1
    <2> QED
      BY <2>1, <2>2
  <1> QED
    BY <1>4, <1>5, <1>6 DEF Linked

(* An entry n of d that names v goes. *)
LEMMA UnlinkLinks ==
  ASSUME Linked(inode), InodesTyped, NEW d \in Ino, inode[d] # None,
         NEW v \in Ino, inode[v] # None, NEW n, n # None, v \in Entry(d, n)
  PROVE  Linked(WithoutEntry(d, n, v))
  <1> DEFINE W == WithoutEntry(d, n, v)
  <1>1. /\ W \in [Ino -> Inodes(Int) \cup {None}]
        /\ \A u \in Ino : W[u] # None <=> inode[u] # None
        /\ \A u \in Ino : inode[u] # None =>
              /\ W[u].dir = inode[u].dir /\ W[u].up = inode[u].up
              /\ W[u].nlink = inode[u].nlink - (IF u = v THEN 1 ELSE 0)
              /\ \A i \in Dirent :
                   /\ W[u].slot[i].ino = inode[u].slot[i].ino
                   /\ W[u].slot[i].name = IF u = d /\ inode[d].slot[i].name = n THEN None
                                          ELSE inode[u].slot[i].name
    <2>1. EntryRemoved(W, d, n, v)
      BY WithoutEntryOK
    <2> HIDE DEF W
    <2> QED
      BY <2>1 DEF EntryRemoved, InodeTable
  <1> HIDE DEF W
  <1>2. PICK s \in Dirent : inode[d].slot[s].name = n /\ inode[d].slot[s].ino = v
    BY DEF Entry, SlotOf
  <1> DEFINE x == <<d, s>>
  <1>3. \A u \in Ino : NamedBy(W, u) \subseteq NamedBy(inode, u)
    <2> SUFFICES ASSUME NEW u \in Ino, NEW a \in Ino, NEW i \in Dirent,
                        <<a, i>> \in NamedBy(W, u)
                 PROVE  <<a, i>> \in NamedBy(inode, u)
      BY DEF NamedBy
    <2>1. W[a] # None /\ W[a].slot[i].name # None /\ W[a].slot[i].ino = u
      BY DEF NamedBy
    <2>2. inode[a] # None /\ inode[a].slot[i].name # None /\ inode[a].slot[i].ino = u
      BY <2>1, <1>1
    <2> QED
      BY <2>2 DEF NamedBy
  <1>4. x \in NamedBy(inode, v) /\ x \notin NamedBy(W, v)
    BY <1>1, <1>2 DEF NamedBy
  <1> HIDE DEF x
  <1>5. \A u \in Ino : /\ Cardinality(NamedBy(inode, u)) \in Nat
                       /\ Cardinality(NamedBy(W, u)) \in Nat
                       /\ Cardinality(NamedBy(W, u)) <=
                            Cardinality(NamedBy(inode, u)) - (IF u = v THEN 1 ELSE 0)
    <2>1. \A u \in Ino : /\ Cardinality(NamedBy(inode, u)) \in Nat
                         /\ Cardinality(NamedBy(W, u)) \in Nat
                         /\ Cardinality(NamedBy(W, u)) <= Cardinality(NamedBy(inode, u))
      BY <1>3, FilesFinite, FS_Subset
    <2>2. Cardinality(NamedBy(W, v)) # Cardinality(NamedBy(inode, v))
      BY <1>3, <1>4, FilesFinite, FS_Subset
    <2> QED
      BY <2>1, <2>2
  <1>6. ASSUME NEW u \in Ino, W[u] # None
        PROVE  W[u].nlink >= Cardinality(NamedBy(W, u))
    <2>1. inode[u] # None /\ W[u].nlink = inode[u].nlink - (IF u = v THEN 1 ELSE 0)
      BY <1>1, <1>6
    <2>2. inode[u].nlink \in Int /\ inode[u].nlink >= Cardinality(NamedBy(inode, u))
      BY <2>1, InodeParts DEF Linked
    <2> QED
      BY <2>1, <2>2, <1>5
  <1>7. \A u \in Ino : NamedBy(W, u) # {} => W[u] # None
    BY <1>1, <1>3 DEF Linked
  <1>8. ASSUME NEW u \in Ino, W[u] # None, W[u].up # None
        PROVE  W[W[u].up] # None /\ W[W[u].up].dir
    <2>1. /\ W[u].up = inode[u].up /\ inode[u].up \in Ino
          /\ inode[inode[u].up] # None /\ inode[inode[u].up].dir
      BY <1>1, <1>8, InodeParts DEF Linked
    <2> QED
      BY <2>1, <1>1
  <1> QED
    BY <1>6, <1>7, <1>8 DEF Linked, W

(* What vput frees is named by no entry; ".." into it is missed. *)
LEMMA VPutLinks ==
  ASSUME NEW nodes \in [Ino -> Inodes(Int) \cup {None}], Linked(nodes),
         NEW refs, NEW v \in Ino, VPut(nodes, refs, v)
  PROVE  Linked(inode')
  <1>1. CASE inode' = nodes
    BY <1>1
  <1>2. CASE nodes[v].nlink = 0 /\ inode' = Freed(nodes, v)
    <2> DEFINE W == Freed(nodes, v)
    <2>1. \A u \in Ino : nodes[u] # None =>
            nodes[u] \in Inodes(Int) /\ nodes[u].up \in Ino \cup {None}
      BY DEF Inodes
    <2>2. \A u \in Ino : W[u] # None <=> u # v /\ nodes[u] # None
      <3>1. \A u \in Ino : nodes[u] # None =>
              [nodes[u] EXCEPT !.up = IF @ = v THEN None ELSE @] \in Inodes(Int)
        BY DEF Inodes
      <3> QED
        BY <3>1, FilesAssumption DEF Freed
    <2>3. \A u \in Ino : u # v /\ nodes[u] # None =>
            /\ W[u].dir = nodes[u].dir /\ W[u].nlink = nodes[u].nlink
            /\ W[u].slot = nodes[u].slot
            /\ W[u].up = IF nodes[u].up = v THEN None ELSE nodes[u].up
      BY DEF Freed, Inodes
    <2> HIDE DEF W
    <2>4. NamedBy(nodes, v) = {}
      <3>1. CASE nodes[v] = None
        BY <3>1 DEF Linked
      <3>2. CASE nodes[v] # None
        <4>1. ~(0 >= Cardinality(NamedBy(nodes, v))) \/ Cardinality(NamedBy(nodes, v)) = 0
          BY FilesFinite
        <4> QED
          BY <4>1, <3>2, <1>2, FilesFinite, FS_EmptySet DEF Linked
      <3> QED
        BY <3>1, <3>2
    <2>5. \A u \in Ino : NamedBy(W, u) \subseteq NamedBy(nodes, u)
      BY <2>2, <2>3 DEF NamedBy
    <2>6. ASSUME NEW u \in Ino, W[u] # None
          PROVE  W[u].nlink >= Cardinality(NamedBy(W, u))
      <3>1. /\ W[u].nlink = nodes[u].nlink
            /\ nodes[u].nlink \in Int /\ nodes[u].nlink >= Cardinality(NamedBy(nodes, u))
        BY <2>1, <2>2, <2>3, <2>6 DEF Linked, Inodes
      <3>2. /\ Cardinality(NamedBy(W, u)) \in Nat /\ Cardinality(NamedBy(nodes, u)) \in Nat
            /\ Cardinality(NamedBy(W, u)) <= Cardinality(NamedBy(nodes, u))
        BY <2>5, FilesFinite, FS_Subset
      <3> QED
        BY <3>1, <3>2
    <2>7. \A u \in Ino : NamedBy(W, u) # {} => W[u] # None
      BY <2>2, <2>4, <2>5 DEF Linked
    <2>8. ASSUME NEW u \in Ino, W[u] # None, W[u].up # None
          PROVE  W[W[u].up] # None /\ W[W[u].up].dir
      <3>1. u # v /\ nodes[u] # None /\ nodes[u].up # v /\ W[u].up = nodes[u].up
            /\ nodes[u].up \in Ino
        BY <2>1, <2>2, <2>3, <2>8
      <3>2. nodes[nodes[u].up] # None /\ nodes[nodes[u].up].dir
        BY <3>1, <2>8 DEF Linked
      <3> QED
        BY <3>1, <3>2, <2>2, <2>3
    <2> QED
      BY <2>6, <2>7, <2>8, <1>2 DEF Linked, W
  <1> QED
    BY <1>1, <1>2 DEF VPut

(* do_rmdir of a path that ends in a slash unlinks what the directory's    *)
(* first free entry held last, whoever names it now.                       *)
NoPathEndsInSlash == \A path \in Path : Last(path) # ""

(* What the calls find when the counts and the links are right.            *)
LEMMA FoundIs ==
  ASSUME FilesInv, NEW p \in Proc, p_cwd[p] # None, NEW path \in Path,
         NEW r, r = Namev(p, path)
  PROVE  /\ r.dir \in Ino /\ inode[r.dir] # None
         /\ r.res \in {"found", "absent"} => inode[r.dir].dir
         /\ r.res = "found" =>
              /\ r.vno \in Ino /\ inode[r.vno] # None
              /\ Last(path) = "" => r.vno = r.dir
              /\ Last(path) = ".." => inode[r.vno].dir
              /\ Last(path) # "" /\ Last(path) # ".." => r.vno \in Entry(r.dir, Last(path))
         /\ r.res = "absent" => Last(path) \in Names
         /\ Last(path) # None
  <1>1. FilesCounted /\ Linked(inode)
    BY DEF FilesInv
  <1>2. /\ r.dir \in Ino /\ inode[r.dir] # None
        /\ r.res \in {"found", "absent"} => inode[r.dir].dir
        /\ r.res = "found" => /\ r.vno \in Ino /\ inode[r.vno] # None
                              /\ r.vno \in lookup(r.dir, Last(path))
        /\ r.res = "absent" => Last(path) \in Names
    BY <1>1, HeldIsThere, NamevOK
  <1>3. ASSUME r.res = "found", Last(path) = ".." PROVE inode[r.vno].dir
    <2>1. r.vno = inode[r.dir].up /\ inode[r.dir].up # None
      BY <1>2, <1>3, FilesAssumption DEF lookup
    <2> QED
      BY <2>1, <1>1, <1>2 DEF Linked
  <1>4. Last(path) # None
    <2>1. Len(path) \in Nat /\ Len(path) # 0 /\ DOMAIN path = 1 .. Len(path)
      BY FilesAssumption, LenProperties, EmptySeq
    <2>2. Len(path) \in DOMAIN path /\ Last(path) = path[Len(path)]
      BY <2>1 DEF Last
    <2> QED
      BY <2>2, FilesAssumption
  <1>5. r.res = "found" => /\ Last(path) = "" => r.vno = r.dir
                           /\ Last(path) # "" /\ Last(path) # ".." =>
                                r.vno \in Entry(r.dir, Last(path))
    BY <1>2 DEF lookup
  <1> QED
    BY <1>2, <1>3, <1>4, <1>5

(* A new inode with its entry. *)
LEMMA NewEntryLinks ==
  ASSUME FilesInv, NEW d \in Ino, inode[d] # None, inode[d].dir, HasRoom(d),
         NEW n \in Names, NEW isDir \in BOOLEAN
  PROVE  Linked(NewEntry(d, n, isDir))
  <1> DEFINE v == Lowest(FreeInos)
             W == NewEntry(d, n, isDir)
  <1>1. Linked(inode) /\ InodesTyped
    BY CountedIs DEF FilesInv
  <1>2. InodeAdded(W, d, n, isDir, v)
    BY <1>1, NewEntryOK
  <1> HIDE DEF v, W
  <1>3. /\ v \in Ino /\ inode[v] = None
        /\ W \in [Ino -> Inodes(Int) \cup {None}]
        /\ \A u \in Ino : W[u] # None <=> u = v \/ inode[u] # None
        /\ W[v].dir = isDir /\ W[v].up = d /\ W[v].nlink = 1
        /\ \A i \in Dirent : W[v].slot[i].name = None
        /\ \A u \in Ino : inode[u] # None =>
             W[u].dir = inode[u].dir /\ W[u].up = inode[u].up /\ W[u].nlink = inode[u].nlink
    BY <1>2 DEF InodeAdded, InodeTable
  <1>4. PICK s \in Dirent :
          /\ inode[d].slot[s].name = None
          /\ \A u \in Ino, i \in Dirent : inode[u] # None =>
               W[u].slot[i] = IF u = d /\ i = s THEN [name |-> n, ino |-> v]
                              ELSE inode[u].slot[i]
    BY <1>2 DEF InodeAdded
  <1>5. n # None
    <2>1. PICK path \in Path : n \in Range(path)
      BY DEF Names
    <2>2. PICK i \in DOMAIN path : path[i] = n
      BY <2>1 DEF Range
    <2> QED
      BY <2>2, FilesAssumption
  <1>6. \A u \in Ino : inode[u] # None => W[u].nlink = inode[u].nlink + (IF u = v THEN 1 ELSE 0)
    <2>1. \A u \in Ino : inode[u] # None => inode[u].nlink \in Int /\ u # v
      BY <1>1, <1>3, InodeParts
    <2> QED
      BY <2>1, <1>3
  <1>7. LinkAdded(W, d, s, n, v)
    BY <1>3, <1>4, <1>6 DEF LinkAdded
  <1>8. Linked(W)
    BY <1>1, <1>3, <1>4, <1>5, <1>7, EntryLinks
  <1> QED
    BY <1>8 DEF W

(* do_link: the link count and the entry. *)
LEMMA LinkLinks ==
  ASSUME FilesInv, NEW d \in Ino, inode[d] # None, inode[d].dir, FreeSlots(d) # {},
         NEW n \in Names, NEW v \in Ino, inode[v] # None,
         NEW W, W = WithEntry(d, n, v, [inode EXCEPT ![v].nlink = @ + 1])
  PROVE  Linked(W)
  <1> DEFINE q == [inode[v] EXCEPT !.nlink = @ + 1]
             nodes == [inode EXCEPT ![v] = q]
  <1>1. Linked(inode) /\ InodesTyped
    BY CountedIs DEF FilesInv
  <1>2. /\ q \in Inodes(Int) /\ q # None /\ q.nlink = inode[v].nlink + 1
        /\ q.dir = inode[v].dir /\ q.up = inode[v].up /\ q.slot = inode[v].slot
    <2>1. inode[v] \in Inodes(Int)
      BY <1>1, InodeParts
    <2>2. q \in Inodes(Int)
      BY <2>1 DEF Inodes
    <2> QED
      BY <2>1, <2>2, FilesAssumption DEF Inodes
  <1>3. W = WithEntry(d, n, v, nodes)
    OBVIOUS
  <1> HIDE DEF q
  <1>4. /\ nodes \in [Ino -> Inodes(Int) \cup {None}]
        /\ \A u \in Ino : nodes[u] = IF u = v THEN q ELSE inode[u]
        /\ \A u \in Ino : inode[u] # None <=> nodes[u] # None
    BY <1>1, <1>2 DEF InodesTyped
  <1> HIDE DEF nodes
  <1>5. \A u \in Ino : inode[u] # None =>
          /\ nodes[u].dir = inode[u].dir /\ nodes[u].up = inode[u].up
          /\ nodes[u].slot = inode[u].slot
          /\ nodes[u].nlink = inode[u].nlink + (IF u = v THEN 1 ELSE 0)
    <2>1. \A u \in Ino : inode[u] # None => inode[u].nlink \in Int
      BY <1>1, InodeParts
    <2> QED
      BY <2>1, <1>2, <1>4
  <1>6. EntryAdded(nodes, W, d, n, v)
    BY <1>1, <1>3, <1>4, WithEntryOK DEF InodeTable
  <1>7. /\ W \in [Ino -> Inodes(Int) \cup {None}]
        /\ \A u \in Ino : W[u] # None <=> nodes[u] # None
        /\ \A u \in Ino : nodes[u] # None =>
             W[u].dir = nodes[u].dir /\ W[u].up = nodes[u].up /\ W[u].nlink = nodes[u].nlink
    BY <1>6 DEF EntryAdded, InodeTable
  <1>8. PICK s \in Dirent :
          /\ inode[d].slot[s].name = None
          /\ \A u \in Ino, i \in Dirent : nodes[u] # None =>
               W[u].slot[i] = IF u = d /\ i = s THEN [name |-> n, ino |-> v]
                              ELSE nodes[u].slot[i]
    BY <1>6 DEF EntryAdded
  <1>9. \A u \in Ino, i \in Dirent : inode[u] # None =>
          W[u].slot[i] = IF u = d /\ i = s THEN [name |-> n, ino |-> v] ELSE inode[u].slot[i]
    <2> SUFFICES ASSUME NEW u \in Ino, NEW i \in Dirent, inode[u] # None
                 PROVE  W[u].slot[i] = IF u = d /\ i = s THEN [name |-> n, ino |-> v]
                                       ELSE inode[u].slot[i]
      OBVIOUS
    <2>1. nodes[u] # None /\ nodes[u].slot = inode[u].slot
      BY <1>4, <1>5
    <2>2. W[u].slot[i] = IF u = d /\ i = s THEN [name |-> n, ino |-> v] ELSE nodes[u].slot[i]
      BY <2>1, <1>8
    <2> QED
      BY <2>1, <2>2
  <1>10. n # None
    <2>1. PICK path \in Path : n \in Range(path)
      BY DEF Names
    <2>2. PICK i \in DOMAIN path : path[i] = n
      BY <2>1 DEF Range
    <2> QED
      BY <2>2, FilesAssumption
  <1>11. /\ \A u \in Ino : W[u] # None <=> u = v \/ inode[u] # None
         /\ \A u \in Ino : inode[u] # None =>
              /\ W[u].dir = inode[u].dir /\ W[u].up = inode[u].up
              /\ W[u].nlink = inode[u].nlink + (IF u = v THEN 1 ELSE 0)
    BY ZenonT(40), <1>4, <1>5, <1>7
  <1>12. LinkAdded(W, d, s, n, v)
    BY <1>9, <1>11 DEF LinkAdded
  <1> QED
    BY <1>1, <1>8, <1>10, <1>12, EntryLinks

(* ramfs_rmdir and ramfs_unlink. *)
LEMMA RemoveLinks ==
  ASSUME FilesInv, NEW d \in Ino, inode[d] # None, NEW v \in Ino, inode[v] # None,
         NEW n, n # None, v \in Entry(d, n), NEW refs,
         VPut(WithoutEntry(d, n, v), refs, v)
  PROVE  Linked(inode')
  <1>1. Linked(inode) /\ InodesTyped
    BY CountedIs DEF FilesInv
  <1> DEFINE W == WithoutEntry(d, n, v)
  <1>2. W \in [Ino -> Inodes(Int) \cup {None}] /\ Linked(W)
    <2>1. EntryRemoved(W, d, n, v) /\ Linked(W)
      BY <1>1, WithoutEntryOK, UnlinkLinks
    <2> HIDE DEF W
    <2> QED
      BY <2>1 DEF EntryRemoved, InodeTable
  <1>3. VPut(W, refs, v)
    OBVIOUS
  <1> HIDE DEF W
  <1> QED
    BY <1>2, <1>3, VPutLinks

(* The calls that change entries or drop a reference of their path. *)
LEMMA PathCallsLink ==
  ASSUME FilesInv, NoPathEndsInSlash, NEW p \in Proc, NEW path \in Path,
         \/ \E creat \in BOOLEAN : do_open(p, path, creat)
         \/ \E isDir \in BOOLEAN : do_mkdir(p, path, isDir)
         \/ do_rmdir(p, path) \/ do_unlink(p, path) \/ do_chdir(p, path)
         \/ \E to \in Path : do_link(p, path, to)
  PROVE  Linked(inode')
  <1>1. Linked(inode) /\ InodesTyped /\ FilesCounted
    BY CountedIs DEF FilesInv
  <1>2. p_cwd[p] # None /\ p_cwd[p] \in Ino
    <2>1. p_cwd[p] # None
      BY DEF do_open, do_mkdir, do_rmdir, do_unlink, do_chdir, do_link, Runs
    <2> QED
      BY <2>1, <1>1, HeldIsThere
  <1> DEFINE r == Namev(p, path)
             n == Last(path)
  <1>3. /\ r.dir \in Ino /\ inode[r.dir] # None
        /\ r.res \in {"found", "absent"} => inode[r.dir].dir
        /\ r.res = "found" =>
             /\ r.vno \in Ino /\ inode[r.vno] # None
             /\ n = ".." => inode[r.vno].dir
             /\ n # ".." => r.vno \in Entry(r.dir, n)
        /\ r.res = "absent" => n \in Names
        /\ n # None /\ n # ""
    BY <1>2, FoundIs DEF NoPathEndsInSlash
  <1>4. \A what : Stop(what) => inode' = inode
    BY DEF Stop
  <1>5. ASSUME NEW creat \in BOOLEAN, do_open(p, path, creat) PROVE Linked(inode')
    <2>1. \/ inode' = inode
          \/ /\ r.res = "absent" /\ HasRoom(r.dir)
             /\ inode' = NewEntry(r.dir, n, FALSE)
      BY <1>4, <1>5 DEF do_open
    <2> HIDE DEF r, n
    <2> QED
      BY <2>1, <1>1, <1>3, NewEntryLinks
  <1>6. ASSUME NEW isDir \in BOOLEAN, do_mkdir(p, path, isDir) PROVE Linked(inode')
    <2>1. \/ inode' = inode
          \/ /\ r.res = "absent" /\ HasRoom(r.dir)
             /\ inode' = NewEntry(r.dir, n, isDir)
      BY <1>4, <1>6 DEF do_mkdir
    <2> HIDE DEF r, n
    <2> QED
      BY <2>1, <1>1, <1>3, NewEntryLinks
  <1>7. ASSUME do_rmdir(p, path) PROVE Linked(inode')
    <2>1. \/ inode' = inode
          \/ /\ r.res = "found" /\ n # ".."
             /\ VPut(WithoutEntry(r.dir, n, r.vno), [vref EXCEPT ![r.vno] = @ + 1], r.vno)
      BY <1>3, <1>4, <1>7 DEF do_rmdir
    <2> HIDE DEF r, n
    <2> QED
      BY <2>1, <1>1, <1>3, RemoveLinks
  <1>8. ASSUME do_unlink(p, path) PROVE Linked(inode')
    <2>1. \/ inode' = inode
          \/ /\ r.res = "found" /\ ~inode[r.vno].dir
             /\ VPut(WithoutEntry(r.dir, n, r.vno), [vref EXCEPT ![r.vno] = @ + 1], r.vno)
      BY <1>4, <1>8 DEF do_unlink, GoOnAnyway, IsDir
    <2> HIDE DEF r, n
    <2> QED
      BY <2>1, <1>1, <1>3, RemoveLinks
  <1>9. ASSUME do_chdir(p, path) PROVE Linked(inode')
    <2>1. \/ inode' = inode
          \/ VPut(inode, [vref EXCEPT ![r.vno] = @ + 1], p_cwd[p])
      BY <1>4, <1>9 DEF do_chdir
    <2> HIDE DEF r, n
    <2> QED
      BY <2>1, <1>1, <1>2, VPutLinks DEF InodesTyped
  <1>10. ASSUME NEW to \in Path, do_link(p, path, to) PROVE Linked(inode')
    <2> DEFINE t == Namev(p, to)
    <2>1. \/ inode' = inode
          \/ /\ r.res = "found" /\ t.res = "absent" /\ FreeSlots(t.dir) # {}
             /\ inode' = WithEntry(t.dir, Last(to), r.vno, [inode EXCEPT ![r.vno].nlink = @ + 1])
      BY <1>4, <1>10 DEF do_link
    <2>2. /\ t.dir \in Ino /\ inode[t.dir] # None
          /\ t.res = "absent" => inode[t.dir].dir /\ Last(to) \in Names
      BY <1>2, FoundIs
    <2> HIDE DEF r, n, t
    <2> QED
      BY <2>1, <2>2, <1>1, <1>3, LinkLinks
  <1> QED
    BY <1>5, <1>6, <1>7, <1>8, <1>9, <1>10

(* The others drop references only. *)
LEMMA OtherCallsLink ==
  ASSUME FilesInv, NEW p \in Proc,
         \/ \E fd \in FD : do_close(p, fd) \/ do_dup(p, fd)
         \/ \E ofd, nfd \in FD : do_dup2(p, ofd, nfd)
         \/ \E c \in Proc : do_fork(p, c)
         \/ Exit(p)
  PROVE  Linked(inode')
  <1>1. Linked(inode) /\ inode \in [Ino -> Inodes(Int) \cup {None}] /\ FilesCounted
    BY CountedIs DEF FilesInv, InodesTyped
  <1>2. \A fd \in FD : p_files[p][fd] # None => file[p_files[p][fd]].vno \in Ino
    BY <1>1, HeldIsThere
  <1>3. ASSUME NEW fd \in FD, do_close(p, fd) PROVE Linked(inode')
    <2>1. p_files[p][fd] # None
          /\ (inode' = inode \/ VPut(inode, vref, file[p_files[p][fd]].vno))
      BY <1>3 DEF do_close, fput, fs
    <2> QED
      BY <2>1, <1>1, <1>2, VPutLinks
  <1>4. ASSUME NEW ofd \in FD, NEW nfd \in FD, do_dup2(p, ofd, nfd) PROVE Linked(inode')
    <2>1. \/ inode' = inode
          \/ p_files[p][nfd] # None /\ VPut(inode, vref, file[p_files[p][nfd]].vno)
      BY <1>4 DEF do_dup2, fs
    <2> QED
      BY <2>1, <1>1, <1>2, VPutLinks
  <1>5. ASSUME Exit(p) PROVE Linked(inode')
    <2>1. p_cwd[p] # None /\ VPut(inode, vref, p_cwd[p])
      BY <1>5 DEF Exit, Runs
    <2>2. p_cwd[p] \in Ino
      BY <2>1, <1>1, HeldIsThere
    <2> QED
      BY <2>1, <2>2, <1>1, VPutLinks
  <1>6. ASSUME (\E fd \in FD : do_dup(p, fd)) \/ (\E c \in Proc : do_fork(p, c))
        PROVE  Linked(inode')
    <2>1. inode' = inode
      BY <1>6 DEF do_dup, do_fork, fs
    <2> QED
      BY <2>1, <1>1
  <1> QED
    BY <1>3, <1>4, <1>5, <1>6

(* Nothing is named at first. *)
LEMMA FilesInitLinked == FilesInit => Linked(inode)
  <1> SUFFICES ASSUME FilesInit PROVE Linked(inode)
    OBVIOUS
  <1> DEFINE new == New(TRUE, Root)
  <1>1. /\ new.nlink = 1 /\ new.up = Root /\ new.dir
        /\ \A i \in Dirent : new.slot[i].name = None
    BY DEF New
  <1>2. new # None /\ Root \in Ino
    <2>1. new \in Inodes(Int)
      BY FilesAssumption DEF New, Inodes, Root
    <2> QED
      BY <2>1, FilesAssumption DEF Root
  <1>3. inode = [v \in Ino |-> IF v = Root THEN new ELSE None]
    BY DEF FilesInit
  <1> HIDE DEF new
  <1>4. \A v : NamedBy(inode, v) = {}
    BY <1>1, <1>3 DEF NamedBy
  <1>5. \A v : Cardinality(NamedBy(inode, v)) = 0
    BY <1>4, FS_EmptySet
  <1> QED
    BY <1>1, <1>2, <1>3, <1>4, <1>5 DEF Linked

(* The invariant of the module, on such paths. *)
LEMMA FilesInvHolds ==
  ASSUME NoPathEndsInSlash
  PROVE  FilesSpec => []FilesInv
  <1>1. FilesInit => FilesInv
    BY FilesInitCounted, FilesInitLinked DEF FilesInv
  <1>2. FilesInv /\ [FilesNext]_fileVars => FilesInv'
    <2> SUFFICES ASSUME FilesInv, [FilesNext]_fileVars PROVE FilesInv'
      OBVIOUS
    <2>1. FilesCounted'
      BY FilesNextKeeps DEF FilesInv
    <2>2. Linked(inode')
      <3>1. CASE UNCHANGED fileVars
        BY <3>1 DEF fileVars, FilesInv
      <3>2. CASE FilesNext
        BY <3>2, PathCallsLink, OtherCallsLink DEF FilesNext
      <3> QED
        BY <3>1, <3>2
    <2>3. Linked(inode)' <=> Linked(inode')
      BY DEF Linked, NamedBy
    <2> QED
      BY <2>1, <2>2, <2>3 DEF FilesInv
  <1> QED
    BY <1>1, <1>2, PTL DEF FilesSpec

(* No inode number is used again under a file, a working directory or an   *)
(* entry that still has it.                                                *)
THEOREM InodesAreKept ==
  ASSUME NoPathEndsInSlash
  PROVE  FilesSpec => []InodesStay
  <1>1. FilesInv => InodesStay
    <2> SUFFICES ASSUME FilesInv PROVE InodesStay
      OBVIOUS
    <2>1. \A v \in Ino : vref[v] > 0 => inode[v] # None
      BY DEF FilesInv, FilesCounted
    <2>2. ASSUME NEW d \in Ino, inode[d] # None, NEW i \in Used(d),
                 NEW v, v = inode[d].slot[i].ino
          PROVE  inode[v] # None /\ inode[v].nlink >= Cardinality(NamedBy(inode, v))
      <3>1. i \in Dirent /\ inode[d].slot[i].name # None
        BY DEF Used
      <3>2. v \in Ino
        BY <3>1, <2>2, InodeParts, CountedIs DEF FilesInv
      <3>3. <<d, i>> \in NamedBy(inode, v)
        BY <3>1, <2>2 DEF NamedBy
      <3> QED
        BY <3>2, <3>3 DEF FilesInv, Linked
    <2> QED
      BY <2>1, <2>2 DEF InodesStay, NamedBy
  <1> QED
    BY <1>1, FilesInvHolds, PTL

(* Types: no reference or link count is ever negative. *)
THEOREM FilesAreTyped ==
  ASSUME NoPathEndsInSlash
  PROVE  FilesSpec => []FilesTypeOK
  <1>1. FilesInv => FilesTypeOK
    <2> SUFFICES ASSUME FilesInv PROVE FilesTypeOK
      OBVIOUS
    <2>1. FilesCounted /\ Linked(inode) /\ InodesTyped
      BY CountedIs DEF FilesInv
    <2>2. inode \in [Ino -> Inodes(Nat) \cup {None}]
      <3>1. ASSUME NEW v \in Ino, inode[v] # None PROVE inode[v] \in Inodes(Nat)
        <4>1. inode[v] \in Inodes(Int) /\ inode[v].nlink >= Cardinality(NamedBy(inode, v))
          BY <3>1, <2>1, InodeParts DEF Linked
        <4>2. Cardinality(NamedBy(inode, v)) \in Nat /\ inode[v].nlink \in Int
          BY <4>1, FilesFinite DEF Inodes
        <4>3. inode[v].nlink \in Nat
          BY <4>1, <4>2
        <4> QED
          BY <4>1, <4>3 DEF Inodes
      <3> QED
        BY <3>1, <2>1 DEF InodesTyped
    <2>3. vref \in [Ino -> Nat]
      BY <2>1, HeldIsThere DEF FilesCounted
    <2>4. file \in [FileId -> [vno : Ino \cup {None}, refs : Nat]]
      <3>1. \A f \in FileId : file[f].refs \in Nat
        BY <2>1, FilesFinite DEF FilesCounted, FileCounts
      <3> QED
        BY <3>1, <2>1 DEF FilesCounted, FilesTypes
    <2> QED
      BY <2>1, <2>2, <2>3, <2>4 DEF FilesTypeOK, FilesCounted, FilesTypes
  <1> QED
    BY <1>1, FilesInvHolds, PTL
=============================================================================
