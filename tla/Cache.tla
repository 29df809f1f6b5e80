------------------------------- MODULE Cache --------------------------------
(***************************************************************************)
(* Vnodes and their cached pages: fs/vnode.c over mm/pframe.c.  The kernel *)
(* runs one thread at a time and does not preempt: a thread gives up the   *)
(* CPU where the file system waits for the disk (read_vnode, delete_vnode, *)
(* fillpage, dirtypage, cleanpage) and where it sleeps for a vnode or a    *)
(* page somebody else is working on.  An action runs from one such point   *)
(* to the next.  Of the scheduler (module Sched) this module keeps that    *)
(* the run queue and the wait queues are first in first out.               *)
(*                                                                         *)
(* One file system.  A vnode slot or a page frame is a piece of slab       *)
(* memory that is used again after it was freed; its name also stands for  *)
(* its wait queue, which is only ever broadcast.  The order of the lists   *)
(* of pages is not modelled.                                               *)
(***************************************************************************)
EXTENDS Naturals, FiniteSets, Sequences, Queues

CONSTANTS
  Thread,   \* kernel threads
  Vno,      \* inode numbers
  PageNo,   \* page numbers within a file
  Slot,     \* vnode_t objects, in use or free
  Frame,    \* pframe_t objects, in use or free
  NULL

ASSUME CacheAssumption ==
  /\ IsFiniteSet(Thread) /\ IsFiniteSet(Frame)
  /\ Slot \cap Frame = {} /\ NULL \notin Thread \cup Slot \cup Frame \cup Vno

VARIABLES
  vnode,   \* the vnode in each slot
  pframe,  \* the page in each frame
  linked,  \* inode numbers with a nonzero link count
  pc,      \* where each thread is
  ref,     \* the vnode each thread's code holds a reference to
  map,     \* the frame each thread's process maps writable
  want,    \* what the thread's current call was asked for
  cur,     \* the vnode or frame its current call works on or waits for
  cpu,     \* curthr, or NULL between two threads
  runq,    \* the run queue
  asleep   \* the threads that sleep, each on the queue of its cur, in order

cpuVars == <<cpu, runq, asleep>>
threadVars == <<ref, map, want>>
vars == <<vnode, pframe, linked, pc, cur, threadVars, cpuVars>>

Free == [vno |-> NULL, busy |-> FALSE, refs |-> 0]
FreeFrame ==
  [obj |-> NULL, pagenum |-> NULL, busy |-> FALSE, dirty |-> FALSE,
   ahead |-> FALSE]

Why == {"read", "write", "map"}   \* what a page is wanted for

PC == {"run",        \* in code of its own, or panicked
       "vget", "read_vnode", "delete_vnode",
       "get", "fillpage", "dirtypage",
       "purge",      \* in the page loop of vput
       "sync", "cleanpage",
       "panic"}

(* "ahead": the page holds data that was written to it while it was marked *)
(* dirty, and that its disk block does not have.                           *)
TypeOK ==
  /\ vnode \in [Slot -> [vno : Vno \cup {NULL}, busy : BOOLEAN,
                         refs : 0 .. Cardinality(Thread) + Cardinality(Frame)]]
  /\ pframe \in [Frame -> [obj : Slot \cup {NULL}, pagenum : PageNo \cup {NULL},
                           busy : BOOLEAN, dirty : BOOLEAN, ahead : BOOLEAN]]
  /\ linked \subseteq Vno
  /\ pc \in [Thread -> PC]
  /\ ref \in [Thread -> Slot \cup {NULL}]
  /\ map \in [Thread -> Frame \cup {NULL}]
  /\ want \in [Thread -> Vno \cup (PageNo \X Why) \cup {NULL}]
  /\ cur \in [Thread -> Slot \cup Frame \cup {NULL}]
  /\ cpu \in Thread \cup {NULL}
  /\ runq \in Seq(Thread) /\ asleep \in Seq(Thread)

Init ==
  /\ vnode = [s \in Slot |-> Free]
  /\ pframe = [f \in Frame |-> FreeFrame]
  /\ linked = Vno
  /\ pc = [t \in Thread |-> "run"]
  /\ ref = [t \in Thread |-> NULL]
  /\ map = [t \in Thread |-> NULL]
  /\ want = [t \in Thread |-> NULL]
  /\ cur = [t \in Thread |-> NULL]
  /\ cpu = NULL
  /\ runq = <<>>
  /\ asleep = <<>>

-----------------------------------------------------------------------------
InUse(s)    == vnode[s].vno # NULL
Pages(s)    == {f \in Frame : pframe[f].obj = s}   \* mmo_respages
nrespages(s) == Cardinality(Pages(s))

At(t, l) == cpu = t /\ pc[t] = l

(* Thread t goes on at l working on x, or sleeps on the queue of x there.  *)
Goto(t, l, x) ==
  /\ pc' = [pc EXCEPT ![t] = l]
  /\ cur' = [cur EXCEPT ![t] = x]

SleepOn(t, l, x) ==
  /\ Goto(t, l, x)
  /\ asleep' = Append(asleep, t)
  /\ cpu' = NULL
  /\ UNCHANGED runq

(* sched_broadcast_on the queue of x. *)
Broadcast(x) ==
  /\ runq' = runq \o Only(asleep, {t \in Thread : cur[t] = x})
  /\ asleep' = Only(asleep, {t \in Thread : cur[t] # x})
  /\ UNCHANGED cpu

Panic(t) ==
  /\ Goto(t, "panic", NULL)
  /\ UNCHANGED <<vnode, pframe, linked, threadVars, cpuVars>>

(* The code of t starts an operation. *)
Calls(t) == At(t, "run")

-----------------------------------------------------------------------------
(* The find loop of vget, from its start or after a sleep.  Without memory *)
(* for a new vnode the thread yields and tries again.                      *)
Find(t, vno) ==
  LET found == {s \in Slot : vnode[s].vno = vno} IN
  \/ \E s \in found :
       /\ vnode[s].busy
       /\ SleepOn(t, "vget", s)
       /\ want' = [want EXCEPT ![t] = vno]
       /\ UNCHANGED <<vnode, pframe, linked, ref, map>>
  \/ \E s \in found :
       /\ ~vnode[s].busy
       /\ vnode' = [vnode EXCEPT ![s].refs = @ + 1]
       /\ ref' = [ref EXCEPT ![t] = s]
       /\ want' = [want EXCEPT ![t] = NULL]
       /\ Goto(t, "run", NULL)
       /\ UNCHANGED <<pframe, linked, map, cpuVars>>
  \/ /\ found = {} /\ vno \notin linked   \* KASSERT of read_vnode: no inode
     /\ Panic(t)
  \/ /\ found = {} /\ vno \in linked
     /\ \E s \in Slot :
          /\ ~InUse(s)
          /\ vnode' = [vnode EXCEPT
                         ![s] = [vno |-> vno, busy |-> TRUE, refs |-> 0]]
          /\ Goto(t, "read_vnode", s)
          /\ want' = [want EXCEPT ![t] = vno]
          /\ UNCHANGED <<pframe, linked, ref, map, cpuVars>>

(* A lookup found a directory entry and calls vget. *)
vget(t, vno) ==
  /\ Calls(t) /\ ref[t] = NULL
  /\ vno \in linked
  /\ Find(t, vno)

FindAgain(t) == At(t, "vget") /\ Find(t, want[t])

(* read_vnode is back: the vnode is no longer busy, and nobody is told. *)
ReadVnode(t) ==
  /\ At(t, "read_vnode")
  /\ vnode' = [vnode EXCEPT ![cur[t]].busy = FALSE, ![cur[t]].refs = 1]
  /\ ref' = [ref EXCEPT ![t] = cur[t]]
  /\ want' = [want EXCEPT ![t] = NULL]
  /\ Goto(t, "run", NULL)
  /\ UNCHANGED <<pframe, linked, map, cpuVars>>

-----------------------------------------------------------------------------
(* pframe_free of the pages D.  A shared mapping of one is left in place,  *)
(* as in CleanStart.                                                       *)
FreePages(D) ==
  /\ pframe' = [f \in Frame |-> IF f \in D THEN FreeFrame ELSE pframe[f]]
  /\ UNCHANGED map

(* The last part of vput: the reference is dropped, and the vnode deleted  *)
(* when it was the last one.  D are pages the purge freed before that,     *)
(* each dropping its reference.                                            *)
Drop(t, s, D) ==
  LET refs == vnode[s].refs - Cardinality(D) - 1 IN
  /\ ref' = [ref EXCEPT ![t] = NULL]
  /\ vnode' = [vnode EXCEPT ![s].refs = refs, ![s].busy = (refs = 0)]
  /\ IF refs = 0 THEN Goto(t, "delete_vnode", s) ELSE Goto(t, "run", NULL)
  /\ FreePages(D)
  /\ UNCHANGED <<linked, want, cpuVars>>

(* The page loop of vput for a file without links: pages that are not busy *)
(* are freed, until one is, which vput sleeps for.                         *)
Purge(t, s) ==
  LET busy == {f \in Pages(s) : pframe[f].busy}
      idle == Pages(s) \ busy
  IN \/ /\ busy = {}
        /\ vnode[s].refs = nrespages(s) + 1
        /\ Drop(t, s, Pages(s))
     \/ /\ busy = {}
        /\ vnode[s].refs # nrespages(s) + 1      \* KASSERT
        /\ Panic(t)
     \/ \E f \in busy : \E D \in SUBSET idle :
          /\ cur[t] \in idle => cur[t] \in D     \* the page it slept for
          /\ SleepOn(t, "purge", f)
          /\ FreePages(D)
          /\ vnode' = [vnode EXCEPT ![s].refs = @ - Cardinality(D)]
          /\ UNCHANGED <<linked, ref, want>>

(* Mutant of vput: linked files are uncached as well. *)
vput_IgnoresLinks(t) ==
  LET s == ref[t] IN
  /\ Calls(t) /\ s # NULL /\ map[t] = NULL
  /\ IF nrespages(s) = vnode[s].refs - 1
     THEN Purge(t, s)
     ELSE Drop(t, s, {})

(* Before it drops its reference the code of t has unmapped the file. *)
vput(t) ==
  LET s == ref[t] IN
  /\ Calls(t) /\ s # NULL /\ map[t] = NULL
  /\ IF nrespages(s) = vnode[s].refs - 1 /\ vnode[s].vno \notin linked
     THEN Purge(t, s)
     ELSE Drop(t, s, {})

PurgeAgain(t) == At(t, "purge") /\ Purge(t, ref[t])

(* Mutant of DeleteVnode: the sleepers are not woken. *)
DeleteVnode_Silent(t) ==
  LET s == cur[t] IN
  /\ At(t, "delete_vnode")
  /\ vnode' = [vnode EXCEPT ![s] = Free]
  /\ Goto(t, "run", NULL)
  /\ UNCHANGED <<pframe, linked, threadVars, cpuVars>>

(* delete_vnode is back: whoever waits for the vnode may try again. *)
DeleteVnode(t) ==
  LET s == cur[t] IN
  /\ At(t, "delete_vnode")
  /\ vnode' = [vnode EXCEPT ![s] = Free]
  /\ Broadcast(s)
  /\ Goto(t, "run", NULL)
  /\ UNCHANGED <<pframe, linked, threadVars>>

-----------------------------------------------------------------------------
(* The page in frame f is dirty now: the caller writes it, or maps it for  *)
(* its process, which writes it later.                                     *)
Wrote(t, f, w) ==
  /\ pframe' = [pframe EXCEPT ![f].busy = FALSE, ![f].dirty = TRUE,
                              ![f].ahead = @ \/ w[2] = "write"]
  /\ map' = [map EXCEPT ![t] = IF w[2] = "map" THEN f ELSE @]
  /\ Broadcast(f)
  /\ want' = [want EXCEPT ![t] = NULL]
  /\ Goto(t, "run", NULL)
  /\ UNCHANGED <<vnode, linked, ref>>

(* Thread t has the page in frame f: a reader is done, a writer calls      *)
(* pframe_dirty, which touches pf_obj (NULL once the frame is free) and    *)
(* asks the file system unless the page is dirty already (vdirtypage).     *)
Got(t, f, w) ==
  \/ /\ w[2] = "read"
     /\ Goto(t, "run", NULL)
     /\ want' = [want EXCEPT ![t] = NULL]
     /\ UNCHANGED <<vnode, pframe, linked, ref, map, cpuVars>>
  \/ /\ w[2] # "read" /\ pframe[f].obj # NULL
     /\ IF pframe[f].dirty
        THEN Wrote(t, f, w)
        ELSE /\ Goto(t, "dirtypage", f)
             /\ want' = [want EXCEPT ![t] = w]
             /\ pframe' = [pframe EXCEPT ![f].busy = TRUE]
             /\ UNCHANGED <<vnode, linked, ref, map, cpuVars>>
  \/ /\ w[2] # "read" /\ pframe[f].obj = NULL
     /\ Panic(t)

(* GET_RESIDENT of pframe_get: sleep as long as the page is busy. *)
GetResident(t, f, w) ==
  \/ /\ pframe[f].busy
     /\ SleepOn(t, "get", f)
     /\ want' = [want EXCEPT ![t] = w]
     /\ UNCHANGED <<vnode, pframe, linked, ref, map>>
  \/ /\ ~pframe[f].busy
     /\ Got(t, f, w)

(* Mutant of NewPage: pframe_alloc takes no reference. *)
NewPage_NoRef(t, s, w) ==
  \E f \in Frame :
    /\ pframe[f].obj = NULL
    /\ pframe' = [pframe EXCEPT ![f] =
         [FreeFrame EXCEPT !.obj = s, !.pagenum = w[1], !.busy = TRUE]]
    /\ Goto(t, "fillpage", f)
    /\ want' = [want EXCEPT ![t] = w]
    /\ UNCHANGED <<vnode, linked, ref, map, cpuVars>>

(* pframe_alloc, which takes a reference to the vnode, and pframe_fill.    *)
NewPage(t, s, w) ==
  \E f \in Frame :
    /\ pframe[f].obj = NULL
    /\ pframe' = [pframe EXCEPT ![f] =
         [FreeFrame EXCEPT !.obj = s, !.pagenum = w[1], !.busy = TRUE]]
    /\ vnode' = [vnode EXCEPT ![s].refs = @ + 1]
    /\ Goto(t, "fillpage", f)
    /\ want' = [want EXCEPT ![t] = w]
    /\ UNCHANGED <<linked, ref, map, cpuVars>>

(* pframe_get of page w[1] of the file t has open.  Without a free frame   *)
(* it returns -ENOMEM.                                                     *)
pframe_get(t, w) ==
  LET s == ref[t]
      resident == {f \in Pages(s) : pframe[f].pagenum = w[1]}
  IN
  /\ Calls(t) /\ s # NULL /\ map[t] = NULL
  /\ \/ \E f \in resident : GetResident(t, f, w)
     \/ resident = {} /\ NewPage(t, s, w)

(* Woken, pframe_get goes on with the frame it had found. *)
GetAgain(t) == At(t, "get") /\ GetResident(t, cur[t], want[t])

(* fillpage is back.  pframe_fill clears the busy bit and wakes the        *)
(* sleepers; after an error pframe_get then frees the frame.               *)
Filled(t) ==
  LET f == cur[t] IN
  /\ At(t, "fillpage")
  /\ Broadcast(f)
  /\ IF want[t][2] = "read"
     THEN /\ pframe' = [pframe EXCEPT ![f].busy = FALSE]
          /\ Goto(t, "run", NULL)
          /\ want' = [want EXCEPT ![t] = NULL]
     ELSE /\ Goto(t, "dirtypage", f)     \* busy again at once
          /\ UNCHANGED <<pframe, want>>
  /\ UNCHANGED <<vnode, linked, ref, map>>

(* Mutant of FillFailed: the reference of the page is dropped twice. *)
FillFailed_PutsTwice(t) ==
  LET f == cur[t] IN
  /\ At(t, "fillpage")
  /\ Broadcast(f)
  /\ pframe' = [pframe EXCEPT ![f] = FreeFrame]
  /\ vnode' = [vnode EXCEPT ![ref[t]].refs = @ - 2]
  /\ Goto(t, "run", NULL)
  /\ want' = [want EXCEPT ![t] = NULL]
  /\ UNCHANGED <<linked, ref, map>>

FillFailed(t) ==
  LET f == cur[t] IN
  /\ At(t, "fillpage")
  /\ Broadcast(f)
  /\ pframe' = [pframe EXCEPT ![f] = FreeFrame]
  /\ vnode' = [vnode EXCEPT ![ref[t]].refs = @ - 1]
  /\ Goto(t, "run", NULL)
  /\ want' = [want EXCEPT ![t] = NULL]
  /\ UNCHANGED <<linked, ref, map>>

(* dirtypage is back, with success ... *)
Dirtied(t) == At(t, "dirtypage") /\ Wrote(t, cur[t], want[t])

(* ... or not: the page is not written. *)
DirtyFailed(t) ==
  LET f == cur[t] IN
  /\ At(t, "dirtypage")
  /\ pframe' = [pframe EXCEPT ![f].busy = FALSE]
  /\ Broadcast(f)
  /\ want' = [want EXCEPT ![t] = NULL]
  /\ Goto(t, "run", NULL)
  /\ UNCHANGED <<vnode, linked, ref, map>>

(* The process of t writes through its mapping, without a fault: whether   *)
(* the page is dirty is left as it is.                                     *)
Store(t) ==
  /\ Calls(t) /\ map[t] # NULL
  /\ pframe' = [pframe EXCEPT ![map[t]].ahead = @ \/ pframe[map[t]].dirty]
  /\ UNCHANGED <<vnode, linked, pc, cur, threadVars, cpuVars>>

(* munmap of the file: do_munmap clears the page table itself. *)
Unmap(t) ==
  /\ Calls(t) /\ map[t] # NULL
  /\ map' = [map EXCEPT ![t] = NULL]
  /\ UNCHANGED <<vnode, pframe, linked, pc, ref, want, cur, cpuVars>>

-----------------------------------------------------------------------------
(* Mutant of CleanStart: the page is not marked busy. *)
CleanStart_NotBusy(t, f) ==
  /\ pframe[f].dirty
  /\ pframe' = [pframe EXCEPT ![f].dirty = FALSE]
  /\ Goto(t, "cleanpage", f)
  /\ UNCHANGED <<vnode, linked, threadVars, cpuVars>>

(* pframe_clean up to the object's cleanpage: the page is marked clean     *)
(* first.  pframe_remove_from_pts looks for it in the areas on mmo_vmas;   *)
(* vmmap_map puts only private areas there, and a page of a file is mapped *)
(* writable only by a shared one: the mappings stay as they are.           *)
CleanStart(t, f) ==
  /\ pframe[f].dirty
  /\ pframe' = [pframe EXCEPT ![f].dirty = FALSE, ![f].busy = TRUE]
  /\ Goto(t, "cleanpage", f)
  /\ UNCHANGED <<vnode, linked, threadVars, cpuVars>>

(* One round of pframe_clean_all, from list_start to the next place where  *)
(* it blocks, or to its end.                                               *)
CleanAll(t) ==
  \/ \E f \in Frame :
       /\ pframe[f].busy
       /\ SleepOn(t, "sync", f)
       /\ UNCHANGED <<vnode, pframe, linked, threadVars>>
  \/ \E f \in Frame : ~pframe[f].busy /\ CleanStart(t, f)
  \/ /\ At(t, "sync")
     /\ \A f \in Frame : ~pframe[f].busy /\ ~pframe[f].dirty
     /\ Goto(t, "run", NULL)
     /\ UNCHANGED <<vnode, pframe, linked, threadVars, cpuVars>>

pframe_clean_all(t) == Calls(t) /\ CleanAll(t)
CleanAllAgain(t)    == At(t, "sync") /\ CleanAll(t)

(* cleanpage is back: the disk has the page, or it is dirty again. *)
Cleaned(t) ==
  LET f == cur[t] IN
  /\ At(t, "cleanpage")
  /\ pframe' = [pframe EXCEPT ![f].busy = FALSE, ![f].ahead = FALSE]
  /\ Broadcast(f)
  /\ Goto(t, "sync", NULL)
  /\ UNCHANGED <<vnode, linked, threadVars>>

(* Mutant of CleanFailed: the error is ignored. *)
CleanFailed_StaysClean(t) ==
  LET f == cur[t] IN
  /\ At(t, "cleanpage")
  /\ pframe' = [pframe EXCEPT ![f].busy = FALSE]
  /\ Broadcast(f)
  /\ Goto(t, "sync", NULL)
  /\ UNCHANGED <<vnode, linked, threadVars>>

CleanFailed(t) ==
  LET f == cur[t] IN
  /\ At(t, "cleanpage")
  /\ pframe' = [pframe EXCEPT ![f].busy = FALSE, ![f].dirty = TRUE]
  /\ Broadcast(f)
  /\ Goto(t, "sync", NULL)
  /\ UNCHANGED <<vnode, linked, threadVars>>

-----------------------------------------------------------------------------
(* The file system removes the last link of a file t has a vnode of, and   *)
(* makes a file of an inode number that is free and not in memory.         *)
Unlink(t) ==
  /\ Calls(t) /\ ref[t] # NULL
  /\ linked' = linked \ {vnode[ref[t]].vno}
  /\ linked' # linked
  /\ UNCHANGED <<vnode, pframe, pc, threadVars, cur, cpuVars>>

Create(t, vno) ==
  /\ Calls(t) /\ vno \notin linked
  /\ \A s \in Slot : vnode[s].vno # vno
  /\ linked' = linked \cup {vno}
  /\ UNCHANGED <<vnode, pframe, pc, threadVars, cur, cpuVars>>

Operation(t) ==
  \/ \E vno \in Vno : vget(t, vno) \/ Create(t, vno)
  \/ \E w \in PageNo \X Why : pframe_get(t, w)
  \/ vput(t) \/ pframe_clean_all(t)
  \/ Store(t) \/ Unmap(t) \/ Unlink(t)

(* How calls go on, once the disk is done or the sleeper was woken. *)
DiskCall(t) ==
  pc[t] \in {"read_vnode", "delete_vnode", "fillpage", "dirtypage", "cleanpage"}

DiskDone(t) ==
  \/ ReadVnode(t) \/ DeleteVnode(t)
  \/ Filled(t) \/ FillFailed(t)
  \/ Dirtied(t) \/ DirtyFailed(t)
  \/ Cleaned(t) \/ CleanFailed(t)

Resume(t) == FindAgain(t) \/ GetAgain(t) \/ PurgeAgain(t) \/ CleanAllAgain(t)

(* A disk call sleeps until an interrupt, or is served from memory; a      *)
(* process waits for other input.                                          *)
Block(t) ==
  /\ cpu = t /\ (DiskCall(t) \/ pc[t] = "run")
  /\ cpu' = NULL
  /\ UNCHANGED <<vnode, pframe, linked, pc, cur, threadVars, runq, asleep>>

Interrupt(t) ==
  /\ cpu # t /\ \A i \in DOMAIN runq : runq[i] # t
  /\ \A i \in DOMAIN asleep : asleep[i] # t
  /\ runq' = Append(runq, t)
  /\ UNCHANGED <<vnode, pframe, linked, pc, cur, threadVars, cpu, asleep>>

Switch ==
  /\ cpu = NULL /\ runq # <<>>
  /\ cpu' = Head(runq) /\ runq' = Tail(runq)
  /\ UNCHANGED <<vnode, pframe, linked, pc, cur, threadVars, asleep>>

Next ==
  \/ \E t \in Thread \cap {cpu} :
       Operation(t) \/ DiskDone(t) \/ Resume(t) \/ Block(t)
  \/ \E t \in Thread \ {cpu} : Interrupt(t)
  \/ Switch

Spec == Init /\ [][Next]_vars

-----------------------------------------------------------------------------
Asleep == {asleep[i] : i \in DOMAIN asleep}

Holders(s) == {t \in Thread : ref[t] = s}

(* fs/vnode.h: vn_refcount counts the references from outside and one for  *)
(* each cached page, through reads, failed fills, purges and deletions     *)
(* that sleep in any order, and a vnode is freed when nothing refers to it *)
(* any more.                                                               *)
RefcountExact ==
  /\ \A s \in Slot :
       /\ ~vnode[s].busy =>
            vnode[s].refs = nrespages(s) + Cardinality(Holders(s))
       /\ vnode[s].busy \/ ~InUse(s) => Holders(s) = {} /\ Pages(s) = {}
  /\ \A r, s \in Slot : InUse(s) /\ vnode[r].vno = vnode[s].vno => r = s

(* A page that is being filled, dirtied or cleaned is busy on behalf of    *)
(* exactly one thread, and stays resident until that thread is done,       *)
(* whoever syncs, unlinks or frees meanwhile.                              *)
BusyHasOneOwner ==
  \A f \in Frame :
    LET owners == {t \in Thread : pc[t] \in {"fillpage", "dirtypage", "cleanpage"}
                                  /\ cur[t] = f}
    IN /\ Cardinality(owners) = IF pframe[f].busy THEN 1 ELSE 0
       /\ pframe[f].busy => pframe[f].obj # NULL

(* pframe_clean clears the dirty bit before it blocks "so that if the page *)
(* is dirtied again while we're writing it out, we won't (incorrectly)     *)
(* think the page has been fully cleaned": what write() put on a page, or  *)
(* a process stored on a dirty one, and the disk does not have, is on a    *)
(* dirty page or on its way out, through failing cleans, sleepers that     *)
(* come back late and frames that are used again.  A store to a page that  *)
(* stayed mapped when it was cleaned is not promised to be kept, and is    *)
(* lost if nobody dirties the page again (NextStoreFaults in Memory).      *)
NoLostWrite ==
  \A f \in Frame : pframe[f].ahead => pframe[f].dirty \/ pframe[f].busy

(* Only a file without links loses data that was written to a dirty page   *)
(* and that the disk does not have.                                        *)
DataKept ==
  [][\A f \in Frame :
       pframe[f].ahead /\ pframe'[f].obj # pframe[f].obj
         => vnode[pframe[f].obj].vno \notin linked]_vars

(* Whoever sleeps in vget sleeps for a vnode in memory that is the one it  *)
(* looks for.  vget does not tell it when the vnode is no longer busy, but *)
(* no slot is freed, or used again, under a sleeper: it finds, in the end, *)
(* its own vnode or none.                                                  *)
VnodeWaiters ==
  \A t \in Asleep : pc[t] = "vget" => vnode[cur[t]].vno = want[t]

(* mm/pframe.c: a thread that slept for a busy page tries again "since it  *)
(* may have been freed after that".  It never goes on with a frame that    *)
(* does not hold its page.                                                 *)
NoStaleFrame ==
  \A t \in Thread : pc[t] = "get" =>
    LET page == pframe[cur[t]] IN
    page.obj = ref[t] /\ page.pagenum = want[t][1]

(* Whoever sleeps for a page sleeps for a busy one.                        *)
PageWakeups ==
  \A t \in Asleep : pc[t] \in {"get", "purge", "sync"} => pframe[cur[t]].busy

(* fs/vnode.c, mm/pframe.c: nobody sleeps for a page that is not busy, nor *)
(* on for a vnode whose slot another file has (the two together).          *)
SleepersOK == PageWakeups /\ VnodeWaiters
=============================================================================
