-------------------------------- MODULE Files -------------------------------
(***************************************************************************)
(* The system calls on paths and descriptors (fs/vfs_syscall.c, fs/open.c, *)
(* fs/namev.c, fs/file.c) over the file system in memory (fs/ramfs/ramfs.c)*)
(* and its reference-counted vnodes.  Nothing in ramfs sleeps, so a call   *)
(* is one action; processes fork, exit and interleave their calls.         *)
(*                                                                         *)
(* An error return that leaves everything as it was is no action.  Where   *)
(* the code goes on with something it does not have, the model stops and   *)
(* "fault" says with what.                                                 *)
(***************************************************************************)
EXTENDS Integers, FiniteSets, SequencesExt

CONSTANTS
  Proc,    \* processes
  Ino,     \* inode numbers (RAMFS_MAX_FILES of them), the root's is 0
  Dirent,  \* directory entries (RAMFS_MAX_DIRENT without "." and "..")
  FD,      \* descriptors (NFILES of them)
  FileId,  \* file_t objects
  Path,    \* what paths name: names, ".." and, after a slash at the end, "";
           \* an absolute one starts with "/"
  None

Root == 0

Names == {n \in UNION {Range(path) : path \in Path} : n \notin {"/", "..", ""}}

(* nlink counts the entries that name the inode; rf_linkcount is one more  *)
(* while its vnode is in memory.  "up" is the entry "..", None once the    *)
(* inode it names was freed, though its number may have been used again.   *)
Inodes(counts) ==
  [dir : BOOLEAN, nlink : counts, up : Ino \cup {None},
   slot : [Dirent -> [name : Names \cup {None}, ino : Ino]]]

(* Every table of the kernel has a size.  A path has a component at least, *)
(* after the slash it may start with.                                      *)
ASSUME FilesAssumption ==
  /\ 0 \in Ino /\ Ino \subseteq Nat /\ FD \subseteq Nat /\ Dirent \subseteq Nat \ {0}
  /\ IsFiniteSet(Proc) /\ IsFiniteSet(Ino) /\ IsFiniteSet(Dirent)
  /\ IsFiniteSet(FD) /\ IsFiniteSet(FileId)
  /\ None \notin Ino \cup FileId \cup Inodes(Int)
  /\ \A path \in Path :
       /\ path \in Seq(STRING) /\ path # <<>> /\ path # <<"/">>
       /\ \A i \in DOMAIN path : path[i] # None /\ (path[i] = "/" => i = 1)

VARIABLES
  inode,   \* rfs_inodes
  vref,    \* vn_refcount of the vnode of each inode, 0 if it has none
  file,    \* the vnode and f_refcount of each open file
  p_files, \* descriptors of each process; none are set when it does not exist
  p_cwd,   \* working directory of each process; None when it does not exist
  kept,    \* (history) references a call has forgotten to drop, per vnode
  fault    \* what the code has tripped over

fs == <<inode, vref>>
fileVars == <<inode, vref, file, p_files, p_cwd, kept, fault>>

Faults == {"none",
           "inode",      \* an entry names an inode that was freed, which
                         \* ramfs_read_vnode asserts it does not
           "pointer",    \* a pointer nobody has set
           "reference",  \* a reference dropped twice
           "descriptor"} \* p_files[-EMFILE]

NoFile == [vno |-> None, refs |-> 0]

FilesTypeOK ==
  /\ inode \in [Ino -> Inodes(Nat) \cup {None}]
  /\ vref \in [Ino -> Nat]
  /\ file \in [FileId -> [vno : Ino \cup {None}, refs : Nat]]
  /\ p_files \in [Proc -> [FD -> FileId \cup {None}]]
  /\ p_cwd \in [Proc -> Ino \cup {None}]
  /\ kept \in [Ino -> Nat]
  /\ fault \in Faults

New(isDir, up) ==
  [dir |-> isDir, nlink |-> 1, up |-> up,
   slot |-> [i \in Dirent |-> [name |-> None, ino |-> 0]]]

NoFiles == [fd \in FD |-> None]

(* fs_root and the working directory of the first process. *)
FilesInit ==
  /\ inode = [v \in Ino |-> IF v = Root THEN New(TRUE, Root) ELSE None]
  /\ vref = [v \in Ino |-> IF v = Root THEN 2 ELSE 0]
  /\ file = [f \in FileId |-> NoFile]
  /\ p_files = [p \in Proc |-> NoFiles]
  /\ \E p \in Proc : p_cwd = [q \in Proc |-> IF q = p THEN Root ELSE None]
  /\ kept = [v \in Ino |-> 0]
  /\ fault = "none"

-----------------------------------------------------------------------------
Lowest(S) == CHOOSE x \in S : \A y \in S : x <= y

IsDir(v) == inode[v].dir
Used(v)  == {i \in Dirent : inode[v].slot[i].name # None}
SlotOf(d, n) == {i \in Dirent : inode[d].slot[i].name = n}
Entry(d, n)  == {inode[d].slot[i].ino : i \in SlotOf(d, n)}

(* lookup of n in directory d. *)
lookup(d, n) ==
  IF n = "" THEN {d} ELSE IF n = ".." THEN {inode[d].up} ELSE Entry(d, n)

(* One step of a walk from vnode w.at: "stale" once the caller's result    *)
(* pointer was set, which later failures leave as it is.                   *)
Step(w, n) ==
  IF w.res # "found" THEN w
  ELSE IF ~IsDir(w.at) THEN [w EXCEPT !.res = "fail"]
  ELSE LET hits == lookup(w.at, n) IN
       IF hits = {} THEN [w EXCEPT !.res = "fail"]
       ELSE LET v == CHOOSE v \in hits : TRUE
            IN IF v = None \/ inode[v] = None THEN [w EXCEPT !.res = "freed"]
               ELSE [res |-> "found", at |-> v, stale |-> TRUE]

(* dir_namev: the directory that the last component is to be found in. *)
dir_namev(p, path) ==
  LET abs   == path[1] = "/"
      start == [res |-> "found", at |-> IF abs THEN Root ELSE p_cwd[p], stale |-> FALSE]
      walk[i \in 0 .. Len(path) - 1] ==
        IF i = 0 \/ (i = 1 /\ abs) THEN start ELSE Step(walk[i - 1], path[i])
      w == walk[Len(path) - 1]
  IN IF w.res = "found" /\ ~IsDir(w.at) THEN [w EXCEPT !.res = "fail"] ELSE w

(* dir_namev and the lookup of the last component: "fail", "freed", or the *)
(* directory with what it has of that name, if anything.                   *)
Namev(p, path) ==
  LET d == dir_namev(p, path) IN
  IF d.res # "found" THEN [res |-> d.res, dir |-> d.at, vno |-> None, stale |-> d.stale]
  ELSE LET w == Step(d, Last(path))
       IN [res |-> IF w.res = "fail" THEN "absent" ELSE w.res,
           dir |-> d.at, vno |-> w.at, stale |-> TRUE]

-----------------------------------------------------------------------------
(* The inode table without v, which is missed by the directories in it. *)
Freed(nodes, v) ==
  [u \in Ino |-> IF u = v \/ nodes[u] = None THEN None
                 ELSE [nodes[u] EXCEPT !.up = IF @ = v THEN None ELSE @]]

(* Mutant of VPut: what is unlinked goes although a reference is left. *)
VPut_TooSoon(nodes, refs, v) ==
  /\ vref' = [refs EXCEPT ![v] = @ - 1]
  /\ inode' = IF nodes[v].nlink = 0 THEN Freed(nodes, v) ELSE nodes

(* vput: with the last reference the vnode goes, and the inode with it     *)
(* when no entry names it.                                                 *)
VPut(nodes, refs, v) ==
  /\ vref' = [refs EXCEPT ![v] = @ - 1]
  /\ inode' = IF refs[v] = 1 /\ nodes[v].nlink = 0 THEN Freed(nodes, v) ELSE nodes

Stop(what) ==
  /\ fault' = what
  /\ UNCHANGED <<inode, vref, file, p_files, p_cwd, kept>>

Runs(p) == fault = "none" /\ p_cwd[p] # None

FreeFd(p) == {fd \in FD : p_files[p][fd] = None}
FreeSlots(d) == SlotOf(d, None)
FreeInos == {v \in Ino : inode[v] = None}

(* The inode table with an entry n for v in directory d, which must have   *)
(* room for it.                                                            *)
WithEntry(d, n, v, nodes) ==
  [nodes EXCEPT ![d].slot[Lowest(FreeSlots(d))] = [name |-> n, ino |-> v]]

(* ramfs_create, ramfs_mkdir and ramfs_mknod: a new inode and its entry.   *)
NewEntry(d, n, isDir) ==
  LET v == Lowest(FreeInos)
  IN WithEntry(d, n, v, [inode EXCEPT ![v] = New(isDir, d)])

HasRoom(d) == FreeSlots(d) # {} /\ FreeInos # {}

(* The entry n of d goes; its slot keeps the inode number. *)
WithoutEntry(d, n, v) ==
  [inode EXCEPT ![d].slot = [i \in Dirent |-> IF i \in SlotOf(d, n)
                                              THEN [@[i] EXCEPT !.name = None] ELSE @[i]],
                ![v].nlink = @ - 1]

-----------------------------------------------------------------------------
(* A new file_t for vnode v at the lowest free descriptor. *)
Opened(p, v) ==
  \E f \in FileId :
    /\ file[f].refs = 0
    /\ file' = [file EXCEPT ![f] = [vno |-> v, refs |-> 1]]
    /\ p_files' = [p_files EXCEPT ![p][Lowest(FreeFd(p))] = f]
    /\ vref' = [vref EXCEPT ![v] = @ + 1]

(* do_open, which does not look whether there was a free descriptor. *)
do_open(p, path, creat) ==
  /\ Runs(p)
  /\ \E r \in {Namev(p, path)} :
       \/ FreeFd(p) = {} /\ Stop("descriptor")
       \/ FreeFd(p) # {} /\ r.res = "freed" /\ Stop("inode")
       \/ /\ FreeFd(p) # {} /\ r.res = "found"
          /\ Opened(p, r.vno)
          /\ UNCHANGED <<inode, p_cwd, kept, fault>>
       \/ /\ FreeFd(p) # {} /\ r.res = "absent" /\ creat /\ HasRoom(r.dir)
          /\ Opened(p, Lowest(FreeInos))
          /\ inode' = NewEntry(r.dir, Last(path), FALSE)
          /\ UNCHANGED <<p_cwd, kept, fault>>

(* fput of the file that descriptors of this process no longer name. *)
fput(f) ==
  IF file[f].refs > 1
  THEN file' = [file EXCEPT ![f].refs = @ - 1] /\ UNCHANGED fs
  ELSE file' = [file EXCEPT ![f] = NoFile] /\ VPut(inode, vref, file[f].vno)

do_close(p, fd) ==
  /\ Runs(p) /\ p_files[p][fd] # None
  /\ p_files' = [p_files EXCEPT ![p][fd] = None]
  /\ fput(p_files[p][fd])
  /\ UNCHANGED <<p_cwd, kept, fault>>

(* fget and the new descriptor. *)
do_dup(p, fd) ==
  LET f == p_files[p][fd] IN
  /\ Runs(p) /\ f # None /\ FreeFd(p) # {}
  /\ file' = [file EXCEPT ![f].refs = @ + 1]
  /\ p_files' = [p_files EXCEPT ![p][Lowest(FreeFd(p))] = f]
  /\ UNCHANGED <<fs, p_cwd, kept, fault>>

(* Mutant of do_dup2: the new descriptor is not closed first. *)
do_dup2_NoClose(p, ofd, nfd) ==
  LET f == p_files[p][ofd] IN
  /\ Runs(p) /\ f # None /\ ofd # nfd
  /\ p_files' = [p_files EXCEPT ![p][nfd] = f]
  /\ file' = [file EXCEPT ![f].refs = @ + 1]
  /\ UNCHANGED <<fs, p_cwd, kept, fault>>

(* The file of ofd is held before that of nfd, maybe the same, is closed. *)
do_dup2(p, ofd, nfd) ==
  LET f == p_files[p][ofd]
      g == p_files[p][nfd]
  IN /\ Runs(p) /\ f # None /\ ofd # nfd
     /\ p_files' = [p_files EXCEPT ![p][nfd] = f]
     /\ IF g = None
        THEN file' = [file EXCEPT ![f].refs = @ + 1] /\ UNCHANGED fs
        ELSE IF g = f THEN UNCHANGED <<file, fs>>
        ELSE IF file[g].refs > 1
        THEN /\ file' = [file EXCEPT ![f].refs = @ + 1, ![g].refs = @ - 1]
             /\ UNCHANGED fs
        ELSE /\ file' = [file EXCEPT ![f].refs = @ + 1, ![g] = NoFile]
             /\ VPut(inode, vref, file[g].vno)
     /\ UNCHANGED <<p_cwd, kept, fault>>

-----------------------------------------------------------------------------
(* do_mkdir, and do_mknod of a device. *)
do_mkdir(p, path, isDir) ==
  /\ Runs(p)
  /\ \E r \in {Namev(p, path)} :
       \/ r.res = "freed" /\ Stop("inode")
       \/ /\ r.res = "absent" /\ HasRoom(r.dir)
          /\ inode' = NewEntry(r.dir, Last(path), isDir)
          /\ UNCHANGED <<vref, file, p_files, p_cwd, kept, fault>>

(* do_rmdir.  For a path that ends in a slash the name is empty: do_rmdir  *)
(* finds the directory itself, ramfs_rmdir the first entry that is free.   *)
do_rmdir(p, path) ==
  /\ Runs(p)
  /\ \E r \in {Namev(p, path)} :
     LET d == r.dir
         v == IF Last(path) # "" THEN r.vno
              ELSE inode[d].slot[Lowest(FreeSlots(d))].ino
     IN /\ Last(path) # ".."
        /\ \/ r.res = "freed" /\ Stop("inode")
           \/ /\ r.res = "found" /\ IsDir(r.vno)
              /\ Last(path) = "" => FreeSlots(d) # {}
              /\ IF inode[v] = None THEN Stop("inode")
                 ELSE /\ IsDir(v) /\ Used(v) = {}
                      /\ VPut(WithoutEntry(d, Last(path), v), [vref EXCEPT ![v] = @ + 1], v)
                      /\ UNCHANGED <<file, p_files, p_cwd, kept, fault>>

(* do_unlink and do_stat after dir_namev failed, which they do not check:  *)
(* they go on with the last vnode it found, already put, or with nothing.  *)
GoOnAnyway(r) ==
  IF r.stale /\ ~IsDir(r.dir) THEN Stop("reference") ELSE Stop("pointer")

do_unlink(p, path) ==
  /\ Runs(p)
  /\ \E r \in {Namev(p, path)} :
       \/ r.res = "fail" /\ GoOnAnyway(r)
       \/ r.res = "freed" /\ Stop("inode")
       \/ /\ r.res = "found" /\ ~IsDir(r.vno)
          /\ VPut(WithoutEntry(r.dir, Last(path), r.vno),
                  [vref EXCEPT ![r.vno] = @ + 1], r.vno)
          /\ UNCHANGED <<file, p_files, p_cwd, kept, fault>>

(* do_link.  It does not check that from was found, and keeps its vnode    *)
(* when the directory of to is not.                                        *)
do_link(p, from, to) ==
  /\ Runs(p)
  /\ \E r \in {Namev(p, from)} :
       \/ r.res \in {"fail", "absent"} /\ Stop("pointer")
       \/ r.res = "freed" /\ Stop("inode")
       \/ /\ r.res = "found" /\ ~IsDir(r.vno)
          /\ \E t \in {Namev(p, to)} :
               \/ t.res = "freed" /\ Stop("inode")
               \/ /\ t.res = "fail"
                  /\ vref' = [vref EXCEPT ![r.vno] = @ + 1]
                  /\ kept' = [kept EXCEPT ![r.vno] = @ + 1]
                  /\ kept[r.vno] = 0              \* bound
                  /\ UNCHANGED <<inode, file, p_files, p_cwd, fault>>
               \/ /\ t.res = "absent" /\ FreeSlots(t.dir) # {}
                  /\ inode' = WithEntry(t.dir, Last(to), r.vno,
                                        [inode EXCEPT ![r.vno].nlink = @ + 1])
                  /\ UNCHANGED <<vref, file, p_files, p_cwd, kept, fault>>

do_chdir(p, path) ==
  /\ Runs(p)
  /\ \E r \in {Namev(p, path)} :
       \/ r.res = "freed" /\ Stop("inode")
       \/ /\ r.res = "found" /\ IsDir(r.vno)
          /\ VPut(inode, [vref EXCEPT ![r.vno] = @ + 1], p_cwd[p])
          /\ p_cwd' = [p_cwd EXCEPT ![p] = r.vno]
          /\ UNCHANGED <<file, p_files, kept, fault>>

-----------------------------------------------------------------------------
(* do_fork copies the descriptors and the working directory. *)
do_fork(p, c) ==
  /\ Runs(p) /\ p_cwd[c] = None
  /\ p_files' = [p_files EXCEPT ![c] = p_files[p]]
  /\ p_cwd' = [p_cwd EXCEPT ![c] = p_cwd[p]]
  /\ vref' = [vref EXCEPT ![p_cwd[p]] = @ + 1]
  /\ file' = [f \in FileId |->
                [file[f] EXCEPT !.refs = @ + Cardinality({fd \in FD : p_files[p][fd] = f})]]
  /\ UNCHANGED <<inode, kept, fault>>

(* proc_cleanup, once the descriptors are closed. *)
Exit(p) ==
  /\ Runs(p) /\ p_files[p] = NoFiles
  /\ \E q \in Proc \ {p} : p_cwd[q] # None     \* the idle process stays
  /\ VPut(inode, vref, p_cwd[p])
  /\ p_cwd' = [p_cwd EXCEPT ![p] = None]
  /\ UNCHANGED <<file, p_files, kept, fault>>

FilesNext ==
  \E p \in Proc :
    \/ \E path \in Path :
         \/ \E creat \in BOOLEAN : do_open(p, path, creat)
         \/ \E isDir \in BOOLEAN : do_mkdir(p, path, isDir)
         \/ do_rmdir(p, path) \/ do_unlink(p, path) \/ do_chdir(p, path)
         \/ \E to \in Path : do_link(p, path, to)
    \/ \E fd \in FD : do_close(p, fd) \/ do_dup(p, fd)
    \/ \E ofd, nfd \in FD : do_dup2(p, ofd, nfd)
    \/ \E c \in Proc : do_fork(p, c)
    \/ Exit(p)

FilesSpec == FilesInit /\ [][FilesNext]_fileVars

-----------------------------------------------------------------------------
(* Every reference count is exact through dup, dup2, fork, exit and every  *)
(* error return but the one of do_link that keeps a vnode: f_refcount      *)
(* counts descriptors, vn_refcount open files and working directories.     *)
FileRefsExact ==
  /\ \A f \in FileId :
       file[f].refs = Cardinality({x \in Proc \X FD : p_files[x[1]][x[2]] = f})
  /\ \A v \in Ino :
       vref[v] = (IF v = Root THEN 1 ELSE 0) + kept[v]
                 + Cardinality({f \in FileId : file[f].vno = v})
                 + Cardinality({p \in Proc : p_cwd[p] = v})

(* What is open or a working directory stays, unlinked or not, and so does *)
(* what an entry names: no inode number is used again under its users.     *)
InodesStay ==
  /\ \A v \in Ino : vref[v] > 0 => inode[v] # None
  /\ \A d \in Ino : inode[d] # None =>
       \A i \in Used(d) :
         LET v == inode[d].slot[i].ino IN
         /\ inode[v] # None
         /\ inode[v].nlink >= Cardinality({x \in Ino \X Dirent :
              /\ inode[x[1]] # None
              /\ inode[x[1]].slot[x[2]].name # None
              /\ inode[x[1]].slot[x[2]].ino = v})

(* fs/ramfs/ramfs.c, ramfs_read_vnode: KASSERT(inode && ...). *)
InodesExist == fault # "inode"
=============================================================================
