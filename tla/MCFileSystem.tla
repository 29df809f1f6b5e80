---------------------------- MODULE MCFileSystem ----------------------------
(***************************************************************************)
(* The vnode and page cache, and the system calls on files twice: with two *)
(* inodes and two files open at once, and with one more inode, but one open*)
(* file and one entry in a directory.  "part" is the one that moves, the   *)
(* others stay in their initial state.                                     *)
(***************************************************************************)
EXTENDS Cache, Files, TLC

CONSTANTS t1, t2, t3, v1, v2, s1, s2, f1, f2

VARIABLE part

Paths == {<<"/", "a">>, <<"a">>, <<"a", "b">>, <<"..">>, <<"b">>}

(* Before there is a process.  As model values the processes are the slots *)
(* of Cache and the file_t's its frames: a permutation of Cache's values is*)
(* one of Files', too, and leaves this state as it is.                     *)
NoProcess ==
  /\ inode = [v \in Ino |-> IF v = Root THEN New(TRUE, Root) ELSE None]
  /\ vref = [v \in Ino |-> IF v = Root THEN 1 ELSE 0]
  /\ file = [f \in FileId |-> NoFile]
  /\ p_files = [p \in Proc |-> NoFiles] /\ p_cwd = [p \in Proc |-> None]
  /\ kept = [v \in Ino |-> 0] /\ fault = "none"

PartsInit ==
  /\ part \in {"cache", "open", "dirs"}
  /\ Init
  /\ IF part = "cache" THEN NoProcess ELSE FilesInit

(* bounds *)
OneMapping ==
  \A t \in Thread : map'[t] # NULL =>
    /\ \A u \in Thread : map'[u] # NULL => u = t
    /\ \A s \in Slot : vnode'[s].vno # NULL => s = ref'[t]
TwoInodes == inode'[2] = None
OneFile ==
  /\ Cardinality({f \in FileId : file'[f] # NoFile}) <= 1
  /\ \A p \in Proc : p_files'[p][1] = None
  /\ \A v \in Ino : inode'[v] # None => inode'[v].slot[2].name = None

PartsNext ==
  /\ \/ part = "cache" /\ Next /\ OneMapping /\ UNCHANGED fileVars
     \/ part = "open" /\ FilesNext /\ TwoInodes /\ UNCHANGED vars
     \/ part = "dirs" /\ FilesNext /\ OneFile /\ UNCHANGED vars
  /\ UNCHANGED part

PartsSpec == PartsInit /\ [][PartsNext]_<<part, vars, fileVars>>

Sym ==
  Permutations(Thread) \cup Permutations(Vno)
  \cup Permutations(Slot) \cup Permutations(Frame)

-----------------------------------------------------------------------------
PartsTypeOK == TypeOK /\ FilesTypeOK
=============================================================================
