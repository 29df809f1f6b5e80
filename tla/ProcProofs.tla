----------------------------- MODULE ProcProofs -----------------------------
(***************************************************************************)
(* The process tree, for any number of process slots and devices: the tree *)
(* stays a tree, the queues stay consistent and no freed process is        *)
(* referred to.  When closing files does not sleep, no wakeup of a waiting *)
(* parent is lost and no KASSERT fails either.                             *)
(***************************************************************************)
EXTENDS Proc, SchedProofs, FiniteSetTheorems

USE SchedAssumption, ProcAssumption

-----------------------------------------------------------------------------
(* Every set of processes without idle has one whose parent is outside: the*)
(* parent pointers lead to idle and nowhere round in a circle.             *)
Grounded ==
  \A S \in SUBSET Thread :
    S # {} /\ idle \notin S /\ (\A p \in S : Live(p))
      => \E p \in S : p_pproc[p] \notin S

(* idle is the root and init its only child, which is the last to exit; a  *)
(* zombie has handed its children over.                                    *)
Family ==
  /\ p_pproc[idle] = NULL
  /\ \A p \in Thread : Live(p) => (p_pproc[p] = idle <=> p = init)
  /\ ~Live(init) => pc[idle] = "halted"
  /\ pc[init] \in {"none", "exiting", "cleanup", "zombie"} =>
       \A p \in Thread : Live(p) => p \in {idle, init}
  /\ \A p \in Thread : pc[p] = "zombie" => p_children[p] = <<>>

(* idle waits for init until it halts the machine, and keeps the CPU then. *)
IdleStays ==
  /\ pc[idle] \in {"run", "waitpid", "halted"}
  /\ ~kt_cancelled[idle]
  /\ pc[idle] = "halted" => curthr = idle /\ ~switching
  /\ \A p \in Thread : pc[p] = "halted" => p = idle

(* A thread in state KT_EXITED that does not have the CPU is a zombie's:   *)
(* what cleanupDeadProcess checks before it frees the process.             *)
ExitedIsZombie ==
  \A p \in Thread :
    kt_state[p] = "KT_EXITED" => pc[p] = "zombie" \/ (p = curthr /\ ~switching)

(* Only the process itself sleeps on its p_wait. *)
OwnQueue ==
  \A p \in Thread :
    kt_wchan[p] \in Thread => kt_wchan[p] = p /\ pc[p] = "waitpid"

Tree  == TreeOK /\ Grounded /\ Family
Place == NoUseAfterFree /\ IdleStays /\ ExitedIsZombie /\ OwnQueue

(* The inductive invariant. *)
IInv == TypeOK /\ QueuesOK /\ Tree /\ Place

(* The part of TypeOK that QueueOK does not have. *)
OtherTypesOK ==
  /\ p_state \in [Thread -> ProcState]
  /\ curthr \in Thread
  /\ switching \in BOOLEAN
  /\ panic \in BOOLEAN
  /\ proc_list \in Seq(Thread)
  /\ p_children \in [Thread -> Seq(Thread)]
  /\ p_pproc \in [Thread -> Thread \cup {NULL}]
  /\ pc \in [Thread -> PC]
  /\ wpid \in [Thread -> Thread \cup {AnyChild, NULL}]

LEMMA IInvParts == IInv <=> QueueOK /\ OtherTypesOK /\ Tree /\ Place
  BY DEF IInv, TypeOK, SchedTypeOK, QueuesOK, QueueOK, OtherTypesOK

LEMMA IInvPartsPrime == IInv' <=> QueueOK' /\ OtherTypesOK' /\ Tree' /\ Place'
  BY DEF IInv, TypeOK, SchedTypeOK, QueuesOK, QueueOK, OtherTypesOK

(* A process that has the CPU is on no queue. *)
LEMMA RunningUnlinked ==
  ASSUME IInv, NEW p \in Thread, NEW l \in PC \ {"none", "zombie"}, At(p, l)
  PROVE  /\ p = curthr /\ ~switching /\ ~panic /\ pc[p] = l
         /\ kt_wchan[p] = NULL
         /\ p # idle => Live(init)
  BY DEF IInv, Place, NoUseAfterFree, At, Running, Tree, Family, IdleStays

-----------------------------------------------------------------------------
(* Without children init is the only process but idle. *)
LEMMA InitIsLast ==
  ASSUME IInv, Live(init), p_children[init] = <<>>
  PROVE  \A p \in Thread : Live(p) => p \in {idle, init}
  <1> DEFINE S == {p \in Thread : Live(p)} \ {idle, init}
  <1> SUFFICES ASSUME S # {} PROVE FALSE
    OBVIOUS
  <1>1. PICK p \in S : p_pproc[p] \notin S
    <2>1. S \in SUBSET Thread /\ idle \notin S /\ \A p \in S : Live(p)
      OBVIOUS
    <2> HIDE DEF S
    <2> QED
      BY <2>1 DEF IInv, Tree, Grounded
  <1>2. p_pproc[p] \in {idle, init}
    BY <1>1 DEF IInv, Tree, TreeOK
  <1>3. p_pproc[p] = init
    BY <1>2 DEF IInv, Tree, Family
  <1>4. p \in ToSet(p_children[init])
    BY <1>3 DEF IInv, Tree, TreeOK
  <1> QED
    BY <1>4, EmptyQueue

(* Process p goes on with l and stays alive; the tree does not change.     *)
LEMMA GotoKeepsTree ==
  ASSUME IInv, NEW p \in Thread, NEW l \in PC \ {"none", "zombie", "halted"},
         pc[p] \notin {"none", "halted"}, Goto(p, l), UNCHANGED treeVars,
         p = init /\ l \in {"exiting", "cleanup"} =>
           pc[init] \in {"exiting", "cleanup"} \/ p_children[init] = <<>>
  PROVE  Tree'
  <1>1. /\ pc' = [pc EXCEPT ![p] = l]
        /\ proc_list' = proc_list /\ p_children' = p_children
        /\ p_pproc' = p_pproc
    BY DEF Goto, treeVars
  <1>2. pc \in [Thread -> PC]
    BY DEF IInv, TypeOK
  <1>3. \A q \in Thread : Live(q)' <=> Live(q)
    BY <1>1, <1>2 DEF Live
  <1>4. TreeOK' /\ Grounded'
    BY <1>1, <1>3 DEF IInv, Tree, TreeOK, Grounded
  <1>5. pc[init] # "none" /\ p_children[init] = <<>> =>
          \A q \in Thread : Live(q) => q \in {idle, init}
    BY InitIsLast DEF Live
  <1>6. Family'
    BY <1>1, <1>2, <1>3, <1>5 DEF IInv, Tree, Family, Live
  <1> QED
    BY <1>4, <1>6 DEF Tree

(* Nothing the tree consists of changes. *)
LEMMA SameTree ==
  ASSUME IInv, UNCHANGED <<treeVars, pc>>
  PROVE  Tree'
  BY DEF IInv, Tree, TreeOK, Grounded, Family, Live, treeVars

(* The lists and pointers that a step changes, as sets. *)
LEMMA TreeFacts ==
  ASSUME IInv
  PROVE  /\ proc_list \in Seq(Thread) /\ Injective(proc_list)
         /\ p_children \in [Thread -> Seq(Thread)]
         /\ p_pproc \in [Thread -> Thread \cup {NULL}]
         /\ pc \in [Thread -> PC]
         /\ \A p \in Thread : Live(p) <=> p \in ToSet(proc_list)
         /\ \A p \in Thread : Live(p) /\ p # idle =>
              p_pproc[p] \in Thread /\ Live(p_pproc[p])
         /\ \A p \in Thread : Live(p) =>
              /\ Injective(p_children[p])
              /\ \A c \in Thread : c \in ToSet(p_children[p]) <=>
                                     Live(c) /\ p_pproc[c] = p
  BY DEF IInv, TypeOK, Tree, TreeOK, NoDuplicates, Injective

(* TreeOK after a step, member by member as the lemmas on queues have it.  *)
LEMMA TreeByMembers ==
  ASSUME p_children' \in [Thread -> Seq(Thread)],
         Injective(proc_list'),
         \A p \in Thread : Live(p)' <=> p \in ToSet(proc_list'),
         \A p \in Thread : Live(p)' /\ p # idle =>
           p_pproc'[p] \in Thread /\ Live(p_pproc[p])',
         \A p \in Thread : Live(p)' =>
           /\ Injective(p_children'[p])
           /\ \A c \in Thread : c \in ToSet(p_children'[p]) <=>
                                  Live(c)' /\ p_pproc'[c] = p
  PROVE  TreeOK'
  <1>1. ASSUME NEW p \in Thread, Live(p)'
        PROVE  ToSet(p_children'[p]) = {c \in Thread : Live(c)' /\ p_pproc'[c] = p}
    <2>1. ToSet(p_children'[p]) \subseteq Thread
      BY MemberNonEmpty
    <2> QED
      BY <2>1, <1>1
  <1> QED
    BY <1>1 DEF TreeOK, NoDuplicates, Injective, Live

(* A process p creates c. *)
LEMMA CreateKeepsTree ==
  ASSUME IInv, NEW p \in Thread, NEW c \in Thread, proc_create(p, c)
  PROVE  Tree'
  <1>1. /\ p # idle /\ pc[p] = "run" /\ pc[c] = "none"
        /\ proc_list' = Append(proc_list, c)
        /\ p_children' = [p_children EXCEPT ![p] = Append(@, c), ![c] = <<>>]
        /\ p_pproc' = [p_pproc EXCEPT ![c] = p]
        /\ pc' = [pc EXCEPT ![c] = "run"]
    BY DEF proc_create, Calls, At, Goto
  <1>2. Live(init)
    BY <1>1, RunningUnlinked DEF proc_create, Calls, PC
  <1>3. /\ c # p /\ c # init /\ c # idle /\ Live(p) /\ ~Live(c)
        /\ pc[init] \notin {"exiting", "cleanup", "zombie"}
    BY <1>1, <1>2 DEF IInv, Tree, Family, Place, IdleStays, Live
  <1> DEFINE list == Append(proc_list, c)
             siblings == Append(p_children[p], c)
  <1>4. /\ list \in Seq(Thread) /\ Injective(list)
        /\ ToSet(list) = ToSet(proc_list) \cup {c}
    BY <1>3, TreeFacts, AppendQueue
  <1>5. /\ siblings \in Seq(Thread) /\ Injective(siblings)
        /\ ToSet(siblings) = ToSet(p_children[p]) \cup {c}
    BY <1>3, TreeFacts, AppendQueue
  <1>6. /\ p_children' = [p_children EXCEPT ![p] = siblings, ![c] = <<>>]
        /\ proc_list' = list
    BY <1>1, <1>3, TreeFacts
  <1> HIDE DEF list, siblings
  <1>7. \A q \in Thread : Live(q)' <=> Live(q) \/ q = c
    BY <1>1, TreeFacts DEF Live
  <1>8. \A q \in Thread : Live(q) => p_pproc[q] # c /\ p_pproc'[q] = p_pproc[q]
    <2>1. ASSUME NEW q \in Thread, Live(q) PROVE p_pproc[q] # c
      <3>1. p_pproc[idle] = NULL
        BY DEF IInv, Tree, Family
      <3> QED
        BY <2>1, <3>1, <1>3, TreeFacts
    <2> QED
      BY <2>1, <1>1, <1>3, TreeFacts
  <1>9. p_pproc'[c] = p
    BY <1>1, TreeFacts
  <1>10. TreeOK'
    <2>1. p_children' \in [Thread -> Seq(Thread)]
      BY <1>5, <1>6, TreeFacts, EmptySeq
    <2>2. Injective(proc_list')
      BY <1>4, <1>6
    <2>3. \A q \in Thread : Live(q)' <=> q \in ToSet(proc_list')
      BY <1>4, <1>6, <1>7, TreeFacts
    <2>4. \A q \in Thread : Live(q)' /\ q # idle =>
            p_pproc'[q] \in Thread /\ Live(p_pproc[q])'
      BY <1>3, <1>7, <1>8, <1>9, TreeFacts
    <2>5. ASSUME NEW q \in Thread, Live(q)'
          PROVE  /\ Injective(p_children'[q])
                 /\ \A d \in Thread : d \in ToSet(p_children'[q]) <=>
                                        Live(d)' /\ p_pproc'[d] = q
      <3>1. CASE q = p
        <4>1. p_children'[p] = siblings
          BY <1>3, <1>6, TreeFacts
        <4>2. \A d \in Thread : d \in ToSet(siblings) <=>
                (Live(d) /\ p_pproc[d] = p) \/ d = c
          BY <1>3, <1>5, TreeFacts
        <4> QED
          BY <3>1, <4>1, <4>2, <1>3, <1>5, <1>7, <1>8, <1>9
      <3>2. CASE q = c
        <4>1. p_children'[c] = <<>>
          BY <1>3, <1>6, TreeFacts
        <4>2. \A d \in Thread : ~(Live(d)' /\ p_pproc'[d] = c)
          BY <1>3, <1>7, <1>8, <1>9
        <4>3. Injective(p_children'[c]) /\ ToSet(p_children'[c]) = {}
          BY <4>1, EmptyQueue
        <4> QED
          BY <3>2, <4>2, <4>3
      <3>3. CASE q \notin {p, c}
        <4>1. Live(q) /\ p_children'[q] = p_children[q]
          BY <2>5, <3>3, <1>6, <1>7, TreeFacts
        <4>2. \A d \in Thread : d \in ToSet(p_children[q]) <=>
                Live(d) /\ p_pproc[d] = q
          BY <4>1, TreeFacts
        <4>3. Injective(p_children[q])
          BY <4>1, TreeFacts
        <4> QED
          BY <4>1, <4>2, <4>3, <3>3, <1>3, <1>7, <1>8, <1>9
      <3> QED
        BY <3>1, <3>2, <3>3
    <2> QED
      BY <2>1, <2>2, <2>3, <2>4, <2>5, TreeByMembers
  <1>11. Grounded'
    <2> SUFFICES ASSUME NEW S \in SUBSET Thread, S # {}, idle \notin S,
                        \A q \in S : Live(q)'
                 PROVE  \E q \in S : p_pproc'[q] \notin S
      BY DEF Grounded
    <2>1. CASE S = {c}
      BY <2>1, <1>3, <1>9
    <2>2. CASE S # {c}
      <3>1. S \ {c} \in SUBSET Thread /\ S \ {c} # {}
            /\ \A q \in S \ {c} : Live(q)
        BY <2>2, <1>7
      <3>2. PICK q \in S \ {c} : p_pproc[q] \notin S \ {c}
        BY <3>1 DEF IInv, Tree, Grounded
      <3> QED
        BY <3>1, <3>2, <1>8
    <2> QED
      BY <2>1, <2>2
  <1>12. Family'
    <2>1. \A q \in Thread : q # c => pc'[q] = pc[q]
      BY <1>1, TreeFacts
    <2>2. \A q \in Thread : pc'[q] = "zombie" => p_children'[q] = <<>>
      BY <2>1, <1>1, <1>3, <1>6, TreeFacts DEF IInv, Tree, Family
    <2>3. p_pproc'[idle] = NULL
      BY <1>1, <1>3, TreeFacts DEF IInv, Tree, Family
    <2>4. \A q \in Thread : Live(q)' => (p_pproc'[q] = idle <=> q = init)
      BY <1>1, <1>3, <1>7, <1>8, <1>9 DEF IInv, Tree, Family
    <2> QED
      BY <2>1, <2>2, <2>3, <2>4, <1>2, <1>3, <1>7 DEF Family, Live
  <1> QED
    BY <1>10, <1>11, <1>12 DEF Tree

(* A process that exits hands its children over to init. *)
LEMMA CleanupKeepsTree ==
  ASSUME IInv, NEW p \in Thread, proc_cleanup(p)
  PROVE  Tree'
  <1>1. /\ pc[p] = "cleanup" /\ pc' = [pc EXCEPT ![p] = "zombie"]
        /\ proc_list' = proc_list
    BY DEF proc_cleanup, At, Goto
  <1>2. p # idle /\ Live(p) /\ Live(init)
    <2>1. p # idle
      BY <1>1 DEF IInv, Place, IdleStays
    <2> QED
      BY <2>1, <1>1, RunningUnlinked DEF proc_cleanup, PC, Live
  <1>3. \A q \in Thread : Live(q)' <=> Live(q)
    BY <1>1, TreeFacts DEF Live
  <1>4. \A q \in Thread : q # p => pc'[q] = pc[q]
    BY <1>1, TreeFacts
  <1>5. CASE p = init
    <2>1. UNCHANGED <<p_children, p_pproc>>
      BY <1>5 DEF proc_cleanup
    <2>2. TreeOK' /\ Grounded'
      BY <1>1, <1>3, <2>1 DEF IInv, Tree, TreeOK, Grounded
    <2>3. \A q \in Thread : Live(q) => q \in {idle, init}
      BY <1>1, <1>5 DEF IInv, Tree, Family
    <2>4. p_children[init] = <<>>
      <3>1. ASSUME NEW c \in Thread PROVE c \notin ToSet(p_children[init])
        BY <2>3, <1>2, TreeFacts DEF IInv, Tree, Family
      <3> QED
        BY <3>1, TreeFacts, MemberNonEmpty
    <2>5. Family'
      BY <1>1, <1>2, <1>3, <1>4, <1>5, <2>1, <2>3, <2>4
         DEF IInv, Tree, Family, Live
    <2> QED
      BY <2>2, <2>5 DEF Tree
  <1>6. CASE p # init
    <2> DEFINE orphans == ToSet(p_children[p])
               adopted == p_children[init] \o p_children[p]
    <2>1. /\ p_children' = [p_children EXCEPT ![p] = <<>>, ![init] = adopted]
          /\ p_pproc' = [c \in Thread |-> IF c \in orphans THEN init
                                          ELSE p_pproc[c]]
      BY <1>6, TreeFacts DEF proc_cleanup
    <2>2. \A c \in Thread : c \in orphans <=> Live(c) /\ p_pproc[c] = p
      BY <1>2, TreeFacts
    <2>3. idle \notin orphans /\ init \notin orphans
      BY <1>2, <2>2 DEF IInv, Tree, Family
    <2>4. /\ adopted \in Seq(Thread) /\ Injective(adopted)
          /\ ToSet(adopted) = ToSet(p_children[init]) \cup orphans
      <3>1. ToSet(p_children[init]) \cap orphans = {}
        <4>1. ToSet(p_children[init]) \subseteq Thread
          BY TreeFacts, MemberNonEmpty
        <4> QED
          BY <4>1, <1>2, <1>6, <2>2, TreeFacts
      <3> QED
        BY <3>1, <1>2, TreeFacts, ConcatQueue
    <2>5. pc[init] \notin {"exiting", "cleanup", "zombie"}
      BY <1>2, <1>6 DEF IInv, Tree, Family
    <2> HIDE DEF orphans, adopted
    <2>6. \A q \in Thread : p_pproc'[q] = IF q \in orphans THEN init ELSE p_pproc[q]
      BY <2>1
    <2>7. /\ p_children'[p] = <<>> /\ p_children'[init] = adopted
          /\ \A q \in Thread \ {p, init} : p_children'[q] = p_children[q]
          /\ p_children' \in [Thread -> Seq(Thread)]
      <3>1. <<>> \in Seq(Thread) /\ p_children \in [Thread -> Seq(Thread)]
        BY TreeFacts, EmptySeq
      <3> QED
        BY <3>1, <1>6, <2>1, <2>4
    <2>8. TreeOK'
      <3>1. Injective(proc_list') /\ \A q \in Thread : Live(q)' <=> q \in ToSet(proc_list')
        BY <1>1, <1>3, TreeFacts
      <3>2. ASSUME NEW q \in Thread, Live(q)', q # idle
            PROVE  p_pproc'[q] \in Thread /\ Live(p_pproc[q])'
        <4>1. CASE q \in orphans
          BY <4>1, <1>2, <1>3, <2>6
        <4>2. CASE q \notin orphans
          BY <3>2, <4>2, <1>3, <2>6, TreeFacts
        <4> QED
          BY <4>1, <4>2
      <3>3. ASSUME NEW q \in Thread, Live(q)'
            PROVE  /\ Injective(p_children'[q])
                   /\ \A d \in Thread : d \in ToSet(p_children'[q]) <=>
                                          Live(d)' /\ p_pproc'[d] = q
        <4>1. CASE q = p
          BY <4>1, <1>3, <1>6, <2>2, <2>6, <2>7, EmptyQueue
        <4>2. CASE q = init
          <5>1. \A d \in Thread : d \in ToSet(adopted) <=>
                  Live(d) /\ p_pproc[d] \in {init, p}
            BY <1>2, <2>2, <2>4, TreeFacts
          <5> QED
            BY <4>2, <5>1, <1>3, <1>6, <2>2, <2>4, <2>6, <2>7
        <4>3. CASE q \notin {p, init}
          BY <3>3, <4>3, <1>3, <2>2, <2>6, <2>7, TreeFacts
        <4> QED
          BY <4>1, <4>2, <4>3
      <3> QED
        BY <3>1, <3>2, <3>3, <2>7, TreeByMembers
    <2>9. Grounded'
      <3> SUFFICES ASSUME NEW S \in SUBSET Thread, S # {}, idle \notin S,
                          \A q \in S : Live(q)'
                   PROVE  \E q \in S : p_pproc'[q] \notin S
        BY DEF Grounded
      <3>1. CASE init \in S
        BY <3>1, <1>2, <2>3, <2>6 DEF IInv, Tree, Family
      <3>2. CASE init \notin S
        <4>1. PICK q \in S : p_pproc[q] \notin S
          BY <1>3 DEF IInv, Tree, Grounded
        <4> QED
          BY <4>1, <3>2, <2>6
      <3> QED
        BY <3>1, <3>2
    <2>10. Family'
      <3>1. \A q \in Thread : pc'[q] = "zombie" => p_children'[q] = <<>>
        BY <1>4, <1>6, <2>5, <2>7 DEF IInv, Tree, Family
      <3>2. /\ p_pproc'[idle] = NULL
            /\ \A q \in Thread : Live(q)' => (p_pproc'[q] = idle <=> q = init)
        BY <1>3, <2>3, <2>6 DEF IInv, Tree, Family
      <3> QED
        BY <3>1, <3>2, <1>2, <1>4, <1>6, <2>5 DEF Family, Live
    <2> QED
      BY <2>8, <2>9, <2>10 DEF Tree
  <1> QED
    BY <1>5, <1>6

(* A process p reaps its child c. *)
LEMMA ReapKeepsTree ==
  ASSUME IInv, NEW p \in Thread, NEW l \in {"run", "waitpid"}, At(p, l),
         NEW c \in ToSet(p_children[p]), kt_state[c] = "KT_EXITED",
         cleanupDeadProcess(p, c)
  PROVE  /\ Tree' /\ pc[c] = "zombie" /\ c # p /\ c \in Thread
         /\ p = idle => c = init
  <1>1. /\ proc_list' = RemoveFirst(proc_list, c)
        /\ p_children' = [p_children EXCEPT ![p] = RemoveFirst(@, c)]
        /\ p_pproc' = [p_pproc EXCEPT ![c] = NULL]
        /\ pc' = [pc EXCEPT ![c] = "none",
                            ![p] = IF p = idle THEN "halted" ELSE "run"]
    BY DEF cleanupDeadProcess, AssertFails
  <1>2. /\ p = curthr /\ ~switching /\ pc[p] = l /\ Live(p) /\ Live(init)
    BY RunningUnlinked DEF PC, Live, At, Running, IInv, Tree, Family
  <1>3. c \in Thread /\ Live(c) /\ p_pproc[c] = p /\ c # idle
    <2>1. c \in Thread
      BY TreeFacts, MemberNonEmpty
    <2> QED
      BY <2>1, <1>2, TreeFacts DEF IInv, Tree, Family
  <1>4. c # p
    <2>1. {c} \in SUBSET Thread /\ {c} # {} /\ idle \notin {c} /\ \A q \in {c} : Live(q)
      BY <1>3
    <2>2. \E q \in {c} : p_pproc[q] \notin {c}
      BY <2>1 DEF IInv, Tree, Grounded
    <2> QED
      BY <2>2, <1>3
  <1>5. pc[c] = "zombie" /\ p_children[c] = <<>>
    BY <1>2, <1>3, <1>4 DEF IInv, Place, ExitedIsZombie, Tree, Family
  <1>6. p = idle => c = init
    BY <1>3 DEF IInv, Tree, Family
  <1> DEFINE list == RemoveFirst(proc_list, c)
             siblings == RemoveFirst(p_children[p], c)
  <1>7. /\ list \in Seq(Thread) /\ Injective(list)
        /\ ToSet(list) = ToSet(proc_list) \ {c}
    BY <1>3, TreeFacts, RemoveQueue
  <1>8. /\ siblings \in Seq(Thread) /\ Injective(siblings)
        /\ ToSet(siblings) = ToSet(p_children[p]) \ {c}
    BY <1>2, TreeFacts, RemoveQueue
  <1>9. /\ p_children'[p] = siblings
        /\ \A q \in Thread : q # p => p_children'[q] = p_children[q]
        /\ p_children' \in [Thread -> Seq(Thread)]
    BY <1>1, <1>8, TreeFacts
  <1>10. proc_list' = list
    BY <1>1
  <1> HIDE DEF list, siblings
  <1>11. /\ pc'[c] = "none" /\ pc'[p] = IF p = idle THEN "halted" ELSE "run"
         /\ \A q \in Thread \ {c, p} : pc'[q] = pc[q]
    BY <1>1, <1>4, <1>3, TreeFacts
  <1>12. \A q \in Thread : Live(q)' <=> Live(q) /\ q # c
    BY <1>2, <1>4, <1>11 DEF Live
  <1>13. \A q \in Thread : q # c => p_pproc'[q] = p_pproc[q]
    BY <1>1, TreeFacts
  <1>14. \A q \in Thread : Live(q) => p_pproc[q] # c
    BY <1>3, <1>5, TreeFacts, EmptyQueue
  <1>15. TreeOK'
    <2>1. Injective(proc_list') /\ \A q \in Thread : Live(q)' <=> q \in ToSet(proc_list')
      BY <1>7, <1>10, <1>12, TreeFacts
    <2>2. ASSUME NEW q \in Thread, Live(q)', q # idle
          PROVE  p_pproc'[q] \in Thread /\ Live(p_pproc[q])'
      BY <2>2, <1>12, <1>13, <1>14, TreeFacts
    <2>3. ASSUME NEW q \in Thread, Live(q)'
          PROVE  /\ Injective(p_children'[q])
                 /\ \A d \in Thread : d \in ToSet(p_children'[q]) <=>
                                        Live(d)' /\ p_pproc'[d] = q
      <3>1. CASE q = p
        <4>1. \A d \in Thread : d \in ToSet(siblings) <=>
                Live(d) /\ p_pproc[d] = p /\ d # c
          BY <1>2, <1>8, TreeFacts
        <4> QED
          BY <3>1, <4>1, <1>8, <1>9, <1>12, <1>13
      <3>2. CASE q # p
        <4>1. \A d \in Thread : d \in ToSet(p_children[q]) <=>
                Live(d) /\ p_pproc[d] = q
          BY <2>3, <1>12, TreeFacts
        <4>2. Injective(p_children[q])
          BY <2>3, <1>12, TreeFacts
        <4> QED
          BY <3>2, <4>1, <4>2, <1>3, <1>9, <1>12, <1>13
      <3> QED
        BY <3>1, <3>2
    <2> QED
      BY <2>1, <2>2, <2>3, <1>9, TreeByMembers
  <1>16. Grounded'
    <2> SUFFICES ASSUME NEW S \in SUBSET Thread, S # {}, idle \notin S,
                        \A q \in S : Live(q)'
                 PROVE  \E q \in S : p_pproc'[q] \notin S
      BY DEF Grounded
    <2>1. PICK q \in S : p_pproc[q] \notin S
      BY <1>12 DEF IInv, Tree, Grounded
    <2> QED
      BY <2>1, <1>12, <1>13
  <1>17. Family'
    <2>1. /\ p_pproc'[idle] = NULL
          /\ \A q \in Thread : Live(q)' => (p_pproc'[q] = idle <=> q = init)
      BY <1>3, <1>12, <1>13 DEF IInv, Tree, Family
    <2>2. ~Live(init)' => pc'[idle] = "halted"
      BY <1>2, <1>3, <1>11, <1>12 DEF IInv, Tree, Family
    <2>3. pc'[init] \in {"none", "exiting", "cleanup", "zombie"} =>
            \A q \in Thread : Live(q)' => q \in {idle, init}
      BY <1>2, <1>3, <1>5, <1>11, <1>12 DEF IInv, Tree, Family
    <2>4. \A q \in Thread : pc'[q] = "zombie" => p_children'[q] = <<>>
      BY <1>9, <1>11 DEF IInv, Tree, Family
    <2> QED
      BY <2>1, <2>2, <2>3, <2>4 DEF Family, Live
  <1> QED
    BY <1>3, <1>4, <1>5, <1>6, <1>15, <1>16, <1>17 DEF Tree

-----------------------------------------------------------------------------
(* The CPU stays with curthr, which may go on to another step or exit, and *)
(* the sleepers W become runnable.                                         *)
LEMMA WakePlace ==
  ASSUME IInv, NEW W \in SUBSET Thread,
         \A t \in W : kt_wchan[t] \in WaitQ,
         \A t \in Thread : kt_wchan'[t] = IF t \in W THEN kt_runq ELSE kt_wchan[t],
         \A t \in Thread : kt_state'[t] = "KT_EXITED" =>
           kt_state[t] = "KT_EXITED" \/ (t = curthr /\ ~switching),
         UNCHANGED <<curthr, switching>>, kt_cancelled'[idle] = kt_cancelled[idle],
         \A t \in Thread : t # curthr => pc'[t] = pc[t],
         \/ pc'[curthr] = pc[curthr]
         \/ /\ curthr # idle /\ ~switching
            /\ pc[curthr] \notin {"none", "zombie", "halted"}
            /\ pc'[curthr] \notin {"none", "zombie", "halted"}
  PROVE  Place'
  <1>1. curthr \in Thread
    BY DEF IInv, TypeOK, SchedTypeOK
  <1>2. NoUseAfterFree'
    BY <1>1 DEF IInv, Place, NoUseAfterFree, Live
  <1>3. IdleStays'
    BY <1>1 DEF IInv, Place, IdleStays
  <1>4. ExitedIsZombie'
    BY <1>1 DEF IInv, Place, ExitedIsZombie
  <1>5. OwnQueue'
    BY <1>1 DEF IInv, Place, OwnQueue, NoUseAfterFree
  <1> QED
    BY <1>2, <1>3, <1>4, <1>5 DEF Place

(* The running process p goes to sleep on queue q in step l. *)
LEMMA SleepKeeps ==
  ASSUME IInv, NEW p \in Thread, NEW k \in PC \ {"none", "zombie", "halted"},
         At(p, k),
         NEW q \in WaitQ, NEW s \in SleepState, SleepAs(q, s),
         s = "KT_SLEEP_CANCELLABLE" => ~kt_cancelled[p],
         NEW l \in PC \ {"none", "zombie", "halted"}, Goto(p, l),
         IF q \in Thread THEN q = p /\ l = "waitpid" ELSE p # idle
  PROVE  QueueOK' /\ Place' /\ panic' = FALSE
  <1>1. p = curthr /\ kt_wchan[p] = NULL /\ ~switching /\ pc[p] = k
    BY RunningUnlinked
  <1>2. /\ tq' = [tq EXCEPT ![q] = Append(@, p)]
        /\ kt_wchan' = [kt_wchan EXCEPT ![p] = q]
        /\ kt_state' = [kt_state EXCEPT ![p] = s]
        /\ switching' = TRUE /\ panic' = FALSE
        /\ UNCHANGED <<kt_cancelled, curthr>>
    BY <1>1 DEF SleepAs, EnqueueAs
  <1>3. /\ kt_wchan \in [Thread -> Queue \cup {NULL}]
        /\ kt_state \in [Thread -> ThreadState]
        /\ pc \in [Thread -> PC]
        /\ q \in Queue /\ q # NULL /\ q # kt_runq /\ s \in ThreadState
        /\ s # "KT_EXITED"
    BY DEF IInv, TypeOK, SchedTypeOK, Queue, ThreadState, SleepState
  <1>4. QueueOK'
    BY <1>1, <1>2, <1>3, IInvParts, EnqueueKeepsQueues DEF SleepAs
  <1>5. pc' = [pc EXCEPT ![p] = l]
    BY DEF Goto
  <1>6. NoUseAfterFree'
    BY <1>1, <1>2, <1>3, <1>5 DEF IInv, Place, NoUseAfterFree, Live
  <1>7. IdleStays'
    BY <1>1, <1>2, <1>3, <1>5 DEF IInv, Place, IdleStays
  <1>8. ExitedIsZombie'
    BY <1>1, <1>2, <1>3, <1>5 DEF IInv, Place, ExitedIsZombie
  <1>9. OwnQueue'
    BY <1>1, <1>2, <1>3, <1>5 DEF IInv, Place, OwnQueue
  <1> QED
    BY <1>2, <1>4, <1>6, <1>7, <1>8, <1>9 DEF Place

(* A wakeup or broadcast on a wait queue, while the process that has the   *)
(* CPU goes on to its next step or not.                                    *)
LEMMA WakeKeeps ==
  ASSUME IInv, NEW q \in WaitQ, sched_wakeup_on(q) \/ sched_broadcast_on(q),
         \A t \in Thread : t # curthr => pc'[t] = pc[t],
         \/ pc'[curthr] = pc[curthr]
         \/ /\ curthr # idle /\ ~switching
            /\ pc[curthr] \notin {"none", "zombie", "halted"}
            /\ pc'[curthr] \notin {"none", "zombie", "halted"}
  PROVE  /\ QueueOK' /\ Place' /\ panic' = FALSE
         /\ UNCHANGED <<kt_cancelled, p_state, curthr, switching>>
  <1>1. QueueOK /\ q \in Queue /\ q # kt_runq
    BY IInvParts DEF Queue
  <1>2. QueueOK'
    BY <1>1, WakeupKeepsQueues, BroadcastKeepsQueues
  <1>3. UNCHANGED <<kt_cancelled, p_state, curthr, switching>> /\ tq[q] # <<>>
    BY DEF sched_wakeup_on, sched_broadcast_on
  <1>4. /\ kt_wchan \in [Thread -> Queue \cup {NULL}]
        /\ kt_state \in [Thread -> ThreadState]
        /\ \A t \in Thread : kt_wchan[t] = q => kt_state[t] \in SleepState
    BY <1>1 DEF QueueOK, StatesOK
  <1>5. CASE sched_wakeup_on(q)
    <2> DEFINE t == Head(tq[q])
    <2>1. t \in Thread /\ kt_wchan[t] = q
      BY <1>1, <1>3, HeadIsLinked
    <2>2. /\ kt_wchan' = [kt_wchan EXCEPT ![t] = kt_runq]
          /\ kt_state' = [kt_state EXCEPT ![t] = "KT_RUN"]
          /\ panic' = (kt_state[t] \notin SleepState)
      BY <1>5 DEF sched_wakeup_on
    <2> HIDE DEF t
    <2>3. panic' = FALSE
      BY <1>4, <2>1, <2>2
    <2> DEFINE W == {t}
    <2>4. /\ W \in SUBSET Thread /\ \A u \in W : kt_wchan[u] \in WaitQ
          /\ \A u \in Thread : kt_wchan'[u] = IF u \in W THEN kt_runq ELSE kt_wchan[u]
          /\ \A u \in Thread : kt_state'[u] = "KT_EXITED" => kt_state[u] = "KT_EXITED"
      BY <1>4, <2>1, <2>2
    <2> HIDE DEF W
    <2>5. Place'
      BY <1>3, <2>4, WakePlace
    <2> QED
      BY <1>2, <1>3, <2>3, <2>5
  <1>6. CASE sched_broadcast_on(q)
    <2> DEFINE W == ToSet(tq[q])
    <2>1. W \subseteq Thread /\ \A t \in W : kt_wchan[t] = q
      <3>1. tq[q] \in Seq(Thread) /\ LinksOf(q)
        BY <1>1, LinksPerQueue DEF QueueOK
      <3> QED
        BY <3>1, MemberNonEmpty DEF LinksOf
    <2>2. /\ kt_wchan' = [t \in Thread |-> IF t \in W THEN kt_runq ELSE kt_wchan[t]]
          /\ kt_state' = [t \in Thread |-> IF t \in W THEN "KT_RUN" ELSE kt_state[t]]
          /\ panic' = (\E t \in W : kt_state[t] \notin SleepState)
      BY <1>6 DEF sched_broadcast_on
    <2> HIDE DEF W
    <2>3. panic' = FALSE
      BY <1>4, <2>1, <2>2
    <2>4. /\ \A u \in W : kt_wchan[u] \in WaitQ
          /\ \A u \in Thread : kt_wchan'[u] = IF u \in W THEN kt_runq ELSE kt_wchan[u]
          /\ \A u \in Thread : kt_state'[u] = "KT_EXITED" => kt_state[u] = "KT_EXITED"
      BY <2>1, <2>2
    <2>5. Place'
      BY <1>3, <2>1, <2>4, WakePlace
    <2> QED
      BY <1>2, <1>3, <2>3, <2>5
  <1> QED
    BY <1>5, <1>6

-----------------------------------------------------------------------------
(* One lemma per action: the invariant holds after it, and no KASSERT of   *)
(* the queues has failed.                                                  *)
LEMMA CreateKeeps ==
  ASSUME IInv, NEW p \in Thread, NEW c \in Thread, proc_create(p, c)
  PROVE  IInv' /\ panic' = FALSE
  <1>1. /\ p # idle /\ pc[p] = "run" /\ p = curthr /\ ~switching
        /\ pc[c] = "none" /\ c # p
        /\ p_state' = [p_state EXCEPT ![c] = "PROC_RUNNING"]
        /\ kt_cancelled' = [kt_cancelled EXCEPT ![c] = kt_cancelled[p]]
        /\ pc' = [pc EXCEPT ![c] = "run"]
        /\ EnqueueAs(kt_runq, c, "KT_RUN")
        /\ UNCHANGED <<curthr, switching, wpid>>
    BY DEF proc_create, Calls, At, Goto, Running, sched_make_runnable
  <1>2. c # idle /\ kt_wchan[c] = NULL
    BY <1>1 DEF IInv, Place, NoUseAfterFree, IdleStays
  <1>3. Tree'
    BY CreateKeepsTree
  <1>4. /\ kt_cancelled' \in [Thread -> BOOLEAN]
        /\ \A u \in Thread : u # c => kt_cancelled'[u] = kt_cancelled[u]
    BY <1>1 DEF IInv, TypeOK, SchedTypeOK
  <1>5. QueueOK'
    <2>1. kt_runq \in Queue /\ "KT_RUN" \in ThreadState
      BY DEF Queue, ThreadState
    <2> QED
      BY <1>1, <1>2, <1>4, <2>1, IInvParts, EnqueueKeepsLinks
  <1>6. /\ kt_wchan' = [kt_wchan EXCEPT ![c] = kt_runq]
        /\ kt_state' = [kt_state EXCEPT ![c] = "KT_RUN"]
        /\ panic' = FALSE
    BY <1>1, <1>2 DEF EnqueueAs
  <1>7. Place'
    <2>1. /\ kt_wchan \in [Thread -> Queue \cup {NULL}]
          /\ kt_state \in [Thread -> ThreadState] /\ pc \in [Thread -> PC]
          /\ kt_runq \notin Thread \cup {NULL}
      BY DEF IInv, TypeOK, SchedTypeOK
    <2>2. NoUseAfterFree'
      BY <2>1, <1>1, <1>6 DEF IInv, Place, NoUseAfterFree, Live
    <2>3. IdleStays'
      BY <2>1, <1>1, <1>2, <1>4 DEF IInv, Place, IdleStays
    <2>4. ExitedIsZombie'
      BY <2>1, <1>1, <1>6 DEF IInv, Place, ExitedIsZombie
    <2>5. OwnQueue'
      BY <2>1, <1>1, <1>2, <1>6 DEF IInv, Place, OwnQueue
    <2> QED
      BY <2>2, <2>3, <2>4, <2>5 DEF Place
  <1>8. OtherTypesOK'
    <2>1. proc_list' \in Seq(Thread)
      BY AppendQueue, TreeFacts DEF proc_create
    <2>2. p_children' \in [Thread -> Seq(Thread)]
      <3>1. Append(p_children[p], c) \in Seq(Thread) /\ <<>> \in Seq(Thread)
        BY AppendQueue, TreeFacts, EmptySeq
      <3> QED
        BY <3>1, TreeFacts DEF proc_create
    <2>3. p_pproc' \in [Thread -> Thread \cup {NULL}]
      BY TreeFacts DEF proc_create
    <2> QED
      BY <2>1, <2>2, <2>3, <1>1, <1>6
         DEF IInv, TypeOK, SchedTypeOK, OtherTypesOK, ProcState, PC
  <1> QED
    BY <1>3, <1>5, <1>6, <1>7, <1>8, IInvPartsPrime

(* Sleep and CancellableSleep.                                             *)
LEMMA DeviceSleepKeeps ==
  ASSUME IInv, NEW p \in Thread, NEW q \in Device,
         Sleep(p, q) \/ CancellableSleep(p, q)
  PROVE  IInv' /\ panic' = FALSE
  <1>1. PICK s \in SleepState, l \in {"sleep", "csleep"} :
          /\ At(p, "run") /\ p # idle /\ SleepAs(q, s) /\ Goto(p, l)
          /\ s = "KT_SLEEP_CANCELLABLE" => ~kt_cancelled[curthr]
          /\ UNCHANGED <<treeVars, wpid>>
    BY DEF Sleep, CancellableSleep, sched_sleep_on, sched_cancellable_sleep_on,
           SleepState
  <1>2. p = curthr /\ pc[p] = "run"
    BY <1>1 DEF At, Running
  <1>3. QueueOK' /\ Place' /\ panic' = FALSE
    <2>1. /\ q \in WaitQ /\ q \notin Thread
          /\ l \in PC \ {"none", "zombie", "halted"}
          /\ "run" \in PC \ {"none", "zombie", "halted"}
      BY DEF PC
    <2> QED
      BY <1>1, <1>2, <2>1, SleepKeeps
  <1>4. Tree'
    BY <1>1, <1>2, GotoKeepsTree DEF PC
  <1>5. OtherTypesOK'
    BY <1>1, <1>3 DEF IInv, TypeOK, SchedTypeOK, OtherTypesOK, SleepAs, Goto, PC,
                      treeVars
  <1> QED
    BY <1>3, <1>4, <1>5, IInvPartsPrime

(* A running process goes on without touching a queue: a sleep returns or  *)
(* is refused, or the process exits.                                       *)
LEMMA RunningStepKeeps ==
  ASSUME IInv, NEW p \in Thread, NEW k \in PC \ {"none", "zombie", "halted"},
         At(p, k), p # idle,
         NEW l \in PC \ {"none", "zombie", "halted"}, Goto(p, l),
         l \in {"exiting", "cleanup"} /\ p = init => p_children[init] = <<>>,
         \/ UNCHANGED <<kt_state, kt_cancelled>>
         \/ /\ kt_state' = [kt_state EXCEPT ![p] = "KT_EXITED"]
            /\ kt_cancelled' \in [Thread -> BOOLEAN]
            /\ \A u \in Thread : u # p => kt_cancelled'[u] = kt_cancelled[u],
         p_state' \in [Thread -> ProcState],
         UNCHANGED <<tq, kt_wchan, curthr, switching, panic, treeVars, wpid>>
  PROVE  IInv' /\ panic' = FALSE
  <1>1. p = curthr /\ kt_wchan[p] = NULL /\ ~switching /\ ~panic /\ pc[p] = k
    BY RunningUnlinked
  <1>2. Tree'
    BY <1>1, GotoKeepsTree
  <1>3. QueueOK'
    <2>1. CASE UNCHANGED <<kt_state, kt_cancelled>>
      BY <2>1, IInvParts DEF QueueOK, LinksOK, StatesOK
    <2>2. CASE kt_state' = [kt_state EXCEPT ![p] = "KT_EXITED"]
      <3>1. "KT_EXITED" \in ThreadState \ SleepState
        BY DEF ThreadState, SleepState
      <3>2. kt_cancelled' \in [Thread -> BOOLEAN]
        BY DEF IInv, TypeOK, SchedTypeOK
      <3> QED
        BY <1>1, <2>2, <3>1, <3>2, IInvParts, ChangeOffQueue
    <2> QED
      BY <2>1, <2>2
  <1>4. Place'
    <2> DEFINE W == {}
    <2>1. /\ W \in SUBSET Thread /\ \A t \in W : kt_wchan[t] \in WaitQ
          /\ \A t \in Thread : kt_wchan'[t] = IF t \in W THEN kt_runq ELSE kt_wchan[t]
      OBVIOUS
    <2>2. \A t \in Thread : kt_state'[t] = "KT_EXITED" =>
            kt_state[t] = "KT_EXITED" \/ (t = curthr /\ ~switching)
      BY <1>1 DEF IInv, TypeOK, SchedTypeOK
    <2>3. /\ \A t \in Thread : t # curthr => pc'[t] = pc[t]
          /\ pc'[curthr] = l
      BY <1>1 DEF Goto, IInv, TypeOK
    <2> HIDE DEF W
    <2> QED
      BY <1>1, <2>1, <2>2, <2>3, WakePlace
  <1>5. OtherTypesOK'
    BY DEF IInv, TypeOK, SchedTypeOK, OtherTypesOK, Goto, treeVars
  <1> QED
    BY <1>1, <1>2, <1>3, <1>4, <1>5, IInvPartsPrime

LEMMA WakeStepKeeps ==
  ASSUME IInv, NEW p \in Thread, Wake(p) \/ WakeCancelled(p) \/ do_exit(p)
  PROVE  IInv' /\ panic' = FALSE
  <1>1. PICK k \in {"run", "sleep", "csleep", "eintr"} : At(p, k)
    BY DEF Wake, WakeCancelled, do_exit
  <1>2. p = curthr /\ pc[p] = k /\ kt_wchan[p] = NULL
    BY <1>1, RunningUnlinked DEF PC
  <1>3. {"run", "sleep", "csleep", "eintr", "exiting"}
          \subseteq PC \ {"none", "zombie", "halted"}
    BY DEF PC
  <1>4. p_state \in [Thread -> ProcState] /\ kt_cancelled \in [Thread -> BOOLEAN]
        /\ kt_wchan \in [Thread -> Queue \cup {NULL}]
    BY DEF IInv, TypeOK, SchedTypeOK
  <1>5. CASE Wake(p)
    <2>1. p # idle
      BY <1>5, <1>2 DEF Wake, At, IInv, Place, IdleStays
    <2>2. /\ UNCHANGED <<kt_state, kt_cancelled, tq, kt_wchan, curthr, switching,
                         panic, p_state, treeVars, wpid>>
          /\ Goto(p, "run")
      BY <1>5 DEF Wake, schedVars
    <2> QED
      BY <1>1, <1>3, <1>4, <2>1, <2>2, RunningStepKeeps
  <1>6. CASE WakeCancelled(p)
    <2>1. p # idle
      BY <1>6, <1>2 DEF WakeCancelled, SleepCancelled, IInv, Place, IdleStays
    <2>2. /\ kt_state' = [kt_state EXCEPT ![p] = "KT_EXITED"]
          /\ UNCHANGED <<kt_cancelled, tq, kt_wchan, curthr, switching,
                         panic, treeVars, wpid>>
          /\ p_state' \in [Thread -> ProcState]
          /\ Goto(p, "eintr")
      BY <1>6, <1>2, <1>4 DEF WakeCancelled, SleepCancelled, ProcState
    <2> QED
      BY <1>1, <1>3, <1>4, <2>1, <2>2, RunningStepKeeps
  <1>7. CASE do_exit(p)
    <2>1. /\ p # idle /\ (p = init => p_children[init] = <<>>)
          /\ kt_cancelled' = [kt_cancelled EXCEPT ![p] = TRUE]
          /\ kt_state' = [kt_state EXCEPT ![p] = "KT_EXITED"]
          /\ kt_wchan' = kt_wchan
          /\ UNCHANGED <<tq, p_state, curthr, switching, panic, treeVars, wpid>>
          /\ Goto(p, "exiting")
      BY <1>7, <1>2, <1>4 DEF do_exit
    <2>2. /\ kt_cancelled' \in [Thread -> BOOLEAN]
          /\ \A u \in Thread : u # p => kt_cancelled'[u] = kt_cancelled[u]
      BY <1>4, <2>1
    <2> QED
      BY ZenonT(40), <1>1, <1>3, <1>4, <2>1, <2>2, RunningStepKeeps
  <1> QED
    BY <1>5, <1>6, <1>7

(* proc_kill_all: what the cancelled sleepers' queues become. *)
LEMMA KillKeepsQueues ==
  ASSUME IInv, NEW p \in Thread, proc_kill_all(p)
  PROVE  QueueOK'
  <1> DEFINE W == {v \in Victims(p) : kt_state[v] = "KT_SLEEP_CANCELLABLE"}
             cut == Only(proc_list, W)
             both == tq[kt_runq] \o cut
  <1>1. /\ tq \in [Queue -> Seq(Thread)]
        /\ kt_wchan \in [Thread -> Queue \cup {NULL}]
        /\ kt_state \in [Thread -> ThreadState]
        /\ kt_cancelled \in [Thread -> BOOLEAN]
        /\ \A r \in Queue : LinksOf(r)
        /\ StatesOK /\ kt_runq \in Queue /\ kt_runq \notin WaitQ /\ NULL \notin Queue
    BY IInvParts, LinksPerQueue DEF QueueOK, Queue
  <1>2. kt_wchan[p] = NULL /\ p = curthr
    BY RunningUnlinked DEF proc_kill_all, Calls, PC
  <1>3. /\ tq' = [q \in Queue |-> IF q = kt_runq THEN both
                                  ELSE Only(tq[q], Thread \ W)]
        /\ kt_wchan' = [t \in Thread |-> IF t \in W THEN kt_runq ELSE kt_wchan[t]]
        /\ kt_state' = [t \in Thread |->
                          IF t \in W THEN "KT_RUN"
                          ELSE IF t = p THEN "KT_EXITED" ELSE kt_state[t]]
        /\ kt_cancelled' = [t \in Thread |->
                              kt_cancelled[t] \/ t \in Victims(p) \cup {p}]
    BY DEF proc_kill_all
  <1>4. /\ W \subseteq Victims(p) /\ W \subseteq Thread /\ p \notin W
        /\ W \subseteq ToSet(proc_list)
        /\ \A t \in W : kt_wchan[t] \in WaitQ
        /\ \A t \in Victims(p) : kt_state[t] = "KT_SLEEP_CANCELLABLE" => t \in W
    <2>1. ToSet(proc_list) \subseteq Thread
      BY TreeFacts, MemberNonEmpty
    <2> QED
      BY <2>1, <1>1 DEF Victims, StatesOK
  <1>5. cut \in Seq(Thread) /\ ToSet(cut) = W /\ Injective(cut)
    <2>1. ToSet(cut) = ToSet(proc_list) \cap W /\ cut \in Seq(Thread) /\ Injective(cut)
      <3> HIDE DEF W
      <3> QED
        BY TreeFacts, OnlyQueue
    <2> HIDE DEF cut, W
    <2> QED
      BY <2>1, <1>4
  <1> HIDE DEF W, cut
  <1>6. both \in Seq(Thread) /\ ToSet(both) = ToSet(tq[kt_runq]) \cup W
        /\ Injective(both)
    <2>1. /\ tq[kt_runq] \in Seq(Thread) /\ Injective(tq[kt_runq])
          /\ \A t \in W : t \notin ToSet(tq[kt_runq])
      BY <1>1, <1>4 DEF LinksOf
    <2>2. ToSet(tq[kt_runq]) \cap ToSet(cut) = {}
      BY <2>1, <1>5
    <2> QED
      BY <2>1, <2>2, <1>5, ConcatQueue
  <1> HIDE DEF both
  <1>7. ASSUME NEW q \in Queue
        PROVE  /\ Only(tq[q], Thread \ W) \in Seq(Thread)
               /\ ToSet(Only(tq[q], Thread \ W)) = ToSet(tq[q]) \ W
               /\ Injective(Only(tq[q], Thread \ W))
    <2>1. tq[q] \in Seq(Thread) /\ Injective(tq[q])
      BY <1>1 DEF LinksOf
    <2>2. ToSet(tq[q]) \subseteq Thread
      BY <2>1, MemberNonEmpty
    <2>3. /\ Only(tq[q], Thread \ W) \in Seq(Thread)
          /\ ToSet(Only(tq[q], Thread \ W)) = ToSet(tq[q]) \cap (Thread \ W)
          /\ Injective(Only(tq[q], Thread \ W))
      BY <2>1, OnlyQueue
    <2> QED
      BY <2>2, <2>3
  <1>8. /\ tq' \in [Queue -> Seq(Thread)]
        /\ kt_wchan' \in [Thread -> Queue \cup {NULL}]
        /\ kt_state' \in [Thread -> ThreadState]
        /\ kt_cancelled' \in [Thread -> BOOLEAN]
    <2>1. "KT_RUN" \in ThreadState /\ "KT_EXITED" \in ThreadState
      BY DEF ThreadState
    <2> QED
      BY <2>1, <1>1, <1>3, <1>6, <1>7
  <1>9. ASSUME NEW q \in Queue PROVE LinksOf(q)'
    <2>1. CASE q = kt_runq
      <3>1. tq'[q] = both
        BY <2>1, <1>1, <1>3
      <3> QED
        BY <2>1, <3>1, <1>1, <1>3, <1>4, <1>6 DEF LinksOf
    <2>2. CASE q # kt_runq
      <3>1. tq'[q] = Only(tq[q], Thread \ W)
        BY <2>2, <1>3
      <3>2. Injective(tq'[q])
        BY <3>1, <1>7
      <3>3. ASSUME NEW t \in Thread PROVE t \in ToSet(tq'[q]) <=> kt_wchan'[t] = q
        <4>1. t \in ToSet(tq[q]) <=> kt_wchan[t] = q
          BY <1>1 DEF LinksOf
        <4>2. kt_wchan'[t] = IF t \in W THEN kt_runq ELSE kt_wchan[t]
          BY <1>3
        <4>3. ToSet(tq'[q]) = ToSet(tq[q]) \ W
          BY <3>1, <1>7
        <4> QED
          BY <4>1, <4>2, <4>3, <2>2
      <3> QED
        BY <3>2, <3>3 DEF LinksOf
    <2> QED
      BY <2>1, <2>2
  <1>10. StatesOK'
    <2> SUFFICES ASSUME NEW t \in Thread
                 PROVE  /\ kt_wchan'[t] \in WaitQ => kt_state'[t] \in SleepState
                        /\ kt_wchan'[t] = kt_runq => kt_state'[t] = "KT_RUN"
                        /\ kt_state'[t] = "KT_SLEEP_CANCELLABLE" =>
                             kt_wchan'[t] \in WaitQ /\ ~kt_cancelled'[t]
      BY DEF StatesOK
    <2>1. CASE t \in W
      BY <2>1, <1>1, <1>3
    <2>2. CASE t = p
      BY <2>2, <1>1, <1>2, <1>3, <1>4
    <2>3. CASE t \notin W /\ t # p
      BY <2>3, <1>1, <1>3, <1>4 DEF StatesOK
    <2> QED
      BY <2>1, <2>2, <2>3
  <1> QED
    BY <1>8, <1>9, <1>10, LinksPerQueuePrime DEF QueueOK

(* proc_kill_all: the caller exits, and the sleepers that were cut short   *)
(* will find that they have been cancelled.                                *)
LEMMA KillKeeps ==
  ASSUME IInv, NEW p \in Thread, proc_kill_all(p)
  PROVE  IInv' /\ panic' = FALSE
  <1> DEFINE W == {v \in Victims(p) : kt_state[v] = "KT_SLEEP_CANCELLABLE"}
  <1>1. /\ p \notin {idle, init} /\ At(p, "run") /\ Goto(p, "exiting")
        /\ kt_wchan' = [t \in Thread |-> IF t \in W THEN kt_runq ELSE kt_wchan[t]]
        /\ kt_state' = [t \in Thread |->
                          IF t \in W THEN "KT_RUN"
                          ELSE IF t = p THEN "KT_EXITED" ELSE kt_state[t]]
        /\ kt_cancelled' = [t \in Thread |->
                              kt_cancelled[t] \/ t \in Victims(p) \cup {p}]
        /\ UNCHANGED <<p_state, curthr, switching, panic, treeVars, wpid>>
    BY DEF proc_kill_all, Calls
  <1>2. /\ p = curthr /\ ~switching /\ ~panic /\ pc[p] = "run"
    BY <1>1, RunningUnlinked DEF PC
  <1>3. W \in SUBSET Thread /\ \A t \in W : kt_wchan[t] \in WaitQ
    <2>1. ToSet(proc_list) \subseteq Thread
      BY TreeFacts, MemberNonEmpty
    <2> QED
      BY <2>1, IInvParts DEF Victims, QueueOK, StatesOK
  <1>4. idle \notin Victims(p)
    BY DEF Victims
  <1> HIDE DEF W
  <1>5. Place'
    <2>1. /\ \A t \in Thread : kt_wchan'[t] = IF t \in W THEN kt_runq ELSE kt_wchan[t]
          /\ \A t \in Thread : kt_state'[t] = "KT_EXITED" =>
               kt_state[t] = "KT_EXITED" \/ (t = curthr /\ ~switching)
      BY <1>1, <1>2
    <2>2. kt_cancelled'[idle] = kt_cancelled[idle]
      BY <1>1, <1>4 DEF IInv, TypeOK, SchedTypeOK
    <2>3. /\ \A t \in Thread : t # curthr => pc'[t] = pc[t]
          /\ pc'[curthr] = "exiting"
      BY <1>1, <1>2 DEF Goto, IInv, TypeOK
    <2> QED
      BY <1>1, <1>2, <1>3, <2>1, <2>2, <2>3, WakePlace
  <1>6. Tree'
    BY <1>1, <1>2, GotoKeepsTree DEF PC
  <1>7. OtherTypesOK'
    BY <1>1 DEF IInv, TypeOK, SchedTypeOK, OtherTypesOK, Goto, PC, treeVars
  <1> QED
    BY <1>1, <1>2, <1>5, <1>6, <1>7, KillKeepsQueues, IInvPartsPrime

LEMMA WakeParentKeeps ==
  ASSUME IInv, NEW p \in Thread, WakeParent(p)
  PROVE  IInv' /\ panic' = FALSE
  <1>1. At(p, "exiting") /\ Goto(p, "cleanup") /\ UNCHANGED <<treeVars, wpid>>
    BY DEF WakeParent
  <1>2. /\ p = curthr /\ ~switching /\ ~panic /\ pc[p] = "exiting"
        /\ p # idle
    BY <1>1, RunningUnlinked DEF PC, IInv, Place, IdleStays
  <1>3. {"exiting", "cleanup"} \subseteq PC \ {"none", "zombie", "halted"}
    BY DEF PC
  <1>4. Tree'
    BY <1>1, <1>2, <1>3, GotoKeepsTree
  <1>5. CASE UNCHANGED schedVars
    <2>1. UNCHANGED <<tq, kt_wchan, kt_state, kt_cancelled, p_state, curthr,
                      switching, panic>>
      BY <1>5 DEF schedVars
    <2>2. QueueOK'
      BY <2>1, IInvParts DEF QueueOK, LinksOK, StatesOK
    <2>3. Place'
      <3> DEFINE W == {}
      <3>1. /\ W \in SUBSET Thread /\ \A t \in W : kt_wchan[t] \in WaitQ
            /\ \A t \in Thread : kt_wchan'[t] = IF t \in W THEN kt_runq ELSE kt_wchan[t]
        BY <2>1
      <3>2. \A t \in Thread : t # curthr => pc'[t] = pc[t]
        BY <1>1, <1>2 DEF Goto, IInv, TypeOK
      <3>3. pc'[curthr] = "cleanup"
        BY <1>1, <1>2 DEF Goto, IInv, TypeOK
      <3> HIDE DEF W
      <3> QED
        BY <1>2, <2>1, <3>1, <3>2, <3>3, WakePlace
    <2>4. OtherTypesOK'
      BY <1>1, <2>1 DEF IInv, TypeOK, SchedTypeOK, OtherTypesOK, Goto, PC, treeVars
    <2> QED
      BY <1>2, <1>4, <2>1, <2>2, <2>3, <2>4, IInvPartsPrime
  <1>6. CASE sched_wakeup_on(p_pproc[p])
    <2>1. p_pproc[p] \in WaitQ
      BY <1>2, TreeFacts DEF Live
    <2>2. /\ \A t \in Thread : t # curthr => pc'[t] = pc[t]
          /\ pc'[curthr] = "cleanup"
      BY <1>1, <1>2 DEF Goto, IInv, TypeOK
    <2>3. /\ QueueOK' /\ Place' /\ panic' = FALSE
          /\ UNCHANGED <<kt_cancelled, p_state, curthr, switching>>
      BY <1>2, <1>6, <2>1, <2>2, WakeKeeps
    <2>4. OtherTypesOK'
      BY <1>1, <2>3 DEF IInv, TypeOK, SchedTypeOK, OtherTypesOK, Goto, PC, treeVars
    <2> QED
      BY <1>4, <2>3, <2>4, IInvPartsPrime
  <1> QED
    BY <1>5, <1>6 DEF WakeParent

LEMMA CloseSleepsKeeps ==
  ASSUME IInv, NEW p \in Thread, NEW q \in Device, CloseSleeps(p, q)
  PROVE  IInv' /\ panic' = FALSE
  <1>1. /\ At(p, "cleanup") /\ SleepAs(q, "KT_SLEEP")
        /\ UNCHANGED <<treeVars, pc, wpid>>
    BY DEF CloseSleeps, sched_sleep_on
  <1>2. pc[p] = "cleanup" /\ p # idle /\ Goto(p, "cleanup")
    BY <1>1 DEF At, Goto, IInv, TypeOK, Place, IdleStays
  <1>3. QueueOK' /\ Place' /\ panic' = FALSE
    <2>1. /\ q \in WaitQ /\ q \notin Thread /\ "KT_SLEEP" \in SleepState
          /\ "cleanup" \in PC \ {"none", "zombie", "halted"}
      BY DEF PC, SleepState
    <2> QED
      BY <1>1, <1>2, <2>1, SleepKeeps
  <1>4. Tree'
    BY <1>1, SameTree
  <1>5. OtherTypesOK'
    BY <1>1, <1>3 DEF IInv, TypeOK, SchedTypeOK, OtherTypesOK, SleepAs, treeVars
  <1> QED
    BY <1>3, <1>4, <1>5, IInvPartsPrime

LEMMA CleanupKeeps ==
  ASSUME IInv, NEW p \in Thread, proc_cleanup(p)
  PROVE  IInv' /\ panic' = FALSE
  <1>1. /\ At(p, "cleanup") /\ Goto(p, "zombie")
        /\ p_state' = [p_state EXCEPT ![p] = "PROC_DEAD"]
        /\ switching' = TRUE
        /\ UNCHANGED <<tq, kt_wchan, kt_state, kt_cancelled, curthr, panic,
                       proc_list, wpid>>
    BY DEF proc_cleanup, queueVars
  <1>2. /\ p = curthr /\ ~switching /\ ~panic /\ kt_wchan[p] = NULL
        /\ pc[p] = "cleanup"
    BY <1>1, RunningUnlinked DEF PC
  <1>3. p # idle /\ pc[idle] # "halted"
    BY <1>2 DEF IInv, Place, IdleStays
  <1>4. Tree'
    BY CleanupKeepsTree
  <1>5. QueueOK'
    BY <1>1, IInvParts DEF QueueOK, LinksOK, StatesOK
  <1>6. pc' = [pc EXCEPT ![p] = "zombie"] /\ pc \in [Thread -> PC]
    BY <1>1 DEF Goto, IInv, TypeOK
  <1>7. NoUseAfterFree'
    BY <1>1, <1>2, <1>6 DEF IInv, Place, NoUseAfterFree, Live
  <1>8. IdleStays'
    BY <1>1, <1>3, <1>6 DEF IInv, Place, IdleStays
  <1>9. ExitedIsZombie'
    BY <1>1, <1>2, <1>6 DEF IInv, Place, ExitedIsZombie
  <1>10. OwnQueue'
    BY <1>1, <1>2, <1>6 DEF IInv, Place, OwnQueue
  <1>11. OtherTypesOK'
    <2>1. p_children' \in [Thread -> Seq(Thread)]
      <3>1. CASE p = init
        BY <3>1, TreeFacts DEF proc_cleanup
      <3>2. CASE p # init
        <4>1. p_children[init] \o p_children[p] \in Seq(Thread) /\ <<>> \in Seq(Thread)
          BY TreeFacts, EmptySeq
        <4>2. p_children' = [p_children EXCEPT ![p] = <<>>,
                                               ![init] = @ \o p_children[p]]
          BY <3>2 DEF proc_cleanup
        <4> QED
          BY <3>2, <4>1, <4>2, TreeFacts
      <3> QED
        BY <3>1, <3>2
    <2>2. p_pproc' \in [Thread -> Thread \cup {NULL}]
      <3>1. CASE p = init
        BY <3>1, TreeFacts DEF proc_cleanup
      <3>2. CASE p # init
        <4>1. p_pproc' = [c \in Thread |->
                            IF c \in ToSet(p_children[p]) THEN init ELSE p_pproc[c]]
          BY <3>2 DEF proc_cleanup
        <4> QED
          BY <4>1, TreeFacts
      <3> QED
        BY <3>1, <3>2
    <2> QED
      BY <1>1, <1>6, <2>1, <2>2
         DEF IInv, TypeOK, SchedTypeOK, OtherTypesOK, PC, ProcState
  <1> QED
    BY <1>1, <1>2, <1>4, <1>5, <1>7, <1>8, <1>9, <1>10, <1>11, IInvPartsPrime
       DEF Place

LEMMA ReapKeeps ==
  ASSUME IInv, NEW p \in Thread, NEW l \in {"run", "waitpid"}, At(p, l),
         NEW c \in ToSet(p_children[p]), kt_state[c] = "KT_EXITED",
         cleanupDeadProcess(p, c)
  PROVE  IInv' /\ panic' = FALSE
  <1>1. /\ p_state' = [p_state EXCEPT ![c] = "PROC_NONE"]
        /\ kt_state' = [kt_state EXCEPT ![c] = "KT_NO_STATE"]
        /\ kt_cancelled' = [kt_cancelled EXCEPT ![c] = FALSE]
        /\ pc' = [pc EXCEPT ![c] = "none",
                            ![p] = IF p = idle THEN "halted" ELSE "run"]
        /\ wpid' = [wpid EXCEPT ![p] = NULL]
        /\ UNCHANGED <<tq, kt_wchan, curthr, switching, panic>>
    BY DEF cleanupDeadProcess, AssertFails
  <1>2. /\ p = curthr /\ ~switching /\ ~panic /\ pc[p] = l
        /\ kt_wchan[p] = NULL
    BY RunningUnlinked DEF PC
  <1>3. /\ Tree' /\ pc[c] = "zombie" /\ c # p /\ c \in Thread
        /\ p = idle => c = init
    BY ReapKeepsTree
  <1>4. kt_wchan[c] = NULL /\ c # idle
    BY <1>3 DEF IInv, Place, NoUseAfterFree, IdleStays
  <1>5. /\ kt_cancelled' \in [Thread -> BOOLEAN]
        /\ \A u \in Thread : u # c => kt_cancelled'[u] = kt_cancelled[u]
    BY <1>1 DEF IInv, TypeOK, SchedTypeOK
  <1>6. QueueOK'
    <2>1. "KT_NO_STATE" \in ThreadState \ SleepState
      BY DEF ThreadState, SleepState
    <2> QED
      BY <1>1, <1>3, <1>4, <1>5, <2>1, IInvParts, ChangeOffQueue
  <1>7. /\ pc'[c] = "none" /\ pc'[p] = IF p = idle THEN "halted" ELSE "run"
        /\ \A q \in Thread \ {c, p} : pc'[q] = pc[q]
        /\ pc' \in [Thread -> PC]
    <2>1. {"none", "halted", "run"} \subseteq PC /\ pc \in [Thread -> PC]
      BY TreeFacts DEF PC
    <2> QED
      BY <1>1, <1>3, <2>1
  <1>8. /\ kt_state'[c] = "KT_NO_STATE"
        /\ \A q \in Thread \ {c} : kt_state'[q] = kt_state[q]
    BY <1>1, <1>3 DEF IInv, TypeOK, SchedTypeOK
  <1>9. NoUseAfterFree'
    BY <1>1, <1>2, <1>3, <1>4, <1>7 DEF IInv, Place, NoUseAfterFree, Live
  <1>10. IdleStays'
    BY <1>1, <1>2, <1>3, <1>4, <1>5, <1>7 DEF IInv, Place, IdleStays
  <1>11. ExitedIsZombie'
    BY <1>1, <1>2, <1>3, <1>7, <1>8 DEF IInv, Place, ExitedIsZombie
  <1>12. OwnQueue'
    BY <1>1, <1>2, <1>3, <1>4, <1>7 DEF IInv, Place, OwnQueue
  <1>13. OtherTypesOK'
    <2>1. proc_list' \in Seq(Thread)
      <3>1. proc_list' = RemoveFirst(proc_list, c)
        BY DEF cleanupDeadProcess, AssertFails
      <3> QED
        BY <1>3, <3>1, TreeFacts, RemoveQueue DEF Live
    <2>2. p_children' \in [Thread -> Seq(Thread)]
      <3>1. p_children' = [p_children EXCEPT ![p] = RemoveFirst(@, c)]
        BY DEF cleanupDeadProcess, AssertFails
      <3>2. RemoveFirst(p_children[p], c) \in Seq(Thread)
        BY <1>2, TreeFacts, RemoveQueue DEF Live
      <3> QED
        BY <3>1, <3>2, TreeFacts
    <2>3. p_pproc' \in [Thread -> Thread \cup {NULL}]
      <3>1. p_pproc' = [p_pproc EXCEPT ![c] = NULL]
        BY DEF cleanupDeadProcess, AssertFails
      <3> QED
        BY <3>1, TreeFacts
    <2> QED
      BY <1>1, <1>7, <2>1, <2>2, <2>3
         DEF IInv, TypeOK, SchedTypeOK, OtherTypesOK, ProcState
  <1> QED
    BY <1>1, <1>2, <1>3, <1>6, <1>9, <1>10, <1>11, <1>12, <1>13, IInvPartsPrime
       DEF Place

(* One round of do_waitpid, which frees a dead child, sleeps, or, when the *)
(* KASSERT of cleanupDeadProcess fails, stops the kernel.                  *)
LEMMA ScanKeeps ==
  ASSUME IInv, NEW p \in Thread, NEW l \in {"run", "waitpid"}, At(p, l),
         NEW w \in Thread \cup {AnyChild, NULL}, Scan(p, w)
  PROVE  /\ IInv'
         /\ panic' = FALSE \/ \E c \in ToSet(p_children[p]) :
                                /\ p_state[c] = "PROC_DEAD"
                                /\ kt_state[c] # "KT_EXITED"
  <1> DEFINE child == p_children[p]
             dead == {i \in DOMAIN child : /\ p_state[child[i]] = "PROC_DEAD"
                                           /\ w \in {AnyChild, child[i]}}
             c == child[Min(dead)]
  <1>1. \/ dead # {} /\ cleanupDeadProcess(p, c)
        \/ /\ dead = {} /\ SleepAs(p, "KT_SLEEP") /\ Goto(p, "waitpid")
           /\ wpid' = [wpid EXCEPT ![p] = w]
           /\ UNCHANGED treeVars
    BY DEF Scan, sched_sleep_on
  <1>2. dead # {} => c \in ToSet(p_children[p]) /\ p_state[c] = "PROC_DEAD"
    <2>1. p_children[p] \in Seq(Thread)
      BY TreeFacts
    <2>2. dead \in SUBSET Nat
      BY <2>1
    <2>3. ASSUME NEW i \in dead
          PROVE  child[i] \in ToSet(child) /\ p_state[child[i]] = "PROC_DEAD"
      BY DEF ToSet
    <2> HIDE DEF dead
    <2>4. dead # {} => Min(dead) \in dead
      BY <2>2, MinIsElement
    <2> QED
      BY <2>3, <2>4
  <1> HIDE DEF dead, c
  <1>3. CASE dead # {} /\ kt_state[c] = "KT_EXITED"
    BY <1>1, <1>2, <1>3, ReapKeeps
  <1>4. CASE dead # {} /\ kt_state[c] # "KT_EXITED"
    <2>1. /\ UNCHANGED <<treeVars, pc, wpid>>
          /\ UNCHANGED <<tq, kt_wchan, kt_state, kt_cancelled, p_state, curthr,
                         switching>>
          /\ panic' = TRUE
      BY <1>1, <1>4 DEF cleanupDeadProcess, AssertFails, queueVars
    <2>2. Tree'
      BY <2>1, SameTree
    <2>3. QueueOK'
      BY <2>1, IInvParts DEF QueueOK, LinksOK, StatesOK
    <2>4. Place'
      BY <2>1 DEF IInv, Place, NoUseAfterFree, IdleStays, ExitedIsZombie, OwnQueue,
                  Live
    <2>5. OtherTypesOK'
      BY <2>1 DEF IInv, TypeOK, SchedTypeOK, OtherTypesOK, treeVars
    <2> QED
      BY <1>2, <1>4, <2>2, <2>3, <2>4, <2>5, IInvPartsPrime
  <1>5. CASE dead = {}
    <2>1. /\ SleepAs(p, "KT_SLEEP") /\ Goto(p, "waitpid")
          /\ wpid' = [wpid EXCEPT ![p] = w]
          /\ UNCHANGED treeVars
      BY <1>1, <1>5
    <2>2. QueueOK' /\ Place' /\ panic' = FALSE
      <3>1. /\ p \in WaitQ /\ "KT_SLEEP" \in SleepState
            /\ l \in PC \ {"none", "zombie", "halted"}
            /\ "waitpid" \in PC \ {"none", "zombie", "halted"}
        BY DEF PC, SleepState
      <3> QED
        BY <2>1, <3>1, SleepKeeps
    <2>3. Tree'
      BY <2>1, GotoKeepsTree DEF PC, At
    <2>4. OtherTypesOK'
      BY <2>1, <2>2 DEF IInv, TypeOK, SchedTypeOK, OtherTypesOK, SleepAs, Goto, PC,
                        treeVars
    <2> QED
      BY <2>2, <2>3, <2>4, IInvPartsPrime
  <1> QED
    BY <1>3, <1>4, <1>5

LEMMA InterruptKeeps ==
  ASSUME IInv, NEW q \in Device, Interrupt(q)
  PROVE  IInv' /\ panic' = FALSE
  <1>1. /\ sched_wakeup_on(q) \/ sched_broadcast_on(q)
        /\ UNCHANGED <<treeVars, pc, wpid>>
    BY DEF Interrupt
  <1>2. /\ QueueOK' /\ Place' /\ panic' = FALSE
        /\ UNCHANGED <<kt_cancelled, p_state, curthr, switching>>
    BY <1>1, WakeKeeps
  <1>3. Tree'
    BY <1>1, SameTree
  <1>4. OtherTypesOK'
    BY <1>1, <1>2 DEF IInv, TypeOK, SchedTypeOK, OtherTypesOK, treeVars
  <1> QED
    BY <1>2, <1>3, <1>4, IInvPartsPrime

LEMMA SwitchKeeps ==
  ASSUME IInv, Switch
  PROVE  IInv' /\ panic' = FALSE
  <1> DEFINE t == Head(tq[kt_runq])
  <1>1. /\ switching /\ ~panic /\ tq[kt_runq] # <<>>
        /\ curthr' = t /\ switching' = FALSE
        /\ kt_wchan' = [kt_wchan EXCEPT ![t] = NULL]
        /\ kt_state' = [kt_state EXCEPT ![t] = "KT_RUN"]
        /\ UNCHANGED <<treeVars, pc, wpid, kt_cancelled, p_state, panic>>
    BY DEF Switch, sched_switch
  <1>2. t \in Thread /\ kt_wchan[t] = kt_runq
    BY <1>1, IInvParts, HeadIsLinked DEF Queue
  <1> HIDE DEF t
  <1>3. QueueOK'
    BY IInvParts, SwitchKeepsQueues DEF Switch
  <1>4. Tree'
    BY <1>1, SameTree
  <1>5. /\ kt_wchan \in [Thread -> Queue \cup {NULL}]
        /\ kt_state \in [Thread -> ThreadState]
        /\ kt_runq # NULL /\ panic \in BOOLEAN
    BY DEF IInv, TypeOK, SchedTypeOK
  <1>6. NoUseAfterFree'
    BY <1>1, <1>2, <1>5 DEF IInv, Place, NoUseAfterFree, Live
  <1>7. IdleStays'
    BY <1>1 DEF IInv, Place, IdleStays
  <1>8. ExitedIsZombie'
    BY <1>1, <1>2, <1>5 DEF IInv, Place, ExitedIsZombie
  <1>9. OwnQueue'
    BY <1>1, <1>2, <1>5 DEF IInv, Place, OwnQueue
  <1>10. OtherTypesOK'
    BY <1>1, <1>2 DEF IInv, TypeOK, SchedTypeOK, OtherTypesOK, treeVars
  <1> QED
    BY <1>1, <1>3, <1>4, <1>5, <1>6, <1>7, <1>8, <1>9, <1>10, IInvPartsPrime
       DEF Place

-----------------------------------------------------------------------------
(* A step keeps the invariant; the only KASSERT that can fail is that of   *)
(* cleanupDeadProcess, on a dead child whose thread has not exited.        *)
LEMMA StepKeeps ==
  ASSUME IInv, [Next]_vars
  PROVE  /\ IInv'
         /\ panic' => panic \/ \E c \in Thread : /\ p_state[c] = "PROC_DEAD"
                                                 /\ kt_state[c] # "KT_EXITED"
  <1>1. CASE UNCHANGED vars
    <2>1. UNCHANGED <<tq, kt_wchan, kt_state, kt_cancelled, p_state, curthr,
                      switching, panic, proc_list, p_children, p_pproc, pc, wpid>>
      BY <1>1 DEF vars, schedVars, treeVars
    <2>2. QueueOK'
      BY <2>1, IInvParts DEF QueueOK, LinksOK, StatesOK
    <2>3. Tree'
      BY <2>1, SameTree DEF treeVars
    <2>4. Place'
      BY <2>1 DEF IInv, Place, NoUseAfterFree, IdleStays, ExitedIsZombie, OwnQueue,
                  Live
    <2>5. OtherTypesOK'
      BY <2>1 DEF IInv, TypeOK, SchedTypeOK, OtherTypesOK
    <2> QED
      BY <2>1, <2>2, <2>3, <2>4, <2>5, IInvPartsPrime
  <1>2. ASSUME NEW p \in Thread, Operation(p)
        PROVE  /\ IInv'
               /\ panic' => \E c \in Thread : /\ p_state[c] = "PROC_DEAD"
                                              /\ kt_state[c] # "KT_EXITED"
    <2>1. ASSUME NEW c \in Thread, proc_create(p, c) PROVE IInv' /\ panic' = FALSE
      BY <2>1, CreateKeeps
    <2>2. ASSUME NEW q \in Device, Sleep(p, q) \/ CancellableSleep(p, q)
          PROVE  IInv' /\ panic' = FALSE
      BY <2>2, DeviceSleepKeeps
    <2>3. ASSUME NEW w \in Thread \cup {AnyChild}, do_waitpid(p, w)
          PROVE  /\ IInv'
                 /\ panic' => \E c \in Thread : /\ p_state[c] = "PROC_DEAD"
                                                /\ kt_state[c] # "KT_EXITED"
      <3>1. At(p, "run") /\ Scan(p, w)
        BY <2>3 DEF do_waitpid, Calls
      <3>2. ToSet(p_children[p]) \subseteq Thread
        BY TreeFacts, MemberNonEmpty
      <3> QED
        BY <3>1, <3>2, ScanKeeps
    <2>4. CASE do_exit(p)
      BY <2>4, WakeStepKeeps
    <2>5. CASE proc_kill_all(p)
      BY <2>5, KillKeeps
    <2> QED
      BY <1>2, <2>1, <2>2, <2>3, <2>4, <2>5 DEF Operation
  <1>3. ASSUME NEW p \in Thread, Continue(p)
        PROVE  /\ IInv'
               /\ panic' => \E c \in Thread : /\ p_state[c] = "PROC_DEAD"
                                              /\ kt_state[c] # "KT_EXITED"
    <2>1. CASE Wake(p) \/ WakeCancelled(p)
      BY <2>1, WakeStepKeeps
    <2>2. CASE WaitAgain(p)
      <3>1. At(p, "waitpid") /\ Scan(p, wpid[p])
        BY <2>2 DEF WaitAgain
      <3>2. wpid[p] \in Thread \cup {AnyChild, NULL}
        BY DEF IInv, TypeOK
      <3>3. ToSet(p_children[p]) \subseteq Thread
        BY TreeFacts, MemberNonEmpty
      <3> QED
        BY <3>1, <3>2, <3>3, ScanKeeps
    <2>3. CASE WakeParent(p)
      BY <2>3, WakeParentKeeps
    <2>4. CASE proc_cleanup(p)
      BY <2>4, CleanupKeeps
    <2>5. ASSUME NEW q \in Device, CloseSleeps(p, q) PROVE IInv' /\ panic' = FALSE
      BY <2>5, CloseSleepsKeeps
    <2> QED
      BY <1>3, <2>1, <2>2, <2>3, <2>4, <2>5 DEF Continue
  <1>4. ASSUME NEW q \in Device, Interrupt(q) PROVE IInv' /\ panic' = FALSE
    BY <1>4, InterruptKeeps
  <1>5. CASE Switch
    BY <1>5, SwitchKeeps
  <1> QED
    BY <1>1, <1>2, <1>3, <1>4, <1>5 DEF Next

(* The queue and the lists idle starts with. *)
LEMMA ShortQueues ==
  ASSUME NEW S, NEW a \in S, NEW b \in S, a # b
  PROVE  /\ <<>> \in Seq(S) /\ Injective(<<>>) /\ ToSet(<<>>) = {}
         /\ <<a>> \in Seq(S) /\ Injective(<<a>>) /\ ToSet(<<a>>) = {a}
         /\ <<a, b>> \in Seq(S) /\ Injective(<<a, b>>) /\ ToSet(<<a, b>>) = {a, b}
  <1>1. /\ DOMAIN <<a>> = {1} /\ <<a>>[1] = a /\ <<a>> \in Seq(S)
    OBVIOUS
  <1>2. /\ DOMAIN <<a, b>> = {1, 2} /\ <<a, b>>[1] = a /\ <<a, b>>[2] = b
        /\ <<a, b>> \in Seq(S)
    OBVIOUS
  <1>3. <<>> \in Seq(S) /\ Injective(<<>>) /\ ToSet(<<>>) = {}
    BY EmptySeq, EmptyQueue
  <1>4. Injective(<<a>>) /\ ToSet(<<a>>) = {a}
    BY <1>1 DEF Injective, ToSet
  <1>5. Injective(<<a, b>>)
    BY <1>2 DEF Injective
  <1>6. ToSet(<<a, b>>) = {a, b}
    BY <1>2 DEF ToSet
  <1> QED
    BY <1>1, <1>2, <1>3, <1>4, <1>5, <1>6

LEMMA InitHolds ==
  ASSUME Init
  PROVE  IInv
  <1>1. /\ <<>> \in Seq(Thread) /\ Injective(<<>>) /\ ToSet(<<>>) = {}
        /\ <<init>> \in Seq(Thread) /\ Injective(<<init>>) /\ ToSet(<<init>>) = {init}
        /\ <<idle, init>> \in Seq(Thread) /\ Injective(<<idle, init>>)
        /\ ToSet(<<idle, init>>) = {idle, init}
    BY ShortQueues
  <1>2. {"none", "run"} \subseteq PC
    BY DEF PC
  <1>3. QueueOK
    <2>1. /\ tq = [q \in Queue |-> IF q = kt_runq THEN <<init>> ELSE <<>>]
          /\ kt_wchan = [t \in Thread |-> IF t = init THEN kt_runq ELSE NULL]
          /\ kt_state = [t \in Thread |->
                   IF t \in {idle, init} THEN "KT_RUN" ELSE "KT_NO_STATE"]
          /\ kt_cancelled = [t \in Thread |-> FALSE]
      BY DEF Init
    <2>2. ASSUME NEW q \in Queue PROVE LinksOf(q)
      <3>1. tq[q] = IF q = kt_runq THEN <<init>> ELSE <<>>
        BY <2>1
      <3>2. Injective(tq[q]) /\ ToSet(tq[q]) = IF q = kt_runq THEN {init} ELSE {}
        BY <1>1, <3>1
      <3> QED
        BY <2>1, <3>2 DEF LinksOf, Queue
    <2>3. /\ tq \in [Queue -> Seq(Thread)]
          /\ kt_wchan \in [Thread -> Queue \cup {NULL}]
          /\ kt_state \in [Thread -> ThreadState]
          /\ kt_cancelled \in [Thread -> BOOLEAN]
      BY <2>1, <1>1 DEF Queue, ThreadState
    <2>4. StatesOK
      BY <2>1 DEF StatesOK
    <2> QED
      BY <2>2, <2>3, <2>4, LinksPerQueue DEF QueueOK
  <1>4. /\ proc_list = <<idle, init>>
        /\ p_children = [t \in Thread |-> IF t = idle THEN <<init>> ELSE <<>>]
        /\ p_pproc = [t \in Thread |-> IF t = init THEN idle ELSE NULL]
        /\ pc = [t \in Thread |-> IF t \in {idle, init} THEN "run" ELSE "none"]
    BY DEF Init
  <1>5. \A p \in Thread : Live(p) <=> p \in {idle, init}
    BY <1>4 DEF Live
  <1>6. TreeOK
    <2>1. NoDuplicates(proc_list) /\ ToSet(proc_list) = {idle, init}
      BY <1>1, <1>4 DEF Injective, NoDuplicates
    <2>2. ASSUME NEW p \in Thread, Live(p)
          PROVE  /\ NoDuplicates(p_children[p])
                 /\ ToSet(p_children[p]) = {c \in Thread : Live(c) /\ p_pproc[c] = p}
      <3>1. p_children[p] = IF p = idle THEN <<init>> ELSE <<>>
        BY <1>4
      <3>2. NoDuplicates(p_children[p])
        BY <1>1, <3>1 DEF Injective, NoDuplicates
      <3>3. ToSet(p_children[p]) = IF p = idle THEN {init} ELSE {}
        BY <1>1, <3>1
      <3> QED
        BY <3>2, <3>3, <1>4, <1>5
    <2> QED
      BY <1>4, <1>5, <2>1, <2>2 DEF TreeOK
  <1>7. Grounded
    BY <1>4, <1>5 DEF Grounded
  <1>8. Family
    BY <1>4, <1>5 DEF Family
  <1>9. Place
    BY <1>4 DEF Init, Place, NoUseAfterFree, IdleStays, ExitedIsZombie, OwnQueue, Live
  <1>10. OtherTypesOK
    <2>1. /\ p_children \in [Thread -> Seq(Thread)]
          /\ p_pproc \in [Thread -> Thread \cup {NULL}]
          /\ proc_list \in Seq(Thread)
      BY <1>1, <1>4
    <2>2. pc \in [Thread -> PC]
      BY <1>2, <1>4
    <2>3. p_state \in [Thread -> ProcState] /\ wpid \in [Thread -> Thread \cup {AnyChild, NULL}]
      BY DEF Init, ProcState
    <2> QED
      BY <2>1, <2>2, <2>3 DEF Init, OtherTypesOK
  <1> QED
    BY <1>3, <1>6, <1>7, <1>8, <1>9, <1>10, IInvParts DEF Tree

(* The invariant of the process tree is inductive. *)
THEOREM ProcInvariant == Spec => []IInv
  <1>1. Init => IInv
    BY InitHolds
  <1>2. IInv /\ [Next]_vars => IInv'
    BY StepKeeps
  <1> QED
    BY <1>1, <1>2, PTL DEF Spec

(* Every variable of the processes and the scheduler keeps its type.       *)
THEOREM TypeCorrect == Spec => []TypeOK
  <1>1. IInv => TypeOK
    BY DEF IInv
  <1> QED
    BY <1>1, ProcInvariant, PTL

(* Queues and threads agree about where each thread is and in what state,  *)
(* through creation, sleep, wakeup, proc_kill_all, exit and reuse.         *)
THEOREM QueuesStayConsistent == Spec => []QueuesOK
  <1>1. IInv => QueuesOK
    BY DEF IInv
  <1> QED
    BY <1>1, ProcInvariant, PTL

(* _proc_list, p_children and p_pproc describe one tree of live processes. *)
THEOREM TreeStaysTree == Spec => []TreeOK
  <1>1. IInv => TreeOK
    BY DEF IInv, Tree
  <1> QED
    BY <1>1, ProcInvariant, PTL

(* do_waitpid frees only what no queue and no CPU refers to; whoever has   *)
(* not exited is on a queue or has the CPU.                                *)
THEOREM FreedIsForgotten == Spec => []NoUseAfterFree
  <1>1. IInv => NoUseAfterFree
    BY DEF IInv, Place
  <1> QED
    BY <1>1, ProcInvariant, PTL

-----------------------------------------------------------------------------
(* From here on, closing files does not sleep: an exiting process keeps the*)
(* CPU from do_exit to the end of proc_cleanup.  With sleeps in between a  *)
(* wakeup of the parent is lost and the KASSERT fails.                     *)
Exiting == {"eintr", "exiting", "cleanup"}

(* An exiting process has the CPU and is in state KT_EXITED, as is a       *)
(* zombie; nobody else is dead; after the wakeup in proc_cleanup the       *)
(* parent does not sleep in do_waitpid.                                    *)
Leaving ==
  /\ \A p \in Thread : pc[p] \in Exiting => p = curthr /\ ~switching
  /\ \A p \in Thread :
       pc[p] \in Exiting \cup {"zombie"} => kt_state[p] = "KT_EXITED"
  /\ \A p \in Thread :
       p_state[p] = "PROC_DEAD" => pc[p] \in Exiting \cup {"zombie"}
  /\ \A p \in Thread : pc[p] = "zombie" => p_state[p] = "PROC_DEAD"
  /\ \A p \in Thread : pc[p] = "cleanup" => kt_wchan[p_pproc[p]] # p_pproc[p]

(* No process exits while another has the CPU or is about to get it. *)
LEMMA NobodyExits ==
  ASSUME Leaving,
         \/ switching
         \/ \E p \in Thread : p = curthr /\ pc[p] \notin Exiting
  PROVE  \A t \in Thread : pc[t] \notin Exiting
  BY DEF Leaving

(* A step in which no process starts or ends its exit. *)
LEMMA OthersStep ==
  ASSUME Leaving,
         \A t \in Thread : pc'[t] # pc[t] =>
           {pc[t], pc'[t]} \cap (Exiting \cup {"zombie"}) = {},
         \A t \in Thread : pc[t] \in Exiting \cup {"zombie"} =>
           kt_state'[t] = kt_state[t] /\ p_state'[t] = p_state[t],
         \A t \in Thread : p_state'[t] = "PROC_DEAD" => p_state[t] = "PROC_DEAD",
         \/ \A t \in Thread : pc[t] \notin Exiting
         \/ /\ UNCHANGED <<curthr, switching, p_pproc>>
            /\ \A t : kt_wchan'[t] = t => kt_wchan[t] = t
  PROVE  Leaving'
  <1>1. \A t \in Thread : pc'[t] \in Exiting \cup {"zombie"} => pc'[t] = pc[t]
    OBVIOUS
  <1>2. \A t \in Thread : pc[t] \in Exiting \cup {"zombie"} => pc'[t] = pc[t]
    OBVIOUS
  <1> QED
    BY <1>1, <1>2 DEF Leaving, Exiting

(* A step in which no child of a sleeping parent exits. *)
LEMMA SleepersStep ==
  ASSUME BlocksUntilOneExits,
         \A p \in Thread \ {init} : kt_wchan'[p] = p =>
           /\ kt_wchan[p] = p /\ wpid'[p] = wpid[p]
           /\ \A c \in ToSet(p_children'[p]) :
                pc'[c] = "zombie" => c \in ToSet(p_children[p]) /\ pc[c] = "zombie"
  PROVE  BlocksUntilOneExits'
  BY DEF BlocksUntilOneExits, HasExited

(* A wakeup moves threads to the run queue and leaves those alone that are *)
(* on no queue.                                                            *)
LEMMA WokenLeave ==
  ASSUME IInv, NEW q \in WaitQ, sched_wakeup_on(q) \/ sched_broadcast_on(q)
  PROVE  /\ \A t \in Thread : kt_wchan'[t] = t => kt_wchan[t] = t
         /\ \A t \in Thread : kt_wchan[t] = NULL => kt_state'[t] = kt_state[t]
  <1>1. QueueOK /\ q \in Queue /\ q # NULL
    BY IInvParts DEF Queue
  <1>2. /\ kt_wchan \in [Thread -> Queue \cup {NULL}]
        /\ kt_state \in [Thread -> ThreadState]
        /\ kt_runq \notin Thread
    BY <1>1 DEF QueueOK
  <1>3. CASE sched_wakeup_on(q)
    <2> DEFINE h == Head(tq[q])
    <2>1. h \in Thread /\ kt_wchan[h] = q
      BY <1>1, <1>3, HeadIsLinked DEF sched_wakeup_on
    <2>2. /\ kt_wchan' = [kt_wchan EXCEPT ![h] = kt_runq]
          /\ kt_state' = [kt_state EXCEPT ![h] = "KT_RUN"]
      BY <1>3 DEF sched_wakeup_on
    <2> HIDE DEF h
    <2> QED
      BY <1>1, <1>2, <2>1, <2>2
  <1>4. CASE sched_broadcast_on(q)
    <2> DEFINE W == ToSet(tq[q])
    <2>1. \A t \in Thread : t \in W => kt_wchan[t] = q
      BY <1>1, LinksPerQueue DEF QueueOK, LinksOf
    <2>2. /\ kt_wchan' = [t \in Thread |-> IF t \in W THEN kt_runq ELSE kt_wchan[t]]
          /\ kt_state' = [t \in Thread |-> IF t \in W THEN "KT_RUN" ELSE kt_state[t]]
      BY <1>4 DEF sched_broadcast_on
    <2> HIDE DEF W
    <2> QED
      BY <1>1, <1>2, <2>1, <2>2
  <1> QED
    BY <1>3, <1>4

(* The parent of an exiting process leaves do_waitpid's sleep: it is the   *)
(* only one on its queue.                                                  *)
LEMMA ParentIsWoken ==
  ASSUME IInv, NEW p \in Thread, pc[p] = "exiting", p # idle,
         NEW q, q = p_pproc[p],
         (tq[q] = <<>> /\ UNCHANGED schedVars) \/ sched_wakeup_on(q)
  PROVE  kt_wchan'[q] # q
  <1>1. q \in Thread /\ q \in Queue /\ q \in WaitQ
    BY TreeFacts DEF Live, Queue
  <1>2. QueueOK /\ kt_wchan \in [Thread -> Queue \cup {NULL}] /\ kt_runq \notin Thread
    BY IInvParts DEF QueueOK
  <1>3. CASE tq[q] = <<>> /\ UNCHANGED schedVars
    <2>1. LinksOf(q)
      BY <1>1, <1>2, LinksPerQueue DEF QueueOK
    <2> QED
      BY <1>1, <1>3, <2>1, EmptyQueue DEF LinksOf, schedVars
  <1>4. CASE sched_wakeup_on(q)
    <2> DEFINE h == Head(tq[q])
    <2>1. h \in Thread /\ kt_wchan[h] = q
      BY <1>1, <1>2, <1>4, HeadIsLinked DEF sched_wakeup_on
    <2>2. h = q
      BY <1>1, <2>1 DEF IInv, Place, OwnQueue
    <2>3. kt_wchan' = [kt_wchan EXCEPT ![h] = kt_runq]
      BY <1>4 DEF sched_wakeup_on
    <2> HIDE DEF h
    <2> QED
      BY <1>1, <1>2, <2>2, <2>3
  <1> QED
    BY <1>3, <1>4

-----------------------------------------------------------------------------
(* One lemma per action again, for the wakeups of waiting parents. *)
Waits == Leaving /\ BlocksUntilOneExits

LEMMA CreateWaits ==
  ASSUME IInv, Waits, NEW p \in Thread, NEW c \in Thread, proc_create(p, c)
  PROVE  Waits'
  <1>1. /\ pc[p] = "run" /\ p = curthr /\ p # idle
        /\ pc[c] = "none" /\ c # p
        /\ p_children' = [p_children EXCEPT ![p] = Append(@, c), ![c] = <<>>]
        /\ p_state' = [p_state EXCEPT ![c] = "PROC_RUNNING"]
        /\ pc' = [pc EXCEPT ![c] = "run"]
        /\ kt_wchan' = [kt_wchan EXCEPT ![c] = kt_runq]
        /\ kt_state' = [kt_state EXCEPT ![c] = "KT_RUN"]
        /\ UNCHANGED wpid
    BY DEF proc_create, Calls, At, Goto, Running, sched_make_runnable, EnqueueAs
  <1>2. /\ kt_wchan \in [Thread -> Queue \cup {NULL}]
        /\ kt_state \in [Thread -> ThreadState] /\ pc \in [Thread -> PC]
        /\ p_state \in [Thread -> ProcState] /\ kt_runq \notin Thread
    BY DEF IInv, TypeOK, SchedTypeOK
  <1>3. kt_wchan[p] = NULL
    BY RunningUnlinked DEF proc_create, Calls, PC
  <1>4. Leaving'
    <2>1. \A t \in Thread : pc[t] \notin Exiting
      BY <1>1, NobodyExits DEF Waits, Exiting
    <2> QED
      BY <1>1, <1>2, <2>1, OthersStep DEF Waits, Exiting
  <1>5. BlocksUntilOneExits'
    <2> SUFFICES ASSUME NEW q \in Thread \ {init}, kt_wchan'[q] = q
                 PROVE  /\ kt_wchan[q] = q /\ wpid'[q] = wpid[q]
                        /\ \A d \in ToSet(p_children'[q]) :
                             pc'[d] = "zombie" =>
                               d \in ToSet(p_children[q]) /\ pc[d] = "zombie"
      BY SleepersStep DEF Waits
    <2>1. kt_wchan[q] = q /\ q # c /\ q # p
      BY <1>1, <1>2, <1>3
    <2>2. p_children'[q] = p_children[q]
      BY <1>1, <2>1, TreeFacts
    <2>3. \A d : pc'[d] = "zombie" => d # c
      BY <1>1, <1>2
    <2>4. ToSet(p_children[q]) \subseteq Thread
      BY TreeFacts, MemberNonEmpty
    <2> QED
      BY <1>1, <1>2, <2>1, <2>2, <2>3, <2>4
  <1> QED
    BY <1>4, <1>5 DEF Waits

(* The running process goes to sleep: on a device, or on its p_wait when   *)
(* no child it waits for is dead.                                          *)
LEMMA SleepWaits ==
  ASSUME IInv, Waits, NEW p \in Thread, NEW k \in {"run", "waitpid"}, At(p, k),
         NEW q \in WaitQ, NEW s \in SleepState, SleepAs(q, s),
         NEW l \in {"sleep", "csleep", "waitpid"}, Goto(p, l),
         UNCHANGED treeVars,
         \A t \in Thread : t # p => wpid'[t] = wpid[t],
         q = p => \A c \in ToSet(p_children[p]) :
                    p_state[c] = "PROC_DEAD" => wpid'[p] \notin {AnyChild, c}
  PROVE  Waits'
  <1>1. p = curthr /\ kt_wchan[p] = NULL /\ ~switching /\ pc[p] = k
    BY RunningUnlinked DEF PC
  <1>2. /\ kt_wchan' = [kt_wchan EXCEPT ![p] = q]
        /\ kt_state' = [kt_state EXCEPT ![p] = s]
        /\ pc' = [pc EXCEPT ![p] = l]
        /\ UNCHANGED <<p_state, proc_list, p_children, p_pproc>>
    BY <1>1 DEF SleepAs, EnqueueAs, Goto, treeVars
  <1>3. /\ kt_wchan \in [Thread -> Queue \cup {NULL}]
        /\ kt_state \in [Thread -> ThreadState] /\ pc \in [Thread -> PC]
    BY DEF IInv, TypeOK, SchedTypeOK
  <1>4. Leaving'
    <2>1. \A t \in Thread : pc[t] \notin Exiting
      BY <1>1, NobodyExits DEF Waits, Exiting
    <2> QED
      BY <1>1, <1>2, <1>3, <2>1, OthersStep DEF Waits, Exiting
  <1>5. BlocksUntilOneExits'
    <2> SUFFICES ASSUME NEW r \in Thread \ {init}, kt_wchan'[r] = r,
                        NEW c \in ToSet(p_children[r]), pc'[c] = "zombie",
                        wpid'[r] \in {AnyChild, c}
                 PROVE  FALSE
      BY <1>2 DEF BlocksUntilOneExits, HasExited
    <2>1. c \in Thread
      BY TreeFacts, MemberNonEmpty
    <2>2. pc[c] = "zombie"
      BY <1>2, <1>3, <2>1
    <2>3. CASE r = p
      BY <2>1, <2>2, <2>3, <1>2, <1>3 DEF Waits, Leaving
    <2>4. CASE r # p
      BY <2>2, <2>4, <1>2, <1>3 DEF Waits, BlocksUntilOneExits, HasExited
    <2> QED
      BY <2>3, <2>4
  <1> QED
    BY <1>4, <1>5 DEF Waits

(* A running process goes on: it wakes up, is told to unwind, or exits.    *)
LEMMA GoesOnWaits ==
  ASSUME IInv, Waits, NEW p \in Thread, Wake(p) \/ WakeCancelled(p) \/ do_exit(p)
  PROVE  Waits'
  <1>1. PICK k \in {"run", "sleep", "csleep", "eintr"}, l \in {"run", "eintr", "exiting"} :
          /\ At(p, k)
          /\ pc' = [pc EXCEPT ![p] = l]
          /\ \/ l = "run" /\ k # "eintr" /\ UNCHANGED <<kt_state, p_state>>
             \/ /\ l # "run"
                /\ kt_state' = [kt_state EXCEPT ![p] = "KT_EXITED"]
                /\ \A t \in Thread : t # p => p_state'[t] = p_state[t]
          /\ kt_wchan' = [kt_wchan EXCEPT ![p] = NULL] \/ kt_wchan' = kt_wchan
          /\ UNCHANGED <<curthr, switching, proc_list, p_children, p_pproc, wpid>>
    <2>1. p_state \in [Thread -> ProcState]
      BY DEF IInv, TypeOK, SchedTypeOK
    <2>2. CASE Wake(p)
      BY <2>2 DEF Wake, Goto, schedVars, treeVars
    <2>3. CASE WakeCancelled(p)
      BY <2>1, <2>3 DEF WakeCancelled, SleepCancelled, Goto, treeVars, At, Running
    <2>4. CASE do_exit(p)
      BY <2>4 DEF do_exit, Goto, treeVars
    <2> QED
      BY <2>2, <2>3, <2>4
  <1>2. p = curthr /\ kt_wchan[p] = NULL /\ ~switching /\ pc[p] = k
    BY <1>1, RunningUnlinked DEF PC
  <1>3. /\ kt_wchan \in [Thread -> Queue \cup {NULL}]
        /\ kt_state \in [Thread -> ThreadState] /\ pc \in [Thread -> PC]
    BY DEF IInv, TypeOK, SchedTypeOK
  <1>4. kt_wchan' = kt_wchan
    BY <1>1, <1>2, <1>3
  <1>5. \A t \in Thread : t # p => pc[t] \notin Exiting
    BY <1>2 DEF Waits, Leaving
  <1>6. Leaving'
    <2>1. CASE l = "run"
      <3>1. \A t \in Thread : pc[t] \notin Exiting
        BY <1>1, <1>2, <1>5, <2>1 DEF Exiting
      <3> QED
        BY <1>1, <1>2, <1>3, <2>1, <3>1, OthersStep DEF Waits, Exiting
    <2>2. CASE l # "run"
      <3>1. /\ pc'[p] = l /\ l \in {"eintr", "exiting"} /\ kt_state'[p] = "KT_EXITED"
            /\ \A t \in Thread : t # p =>
                 pc'[t] = pc[t] /\ kt_state'[t] = kt_state[t] /\ p_state'[t] = p_state[t]
        BY <1>1, <1>3, <2>2
      <3> QED
        BY <1>1, <1>2, <1>5, <3>1 DEF Waits, Leaving, Exiting
    <2> QED
      BY <2>1, <2>2
  <1>7. BlocksUntilOneExits'
    <2>1. \A c : pc'[c] = "zombie" => pc[c] = "zombie"
      BY <1>1, <1>3
    <2> QED
      BY <1>1, <1>4, <2>1, SleepersStep DEF Waits
  <1> QED
    BY <1>6, <1>7 DEF Waits

LEMMA KillWaits ==
  ASSUME IInv, Waits, NEW p \in Thread, proc_kill_all(p)
  PROVE  Waits'
  <1> DEFINE W == {v \in Victims(p) : kt_state[v] = "KT_SLEEP_CANCELLABLE"}
  <1>1. /\ At(p, "run") /\ pc' = [pc EXCEPT ![p] = "exiting"]
        /\ kt_wchan' = [t \in Thread |-> IF t \in W THEN kt_runq ELSE kt_wchan[t]]
        /\ kt_state' = [t \in Thread |->
                          IF t \in W THEN "KT_RUN"
                          ELSE IF t = p THEN "KT_EXITED" ELSE kt_state[t]]
        /\ UNCHANGED <<p_state, curthr, switching, p_children, p_pproc, wpid>>
    BY DEF proc_kill_all, Calls, Goto, treeVars
  <1>2. /\ p = curthr /\ ~switching /\ pc[p] = "run"
    BY <1>1 DEF At, Running
  <1>3. p \notin W /\ \A t \in Thread : t \in W => kt_state[t] # "KT_EXITED"
    BY DEF Victims
  <1> HIDE DEF W
  <1>4. kt_runq \notin Thread /\ pc \in [Thread -> PC]
    BY DEF IInv, TypeOK
  <1>5. /\ pc'[p] = "exiting" /\ kt_state'[p] = "KT_EXITED"
        /\ \A t \in Thread : t # p => pc'[t] = pc[t]
        /\ \A t \in Thread : kt_state[t] = "KT_EXITED" => kt_state'[t] = "KT_EXITED"
        /\ \A t \in Thread : kt_wchan'[t] = t => kt_wchan[t] = t
    BY <1>1, <1>3, <1>4
  <1>6. \A t \in Thread : pc[t] \notin Exiting
    BY <1>2, NobodyExits DEF Waits, Exiting
  <1>7. Leaving'
    BY <1>1, <1>2, <1>5, <1>6 DEF Waits, Leaving, Exiting
  <1>8. BlocksUntilOneExits'
    <2>1. \A c : pc'[c] = "zombie" => pc[c] = "zombie"
      BY <1>1, <1>4
    <2> QED
      BY <1>1, <1>5, <2>1, SleepersStep DEF Waits
  <1> QED
    BY <1>7, <1>8 DEF Waits

LEMMA WakeParentWaits ==
  ASSUME IInv, Waits, NEW p \in Thread, WakeParent(p)
  PROVE  Waits'
  <1> DEFINE q == p_pproc[p]
  <1>1. /\ At(p, "exiting") /\ pc' = [pc EXCEPT ![p] = "cleanup"]
        /\ UNCHANGED <<p_children, p_pproc, wpid>>
        /\ (tq[q] = <<>> /\ UNCHANGED schedVars) \/ sched_wakeup_on(q)
    BY DEF WakeParent, Goto, treeVars
  <1>2. /\ p = curthr /\ ~switching /\ pc[p] = "exiting" /\ kt_wchan[p] = NULL
    BY <1>1, RunningUnlinked DEF PC
  <1>3. p # idle /\ q \in WaitQ
    <2>1. p # idle
      BY <1>2 DEF IInv, Place, IdleStays
    <2> QED
      BY <2>1, <1>2, TreeFacts DEF Live
  <1>4. kt_wchan'[q] # q
    BY <1>1, <1>2, <1>3, ParentIsWoken
  <1>5. /\ \A t \in Thread : kt_wchan'[t] = t => kt_wchan[t] = t
        /\ kt_state'[p] = kt_state[p]
        /\ \A t \in Thread : pc[t] = "zombie" => kt_state'[t] = kt_state[t]
        /\ UNCHANGED <<p_state, curthr, switching>>
    <2>1. CASE UNCHANGED schedVars
      BY <2>1 DEF schedVars
    <2>2. CASE sched_wakeup_on(q)
      <3>1. \A t \in Thread : pc[t] = "zombie" => kt_wchan[t] = NULL
        BY DEF IInv, Place, NoUseAfterFree
      <3>2. UNCHANGED <<p_state, curthr, switching>>
        BY <2>2 DEF sched_wakeup_on
      <3> QED
        BY <1>2, <1>3, <2>2, <3>1, <3>2, WokenLeave
    <2> QED
      BY <1>1, <2>1, <2>2
  <1> HIDE DEF q
  <1>6. /\ pc'[p] = "cleanup"
        /\ \A t \in Thread : t # p => pc'[t] = pc[t] /\ pc[t] \notin Exiting
    BY <1>1, <1>2, TreeFacts DEF Waits, Leaving
  <1>7. Leaving'
    <2>1. p_pproc'[p] = q
      BY <1>1 DEF q
    <2> QED
      BY <1>1, <1>2, <1>4, <1>5, <1>6, <2>1 DEF Waits, Leaving, Exiting
  <1>8. BlocksUntilOneExits'
    <2>1. \A c : pc'[c] = "zombie" => pc[c] = "zombie"
      BY <1>1, TreeFacts
    <2> QED
      BY <1>1, <1>5, <2>1, SleepersStep DEF Waits
  <1> QED
    BY <1>7, <1>8 DEF Waits

LEMMA CleanupWaits ==
  ASSUME IInv, Waits, NEW p \in Thread, proc_cleanup(p)
  PROVE  Waits'
  <1>1. /\ At(p, "cleanup") /\ pc' = [pc EXCEPT ![p] = "zombie"]
        /\ p_state' = [p_state EXCEPT ![p] = "PROC_DEAD"]
        /\ UNCHANGED <<kt_wchan, kt_state, wpid>>
    BY DEF proc_cleanup, Goto, queueVars
  <1>2. /\ p = curthr /\ ~switching /\ pc[p] = "cleanup" /\ kt_wchan[p] = NULL
    BY <1>1, RunningUnlinked DEF PC
  <1>3. /\ pc'[p] = "zombie" /\ p_state'[p] = "PROC_DEAD"
        /\ \A t \in Thread : t # p =>
             pc'[t] = pc[t] /\ pc[t] \notin Exiting /\ p_state'[t] = p_state[t]
    BY <1>1, <1>2, TreeFacts DEF Waits, Leaving, IInv, TypeOK, SchedTypeOK
  <1>4. Leaving'
    BY <1>1, <1>2, <1>3 DEF Waits, Leaving, Exiting
  <1>5. BlocksUntilOneExits'
    <2> SUFFICES ASSUME NEW q \in Thread \ {init}, kt_wchan[q] = q
                 PROVE  /\ wpid'[q] = wpid[q]
                        /\ \A c \in ToSet(p_children'[q]) : pc'[c] = "zombie" =>
                             c \in ToSet(p_children[q]) /\ pc[c] = "zombie"
      BY <1>1, SleepersStep DEF Waits
    <2>1. q # p /\ Live(q)
      BY <1>2 DEF IInv, Place, NoUseAfterFree, Live
    <2>2. p_children'[q] = p_children[q]
      BY <2>1, TreeFacts DEF proc_cleanup
    <2>3. p \notin ToSet(p_children[q])
      BY <1>2, <2>1, TreeFacts DEF Waits, Leaving
    <2>4. \A c : c # p /\ pc'[c] = "zombie" => pc[c] = "zombie"
      BY <1>1, TreeFacts
    <2> QED
      BY <1>1, <2>2, <2>3, <2>4
  <1> QED
    BY <1>4, <1>5 DEF Waits

LEMMA ReapWaits ==
  ASSUME IInv, Waits, NEW p \in Thread, NEW l \in {"run", "waitpid"}, At(p, l),
         NEW c \in ToSet(p_children[p]), kt_state[c] = "KT_EXITED",
         cleanupDeadProcess(p, c)
  PROVE  Waits'
  <1>1. /\ p_state' = [p_state EXCEPT ![c] = "PROC_NONE"]
        /\ kt_state' = [kt_state EXCEPT ![c] = "KT_NO_STATE"]
        /\ p_children' = [p_children EXCEPT ![p] = RemoveFirst(@, c)]
        /\ pc' = [pc EXCEPT ![c] = "none",
                            ![p] = IF p = idle THEN "halted" ELSE "run"]
        /\ wpid' = [wpid EXCEPT ![p] = NULL]
        /\ UNCHANGED kt_wchan
    BY DEF cleanupDeadProcess, AssertFails
  <1>2. /\ p = curthr /\ pc[p] = l /\ kt_wchan[p] = NULL
    BY RunningUnlinked DEF PC
  <1>3. pc[c] = "zombie" /\ c # p /\ c \in Thread
    BY ReapKeepsTree
  <1>4. /\ kt_state \in [Thread -> ThreadState] /\ pc \in [Thread -> PC]
        /\ p_state \in [Thread -> ProcState]
        /\ wpid \in [Thread -> Thread \cup {AnyChild, NULL}]
    BY DEF IInv, TypeOK, SchedTypeOK
  <1>5. /\ pc'[c] = "none" /\ pc'[p] \in {"run", "halted"} /\ p_state'[c] = "PROC_NONE"
        /\ \A t \in Thread \ {c, p} : pc'[t] = pc[t]
        /\ \A t \in Thread \ {c} : p_state'[t] = p_state[t] /\ kt_state'[t] = kt_state[t]
    BY <1>1, <1>3, <1>4
  <1>6. \A t \in Thread : pc[t] \notin Exiting
    BY <1>2, NobodyExits DEF Waits, Exiting
  <1>7. Leaving'
    BY <1>2, <1>3, <1>5, <1>6 DEF Waits, Leaving, Exiting
  <1>8. BlocksUntilOneExits'
    <2> SUFFICES ASSUME NEW q \in Thread \ {init}, kt_wchan[q] = q
                 PROVE  /\ wpid'[q] = wpid[q]
                        /\ \A d \in ToSet(p_children'[q]) : pc'[d] = "zombie" =>
                             d \in ToSet(p_children[q]) /\ pc[d] = "zombie"
      BY <1>1, SleepersStep DEF Waits
    <2>1. q # p
      BY <1>2
    <2>2. p_children'[q] = p_children[q] /\ wpid'[q] = wpid[q]
      BY <1>1, <1>4, <2>1, TreeFacts
    <2>3. \A d \in Thread : pc'[d] = "zombie" => pc[d] = "zombie"
      BY <1>5
    <2>4. ToSet(p_children[q]) \subseteq Thread
      BY TreeFacts, MemberNonEmpty
    <2> QED
      BY <2>2, <2>3, <2>4
  <1> QED
    BY <1>7, <1>8 DEF Waits

LEMMA ScanWaits ==
  ASSUME IInv, Waits, NEW p \in Thread, NEW l \in {"run", "waitpid"}, At(p, l),
         NEW w \in Thread \cup {AnyChild, NULL}, Scan(p, w)
  PROVE  Waits'
  <1> DEFINE child == p_children[p]
             dead == {i \in DOMAIN child : /\ p_state[child[i]] = "PROC_DEAD"
                                           /\ w \in {AnyChild, child[i]}}
             c == child[Min(dead)]
  <1>1. \/ dead # {} /\ cleanupDeadProcess(p, c)
        \/ /\ dead = {} /\ SleepAs(p, "KT_SLEEP") /\ Goto(p, "waitpid")
           /\ wpid' = [wpid EXCEPT ![p] = w]
           /\ UNCHANGED treeVars
    BY DEF Scan, sched_sleep_on
  <1>2. p_children[p] \in Seq(Thread) /\ ToSet(p_children[p]) \subseteq Thread
    BY TreeFacts, MemberNonEmpty
  <1>3. dead # {} => c \in ToSet(p_children[p]) /\ kt_state[c] = "KT_EXITED"
    <2>1. dead \in SUBSET Nat
      BY <1>2
    <2>2. ASSUME NEW i \in dead
          PROVE  child[i] \in ToSet(child) /\ p_state[child[i]] = "PROC_DEAD"
      BY DEF ToSet
    <2> HIDE DEF dead
    <2>3. dead # {} => Min(dead) \in dead
      BY <2>1, MinIsElement
    <2> QED
      BY <1>2, <2>2, <2>3 DEF Waits, Leaving
  <1>4. ASSUME dead = {}, NEW d \in ToSet(p_children[p]), p_state[d] = "PROC_DEAD"
        PROVE  w \notin {AnyChild, d}
    BY <1>4 DEF ToSet
  <1> HIDE DEF dead, c
  <1>5. CASE dead # {}
    BY <1>1, <1>3, <1>5, ReapWaits
  <1>6. CASE dead = {}
    <2>1. /\ p \in WaitQ /\ "KT_SLEEP" \in SleepState
          /\ "waitpid" \in {"sleep", "csleep", "waitpid"}
      BY DEF SleepState
    <2>2. /\ SleepAs(p, "KT_SLEEP") /\ Goto(p, "waitpid") /\ UNCHANGED treeVars
          /\ \A t \in Thread : t # p => wpid'[t] = wpid[t]
          /\ wpid'[p] = w
      BY <1>1, <1>6 DEF IInv, TypeOK
    <2> QED
      BY <1>4, <1>6, <2>1, <2>2, SleepWaits
  <1> QED
    BY <1>5, <1>6

LEMMA InterruptWaits ==
  ASSUME IInv, Waits, NEW q \in Device, Interrupt(q)
  PROVE  Waits'
  <1>1. /\ sched_wakeup_on(q) \/ sched_broadcast_on(q)
        /\ UNCHANGED <<p_children, p_pproc, pc, wpid>>
    BY DEF Interrupt, treeVars
  <1>2. UNCHANGED <<p_state, curthr, switching>>
    BY <1>1 DEF sched_wakeup_on, sched_broadcast_on
  <1>3. /\ \A t \in Thread : kt_wchan'[t] = t => kt_wchan[t] = t
        /\ \A t \in Thread : kt_wchan[t] = NULL => kt_state'[t] = kt_state[t]
    BY <1>1, WokenLeave
  <1>4. \A t \in Thread : pc[t] \in Exiting \cup {"zombie"} => kt_wchan[t] = NULL
    BY DEF Waits, Leaving, IInv, Place, NoUseAfterFree, Exiting
  <1>5. \A t \in Thread : pc[t] = "cleanup" => p_pproc[t] \in Thread
    <2>1. pc[idle] # "cleanup"
      BY DEF IInv, Place, IdleStays
    <2> QED
      BY <2>1, TreeFacts DEF Live
  <1>6. Leaving'
    BY <1>1, <1>2, <1>3, <1>4, <1>5 DEF Waits, Leaving, Exiting
  <1>7. BlocksUntilOneExits'
    BY <1>1, <1>3, SleepersStep DEF Waits
  <1> QED
    BY <1>6, <1>7 DEF Waits

LEMMA SwitchWaits ==
  ASSUME IInv, Waits, Switch
  PROVE  Waits'
  <1> DEFINE h == Head(tq[kt_runq])
  <1>1. /\ switching /\ tq[kt_runq] # <<>>
        /\ kt_wchan' = [kt_wchan EXCEPT ![h] = NULL]
        /\ kt_state' = [kt_state EXCEPT ![h] = "KT_RUN"]
        /\ UNCHANGED <<p_children, p_pproc, pc, wpid, p_state>>
    BY DEF Switch, sched_switch, treeVars
  <1>2. h \in Thread /\ kt_wchan[h] = kt_runq /\ kt_runq # NULL
    BY <1>1, IInvParts, HeadIsLinked DEF Queue
  <1> HIDE DEF h
  <1>3. pc[h] # "zombie" /\ \A t \in Thread : pc[t] \notin Exiting
    BY <1>1, <1>2, NobodyExits DEF Waits, IInv, Place, NoUseAfterFree
  <1>4. \A t \in Thread : t # h => kt_state'[t] = kt_state[t]
    BY <1>1 DEF IInv, TypeOK, SchedTypeOK
  <1>5. \A t \in Thread : kt_wchan'[t] = t => kt_wchan[t] = t
    BY <1>1 DEF IInv, TypeOK, SchedTypeOK
  <1>6. Leaving'
    BY <1>1, <1>3, <1>4 DEF Waits, Leaving, Exiting
  <1>7. BlocksUntilOneExits'
    BY <1>1, <1>5, SleepersStep DEF Waits
  <1> QED
    BY <1>6, <1>7 DEF Waits

LEMMA StepWaits ==
  ASSUME ~Blocking, IInv, Waits, [Next]_vars
  PROVE  Waits'
  <1>1. CASE UNCHANGED vars
    BY <1>1 DEF vars, schedVars, treeVars, Waits, Leaving, BlocksUntilOneExits,
                HasExited
  <1>2. ASSUME NEW p \in Thread, Operation(p) PROVE Waits'
    <2>1. ASSUME NEW c \in Thread, proc_create(p, c) PROVE Waits'
      BY <2>1, CreateWaits
    <2>2. ASSUME NEW q \in Device, Sleep(p, q) \/ CancellableSleep(p, q) PROVE Waits'
      <3>1. PICK s \in SleepState, l \in {"sleep", "csleep", "waitpid"} :
              /\ At(p, "run") /\ SleepAs(q, s) /\ Goto(p, l)
              /\ UNCHANGED <<treeVars, wpid>>
        BY <2>2 DEF Sleep, CancellableSleep, sched_sleep_on,
                    sched_cancellable_sleep_on, SleepState
      <3>2. q \in WaitQ /\ q # p
        OBVIOUS
      <3> QED
        BY <3>1, <3>2, SleepWaits
    <2>3. ASSUME NEW w \in Thread \cup {AnyChild}, do_waitpid(p, w) PROVE Waits'
      <3>1. At(p, "run") /\ Scan(p, w)
        BY <2>3 DEF do_waitpid, Calls
      <3> QED
        BY <3>1, ScanWaits
    <2>4. CASE do_exit(p)
      BY <2>4, GoesOnWaits
    <2>5. CASE proc_kill_all(p)
      BY <2>5, KillWaits
    <2> QED
      BY <1>2, <2>1, <2>2, <2>3, <2>4, <2>5 DEF Operation
  <1>3. ASSUME NEW p \in Thread, Continue(p) PROVE Waits'
    <2>1. CASE Wake(p) \/ WakeCancelled(p)
      BY <2>1, GoesOnWaits
    <2>2. CASE WaitAgain(p)
      <3>1. At(p, "waitpid") /\ Scan(p, wpid[p])
        BY <2>2 DEF WaitAgain
      <3>2. wpid[p] \in Thread \cup {AnyChild, NULL}
        BY DEF IInv, TypeOK
      <3> QED
        BY <3>1, <3>2, ScanWaits
    <2>3. CASE WakeParent(p)
      BY <2>3, WakeParentWaits
    <2>4. CASE proc_cleanup(p)
      BY <2>4, CleanupWaits
    <2>5. ASSUME NEW q \in Device, CloseSleeps(p, q) PROVE FALSE
      BY <2>5 DEF CloseSleeps
    <2> QED
      BY <1>3, <2>1, <2>2, <2>3, <2>4, <2>5 DEF Continue
  <1>4. ASSUME NEW q \in Device, Interrupt(q) PROVE Waits'
    BY <1>4, InterruptWaits
  <1>5. CASE Switch
    BY <1>5, SwitchWaits
  <1> QED
    BY <1>1, <1>2, <1>3, <1>4, <1>5 DEF Next

(* When closing files does not sleep, the exits stay in order and no wakeup*)
(* of a waiting parent is lost.                                            *)
LEMMA WaitsInvariant ==
  ASSUME ~Blocking
  PROVE  Spec => [](IInv /\ Waits /\ NoPanic)
  <1>1. Init => IInv /\ Waits /\ NoPanic
    <2>1. ASSUME Init PROVE Waits /\ NoPanic
      <3>1. Leaving /\ NoPanic
        BY <2>1 DEF Init, Leaving, Exiting, NoPanic
      <3>2. BlocksUntilOneExits
        BY <2>1 DEF Init, BlocksUntilOneExits
      <3> QED
        BY <3>1, <3>2 DEF Waits
    <2> QED
      BY <2>1, InitHolds
  <1>2. IInv /\ Waits /\ NoPanic /\ [Next]_vars => (IInv /\ Waits /\ NoPanic)'
    <2> SUFFICES ASSUME IInv, Waits, NoPanic, [Next]_vars
                 PROVE  IInv' /\ Waits' /\ NoPanic'
      OBVIOUS
    <2>1. \A c \in Thread : p_state[c] = "PROC_DEAD" => kt_state[c] = "KT_EXITED"
      BY DEF Waits, Leaving
    <2>2. IInv' /\ NoPanic'
      BY <2>1, StepKeeps DEF NoPanic
    <2> QED
      BY <2>2, StepWaits
  <1> QED
    BY <1>1, <1>2, PTL DEF Spec

(* do_waitpid blocks until a child exits and no longer: a process whose    *)
(* children are its own never sleeps on while one it waits for is a zombie *)
(* (closing files does not sleep).                                         *)
THEOREM ParentsAreWoken == ~Blocking => (Spec => []BlocksUntilOneExits)
  <1> SUFFICES ASSUME ~Blocking PROVE Spec => []BlocksUntilOneExits
    OBVIOUS
  <1>1. Spec => [](IInv /\ Waits /\ NoPanic)
    BY WaitsInvariant
  <1>2. IInv /\ Waits /\ NoPanic => BlocksUntilOneExits
    BY DEF Waits
  <1> QED
    BY <1>1, <1>2, PTL

(* No KASSERT fails: a process that is reaped has a thread in state        *)
(* KT_EXITED, and the queues are as their functions expect them (closing   *)
(* files does not sleep).                                                  *)
THEOREM NeverPanics == ~Blocking => (Spec => []NoPanic)
  <1> SUFFICES ASSUME ~Blocking PROVE Spec => []NoPanic
    OBVIOUS
  <1>1. Spec => [](IInv /\ Waits /\ NoPanic)
    BY WaitsInvariant
  <1> QED
    BY <1>1, PTL
=============================================================================
