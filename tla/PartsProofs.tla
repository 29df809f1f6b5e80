----------------------------- MODULE PartsProofs ----------------------------
(***************************************************************************)
(* The safety of four small machines that share no state.                  *)
(*                                                                         *)
(* First the dispatch against interrupts (module Idle), for any finite set *)
(* of threads: the properties of interest speak of two points of           *)
(* sched_switch; the inductive invariant says, for each statement, what    *)
(* the level and the interrupt flag are and what the run queue holds.      *)
(*                                                                         *)
(* Then warmup2 (module TokenBucket), for any number of packets, depth of  *)
(* the bucket and needs of packets: the packets are counted and in order,  *)
(* and a server that waits will be woken or cancelled.                     *)
(*                                                                         *)
(* Then the list of warmup1 (module LinkedList), for any elements and      *)
(* objects, and the numbers of processes (module Pids), for any processes  *)
(* and numbers.  Each has a search that is a recursive function: that      *)
(* there is such a function, though it follows pointers or goes in a       *)
(* circle, and what any such function finds, are proved by the greatest    *)
(* place, or the number furthest ahead, where it could be wrong.           *)
(***************************************************************************)
EXTENDS Idle, TokenBucket, LinkedList, Pids, SeqLemmas, FiniteSetTheorems

(* What holds before each statement of sched_switch, whatever handlers ran.*)
CpuOK ==
  /\ iflag <=> at \notin {"lower", "wait"}
  /\ at = "thread" => ipl = curipl[curthr]
  /\ at \in {"mask", "dequeue"} => kt_runq # <<>>
  /\ at = "dequeue" => ipl = "high"

(* A thread has one place: the run queue, its device, or the processor.    *)
PlaceOK ==
  /\ Injective(kt_runq)
  /\ request \cap raised = {}
  /\ ToSet(kt_runq) \cap (request \cup raised) = {}
  /\ at = "thread" => curthr \notin ToSet(kt_runq) \cup request \cup raised
  /\ Thread \subseteq ToSet(kt_runq) \cup request \cup raised
                      \cup (IF at = "thread" THEN {curthr} ELSE {})

SwitchInv == TypeOK /\ CpuOK /\ PlaceOK

-----------------------------------------------------------------------------
(* The first run queue has every other thread, once. *)
LEMMA FirstQueue ==
  ASSUME NEW S, IsFiniteSet(S)
  PROVE  /\ SetToSeq(S) \in Seq(S)
         /\ Injective(SetToSeq(S))
         /\ ToSet(SetToSeq(S)) = S
  <1> DEFINE n == Cardinality(S)
             q == SetToSeq(S)
  <1>1. n \in Nat /\ ExistsBijection(1 .. n, S)
    BY FS_CardinalityType
  <1>2. \E f \in [1 .. n -> S] : IsInjective(f)
    BY <1>1 DEF ExistsBijection, Bijection, Injection
  <1>3. q \in [1 .. n -> S] /\ IsInjective(q)
    BY <1>2 DEF SetToSeq
  <1> HIDE DEF q
  <1>4. IsFiniteSet(1 .. n) /\ Cardinality(1 .. n) = n
    BY <1>1, FS_Interval
  <1>5. q \in Surjection(1 .. n, S)
    BY <1>3, <1>4, FS_Injection DEF Injection
  <1>6. ToSet(q) = S
    BY <1>3, <1>5 DEF Surjection, ToSet
  <1>7. Injective(q)
    BY <1>3 DEF IsInjective, Injective
  <1>8. q \in Seq(S)
    BY <1>1, <1>3, SeqDef
  <1> QED
    BY <1>6, <1>7, <1>8 DEF q

LEMMA InitSwitch == Init => SwitchInv
  <1> SUFFICES ASSUME Init PROVE SwitchInv
    OBVIOUS
  <1>1. IsFiniteSet(Thread \ {curthr})
    BY IdleAssumption, FS_RemoveElement
  <1>2. /\ kt_runq \in Seq(Thread \ {curthr})
        /\ Injective(kt_runq) /\ ToSet(kt_runq) = Thread \ {curthr}
    BY <1>1, FirstQueue DEF Init
  <1>3. kt_runq \in Seq(Thread)
    BY <1>2, SeqMonotonic
  <1> QED
    BY <1>2, <1>3 DEF Init, SwitchInv, TypeOK, CpuOK, PlaceOK, Statement, IPL

-----------------------------------------------------------------------------
(* A thread starts to sleep, or yields, and gives up its place on the CPU. *)
LEMMA SleepSwitch == SwitchInv /\ Sleep => SwitchInv'
  BY DEF SwitchInv, TypeOK, CpuOK, PlaceOK, Statement, IPL, Sleep, Step, SetIpl

LEMMA YieldSwitch == SwitchInv /\ Yield => SwitchInv'
  <1> SUFFICES ASSUME SwitchInv, Yield PROVE SwitchInv'
    OBVIOUS
  <1>1. /\ kt_runq' \in Seq(Thread) /\ Injective(kt_runq')
        /\ ToSet(kt_runq') = ToSet(kt_runq) \cup {curthr}
    BY AppendQueue DEF SwitchInv, TypeOK, PlaceOK, Yield, Step
  <1> QED
    BY <1>1 DEF SwitchInv, TypeOK, CpuOK, PlaceOK, Statement, IPL, Yield, Step, SetIpl, devVars

(* The statements of the loop change neither the run queue nor a thread.   *)
LEMMA LoopSwitch ==
  SwitchInv /\ (Raise \/ Test \/ Disable \/ Lower \/ intr_wait \/ Mask) => SwitchInv'
  <1> SUFFICES ASSUME SwitchInv, Raise \/ Test \/ Disable \/ Lower \/ intr_wait \/ Mask
               PROVE  SwitchInv'
    OBVIOUS
  <1> USE DEF SwitchInv, TypeOK, CpuOK, PlaceOK, Statement, IPL, Step, SetIpl, devVars, cpuVars
  <1>1. CASE Raise     BY <1>1 DEF Raise
  <1>2. CASE Test      BY <1>2 DEF Test
  <1>3. CASE Disable   BY <1>3 DEF Disable
  <1>4. CASE Lower     BY <1>4 DEF Lower
  <1>5. CASE intr_wait BY <1>5 DEF intr_wait
  <1>6. CASE Mask      BY <1>6 DEF Mask
  <1> QED
    BY <1>1, <1>2, <1>3, <1>4, <1>5, <1>6

(* The head of the run queue gets the CPU. *)
LEMMA DequeueSwitch == SwitchInv /\ Dequeue => SwitchInv'
  <1> SUFFICES ASSUME SwitchInv, Dequeue PROVE SwitchInv'
    OBVIOUS
  <1>1. /\ kt_runq' \in Seq(Thread) /\ Injective(kt_runq')
        /\ curthr' \in Thread /\ curthr' \in ToSet(kt_runq)
        /\ ToSet(kt_runq') = ToSet(kt_runq) \ {curthr'}
    BY TailQueue DEF SwitchInv, TypeOK, PlaceOK, Dequeue
  <1> QED
    BY <1>1 DEF SwitchInv, TypeOK, CpuOK, PlaceOK, Statement, IPL, Dequeue, Step, SetIpl, devVars

(* Devices and the keyboard raise interrupts ... *)
LEMMA RaisedSwitch == SwitchInv /\ (KeyPress \/ \E t \in Thread : Complete(t)) => SwitchInv'
  <1> SUFFICES ASSUME SwitchInv, KeyPress \/ \E t \in Thread : Complete(t) PROVE SwitchInv'
    OBVIOUS
  <1> USE IdleAssumption DEF SwitchInv, TypeOK, CpuOK, PlaceOK, cpuVars
  <1>0. ToSet(kt_runq) \subseteq Thread
    BY MemberNonEmpty
  <1>1. CASE KeyPress
    BY <1>0, <1>1 DEF KeyPress
  <1>2. ASSUME NEW t \in Thread, Complete(t) PROVE SwitchInv'
    BY <1>2 DEF Complete
  <1> QED
    BY <1>1, <1>2

(* ... and their handlers make threads runnable. *)
LEMMA InterruptSwitch ==
  ASSUME NEW d \in Thread \cup {keyboard}, SwitchInv, Interrupt(d)
  PROVE  SwitchInv'
  <1> USE IdleAssumption
  <1>1. CASE d = keyboard
    BY <1>1 DEF SwitchInv, TypeOK, CpuOK, PlaceOK, Statement, Interrupt, Masked, cpuVars
  <1>2. CASE d # keyboard
    <2>1. /\ d \in Thread /\ d \in raised /\ d \notin ToSet(kt_runq)
          /\ kt_runq' = Append(kt_runq, d)
      BY <1>2 DEF SwitchInv, PlaceOK, Interrupt
    <2>2. /\ kt_runq' \in Seq(Thread) /\ Injective(kt_runq')
          /\ ToSet(kt_runq') = ToSet(kt_runq) \cup {d}
      BY <2>1, AppendQueue DEF SwitchInv, TypeOK, PlaceOK
    <2>3. kt_runq' # <<>>
      BY <2>2, MemberNonEmpty
    <2>4. TypeOK'
      BY <2>2 DEF SwitchInv, TypeOK, Statement, Interrupt, cpuVars
    <2>5. CpuOK'
      BY <2>3 DEF SwitchInv, CpuOK, Interrupt, Masked, cpuVars
    <2>6. PlaceOK'
      BY <2>1, <2>2 DEF SwitchInv, PlaceOK, Interrupt, cpuVars
    <2> QED
      BY <2>4, <2>5, <2>6 DEF SwitchInv
  <1> QED
    BY <1>1, <1>2

LEMMA NextSwitch == SwitchInv /\ [Next]_vars => SwitchInv'
  <1> SUFFICES ASSUME SwitchInv, [Next]_vars PROVE SwitchInv'
    OBVIOUS
  <1>1. CASE Cpu
    BY <1>1, SleepSwitch, YieldSwitch, LoopSwitch, DequeueSwitch DEF Cpu
  <1>2. CASE KeyPress \/ \E t \in Thread : Complete(t)
    BY <1>2, RaisedSwitch
  <1>3. CASE \E d \in Thread \cup {keyboard} : Interrupt(d)
    BY <1>3, InterruptSwitch
  <1>4. CASE UNCHANGED vars
    BY <1>4 DEF SwitchInv, TypeOK, CpuOK, PlaceOK, vars, cpuVars, devVars
  <1> QED
    BY <1>1, <1>2, <1>3, <1>4 DEF Next

-----------------------------------------------------------------------------
(* SwitchInv always holds: sched_switch keeps its bookkeeping against handlers  *)
(* that run between any two of its statements.                             *)
THEOREM SwitchInvariant == Spec => []SwitchInv
  BY InitSwitch, NextSwitch, PTL DEF Spec

(* Every reachable state of the switch is type-correct. *)
THEOREM SwitchTypes == Spec => []TypeOK
  <1>1. SwitchInv => TypeOK
    BY DEF SwitchInv
  <1> QED
    BY <1>1, SwitchInvariant, PTL

(* ktqueue_dequeue of sched_switch returns a thread, with every interrupt  *)
(* masked.                                                                 *)
THEOREM DispatchSafe == Spec => []DequeueIsSafe
  <1>1. SwitchInv => DequeueIsSafe
    BY DEF SwitchInv, CpuOK, DequeueIsSafe, Masked
  <1> QED
    BY <1>1, SwitchInvariant, PTL

(* A thread runs with the level it slept with. *)
THEOREM LevelPerThread == Spec => []IplIsPerThread
  <1>1. SwitchInv => IplIsPerThread
    BY DEF SwitchInv, CpuOK, IplIsPerThread
  <1> QED
    BY <1>1, SwitchInvariant, PTL

(* No interleaving of sched_switch with handlers loses or doubles a thread.*)
THEOREM NoThreadLost == Spec => []OnePlace
  <1>1. SwitchInv => OnePlace
    BY MemberNonEmpty DEF SwitchInv, TypeOK, PlaceOK, OnePlace, Injective
  <1> QED
    BY <1>1, SwitchInvariant, PTL

-----------------------------------------------------------------------------
(* The threads are five. *)
LEMMA FiveThreads ==
  /\ arrival \notin {tokens, server1, server2, ctrl}
  /\ tokens \notin {server1, server2, ctrl}
  /\ server1 \notin {server2, ctrl} /\ server2 # ctrl
  /\ NoThread \notin All
  /\ IsFiniteSet(All) /\ IsFiniteSet(Workers)
  <1> DEFINE S1 == {} \cup {ctrl}
             S2 == S1 \cup {server2}
             S3 == S2 \cup {server1}
             S4 == S3 \cup {tokens}
             S5 == S4 \cup {arrival}
  <1>1. IsFiniteSet({}) /\ Cardinality({}) = 0
    BY FS_EmptySet
  <1>2. IsFiniteSet(S1) /\ Cardinality(S1) = 1
    BY <1>1, FS_AddElement
  <1> HIDE DEF S1
  <1>3. IsFiniteSet(S2) /\ Cardinality(S2) = IF server2 \in S1 THEN 1 ELSE 2
    BY <1>2, FS_AddElement
  <1> HIDE DEF S2
  <1>4. /\ IsFiniteSet(S3)
        /\ Cardinality(S3) = IF server1 \in S2 THEN Cardinality(S2) ELSE Cardinality(S2) + 1
    BY <1>3, FS_AddElement
  <1> HIDE DEF S3
  <1>5. /\ IsFiniteSet(S4)
        /\ Cardinality(S4) = IF tokens \in S3 THEN Cardinality(S3) ELSE Cardinality(S3) + 1
    BY <1>4, FS_AddElement
  <1> HIDE DEF S4
  <1>6. /\ IsFiniteSet(S5)
        /\ Cardinality(S5) = IF arrival \in S4 THEN Cardinality(S4) ELSE Cardinality(S4) + 1
    BY <1>5, FS_AddElement
  <1>7. S5 = {arrival, tokens, server1, server2, ctrl}
    BY DEF S1, S2, S3, S4
  <1> HIDE DEF S5
  <1>8. Cardinality(S5) = 5
    BY <1>7, BucketAssumption
  <1>9. server2 \notin S1 /\ server1 \notin S2 /\ tokens \notin S3 /\ arrival \notin S4
    BY <1>3, <1>4, <1>5, <1>6, <1>8
  <1>10. All = S5 /\ Workers \subseteq S5
    BY <1>7 DEF All, Workers, Server
  <1>11. IsFiniteSet(All) /\ IsFiniteSet(Workers)
    BY <1>6, <1>10, FS_Subset
  <1>12. NoThread \notin All
    BY <1>7, <1>10, BucketAssumption
  <1> QED
    BY <1>9, <1>11, <1>12 DEF S1, S2, S3, S4

-----------------------------------------------------------------------------
(* Queue Q2 followed by queue Q1: moving a packet leaves it alone, ...     *)
LEMMA MovedBetween ==
  ASSUME NEW S, NEW s \in Seq(S), NEW t \in Seq(S), t # <<>>
  PROVE  Append(s, Head(t)) \o Tail(t) = s \o t
  <1> DEFINE a == Append(s, Head(t))
             r == Tail(t)
  <1>1. /\ Len(s) \in Nat /\ Len(t) \in Nat /\ Len(t) # 0
        /\ Head(t) = t[1]
    BY LenProperties, EmptySeq
  <1>2. /\ r \in Seq(S) /\ Len(r) = Len(t) - 1 /\ Head(t) \in S
        /\ \A i \in 1 .. Len(r) : r[i] = t[i + 1]
    BY HeadTailProperties
  <1>3. /\ a \in Seq(S) /\ Len(a) = Len(s) + 1 /\ a[Len(s) + 1] = t[1]
        /\ \A i \in 1 .. Len(s) : a[i] = s[i]
    BY <1>1, <1>2, AppendProperties
  <1> HIDE DEF a, r
  <1>4. /\ a \o r \in Seq(S) /\ Len(a \o r) = Len(a) + Len(r)
        /\ \A i \in 1 .. Len(a) + Len(r) :
             (a \o r)[i] = IF i <= Len(a) THEN a[i] ELSE r[i - Len(a)]
    BY <1>2, <1>3, ConcatProperties
  <1>5. /\ s \o t \in Seq(S) /\ Len(s \o t) = Len(s) + Len(t)
        /\ \A i \in 1 .. Len(s) + Len(t) :
             (s \o t)[i] = IF i <= Len(s) THEN s[i] ELSE t[i - Len(s)]
    BY ConcatProperties
  <1>6. Len(a \o r) = Len(s \o t)
    BY <1>1, <1>2, <1>3, <1>4, <1>5
  <1>7. ASSUME NEW i \in 1 .. Len(a \o r) PROVE (a \o r)[i] = (s \o t)[i]
    <2>1. i \in 1 .. Len(s) + Len(t) /\ i \in 1 .. Len(a) + Len(r)
      BY <1>4, <1>5, <1>6
    <2>2. CASE i <= Len(s)
      BY <2>1, <2>2, <1>1, <1>3, <1>4, <1>5
    <2>3. CASE i = Len(s) + 1
      BY <2>1, <2>3, <1>1, <1>3, <1>4, <1>5
    <2>4. CASE i > Len(s) + 1
      <3>1. i - Len(a) \in 1 .. Len(r) /\ (i - Len(a)) + 1 = i - Len(s)
        BY <2>1, <2>4, <1>1, <1>2, <1>3
      <3>2. (a \o r)[i] = r[i - Len(a)] /\ (s \o t)[i] = t[i - Len(s)]
        BY <2>1, <2>4, <1>1, <1>3, <1>4, <1>5
      <3> QED
        BY <3>1, <3>2, <1>2
    <2> QED
      BY <2>1, <2>2, <2>3, <2>4, <1>1
  <1> QED
    BY <1>4, <1>5, <1>6, <1>7, SeqEqual DEF a, r

(* ... a new packet comes last, ...                                        *)
LEMMA AppendedLast ==
  ASSUME NEW S, NEW s \in Seq(S), NEW t \in Seq(S), NEW x \in S
  PROVE  s \o Append(t, x) = Append(s \o t, x)
  <1>1. <<x>> \in Seq(S) /\ Append(t, x) = t \o <<x>>
    BY AppendIsConcat
  <1>2. s \o t \in Seq(S)
    BY ConcatProperties
  <1>3. Append(s \o t, x) = (s \o t) \o <<x>>
    BY <1>2, AppendIsConcat
  <1> QED
    BY <1>1, <1>3, ConcatAssociative

(* ... and the first one is served. *)
LEMMA ServedFirst ==
  ASSUME NEW S, NEW s \in Seq(S), NEW t \in Seq(S), s # <<>>
  PROVE  /\ s \o t # <<>>
         /\ Tail(s) \o t = Tail(s \o t)
  <1> DEFINE r == Tail(s)
             c == s \o t
  <1>1. Len(s) \in Nat /\ Len(t) \in Nat /\ Len(s) # 0
    BY LenProperties, EmptySeq
  <1>2. /\ r \in Seq(S) /\ Len(r) = Len(s) - 1
        /\ \A i \in 1 .. Len(r) : r[i] = s[i + 1]
    BY HeadTailProperties
  <1>3. /\ c \in Seq(S) /\ Len(c) = Len(s) + Len(t)
        /\ \A i \in 1 .. Len(s) + Len(t) : c[i] = IF i <= Len(s) THEN s[i] ELSE t[i - Len(s)]
    BY ConcatProperties
  <1> HIDE DEF r, c
  <1>4. c # <<>>
    BY <1>1, <1>3, EmptySeq
  <1>5. /\ Tail(c) \in Seq(S) /\ Len(Tail(c)) = Len(c) - 1
        /\ \A i \in 1 .. Len(Tail(c)) : Tail(c)[i] = c[i + 1]
    BY <1>3, <1>4, HeadTailProperties
  <1>6. /\ r \o t \in Seq(S) /\ Len(r \o t) = Len(r) + Len(t)
        /\ \A i \in 1 .. Len(r) + Len(t) :
             (r \o t)[i] = IF i <= Len(r) THEN r[i] ELSE t[i - Len(r)]
    BY <1>2, ConcatProperties
  <1>7. Len(r \o t) = Len(Tail(c))
    BY <1>1, <1>2, <1>3, <1>5, <1>6
  <1>8. ASSUME NEW i \in 1 .. Len(r \o t) PROVE (r \o t)[i] = Tail(c)[i]
    <2>1. /\ i \in 1 .. Len(r) + Len(t) /\ i \in 1 .. Len(Tail(c))
          /\ i + 1 \in 1 .. Len(s) + Len(t) /\ i - Len(r) = (i + 1) - Len(s)
      BY <1>1, <1>2, <1>3, <1>5, <1>6, <1>7
    <2>2. Tail(c)[i] = IF i + 1 <= Len(s) THEN s[i + 1] ELSE t[(i + 1) - Len(s)]
      BY <2>1, <1>3, <1>5
    <2>3. (r \o t)[i] = IF i <= Len(r) THEN r[i] ELSE t[i - Len(r)]
      BY <2>1, <1>6
    <2>4. CASE i <= Len(r)
      BY <2>1, <2>2, <2>3, <2>4, <1>1, <1>2
    <2>5. CASE ~(i <= Len(r))
      BY <2>1, <2>2, <2>3, <2>5, <1>1, <1>2
    <2> QED
      BY <2>4, <2>5
  <1> QED
    BY <1>4, <1>5, <1>6, <1>7, <1>8, SeqEqual DEF r, c

-----------------------------------------------------------------------------
(* The types, but for the bounds that follow from the counts. *)
SideOK ==
  /\ bucket_token_count \in 0 .. bucketDepth
  /\ done \in [Workers -> BOOLEAN] /\ flag_server \in BOOLEAN
  /\ mutex \in All \cup {NoThread} /\ cancelled \subseteq Workers

PlaceTypeOK ==
  /\ waiting \subseteq Server
  /\ pc \in [All -> UNION {Label(t) : t \in All}] /\ \A t \in All : pc[t] \in Label(t)

PacketsTypeOK ==
  /\ reqTokens \in [1 .. num -> 1 .. MaxNeed] /\ readFile_flag \in BOOLEAN
  /\ Q1List \in Seq(1 .. num) /\ Q2List \in Seq(1 .. num)
  /\ total_genPackets \in 0 .. num /\ droppedPackets \in Nat
  /\ q1_to_q2 \in Nat /\ q2_to_out \in Nat /\ lost \in Nat

(* Who is in pthread_cond_wait. *)
WaitersOK == \A t \in All : t \in waiting <=> pc[t] = "waiting"

Shape == SideOK /\ PlaceTypeOK /\ PacketsTypeOK /\ WaitersOK

InHand == {t \in Workers : pc[t] \in {"append", "serve"}}

InQ1 == Len(Q1List)
InQ2 == Len(Q2List)
Held == Cardinality(InHand)

(* The packets that arrived, but for those dropped, have not all moved on. *)
MovesCounted ==
  q1_to_q2 + droppedPackets + InQ1 + (IF pc[arrival] = "append" THEN 1 ELSE 0)
    <= total_genPackets

(* The packet in the hands of the first thread is the newest. *)
NewestLast ==
  LET q == Q2List \o Q1List
  IN \A i \in 1 .. Len(q) :
       q[i] <= total_genPackets /\ (pc[arrival] = "append" => q[i] < total_genPackets)

Counts == PacketsAccounted /\ MovesCounted /\ InOrder /\ NewestLast

-----------------------------------------------------------------------------
(* Thread t goes on to l: to wait or not, or after a broadcast. *)
Turn(t, l) ==
  \/ /\ pc' = [pc EXCEPT ![t] = l]
     /\ waiting' = IF l = "waiting" THEN waiting \cup {t} ELSE waiting \ {t}
  \/ /\ pc' = [Broadcast(pc) EXCEPT ![t] = l]
     /\ waiting' = {} /\ l # "waiting"

LEMMA Turned ==
  ASSUME PlaceTypeOK, WaitersOK, NEW t \in All, NEW l \in Label(t), Turn(t, l)
  PROVE  /\ PlaceTypeOK' /\ WaitersOK'
         /\ pc'[t] = l
         /\ \A x \in All \ {t} :
              \/ pc'[x] = pc[x]
              \/ x \in Server /\ pc[x] = "waiting" /\ pc'[x] = "woken"
  <1>1. /\ \A x \in Server : "woken" \in Label(x) /\ x \in All
        /\ (l = "waiting" => t \in Server)
    <2>2. \A x \in Server : "woken" \in Label(x) /\ x \in All
      BY FiveThreads DEF Label, Server, All, Workers
    <2>3. l = "waiting" => t \in Server
      BY FiveThreads DEF Label, Server, All, Workers
    <2> QED
      BY <2>2, <2>3
  <1>2. CASE /\ pc' = [pc EXCEPT ![t] = l]
             /\ waiting' = IF l = "waiting" THEN waiting \cup {t} ELSE waiting \ {t}
    <2>1. \A x \in All : pc'[x] = IF x = t THEN l ELSE pc[x]
      BY <1>2 DEF PlaceTypeOK
    <2>2. pc' \in [All -> UNION {Label(x) : x \in All}]
      BY <1>1, <1>2 DEF PlaceTypeOK
    <2> QED
      BY <1>1, <1>2, <2>1, <2>2 DEF PlaceTypeOK, WaitersOK, Label
  <1>3. CASE /\ pc' = [Broadcast(pc) EXCEPT ![t] = l]
             /\ waiting' = {} /\ l # "waiting"
    <2>1. \A x \in All : pc'[x] = IF x = t THEN l ELSE IF x \in waiting THEN "woken" ELSE pc[x]
      BY <1>3 DEF Broadcast
    <2>2. pc' \in [All -> UNION {Label(x) : x \in All}]
      BY <1>1, <1>3 DEF PlaceTypeOK, Broadcast
    <2> QED
      BY ZenonT(40), <1>1, <1>3, <2>1, <2>2 DEF PlaceTypeOK, WaitersOK, Label
  <1> QED
    BY <1>2, <1>3 DEF Turn

-----------------------------------------------------------------------------
(* Most steps move no packet. *)
Quiet(t, l) ==
  /\ pc[t] \notin {"append", "serve"} /\ l \notin {"append", "serve"}
  /\ Turn(t, l) /\ SideOK'
  /\ UNCHANGED <<input, Q1List, Q2List, counts, lost>>

Stays(t) == \E l \in Label(t) : Quiet(t, l)

(* Going to l with the waiters left alone, or woken, is a turn. *)
LEMMA Goes ==
  ASSUME PlaceTypeOK, WaitersOK, NEW t \in All, NEW l, l # "waiting", pc[t] # "waiting"
  PROVE  /\ Goto(t, l) /\ waiting' = waiting => Turn(t, l)
         /\ pthread_cond_broadcast(t, l) => Turn(t, l)
  <1>1. t \notin waiting
    BY DEF WaitersOK
  <1>2. waiting \ {t} = waiting
    BY <1>1
  <1> QED
    BY <1>2 DEF Turn, Goto, pthread_cond_broadcast

LEMMA LabelsOf ==
  /\ {"sleep", "append", "move", "moving", "last", "exit"} = Label(arrival)
  /\ {"add", "move", "moving", "last", "exit"} = Label(tokens)
  /\ \A s \in Server :
       Label(s) = {"start", "looking", "wait", "waiting", "woken", "serve",
                   "cancel_p", "cancel_t", "cancel_s", "exit"}
  /\ {"sigwait", "stop", "drain", "draining", "exit"} = Label(ctrl)
  /\ arrival \in Workers /\ tokens \in Workers /\ Server \subseteq Workers
  /\ Workers \subseteq All /\ ctrl \in All /\ ctrl \notin Workers
  /\ arrival \notin Server /\ tokens \notin Server
  /\ \A s \in Server : Other(s) \in Server /\ Other(s) # s /\ Other(Other(s)) = s
  /\ Server = {server1, server2}
  BY FiveThreads DEF Label, Server, Workers, All, Other

(* Waiting for the mutex. *)
LEMMA LockQuiet ==
  ASSUME Shape, NEW t \in All, NEW from, NEW to \in Label(t),
         from \notin {"append", "serve", "waiting"}, to \notin {"append", "serve", "waiting"},
         pthread_mutex_lock(t, from, to)
  PROVE  Stays(t)
  <1>1. pc[t] = from /\ Goto(t, to) /\ waiting' = waiting
    BY DEF pthread_mutex_lock, At
  <1>2. Turn(t, to)
    BY <1>1, Goes DEF Shape
  <1>3. SideOK'
    BY DEF Shape, SideOK, pthread_mutex_lock, queues, flags, ends
  <1>4. UNCHANGED <<input, Q1List, Q2List, counts, lost>>
    BY DEF pthread_mutex_lock, queues, ends
  <1>5. Quiet(t, to)
    BY <1>1, <1>2, <1>3, <1>4 DEF Quiet
  <1> QED
    BY <1>5 DEF Stays

(* The thread that makes packets. *)
LEMMA ArrivalQuiet ==
  ASSUME Shape, LastPacket \/ ExitArrival \/ (ArrivalMoves /\ ~CanMove)
  PROVE  Stays(arrival)
  <1> USE LabelsOf DEF Shape
  <1>1. CASE LastPacket
    <2>1. PICK l \in {"exit", "last"} : Goto(arrival, l) /\ waiting' = waiting
      BY <1>1 DEF LastPacket
    <2>2. Turn(arrival, l) /\ pc[arrival] = "sleep"
      BY <1>1, <2>1, Goes DEF LastPacket, At
    <2>3. SideOK'
      BY <1>1 DEF SideOK, LastPacket, queues, ends, pthread_mutex_unlock
    <2>4. Quiet(arrival, l)
      BY <1>1, <2>2, <2>3 DEF Quiet, LastPacket, queues, ends
    <2> QED
      BY <2>4 DEF Stays
  <1>2. CASE ExitArrival
    <2>1. Turn(arrival, "exit") /\ pc[arrival] = "last"
      BY <1>2, Goes DEF ExitArrival, At
    <2>2. Quiet(arrival, "exit")
      BY <1>2, <2>1 DEF Quiet, SideOK, ExitArrival, queues, flags, ends
    <2> QED
      BY <2>2 DEF Stays
  <1>3. CASE ArrivalMoves /\ ~CanMove
    <2>1. Turn(arrival, "sleep") /\ pc[arrival] = "moving"
      BY <1>3, Goes DEF ArrivalMoves, At
    <2>2. Quiet(arrival, "sleep")
      BY <1>3, <2>1 DEF Quiet, SideOK, ArrivalMoves, queues, counts, flags, ends, pthread_mutex_unlock
    <2> QED
      BY <2>2 DEF Stays
  <1> QED
    BY <1>1, <1>2, <1>3

(* The thread that makes tokens. *)
LEMMA TokensQuiet ==
  ASSUME Shape, AddToken \/ ExitTokens \/ (TokenMoves /\ ~CanMove)
  PROVE  Stays(tokens)
  <1> USE LabelsOf DEF Shape
  <1>1. CASE AddToken
    <2>1. Turn(tokens, "move") /\ pc[tokens] = "add"
      BY <1>1, Goes DEF AddToken, At, sync
    <2>2. SideOK'
      BY <1>1, BucketAssumption DEF SideOK, AddToken, flags, ends, sync
    <2>3. Quiet(tokens, "move")
      BY <1>1, <2>1, <2>2 DEF Quiet, AddToken, ends
    <2> QED
      BY <2>3 DEF Stays
  <1>2. CASE ExitTokens
    <2>1. Turn(tokens, "exit") /\ pc[tokens] = "last"
      BY <1>2, Goes DEF ExitTokens, At
    <2>2. Quiet(tokens, "exit")
      BY <1>2, <2>1 DEF Quiet, SideOK, ExitTokens, queues, ends
    <2> QED
      BY <2>2 DEF Stays
  <1>3. CASE TokenMoves /\ ~CanMove
    <2>1. PICK l \in {"last", "add"} : Goto(tokens, l) /\ waiting' = waiting
      BY <1>3 DEF TokenMoves, Move
    <2>2. Turn(tokens, l) /\ pc[tokens] = "moving"
      BY <1>3, <2>1, Goes DEF TokenMoves, At
    <2>3. SideOK'
      BY <1>3 DEF SideOK, TokenMoves, Move, queues, flags, ends, pthread_mutex_unlock
    <2>4. Quiet(tokens, l)
      BY <1>3, <2>2, <2>3 DEF Quiet, TokenMoves, Move, queues, counts, ends
    <2> QED
      BY <2>4 DEF Stays
  <1> QED
    BY <1>1, <1>2, <1>3

(* The servers. *)
Waits(s) ==
  \/ pthread_mutex_lock(s, "start", "looking")
  \/ StopServer(s) \/ Finish(s) \/ NothingToDo(s) \/ Woken(s)
  \/ pthread_cond_wait(s) \/ Spurious(s)
  \/ CancelUnless(s, arrival, "cancel_p", "cancel_t")
  \/ CancelUnless(s, tokens, "cancel_t", "cancel_s")
  \/ CancelUnless(s, Other(s), "cancel_s", "exit")

LEMMA CancelQuiet ==
  ASSUME Shape, NEW s \in Server, NEW x \in Workers, NEW from, NEW to \in Label(s),
         from \notin {"append", "serve", "waiting"}, to \notin {"append", "serve", "waiting"},
         CancelUnless(s, x, from, to)
  PROVE  Stays(s)
  <1>1. Turn(s, to) /\ pc[s] = from
    BY LabelsOf, Goes DEF Shape, CancelUnless, At, sync
  <1>2. SideOK'
    BY DEF Shape, SideOK, CancelUnless, pthread_cancel, queues, sync, flags
  <1>3. Quiet(s, to)
    BY <1>1, <1>2 DEF Quiet, CancelUnless, queues
  <1> QED
    BY <1>3 DEF Stays

LEMMA ServerQuiet ==
  ASSUME Shape, NEW s \in Server, Waits(s)
  PROVE  Stays(s)
  <1> USE LabelsOf
  <1>1. CASE pthread_mutex_lock(s, "start", "looking")
    <2>1. s \in All /\ "looking" \in Label(s)
      OBVIOUS
    <2> QED
      BY <1>1, <2>1, LockQuiet
  <1>2. CASE StopServer(s)
    <2>1. Turn(s, "exit") /\ pc[s] = "looking"
      BY <1>2, Goes DEF Shape, StopServer, At
    <2>2. SideOK'
      BY <1>2 DEF Shape, SideOK, StopServer, pthread_cancel, pthread_mutex_unlock, queues, flags
    <2>3. Quiet(s, "exit")
      BY <1>2, <2>1, <2>2 DEF Quiet, StopServer, queues
    <2> QED
      BY <2>3 DEF Stays
  <1>3. CASE Finish(s)
    <2>1. Turn(s, "cancel_p") /\ pc[s] = "looking"
      BY <1>3, Goes DEF Shape, Finish, At
    <2>2. Quiet(s, "cancel_p")
      BY <1>3, <2>1 DEF Quiet, Shape, SideOK, Finish, pthread_mutex_unlock, queues, flags, ends
    <2> QED
      BY <2>2 DEF Stays
  <1>4. CASE NothingToDo(s)
    <2>1. Turn(s, "wait") /\ pc[s] = "looking"
      BY <1>4, Goes DEF Shape, NothingToDo, At, sync
    <2>2. Quiet(s, "wait")
      BY <1>4, <2>1 DEF Quiet, Shape, SideOK, NothingToDo, queues, sync, ends
    <2> QED
      BY <2>2 DEF Stays
  <1>5. CASE Woken(s)
    <2>1. Turn(s, "looking") /\ pc[s] = "woken"
      BY <1>5, Goes DEF Shape, Woken, At
    <2>2. Quiet(s, "looking")
      BY <1>5, <2>1 DEF Quiet, Shape, SideOK, Woken, queues, ends
    <2> QED
      BY <2>2 DEF Stays
  <1>6. CASE pthread_cond_wait(s)
    <2>1. Turn(s, "waiting") /\ pc[s] = "wait"
      BY <1>6 DEF Turn, Goto, pthread_cond_wait, At
    <2>2. Quiet(s, "waiting")
      BY <1>6, <2>1 DEF Quiet, Shape, SideOK, pthread_cond_wait, queues, flags, ends
    <2> QED
      BY <2>2 DEF Stays
  <1>7. CASE Spurious(s)
    <2>1. Turn(s, "woken") /\ pc[s] = "waiting"
      BY <1>7 DEF Shape, WaitersOK, Turn, Goto, Spurious
    <2>2. Quiet(s, "woken")
      BY <1>7, <2>1 DEF Quiet, Shape, SideOK, Spurious, queues, flags, ends
    <2> QED
      BY <2>2 DEF Stays
  <1>8. {"cancel_t", "cancel_s", "exit"} \subseteq Label(s) /\ Other(s) \in Workers
    OBVIOUS
  <1> QED
    BY <1>1, <1>2, <1>3, <1>4, <1>5, <1>6, <1>7, <1>8, CancelQuiet DEF Waits

(* The thread that waits for SIGINT. *)
LEMMA CtrlQuiet ==
  ASSUME Shape, SigInt \/ StopAll
  PROVE  Stays(ctrl)
  <1> USE LabelsOf DEF Shape
  <1>1. CASE SigInt
    <2>1. Turn(ctrl, "stop") /\ pc[ctrl] = "sigwait"
      BY <1>1, Goes DEF SigInt, At, sync
    <2>2. Quiet(ctrl, "stop")
      BY <1>1, <2>1 DEF Quiet, SideOK, SigInt, pthread_cancel, queues, flags, sync
    <2> QED
      BY <2>2 DEF Stays
  <1>2. CASE StopAll
    <2>1. Turn(ctrl, "drain") /\ pc[ctrl] = "stop"
      BY <1>2, Goes DEF StopAll, At, sync
    <2>2. Quiet(ctrl, "drain")
      BY <1>2, <2>1 DEF Quiet, SideOK, StopAll, pthread_cancel, queues, sync
    <2> QED
      BY <2>2 DEF Stays
  <1> QED
    BY <1>1, <1>2

-----------------------------------------------------------------------------
(* Who has a packet in hand, when thread t goes from one place to another. *)
LEMMA Hands ==
  ASSUME PlaceTypeOK, WaitersOK, NEW t \in All, NEW l \in Label(t), Turn(t, l)
  PROVE  /\ IsFiniteSet(InHand) /\ Cardinality(InHand) \in Nat
         /\ (t \in InHand <=> t \in Workers /\ pc[t] \in {"append", "serve"})
         /\ l \in {"append", "serve"} /\ t \in Workers => InHand' = InHand \cup {t}
         /\ l \notin {"append", "serve"} => InHand' = InHand \ {t}
  <1>1. IsFiniteSet(InHand) /\ Cardinality(InHand) \in Nat
    BY FiveThreads, FS_Subset, FS_CardinalityType DEF InHand
  <1>2. /\ pc'[t] = l
        /\ \A x \in Workers \ {t} :
             pc'[x] \in {"append", "serve"} <=> pc[x] \in {"append", "serve"}
    BY Turned, LabelsOf
  <1>3. \A x : x \in InHand <=> x \in Workers /\ pc[x] \in {"append", "serve"}
    BY DEF InHand
  <1>4. \A x : x \in InHand' <=> x \in Workers /\ pc'[x] \in {"append", "serve"}
    BY DEF InHand
  <1> HIDE DEF InHand
  <1> QED
    BY <1>1, <1>2, <1>3, <1>4

LEMMA Accounted ==
  PacketsAccounted <=> total_genPackets = droppedPackets + q2_to_out + InQ1 + InQ2 + lost + Held
  BY DEF PacketsAccounted, InHand, InQ1, InQ2, Held

LEMMA CountTypes ==
  ASSUME Shape
  PROVE  /\ total_genPackets \in Nat /\ droppedPackets \in Nat /\ q1_to_q2 \in Nat
         /\ q2_to_out \in Nat /\ lost \in Nat /\ num \in Nat /\ total_genPackets <= num
         /\ Q1List \in Seq(1 .. num) /\ Q2List \in Seq(1 .. num)
         /\ Len(Q1List) \in Nat /\ Len(Q2List) \in Nat
         /\ IsFiniteSet(InHand) /\ Cardinality(InHand) \in Nat
         /\ InQ1 \in Nat /\ InQ2 \in Nat /\ Held \in Nat
  <1>1. IsFiniteSet(InHand) /\ Cardinality(InHand) \in Nat
    BY FiveThreads, FS_Subset, FS_CardinalityType DEF InHand
  <1> QED
    BY <1>1, BucketAssumption, LenProperties DEF Shape, PacketsTypeOK, InQ1, InQ2, Held

LEMMA CountNats ==
  ASSUME Shape
  PROVE  /\ total_genPackets \in Nat /\ droppedPackets \in Nat /\ q1_to_q2 \in Nat
         /\ q2_to_out \in Nat /\ lost \in Nat /\ num \in Nat /\ total_genPackets <= num
         /\ InQ1 \in Nat /\ InQ2 \in Nat /\ Held \in Nat
  BY CountTypes

(* A step that moves no packet leaves the counts true. *)
LEMMA QuietKeeps ==
  ASSUME Shape, Counts, NEW t \in All, Stays(t)
  PROVE  Shape' /\ Counts'
  <1>1. PICK l \in Label(t) : Quiet(t, l)
    BY DEF Stays
  <1>2. /\ Turn(t, l) /\ SideOK'
        /\ pc[t] \notin {"append", "serve"} /\ l \notin {"append", "serve"}
        /\ UNCHANGED <<input, Q1List, Q2List, counts, lost>>
    BY <1>1 DEF Quiet
  <1>3. /\ PlaceTypeOK' /\ WaitersOK'
        /\ pc'[arrival] = "append" <=> pc[arrival] = "append"
    BY <1>2, Turned, LabelsOf DEF Shape
  <1>4. Shape'
    BY <1>2, <1>3 DEF Shape, PacketsTypeOK, input, counts
  <1>5. InHand' = InHand
    BY <1>2, Hands DEF Shape
  <1>6. PacketsAccounted'
    <2>1. UNCHANGED <<InQ1, InQ2, Held>>
      BY <1>2, <1>5 DEF InQ1, InQ2, Held
    <2>2. (total_genPackets = droppedPackets + q2_to_out + InQ1 + InQ2 + lost + Held)'
      BY <2>1, <1>2, Accounted DEF Counts, counts
    <2> QED
      BY <2>2, Accounted, PTL
  <1>7. MovesCounted'
    <2>1. InQ1' = InQ1
      BY <1>2 DEF InQ1
    <2> QED
      BY <2>1, <1>2, <1>3, CountNats DEF Counts, MovesCounted, counts
  <1>8. InOrder' /\ NewestLast'
    BY <1>2, <1>3 DEF Counts, InOrder, NewestLast, counts
  <1> QED
    BY <1>4, <1>6, <1>7, <1>8 DEF Counts

-----------------------------------------------------------------------------
(* A packet arrives: it is dropped, or in the hands of the first thread.   *)
LEMMA ArriveKeeps ==
  ASSUME Shape, Counts, Arrive
  PROVE  Shape' /\ Counts'
  <1> DEFINE drops == reqTokens[total_genPackets + 1] > bucketDepth
  <1>1. /\ pc[arrival] = "sleep" /\ total_genPackets < num
        /\ total_genPackets' = total_genPackets + 1
        /\ UNCHANGED <<input, queues, q1_to_q2, q2_to_out, sync, flags, ends>>
        /\ drops => droppedPackets' = droppedPackets + 1 /\ UNCHANGED pc
        /\ ~drops => Goto(arrival, "append") /\ UNCHANGED droppedPackets
    BY DEF Arrive, At
  <1> HIDE DEF drops
  <1>2. UNCHANGED <<Q1List, Q2List, q1_to_q2, q2_to_out, waiting, lost, reqTokens, readFile_flag>>
    BY <1>1 DEF input, queues, sync, ends
  <1>3. SideOK'
    BY <1>1 DEF Shape, SideOK, queues, sync, flags, ends
  <1>4. /\ PlaceTypeOK' /\ WaitersOK'
        /\ drops => InHand' = InHand /\ pc'[arrival] # "append"
        /\ ~drops => /\ InHand' = InHand \cup {arrival} /\ arrival \notin InHand
                     /\ pc'[arrival] = "append"
    <2>1. CASE drops
      BY <2>1, <1>1, <1>2 DEF Shape, PlaceTypeOK, WaitersOK, InHand
    <2>2. CASE ~drops
      <3>1. Turn(arrival, "append")
        BY LabelsOf, <2>2, <1>1, <1>2, Goes DEF Shape
      <3> QED
        BY LabelsOf, <2>2, <3>1, <1>1, Turned, Hands DEF Shape
    <2> QED
      BY <2>1, <2>2
  <1>5. Shape'
    BY <1>1, <1>2, <1>3, <1>4, BucketAssumption DEF Shape, PacketsTypeOK
  <1>6. PacketsAccounted'
    <2>1. Held' = IF drops THEN Held ELSE Held + 1
      BY <1>4, CountTypes, FS_AddElement DEF Held
    <2>2. UNCHANGED <<InQ1, InQ2>>
      BY <1>2 DEF InQ1, InQ2
    <2>3. (total_genPackets = droppedPackets + q2_to_out + InQ1 + InQ2 + lost + Held)'
      BY <2>1, <2>2, <1>1, <1>2, CountNats, Accounted DEF Counts
    <2> QED
      BY <2>3, Accounted, PTL
  <1>7. MovesCounted'
    <2>1. InQ1' = InQ1
      BY <1>2 DEF InQ1
    <2> QED
      BY <2>1, <1>1, <1>2, <1>4, CountNats DEF Counts, MovesCounted
  <1>8. InOrder' /\ NewestLast'
    <2>1. InOrder'
      BY <1>2 DEF Counts, InOrder
    <2>2. NewestLast'
      <3> DEFINE q == Q2List \o Q1List
      <3>1. q' = q
        BY <1>2
      <3>2. \A i \in 1 .. Len(q) : q[i] \in Nat /\ q[i] <= total_genPackets
        <4>1. q \in Seq(1 .. num)
          BY CountTypes, ConcatProperties
        <4>2. \A i \in 1 .. Len(q) : q[i] \in 1 .. num
          BY <4>1, ElementOfSeq
        <4>3. \A i \in 1 .. Len(q) : q[i] <= total_genPackets
          BY DEF Counts, NewestLast
        <4> QED
          BY <4>2, <4>3
      <3> HIDE DEF q
      <3>3. \A i \in 1 .. Len(q) : q[i] <= total_genPackets + 1 /\ q[i] < total_genPackets + 1
        BY SMTT(30), <3>2, CountTypes
      <3> QED
        BY <3>1, <3>3, <1>1 DEF NewestLast, q
    <2> QED
      BY <2>1, <2>2
  <1> QED
    BY <1>5, <1>6, <1>7, <1>8 DEF Counts

(* It is appended to Q1. *)
LEMMA EnterKeeps ==
  ASSUME Shape, Counts, EnterQ1
  PROVE  Shape' /\ Counts'
  <1>1. /\ pc[arrival] = "append" /\ Goto(arrival, "move")
        /\ Q1List' = Append(Q1List, total_genPackets)
        /\ UNCHANGED <<Q2List, counts, lost, waiting, reqTokens, readFile_flag>>
    BY DEF EnterQ1, At, input, sync, ends
  <1>2. SideOK'
    BY DEF Shape, SideOK, EnterQ1, sync, flags, ends
  <1>3. /\ PlaceTypeOK' /\ WaitersOK' /\ pc'[arrival] = "move"
        /\ InHand' = InHand \ {arrival} /\ arrival \in InHand
    <2>1. Turn(arrival, "move")
      BY LabelsOf, <1>1, Goes DEF Shape
    <2> QED
      BY LabelsOf, <2>1, <1>1, Turned, Hands DEF Shape
  <1>4. total_genPackets \in 1 .. num
    <2>1. Held # 0
      BY <1>3, CountTypes, FS_EmptySet DEF Held
    <2> QED
      BY <2>1, CountTypes, Accounted DEF Counts
  <1>5. /\ Q1List' \in Seq(1 .. num) /\ Len(Q1List') = Len(Q1List) + 1
        /\ Q2List' \o Q1List' = Append(Q2List \o Q1List, total_genPackets)
    <2>1. Q1List \in Seq(1 .. num) /\ Q2List \in Seq(1 .. num)
      BY CountTypes
    <2>2. /\ Append(Q1List, total_genPackets) \in Seq(1 .. num)
          /\ Len(Append(Q1List, total_genPackets)) = Len(Q1List) + 1
      BY <1>4, <2>1, AppendProperties
    <2>3. Q2List \o Append(Q1List, total_genPackets) = Append(Q2List \o Q1List, total_genPackets)
      BY <1>4, <2>1, AppendedLast
    <2> QED
      BY <1>1, <2>2, <2>3
  <1>6. Shape'
    BY <1>1, <1>2, <1>3, <1>5 DEF Shape, PacketsTypeOK, counts
  <1>7. PacketsAccounted'
    <2>1. Held' = Held - 1
      BY <1>3, CountTypes, FS_RemoveElement DEF Held
    <2>2. InQ1' = InQ1 + 1 /\ InQ2' = InQ2
      BY <1>1, <1>5 DEF InQ1, InQ2
    <2>3. UNCHANGED <<counts, lost>>
      BY <1>1
    <2>4. (total_genPackets = droppedPackets + q2_to_out + InQ1 + InQ2 + lost + Held)'
      BY <2>1, <2>2, <2>3, CountNats, Accounted DEF Counts, counts
    <2> QED
      BY <2>4, Accounted, PTL
  <1>8. MovesCounted'
    <2>1. InQ1' = InQ1 + 1
      BY <1>5 DEF InQ1
    <2> QED
      BY <2>1, <1>1, <1>3, CountNats DEF Counts, MovesCounted, counts
  <1>9. InOrder' /\ NewestLast'
    <2> DEFINE q == Q2List \o Q1List
               r == Append(q, total_genPackets)
    <2>1. q' = r /\ total_genPackets' = total_genPackets
      BY <1>1, <1>5 DEF counts
    <2>2. q \in Seq(1 .. num) /\ Len(q) \in Nat /\ \A i \in 1 .. Len(q) : q[i] \in Nat
      <3>1. Q1List \in Seq(1 .. num) /\ Q2List \in Seq(1 .. num)
        BY CountTypes
      <3>2. q \in Seq(1 .. num)
        BY <3>1, ConcatProperties
      <3> HIDE DEF q
      <3>3. Len(q) \in Nat /\ \A i \in 1 .. Len(q) : q[i] \in 1 .. num
        BY <3>2, LenProperties, ElementOfSeq
      <3> QED
        BY <3>2, <3>3
    <2>3. /\ Len(r) = Len(q) + 1 /\ r[Len(q) + 1] = total_genPackets
          /\ \A i \in 1 .. Len(q) : r[i] = q[i]
      BY <2>2, <1>4, AppendProperties
    <2>4. \A i \in 1 .. Len(q) : q[i] < total_genPackets
      BY <1>1 DEF Counts, NewestLast
    <2>5. \A i \in 1 .. Len(q), j \in 1 .. Len(q) : i < j => q[i] < q[j]
      BY DEF Counts, InOrder
    <2> HIDE DEF q, r
    <2>6. \A i \in 1 .. Len(r) : r[i] <= total_genPackets
      <3> SUFFICES ASSUME NEW i \in 1 .. Len(r) PROVE r[i] <= total_genPackets
        OBVIOUS
      <3>1. CASE i \in 1 .. Len(q)
        <4>1. r[i] = q[i] /\ q[i] \in Nat /\ q[i] < total_genPackets
          BY <3>1, <2>2, <2>3, <2>4
        <4> QED
          BY <4>1, CountTypes
      <3>2. CASE i = Len(q) + 1
        BY <3>2, <2>3, CountTypes
      <3> QED
        BY <3>1, <3>2, <2>2, <2>3
    <2>7. \A i \in 1 .. Len(r), j \in 1 .. Len(r) : i < j => r[i] < r[j]
      <3> SUFFICES ASSUME NEW i \in 1 .. Len(r), NEW j \in 1 .. Len(r), i < j
                   PROVE  r[i] < r[j]
        OBVIOUS
      <3>1. i \in 1 .. Len(q)
        BY <2>2, <2>3
      <3>2. CASE j \in 1 .. Len(q)
        BY <3>1, <3>2, <2>3, <2>5
      <3>3. CASE j = Len(q) + 1
        BY <3>1, <3>3, <2>3, <2>4
      <3> QED
        BY <3>2, <3>3, <2>2, <2>3
    <2>8. InOrder'
      BY <2>1, <2>7 DEF InOrder, q
    <2>9. NewestLast'
      BY <2>1, <2>6, <1>3 DEF NewestLast, q
    <2> QED
      BY <2>8, <2>9
  <1> QED
    BY <1>6, <1>7, <1>8, <1>9 DEF Counts

(* The first packet of Q1 goes to the end of Q2. *)
LEMMA MoveKeeps ==
  ASSUME Shape, Counts, NEW t \in {arrival, tokens}, NEW to \in Label(t) \ {"append", "serve"},
         pc[t] = "moving", Move(t, to), mutex' = NoThread,
         UNCHANGED <<input, total_genPackets, droppedPackets, q2_to_out, flags, ends>>
  PROVE  Shape' /\ Counts'
  <1> DEFINE p == Head(Q1List)
  <1>1. /\ Q1List # <<>> /\ reqTokens[p] <= bucket_token_count
        /\ bucket_token_count' = bucket_token_count - reqTokens[p]
        /\ Q1List' = Tail(Q1List) /\ Q2List' = Append(Q2List, p)
        /\ q1_to_q2' = q1_to_q2 + 1
        /\ pthread_cond_broadcast(t, to)
    BY DEF Move, CanMove
  <1>2. /\ p \in 1 .. num /\ Q1List' \in Seq(1 .. num) /\ Q2List' \in Seq(1 .. num)
        /\ Len(Q1List') = Len(Q1List) - 1 /\ Len(Q2List') = Len(Q2List) + 1
        /\ Q2List' \o Q1List' = Q2List \o Q1List
    <2>1. Q1List \in Seq(1 .. num) /\ Q2List \in Seq(1 .. num)
      BY CountTypes
    <2>2. p \in 1 .. num /\ Tail(Q1List) \in Seq(1 .. num) /\ Len(Tail(Q1List)) = Len(Q1List) - 1
      BY <1>1, <2>1, HeadTailProperties
    <2>3. Append(Q2List, p) \in Seq(1 .. num) /\ Len(Append(Q2List, p)) = Len(Q2List) + 1
      BY <2>1, <2>2, AppendProperties
    <2>4. Append(Q2List, p) \o Tail(Q1List) = Q2List \o Q1List
      BY <1>1, <2>1, MovedBetween
    <2> QED
      BY <1>1, <2>2, <2>3, <2>4
  <1>3. SideOK'
    <2>1. reqTokens[p] \in Nat
      <3>1. reqTokens[p] \in 1 .. MaxNeed
        BY <1>2 DEF Shape, PacketsTypeOK
      <3> QED
        BY <3>1, BucketAssumption
    <2>2. bucket_token_count' \in 0 .. bucketDepth
      BY <2>1, <1>1, BucketAssumption DEF Shape, SideOK
    <2> QED
      BY <2>2 DEF Shape, SideOK, flags, ends
  <1>4. /\ PlaceTypeOK' /\ WaitersOK' /\ InHand' = InHand
        /\ pc[arrival] = "append" <=> pc'[arrival] = "append"
    <2>1. t \in All /\ to \notin {"append", "serve", "waiting"}
      BY LabelsOf, FiveThreads DEF Label, All, Workers, Server
    <2>2. Turn(t, to)
      BY LabelsOf, <1>1, <2>1, Goes DEF Shape
    <2>3. PlaceTypeOK' /\ WaitersOK'
      BY LabelsOf, <2>1, <2>2, Turned DEF Shape
    <2>4. InHand' = InHand
      <3>1. InHand' = InHand \ {t}
        BY LabelsOf, <2>1, <2>2, Hands DEF Shape
      <3>2. t \notin InHand
        BY LabelsOf DEF InHand
      <3> HIDE DEF InHand
      <3> QED
        BY <3>1, <3>2
    <2>5. pc[arrival] = "append" <=> pc'[arrival] = "append"
      BY LabelsOf, <2>1, <2>2, Turned DEF Shape
    <2> QED
      BY <2>3, <2>4, <2>5
  <1>5. Shape'
    BY <1>1, <1>2, <1>3, <1>4, CountTypes DEF Shape, PacketsTypeOK, input, ends
  <1>6. PacketsAccounted'
    <2>1. Held' = Held
      BY <1>4 DEF Held
    <2>2. InQ1' = InQ1 - 1 /\ InQ2' = InQ2 + 1
      BY <1>2 DEF InQ1, InQ2
    <2>3. UNCHANGED <<total_genPackets, droppedPackets, q2_to_out, lost>>
      BY DEF ends
    <2>4. (total_genPackets = droppedPackets + q2_to_out + InQ1 + InQ2 + lost + Held)'
      BY <2>1, <2>2, <2>3, CountNats, Accounted DEF Counts
    <2> QED
      BY <2>4, Accounted, PTL
  <1>7. MovesCounted'
    <2>1. InQ1' = InQ1 - 1
      BY <1>2 DEF InQ1
    <2> QED
      BY <2>1, <1>1, <1>4, CountNats DEF Counts, MovesCounted
  <1>8. InOrder' /\ NewestLast'
    <2> DEFINE q == Q2List \o Q1List
    <2>1. q' = q
      BY <1>2
    <2>2. InOrder'
      BY <2>1 DEF Counts, InOrder
    <2>3. NewestLast'
      BY <2>1, <1>4 DEF Counts, NewestLast
    <2> QED
      BY <2>2, <2>3
  <1> QED
    BY <1>5, <1>6, <1>7, <1>8 DEF Counts

(* A server takes the first packet of Q2. *)
LEMMA ServeKeeps ==
  ASSUME Shape, Counts, NEW s \in Server, Serve(s)
  PROVE  Shape' /\ Counts'
  <1>1. /\ pc[s] = "looking" /\ Q2List # <<>> /\ Goto(s, "serve")
        /\ Q2List' = Tail(Q2List)
        /\ UNCHANGED <<Q1List, counts, lost, waiting, reqTokens, readFile_flag>>
    BY DEF Serve, At, input, ends
  <1>2. SideOK'
    BY DEF Shape, SideOK, Serve, pthread_mutex_unlock, flags, ends
  <1>3. /\ PlaceTypeOK' /\ WaitersOK' /\ pc'[arrival] = pc[arrival]
        /\ InHand' = InHand \cup {s} /\ s \notin InHand
    <2>1. s \in All /\ s \in Workers /\ s # arrival /\ "serve" \in Label(s) /\ Turn(s, "serve")
      BY LabelsOf, <1>1, Goes DEF Shape
    <2>2. PlaceTypeOK' /\ WaitersOK' /\ pc'[arrival] = pc[arrival]
      BY LabelsOf, <2>1, Turned DEF Shape
    <2>3. InHand' = InHand \cup {s} /\ s \notin InHand
      BY LabelsOf, <2>1, <1>1, Hands DEF Shape
    <2> QED
      BY <2>2, <2>3
  <1> DEFINE q == Q2List \o Q1List
  <1>4. /\ Q2List' \in Seq(1 .. num) /\ Len(Q2List') = Len(Q2List) - 1
        /\ q # <<>> /\ q' = Tail(q)
    <2>1. Q1List \in Seq(1 .. num) /\ Q2List \in Seq(1 .. num)
      BY CountTypes
    <2>2. Tail(Q2List) \in Seq(1 .. num) /\ Len(Tail(Q2List)) = Len(Q2List) - 1
      BY <1>1, <2>1, HeadTailProperties
    <2>3. q # <<>> /\ Tail(Q2List) \o Q1List = Tail(q)
      BY <1>1, <2>1, ServedFirst
    <2> QED
      BY <1>1, <2>2, <2>3
  <1>5. Shape'
    BY <1>1, <1>2, <1>3, <1>4 DEF Shape, PacketsTypeOK, counts
  <1>6. PacketsAccounted'
    <2>1. Held' = Held + 1
      BY <1>3, CountTypes, FS_AddElement DEF Held
    <2>2. InQ1' = InQ1 /\ InQ2' = InQ2 - 1
      BY <1>1, <1>4 DEF InQ1, InQ2
    <2>3. UNCHANGED <<counts, lost>>
      BY <1>1
    <2>4. (total_genPackets = droppedPackets + q2_to_out + InQ1 + InQ2 + lost + Held)'
      BY <2>1, <2>2, <2>3, CountNats, Accounted DEF Counts, counts
    <2> QED
      BY <2>4, Accounted, PTL
  <1>7. MovesCounted'
    <2>1. InQ1' = InQ1
      BY <1>1 DEF InQ1
    <2> QED
      BY <2>1, <1>1, <1>3, CountNats DEF Counts, MovesCounted, counts
  <1>8. InOrder' /\ NewestLast'
    <2> DEFINE r == Tail(q)
    <2>1. q \in Seq(1 .. num)
      BY CountTypes, ConcatProperties
    <2>2. \A i \in 1 .. Len(q) : q[i] \in Nat
      <3>1. \A i \in 1 .. Len(q) : q[i] \in 1 .. num
        BY <2>1, ElementOfSeq
      <3> QED
        BY <3>1
    <2>3. \A i \in 1 .. Len(q), j \in 1 .. Len(q) : i < j => q[i] < q[j]
      BY DEF Counts, InOrder
    <2>4. \A i \in 1 .. Len(q) :
            q[i] <= total_genPackets /\ (pc[arrival] = "append" => q[i] < total_genPackets)
      BY DEF Counts, NewestLast
    <2>5. q' = r
      BY <1>4
    <2> HIDE DEF q
    <2>6. /\ Len(r) = Len(q) - 1 /\ Len(q) \in Nat
          /\ \A i \in 1 .. Len(r) : r[i] = q[i + 1]
      BY <2>1, <1>4, HeadTailProperties, LenProperties
    <2> HIDE DEF r
    <2>7. \A i \in 1 .. Len(r) : i + 1 \in 1 .. Len(q)
      BY <2>6
    <2>8. \A i \in 1 .. Len(r), j \in 1 .. Len(r) : i < j => r[i] < r[j]
      <3> SUFFICES ASSUME NEW i \in 1 .. Len(r), NEW j \in 1 .. Len(r), i < j
                   PROVE  r[i] < r[j]
        OBVIOUS
      <3>1. /\ i + 1 \in 1 .. Len(q) /\ j + 1 \in 1 .. Len(q) /\ i + 1 < j + 1
            /\ r[i] = q[i + 1] /\ r[j] = q[j + 1]
        BY <2>6, <2>7
      <3> QED
        BY <3>1, <2>3
    <2>9. \A i \in 1 .. Len(r) :
            r[i] <= total_genPackets /\ (pc[arrival] = "append" => r[i] < total_genPackets)
      BY <2>4, <2>6, <2>7
    <2>10. InOrder'
      BY <2>5, <2>8 DEF InOrder, q
    <2>11. NewestLast'
      BY <2>5, <2>9, <1>1, <1>3 DEF NewestLast, counts, q
    <2> QED
      BY <2>10, <2>11
  <1> QED
    BY <1>5, <1>6, <1>7, <1>8 DEF Counts

(* The packet of a server is out. *)
LEMMA DepartKeeps ==
  ASSUME Shape, Counts, NEW s \in Server, Depart(s)
  PROVE  Shape' /\ Counts'
  <1>1. /\ pc[s] = "serve" /\ Goto(s, "start")
        /\ q2_to_out' = q2_to_out + 1
        /\ UNCHANGED <<Q1List, Q2List, lost, waiting, reqTokens, readFile_flag,
                       total_genPackets, droppedPackets, q1_to_q2>>
    BY DEF Depart, At, input, queues, sync, ends
  <1>2. SideOK'
    BY DEF Shape, SideOK, Depart, queues, sync, flags, ends
  <1>3. /\ PlaceTypeOK' /\ WaitersOK' /\ pc'[arrival] = pc[arrival]
        /\ InHand' = InHand \ {s} /\ s \in InHand
    <2>1. s \in All /\ s \in Workers /\ s # arrival /\ "start" \in Label(s) /\ Turn(s, "start")
      BY LabelsOf, <1>1, Goes DEF Shape
    <2>2. PlaceTypeOK' /\ WaitersOK' /\ pc'[arrival] = pc[arrival]
      BY LabelsOf, <2>1, Turned DEF Shape
    <2>3. InHand' = InHand \ {s} /\ s \in InHand
      BY LabelsOf, <2>1, <1>1, Hands DEF Shape
    <2> QED
      BY <2>2, <2>3
  <1>4. Shape'
    BY <1>1, <1>2, <1>3, CountTypes DEF Shape, PacketsTypeOK
  <1>5. PacketsAccounted'
    <2>1. Held' = Held - 1
      BY <1>3, CountTypes, FS_RemoveElement DEF Held
    <2>2. InQ1' = InQ1 /\ InQ2' = InQ2
      BY <1>1 DEF InQ1, InQ2
    <2>3. (total_genPackets = droppedPackets + q2_to_out + InQ1 + InQ2 + lost + Held)'
      BY <2>1, <2>2, <1>1, CountNats, Accounted DEF Counts
    <2> QED
      BY <2>3, Accounted, PTL
  <1>6. MovesCounted'
    <2>1. InQ1' = InQ1
      BY <1>1 DEF InQ1
    <2> QED
      BY <2>1, <1>1, <1>3, CountNats DEF Counts, MovesCounted
  <1>7. InOrder' /\ NewestLast'
    BY <1>1, <1>3 DEF Counts, InOrder, NewestLast
  <1> QED
    BY <1>4, <1>5, <1>6, <1>7 DEF Counts

(* After SIGINT both queues are emptied, and what was in them is out. *)
LEMMA DrainKeeps ==
  ASSUME Shape, Counts, Drain
  PROVE  Shape' /\ Counts'
  <1>1. /\ pc[ctrl] = "draining" /\ pthread_cond_broadcast(ctrl, "exit")
        /\ q2_to_out' = q2_to_out + Len(Q1List) + Len(Q2List)
        /\ Q1List' = <<>> /\ Q2List' = <<>>
        /\ UNCHANGED <<lost, reqTokens, readFile_flag, total_genPackets, droppedPackets, q1_to_q2>>
    BY DEF Drain, At, input, ends
  <1>2. SideOK'
    BY DEF Shape, SideOK, Drain, pthread_mutex_unlock, flags, ends
  <1>3. /\ PlaceTypeOK' /\ WaitersOK' /\ pc'[arrival] = pc[arrival]
        /\ InHand' = InHand
    <2>1. "exit" \in Label(ctrl) /\ Turn(ctrl, "exit")
      BY LabelsOf, <1>1, Goes DEF Shape
    <2>2. PlaceTypeOK' /\ WaitersOK' /\ pc'[arrival] = pc[arrival]
      BY LabelsOf, <2>1, Turned DEF Shape
    <2>3. InHand' = InHand \ {ctrl}
      BY LabelsOf, <2>1, Hands DEF Shape
    <2>4. ctrl \notin InHand
      BY LabelsOf DEF InHand
    <2> HIDE DEF InHand
    <2> QED
      BY <2>2, <2>3, <2>4
  <1>4. /\ Q1List' \in Seq(1 .. num) /\ Q2List' \in Seq(1 .. num)
        /\ Len(Q1List') = 0 /\ Len(Q2List') = 0 /\ Len(Q2List' \o Q1List') = 0
    <2>1. <<>> \in Seq(1 .. num) /\ Len(<<>>) = 0
      OBVIOUS
    <2>2. Len(<<>> \o <<>>) = 0
      BY <2>1, ConcatProperties
    <2> QED
      BY <1>1, <2>1, <2>2
  <1>5. Shape'
    BY <1>1, <1>2, <1>3, <1>4, CountTypes DEF Shape, PacketsTypeOK
  <1>6. PacketsAccounted'
    <2>1. Held' = Held
      BY <1>3 DEF Held
    <2>2. InQ1' = 0 /\ InQ2' = 0 /\ q2_to_out' = q2_to_out + InQ1 + InQ2
      BY <1>1, <1>4 DEF InQ1, InQ2
    <2>3. UNCHANGED <<total_genPackets, droppedPackets, lost>>
      BY <1>1
    <2>4. (total_genPackets = droppedPackets + q2_to_out + InQ1 + InQ2 + lost + Held)'
      BY <2>1, <2>2, <2>3, CountNats, Accounted DEF Counts
    <2> QED
      BY <2>4, Accounted, PTL
  <1>7. MovesCounted'
    <2>1. InQ1' = 0
      BY <1>4 DEF InQ1
    <2> QED
      BY SMTT(30), <2>1, <1>1, <1>3, CountNats DEF Counts, MovesCounted
  <1>8. InOrder' /\ NewestLast'
    BY <1>4 DEF InOrder, NewestLast
  <1> QED
    BY <1>5, <1>6, <1>7, <1>8 DEF Counts

(* A thread that is cancelled loses the packet in its hands. *)
LEMMA CancelKeeps ==
  ASSUME Shape, Counts, NEW t \in Workers, Cancel(t)
  PROVE  Shape' /\ Counts'
  <1> DEFINE holds == pc[t] \in {"append", "serve"}
  <1>1. /\ Goto(t, "exit") /\ waiting' = waiting \ {t}
        /\ lost' = lost + IF holds THEN 1 ELSE 0
        /\ UNCHANGED <<Q1List, Q2List, counts, reqTokens, readFile_flag>>
    BY DEF Cancel, input, queues
  <1>2. SideOK'
    <2>1. UNCHANGED <<bucket_token_count, done, flag_server>>
      BY DEF Cancel, queues, flags
    <2>2. cancelled' \subseteq cancelled /\ mutex' \in {t, mutex} /\ t \in All
      BY DEF Cancel, All
    <2> QED
      BY <2>1, <2>2 DEF Shape, SideOK
  <1>3. t \in All /\ "exit" \in Label(t)
    BY LabelsOf DEF Workers
  <1>4. Turn(t, "exit")
    BY <1>1 DEF Turn, Goto
  <1>5. /\ PlaceTypeOK' /\ WaitersOK'
        /\ pc'[arrival] = "append" => pc[arrival] = "append"
    BY LabelsOf, <1>3, <1>4, Turned DEF Shape
  <1>6. InHand' = InHand \ {t} /\ (t \in InHand <=> holds)
    BY LabelsOf, <1>3, <1>4, Hands DEF Shape
  <1> HIDE DEF holds
  <1>7. Shape'
    BY <1>1, <1>2, <1>5, CountTypes DEF Shape, PacketsTypeOK, counts
  <1>8. PacketsAccounted'
    <2>1. Held' = Held - IF holds THEN 1 ELSE 0
      <3>1. IsFiniteSet(InHand) /\ Cardinality(InHand) \in Nat
        BY CountTypes
      <3> HIDE DEF InHand
      <3>2. CASE holds
        BY <3>1, <3>2, <1>6, FS_RemoveElement DEF Held
      <3>3. CASE ~holds
        <4>1. InHand' = InHand
          BY <3>3, <1>6
        <4> QED
          BY <3>1, <3>3, <4>1 DEF Held
      <3> QED
        BY <3>2, <3>3
    <2>2. UNCHANGED <<InQ1, InQ2, counts>>
      BY <1>1 DEF InQ1, InQ2
    <2>3. (total_genPackets = droppedPackets + q2_to_out + InQ1 + InQ2 + lost + Held)'
      BY <2>1, <2>2, <1>1, CountNats, Accounted DEF Counts, counts
    <2> QED
      BY <2>3, Accounted, PTL
  <1>9. MovesCounted'
    <2>1. InQ1' = InQ1
      BY <1>1 DEF InQ1
    <2>2. (IF pc[arrival] = "append" THEN 1 ELSE 0)' <= IF pc[arrival] = "append" THEN 1 ELSE 0
      BY <1>5
    <2> QED
      BY <2>1, <2>2, <1>1, CountNats DEF Counts, MovesCounted, counts
  <1>10. InOrder' /\ NewestLast'
    BY <1>1, <1>5 DEF Counts, InOrder, NewestLast, counts
  <1> QED
    BY <1>7, <1>8, <1>9, <1>10 DEF Counts

-----------------------------------------------------------------------------
(* Every step is one of those. *)
Moves(t) ==
  /\ t \in {arrival, tokens} /\ pc[t] = "moving"
  /\ \E l \in Label(t) \ {"append", "serve"} : Move(t, l)
  /\ mutex' = NoThread
  /\ UNCHANGED <<input, total_genPackets, droppedPackets, q2_to_out, flags, ends>>

StepKind ==
  \/ \E t \in All : Stays(t)
  \/ Arrive \/ EnterQ1 \/ Moves(arrival) \/ Moves(tokens) \/ Drain
  \/ \E s \in Server : Serve(s) \/ Depart(s)
  \/ \E t \in Workers : Cancel(t)

LEMMA StepKinds ==
  ASSUME Shape, BucketNext
  PROVE  StepKind
  <1> USE LabelsOf
  <1>1. CASE Arriving
    <2>1. CASE ArrivalMoves /\ CanMove
      <3>1. Move(arrival, "sleep") /\ pc[arrival] = "moving"
        BY <2>1 DEF ArrivalMoves, At
      <3>2. Moves(arrival)
        BY <2>1, <3>1 DEF Moves, ArrivalMoves, pthread_mutex_unlock
      <3> QED
        BY <3>2 DEF StepKind
    <2>2. CASE LastPacket \/ ExitArrival \/ (ArrivalMoves /\ ~CanMove)
      <3>1. Stays(arrival)
        BY <2>2, ArrivalQuiet
      <3> QED
        BY <3>1 DEF StepKind
    <2>3. CASE pthread_mutex_lock(arrival, "move", "moving")
      <3>1. arrival \in All /\ "moving" \in Label(arrival)
        OBVIOUS
      <3>2. Stays(arrival)
        BY <2>3, <3>1, LockQuiet
      <3> QED
        BY <3>1, <3>2 DEF StepKind
    <2> QED
      BY <1>1, <2>1, <2>2, <2>3 DEF Arriving, StepKind
  <1>2. CASE Filling
    <2>1. CASE TokenMoves /\ CanMove
      <3>1. Move(tokens, "add") /\ pc[tokens] = "moving"
        BY <2>1 DEF TokenMoves, At
      <3>2. Moves(tokens)
        BY <2>1, <3>1 DEF Moves, TokenMoves, pthread_mutex_unlock
      <3> QED
        BY <3>2 DEF StepKind
    <2>2. CASE AddToken \/ ExitTokens \/ (TokenMoves /\ ~CanMove)
      <3>1. Stays(tokens)
        BY <2>2, TokensQuiet
      <3> QED
        BY <3>1 DEF StepKind
    <2>3. CASE pthread_mutex_lock(tokens, "move", "moving")
      <3>1. tokens \in All /\ "moving" \in Label(tokens)
        OBVIOUS
      <3>2. Stays(tokens)
        BY <2>3, <3>1, LockQuiet
      <3> QED
        BY <3>1, <3>2 DEF StepKind
    <2> QED
      BY <1>2, <2>1, <2>2, <2>3 DEF Filling
  <1>3. CASE SigInt \/ Stopping
    <2>1. CASE SigInt \/ StopAll
      <3>1. Stays(ctrl)
        BY <2>1, CtrlQuiet
      <3> QED
        BY <3>1 DEF StepKind
    <2>2. CASE pthread_mutex_lock(ctrl, "drain", "draining")
      <3>1. ctrl \in All /\ "draining" \in Label(ctrl)
        OBVIOUS
      <3>2. Stays(ctrl)
        BY <2>2, <3>1, LockQuiet
      <3> QED
        BY <3>1, <3>2 DEF StepKind
    <2> QED
      BY <1>3, <2>1, <2>2 DEF Stopping, StepKind
  <1>4. ASSUME NEW s \in Server, Serving(s) \/ Spurious(s)
        PROVE  StepKind
    <2>1. CASE Waits(s)
      <3>1. Stays(s) /\ s \in All
        BY <2>1, ServerQuiet
      <3> QED
        BY <3>1 DEF StepKind
    <2> QED
      BY <1>4, <2>1 DEF Serving, Waits, StepKind
  <1>5. CASE \E t \in Workers : Cancel(t)
    BY <1>5 DEF StepKind
  <1> QED
    BY <1>1, <1>2, <1>3, <1>4, <1>5 DEF BucketNext

(* Every step keeps the counts true, ... *)
LEMMA NextKeeps ==
  ASSUME Shape, Counts, [BucketNext]_bucketVars
  PROVE  Shape' /\ Counts'
  <1>1. CASE UNCHANGED bucketVars
    BY <1>1 DEF bucketVars, input, queues, counts, sync, flags, ends, Shape, SideOK, PlaceTypeOK,
       PacketsTypeOK, WaitersOK, Counts, PacketsAccounted, MovesCounted, InOrder, NewestLast, InQ1
  <1>2. CASE BucketNext
    <2>1. ASSUME NEW t, Moves(t) PROVE Shape' /\ Counts'
      BY <2>1, MoveKeeps DEF Moves
    <2> QED
      BY <1>2, <2>1, StepKinds, QuietKeeps, ArriveKeeps, EnterKeeps, DrainKeeps, ServeKeeps,
         DepartKeeps, CancelKeeps DEF StepKind
  <1> QED
    BY <1>1, <1>2

(* ... as they are at first, ... *)
LEMMA InitShape == BucketInit => Shape /\ Counts
  <1> SUFFICES ASSUME BucketInit PROVE Shape /\ Counts
    OBVIOUS
  <1> USE LabelsOf
  <1>1. \A t \in All : pc[t] = CASE t = arrival -> "sleep" [] t = tokens -> "add"
                                 [] t \in Server -> "start" [] t = ctrl -> "sigwait"
    BY DEF BucketInit
  <1>2. /\ pc[arrival] = "sleep" /\ pc[tokens] = "add" /\ pc[ctrl] = "sigwait"
        /\ \A s \in Server : pc[s] = "start"
        /\ \A t \in All : t \in {arrival, tokens, ctrl} \/ t \in Server
    BY <1>1, FiveThreads DEF All, Workers, Server
  <1>3. \A t \in All : pc[t] \in Label(t)
    BY <1>2
  <1>4. pc \in [All -> UNION {Label(t) : t \in All}]
    <2> DEFINE e(t) == CASE t = arrival -> "sleep" [] t = tokens -> "add"
                         [] t \in Server -> "start" [] t = ctrl -> "sigwait"
    <2>1. pc = [t \in All |-> e(t)]
      BY Zenon DEF BucketInit
    <2> HIDE DEF e
    <2> QED
      BY <2>1, <1>3
  <1>5. PlaceTypeOK /\ WaitersOK
    BY <1>2, <1>3, <1>4 DEF BucketInit, PlaceTypeOK, WaitersOK
  <1>6. SideOK
    BY BucketAssumption DEF BucketInit, SideOK
  <1>7. PacketsTypeOK
    BY BucketAssumption DEF BucketInit, PacketsTypeOK
  <1>8. InHand = {}
    BY <1>2 DEF InHand, Workers
  <1>9. Len(Q1List) = 0 /\ Len(Q2List) = 0 /\ Len(Q2List \o Q1List) = 0
    <2>1. <<>> \in Seq(1 .. num) /\ Len(<<>>) = 0
      OBVIOUS
    <2>2. Len(<<>> \o <<>>) = 0
      BY <2>1, ConcatProperties
    <2> QED
      BY <2>1, <2>2 DEF BucketInit
  <1>10. PacketsAccounted
    BY <1>8, <1>9, FS_EmptySet, Accounted DEF BucketInit, InQ1, InQ2, Held
  <1>11. MovesCounted
    BY <1>2, <1>9 DEF BucketInit, MovesCounted, InQ1
  <1>12. InOrder /\ NewestLast
    BY <1>9 DEF InOrder, NewestLast
  <1> QED
    BY <1>5, <1>6, <1>7, <1>10, <1>11, <1>12 DEF Shape, Counts

(* ... and they bound the counters. *)
LEMMA CountsBound ==
  ASSUME Shape, Counts
  PROVE  BucketTypeOK
  <1>1. /\ droppedPackets \in 0 .. num /\ q2_to_out \in 0 .. num /\ lost \in 0 .. num
    BY CountNats, Accounted DEF Counts
  <1>2. q1_to_q2 \in 0 .. num
    BY CountNats DEF Counts, MovesCounted
  <1> QED
    BY <1>1, <1>2 DEF Shape, SideOK, PlaceTypeOK, PacketsTypeOK, BucketTypeOK

-----------------------------------------------------------------------------
(* When the counters say that all packets are served, they are; ... *)
LEMMA AllServedMeans ==
  ASSUME Shape, Counts, AllServed
  PROVE  /\ total_genPackets = num /\ lost = 0 /\ InHand = {}
         /\ Q1List = <<>> /\ Q2List = <<>>
  <1>1. /\ total_genPackets = num /\ lost = 0 /\ Cardinality(InHand) = 0
        /\ Len(Q1List) = 0 /\ Len(Q2List) = 0
    <2>1. total_genPackets = droppedPackets + q2_to_out + InQ1 + InQ2 + lost + Held
      BY Accounted DEF Counts
    <2>2. q2_to_out + droppedPackets = num
      BY DEF AllServed
    <2>3. /\ total_genPackets \in Nat /\ droppedPackets \in Nat /\ q2_to_out \in Nat
          /\ lost \in Nat /\ num \in Nat /\ total_genPackets <= num
          /\ InQ1 \in Nat /\ InQ2 \in Nat /\ Held \in Nat
      BY CountNats
    <2>4. total_genPackets = num /\ lost = 0 /\ InQ1 = 0 /\ InQ2 = 0 /\ Held = 0
      BY <2>1, <2>2, <2>3
    <2> QED
      BY <2>4 DEF InQ1, InQ2, Held
  <1>2. InHand = {}
    BY <1>1, CountTypes, FS_EmptySet
  <1>3. Q1List = <<>> /\ Q2List = <<>>
    BY <1>1, CountTypes, EmptySeq
  <1> QED
    BY <1>1, <1>2, <1>3

LEMMA OutBound == Shape /\ Counts => q2_to_out + droppedPackets <= num
  BY CountNats, Accounted DEF Counts

(* ... and they say so ever after. *)
LEMMA ServedStays ==
  ASSUME Shape, Counts, [BucketNext]_bucketVars, AllServed
  PROVE  AllServed'
  <1>1. Shape' /\ Counts'
    BY NextKeeps
  <1>2. (q2_to_out + droppedPackets <= num)'
    BY <1>1, OutBound, PTL
  <1>3. q2_to_out' >= q2_to_out /\ droppedPackets' >= droppedPackets
    <2>1. CASE UNCHANGED bucketVars
      BY <2>1, CountTypes DEF bucketVars, counts
    <2>2. CASE BucketNext
      <3>1. StepKind
        BY <2>2, StepKinds
      <3>2. CASE \E t \in All : Stays(t)
        BY <3>2, CountTypes DEF Stays, Quiet, counts
      <3>3. CASE Arrive \/ EnterQ1
        BY <3>3, CountTypes DEF Arrive, EnterQ1, counts
      <3>4. CASE Moves(arrival) \/ Moves(tokens)
        BY <3>4, CountTypes DEF Moves
      <3>5. CASE Drain
        BY <3>5, CountTypes DEF Drain
      <3>6. CASE \E s \in Server : Serve(s) \/ Depart(s)
        BY <3>6, CountTypes DEF Serve, Depart, counts
      <3>7. CASE \E t \in Workers : Cancel(t)
        BY <3>7, CountTypes DEF Cancel, counts
      <3> QED
        BY <3>1, <3>2, <3>3, <3>4, <3>5, <3>6, <3>7 DEF StepKind
    <2> QED
      BY <2>1, <2>2
  <1>4. q2_to_out' \in Nat /\ droppedPackets' \in Nat
    BY <1>1 DEF Shape, PacketsTypeOK
  <1> QED
    BY <1>2, <1>3, <1>4, CountNats DEF AllServed

(* Nobody else is in his critical section unless the mutex has failed. *)
LEMMA AloneInside ==
  ASSUME ~Broken, NEW x \in Inside, NEW y \in Inside
  PROVE  x = y
  <1> SUFFICES ASSUME x # y PROVE FALSE
    OBVIOUS
  <1>1. IsFiniteSet(Inside) /\ Cardinality(Inside) \in Nat
    BY FiveThreads, FS_Subset, FS_CardinalityType DEF Inside
  <1>2. IsFiniteSet({}) /\ Cardinality({}) = 0
    BY FS_EmptySet
  <1> DEFINE X == {} \cup {x}
             XY == X \cup {y}
  <1>3. IsFiniteSet(X) /\ Cardinality(X) = 1
    BY <1>2, FS_AddElement
  <1>4. y \notin X /\ XY \subseteq Inside
    OBVIOUS
  <1> HIDE DEF X
  <1>5. Cardinality(XY) = 2
    BY <1>3, <1>4, FS_AddElement
  <1> HIDE DEF XY
  <1>6. Cardinality(XY) <= Cardinality(Inside)
    BY <1>1, <1>4, FS_Subset
  <1> QED
    BY <1>1, <1>5, <1>6 DEF Broken, Torn

-----------------------------------------------------------------------------
(* Why a server that waits will be woken, or cancelled. *)
Before == pc[ctrl] = "sigwait"
Out    == {"wait", "waiting"}
Late   == {"cancel_t", "cancel_s", "exit"}

(* A server that waits has cleared its flag: the other will cancel it. *)
FlagCleared == \A s \in Server : pc[s] \in {"wait", "waiting", "woken"} => ~done[s]

(* After SIGINT nobody waits when the queues have been emptied. *)
NobodyLeft ==
  /\ pc[ctrl] \in {"drain", "draining", "exit"} => ~flag_server
  /\ pc[ctrl] = "exit" => \A s \in Server : pc[s] \notin Out

(* Before it, a thread is cancelled only when all is served, ... *)
CancelledServed ==
  Before =>
    /\ flag_server /\ lost = 0
    /\ cancelled # {} => AllServed
    /\ cancelled \cap {arrival, tokens} # {} => \E s \in Server : pc[s] \in Late

(* ... no packet is left to move when the second thread ends, ... *)
AllMoved ==
  Before /\ pc[tokens] \in {"last", "exit"} =>
    total_genPackets = num /\ Q1List = <<>> /\ pc[arrival] # "append"

(* ... when it has, not both servers wait, ... *)
OneAwake == Before /\ pc[tokens] = "exit" => \E s \in Server : pc[s] \notin Out

(* ... and the first server to end has cancelled the other. *)
FirstCancels ==
  Before =>
    \A s \in Server :
      /\ pc[s] \in {"cancel_p", "cancel_t", "cancel_s"} => AllServed
      /\ s \in cancelled => pc[Other(s)] = "exit"
      /\ pc[s] = "exit" => \/ pc[Other(s)] = "exit" \/ Other(s) \in cancelled
                           \/ AllServed /\ pc[Other(s)] \notin Out

WaitOK == FlagCleared /\ NobodyLeft /\ CancelledServed /\ AllMoved /\ OneAwake /\ FirstCancels

(* This is why NobodyLeftWaiting holds. *)
LEMMA WaitersCalled ==
  ASSUME Shape, WaitOK
  PROVE  NobodyLeftWaiting
  <1> USE LabelsOf
  <1> SUFFICES ASSUME NEW s \in waiting \ cancelled,
                      pc[ctrl] \notin {"stop", "drain", "draining"},
                      \A t \in Workers \ {s} : pc[t] \in {"waiting", "exit"}
               PROVE  FALSE
    BY DEF NobodyLeftWaiting
  <1>1. s \in Server /\ pc[s] = "waiting"
    BY DEF Shape, PlaceTypeOK, WaitersOK
  <1>2. Before
    <2>1. pc[ctrl] \in Label(ctrl)
      BY DEF Shape, PlaceTypeOK
    <2>2. pc[ctrl] # "exit"
      BY <1>1 DEF WaitOK, NobodyLeft, Out
    <2> QED
      BY <2>1, <2>2 DEF Before
  <1>3. pc[tokens] = "exit"
    <2>1. pc[tokens] \in Label(tokens) /\ tokens \in Workers \ {s}
      BY <1>1 DEF Shape, PlaceTypeOK
    <2> QED
      BY <2>1
  <1>4. PICK x \in Server : pc[x] \notin Out
    BY <1>2, <1>3 DEF WaitOK, OneAwake
  <1>5. x = Other(s) /\ Other(x) = s
    BY <1>1, <1>4 DEF Out, Other
  <1>6. pc[x] = "exit"
    BY <1>1, <1>4, <1>5 DEF Out
  <1> QED
    BY <1>1, <1>2, <1>4, <1>5, <1>6 DEF WaitOK, FirstCancels, Out

-----------------------------------------------------------------------------
(* Thread t goes to l, and may wake who waits. *)
Onward(t, l) ==
  /\ pc'[t] = l
  /\ \A x \in All \ {t} :
       pc'[x] = pc[x] \/ (x \in Server /\ pc[x] = "waiting" /\ pc'[x] = "woken")

LEMMA Onwards ==
  ASSUME Shape, NEW t \in All, NEW l \in Label(t), Turn(t, l)
  PROVE  Onward(t, l)
  BY Turned DEF Onward, Shape

(* Once no packet is left to move, none comes. *)
LEMMA NoneComes ==
  ASSUME Shape, Counts, BucketNext,
         total_genPackets = num, Q1List = <<>>, pc[arrival] # "append"
  PROVE  /\ total_genPackets' = num /\ Q1List' = <<>> /\ pc'[arrival] # "append"
  <1> USE LabelsOf
  <1>1. StepKind
    BY StepKinds
  <1>2. ASSUME NEW t \in All, Stays(t)
        PROVE  total_genPackets' = num /\ Q1List' = <<>> /\ pc'[arrival] # "append"
    <2>1. PICK l \in Label(t) : Quiet(t, l)
      BY <1>2 DEF Stays
    <2>2. Onward(t, l) /\ l # "append"
      BY <2>1, Onwards DEF Quiet
    <2> QED
      BY <2>1, <2>2 DEF Quiet, Onward, counts
  <1>3. ~Arrive /\ ~EnterQ1 /\ ~Moves(arrival) /\ ~Moves(tokens)
    BY CountTypes DEF Arrive, EnterQ1, At, Moves, Move, CanMove
  <1>4. CASE Drain
    <2>1. Turn(ctrl, "exit")
      BY <1>4, Goes DEF Drain, At, Shape
    <2>2. Onward(ctrl, "exit")
      BY <2>1, Onwards
    <2> QED
      BY <1>4, <2>2 DEF Drain, Onward
  <1>5. ASSUME NEW s \in Server, Serve(s) \/ Depart(s)
        PROVE  total_genPackets' = num /\ Q1List' = <<>> /\ pc'[arrival] # "append"
    <2>1. PICK l \in {"serve", "start"} : Goto(s, l)
      BY <1>5 DEF Serve, Depart
    <2>2. pc'[arrival] = pc[arrival]
      BY <2>1 DEF Goto, Shape, PlaceTypeOK
    <2> QED
      BY <1>5, <2>2 DEF Serve, Depart, queues, counts
  <1>6. ASSUME NEW t \in Workers, Cancel(t)
        PROVE  total_genPackets' = num /\ Q1List' = <<>> /\ pc'[arrival] # "append"
    <2>1. pc'[arrival] \in {"exit", pc[arrival]}
      BY <1>6 DEF Cancel, Goto, Shape, PlaceTypeOK
    <2> QED
      BY <1>6, <2>1 DEF Cancel, queues, counts
  <1> QED
    BY <1>1, <1>2, <1>3, <1>4, <1>5, <1>6 DEF StepKind

(* A step of a worker that ends no server, and has none wait. *)
Plain(t, l) ==
  /\ pc[t] # "exit"
  /\ Onward(t, l)
  /\ UNCHANGED <<flag_server, cancelled, lost>>
  /\ \A s \in Server \ {t} : done'[s] = done[s]
  /\ t \in Server =>
       /\ l # "exit" /\ (pc[t] \in Late => l \in Late) /\ (l \in Out => pc[t] \in Out)
       /\ l \in {"cancel_p", "cancel_t", "cancel_s"} => AllServed
       /\ l \in {"wait", "waiting", "woken"} => ~done'[t]

LEMMA PlainKeeps ==
  ASSUME Shape, WaitOK, AllMoved', AllServed => AllServed',
         NEW t \in Workers, NEW l, Plain(t, l),
         t = tokens /\ l = "exit" => OneAwake'
  PROVE  WaitOK'
  <1> USE LabelsOf
  <1>1. /\ pc'[ctrl] = pc[ctrl] /\ Before' = Before
        /\ t # tokens => pc'[tokens] = pc[tokens]
    BY DEF Plain, Onward, Before
  <1>2. ASSUME NEW s \in Server
        PROVE  /\ pc[s] \in Late => pc'[s] \in Late
               /\ pc'[s] \in Out => pc[s] \in Out
               /\ pc'[s] = "exit" <=> pc[s] = "exit"
    BY DEF Plain, Onward, Late, Out
  <1>3. FlagCleared'
    <2> SUFFICES ASSUME NEW s \in Server, pc'[s] \in {"wait", "waiting", "woken"}
                 PROVE  ~done'[s]
      BY DEF FlagCleared
    <2>1. CASE s = t
      BY <2>1 DEF Plain, Onward
    <2>2. CASE s # t
      BY <2>2 DEF Plain, Onward, WaitOK, FlagCleared
    <2> QED
      BY <2>1, <2>2
  <1>4. NobodyLeft'
    BY <1>1, <1>2 DEF WaitOK, NobodyLeft, Plain, Out
  <1>5. CancelledServed'
    BY <1>1, <1>2 DEF WaitOK, CancelledServed, Plain, Late
  <1>6. OneAwake'
    <2>1. CASE t = tokens /\ l = "exit"
      BY <2>1
    <2>2. CASE ~(t = tokens /\ l = "exit")
      <3>1. pc'[tokens] = "exit" => pc[tokens] = "exit"
        BY <1>1, <2>2 DEF Plain, Onward
      <3> QED
        BY <1>1, <1>2, <3>1 DEF WaitOK, OneAwake, Out
    <2> QED
      BY <2>1, <2>2
  <1>7. FirstCancels'
    <2> SUFFICES ASSUME Before, NEW s \in Server
                 PROVE  /\ pc'[s] \in {"cancel_p", "cancel_t", "cancel_s"} => AllServed'
                        /\ s \in cancelled' => pc'[Other(s)] = "exit"
                        /\ pc'[s] = "exit" => \/ pc'[Other(s)] = "exit" \/ Other(s) \in cancelled'
                                              \/ AllServed' /\ pc'[Other(s)] \notin Out
      BY <1>1 DEF FirstCancels, Out
    <2>1. /\ pc[s] \in {"cancel_p", "cancel_t", "cancel_s"} => AllServed
          /\ s \in cancelled => pc[Other(s)] = "exit"
          /\ pc[s] = "exit" => \/ pc[Other(s)] = "exit" \/ Other(s) \in cancelled
                               \/ AllServed /\ pc[Other(s)] \notin Out
      BY DEF WaitOK, FirstCancels
    <2>2. pc'[s] \in {"cancel_p", "cancel_t", "cancel_s"} => AllServed'
      BY <2>1 DEF Plain, Onward
    <2>3. Other(s) \in Server /\ cancelled' = cancelled
      BY DEF Plain
    <2>4. /\ pc'[s] = "exit" <=> pc[s] = "exit"
          /\ pc'[Other(s)] = "exit" <=> pc[Other(s)] = "exit"
          /\ pc'[Other(s)] \in Out => pc[Other(s)] \in Out
      BY <1>2, <2>3
    <2> QED
      BY <2>1, <2>2, <2>3, <2>4
  <1> QED
    BY <1>3, <1>4, <1>5, <1>6, <1>7 DEF WaitOK

(* The second thread finds that no packet is left to move. *)
MovedAll == Q1List = <<>> /\ q1_to_q2 + droppedPackets = num

LEMMA AllMovedKeeps ==
  ASSUME Shape, Counts, WaitOK, BucketNext, Before' => Before,
         pc'[tokens] \in {"last", "exit"} =>
           pc[tokens] \in {"last", "exit"} \/ tokens \in cancelled \/ MovedAll
  PROVE  AllMoved'
  <1> USE LabelsOf
  <1> SUFFICES ASSUME Before, pc'[tokens] \in {"last", "exit"}
               PROVE  total_genPackets' = num /\ Q1List' = <<>> /\ pc'[arrival] # "append"
    BY DEF AllMoved
  <1>1. total_genPackets = num /\ Q1List = <<>> /\ pc[arrival] # "append"
    <2>1. CASE pc[tokens] \in {"last", "exit"}
      BY <2>1 DEF WaitOK, AllMoved
    <2>2. CASE tokens \in cancelled
      <3>1. AllServed
        BY <2>2 DEF WaitOK, CancelledServed
      <3> QED
        BY <3>1, AllServedMeans DEF InHand
    <2>3. CASE MovedAll
      <3>1. InQ1 = 0
        BY <2>3, CountTypes, EmptySeq DEF MovedAll, InQ1
      <3>2. q1_to_q2 + droppedPackets + (IF pc[arrival] = "append" THEN 1 ELSE 0)
              <= total_genPackets
        BY <3>1, CountNats DEF Counts, MovesCounted
      <3> QED
        BY <2>3, <3>2, CountNats DEF MovedAll
    <2> QED
      BY <2>1, <2>2, <2>3
  <1> QED
    BY <1>1, NoneComes

LEMMA PlainStep ==
  ASSUME Shape, Counts, WaitOK, BucketNext, NEW t \in Workers, NEW l, Plain(t, l),
         t = tokens /\ l = "exit" => pc[tokens] = "last" /\ OneAwake',
         t = tokens /\ l = "last" => MovedAll
  PROVE  WaitOK'
  <1>1. AllServed => AllServed'
    BY ServedStays
  <1>2. Before' => Before
    BY LabelsOf DEF Plain, Onward, Before
  <1>3. pc'[tokens] \in {"last", "exit"} =>
          pc[tokens] \in {"last", "exit"} \/ MovedAll
    BY LabelsOf DEF Plain, Onward
  <1>4. AllMoved'
    BY <1>2, <1>3, AllMovedKeeps
  <1> QED
    BY <1>1, <1>4, PlainKeeps

-----------------------------------------------------------------------------
(* The steps, one by one: the first thread, ... *)
LEMMA ArrivalWait ==
  ASSUME Shape, Counts, WaitOK, Arriving
  PROVE  WaitOK'
  <1> USE LabelsOf
  <1>1. PICK l \in Label(arrival) : Onward(arrival, l)
    <2>1. CASE Arrive
      <3>1. CASE UNCHANGED pc
        BY <2>1, <3>1 DEF Arrive, At, Onward
      <3>2. CASE Goto(arrival, "append")
        <4>1. Turn(arrival, "append")
          BY <2>1, <3>2, Goes DEF Arrive, At, Shape, sync
        <4> QED
          BY <4>1, Onwards
      <3> QED
        BY <2>1, <3>1, <3>2 DEF Arrive
    <2>2. CASE EnterQ1
      <3>1. Turn(arrival, "move")
        BY <2>2, Goes DEF EnterQ1, At, Shape, sync
      <3> QED
        BY <3>1, Onwards
    <2>3. CASE ArrivalMoves
      <3>1. Turn(arrival, "sleep")
        BY <2>3, Goes DEF ArrivalMoves, Move, At, Shape
      <3> QED
        BY <3>1, Onwards
    <2>4. CASE LastPacket \/ ExitArrival
      <3>1. PICK l \in {"exit", "last"} : Turn(arrival, l)
        BY <2>4, Goes DEF LastPacket, ExitArrival, At, Shape
      <3> QED
        BY <3>1, Onwards
    <2>5. CASE pthread_mutex_lock(arrival, "move", "moving")
      <3>1. Turn(arrival, "moving")
        BY <2>5, Goes DEF pthread_mutex_lock, At, Shape
      <3> QED
        BY <3>1, Onwards
    <2> QED
      BY <2>1, <2>2, <2>3, <2>4, <2>5 DEF Arriving
  <1>2. /\ pc[arrival] # "exit" /\ UNCHANGED <<flag_server, cancelled, lost>>
        /\ \A s \in Server : done'[s] = done[s]
    <2>1. CASE LastPacket
      BY <2>1 DEF LastPacket, At, ends, Shape, SideOK
    <2>2. CASE Arriving /\ ~LastPacket
      BY <2>2 DEF Arriving, Arrive, EnterQ1, ArrivalMoves, ExitArrival, pthread_mutex_lock,
         At, flags, ends
    <2> QED
      BY <2>1, <2>2
  <1>3. Plain(arrival, l)
    BY <1>1, <1>2 DEF Plain
  <1>4. arrival # tokens /\ BucketNext
    BY DEF BucketNext
  <1> QED
    BY <1>3, <1>4, PlainStep

(* ... the second thread, ... *)
LEMMA TokensWait ==
  ASSUME Shape, Counts, WaitOK, Filling
  PROVE  WaitOK'
  <1> USE LabelsOf
  <1>1. BucketNext
    BY DEF BucketNext
  <1>2. CASE ExitTokens
    <2>1. Turn(tokens, "exit") /\ waiting' = {}
      BY <1>2, Goes DEF ExitTokens, pthread_cond_broadcast, At, Shape
    <2>2. Onward(tokens, "exit")
      BY <2>1, Onwards
    <2>3. Plain(tokens, "exit")
      BY <1>2, <2>2 DEF Plain, ExitTokens, At, ends, Shape, SideOK
    <2>4. OneAwake'
      <3>1. \A s \in Server : pc'[s] # "waiting"
        BY <2>1, Turned DEF Shape, WaitersOK
      <3>2. \A s \in Server : pc'[s] = "wait" => s \in Inside
        BY <2>2 DEF Onward, Inside, Critical
      <3>3. ~Broken
        BY <1>2 DEF ExitTokens, At
      <3>4. server1 \in Server /\ server2 \in Server /\ server1 # server2
        BY FiveThreads DEF Server
      <3>5. ~(server1 \in Inside /\ server2 \in Inside)
        BY <3>3, <3>4, AloneInside
      <3>6. \E s \in Server : pc'[s] \notin Out
        BY <3>1, <3>2, <3>4, <3>5 DEF Out
      <3> QED
        BY <3>6 DEF OneAwake, Out
    <2>5. pc[tokens] = "last"
      BY <1>2 DEF ExitTokens, At
    <2> QED
      BY <1>1, <2>3, <2>4, <2>5, PlainStep
  <1>3. CASE AddToken \/ TokenMoves \/ pthread_mutex_lock(tokens, "move", "moving")
    <2>1. PICK l \in {"add", "move", "moving", "last"} :
             Turn(tokens, l) /\ (l = "last" => MovedAll)
      <3>1. CASE AddToken
        BY <3>1, Goes DEF AddToken, At, Shape, sync
      <3>2. CASE TokenMoves
        BY <3>2, Goes DEF TokenMoves, Move, At, Shape, MovedAll
      <3>3. CASE pthread_mutex_lock(tokens, "move", "moving")
        BY <3>3, Goes DEF pthread_mutex_lock, At, Shape
      <3> QED
        BY <1>3, <3>1, <3>2, <3>3
    <2>2. Onward(tokens, l)
      BY <2>1, Onwards
    <2>3. Plain(tokens, l)
      BY <1>3, <2>2 DEF Plain, AddToken, TokenMoves, pthread_mutex_lock, At, flags, ends
    <2> QED
      BY <1>1, <2>1, <2>3, PlainStep
  <1> QED
    BY <1>2, <1>3 DEF Filling

(* ... the servers, ... *)
LEMMA ServerPlain ==
  ASSUME Shape, Counts, WaitOK, NEW s \in Server,
         \/ pthread_mutex_lock(s, "start", "looking") \/ Finish(s) \/ Woken(s)
         \/ Serve(s) \/ Depart(s) \/ pthread_cond_wait(s) \/ Spurious(s)
  PROVE  WaitOK'
  <1> USE LabelsOf
  <1>1. s \in Workers /\ s \in All /\ s # tokens
    OBVIOUS
  <1>2. BucketNext
    BY DEF BucketNext, Serving
  <1>3. PICK l \in {"looking", "cancel_p", "serve", "start", "waiting", "woken"} :
           /\ Turn(s, l)
           /\ l = "cancel_p" => AllServed
           /\ l = "waiting" => pc[s] = "wait" /\ done' = done
           /\ l = "woken" => pc[s] = "waiting" /\ done' = done
    <2>1. CASE pthread_mutex_lock(s, "start", "looking")
      BY <2>1, Goes DEF pthread_mutex_lock, At, Shape
    <2>2. CASE Finish(s)
      BY <2>2, Goes DEF Finish, At, Shape
    <2>3. CASE Woken(s)
      BY <2>3, Goes DEF Woken, At, Shape
    <2>4. CASE Serve(s)
      BY <2>4, Goes DEF Serve, At, Shape
    <2>5. CASE Depart(s)
      BY <2>5, Goes DEF Depart, At, Shape, sync
    <2>6. CASE pthread_cond_wait(s)
      BY <2>6 DEF pthread_cond_wait, At, Goto, Turn, flags
    <2>7. CASE Spurious(s)
      BY <2>7 DEF Spurious, Goto, Turn, Shape, WaitersOK, flags
    <2> QED
      BY <2>1, <2>2, <2>3, <2>4, <2>5, <2>6, <2>7
  <1>4. Onward(s, l)
    BY <1>3, Onwards
  <1>5. UNCHANGED <<flag_server, cancelled, lost>> /\ \A x \in Server \ {s} : done'[x] = done[x]
    <2>1. CASE Woken(s)
      BY <2>1 DEF Woken, ends, Shape, SideOK
    <2>2. CASE ~Woken(s)
      BY <2>2 DEF pthread_mutex_lock, Finish, Serve, Depart, pthread_cond_wait, Spurious, flags, ends
    <2> QED
      BY <2>1, <2>2
  <1>6. pc[s] \notin Late
    BY DEF pthread_mutex_lock, Finish, Woken, Serve, Depart, pthread_cond_wait, Spurious, At, Late,
       Shape, WaitersOK
  <1>7. l \in {"waiting", "woken"} => ~done'[s]
    BY <1>3 DEF WaitOK, FlagCleared
  <1>8. Plain(s, l)
    BY <1>3, <1>4, <1>5, <1>6, <1>7 DEF Plain, Late, Out
  <1> QED
    BY <1>1, <1>2, <1>8, PlainStep

(* A server finds nothing to do: then the other is not waiting, or more packets will come. *)
LEMMA NothingWait ==
  ASSUME Shape, Counts, WaitOK, NEW s \in Server, NothingToDo(s)
  PROVE  WaitOK'
  <1> USE LabelsOf
  <1>1. /\ pc[s] = "looking" /\ flag_server /\ Q2List = <<>> /\ ~AllServed
        /\ UNCHANGED <<flag_server, cancelled, lost, counts>>
        /\ done' = [done EXCEPT ![s] = FALSE]
    BY DEF NothingToDo, At, ends
  <1>2. s \in All /\ s \in Workers /\ "wait" \in Label(s) /\ BucketNext
    BY DEF BucketNext, Serving
  <1>3. Onward(s, "wait")
    <2>1. Turn(s, "wait")
      BY <1>1, Goes DEF NothingToDo, Shape, sync
    <2> QED
      BY <1>2, <2>1, Onwards
  <1>4. ctrl # s /\ tokens # s /\ pc'[ctrl] = pc[ctrl] /\ pc'[tokens] = pc[tokens] /\ Before' = Before
    BY <1>2, <1>3 DEF Onward, Before
  <1>5. ASSUME NEW x \in Server \ {s}
        PROVE  /\ pc'[x] = pc[x] \/ (pc[x] = "waiting" /\ pc'[x] = "woken")
               /\ done'[x] = done[x]
    BY <1>1, <1>3 DEF Onward, Shape, SideOK
  <1>6. FlagCleared'
    <2>1. ~done'[s]
      BY <1>1, <1>2 DEF Shape, SideOK
    <2> QED
      BY <2>1, <1>5 DEF WaitOK, FlagCleared
  <1>7. NobodyLeft'
    BY <1>1, <1>4 DEF WaitOK, NobodyLeft
  <1>8. Before => cancelled = {}
    BY <1>1 DEF WaitOK, CancelledServed
  <1>9. CancelledServed'
    BY <1>1, <1>4, <1>8 DEF WaitOK, CancelledServed
  <1>10. AllMoved'
    BY <1>2, <1>4, AllMovedKeeps
  <1>11. OneAwake'
    <2> SUFFICES ASSUME Before, pc[tokens] = "exit"
                 PROVE  \E x \in Server : pc'[x] \notin Out
      BY <1>4 DEF OneAwake, Out
    <2>1. total_genPackets = num /\ Q1List = <<>> /\ pc[arrival] # "append" /\ lost = 0
      BY DEF WaitOK, AllMoved, CancelledServed
    <2>2. Len(Q1List) = 0 /\ Len(Q2List) = 0
      BY <1>1, <2>1, CountTypes, EmptySeq
    <2>3. Cardinality(InHand) # 0
      BY <1>1, <2>1, <2>2, CountTypes, Accounted DEF Counts, AllServed, InQ1, InQ2, Held
    <2>4. PICK x : x \in InHand
      BY <2>3, FS_EmptySet
    <2>5. x \in Workers /\ pc[x] \in {"append", "serve"} /\ pc[x] \in Label(x)
      BY <2>4 DEF InHand, Shape, PlaceTypeOK
    <2>6. x \in Server \ {s} /\ pc[x] = "serve"
      BY <1>1, <2>1, <2>5 DEF Workers
    <2>7. pc'[x] = "serve"
      BY <1>5, <2>6
    <2> QED
      BY <2>6, <2>7 DEF Out
  <1>12. FirstCancels'
    <2> SUFFICES ASSUME Before, NEW x \in Server
                 PROVE  /\ pc'[x] \notin {"cancel_p", "cancel_t", "cancel_s"}
                        /\ x \notin cancelled' /\ pc'[x] # "exit"
      BY <1>4 DEF FirstCancels
    <2>1. /\ pc[x] \notin {"cancel_p", "cancel_t", "cancel_s"}
          /\ x \notin cancelled
      BY <1>1, <1>8 DEF WaitOK, FirstCancels
    <2>2. CASE x = s
      BY <1>1, <1>3, <2>1, <2>2 DEF Onward
    <2>3. CASE x # s
      <3>1. Other(x) = s
        BY <2>3 DEF Other
      <3>2. pc[x] # "exit"
        BY <1>1, <1>8, <3>1 DEF WaitOK, FirstCancels
      <3> QED
        BY <1>1, <1>5, <2>1, <2>3, <3>2
    <2> QED
      BY <2>2, <2>3
  <1> QED
    BY <1>6, <1>7, <1>9, <1>10, <1>11, <1>12 DEF WaitOK

(* A server that has served all cancels the others. *)
LEMMA CancelWait ==
  ASSUME Shape, Counts, WaitOK, BucketNext, NEW s \in Server, NEW x \in Workers \ {s},
         NEW from \in {"cancel_p", "cancel_t", "cancel_s"}, NEW to \in Late,
         x \in Server <=> to = "exit",
         CancelUnless(s, x, from, to)
  PROVE  WaitOK'
  <1> USE LabelsOf
  <1>1. /\ pc[s] = from /\ Goto(s, to) /\ done' = done
        /\ UNCHANGED <<flag_server, lost, waiting>>
        /\ cancelled' = cancelled \cup IF done[x] \/ pc[x] = "exit" THEN {} ELSE {x}
    BY DEF CancelUnless, At, sync, flags, pthread_cancel
  <1>2. Onward(s, to)
    <2>1. s \in All /\ to \in Label(s)
      BY DEF Late
    <2>2. Turn(s, to)
      BY <1>1, <2>1, Goes DEF Shape, Late
    <2> QED
      BY <2>1, <2>2, Onwards
  <1>3. ctrl # s /\ tokens # s /\ pc'[ctrl] = pc[ctrl] /\ pc'[tokens] = pc[tokens] /\ Before' = Before
    BY <1>2 DEF Onward, Before
  <1>4. ASSUME NEW y \in Server
        PROVE  /\ pc[y] \in Late => pc'[y] \in Late
               /\ pc'[y] \in Out => pc[y] \in Out
               /\ y # s => (pc'[y] = "exit" <=> pc[y] = "exit")
               /\ pc'[y] \in {"wait", "waiting", "woken"} => pc[y] \in {"wait", "waiting", "woken"}
    BY <1>1, <1>2 DEF Onward, Late, Out
  <1>5. FlagCleared' /\ NobodyLeft'
    BY <1>1, <1>3, <1>4 DEF WaitOK, FlagCleared, NobodyLeft, Out
  <1>6. Before => AllServed /\ AllServed'
    <2>1. Before => AllServed
      BY <1>1 DEF WaitOK, FirstCancels
    <2> QED
      BY <2>1, ServedStays
  <1>7. CancelledServed' /\ OneAwake'
    <2>1. pc'[s] \in Late /\ pc'[s] \notin Out
      BY <1>2 DEF Onward, Late, Out
    <2> QED
      BY <1>1, <1>3, <1>6, <2>1 DEF WaitOK, CancelledServed, OneAwake, Out
  <1>8. AllMoved'
    BY <1>3, AllMovedKeeps
  <1>9. FirstCancels'
    <2> SUFFICES ASSUME Before, NEW y \in Server
                 PROVE  /\ y \in cancelled' => pc'[Other(y)] = "exit"
                        /\ pc'[y] = "exit" => \/ pc'[Other(y)] = "exit" \/ Other(y) \in cancelled'
                                              \/ AllServed' /\ pc'[Other(y)] \notin Out
      BY <1>3, <1>6 DEF FirstCancels, Out
    <2>1. /\ y \in cancelled => pc[Other(y)] = "exit"
          /\ pc[y] = "exit" => \/ pc[Other(y)] = "exit" \/ Other(y) \in cancelled
                               \/ AllServed /\ pc[Other(y)] \notin Out
      BY DEF WaitOK, FirstCancels
    <2>2. pc'[s] = to /\ to \notin Out /\ pc[s] # "exit"
      BY <1>1, <1>2 DEF Onward, Late, Out
    <2>3. CASE y = s
      <3>1. Other(s) \in Server /\ Other(s) # s
        OBVIOUS
      <3>2. s \in cancelled' => pc'[Other(s)] = "exit"
        BY <1>1, <1>4, <2>1, <2>3, <3>1
      <3>3. ASSUME to = "exit"
            PROVE  \/ pc'[Other(s)] = "exit" \/ Other(s) \in cancelled'
                   \/ AllServed' /\ pc'[Other(s)] \notin Out
        <4>1. x = Other(s)
          BY <3>3
        <4>2. done[x] => pc[x] \notin Out
          BY <3>1, <4>1 DEF WaitOK, FlagCleared, Out
        <4> QED
          BY <1>1, <1>4, <1>6, <3>1, <4>1, <4>2
      <3> QED
        BY <2>2, <2>3, <3>2, <3>3
    <2>4. CASE y # s
      <3>1. Other(y) = s
        BY <2>4
      <3>2. y \in cancelled' => to = "exit"
        BY <1>1, <2>1, <2>2, <2>4, <3>1
      <3>3. pc'[y] = "exit" <=> pc[y] = "exit"
        BY <1>4, <2>4
      <3> QED
        BY <1>1, <1>6, <2>1, <2>2, <3>1, <3>2, <3>3
    <2> QED
      BY <2>3, <2>4
  <1> QED
    BY <1>5, <1>7, <1>8, <1>9 DEF WaitOK

(* ... a thread that has been cancelled, ... *)
LEMMA EndWait ==
  ASSUME Shape, Counts, WaitOK, NEW t \in Workers, Cancel(t)
  PROVE  WaitOK'
  <1> USE LabelsOf
  <1>1. /\ t \in cancelled /\ Goto(t, "exit") /\ cancelled' = cancelled \ {t}
        /\ lost' = lost + IF pc[t] \in {"append", "serve"} THEN 1 ELSE 0
        /\ UNCHANGED <<done, flag_server>> /\ BucketNext
    BY DEF Cancel, flags, BucketNext
  <1>2. /\ pc'[t] = "exit" /\ \A x \in All \ {t} : pc'[x] = pc[x]
    BY <1>1 DEF Goto, Shape, PlaceTypeOK
  <1>3. ctrl # t /\ pc'[ctrl] = pc[ctrl] /\ Before' = Before
    BY <1>2 DEF Before
  <1>4. ASSUME NEW y \in Server
        PROVE  pc'[y] = "exit" \/ pc'[y] = pc[y]
    BY <1>2
  <1>5. FlagCleared' /\ NobodyLeft'
    BY <1>1, <1>3, <1>4 DEF WaitOK, FlagCleared, NobodyLeft, Out
  <1>6. Before => AllServed /\ AllServed' /\ lost' = 0
    <2> SUFFICES ASSUME Before PROVE AllServed /\ AllServed' /\ lost' = 0
      OBVIOUS
    <2>1. AllServed
      BY <1>1 DEF WaitOK, CancelledServed
    <2>2. pc[t] \notin {"append", "serve"} /\ lost = 0
      BY <2>1, AllServedMeans DEF InHand
    <2> QED
      BY <1>1, <2>1, <2>2, ServedStays
  <1>7. CancelledServed'
    BY <1>1, <1>3, <1>4, <1>6 DEF WaitOK, CancelledServed, Late
  <1>8. AllMoved'
    <2>1. pc'[tokens] \in {"last", "exit"} => pc[tokens] \in {"last", "exit"} \/ tokens \in cancelled
      BY <1>1, <1>2
    <2> QED
      BY <1>1, <1>3, <2>1, AllMovedKeeps
  <1>9. OneAwake'
    <2> SUFFICES ASSUME Before, pc'[tokens] = "exit"
                 PROVE  \E y \in Server : pc'[y] \notin Out
      BY <1>3 DEF OneAwake, Out
    <2>1. \E y \in Server : pc[y] \notin Out
      <3>1. CASE t = tokens
        BY <1>1, <3>1 DEF WaitOK, CancelledServed, Late, Out
      <3>2. CASE t # tokens
        BY <1>2, <3>2 DEF WaitOK, OneAwake
      <3> QED
        BY <3>1, <3>2
    <2> QED
      BY <1>4, <2>1 DEF Out
  <1>10. FirstCancels'
    <2> SUFFICES ASSUME Before, NEW y \in Server
                 PROVE  /\ y \in cancelled' => pc'[Other(y)] = "exit"
                        /\ pc'[y] = "exit" => \/ pc'[Other(y)] = "exit" \/ Other(y) \in cancelled'
                                              \/ AllServed' /\ pc'[Other(y)] \notin Out
      BY <1>3, <1>6 DEF FirstCancels, Out
    <2>1. /\ y \in cancelled => pc[Other(y)] = "exit"
          /\ pc[y] = "exit" => \/ pc[Other(y)] = "exit" \/ Other(y) \in cancelled
                               \/ AllServed /\ pc[Other(y)] \notin Out
      BY DEF WaitOK, FirstCancels
    <2>2. pc'[Other(y)] = "exit" \/ pc'[Other(y)] = pc[Other(y)]
      BY <1>4
    <2>3. pc'[y] = "exit" => pc[y] = "exit" \/ y \in cancelled
      BY <1>1, <1>2
    <2>4. Other(y) \in cancelled => Other(y) \in cancelled' \/ pc'[Other(y)] = "exit"
      BY <1>1, <1>2
    <2>5. y \in cancelled' => y \in cancelled
      BY <1>1
    <2> QED
      BY <1>6, <2>1, <2>2, <2>3, <2>4, <2>5 DEF Out
  <1> QED
    BY <1>5, <1>7, <1>8, <1>9, <1>10 DEF WaitOK

(* ... and after SIGINT, ... *)
LEMMA StopWait ==
  ASSUME Shape, WaitOK, SigInt \/ Stopping \/ \E s \in Server : StopServer(s)
  PROVE  WaitOK'
  <1> USE LabelsOf
  <1>1. SUFFICES ~Before' /\ FlagCleared' /\ NobodyLeft'
    BY DEF WaitOK, CancelledServed, AllMoved, OneAwake, FirstCancels
  <1>2. CASE SigInt \/ StopAll \/ pthread_mutex_lock(ctrl, "drain", "draining")
    <2>1. PICK l \in {"stop", "drain", "draining"} : Goto(ctrl, l)
      BY <1>2 DEF SigInt, StopAll, pthread_mutex_lock
    <2>2. pc'[ctrl] = l /\ \A s \in Server : pc'[s] = pc[s]
      BY <2>1 DEF Goto, Shape, PlaceTypeOK
    <2>3. done' = done
      BY <1>2 DEF SigInt, StopAll, pthread_mutex_lock, flags
    <2>4. ~Before' /\ FlagCleared'
      BY <2>2, <2>3 DEF Before, WaitOK, FlagCleared
    <2>5. NobodyLeft'
      <3>1. CASE SigInt
        BY <3>1, <2>2 DEF SigInt, Goto, NobodyLeft, Shape, PlaceTypeOK
      <3>2. CASE StopAll
        BY <3>2, <2>2 DEF StopAll, NobodyLeft
      <3>3. CASE pthread_mutex_lock(ctrl, "drain", "draining")
        BY <3>3, <2>2 DEF pthread_mutex_lock, At, flags, NobodyLeft, WaitOK
      <3> QED
        BY <1>2, <3>1, <3>2, <3>3
    <2> QED
      BY <2>4, <2>5
  <1>3. CASE Drain
    <2>1. Turn(ctrl, "exit") /\ waiting' = {}
      BY <1>3, Goes DEF Drain, pthread_cond_broadcast, At, Shape
    <2>2. Onward(ctrl, "exit")
      BY <2>1, Onwards
    <2>3. done' = done /\ flag_server' = flag_server /\ ~flag_server
      BY <1>3 DEF Drain, At, flags, WaitOK, NobodyLeft
    <2>4. ~Before' /\ FlagCleared'
      BY <2>2, <2>3 DEF Onward, Before, WaitOK, FlagCleared
    <2>5. ASSUME NEW s \in Server PROVE pc'[s] \notin Out
      <3>1. pc'[s] # "waiting"
        BY <2>1, Turned DEF Shape, WaitersOK
      <3>2. pc'[s] = "wait" => s \in Inside
        BY <2>2 DEF Onward, Inside, Critical
      <3>3. ctrl \in Inside /\ ~Broken /\ s # ctrl
        BY <1>3 DEF Drain, At, Inside, Critical
      <3>4. s \notin Inside
        BY <3>3, AloneInside
      <3> QED
        BY <3>1, <3>2, <3>4 DEF Out
    <2> QED
      BY <2>3, <2>4, <2>5 DEF NobodyLeft, Out
  <1>4. ASSUME NEW s \in Server, StopServer(s)
        PROVE  ~Before' /\ FlagCleared' /\ NobodyLeft'
    <2>1. /\ Goto(s, "exit") /\ ~flag_server /\ UNCHANGED <<done, flag_server>>
      BY <1>4 DEF StopServer, flags
    <2>2. pc'[s] = "exit" /\ \A x \in All \ {s} : pc'[x] = pc[x]
      BY <2>1 DEF Goto, Shape, PlaceTypeOK
    <2>3. pc'[ctrl] = pc[ctrl] /\ ~Before
      BY <2>1, <2>2 DEF WaitOK, CancelledServed
    <2>4. \A x \in Server : pc'[x] = "exit" \/ pc'[x] = pc[x]
      BY <2>2
    <2> QED
      BY <2>1, <2>3, <2>4 DEF Before, WaitOK, FlagCleared, NobodyLeft, Out
  <1> QED
    BY <1>2, <1>3, <1>4 DEF Stopping

LEMMA WaitKeeps ==
  ASSUME Shape, Counts, WaitOK, [BucketNext]_bucketVars
  PROVE  WaitOK'
  <1> USE LabelsOf
  <1>1. CASE UNCHANGED bucketVars
    BY <1>1 DEF bucketVars, input, queues, counts, sync, flags, ends, WaitOK, FlagCleared, NobodyLeft,
       CancelledServed, AllMoved, OneAwake, FirstCancels, Before, AllServed
  <1>2. CASE BucketNext
    <2>1. CASE Arriving \/ Filling
      BY <2>1, ArrivalWait, TokensWait
    <2>2. CASE SigInt \/ Stopping
      BY <2>2, StopWait
    <2>3. ASSUME NEW s \in Server, Serving(s) \/ Spurious(s) PROVE WaitOK'
      <3>1. CASE StopServer(s)
        BY <3>1, StopWait
      <3>2. CASE NothingToDo(s)
        BY <3>2, NothingWait
      <3>3. CASE CancelUnless(s, arrival, "cancel_p", "cancel_t")
        BY <3>3, <1>2, CancelWait DEF Late
      <3>4. CASE CancelUnless(s, tokens, "cancel_t", "cancel_s")
        BY <3>4, <1>2, CancelWait DEF Late
      <3>5. CASE CancelUnless(s, Other(s), "cancel_s", "exit")
        BY <3>5, <1>2, CancelWait DEF Late
      <3>6. CASE \/ pthread_mutex_lock(s, "start", "looking") \/ Finish(s) \/ Woken(s)
                 \/ Serve(s) \/ Depart(s) \/ pthread_cond_wait(s) \/ Spurious(s)
        BY <3>6, ServerPlain
      <3> QED
        BY <2>3, <3>1, <3>2, <3>3, <3>4, <3>5, <3>6 DEF Serving
    <2>4. ASSUME NEW t \in Workers, Cancel(t) PROVE WaitOK'
      BY <2>4, EndWait
    <2> QED
      BY <1>2, <2>1, <2>2, <2>3, <2>4 DEF BucketNext
  <1> QED
    BY <1>1, <1>2

LEMMA InitWait == BucketInit => WaitOK
  <1> SUFFICES ASSUME BucketInit PROVE WaitOK
    OBVIOUS
  <1> USE LabelsOf
  <1>1. \A t \in All : pc[t] = CASE t = arrival -> "sleep" [] t = tokens -> "add"
                                 [] t \in Server -> "start" [] t = ctrl -> "sigwait"
    BY DEF BucketInit
  <1>2. pc[tokens] = "add" /\ pc[ctrl] = "sigwait" /\ \A s \in Server : pc[s] = "start"
    BY <1>1, FiveThreads DEF Server
  <1> QED
    BY <1>2 DEF BucketInit, WaitOK, FlagCleared, NobodyLeft, CancelledServed, AllMoved, OneAwake,
       FirstCancels, Before, Out

-----------------------------------------------------------------------------
(* The inductive invariant: types, counts, and who is to wake whom. *)
BucketInv == Shape /\ Counts /\ WaitOK

THEOREM BucketInvariant == BucketSpec => []BucketInv
  <1>1. BucketInit => BucketInv
    BY InitShape, InitWait DEF BucketInv
  <1>2. BucketInv /\ [BucketNext]_bucketVars => BucketInv'
    BY NextKeeps, WaitKeeps DEF BucketInv
  <1> QED
    BY <1>1, <1>2, PTL DEF BucketSpec

(* The counters and queues of warmup2.c keep their bounds, whatever the    *)
(* threads do: every count is at most num, the bucket at most its depth.   *)
THEOREM BucketTypes == BucketSpec => []BucketTypeOK
  <1>1. BucketInv => BucketTypeOK
    BY CountsBound DEF BucketInv
  <1> QED
    BY <1>1, BucketInvariant, PTL

(* Packets are served in the order of their arrival, and each is in a      *)
(* queue, with a thread, or counted as dropped, lost or out, whenever      *)
(* threads are cancelled and however the mutex is misused.                 *)
THEOREM PacketsStay == BucketSpec => []PacketsKept
  <1>1. BucketInv => PacketsKept
    BY DEF BucketInv, Counts, PacketsKept
  <1> QED
    BY <1>1, BucketInvariant, PTL

(* No server is left in pthread_cond_wait when all who could wake or       *)
(* cancel it are gone.                                                     *)
THEOREM ServersCalled == BucketSpec => []NobodyLeftWaiting
  <1>1. BucketInv => NobodyLeftWaiting
    BY WaitersCalled DEF BucketInv
  <1> QED
    BY <1>1, BucketInvariant, PTL

-----------------------------------------------------------------------------
(* The links of a sequence of elements. *)
Ring(nx, pv, s) ==
  \A i \in 0 .. Len(s) :
    nx[NodeAt(s, i)] = NodeAt(s, i + 1) /\ pv[NodeAt(s, i + 1)] = NodeAt(s, i)

(* The elements are linked as the sequence is, each once, and the others   *)
(* not at all.                                                             *)
ListInv ==
  /\ ListTypeOK
  /\ list \in Seq(Elem) /\ Injective(list)
  /\ Ring(next, prev, list)
  /\ num_members = Len(list)
  /\ \A e \in Elem : (\A i \in 1 .. Len(list) : list[i] # e) => next[e] = Null

(* Every place but the anchor's is one element's. *)
LEMMA NodeAtOK ==
  ASSUME NEW s \in Seq(Elem), Injective(s)
  PROVE  /\ Len(s) \in Nat /\ DOMAIN s = 1 .. Len(s)
         /\ \A i : NodeAt(s, i) \in Node
         /\ NodeAt(s, 0) = anchor /\ NodeAt(s, Len(s) + 1) = anchor
         /\ \A i \in 1 .. Len(s) : NodeAt(s, i) = s[i] /\ s[i] \in Elem /\ s[i] # anchor
         /\ \A i, j \in 0 .. Len(s) : NodeAt(s, i) = NodeAt(s, j) => i = j
         /\ \A i, j \in 0 .. Len(s) : NodeAt(s, i + 1) = NodeAt(s, j + 1) => i = j
  <1>1. Len(s) \in Nat /\ DOMAIN s = 1 .. Len(s) /\ \A i \in 1 .. Len(s) : s[i] \in Elem
    OBVIOUS
  <1>2. \A i \in 1 .. Len(s) : s[i] # anchor
    BY <1>1, ListAssumption
  <1>3. \A i, j \in 1 .. Len(s) : s[i] = s[j] => i = j
    BY <1>1 DEF Injective
  <1>4. \A i : NodeAt(s, i) \in Node
    BY <1>1 DEF NodeAt, Node
  <1>5. NodeAt(s, 0) = anchor /\ NodeAt(s, Len(s) + 1) = anchor
    BY <1>1 DEF NodeAt
  <1>6. \A i \in 1 .. Len(s) : NodeAt(s, i) = s[i]
    BY DEF NodeAt
  <1>7. ASSUME NEW i \in 0 .. Len(s), NEW j \in 0 .. Len(s), NodeAt(s, i) = NodeAt(s, j)
        PROVE  i = j
    <2>1. CASE i = 0 \/ j = 0
      BY <2>1, <1>1, <1>2, <1>7 DEF NodeAt
    <2>2. CASE i # 0 /\ j # 0
      BY <2>2, <1>1, <1>3, <1>6, <1>7
    <2> QED
      BY <2>1, <2>2
  <1>8. ASSUME NEW i \in 0 .. Len(s), NEW j \in 0 .. Len(s), NodeAt(s, i + 1) = NodeAt(s, j + 1)
        PROVE  i = j
    <2>1. ASSUME NEW x \in 0 .. Len(s), x # Len(s)
          PROVE  x + 1 \in 1 .. Len(s) /\ NodeAt(s, x + 1) # anchor
      <3>1. Len(s) \in Nat
        OBVIOUS
      <3>2. x + 1 \in 1 .. Len(s)
        BY <3>1, <2>1
      <3> QED
        BY <3>2, <1>2, <1>6
    <2>2. CASE i = Len(s) \/ j = Len(s)
      BY <2>1, <2>2, <1>5, <1>8
    <2>3. CASE i # Len(s) /\ j # Len(s)
      <3>1. i + 1 = j + 1
        BY <2>1, <2>3, <1>3, <1>6, <1>8
      <3> QED
        BY <3>1
    <2> QED
      BY <2>2, <2>3
  <1> QED
    BY <1>1, <1>2, <1>4, <1>5, <1>6, <1>7, <1>8

(* One element more in a sequence, as its place k, and one less.           *)
Inserted(s, new, k, e) ==
  /\ new \in Seq(Elem) /\ Len(new) = Len(s) + 1
  /\ \A i \in 1 .. Len(s) + 1 :
       new[i] = IF i < k THEN s[i] ELSE IF i = k THEN e ELSE s[i - 1]

Removed(s, new, k) ==
  /\ new \in Seq(Elem) /\ Len(new) = Len(s) - 1
  /\ \A i \in 1 .. Len(s) - 1 : new[i] = IF i < k THEN s[i] ELSE s[i + 1]

(* InsertAt and RemoveAt do so. *)
LEMMA InsertAtIs ==
  ASSUME NEW s \in Seq(Elem), NEW k \in 1 .. Len(s) + 1, NEW e \in Elem
  PROVE  Inserted(s, InsertAt(s, k, e), k, e)
  <1> DEFINE a == SubSeq(s, 1, k - 1)
             b == SubSeq(s, k, Len(s))
             t == a \o <<e>>
  <1>1. /\ a \in Seq(Elem) /\ Len(a) = k - 1
        /\ \A i \in 1 .. k - 1 : a[i] = s[i]
    OBVIOUS
  <1>2. /\ b \in Seq(Elem) /\ Len(b) = Len(s) - k + 1
        /\ \A i \in 1 .. Len(s) - k + 1 : b[i] = s[k + i - 1]
    OBVIOUS
  <1> HIDE DEF a, b
  <1>3. /\ t \in Seq(Elem) /\ Len(t) = k
        /\ \A i \in 1 .. k : t[i] = IF i < k THEN s[i] ELSE e
    BY <1>1
  <1>4. InsertAt(s, k, e) = t \o b
    BY DEF InsertAt, a, b
  <1> HIDE DEF t
  <1>5. /\ t \o b \in Seq(Elem) /\ Len(t \o b) = Len(s) + 1
        /\ \A i \in 1 .. Len(s) + 1 : (t \o b)[i] = IF i <= k THEN t[i] ELSE b[i - k]
    <2>1. Len(s) - k + 1 \in Nat /\ k \in Nat
      OBVIOUS
    <2> QED
      BY <1>2, <1>3, <2>1, ConcatProperties
  <1>6. \A i \in k + 1 .. Len(s) + 1 : b[i - k] = s[i - 1]
    BY <1>2
  <1> QED
    BY <1>3, <1>4, <1>5, <1>6 DEF Inserted

(* So does an element put at either end. *)
LEMMA AppendInserts ==
  ASSUME NEW s \in Seq(Elem), NEW e \in Elem
  PROVE  /\ Inserted(s, Append(s, e), Len(s) + 1, e)
         /\ Inserted(s, <<e>> \o s, 1, e)
  BY DEF Inserted

(* RemoveAt takes one away. *)
LEMMA RemoveAtIs ==
  ASSUME NEW s \in Seq(Elem), NEW k \in 1 .. Len(s)
  PROVE  Removed(s, RemoveAt(s, k), k)
  <1> DEFINE a == SubSeq(s, 1, k - 1)
             b == SubSeq(s, k + 1, Len(s))
  <1>1. /\ a \in Seq(Elem) /\ Len(a) = k - 1
        /\ \A i \in 1 .. k - 1 : a[i] = s[i]
    OBVIOUS
  <1>2. /\ b \in Seq(Elem) /\ Len(b) = Len(s) - k
        /\ \A i \in 1 .. Len(s) - k : b[i] = s[k + i]
    OBVIOUS
  <1>3. RemoveAt(s, k) = a \o b
    BY DEF RemoveAt
  <1> HIDE DEF a, b
  <1>4. /\ a \o b \in Seq(Elem) /\ Len(a \o b) = Len(s) - 1
        /\ \A i \in 1 .. Len(s) - 1 : (a \o b)[i] = IF i < k THEN a[i] ELSE b[i - (k - 1)]
    <2>1. k \in Nat /\ Len(s) \in Nat /\ k <= Len(s)
      OBVIOUS
    <2>2. /\ a \o b \in Seq(Elem) /\ Len(a \o b) = Len(a) + Len(b)
          /\ \A i \in 1 .. Len(a) + Len(b) :
               (a \o b)[i] = IF i <= Len(a) THEN a[i] ELSE b[i - Len(a)]
      BY <1>1, <1>2, ConcatProperties
    <2> QED
      BY <1>1, <1>2, <2>1, <2>2
  <1>5. \A i \in k .. Len(s) - 1 : b[i - (k - 1)] = s[i + 1]
    BY <1>2
  <1>6. ASSUME NEW i \in 1 .. Len(s) - 1
        PROVE  (a \o b)[i] = IF i < k THEN s[i] ELSE s[i + 1]
    <2>1. CASE i < k
      <3>1. i \in 1 .. k - 1
        BY <2>1
      <3> QED
        BY <2>1, <3>1, <1>1, <1>4
    <2>2. CASE ~ (i < k)
      <3>1. i \in k .. Len(s) - 1
        BY <2>2
      <3> QED
        BY <2>2, <3>1, <1>4, <1>5
    <2> QED
      BY <2>1, <2>2
  <1> QED
    BY <1>3, <1>4, <1>6 DEF Removed

(* An element put in, or taken out, leaves the others once each.           *)
LEMMA InsertedOnce ==
  ASSUME NEW s \in Seq(Elem), Injective(s), NEW k \in 1 .. Len(s) + 1, NEW e \in Elem,
         \A i \in 1 .. Len(s) : s[i] # e, NEW new, Inserted(s, new, k, e)
  PROVE  Injective(new)
  <1>1. Len(s) \in Nat /\ \A i, j \in 1 .. Len(s) : s[i] = s[j] => i = j
    BY DEF Injective
  <1>2. /\ DOMAIN new = 1 .. Len(s) + 1
        /\ \A i \in 1 .. Len(s) + 1 :
             new[i] = IF i < k THEN s[i] ELSE IF i = k THEN e ELSE s[i - 1]
    BY DEF Inserted
  <1> DEFINE was(i) == IF i < k THEN i ELSE i - 1
  <1>3. ASSUME NEW i \in 1 .. Len(s) + 1
        PROVE  /\ i # k => was(i) \in 1 .. Len(s) /\ new[i] = s[was(i)]
               /\ i = k <=> new[i] = e
    <2>1. i # k => was(i) \in 1 .. Len(s)
      BY <1>1
    <2>2. i # k => new[i] = s[was(i)]
      BY <1>2
    <2>3. i = k => new[i] = e
      BY <1>2
    <2> HIDE DEF was
    <2> QED
      BY <2>1, <2>2, <2>3
  <1>4. ASSUME NEW i \in 1 .. Len(s) + 1, NEW j \in 1 .. Len(s) + 1, new[i] = new[j]
        PROVE  i = j
    <2>1. CASE i = k \/ j = k
      BY <2>1, <1>3, <1>4
    <2>2. CASE i # k /\ j # k
      <3>1. was(i) = was(j)
        <4> HIDE DEF was
        <4> QED
          BY <2>2, <1>1, <1>3, <1>4
      <3> QED
        BY <3>1, <2>2, <1>1
    <2> QED
      BY <2>1, <2>2
  <1> QED
    BY <1>2, <1>4 DEF Injective

(* and so does one taken out. *)
LEMMA RemovedOnce ==
  ASSUME NEW s \in Seq(Elem), Injective(s), NEW k \in 1 .. Len(s), NEW new, Removed(s, new, k)
  PROVE  Injective(new)
  <1>1. Len(s) \in Nat /\ \A i, j \in 1 .. Len(s) : s[i] = s[j] => i = j
    BY DEF Injective
  <1> DEFINE was(i) == IF i < k THEN i ELSE i + 1
  <1>2. DOMAIN new = 1 .. Len(s) - 1
    BY DEF Removed
  <1>3. \A i \in 1 .. Len(s) - 1 : was(i) \in 1 .. Len(s) /\ new[i] = s[was(i)]
    BY <1>1 DEF Removed
  <1>4. ASSUME NEW i \in 1 .. Len(s) - 1, NEW j \in 1 .. Len(s) - 1, new[i] = new[j]
        PROVE  i = j
    <2>1. was(i) = was(j)
      <3> HIDE DEF was
      <3> QED
        BY <1>1, <1>3, <1>4
    <2> QED
      BY <2>1, <1>1
  <1> QED
    BY <1>2, <1>4 DEF Injective

(* The places before and after it.                                         *)
LEMMA InsertedPlaces ==
  ASSUME NEW s \in Seq(Elem), NEW k \in 1 .. Len(s) + 1, NEW e \in Elem,
         NEW new, Inserted(s, new, k, e)
  PROVE  \A i \in 0 .. Len(s) + 2 :
           NodeAt(new, i) = IF i < k THEN NodeAt(s, i) ELSE IF i = k THEN e ELSE NodeAt(s, i - 1)
  <1>1. Len(s) \in Nat /\ Len(new) = Len(s) + 1 /\ k \in Nat
    BY DEF Inserted
  <1>2. \A i \in 1 .. Len(s) + 1 :
          new[i] = IF i < k THEN s[i] ELSE IF i = k THEN e ELSE s[i - 1]
    BY DEF Inserted
  <1>3. ASSUME NEW i \in 0 .. Len(s) + 2
        PROVE  NodeAt(new, i) = IF i < k THEN NodeAt(s, i) ELSE IF i = k THEN e ELSE NodeAt(s, i - 1)
    <2>1. CASE i \in 1 .. Len(s) + 1
      <3>1. NodeAt(new, i) = new[i]
        BY <2>1, <1>1 DEF NodeAt
      <3>2. i < k => NodeAt(s, i) = s[i]
        BY <2>1, <1>1 DEF NodeAt
      <3>3. ~ (i < k) /\ i # k => NodeAt(s, i - 1) = s[i - 1]
        BY <2>1, <1>1 DEF NodeAt
      <3> QED
        BY <2>1, <3>1, <3>2, <3>3, <1>2
    <2>2. CASE i = 0
      BY <2>2, <1>1 DEF NodeAt
    <2>3. CASE i = Len(s) + 2
      BY <2>3, <1>1 DEF NodeAt
    <2> QED
      BY <2>1, <2>2, <2>3, <1>1
  <1> QED
    BY <1>3

(* and around what was taken out. *)
LEMMA RemovedPlaces ==
  ASSUME NEW s \in Seq(Elem), NEW k \in 1 .. Len(s), NEW new, Removed(s, new, k)
  PROVE  \A i \in 0 .. Len(s) :
           NodeAt(new, i) = IF i < k THEN NodeAt(s, i) ELSE NodeAt(s, i + 1)
  <1>1. Len(s) \in Nat /\ Len(new) = Len(s) - 1 /\ k \in Nat
    BY DEF Removed
  <1>2. \A i \in 1 .. Len(s) - 1 : new[i] = IF i < k THEN s[i] ELSE s[i + 1]
    BY DEF Removed
  <1>3. ASSUME NEW i \in 0 .. Len(s)
        PROVE  NodeAt(new, i) = IF i < k THEN NodeAt(s, i) ELSE NodeAt(s, i + 1)
    <2>1. CASE i \in 1 .. Len(s) - 1
      <3>1. NodeAt(new, i) = new[i] /\ NodeAt(s, i) = s[i] /\ NodeAt(s, i + 1) = s[i + 1]
        BY <2>1, <1>1 DEF NodeAt
      <3> QED
        BY <2>1, <3>1, <1>2
    <2>2. CASE i = 0
      BY <2>2, <1>1 DEF NodeAt
    <2>3. CASE i = Len(s)
      BY <2>3, <1>1 DEF NodeAt
    <2> QED
      BY <2>1, <2>2, <2>3, <1>1
  <1> QED
    BY <1>3

-----------------------------------------------------------------------------
(* The links of an element put in, and those when one is taken out.        *)
LEMMA InsertedRing ==
  ASSUME NEW s \in Seq(Elem), Injective(s), NEW k \in 1 .. Len(s) + 1, NEW e \in Elem,
         \A i \in 1 .. Len(s) : s[i] # e, NEW new, Inserted(s, new, k, e),
         NEW nx, NEW pv, Ring(nx, pv, s), NEW nx1, NEW pv1,
         \A n \in Node : nx1[n] = IF n = NodeAt(s, k - 1) THEN e
                                  ELSE IF n = e THEN NodeAt(s, k) ELSE nx[n],
         \A n \in Node : pv1[n] = IF n = NodeAt(s, k) THEN e
                                  ELSE IF n = e THEN NodeAt(s, k - 1) ELSE pv[n]
  PROVE  Ring(nx1, pv1, new)
  <1>1. Len(s) \in Nat /\ k \in Nat /\ Len(new) = Len(s) + 1
    BY DEF Inserted
  <1>2. /\ \A i : NodeAt(s, i) \in Node
        /\ \A i, j \in 0 .. Len(s) : NodeAt(s, i) = NodeAt(s, j) => i = j
        /\ \A i, j \in 0 .. Len(s) : NodeAt(s, i + 1) = NodeAt(s, j + 1) => i = j
    BY NodeAtOK
  <1>3. e \in Node /\ \A i : NodeAt(s, i) # e
    BY ListAssumption DEF NodeAt, Node
  <1>4. \A i \in 0 .. Len(s) + 2 :
           NodeAt(new, i) = IF i < k THEN NodeAt(s, i) ELSE IF i = k THEN e ELSE NodeAt(s, i - 1)
    BY InsertedPlaces
  <1>5. \A i \in 0 .. Len(s) : nx[NodeAt(s, i)] = NodeAt(s, i + 1) /\ pv[NodeAt(s, i + 1)] = NodeAt(s, i)
    BY DEF Ring
  <1>6. ASSUME NEW i \in 0 .. Len(s) + 1
        PROVE  nx1[NodeAt(new, i)] = NodeAt(new, i + 1) /\ pv1[NodeAt(new, i + 1)] = NodeAt(new, i)
    <2>1. CASE i = k - 1
      <3>1. NodeAt(new, i) = NodeAt(s, k - 1) /\ NodeAt(new, i + 1) = e
        BY <2>1, <1>1, <1>4
      <3>2. pv1[e] = NodeAt(s, k - 1)
        BY <1>3
      <3> QED
        BY <3>1, <3>2, <1>2
    <2>2. CASE i = k
      <3>1. NodeAt(new, i) = e /\ NodeAt(new, i + 1) = NodeAt(s, k)
        BY <2>2, <1>1, <1>4
      <3> QED
        BY <3>1, <1>2, <1>3
    <2>3. CASE i < k - 1
      <3>1. NodeAt(new, i) = NodeAt(s, i) /\ NodeAt(new, i + 1) = NodeAt(s, i + 1)
        BY <2>3, <1>1, <1>4
      <3>2. i \in 0 .. Len(s) /\ k - 1 \in 0 .. Len(s) /\ i # k - 1
        BY <2>3, <1>1
      <3>3. NodeAt(s, i) # NodeAt(s, k - 1)
        BY <3>2, <1>2
      <3>4. NodeAt(s, i + 1) # NodeAt(s, (k - 1) + 1)
        BY <3>2, <1>2
      <3>5. NodeAt(s, i + 1) # NodeAt(s, k)
        BY <3>4, <1>1
      <3> QED
        BY <3>1, <3>2, <3>3, <3>5, <1>2, <1>3, <1>5
    <2>4. CASE i > k
      <3>1. NodeAt(new, i) = NodeAt(s, i - 1) /\ NodeAt(new, i + 1) = NodeAt(s, i)
        BY <2>4, <1>1, <1>4
      <3>2. i - 1 \in 0 .. Len(s) /\ k - 1 \in 0 .. Len(s) /\ i - 1 # k - 1
        BY <2>4, <1>1
      <3>3. NodeAt(s, i - 1) # NodeAt(s, k - 1)
        BY <3>2, <1>2
      <3>4. NodeAt(s, (i - 1) + 1) # NodeAt(s, (k - 1) + 1)
        BY <3>2, <1>2
      <3>5. (i - 1) + 1 = i /\ (k - 1) + 1 = k
        BY <1>1
      <3>6. nx[NodeAt(s, i - 1)] = NodeAt(s, i) /\ pv[NodeAt(s, i)] = NodeAt(s, i - 1)
        BY <3>2, <3>5, <1>5
      <3> QED
        BY <3>1, <3>3, <3>4, <3>5, <3>6, <1>2, <1>3
    <2> QED
      BY <2>1, <2>2, <2>3, <2>4, <1>1
  <1> QED
    BY <1>1, <1>6 DEF Ring

(* The links when one is taken out. *)
LEMMA RemovedRing ==
  ASSUME NEW s \in Seq(Elem), Injective(s), NEW k \in 1 .. Len(s), NEW new, Removed(s, new, k),
         NEW nx, NEW pv, Ring(nx, pv, s), NEW nx1, NEW pv1,
         \A n \in Node : nx1[n] = IF n = s[k] THEN Null
                                  ELSE IF n = NodeAt(s, k - 1) THEN NodeAt(s, k + 1) ELSE nx[n],
         \A n \in Node : pv1[n] = IF n = s[k] THEN Null
                                  ELSE IF n = NodeAt(s, k + 1) THEN NodeAt(s, k - 1) ELSE pv[n]
  PROVE  Ring(nx1, pv1, new)
  <1>1. Len(s) \in Nat /\ k \in Nat /\ Len(new) = Len(s) - 1
    BY DEF Removed
  <1>2. /\ \A i : NodeAt(s, i) \in Node
        /\ \A i, j \in 0 .. Len(s) : NodeAt(s, i) = NodeAt(s, j) => i = j
        /\ \A i, j \in 0 .. Len(s) : NodeAt(s, i + 1) = NodeAt(s, j + 1) => i = j
        /\ NodeAt(s, k) = s[k]
    BY NodeAtOK
  <1>3. \A i \in 0 .. Len(s) : NodeAt(new, i) = IF i < k THEN NodeAt(s, i) ELSE NodeAt(s, i + 1)
    BY RemovedPlaces
  <1>4. \A i \in 0 .. Len(s) : nx[NodeAt(s, i)] = NodeAt(s, i + 1) /\ pv[NodeAt(s, i + 1)] = NodeAt(s, i)
    BY DEF Ring
  <1>5. ASSUME NEW i \in 0 .. Len(s) - 1
        PROVE  nx1[NodeAt(new, i)] = NodeAt(new, i + 1) /\ pv1[NodeAt(new, i + 1)] = NodeAt(new, i)
    <2>1. CASE i = k - 1
      <3>1. NodeAt(new, i) = NodeAt(s, k - 1) /\ NodeAt(new, i + 1) = NodeAt(s, k + 1)
        BY <2>1, <1>1, <1>3
      <3>2. NodeAt(s, k - 1) # NodeAt(s, k)
        BY <1>1, <1>2
      <3>3. NodeAt(s, k + 1) # NodeAt(s, (k - 1) + 1)
        BY <1>1, <1>2
      <3>4. (k - 1) + 1 = k
        BY <1>1
      <3> QED
        BY <3>1, <3>2, <3>3, <3>4, <1>2
    <2>2. CASE i < k - 1
      <3>1. NodeAt(new, i) = NodeAt(s, i) /\ NodeAt(new, i + 1) = NodeAt(s, i + 1)
        BY <2>2, <1>1, <1>3
      <3>2. i \in 0 .. Len(s) /\ k - 1 \in 0 .. Len(s) /\ k \in 0 .. Len(s) /\ i # k - 1 /\ i # k
        BY <2>2, <1>1
      <3>3. NodeAt(s, i) # NodeAt(s, k - 1) /\ NodeAt(s, i) # NodeAt(s, k)
        BY <3>2, <1>2
      <3>4. NodeAt(s, i + 1) # NodeAt(s, (k - 1) + 1) /\ NodeAt(s, i + 1) # NodeAt(s, k + 1)
        BY <3>2, <1>2
      <3>5. (k - 1) + 1 = k
        BY <1>1
      <3> QED
        BY <3>1, <3>2, <3>3, <3>4, <3>5, <1>2, <1>4
    <2>3. CASE i >= k
      <3>1. NodeAt(new, i) = NodeAt(s, i + 1) /\ NodeAt(new, i + 1) = NodeAt(s, i + 2)
        BY <2>3, <1>1, <1>3
      <3>2. /\ i + 1 \in 0 .. Len(s) /\ k - 1 \in 0 .. Len(s) /\ k \in 0 .. Len(s)
            /\ i + 1 # k - 1 /\ i + 1 # k
        BY <2>3, <1>1
      <3>3. NodeAt(s, i + 1) # NodeAt(s, k - 1) /\ NodeAt(s, i + 1) # NodeAt(s, k)
        BY <3>2, <1>2
      <3>4. NodeAt(s, (i + 1) + 1) # NodeAt(s, (k - 1) + 1) /\ NodeAt(s, (i + 1) + 1) # NodeAt(s, k + 1)
        BY <3>2, <1>2
      <3>5. (k - 1) + 1 = k /\ (i + 1) + 1 = i + 2
        BY <1>1
      <3>6. nx[NodeAt(s, i + 1)] = NodeAt(s, i + 2) /\ pv[NodeAt(s, i + 2)] = NodeAt(s, i + 1)
        BY <3>2, <3>5, <1>4
      <3> QED
        BY <3>1, <3>3, <3>4, <3>5, <3>6, <1>2
    <2> QED
      BY <2>1, <2>2, <2>3, <1>1
  <1> QED
    BY <1>1, <1>5 DEF Ring

-----------------------------------------------------------------------------
(* What the invariant says of elements and places. *)
LEMMA ListIs ==
  ASSUME ListInv
  PROVE  /\ Len(list) \in Nat /\ num_members = Len(list)
         /\ next \in [Node -> Node \cup {Null}] /\ prev \in [Node -> Node \cup {Null}]
         /\ \A i \in 0 .. Len(list) : next[NodeAt(list, i)] = NodeAt(list, i + 1)
                                      /\ prev[NodeAt(list, i + 1)] = NodeAt(list, i)
         /\ \A i : NodeAt(list, i) \in Node /\ NodeAt(list, i) # Null
         /\ \A e \in Elem : e \in On <=> \E i \in 1 .. Len(list) : list[i] = e
         /\ \A e \in Elem : e \in On <=> next[e] # Null
  <1>1. list \in Seq(Elem) /\ Injective(list) /\ Ring(next, prev, list)
        /\ next \in [Node -> Node \cup {Null}] /\ prev \in [Node -> Node \cup {Null}]
        /\ num_members = Len(list)
    BY DEF ListInv, ListTypeOK
  <1>2. /\ Len(list) \in Nat
        /\ \A i : NodeAt(list, i) \in Node
        /\ \A i \in 1 .. Len(list) : NodeAt(list, i) = list[i]
        /\ DOMAIN list = 1 .. Len(list)
    BY <1>1, NodeAtOK
  <1>3. \A i : NodeAt(list, i) # Null
    BY <1>2, ListAssumption DEF Node
  <1>4. \A i \in 0 .. Len(list) : next[NodeAt(list, i)] = NodeAt(list, i + 1)
                                  /\ prev[NodeAt(list, i + 1)] = NodeAt(list, i)
    BY <1>1 DEF Ring
  <1>5. \A e : e \in On <=> \E i \in 1 .. Len(list) : list[i] = e
    BY <1>2 DEF On, ToSet
  <1>6. ASSUME NEW e \in Elem PROVE e \in On <=> next[e] # Null
    <2>1. ASSUME e \in On PROVE next[e] # Null
      <3>1. PICK i \in 1 .. Len(list) : list[i] = e
        BY <1>5, <2>1
      <3>2. i \in 0 .. Len(list) /\ NodeAt(list, i) = e
        BY <3>1, <1>2
      <3> QED
        BY <3>2, <1>3, <1>4
    <2>2. ASSUME e \notin On PROVE next[e] = Null
      BY <2>2, <1>5 DEF ListInv
    <2> QED
      BY <2>1, <2>2
  <1> QED
    BY <1>1, <1>2, <1>3, <1>4, <1>5, <1>6

(* An element on the list has one place. *)
LEMMA PlaceIs ==
  ASSUME ListInv, NEW n \in On
  PROVE  Place(n) \in 1 .. Len(list) /\ list[Place(n)] = n /\ NodeAt(list, Place(n)) = n
  <1>1. DOMAIN list = 1 .. Len(list) /\ \A i \in 1 .. Len(list) : NodeAt(list, i) = list[i]
    BY NodeAtOK DEF ListInv
  <1>2. \E i \in DOMAIN list : list[i] = n
    BY <1>1 DEF On, ToSet
  <1>3. Place(n) \in DOMAIN list /\ list[Place(n)] = n
    BY <1>2 DEF Place
  <1> QED
    BY <1>1, <1>3

(* An element put between two neighbours, at the place the sequence says.  *)
LEMMA InsertKeeps ==
  ASSUME ListInv, NEW e \in Elem, NEW o \in Item, next[e] = Null,
         NEW k \in 1 .. Len(list) + 1, Inserted(list, list', k, e),
         Between(e, o, NodeAt(list, k - 1), NodeAt(list, k)), fault' = fault
  PROVE  ListInv'
  <1>1. /\ list \in Seq(Elem) /\ Injective(list) /\ Ring(next, prev, list)
        /\ obj \in [Elem -> Item \cup {Null}] /\ fault \in BOOLEAN
        /\ \A x \in Elem : (\A i \in 1 .. Len(list) : list[i] # x) => next[x] = Null
    BY DEF ListInv, ListTypeOK
  <1>2. /\ Len(list) \in Nat /\ num_members = Len(list)
        /\ next \in [Node -> Node \cup {Null}] /\ prev \in [Node -> Node \cup {Null}]
        /\ \A i : NodeAt(list, i) \in Node /\ NodeAt(list, i) # Null
        /\ \A x \in Elem : x \in On <=> \E i \in 1 .. Len(list) : list[i] = x
        /\ \A x \in Elem : x \in On <=> next[x] # Null
    BY ListIs
  <1>3. \A i \in 1 .. Len(list) : list[i] # e
    BY <1>2
  <1>4. e \in Node /\ \A i : NodeAt(list, i) # e
    BY <1>3, ListAssumption DEF NodeAt, Node
  <1> DEFINE before == NodeAt(list, k - 1)
             after == NodeAt(list, k)
  <1>5. /\ next' = [next EXCEPT ![e] = after, ![before] = e]
        /\ prev' = [prev EXCEPT ![e] = before, ![after] = e]
        /\ obj' = [obj EXCEPT ![e] = o] /\ num_members' = num_members + 1
    BY DEF Between
  <1>6. before \in Node /\ after \in Node /\ before # e /\ after # e
    BY <1>2, <1>4
  <1> HIDE DEF before, after
  <1>7. /\ next' \in [Node -> Node \cup {Null}] /\ prev' \in [Node -> Node \cup {Null}]
        /\ obj' \in [Elem -> Item \cup {Null}]
    BY <1>1, <1>2, <1>4, <1>5, <1>6
  <1>8. /\ \A n \in Node : next'[n] = IF n = before THEN e ELSE IF n = e THEN after ELSE next[n]
        /\ \A n \in Node : prev'[n] = IF n = after THEN e ELSE IF n = e THEN before ELSE prev[n]
    BY <1>2, <1>5, <1>6
  <1>9. Ring(next', prev', list')
    BY <1>1, <1>3, <1>8, InsertedRing DEF before, after
  <1>10. list' \in Seq(Elem) /\ Len(list') = Len(list) + 1 /\ Injective(list')
    BY <1>1, <1>3, InsertedOnce DEF Inserted
  <1>11. ASSUME NEW x \in Elem, \A i \in 1 .. Len(list') : list'[i] # x
         PROVE  next'[x] = Null
    <2>1. /\ k \in 1 .. Len(list') /\ list'[k] = e
      BY <1>2, <1>10 DEF Inserted
    <2>2. x # e
      BY <2>1, <1>11
    <2>3. ASSUME NEW i \in 1 .. Len(list) PROVE list[i] # x
      <3> DEFINE j == IF i < k THEN i ELSE i + 1
      <3>1. j \in 1 .. Len(list')
        BY <1>2, <1>10
      <3>2. list'[j] = list[i]
        BY <1>2, <1>10 DEF Inserted
      <3> QED
        BY <3>1, <3>2, <1>11
    <2>4. x # before
      <3>1. x # anchor
        BY ListAssumption
      <3> QED
        BY <2>3, <3>1 DEF before, NodeAt
    <2>5. x \in Node
      BY DEF Node
    <2> QED
      BY <2>2, <2>3, <2>4, <2>5, <1>1, <1>8
  <1>12. num_members' \in Nat /\ num_members' = Len(list')
    BY <1>2, <1>5, <1>10
  <1> QED
    BY <1>1, <1>7, <1>9, <1>10, <1>11, <1>12 DEF ListInv, ListTypeOK, Ring, NodeAt, Injective

(* An element taken out. *)
LEMMA UnlinkKeeps ==
  ASSUME ListInv, NEW n, My402ListUnlink(n)
  PROVE  ListInv'
  <1> DEFINE k == Place(n)
             before == NodeAt(list, k - 1)
             after == NodeAt(list, k + 1)
  <1>1. /\ list \in Seq(Elem) /\ Injective(list) /\ Ring(next, prev, list)
        /\ obj \in [Elem -> Item \cup {Null}] /\ fault \in BOOLEAN
        /\ \A x \in Elem : (\A i \in 1 .. Len(list) : list[i] # x) => next[x] = Null
    BY DEF ListInv, ListTypeOK
  <1>2. /\ Len(list) \in Nat /\ num_members = Len(list)
        /\ next \in [Node -> Node \cup {Null}] /\ prev \in [Node -> Node \cup {Null}]
        /\ \A i \in 0 .. Len(list) : next[NodeAt(list, i)] = NodeAt(list, i + 1)
                                     /\ prev[NodeAt(list, i + 1)] = NodeAt(list, i)
        /\ \A i : NodeAt(list, i) \in Node /\ NodeAt(list, i) # Null
    BY ListIs
  <1>3. /\ k \in 1 .. Len(list) /\ list[k] = n /\ NodeAt(list, k) = n /\ n \in Elem /\ n \in Node
        /\ n # anchor
    BY <1>1, PlaceIs, ListAssumption DEF My402ListUnlink, Node
  <1>4. /\ next' = [next EXCEPT ![prev[n]] = next[n], ![n] = Null]
        /\ prev' = [prev EXCEPT ![next[n]] = prev[n], ![n] = Null]
        /\ obj' = [obj EXCEPT ![n] = Null]
        /\ num_members' = num_members - 1 /\ fault' = fault
        /\ list' = RemoveAt(list, k)
    BY DEF My402ListUnlink
  <1> HIDE DEF k
  <1>5. prev[n] = before /\ next[n] = after
    <2>1. k \in 0 .. Len(list) /\ k - 1 \in 0 .. Len(list) /\ (k - 1) + 1 = k
      BY <1>2, <1>3
    <2>2. prev[NodeAt(list, (k - 1) + 1)] = NodeAt(list, k - 1) /\ next[NodeAt(list, k)] = NodeAt(list, k + 1)
      BY <2>1, <1>2
    <2> QED
      BY <2>1, <2>2, <1>3
  <1>6. before \in Node /\ after \in Node
    BY <1>2
  <1> HIDE DEF before, after
  <1>7. /\ next' \in [Node -> Node \cup {Null}] /\ prev' \in [Node -> Node \cup {Null}]
        /\ obj' \in [Elem -> Item \cup {Null}]
    BY <1>1, <1>2, <1>3, <1>4, <1>5, <1>6
  <1>8. /\ \A x \in Node : next'[x] = IF x = n THEN Null ELSE IF x = before THEN after ELSE next[x]
        /\ \A x \in Node : prev'[x] = IF x = n THEN Null ELSE IF x = after THEN before ELSE prev[x]
    BY <1>2, <1>3, <1>4, <1>5, <1>6
  <1>9. Removed(list, list', k)
    BY <1>1, <1>3, <1>4, RemoveAtIs
  <1>10. Ring(next', prev', list')
    BY <1>1, <1>3, <1>8, <1>9, RemovedRing DEF before, after
  <1>11. list' \in Seq(Elem) /\ Len(list') = Len(list) - 1 /\ Injective(list')
    BY <1>1, <1>3, <1>9, RemovedOnce DEF Removed
  <1>12. ASSUME NEW x \in Elem, \A i \in 1 .. Len(list') : list'[i] # x
         PROVE  next'[x] = Null
    <2>1. x \in Node
      BY DEF Node
    <2>2. CASE x = n
      BY <2>1, <2>2, <1>8
    <2>3. CASE x # n
      <3>1. ASSUME NEW i \in 1 .. Len(list) PROVE list[i] # x
        <4>1. CASE i < k
          <5>1. i \in 1 .. Len(list') /\ list'[i] = list[i]
            BY <4>1, <1>2, <1>3, <1>9, <1>11 DEF Removed
          <5> QED
            BY <5>1, <1>12
        <4>2. CASE i = k
          BY <4>2, <2>3, <1>3
        <4>3. CASE i > k
          <5>1. i - 1 \in 1 .. Len(list') /\ list'[i - 1] = list[i]
            BY <4>3, <1>2, <1>3, <1>9, <1>11 DEF Removed
          <5> QED
            BY <5>1, <1>12
        <4> QED
          BY <4>1, <4>2, <4>3, <1>3
      <3>2. x # before
        <4>1. x # anchor
          BY ListAssumption
        <4> QED
          BY <3>1, <4>1 DEF before, NodeAt
      <3> QED
        BY <2>1, <2>3, <3>1, <3>2, <1>1, <1>8
    <2> QED
      BY <2>2, <2>3
  <1>13. num_members' \in Nat /\ num_members' = Len(list')
    <2>1. Len(list') \in Nat
      BY <1>11
    <2> QED
      BY <2>1, <1>2, <1>4, <1>11
  <1> QED
    BY <1>1, <1>4, <1>7, <1>10, <1>11, <1>12, <1>13 DEF ListInv, ListTypeOK, Ring, NodeAt, Injective

-----------------------------------------------------------------------------
(* Every operation of the list keeps the invariant. *)
LEMMA ListNextKeeps == ListInv /\ [ListNext]_listVars => ListInv'
  <1> SUFFICES ASSUME ListInv, [ListNext]_listVars PROVE ListInv'
    OBVIOUS
  <1>1. /\ list \in Seq(Elem) /\ Len(list) \in Nat /\ num_members = Len(list)
        /\ \A i \in 0 .. Len(list) : next[NodeAt(list, i)] = NodeAt(list, i + 1)
                                     /\ prev[NodeAt(list, i + 1)] = NodeAt(list, i)
        /\ NodeAt(list, 0) = anchor /\ NodeAt(list, Len(list) + 1) = anchor
    BY ListIs, NodeAtOK DEF ListInv
  <1>2. ASSUME NEW e \in Elem, NEW o \in Item, My402ListAppend(e, o) PROVE ListInv'
    <2> DEFINE k == Len(list) + 1
    <2>1. NodeAt(list, k - 1) = IF My402ListEmpty THEN anchor ELSE prev[anchor]
      <3>1. k - 1 = Len(list) /\ Len(list) \in 0 .. Len(list)
        BY <1>1
      <3> QED
        BY <3>1, <1>1 DEF My402ListEmpty
    <2>2. NodeAt(list, k) = anchor /\ k \in 1 .. Len(list) + 1
      BY <1>1
    <2>3. Inserted(list, list', k, e)
      BY <1>1, <1>2, AppendInserts DEF My402ListAppend
    <2> HIDE DEF k
    <2>4. Between(e, o, NodeAt(list, k - 1), NodeAt(list, k)) /\ next[e] = Null /\ fault' = fault
      BY <1>2, <2>1, <2>2 DEF My402ListAppend, Fresh
    <2> QED
      BY <2>2, <2>3, <2>4, InsertKeeps
  <1>3. ASSUME NEW e \in Elem, NEW o \in Item, My402ListPrepend(e, o) PROVE ListInv'
    <2>1. NodeAt(list, 1) = IF My402ListEmpty THEN anchor ELSE next[anchor]
      <3>1. 0 \in 0 .. Len(list) /\ 0 + 1 = 1
        BY <1>1
      <3>2. next[NodeAt(list, 0)] = NodeAt(list, 1)
        BY <3>1, <1>1
      <3> QED
        BY <3>2, <1>1 DEF My402ListEmpty
    <2>2. NodeAt(list, 1 - 1) = anchor /\ 1 \in 1 .. Len(list) + 1
      BY <1>1
    <2>3. Inserted(list, list', 1, e)
      BY <1>1, <1>3, AppendInserts DEF My402ListPrepend
    <2>4. Between(e, o, NodeAt(list, 1 - 1), NodeAt(list, 1)) /\ next[e] = Null /\ fault' = fault
      BY <1>3, <2>1, <2>2 DEF My402ListPrepend, Fresh
    <2> QED
      BY <2>2, <2>3, <2>4, InsertKeeps
  <1>4. ASSUME NEW e \in Elem, NEW o \in Item, NEW n \in Elem, My402ListInsertAfter(e, o, n)
        PROVE  ListInv'
    <2> DEFINE k == Place(n) + 1
    <2>1. n \in On /\ Place(n) \in 1 .. Len(list) /\ NodeAt(list, Place(n)) = n
      BY <1>4, PlaceIs DEF My402ListInsertAfter
    <2>2. k \in 1 .. Len(list) + 1 /\ NodeAt(list, k - 1) = n /\ NodeAt(list, k) = next[n]
      <3>1. k - 1 = Place(n) /\ Place(n) \in 0 .. Len(list) /\ k \in 1 .. Len(list) + 1
        BY <2>1, <1>1
      <3> QED
        BY <3>1, <2>1, <1>1
    <2>3. Inserted(list, list', k, e)
      BY <2>2, <1>1, <1>4, InsertAtIs DEF My402ListInsertAfter
    <2> HIDE DEF k
    <2>4. Between(e, o, NodeAt(list, k - 1), NodeAt(list, k)) /\ next[e] = Null /\ fault' = fault
      BY <1>4, <2>2 DEF My402ListInsertAfter, Fresh
    <2> QED
      BY <2>2, <2>3, <2>4, InsertKeeps
  <1>5. ASSUME NEW e \in Elem, NEW o \in Item, NEW n \in Elem, My402ListInsertBefore(e, o, n)
        PROVE  ListInv'
    <2> DEFINE k == Place(n)
    <2>1. n \in On /\ k \in 1 .. Len(list) /\ NodeAt(list, k) = n
      BY <1>5, PlaceIs DEF My402ListInsertBefore
    <2> HIDE DEF k
    <2>2. k \in 1 .. Len(list) + 1 /\ NodeAt(list, k - 1) = prev[n]
      <3>1. k - 1 \in 0 .. Len(list) /\ (k - 1) + 1 = k /\ k \in 1 .. Len(list) + 1
        BY <2>1, <1>1
      <3>2. prev[NodeAt(list, (k - 1) + 1)] = NodeAt(list, k - 1)
        BY <3>1, <1>1
      <3> QED
        BY <3>1, <3>2, <2>1
    <2>3. Inserted(list, list', k, e)
      <3>1. list' = InsertAt(list, k, e)
        BY <1>5 DEF My402ListInsertBefore, k
      <3> QED
        BY <3>1, <2>2, <1>1, InsertAtIs
    <2>4. Between(e, o, NodeAt(list, k - 1), NodeAt(list, k)) /\ next[e] = Null /\ fault' = fault
      BY <1>5, <2>1, <2>2 DEF My402ListInsertBefore, Fresh
    <2> QED
      BY <2>2, <2>3, <2>4, InsertKeeps
  <1>6. ASSUME My402ListUnlinkAll PROVE ListInv'
    <2>1. ListTypeOK /\ anchor \in Node
      BY DEF ListInv, Node
    <2>2. CASE My402ListFirst = Null
      <3>1. fault' = TRUE /\ UNCHANGED <<next, prev, obj, num_members, list>>
        BY <1>6, <2>2 DEF My402ListUnlinkAll, links
      <3> QED
        BY <3>1 DEF ListInv, ListTypeOK, Ring, NodeAt, Injective
    <2>3. CASE My402ListFirst # Null
      <3>1. /\ next' = [n \in Node |-> IF n = anchor THEN anchor ELSE Null]
            /\ prev' = next' /\ obj' = [e \in Elem |-> Null]
            /\ num_members' = 0 /\ list' = <<>> /\ fault' = fault
        BY <1>6, <2>3 DEF My402ListUnlinkAll
      <3>2. ListTypeOK'
        BY <3>1, <2>1 DEF ListTypeOK
      <3>3. list' \in Seq(Elem) /\ Len(list') = 0 /\ Injective(list')
        BY <3>1 DEF Injective
      <3>4. Ring(next', prev', list')
        BY <3>1, <3>3, <2>1 DEF Ring, NodeAt
      <3>5. \A e \in Elem : next'[e] = Null
        BY <3>1, ListAssumption DEF Node
      <3> QED
        BY <3>1, <3>2, <3>3, <3>4, <3>5 DEF ListInv, Ring, NodeAt, Injective
    <2> QED
      BY <2>2, <2>3
  <1>7. CASE UNCHANGED listVars
    BY <1>7 DEF listVars, links, ListInv, ListTypeOK, Ring, NodeAt, Injective
  <1> QED
    BY <1>2, <1>3, <1>4, <1>5, <1>6, <1>7, UnlinkKeeps DEF ListNext

(* A new list is an empty sequence. *)
LEMMA ListInitOK == ListInit => ListInv
  <1> SUFFICES ASSUME ListInit PROVE ListInv
    OBVIOUS
  <1>1. list = <<>> /\ Len(list) = 0 /\ list \in Seq(Elem) /\ Injective(list) /\ num_members = 0
    BY DEF ListInit, Injective
  <1>2. ListTypeOK
    BY DEF ListInit, ListTypeOK, Node
  <1>3. Ring(next, prev, list)
    BY <1>1 DEF ListInit, Ring, NodeAt, Node
  <1>4. \A e \in Elem : next[e] = Null
    BY ListAssumption DEF ListInit, Node
  <1> QED
    BY <1>1, <1>2, <1>3, <1>4 DEF ListInv

(* The first element from place i on that holds o.                         *)
HitsFrom(o, i) == {j \in i .. Len(list) : obj[list[j]] = o}
FirstFrom(o, i) == IF HitsFrom(o, i) = {} THEN Null ELSE list[Min(HitsFrom(o, i))]

(* The first from a place on is there, or is the first from the next on. *)
LEMMA FirstFromStep ==
  ASSUME ListInv, NEW o
  PROVE  /\ FirstFrom(o, Len(list) + 1) = Null
         /\ \A i \in 1 .. Len(list) :
              FirstFrom(o, i) = IF obj[list[i]] = o THEN list[i] ELSE FirstFrom(o, i + 1)
  <1>1. Len(list) \in Nat
    BY ListIs
  <1>2. HitsFrom(o, Len(list) + 1) = {}
    BY <1>1 DEF HitsFrom
  <1>3. ASSUME NEW i \in 1 .. Len(list), obj[list[i]] # o
        PROVE  HitsFrom(o, i) = HitsFrom(o, i + 1)
    BY <1>1, <1>3 DEF HitsFrom
  <1>4. ASSUME NEW i \in 1 .. Len(list), obj[list[i]] = o
        PROVE  HitsFrom(o, i) # {} /\ Min(HitsFrom(o, i)) = i
    <2>1. i \in HitsFrom(o, i) /\ \A j \in HitsFrom(o, i) : i <= j /\ j \in Nat
      BY <1>1, <1>4 DEF HitsFrom
    <2>2. HitsFrom(o, i) \in SUBSET Nat
      BY <2>1
    <2>3. \A j \in HitsFrom(o, i) : (\A h \in HitsFrom(o, i) : j <= h) => j = i
      BY <2>1
    <2> QED
      BY <2>1, <2>3 DEF Min
  <1> QED
    BY <1>2, <1>3, <1>4 DEF FirstFrom

(* The search, as the recursion of My402ListFind says it.                  *)
Searches(f, o) ==
  f = [e \in Node \cup {Null} |-> IF e = Null \/ obj[e] = o THEN e ELSE f[My402ListNext(e)]]

(* My402ListNext goes to the next place, and from the last to Null. *)
LEMMA NextIs ==
  ASSUME ListInv
  PROVE  /\ My402ListFirst = IF Len(list) = 0 THEN Null ELSE list[1]
         /\ My402ListNext(anchor) = IF Len(list) = 0 THEN Null ELSE list[1]
         /\ \A i \in 1 .. Len(list) :
              My402ListNext(list[i]) = IF i = Len(list) THEN Null ELSE list[i + 1]
         /\ \A e \in Elem \ On : My402ListNext(e) = Null
  <1>1. /\ Len(list) \in Nat /\ num_members = Len(list)
        /\ \A i \in 0 .. Len(list) : next[NodeAt(list, i)] = NodeAt(list, i + 1)
        /\ \A e \in Elem : e \in On <=> next[e] # Null
    BY ListIs
  <1>2. /\ NodeAt(list, 0) = anchor /\ NodeAt(list, Len(list) + 1) = anchor
        /\ \A i \in 1 .. Len(list) : NodeAt(list, i) = list[i] /\ list[i] # anchor
    BY NodeAtOK DEF ListInv
  <1>3. Len(list) # 0 => next[anchor] = list[1] /\ list[1] # anchor
    <2>1. 0 \in 0 .. Len(list) /\ 0 + 1 = 1 /\ (Len(list) # 0 => 1 \in 1 .. Len(list))
      BY <1>1
    <2>2. next[NodeAt(list, 0)] = NodeAt(list, 1)
      BY <2>1, <1>1
    <2> QED
      BY <2>1, <2>2, <1>2
  <1>4. ASSUME NEW i \in 1 .. Len(list)
        PROVE  My402ListNext(list[i]) = IF i = Len(list) THEN Null ELSE list[i + 1]
    <2>1. i \in 0 .. Len(list) /\ Len(list) # 0
      BY <1>1
    <2>2. next[list[i]] = NodeAt(list, i + 1)
      BY <2>1, <1>1, <1>2
    <2>3. i # Len(list) => NodeAt(list, i + 1) = list[i + 1] /\ list[i + 1] # anchor
      BY <1>1, <1>2
    <2> QED
      BY <2>1, <2>2, <2>3, <1>1, <1>2 DEF My402ListNext, My402ListEmpty
  <1>5. \A e \in Elem \ On : My402ListNext(e) = Null
    BY <1>1 DEF My402ListNext, My402ListEmpty
  <1> QED
    BY <1>1, <1>3, <1>4, <1>5 DEF My402ListFirst, My402ListNext, My402ListEmpty

(* There is such a search, though it follows pointers,                     *)
LEMMA SearchExists ==
  ASSUME ListInv, NEW o \in Item
  PROVE  \E f : Searches(f, o)
  <1> DEFINE rest(e) == IF e = anchor THEN FirstFrom(o, 1)
                        ELSE IF e \in On THEN FirstFrom(o, Place(e) + 1) ELSE Null
             f == [e \in Node \cup {Null} |-> IF e = Null \/ obj[e] = o THEN e ELSE rest(e)]
  <1>1. /\ Len(list) \in Nat
        /\ \A e \in Elem : e \in On <=> \E i \in 1 .. Len(list) : list[i] = e
    BY ListIs
  <1>2. \A i \in 1 .. Len(list) : list[i] \in Elem /\ list[i] # anchor /\ list[i] # Null
    BY NodeAtOK, ListAssumption DEF ListInv
  <1>3. \A i, j \in 1 .. Len(list) : list[i] = list[j] => i = j
    BY DEF ListInv, Injective
  <1>4. f[Null] = Null
    OBVIOUS
  <1>5. \A i \in 1 .. Len(list) : f[list[i]] = FirstFrom(o, i)
    <2> SUFFICES ASSUME NEW i \in 1 .. Len(list) PROVE f[list[i]] = FirstFrom(o, i)
      OBVIOUS
    <2>1. list[i] \in On /\ Place(list[i]) = i
      BY <1>1, <1>2, <1>3, PlaceIs
    <2>2. f[list[i]] = IF obj[list[i]] = o THEN list[i] ELSE FirstFrom(o, i + 1)
      BY <2>1, <1>2 DEF Node
    <2> HIDE DEF f
    <2> QED
      BY <2>2, FirstFromStep
  <1>6. ASSUME NEW e \in Node \cup {Null}, e # Null, obj[e] # o
        PROVE  f[My402ListNext(e)] = rest(e)
    <2>1. CASE e = anchor
      <3>1. Len(list) = 0 => FirstFrom(o, 1) = Null
        BY FirstFromStep, <1>1
      <3>2. Len(list) # 0 => 1 \in 1 .. Len(list)
        BY <1>1
      <3> HIDE DEF f
      <3> QED
        BY <2>1, <3>1, <3>2, <1>4, <1>5, NextIs
    <2>2. CASE e # anchor /\ e \in On
      <3> DEFINE i == Place(e)
      <3>1. i \in 1 .. Len(list) /\ list[i] = e
        BY <2>2, PlaceIs
      <3>2. My402ListNext(e) = IF i = Len(list) THEN Null ELSE list[i + 1]
        BY <3>1, NextIs
      <3>3. rest(e) = FirstFrom(o, i + 1)
        BY <2>2
      <3>4. i # Len(list) => i + 1 \in 1 .. Len(list)
        BY <3>1, <1>1
      <3> HIDE DEF f, rest, i
      <3> QED
        BY <3>1, <3>2, <3>3, <3>4, <1>4, <1>5, FirstFromStep
    <2>3. CASE e # anchor /\ e \notin On
      <3>1. e \in Elem \ On
        BY <2>3, <1>6 DEF Node
      <3>2. My402ListNext(e) = Null
        BY <3>1, NextIs
      <3>3. rest(e) = Null
        BY <2>3
      <3> HIDE DEF f, rest
      <3> QED
        BY <3>2, <3>3, <1>4
    <2> QED
      BY <2>1, <2>2, <2>3
  <1>7. f = [e \in Node \cup {Null} |-> IF e = Null \/ obj[e] = o THEN e ELSE f[My402ListNext(e)]]
    <2>1. \A e \in Node \cup {Null} :
            (IF e = Null \/ obj[e] = o THEN e ELSE rest(e))
            = (IF e = Null \/ obj[e] = o THEN e ELSE f[My402ListNext(e)])
      <3> HIDE DEF f, rest
      <3> QED
        BY <1>6
    <2>2. f = [e \in Node \cup {Null} |-> IF e = Null \/ obj[e] = o THEN e ELSE rest(e)]
      OBVIOUS
    <2> HIDE DEF f, rest
    <2> QED
      BY <2>1, <2>2
  <1> HIDE DEF f
  <1> QED
    BY <1>7 DEF Searches

(* and any such search finds what is first.                                *)
LEMMA SearchIs ==
  ASSUME ListInv, NEW o \in Item, NEW f, Searches(f, o)
  PROVE  f[My402ListFirst] = FirstFrom(o, 1)
  <1>1. Len(list) \in Nat
    BY ListIs
  <1>2. \A i \in 1 .. Len(list) : list[i] \in Elem /\ list[i] # Null
    BY NodeAtOK, ListAssumption DEF ListInv
  <1>3. \A e \in Node \cup {Null} :
          f[e] = IF e = Null \/ obj[e] = o THEN e ELSE f[My402ListNext(e)]
    BY DEF Searches
  <1>4. f[Null] = Null
    BY <1>3
  <1>5. \A i \in 1 .. Len(list) :
          f[list[i]] = IF obj[list[i]] = o THEN list[i]
                       ELSE IF i = Len(list) THEN Null ELSE f[list[i + 1]]
    BY <1>2, <1>3, <1>4, NextIs DEF Node
  <1> DEFINE wrong == {i \in 1 .. Len(list) : f[list[i]] # FirstFrom(o, i)}
  <1>6. ASSUME wrong # {} PROVE FALSE
    <2>1. wrong \in SUBSET Nat /\ \A i \in wrong : i <= Len(list)
      BY <1>1
    <2>2. PICK m \in wrong : \A i \in wrong : i <= m
      BY <1>1, <1>6, <2>1, GreatestNumber
    <2>3. m \in 1 .. Len(list) /\ f[list[m]] # FirstFrom(o, m)
      OBVIOUS
    <2>4. m # Len(list) => f[list[m + 1]] = FirstFrom(o, m + 1)
      BY <2>2, <2>3, <1>1
    <2> HIDE DEF wrong
    <2>5. f[list[m]] = IF obj[list[m]] = o THEN list[m]
                       ELSE IF m = Len(list) THEN Null ELSE FirstFrom(o, m + 1)
      BY <2>3, <2>4, <1>5
    <2>6. /\ FirstFrom(o, m) = IF obj[list[m]] = o THEN list[m] ELSE FirstFrom(o, m + 1)
          /\ m = Len(list) => FirstFrom(o, m + 1) = Null
      BY <2>3, FirstFromStep
    <2> QED
      BY <2>3, <2>5, <2>6
  <1>7. \A i \in 1 .. Len(list) : f[list[i]] = FirstFrom(o, i)
    BY <1>6
  <1>8. Len(list) = 0 => FirstFrom(o, 1) = Null
    BY <1>1, FirstFromStep
  <1>9. Len(list) # 0 => 1 \in 1 .. Len(list)
    BY <1>1
  <1> HIDE DEF wrong
  <1> QED
    BY <1>4, <1>7, <1>8, <1>9, NextIs

(* warmup1/my402list.c: forwards, backwards and by its count the list is   *)
(* the sequence its operations made, and My402ListFind finds the first that*)
(* holds the object.                                                       *)
THEOREM ListStandsForSequence == ListSpec => []StandsForSequence
  <1>1. ListInv => StandsForSequence
    <2> SUFFICES ASSUME ListInv PROVE StandsForSequence
      OBVIOUS
    <2>1. /\ \A i \in 0 .. Len(list) : next[NodeAt(list, i)] = NodeAt(list, i + 1)
                                       /\ prev[NodeAt(list, i + 1)] = NodeAt(list, i)
          /\ num_members = Len(list)
          /\ \A e \in Elem \ On : next[e] = Null
      BY ListIs
    <2>2. ASSUME NEW o \in Item PROVE My402ListFind(o) = FirstFrom(o, 1)
      <3> DEFINE from == CHOOSE f : f = [e \in Node \cup {Null} |->
                           IF e = Null \/ obj[e] = o THEN e ELSE f[My402ListNext(e)]]
      <3>1. \E f : f = [e \in Node \cup {Null} |->
                           IF e = Null \/ obj[e] = o THEN e ELSE f[My402ListNext(e)]]
        BY SearchExists DEF Searches
      <3>2. from = [e \in Node \cup {Null} |->
                      IF e = Null \/ obj[e] = o THEN e ELSE from[My402ListNext(e)]]
        BY <3>1, Zenon
      <3>3. My402ListFind(o) = from[My402ListFirst]
        BY Zenon DEF My402ListFind
      <3> HIDE DEF from
      <3>4. Searches(from, o)
        BY <3>2 DEF Searches
      <3> QED
        BY <3>3, <3>4, SearchIs
    <2>3. \A o \in Item : My402ListFind(o) =
            LET hits == {i \in 1 .. Len(list) : obj[list[i]] = o}
            IN IF hits = {} THEN Null ELSE list[Min(hits)]
      BY <2>2 DEF FirstFrom, HitsFrom
    <2> QED
      BY <2>1, <2>3 DEF StandsForSequence
  <1> QED
    BY <1>1, ListInitOK, ListNextKeeps, PTL DEF ListSpec

-----------------------------------------------------------------------------
(* How far a number is from next_pid, the way the scan goes. *)
Ahead(p) == IF p >= next_pid THEN p - next_pid ELSE p - next_pid + PROC_MAX_COUNT

(* The remainder of what is not far from a divisor. *)
LEMMA Wraps ==
  ASSUME NEW n \in Nat \ {0}, NEW a \in Int, 0 - n <= a, a <= n
  PROVE  a % n = IF a < 0 THEN a + n ELSE IF a < n THEN a ELSE 0
  OBVIOUS

(* It is a remainder, it differs from number to number, and a step adds one. *)
LEMMA AheadIs ==
  ASSUME next_pid \in Pid
  PROVE  /\ \A p \in Pid : /\ Ahead(p) \in Nat /\ Ahead(p) < PROC_MAX_COUNT
                           /\ (p - next_pid) % PROC_MAX_COUNT = Ahead(p)
                           /\ (p + 1) % PROC_MAX_COUNT \in Pid
                           /\ (p + 1) % PROC_MAX_COUNT = next_pid
                                => Ahead(p) = PROC_MAX_COUNT - 1
                           /\ (p + 1) % PROC_MAX_COUNT # next_pid
                                => Ahead((p + 1) % PROC_MAX_COUNT) = Ahead(p) + 1
         /\ \A p, q \in Pid : Ahead(p) = Ahead(q) => p = q
         /\ Ahead(next_pid) = 0
  <1>1. PROC_MAX_COUNT \in Nat \ {0} /\ next_pid \in Nat /\ next_pid < PROC_MAX_COUNT
    BY PidsAssumption DEF Pid
  <1>2. ASSUME NEW p \in Pid
        PROVE  /\ (p - next_pid) % PROC_MAX_COUNT = Ahead(p)
               /\ (p + 1) % PROC_MAX_COUNT = IF p + 1 < PROC_MAX_COUNT THEN p + 1 ELSE 0
    <2>1. p \in Nat /\ p < PROC_MAX_COUNT
      BY <1>1 DEF Pid
    <2>2. /\ p - next_pid \in Int /\ 0 - PROC_MAX_COUNT <= p - next_pid
          /\ p - next_pid <= PROC_MAX_COUNT /\ p - next_pid < PROC_MAX_COUNT
          /\ p - next_pid < 0 <=> ~ (p >= next_pid)
      BY <1>1, <2>1
    <2>3. /\ p + 1 \in Int /\ 0 - PROC_MAX_COUNT <= p + 1 /\ ~ (p + 1 < 0)
          /\ p + 1 <= PROC_MAX_COUNT
      BY <1>1, <2>1
    <2>4. (p - next_pid) % PROC_MAX_COUNT = Ahead(p)
      BY <1>1, <2>2, Wraps DEF Ahead
    <2>5. (p + 1) % PROC_MAX_COUNT = IF p + 1 < PROC_MAX_COUNT THEN p + 1 ELSE 0
      BY <1>1, <2>1, <2>3, Wraps
    <2> QED
      BY <2>4, <2>5
  <1>3. \A p \in Pid : p \in Nat /\ p < PROC_MAX_COUNT
    BY <1>1 DEF Pid
  <1>4. \A p : p \in Nat /\ p < PROC_MAX_COUNT => p \in Pid
    BY <1>1 DEF Pid
  <1>5. ASSUME NEW p \in Pid
        PROVE  /\ Ahead(p) \in Nat /\ Ahead(p) < PROC_MAX_COUNT
               /\ (p + 1) % PROC_MAX_COUNT \in Pid
               /\ (p + 1) % PROC_MAX_COUNT = next_pid => Ahead(p) = PROC_MAX_COUNT - 1
               /\ (p + 1) % PROC_MAX_COUNT # next_pid
                    => Ahead((p + 1) % PROC_MAX_COUNT) = Ahead(p) + 1
    <2> DEFINE after == (p + 1) % PROC_MAX_COUNT
    <2>1. after = IF p + 1 < PROC_MAX_COUNT THEN p + 1 ELSE 0
      BY <1>2
    <2> HIDE DEF after
    <2>2. after \in Pid
      BY <1>1, <1>3, <1>4, <2>1
    <2>3. Ahead(p) \in Nat /\ Ahead(p) < PROC_MAX_COUNT
      BY <1>1, <1>3 DEF Ahead
    <2>4. after = next_pid => Ahead(p) = PROC_MAX_COUNT - 1
      BY <1>1, <1>3, <2>1 DEF Ahead
    <2>5. after # next_pid => Ahead(after) = Ahead(p) + 1
      BY <1>1, <1>3, <2>1 DEF Ahead
    <2> QED
      BY <2>2, <2>3, <2>4, <2>5 DEF after
  <1>6. \A p, q \in Pid : Ahead(p) = Ahead(q) => p = q
    BY <1>1, <1>3 DEF Ahead
  <1>7. Ahead(next_pid) = 0
    BY <1>1 DEF Ahead
  <1> QED
    BY <1>2, <1>5, <1>6, <1>7

(* The scan, as the recursion of _proc_getid says it. *)
Scans(f) ==
  f = [pid \in Pid |->
         IF pid \notin Taken THEN pid
         ELSE IF (pid + 1) % PROC_MAX_COUNT = next_pid THEN -1
         ELSE f[(pid + 1) % PROC_MAX_COUNT]]

(* What is free from number p on, up to where the scan began.              *)
FreeFrom(p) == {q \in Pid \ Taken : Ahead(p) <= Ahead(q)}
Nearest(S)  == CHOOSE q \in S : \A r \in S : Ahead(q) <= Ahead(r)

(* What is free from a number on is it, if it is free, and what is free from the next on. *)
LEMMA FreeFromStep ==
  ASSUME next_pid \in Pid, NEW p \in Pid
  PROVE  /\ p \notin Taken => p \in FreeFrom(p) /\ Nearest(FreeFrom(p)) = p
         /\ p \in Taken =>
              FreeFrom(p) = IF (p + 1) % PROC_MAX_COUNT = next_pid THEN {}
                            ELSE FreeFrom((p + 1) % PROC_MAX_COUNT)
  <1>1. /\ \A q \in Pid : Ahead(q) \in Nat /\ Ahead(q) < PROC_MAX_COUNT
        /\ \A q, r \in Pid : Ahead(q) = Ahead(r) => q = r
        /\ PROC_MAX_COUNT \in Nat
    BY AheadIs, PidsAssumption
  <1>2. ASSUME p \notin Taken PROVE p \in FreeFrom(p) /\ Nearest(FreeFrom(p)) = p
    <2>1. p \in FreeFrom(p) /\ \A q \in FreeFrom(p) : q \in Pid /\ Ahead(p) <= Ahead(q)
      BY <1>1, <1>2 DEF FreeFrom
    <2>2. \A q \in FreeFrom(p) : (\A r \in FreeFrom(p) : Ahead(q) <= Ahead(r)) => q = p
      BY <1>1, <2>1
    <2> QED
      BY <2>1, <2>2 DEF Nearest
  <1>3. ASSUME p \in Taken
        PROVE  FreeFrom(p) = IF (p + 1) % PROC_MAX_COUNT = next_pid THEN {}
                             ELSE FreeFrom((p + 1) % PROC_MAX_COUNT)
    <2> DEFINE after == (p + 1) % PROC_MAX_COUNT
    <2>1. /\ after = next_pid => Ahead(p) = PROC_MAX_COUNT - 1
          /\ after # next_pid => after \in Pid /\ Ahead(after) = Ahead(p) + 1
      BY AheadIs
    <2> HIDE DEF after
    <2>2. \A q \in Pid \ Taken : Ahead(p) <= Ahead(q) => Ahead(p) < Ahead(q)
      BY <1>1, <1>3
    <2>3. CASE after = next_pid
      BY <1>1, <2>1, <2>2, <2>3 DEF FreeFrom, after
    <2>4. CASE after # next_pid
      <3>1. \A q \in Pid \ Taken : Ahead(p) <= Ahead(q) <=> Ahead(after) <= Ahead(q)
        BY <1>1, <2>1, <2>2, <2>4
      <3> QED
        BY <2>4, <3>1 DEF FreeFrom, after
    <2> QED
      BY <2>3, <2>4
  <1> QED
    BY <1>2, <1>3

(* There is such a scan, though it goes in a circle,                       *)
LEMMA ScanExists ==
  ASSUME next_pid \in Pid
  PROVE  \E f : Scans(f)
  <1> DEFINE least(p) == IF FreeFrom(p) = {} THEN -1 ELSE Nearest(FreeFrom(p))
             f == [pid \in Pid |-> least(pid)]
  <1>1. ASSUME NEW p \in Pid
        PROVE  least(p) = IF p \notin Taken THEN p
                          ELSE IF (p + 1) % PROC_MAX_COUNT = next_pid THEN -1
                          ELSE least((p + 1) % PROC_MAX_COUNT)
    BY FreeFromStep
  <1>2. \A p \in Pid : (p + 1) % PROC_MAX_COUNT \in Pid
    BY AheadIs
  <1> HIDE DEF least
  <1>3. f = [pid \in Pid |->
               IF pid \notin Taken THEN pid
               ELSE IF (pid + 1) % PROC_MAX_COUNT = next_pid THEN -1
               ELSE f[(pid + 1) % PROC_MAX_COUNT]]
    BY <1>1, <1>2
  <1> HIDE DEF f
  <1> QED
    BY <1>3 DEF Scans

(* and any such scan finds the nearest free number, or -1 if there is none.*)
LEMMA ScanIs ==
  ASSUME next_pid \in Pid, NEW f, Scans(f)
  PROVE  f[next_pid] = IF FreeFrom(next_pid) = {} THEN -1 ELSE Nearest(FreeFrom(next_pid))
  <1> DEFINE least(p) == IF FreeFrom(p) = {} THEN -1 ELSE Nearest(FreeFrom(p))
             wrong == {n \in Nat : \E p \in Pid : n = Ahead(p) /\ f[p] # least(p)}
  <1>1. /\ \A q \in Pid : Ahead(q) \in Nat /\ Ahead(q) < PROC_MAX_COUNT
        /\ PROC_MAX_COUNT \in Nat
    BY AheadIs, PidsAssumption
  <1>2. ASSUME wrong # {} PROVE FALSE
    <2>1. wrong \in SUBSET Nat /\ \A n \in wrong : n <= PROC_MAX_COUNT
      BY <1>1
    <2>2. PICK m \in wrong : \A n \in wrong : n <= m
      BY <1>1, <1>2, <2>1, GreatestNumber
    <2>3. PICK p \in Pid : m = Ahead(p) /\ f[p] # least(p)
      OBVIOUS
    <2> DEFINE after == (p + 1) % PROC_MAX_COUNT
    <2>4. f[p] = IF p \notin Taken THEN p ELSE IF after = next_pid THEN -1 ELSE f[after]
      BY DEF Scans
    <2>5. least(p) = IF p \notin Taken THEN p
                     ELSE IF after = next_pid THEN -1 ELSE least(after)
      BY FreeFromStep
    <2>6. after \in Pid /\ (after # next_pid => Ahead(after) = Ahead(p) + 1)
      BY AheadIs
    <2>7. after # next_pid => f[after] = least(after)
      <3> HIDE DEF least, after
      <3> QED
        BY <1>1, <2>2, <2>3, <2>6
    <2> HIDE DEF least, wrong, after
    <2> QED
      BY <2>3, <2>4, <2>5, <2>7
  <1>3. f[next_pid] = least(next_pid)
    <2> HIDE DEF least
    <2> QED
      BY <1>1, <1>2
  <1> QED
    BY <1>3

(* _proc_getid finds that. *)
LEMMA GetidIs ==
  ASSUME next_pid \in Pid
  PROVE  \/ _proc_getid = -1 /\ Pid \subseteq Taken
         \/ /\ _proc_getid \in Pid \ Taken
            /\ \A p \in Pid : Ahead(p) < Ahead(_proc_getid) => p \in Taken
  <1> DEFINE scan == CHOOSE f : f =
               [pid \in Pid |->
                  IF pid \notin Taken THEN pid
                  ELSE IF (pid + 1) % PROC_MAX_COUNT = next_pid THEN -1
                  ELSE f[(pid + 1) % PROC_MAX_COUNT]]
  <1>1. Scans(scan)
    <2>1. \E f : f = [pid \in Pid |->
                        IF pid \notin Taken THEN pid
                        ELSE IF (pid + 1) % PROC_MAX_COUNT = next_pid THEN -1
                        ELSE f[(pid + 1) % PROC_MAX_COUNT]]
      BY ScanExists DEF Scans
    <2>2. scan = [pid \in Pid |->
                    IF pid \notin Taken THEN pid
                    ELSE IF (pid + 1) % PROC_MAX_COUNT = next_pid THEN -1
                    ELSE scan[(pid + 1) % PROC_MAX_COUNT]]
      BY <2>1, Zenon
    <2> HIDE DEF scan
    <2> QED
      BY <2>2 DEF Scans
  <1>2. _proc_getid = scan[next_pid]
    BY Zenon DEF _proc_getid
  <1> HIDE DEF scan
  <1> DEFINE S == FreeFrom(next_pid)
  <1>3. _proc_getid = IF S = {} THEN -1 ELSE Nearest(S)
    BY <1>1, <1>2, ScanIs
  <1>4. \A q : q \in S <=> q \in Pid \ Taken
    BY AheadIs DEF FreeFrom
  <1>5. CASE S = {}
    BY <1>3, <1>4, <1>5
  <1>6. CASE S # {}
    <2> DEFINE turns == {Ahead(q) : q \in S}
    <2>1. turns \in SUBSET Nat /\ turns # {}
      BY <1>4, <1>6, AheadIs
    <2>2. PICK m \in turns : \A n \in turns : m <= n
      BY <2>1, LeastNumber
    <2>3. PICK q \in S : m = Ahead(q)
      OBVIOUS
    <2>4. \A r \in S : Ahead(q) <= Ahead(r)
      BY <2>2, <2>3
    <2>5. Nearest(S) \in S /\ \A r \in S : Ahead(Nearest(S)) <= Ahead(r)
      BY <2>3, <2>4 DEF Nearest
    <2> HIDE DEF S
    <2>6. _proc_getid = Nearest(S)
      BY <1>3, <1>6
    <2>7. \A p \in Pid : Ahead(p) < Ahead(_proc_getid) => p \in Taken
      <3>1. Ahead(_proc_getid) \in Nat /\ \A p \in Pid : Ahead(p) \in Nat
        BY <2>5, <2>6, <1>4, AheadIs
      <3> QED
        BY <3>1, <2>5, <2>6, <1>4
    <2> QED
      BY <2>5, <2>6, <2>7, <1>4
  <1> QED
    BY <1>5, <1>6

-----------------------------------------------------------------------------
PidsInv == PidsTypeOK /\ PidsDiffer

(* What one creation does to the numbers. *)
LEMMA CreateIs ==
  ASSUME PidsInv, NEW s \in Slot, proc_create(s)
  PROVE  /\ p_pid[s] = Absent /\ p_pid'[s] \in Pid \cup {-1}
         /\ \A t \in Slot : t # s => p_pid'[t] = p_pid[t]
         /\ IF p_pid'[s] = -1 THEN Pid \subseteq Taken
            ELSE /\ p_pid'[s] \notin Taken
                 /\ \A p \in Pid : Ahead(p) < Ahead(p_pid'[s]) => p \in Taken
         /\ p_pid' \in [Slot -> Pid \cup {-1, Absent}] /\ next_pid' \in Pid
  <1>1. next_pid \in Pid /\ p_pid \in [Slot -> Pid \cup {-1, Absent}]
    BY DEF PidsInv, PidsTypeOK
  <1>2. -1 \notin Pid
    BY PidsAssumption DEF Pid
  <1> DEFINE pid == _proc_getid
  <1>3. /\ p_pid[s] = Absent /\ p_pid' = [p_pid EXCEPT ![s] = pid]
        /\ next_pid' = IF pid = -1 THEN next_pid ELSE (pid + 1) % PROC_MAX_COUNT
    BY DEF proc_create
  <1>4. \/ pid = -1 /\ Pid \subseteq Taken
        \/ /\ pid \in Pid \ Taken
           /\ \A p \in Pid : Ahead(p) < Ahead(pid) => p \in Taken
    BY <1>1, GetidIs
  <1> HIDE DEF pid
  <1>5. p_pid'[s] = pid /\ \A t \in Slot : t # s => p_pid'[t] = p_pid[t]
    BY <1>1, <1>3
  <1>6. p_pid' \in [Slot -> Pid \cup {-1, Absent}]
    BY <1>1, <1>3, <1>4
  <1>7. next_pid' \in Pid
    BY <1>1, <1>3, <1>4, AheadIs
  <1> QED
    BY <1>2, <1>3, <1>4, <1>5, <1>6, <1>7

(* Every step keeps the numbers apart. *)
LEMMA PidsNextKeeps == PidsInv /\ [PidsNext]_pidVars => PidsInv'
  <1> SUFFICES ASSUME PidsInv, [PidsNext]_pidVars PROVE PidsInv'
    OBVIOUS
  <1>1. PidsTypeOK /\ PidsDiffer
    BY DEF PidsInv
  <1>2. ASSUME NEW s \in Slot, proc_create(s) PROVE PidsInv'
    <2>1. PidsTypeOK'
      BY <1>2, CreateIs DEF PidsTypeOK
    <2>2. ASSUME NEW t \in Slot, NEW u \in Slot, t # u, p_pid'[t] # Absent, p_pid'[t] = p_pid'[u]
          PROVE  p_pid'[t] = -1
      <3>1. /\ \A x \in Slot : x # s => p_pid'[x] = p_pid[x]
            /\ p_pid'[s] # -1 => p_pid'[s] \notin Taken
        BY <1>2, CreateIs
      <3>2. \A x \in Slot : p_pid[x] \in Taken
        BY DEF Taken
      <3>3. CASE t = s \/ u = s
        BY <3>1, <3>2, <3>3, <2>2
      <3>4. CASE t # s /\ u # s
        BY <3>1, <3>4, <2>2, <1>1 DEF PidsDiffer
      <3> QED
        BY <3>3, <3>4
    <2> QED
      BY <2>1, <2>2 DEF PidsInv, PidsDiffer
  <1>3. ASSUME NEW s \in Slot, Reaped(s) PROVE PidsInv'
    <2>1. /\ p_pid' = [p_pid EXCEPT ![s] = Absent] /\ next_pid' = next_pid
          /\ p_pid \in [Slot -> Pid \cup {-1, Absent}] /\ next_pid \in Pid
      BY <1>1, <1>3 DEF Reaped, PidsTypeOK
    <2>2. PidsTypeOK'
      BY <2>1 DEF PidsTypeOK
    <2>3. \A t \in Slot : p_pid'[t] = IF t = s THEN Absent ELSE p_pid[t]
      BY <2>1
    <2> QED
      BY <2>2, <2>3, <1>1 DEF PidsInv, PidsDiffer
  <1>4. CASE UNCHANGED pidVars
    BY <1>1, <1>4 DEF pidVars, PidsInv, PidsTypeOK, PidsDiffer
  <1> QED
    BY <1>2, <1>3, <1>4 DEF PidsNext

(* At first there are no numbers. *)
LEMMA PidsInitOK == PidsInit => PidsInv
  BY PidsAssumption DEF PidsInit, PidsInv, PidsTypeOK, PidsDiffer, Pid

(* Every step gives numbers in turn.                                       *)
LEMMA GivenInTurn ==
  ASSUME PidsInv, [PidsNext]_pidVars
  PROVE  InTurn
  <1> SUFFICES ASSUME NEW s \in Slot, p_pid[s] = Absent, p_pid'[s] # Absent
               PROVE  IF p_pid'[s] = -1 THEN Pid \subseteq Taken
                      ELSE \A p \in Pid : (p - next_pid) % PROC_MAX_COUNT
                             < (p_pid'[s] - next_pid) % PROC_MAX_COUNT => p \in Taken
    BY DEF InTurn
  <1>1. next_pid \in Pid /\ p_pid \in [Slot -> Pid \cup {-1, Absent}]
    BY DEF PidsInv, PidsTypeOK
  <1>2. PICK t \in Slot : proc_create(t)
    <2>1. ~ UNCHANGED pidVars
      BY DEF pidVars
    <2>2. \A t \in Slot : ~ Reaped(t)
      BY <1>1 DEF Reaped
    <2> QED
      BY <2>1, <2>2 DEF PidsNext
  <1>3. t = s
    BY <1>2, CreateIs
  <1>4. /\ p_pid'[s] \in Pid \cup {-1}
        /\ IF p_pid'[s] = -1 THEN Pid \subseteq Taken
           ELSE \A p \in Pid : Ahead(p) < Ahead(p_pid'[s]) => p \in Taken
    BY <1>2, <1>3, CreateIs
  <1>5. \A p \in Pid : (p - next_pid) % PROC_MAX_COUNT = Ahead(p)
    BY <1>1, AheadIs
  <1> QED
    BY <1>4, <1>5

(* proc/proc.c: no two processes share a number, for any number of         *)
(* processes, of numbers and of times they wrap, but -1; and _proc_getid   *)
(* skips only numbers that are taken.                                      *)
THEOREM NumbersAreUnique == PidsSpec => NumbersOK
  <1>1. PidsInv' => PidsDiffer'
    BY DEF PidsInv
  <1>2. PidsInv /\ [PidsNext]_pidVars => [PidsDiffer' /\ InTurn]_pidVars
    BY <1>1, PidsNextKeeps, GivenInTurn
  <1> QED
    BY <1>2, PidsInitOK, PidsNextKeeps, PTL DEF PidsSpec, NumbersOK
=============================================================================
