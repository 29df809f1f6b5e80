----------------------------- MODULE SchedProofs -----------------------------
(***************************************************************************)
(* Every queue operation of sched.c keeps the link structure of threads    *)
(* and queues consistent.  The lemmas speak of the operators of Sched      *)
(* alone, so that the proofs about each module that EXTENDS it can cite    *)
(* them.                                                                   *)
(***************************************************************************)
EXTENDS Sched, SeqLemmas

(* Types and consistency of the queues and the threads linked on them. *)
QueueOK ==
  /\ tq \in [Queue -> Seq(Thread)]
  /\ kt_wchan \in [Thread -> Queue \cup {NULL}]
  /\ kt_state \in [Thread -> ThreadState]
  /\ kt_cancelled \in [Thread -> BOOLEAN]
  /\ LinksOK
  /\ StatesOK

(* LinksOK in terms of the lemmas on sequences. *)
LinksOf(q) == /\ Injective(tq[q])
              /\ \A t \in Thread : t \in ToSet(tq[q]) <=> kt_wchan[t] = q

LEMMA LinksPerQueue == LinksOK <=> \A q \in Queue : LinksOf(q)
  BY DEF LinksOK, LinksOf, Injective

LEMMA LinksPerQueuePrime == LinksOK' <=> \A q \in Queue : LinksOf(q)'
  BY DEF LinksOK, LinksOf, Injective

(* ktqueue_enqueue of a thread that is on no queue. *)
LEMMA EnqueueKeepsLinks ==
  ASSUME QueueOK, NEW q \in Queue, NEW t \in Thread, NEW s \in ThreadState,
         kt_wchan[t] = NULL,
         IF q = kt_runq THEN s = "KT_RUN" ELSE s \in SleepState,
         EnqueueAs(q, t, s),
         kt_cancelled' \in [Thread -> BOOLEAN],
         \A u \in Thread : u # t => kt_cancelled'[u] = kt_cancelled[u],
         s = "KT_SLEEP_CANCELLABLE" => ~kt_cancelled'[t]
  PROVE  QueueOK'
  <1> USE SchedAssumption
  <1>1. /\ tq \in [Queue -> Seq(Thread)]
        /\ kt_wchan \in [Thread -> Queue \cup {NULL}]
        /\ kt_state \in [Thread -> ThreadState]
        /\ \A r \in Queue : LinksOf(r)
    BY LinksPerQueue DEF QueueOK
  <1>2. /\ tq' = [tq EXCEPT ![q] = Append(@, t)]
        /\ kt_wchan' = [kt_wchan EXCEPT ![t] = q]
        /\ kt_state' = [kt_state EXCEPT ![t] = s]
    BY DEF EnqueueAs
  <1>3. NULL \notin Queue
    BY DEF Queue
  <1>4. /\ Append(tq[q], t) \in Seq(Thread)
        /\ ToSet(Append(tq[q], t)) = ToSet(tq[q]) \cup {t}
        /\ Injective(Append(tq[q], t))
    BY <1>1, <1>3, AppendQueue DEF LinksOf
  <1>5. /\ tq' \in [Queue -> Seq(Thread)]
        /\ kt_wchan' \in [Thread -> Queue \cup {NULL}]
        /\ kt_state' \in [Thread -> ThreadState]
    BY <1>1, <1>2, <1>4
  <1>6. ASSUME NEW r \in Queue PROVE LinksOf(r)'
    <2>1. CASE r = q
      BY <2>1, <1>1, <1>2, <1>4 DEF LinksOf
    <2>2. CASE r # q
      BY <2>2, <1>1, <1>2, <1>3 DEF LinksOf
    <2> QED
      BY <2>1, <2>2
  <1>7. StatesOK'
    BY <1>1, <1>2 DEF QueueOK, StatesOK, Queue, SleepState
  <1> QED
    BY <1>5, <1>6, <1>7, LinksPerQueuePrime DEF QueueOK

(* The same when no thread is cancelled or created. *)
LEMMA EnqueueKeepsQueues ==
  ASSUME QueueOK, NEW q \in Queue, NEW t \in Thread, NEW s \in ThreadState,
         kt_wchan[t] = NULL,
         IF q = kt_runq THEN s = "KT_RUN" ELSE s \in SleepState,
         s = "KT_SLEEP_CANCELLABLE" => ~kt_cancelled[t],
         EnqueueAs(q, t, s), UNCHANGED kt_cancelled
  PROVE  QueueOK'
  <1>1. kt_cancelled' \in [Thread -> BOOLEAN]
    BY DEF QueueOK
  <1> QED
    BY <1>1, EnqueueKeepsLinks

(* A thread that is on no queue changes state, and is cancelled perhaps.   *)
LEMMA ChangeOffQueue ==
  ASSUME QueueOK, NEW t \in Thread, kt_wchan[t] = NULL,
         NEW s \in ThreadState \ SleepState,
         kt_state' = [kt_state EXCEPT ![t] = s],
         UNCHANGED <<tq, kt_wchan>>,
         kt_cancelled' \in [Thread -> BOOLEAN],
         \A u \in Thread : u # t => kt_cancelled'[u] = kt_cancelled[u]
  PROVE  QueueOK'
  <1>1. kt_state' \in [Thread -> ThreadState]
    BY DEF QueueOK, ThreadState
  <1>2. LinksOK'
    BY DEF QueueOK, LinksOK
  <1>3. StatesOK'
    BY SchedAssumption DEF QueueOK, StatesOK, Queue, SleepState
  <1> QED
    BY <1>1, <1>2, <1>3 DEF QueueOK

(* A thread that exits while it is on no queue. *)
LEMMA StateOffQueue ==
  ASSUME QueueOK, NEW t \in Thread, kt_wchan[t] = NULL,
         kt_state' = [kt_state EXCEPT ![t] = "KT_EXITED"],
         UNCHANGED <<tq, kt_wchan, kt_cancelled>>
  PROVE  QueueOK'
  <1>1. kt_cancelled' \in [Thread -> BOOLEAN]
    BY DEF QueueOK
  <1>2. "KT_EXITED" \in ThreadState \ SleepState
    BY DEF ThreadState, SleepState
  <1> QED
    BY <1>1, <1>2, ChangeOffQueue

(* A thread t leaves queue q and becomes runnable: what sched_wakeup_on    *)
(* and sched_cancel have in common.  rest is what remains of q.            *)
LEMMA MoveKeepsQueues ==
  ASSUME QueueOK, NEW q \in WaitQ, NEW t \in Thread, NEW rest \in Seq(Thread),
         kt_wchan[t] = q,
         ToSet(rest) = ToSet(tq[q]) \ {t}, Injective(rest),
         tq' = [tq EXCEPT ![q] = rest, ![kt_runq] = Append(@, t)],
         kt_wchan' = [kt_wchan EXCEPT ![t] = kt_runq],
         kt_state' = [kt_state EXCEPT ![t] = "KT_RUN"],
         kt_cancelled' \in [Thread -> BOOLEAN],
         \A u \in Thread : u # t => kt_cancelled'[u] = kt_cancelled[u]
  PROVE  QueueOK'
  <1> USE SchedAssumption
  <1>1. /\ tq \in [Queue -> Seq(Thread)]
        /\ kt_wchan \in [Thread -> Queue \cup {NULL}]
        /\ kt_state \in [Thread -> ThreadState]
        /\ \A r \in Queue : LinksOf(r)
    BY LinksPerQueue DEF QueueOK
  <1>2. q \in Queue /\ kt_runq \in Queue /\ q # kt_runq
    BY DEF Queue
  <1>3. /\ Append(tq[kt_runq], t) \in Seq(Thread)
        /\ ToSet(Append(tq[kt_runq], t)) = ToSet(tq[kt_runq]) \cup {t}
        /\ Injective(Append(tq[kt_runq], t))
    BY <1>1, <1>2, AppendQueue DEF LinksOf
  <1>4. /\ tq'[q] = rest
        /\ tq'[kt_runq] = Append(tq[kt_runq], t)
        /\ \A r \in Queue \ {q, kt_runq} : tq'[r] = tq[r]
        /\ tq' \in [Queue -> Seq(Thread)]
    BY <1>1, <1>2, <1>3
  <1>5. /\ kt_wchan' \in [Thread -> Queue \cup {NULL}]
        /\ kt_state' \in [Thread -> ThreadState]
    BY <1>1, <1>2 DEF ThreadState
  <1>6. ASSUME NEW r \in Queue PROVE LinksOf(r)'
    <2>1. CASE r = q
      BY <2>1, <1>1, <1>2, <1>4 DEF LinksOf
    <2>2. CASE r = kt_runq
      BY <2>2, <1>1, <1>2, <1>3, <1>4 DEF LinksOf
    <2>3. CASE r \notin {q, kt_runq}
      BY <2>3, <1>1, <1>2, <1>4 DEF LinksOf
    <2> QED
      BY <2>1, <2>2, <2>3
  <1>7. StatesOK'
    BY <1>1, <1>2 DEF QueueOK, StatesOK, Queue
  <1> QED
    BY <1>4, <1>5, <1>6, <1>7, LinksPerQueuePrime DEF QueueOK

(* The head of a wait queue is linked on it. *)
LEMMA HeadIsLinked ==
  ASSUME QueueOK, NEW q \in Queue, tq[q] # <<>>
  PROVE  /\ Head(tq[q]) \in Thread
         /\ kt_wchan[Head(tq[q])] = q
         /\ Tail(tq[q]) \in Seq(Thread)
         /\ ToSet(Tail(tq[q])) = ToSet(tq[q]) \ {Head(tq[q])}
         /\ Injective(Tail(tq[q]))
  <1>1. tq[q] \in Seq(Thread) /\ LinksOf(q)
    BY LinksPerQueue DEF QueueOK
  <1> QED
    BY <1>1, TailQueue DEF LinksOf

LEMMA WakeupKeepsQueues ==
  ASSUME QueueOK, NEW q \in WaitQ, sched_wakeup_on(q)
  PROVE  QueueOK'
  <1>1. tq[q] # <<>> /\ q \in Queue
    BY DEF sched_wakeup_on, Queue
  <1> QED
    BY <1>1, HeadIsLinked, MoveKeepsQueues DEF sched_wakeup_on, QueueOK

LEMMA CancelKeepsQueues ==
  ASSUME QueueOK, NEW t \in Thread, sched_cancel(t)
  PROVE  QueueOK'
  <1>0. kt_cancelled' \in [Thread -> BOOLEAN]
    BY DEF QueueOK, sched_cancel
  <1>1. CASE kt_state[t] = "KT_SLEEP_CANCELLABLE"
    <2> DEFINE q == kt_wchan[t]
               rest == RemoveFirst(tq[q], t)
    <2>1. q \in WaitQ /\ q \in Queue
      BY <1>1 DEF QueueOK, StatesOK, Queue
    <2>2. tq[q] \in Seq(Thread) /\ t \in ToSet(tq[q]) /\ Injective(tq[q])
      BY <2>1, LinksPerQueue DEF QueueOK, LinksOf
    <2>3. /\ rest \in Seq(Thread)
          /\ ToSet(rest) = ToSet(tq[q]) \ {t}
          /\ Injective(rest)
      BY <2>2, RemoveQueue
    <2>4. /\ tq' = [tq EXCEPT ![q] = rest, ![kt_runq] = Append(@, t)]
          /\ kt_wchan' = [kt_wchan EXCEPT ![t] = kt_runq]
          /\ kt_state' = [kt_state EXCEPT ![t] = "KT_RUN"]
          /\ \A u \in Thread : u # t => kt_cancelled'[u] = kt_cancelled[u]
      BY <1>1 DEF sched_cancel, QueueOK
    <2> HIDE DEF rest
    <2> QED
      BY <1>0, <2>1, <2>3, <2>4, MoveKeepsQueues
  <1>2. CASE kt_state[t] # "KT_SLEEP_CANCELLABLE"
    <2>1. UNCHANGED <<tq, kt_wchan, kt_state>>
      BY <1>2 DEF sched_cancel, queueVars
    <2>2. LinksOK'
      BY <2>1 DEF QueueOK, LinksOK
    <2>3. StatesOK'
      BY <1>2, <2>1 DEF QueueOK, StatesOK, sched_cancel
    <2> QED
      BY <1>0, <2>1, <2>2, <2>3 DEF QueueOK
  <1> QED
    BY <1>1, <1>2

LEMMA SwitchKeepsQueues ==
  ASSUME QueueOK, sched_switch
  PROVE  QueueOK'
  <1> USE SchedAssumption
  <1> DEFINE t == Head(tq[kt_runq])
  <1>1. /\ tq \in [Queue -> Seq(Thread)]
        /\ kt_wchan \in [Thread -> Queue \cup {NULL}]
        /\ kt_state \in [Thread -> ThreadState]
        /\ \A r \in Queue : LinksOf(r)
    BY LinksPerQueue DEF QueueOK
  <1>2. kt_runq \in Queue /\ NULL \notin Queue /\ tq[kt_runq] # <<>>
    BY DEF Queue, sched_switch
  <1>3. /\ t \in Thread
        /\ kt_wchan[t] = kt_runq
        /\ Tail(tq[kt_runq]) \in Seq(Thread)
        /\ ToSet(Tail(tq[kt_runq])) = ToSet(tq[kt_runq]) \ {t}
        /\ Injective(Tail(tq[kt_runq]))
    BY <1>2, HeadIsLinked
  <1>4. /\ tq' = [tq EXCEPT ![kt_runq] = Tail(@)]
        /\ kt_wchan' = [kt_wchan EXCEPT ![t] = NULL]
        /\ kt_state' = [kt_state EXCEPT ![t] = "KT_RUN"]
        /\ kt_cancelled' = kt_cancelled
    BY DEF sched_switch
  <1> HIDE DEF t
  <1>5. /\ tq' \in [Queue -> Seq(Thread)]
        /\ kt_wchan' \in [Thread -> Queue \cup {NULL}]
        /\ kt_state' \in [Thread -> ThreadState]
    BY <1>1, <1>3, <1>4 DEF ThreadState
  <1>6. ASSUME NEW r \in Queue PROVE LinksOf(r)'
    <2>1. CASE r = kt_runq
      BY <2>1, <1>1, <1>2, <1>3, <1>4 DEF LinksOf
    <2>2. CASE r # kt_runq
      BY <2>2, <1>1, <1>2, <1>3, <1>4 DEF LinksOf
    <2> QED
      BY <2>1, <2>2
  <1>7. StatesOK'
    BY <1>1, <1>2, <1>3, <1>4 DEF QueueOK, StatesOK, Queue
  <1> QED
    BY <1>4, <1>5, <1>6, <1>7, LinksPerQueuePrime DEF QueueOK

LEMMA BroadcastKeepsQueues ==
  ASSUME QueueOK, NEW q \in WaitQ, sched_broadcast_on(q)
  PROVE  QueueOK'
  <1> USE SchedAssumption
  <1> DEFINE woken == ToSet(tq[q])
  <1>1. /\ tq \in [Queue -> Seq(Thread)]
        /\ kt_wchan \in [Thread -> Queue \cup {NULL}]
        /\ kt_state \in [Thread -> ThreadState]
        /\ \A r \in Queue : LinksOf(r)
    BY LinksPerQueue DEF QueueOK
  <1>2. q \in Queue /\ kt_runq \in Queue /\ q # kt_runq
    BY DEF Queue
  <1>3. /\ tq' = [tq EXCEPT ![q] = <<>>, ![kt_runq] = @ \o tq[q]]
        /\ kt_wchan' = [t \in Thread |->
                          IF t \in woken THEN kt_runq ELSE kt_wchan[t]]
        /\ kt_state' = [t \in Thread |->
                          IF t \in woken THEN "KT_RUN" ELSE kt_state[t]]
        /\ kt_cancelled' = kt_cancelled
    BY DEF sched_broadcast_on
  <1>4. \A t \in Thread : t \in woken <=> kt_wchan[t] = q
    BY <1>1, <1>2 DEF LinksOf
  <1>5. woken \subseteq Thread
    BY <1>1, <1>2, MemberNonEmpty
  <1> DEFINE both == tq[kt_runq] \o tq[q]
  <1>6. /\ both \in Seq(Thread)
        /\ ToSet(both) = ToSet(tq[kt_runq]) \cup woken
        /\ Injective(both)
    <2>1. tq[kt_runq] \in Seq(Thread) /\ tq[q] \in Seq(Thread)
      BY <1>1, <1>2
    <2>2. ToSet(tq[kt_runq]) \subseteq Thread
      BY <2>1, MemberNonEmpty
    <2>3. ToSet(tq[kt_runq]) \cap woken = {}
      BY <1>1, <1>2, <1>4, <2>2 DEF LinksOf
    <2> QED
      BY <2>1, <2>3, <1>1, <1>2, ConcatQueue DEF LinksOf
  <1>7. /\ tq'[q] = <<>>
        /\ tq'[kt_runq] = both
        /\ \A r \in Queue \ {q, kt_runq} : tq'[r] = tq[r]
        /\ tq' \in [Queue -> Seq(Thread)]
    <2>1. tq' = [tq EXCEPT ![q] = <<>>, ![kt_runq] = both]
      BY <1>2, <1>3
    <2>2. <<>> \in Seq(Thread)
      BY EmptySeq
    <2> HIDE DEF both
    <2> QED
      BY <2>1, <2>2, <1>1, <1>2, <1>6
  <1> HIDE DEF woken, both
  <1>8. /\ kt_wchan' \in [Thread -> Queue \cup {NULL}]
        /\ kt_state' \in [Thread -> ThreadState]
    BY <1>1, <1>2, <1>3 DEF ThreadState
  <1>9. ASSUME NEW r \in Queue PROVE LinksOf(r)'
    <2>1. CASE r = q
      BY <2>1, <1>2, <1>3, <1>4, <1>7, EmptyQueue DEF LinksOf
    <2>2. CASE r = kt_runq
      BY <2>2, <1>1, <1>2, <1>3, <1>4, <1>6, <1>7 DEF LinksOf
    <2>3. CASE r \notin {q, kt_runq}
      BY <2>3, <1>1, <1>2, <1>3, <1>4, <1>7 DEF LinksOf
    <2> QED
      BY <2>1, <2>2, <2>3
  <1>10. StatesOK'
    BY <1>1, <1>2, <1>3 DEF QueueOK, StatesOK, Queue
  <1> QED
    BY <1>3, <1>7, <1>8, <1>9, <1>10, LinksPerQueuePrime DEF QueueOK
=============================================================================
