---------------------------- MODULE KMutexProofs ----------------------------
(***************************************************************************)
(* Kernel mutexes exclude, for any number of threads, mutexes and queues   *)
(* and with cancellation: IInv is an inductive invariant of KMutex.  One   *)
(* lemma per way a thread can change the state; the queues themselves are  *)
(* left to SchedProofs.                                                    *)
(***************************************************************************)
EXTENDS KMutex, SchedProofs

USE SchedAssumption, MutexAssumption

(* The part of TypeOK that QueueOK does not have. *)
OtherTypesOK ==
  /\ p_state \in [Thread -> ProcState]
  /\ curthr \in Thread
  /\ switching \in BOOLEAN
  /\ panic \in BOOLEAN
  /\ km_holder \in [Mutex -> Thread \cup {NULL}]
  /\ frame \in [Thread -> Frame]
  /\ locks \in [Thread -> SUBSET Mutex]

(* IInv with its queue part as SchedProofs has it. *)
LEMMA IInvParts ==
  IInv <=> /\ QueueOK /\ OtherTypesOK
           /\ Created(curthr) /\ NeverStranded
           /\ FramesMatch /\ Granted /\ MutualExclusion /\ NoForgottenWaiter
  BY DEF IInv, TypeOK, SchedTypeOK, QueueOK, OtherTypesOK

LEMMA IInvPartsPrime ==
  IInv' <=> /\ QueueOK' /\ OtherTypesOK'
            /\ Created(curthr)' /\ NeverStranded'
            /\ FramesMatch' /\ Granted' /\ MutualExclusion' /\ NoForgottenWaiter'
  BY DEF IInv, TypeOK, SchedTypeOK, QueueOK, OtherTypesOK

(* The current thread is on no queue while it runs. *)
LEMMA RunningUnlinked ==
  ASSUME IInv, NEW t \in Thread, Running(t)
  PROVE  t = curthr /\ kt_wchan[t] = NULL /\ Created(t)
  BY DEF IInv, NeverStranded, Running, Created

LEMMA IInvInit == Init => IInv
  <1> SUFFICES ASSUME Init PROVE IInv
    OBVIOUS
  <1>1. /\ tq \in [Queue -> Seq(Thread)]
        /\ \A q \in Queue : LinksOf(q)
    BY EmptySeq, EmptyQueue DEF Init, LinksOf, Queue
  <1>2. TypeOK
    BY <1>1 DEF Init, TypeOK, SchedTypeOK, ThreadState, ProcState, Frame
  <1>3. StatesOK
    BY DEF Init, StatesOK, Queue
  <1>4. Created(curthr) /\ NeverStranded
    BY DEF Init, Created, NeverStranded
  <1>5. FramesMatch /\ Granted /\ MutualExclusion /\ NoForgottenWaiter
    BY DEF Init, FramesMatch, Granted, MutualExclusion, NoForgottenWaiter,
           NoCall, MutexCall, Queue
  <1> QED
    BY <1>1, <1>2, <1>3, <1>4, <1>5, LinksPerQueue DEF IInv

-----------------------------------------------------------------------------
(* A thread takes a free mutex. *)
LEMMA TakeKeeps ==
  ASSUME IInv, NEW t \in Thread, NEW m \in Mutex,
         Calls(t), km_holder[m] = NULL, Take(t, m)
  PROVE  IInv'
  <1>1. UNCHANGED <<tq, kt_wchan, kt_state, kt_cancelled, p_state, curthr,
                    switching, panic, frame>>
    BY DEF Take, schedVars
  <1>2. QueueOK' /\ FramesMatch' /\ Created(curthr)' /\ NeverStranded'
    BY <1>1 DEF IInv, QueueOK, TypeOK, SchedTypeOK, LinksOK, StatesOK,
                FramesMatch, Created, NeverStranded
  <1>3. OtherTypesOK'
    BY <1>1 DEF IInv, TypeOK, SchedTypeOK, OtherTypesOK, Take
  <1>4. Granted' /\ MutualExclusion' /\ NoForgottenWaiter'
    BY <1>1 DEF IInv, TypeOK, Take, Granted, MutualExclusion,
                NoForgottenWaiter, MutexCall
  <1> QED
    BY <1>2, <1>3, <1>4, IInvPartsPrime

(* A KASSERT fails. *)
LEMMA AssertKeeps ==
  ASSUME IInv, NEW t \in Thread, NEW m \in Mutex, LockAssert(t, m)
  PROVE  IInv'
  <1>1. /\ UNCHANGED <<tq, kt_wchan, kt_state, kt_cancelled, p_state, curthr,
                       switching, km_holder, frame, locks>>
        /\ panic' = TRUE
    BY DEF LockAssert, AssertFails, queueVars
  <1> QED
    BY <1>1 DEF IInv, TypeOK, SchedTypeOK, LinksOK, StatesOK, Created,
                NeverStranded, FramesMatch, Granted, MutualExclusion,
                NoForgottenWaiter

(* The current thread goes to sleep on queue q inside the call fn. *)
LEMMA SleepKeeps ==
  ASSUME IInv, NEW t \in Thread, NEW q \in WaitQ, NEW s \in SleepState, NEW fn,
         Calls(t), [fn |-> fn, q |-> q] \in Frame,
         s = "KT_SLEEP_CANCELLABLE" =>
           ~kt_cancelled[t] /\ Cancellable([fn |-> fn, q |-> q]),
         q \in Mutex => km_holder[q] # NULL,
         SleepAs(q, s), Enter(t, fn, q), UNCHANGED <<km_holder, locks>>
  PROVE  IInv'
  <1>1. t = curthr /\ kt_wchan[t] = NULL /\ Created(t) /\ frame[t] = NoCall
    BY RunningUnlinked DEF Calls
  <1>2. /\ q \in Queue /\ q # kt_runq /\ q # NULL /\ s \in ThreadState
        /\ NULL \notin Queue
    BY DEF Queue, ThreadState
  <1>3. /\ tq' = [tq EXCEPT ![q] = Append(@, t)]
        /\ kt_wchan' = [kt_wchan EXCEPT ![t] = q]
        /\ kt_state' = [kt_state EXCEPT ![t] = s]
        /\ switching' = TRUE
        /\ panic' = FALSE
        /\ UNCHANGED <<kt_cancelled, p_state, curthr>>
    BY <1>1 DEF SleepAs, EnqueueAs
  <1>4. frame' = [frame EXCEPT ![t] = [fn |-> fn, q |-> q]]
    BY DEF Enter
  <1>5. QueueOK'
    BY <1>1, <1>2, <1>3, IInvParts, EnqueueKeepsQueues DEF SleepAs
  <1>6. OtherTypesOK'
    BY <1>3, <1>4 DEF IInv, TypeOK, SchedTypeOK, OtherTypesOK
  <1>7. Created(curthr)' /\ NeverStranded'
    BY <1>1, <1>2, <1>3 DEF IInv, TypeOK, SchedTypeOK, Created, NeverStranded,
                            SleepState, Calls, Running
  <1>8. FramesMatch'
    BY <1>1, <1>2, <1>3, <1>4 DEF IInv, TypeOK, SchedTypeOK, FramesMatch
  <1>9. Granted' /\ MutualExclusion'
    BY <1>1, <1>2, <1>3, <1>4 DEF IInv, TypeOK, SchedTypeOK, Granted,
                                  MutualExclusion
  <1>10. NoForgottenWaiter'
    BY <1>2, <1>3 DEF IInv, TypeOK, SchedTypeOK, NoForgottenWaiter, Queue
  <1> QED
    BY <1>5, <1>6, <1>7, <1>8, <1>9, <1>10, IInvPartsPrime

(* A sleep of the current thread is refused or was cut short. *)
LEMMA CancelledKeeps ==
  ASSUME IInv, NEW t \in Thread, Running(t),
         SleepCancelled, Leave(t) \/ UNCHANGED frame,
         UNCHANGED <<km_holder, locks>>
  PROVE  IInv'
  <1>1. t = curthr /\ kt_wchan[t] = NULL /\ Created(t)
    BY RunningUnlinked
  <1>2. /\ kt_state' = [kt_state EXCEPT ![t] = "KT_EXITED"]
        /\ p_state' = [p_state EXCEPT ![t] = "PROC_DEAD"]
        /\ UNCHANGED <<tq, kt_wchan, kt_cancelled, curthr, switching, panic>>
    BY <1>1 DEF SleepCancelled
  <1>3. QueueOK'
    BY <1>1, <1>2, IInvParts, StateOffQueue
  <1>4. /\ frame' \in [Thread -> Frame]
        /\ \A u \in Thread \ {t} : frame'[u] = frame[u]
        /\ frame'[t] = frame[t] \/ frame'[t] = NoCall
    BY DEF Leave, IInv, TypeOK, Frame
  <1>5. OtherTypesOK'
    BY <1>2, <1>4 DEF IInv, TypeOK, SchedTypeOK, OtherTypesOK, ProcState
  <1>6. Created(curthr)' /\ NeverStranded'
    BY <1>1, <1>2 DEF IInv, TypeOK, SchedTypeOK, Created, NeverStranded
  <1>7. FramesMatch'
    BY <1>1, <1>2, <1>4 DEF IInv, TypeOK, SchedTypeOK, FramesMatch
  <1>8. Granted'
    BY <1>1, <1>2, <1>4 DEF IInv, Granted, MutexCall, NoCall
  <1>9. MutualExclusion' /\ NoForgottenWaiter'
    BY <1>2 DEF IInv, MutualExclusion, NoForgottenWaiter
  <1> QED
    BY <1>3, <1>5, <1>6, <1>7, <1>8, <1>9, IInvPartsPrime

(* A thread on no queue becomes runnable: a new one or one that yields.    *)
LEMMA MakeRunnableKeeps ==
  ASSUME IInv, NEW t \in Thread, kt_wchan[t] = NULL,
         sched_make_runnable(t),
         \/ t = curthr /\ switching' = TRUE
         \/ t # curthr /\ switching' = switching,
         p_state' \in [Thread -> ProcState],
         UNCHANGED <<kt_cancelled, curthr, km_holder, frame, locks>>
  PROVE  IInv'
  <1>1. /\ tq' = [tq EXCEPT ![kt_runq] = Append(@, t)]
        /\ kt_wchan' = [kt_wchan EXCEPT ![t] = kt_runq]
        /\ kt_state' = [kt_state EXCEPT ![t] = "KT_RUN"]
        /\ panic' \in BOOLEAN
    BY DEF sched_make_runnable, EnqueueAs
  <1>2. kt_runq \in Queue /\ NULL \notin Queue /\ kt_runq \notin WaitQ
    BY DEF Queue
  <1>3. QueueOK'
    BY <1>2, IInvParts, EnqueueKeepsQueues DEF sched_make_runnable, ThreadState
  <1>4. OtherTypesOK'
    BY <1>1 DEF IInv, TypeOK, SchedTypeOK, OtherTypesOK
  <1>5. Created(curthr)' /\ NeverStranded'
    BY <1>1, <1>2 DEF IInv, TypeOK, SchedTypeOK, Created, NeverStranded
  <1>6. FramesMatch'
    BY <1>1, <1>2 DEF IInv, TypeOK, SchedTypeOK, FramesMatch
  <1>7. Granted'
    <2>1. ASSUME NEW u \in Thread, frame[u] \in MutexCall
          PROVE  frame[u].q \in Mutex
      BY <2>1 DEF MutexCall
    <2> QED
      BY <1>1, <1>2, <2>1 DEF IInv, TypeOK, SchedTypeOK, Granted
  <1>8. MutualExclusion' /\ NoForgottenWaiter'
    BY <1>1, <1>2 DEF IInv, TypeOK, SchedTypeOK, MutualExclusion,
                      NoForgottenWaiter
  <1> QED
    BY <1>3, <1>4, <1>5, <1>6, <1>7, <1>8, IInvPartsPrime

(* A call in which a thread slept returns success. *)
LEMMA ReturnKeeps ==
  ASSUME IInv, NEW t \in Thread, Return(t)
  PROVE  IInv'
  <1>1. t = curthr /\ kt_wchan[t] = NULL
    BY RunningUnlinked DEF Return
  <1>2. /\ locks' = [locks EXCEPT ![t] = @ \cup ({frame[t].q} \cap Mutex)]
        /\ frame' = [frame EXCEPT ![t] = NoCall]
        /\ ~(Cancellable(frame[t]) /\ kt_cancelled[t])
        /\ frame[t] # NoCall
        /\ UNCHANGED <<tq, kt_wchan, kt_state, kt_cancelled, p_state, curthr,
                       switching, panic, km_holder>>
    BY DEF Return, Leave, schedVars
  <1>3. QueueOK' /\ Created(curthr)' /\ NeverStranded' /\ NoForgottenWaiter'
    BY <1>2 DEF IInv, QueueOK, TypeOK, SchedTypeOK, LinksOK, StatesOK, Created,
                NeverStranded, NoForgottenWaiter
  <1>4. OtherTypesOK'
    BY <1>2 DEF IInv, TypeOK, SchedTypeOK, OtherTypesOK, Frame
  <1>5. FramesMatch' /\ Granted'
    BY <1>1, <1>2 DEF IInv, TypeOK, FramesMatch, Granted, NoCall, MutexCall
  <1>6. MutualExclusion'
    <2>1. ASSUME frame[t].q \in Mutex
          PROVE  km_holder[frame[t].q] = t
      <3>1. frame[t] \in MutexCall
        BY <2>1, <1>2 DEF IInv, TypeOK, Frame, SleepCall
      <3>2. kt_wchan[t] # frame[t].q
        BY <2>1, <1>1
      <3> QED
        BY <3>1, <3>2, <1>2 DEF IInv, Granted
    <2> QED
      BY <2>1, <1>2 DEF IInv, TypeOK, MutualExclusion
  <1> QED
    BY <1>3, <1>4, <1>5, <1>6, IInvPartsPrime

(* The holder unlocks a mutex, with or without somebody to hand it to.     *)
LEMMA UnlockKeeps ==
  ASSUME IInv, NEW t \in Thread, NEW m \in Mutex, kmutex_unlock(t, m)
  PROVE  IInv'
  <1>1. /\ frame[t] = NoCall
        /\ km_holder[m] = t
        /\ locks' = [locks EXCEPT ![t] = @ \ {m}]
        /\ UNCHANGED frame
    BY DEF kmutex_unlock, Calls
  <1>2. \A u \in Thread : u # t => m \notin locks[u]
    BY <1>1 DEF IInv, MutualExclusion
  <1>3. \A u \in Thread : frame[u] \in MutexCall => frame[u] # NoCall
    BY DEF MutexCall, NoCall
  <1>4. CASE tq[m] = <<>> /\ km_holder' = [km_holder EXCEPT ![m] = NULL]
             /\ UNCHANGED schedVars
    <2>1. UNCHANGED <<tq, kt_wchan, kt_state, kt_cancelled, p_state, curthr,
                      switching, panic>>
      BY <1>4 DEF schedVars
    <2>2. QueueOK' /\ Created(curthr)' /\ NeverStranded' /\ FramesMatch'
      BY <2>1, <1>1 DEF IInv, QueueOK, TypeOK, SchedTypeOK, LinksOK, StatesOK,
                        Created, NeverStranded, FramesMatch
    <2>3. OtherTypesOK'
      BY <1>1, <1>4, <2>1 DEF IInv, TypeOK, SchedTypeOK, OtherTypesOK
    <2>4. MutualExclusion' /\ NoForgottenWaiter'
      BY <1>1, <1>2, <1>4, <2>1 DEF IInv, TypeOK, MutualExclusion,
                                    NoForgottenWaiter
    <2>5. Granted'
      BY <1>1, <1>3, <1>4, <2>1 DEF IInv, TypeOK, Granted
    <2> QED
      BY <2>2, <2>3, <2>4, <2>5, IInvPartsPrime
  <1>5. CASE sched_wakeup_on(m)
             /\ km_holder' = [km_holder EXCEPT ![m] = Head(tq[m])]
    <2> DEFINE h == Head(tq[m])
    <2>1. m \in WaitQ /\ m \in Queue /\ kt_runq \notin WaitQ
          /\ NULL \notin Queue /\ tq[m] # <<>> /\ kt_runq \in Queue
      BY <1>5 DEF Queue, sched_wakeup_on
    <2>2. h \in Thread /\ kt_wchan[h] = m
      BY <2>1, IInvParts, HeadIsLinked
    <2>3. /\ tq' = [tq EXCEPT ![m] = Tail(@), ![kt_runq] = Append(@, h)]
          /\ kt_wchan' = [kt_wchan EXCEPT ![h] = kt_runq]
          /\ kt_state' = [kt_state EXCEPT ![h] = "KT_RUN"]
          /\ panic' \in BOOLEAN
          /\ UNCHANGED <<kt_cancelled, p_state, curthr, switching>>
          /\ km_holder' = [km_holder EXCEPT ![m] = h]
      BY <1>5 DEF sched_wakeup_on
    <2>4. QueueOK'
      BY <2>1, <1>5, IInvParts, WakeupKeepsQueues
    <2> HIDE DEF h
    <2>5. OtherTypesOK'
      BY <1>1, <2>2, <2>3 DEF IInv, TypeOK, SchedTypeOK, OtherTypesOK
    <2>6. Created(curthr)' /\ NeverStranded'
      BY <2>1, <2>2, <2>3 DEF IInv, TypeOK, SchedTypeOK, Created, NeverStranded
    <2>7. FramesMatch'
      BY <1>1, <2>1, <2>2, <2>3 DEF IInv, TypeOK, SchedTypeOK, FramesMatch
    <2>8. h # t
      BY <1>1, <2>1, <2>2 DEF IInv, FramesMatch, NoCall, Queue
    <2>9. MutualExclusion'
      BY <1>1, <1>2, <2>2, <2>3 DEF IInv, TypeOK, MutualExclusion
    <2>10. NoForgottenWaiter'
      <3>1. \A n \in Mutex : n # m => tq'[n] = tq[n]
        BY <2>1, <2>3 DEF IInv, TypeOK, SchedTypeOK, Queue
      <3> QED
        BY <3>1, <2>2, <2>3 DEF IInv, TypeOK, NoForgottenWaiter
    <2>11. Granted'
      <3>1. frame[h].q = m
        BY <2>1, <2>2 DEF IInv, FramesMatch
      <3>2. ASSUME NEW u \in Thread, u # h, frame[u] \in MutexCall,
                   kt_wchan[u] # frame[u].q,
                   ~(Cancellable(frame[u]) /\ kt_cancelled[u])
            PROVE  km_holder'[frame[u].q] = u
        <4>1. km_holder[frame[u].q] = u
          BY <3>2 DEF IInv, Granted
        <4>2. frame[u].q # m
          BY <4>1, <3>2, <1>1, <1>3
        <4> QED
          BY <4>1, <4>2, <2>3
      <3>3. km_holder'[m] = h
        BY <2>3 DEF IInv, TypeOK
      <3>4. \A u \in Thread : u # h => kt_wchan'[u] = kt_wchan[u]
        BY <2>3 DEF IInv, TypeOK, SchedTypeOK
      <3> QED
        BY <3>1, <3>2, <3>3, <3>4, <1>1, <2>3 DEF Granted
    <2> QED
      BY <2>4, <2>5, <2>6, <2>7, <2>9, <2>10, <2>11, IInvPartsPrime
  <1> QED
    BY <1>4, <1>5 DEF kmutex_unlock

(* The sleepers W become runnable without having been given a mutex: they  *)
(* slept on another queue or were cancelled.                               *)
LEMMA AwakenedKeep ==
  ASSUME IInv, QueueOK', NEW W \in SUBSET Thread,
         \A u \in W : /\ kt_wchan[u] \in WaitQ
                      /\ \/ kt_wchan[u] \notin Mutex
                         \/ Cancellable(frame[u]) /\ kt_cancelled'[u],
         kt_wchan' = [u \in Thread |-> IF u \in W THEN kt_runq ELSE kt_wchan[u]],
         kt_state' = [u \in Thread |-> IF u \in W THEN "KT_RUN" ELSE kt_state[u]],
         \A u \in Thread : kt_cancelled[u] => kt_cancelled'[u],
         \A m \in Mutex : tq'[m] # <<>> => tq[m] # <<>>,
         panic' \in BOOLEAN,
         UNCHANGED <<p_state, curthr, switching, km_holder, frame, locks>>
  PROVE  IInv'
  <1>1. kt_runq \notin WaitQ /\ NULL \notin WaitQ /\ NULL # kt_runq
    OBVIOUS
  <1>2. OtherTypesOK'
    BY DEF IInv, TypeOK, SchedTypeOK, OtherTypesOK
  <1>3. Created(curthr)'
    BY DEF IInv, TypeOK, SchedTypeOK, Created
  <1>4. NeverStranded'
    BY <1>1 DEF IInv, TypeOK, SchedTypeOK, Created, NeverStranded
  <1>5. FramesMatch'
    BY <1>1 DEF IInv, FramesMatch
  <1>6. Granted'
    <2> SUFFICES ASSUME NEW u \in Thread, frame[u] \in MutexCall,
                        kt_wchan'[u] # frame[u].q,
                        ~(Cancellable(frame[u]) /\ kt_cancelled'[u])
                 PROVE  km_holder[frame[u].q] = u
      BY DEF Granted
    <2>1. frame[u].q \in Mutex
      BY DEF MutexCall
    <2>2. u \notin W
      BY <2>1 DEF IInv, FramesMatch
    <2>3. kt_wchan[u] # frame[u].q /\ ~(Cancellable(frame[u]) /\ kt_cancelled[u])
      BY <2>2
    <2> QED
      BY <2>3 DEF IInv, Granted
  <1>7. MutualExclusion' /\ NoForgottenWaiter'
    BY DEF IInv, MutualExclusion, NoForgottenWaiter
  <1> QED
    BY <1>2, <1>3, <1>4, <1>5, <1>6, <1>7, IInvPartsPrime

LEMMA CancelKeeps ==
  ASSUME IInv, NEW t \in Thread, NEW u \in Thread, kthread_cancel(t, u)
  PROVE  IInv'
  <1>1. sched_cancel(u) /\ UNCHANGED <<km_holder, frame, locks>>
    BY DEF kthread_cancel
  <1>2. QueueOK'
    BY <1>1, IInvParts, CancelKeepsQueues
  <1>3. /\ kt_cancelled' = [kt_cancelled EXCEPT ![u] = TRUE]
        /\ UNCHANGED <<p_state, curthr, switching, panic>>
        /\ panic \in BOOLEAN
        /\ \A v \in Thread : kt_cancelled[v] => kt_cancelled'[v]
        /\ kt_cancelled'[u] = TRUE
    BY <1>1 DEF sched_cancel, IInv, TypeOK, SchedTypeOK
  <1>4. CASE kt_state[u] = "KT_SLEEP_CANCELLABLE"
    <2> DEFINE q == kt_wchan[u]
    <2>1. q \in WaitQ /\ Cancellable(frame[u])
      BY <1>4 DEF IInv, StatesOK, FramesMatch
    <2>2. /\ tq' = [tq EXCEPT ![q] = RemoveFirst(@, u), ![kt_runq] = Append(@, u)]
          /\ kt_wchan' = [kt_wchan EXCEPT ![u] = kt_runq]
          /\ kt_state' = [kt_state EXCEPT ![u] = "KT_RUN"]
      BY <1>1, <1>4 DEF sched_cancel
    <2>3. /\ kt_wchan' = [v \in Thread |->
                            IF v \in {u} THEN kt_runq ELSE kt_wchan[v]]
          /\ kt_state' = [v \in Thread |->
                            IF v \in {u} THEN "KT_RUN" ELSE kt_state[v]]
      BY <2>2 DEF IInv, TypeOK, SchedTypeOK
    <2>4. ASSUME NEW m \in Mutex, tq'[m] # <<>> PROVE tq[m] # <<>>
      <3>1. CASE m # q
        BY <3>1, <2>2, <2>4 DEF IInv, TypeOK, SchedTypeOK, Queue
      <3>2. CASE m = q
        <4>1. m \in Queue
          BY DEF Queue
        <4>2. u \in ToSet(tq[m])
          BY <3>2, <4>1 DEF IInv, LinksOK
        <4> QED
          BY <4>2, EmptyQueue
      <3> QED
        BY <3>1, <3>2
    <2> DEFINE W == {u}
    <2>5. /\ W \in SUBSET Thread
          /\ \A v \in W : /\ kt_wchan[v] \in WaitQ
                          /\ Cancellable(frame[v]) /\ kt_cancelled'[v]
          /\ panic' \in BOOLEAN
      BY <1>3, <2>1
    <2> HIDE DEF W, q
    <2> QED
      BY <1>1, <1>2, <1>3, <2>3, <2>4, <2>5, AwakenedKeep DEF W
  <1>5. CASE kt_state[u] # "KT_SLEEP_CANCELLABLE"
    <2>1. UNCHANGED <<tq, kt_wchan, kt_state>>
      BY <1>1, <1>5 DEF sched_cancel, queueVars
    <2>2. /\ kt_wchan' = [v \in Thread |->
                            IF v \in {} THEN kt_runq ELSE kt_wchan[v]]
          /\ kt_state' = [v \in Thread |->
                            IF v \in {} THEN "KT_RUN" ELSE kt_state[v]]
      BY <2>1 DEF IInv, TypeOK, SchedTypeOK
    <2> DEFINE W == {}
    <2>3. /\ W \in SUBSET Thread
          /\ \A v \in W : /\ kt_wchan[v] \in WaitQ
                          /\ Cancellable(frame[v]) /\ kt_cancelled'[v]
          /\ panic' \in BOOLEAN
      BY <1>3
    <2>4. \A m \in Mutex : tq'[m] # <<>> => tq[m] # <<>>
      BY <2>1
    <2> QED
      BY <1>1, <1>2, <1>3, <2>2, <2>3, <2>4, AwakenedKeep
  <1> QED
    BY <1>4, <1>5

LEMMA WakeupKeeps ==
  ASSUME IInv, NEW q \in WaitQ \ Mutex, Wakeup(q)
  PROVE  IInv'
  <1>1. q \in Queue /\ q # kt_runq /\ kt_runq \in Queue
        /\ UNCHANGED <<km_holder, frame, locks>>
    BY DEF Queue, Wakeup
  <1>2. \A m \in Mutex : m \in Queue /\ m # q /\ m # kt_runq
    BY DEF Queue
  <1>3. CASE sched_wakeup_on(q)
    <2> DEFINE h == Head(tq[q])
    <2>1. h \in Thread /\ kt_wchan[h] = q
      BY <1>1, <1>3, IInvParts, HeadIsLinked DEF sched_wakeup_on
    <2>2. /\ tq' = [tq EXCEPT ![q] = Tail(@), ![kt_runq] = Append(@, h)]
          /\ kt_wchan' = [kt_wchan EXCEPT ![h] = kt_runq]
          /\ kt_state' = [kt_state EXCEPT ![h] = "KT_RUN"]
          /\ panic' \in BOOLEAN
          /\ UNCHANGED <<kt_cancelled, p_state, curthr, switching>>
      BY <1>3 DEF sched_wakeup_on
    <2>3. /\ kt_wchan' = [v \in Thread |->
                            IF v \in {h} THEN kt_runq ELSE kt_wchan[v]]
          /\ kt_state' = [v \in Thread |->
                            IF v \in {h} THEN "KT_RUN" ELSE kt_state[v]]
      BY <2>1, <2>2 DEF IInv, TypeOK, SchedTypeOK
    <2>4. \A m \in Mutex : tq'[m] = tq[m]
      BY <1>2, <2>2 DEF IInv, TypeOK, SchedTypeOK
    <2>5. QueueOK'
      BY <1>3, IInvParts, WakeupKeepsQueues
    <2> DEFINE W == {h}
    <2>6. /\ W \in SUBSET Thread
          /\ \A v \in W : kt_wchan[v] \in WaitQ /\ kt_wchan[v] \notin Mutex
          /\ \A v \in Thread : kt_cancelled[v] => kt_cancelled'[v]
      BY <2>1, <2>2
    <2> HIDE DEF h
    <2> QED
      BY <1>1, <2>2, <2>3, <2>4, <2>5, <2>6, AwakenedKeep
  <1>4. CASE sched_broadcast_on(q)
    <2> DEFINE W == ToSet(tq[q])
    <2>1. W \in SUBSET Thread /\ \A u \in W : kt_wchan[u] = q
      <3>1. tq[q] \in Seq(Thread)
        BY <1>1 DEF IInv, TypeOK, SchedTypeOK
      <3> QED
        BY <1>1, <3>1, MemberNonEmpty DEF IInv, LinksOK
    <2>2. /\ tq' = [tq EXCEPT ![q] = <<>>, ![kt_runq] = @ \o tq[q]]
          /\ kt_wchan' = [v \in Thread |->
                            IF v \in W THEN kt_runq ELSE kt_wchan[v]]
          /\ kt_state' = [v \in Thread |->
                            IF v \in W THEN "KT_RUN" ELSE kt_state[v]]
          /\ panic' \in BOOLEAN
          /\ UNCHANGED <<kt_cancelled, p_state, curthr, switching>>
      BY <1>4 DEF sched_broadcast_on
    <2> HIDE DEF W
    <2>3. \A m \in Mutex : tq'[m] = tq[m]
      BY <1>2, <2>2 DEF IInv, TypeOK, SchedTypeOK
    <2>4. QueueOK'
      BY <1>4, IInvParts, BroadcastKeepsQueues
    <2> QED
      BY <1>1, <2>1, <2>2, <2>3, <2>4, AwakenedKeep
  <1> QED
    BY <1>3, <1>4 DEF Wakeup

(* The CPU is given to the head of the run queue. *)
LEMMA SwitchKeeps ==
  ASSUME IInv, Switch
  PROVE  IInv'
  <1> DEFINE h == Head(tq[kt_runq])
  <1>1. sched_switch /\ switching /\ UNCHANGED <<km_holder, frame, locks>>
    BY DEF Switch, sched_switch
  <1>2. kt_runq \in Queue /\ NULL \notin Queue /\ tq[kt_runq] # <<>>
    BY <1>1 DEF Queue, sched_switch
  <1>3. h \in Thread /\ kt_wchan[h] = kt_runq
    BY <1>2, IInvParts, HeadIsLinked
  <1>4. /\ curthr' = h
        /\ tq' = [tq EXCEPT ![kt_runq] = Tail(@)]
        /\ kt_wchan' = [kt_wchan EXCEPT ![h] = NULL]
        /\ kt_state' = [kt_state EXCEPT ![h] = "KT_RUN"]
        /\ switching' = FALSE
        /\ UNCHANGED <<kt_cancelled, p_state, panic>>
    BY <1>1 DEF sched_switch
  <1> HIDE DEF h
  <1>5. QueueOK'
    BY <1>1, IInvParts, SwitchKeepsQueues
  <1>6. OtherTypesOK'
    BY <1>1, <1>3, <1>4 DEF IInv, TypeOK, SchedTypeOK, OtherTypesOK
  <1>7. Created(curthr)' /\ NeverStranded'
    BY <1>1, <1>2, <1>3, <1>4 DEF IInv, TypeOK, SchedTypeOK, Created,
                                  NeverStranded
  <1>8. FramesMatch'
    BY <1>1, <1>3, <1>4 DEF IInv, TypeOK, SchedTypeOK, FramesMatch
  <1>9. Granted'
    <2>1. \A u \in Thread : frame[u] \in MutexCall =>
            frame[u].q \in Mutex /\ frame[u].q # kt_runq
      BY DEF MutexCall
    <2>2. \A u \in Thread \ {h} : kt_wchan'[u] = kt_wchan[u]
      BY <1>4 DEF IInv, TypeOK, SchedTypeOK
    <2> QED
      BY <1>1, <1>3, <1>4, <2>1, <2>2 DEF IInv, Granted
  <1>10. MutualExclusion' /\ NoForgottenWaiter'
    BY <1>1, <1>4 DEF IInv, TypeOK, SchedTypeOK, MutualExclusion,
                      NoForgottenWaiter
  <1> QED
    BY <1>5, <1>6, <1>7, <1>8, <1>9, <1>10, IInvPartsPrime

-----------------------------------------------------------------------------
LEMMA IInvStep == IInv /\ [Next]_vars => IInv'
  <1> SUFFICES ASSUME IInv, [Next]_vars PROVE IInv'
    OBVIOUS
  <1>1. ASSUME NEW t \in Thread, NEW m \in Mutex,
               LockFree(t, m) \/ LockAssert(t, m)
        PROVE  IInv'
    BY <1>1, TakeKeeps, AssertKeeps DEF LockFree
  <1>2. ASSUME NEW t \in Thread, NEW m \in Mutex, kmutex_lock(t, m)
        PROVE  IInv'
    <2>1. /\ Calls(t) /\ km_holder[m] # NULL /\ SleepAs(m, "KT_SLEEP")
          /\ Enter(t, "kmutex_lock", m) /\ UNCHANGED <<km_holder, locks>>
      BY <1>2 DEF kmutex_lock, sched_sleep_on
    <2>2. [fn |-> "kmutex_lock", q |-> m] \in Frame /\ m \in WaitQ
          /\ "KT_SLEEP" \in SleepState
      BY DEF Frame, MutexCall, SleepState
    <2> QED
      BY <2>1, <2>2, SleepKeeps
  <1>3. ASSUME NEW t \in Thread, NEW m \in Mutex, kmutex_lock_cancellable(t, m)
        PROVE  IInv'
    <2>1. Calls(t) /\ km_holder[m] # NULL /\ UNCHANGED <<km_holder, locks>>
      BY <1>3 DEF kmutex_lock_cancellable
    <2>2. CASE /\ sched_cancellable_sleep_on(m)
               /\ Enter(t, "kmutex_lock_cancellable", m)
      <3>1. t = curthr
        BY <2>1 DEF Calls, Running
      <3>2. ~kt_cancelled[t] /\ SleepAs(m, "KT_SLEEP_CANCELLABLE")
        BY <2>2, <3>1 DEF sched_cancellable_sleep_on
      <3>3. /\ [fn |-> "kmutex_lock_cancellable", q |-> m] \in Frame
            /\ Cancellable([fn |-> "kmutex_lock_cancellable", q |-> m])
            /\ m \in WaitQ /\ "KT_SLEEP_CANCELLABLE" \in SleepState
        BY DEF Frame, MutexCall, SleepState, Cancellable
      <3> QED
        BY <2>1, <2>2, <3>2, <3>3, SleepKeeps
    <2>3. CASE SleepCancelled /\ UNCHANGED frame
      BY <2>1, <2>3, CancelledKeeps DEF Calls
    <2> QED
      BY <1>3, <2>2, <2>3 DEF kmutex_lock_cancellable
  <1>4. ASSUME NEW t \in Thread, NEW m \in Mutex, kmutex_unlock(t, m)
        PROVE  IInv'
    BY <1>4, UnlockKeeps
  <1>5. ASSUME NEW t \in Thread, NEW q \in WaitQ \ Mutex, SleepOn(t, q)
        PROVE  IInv'
    <2>1. /\ Calls(t) /\ SleepAs(q, "KT_SLEEP")
          /\ Enter(t, "sched_sleep_on", q) /\ UNCHANGED <<km_holder, locks>>
      BY <1>5 DEF SleepOn, sched_sleep_on
    <2>2. [fn |-> "sched_sleep_on", q |-> q] \in Frame
          /\ "KT_SLEEP" \in SleepState
      BY DEF Frame, SleepCall, SleepState
    <2> QED
      BY <2>1, <2>2, SleepKeeps
  <1>6. ASSUME NEW t \in Thread, NEW q \in WaitQ \ Mutex, CancellableSleepOn(t, q)
        PROVE  IInv'
    <2>1. Calls(t) /\ UNCHANGED <<km_holder, locks>>
      BY <1>6 DEF CancellableSleepOn
    <2>2. CASE /\ sched_cancellable_sleep_on(q)
               /\ Enter(t, "sched_cancellable_sleep_on", q)
      <3>1. t = curthr
        BY <2>1 DEF Calls, Running
      <3>2. ~kt_cancelled[t] /\ SleepAs(q, "KT_SLEEP_CANCELLABLE")
        BY <2>2, <3>1 DEF sched_cancellable_sleep_on
      <3>3. /\ [fn |-> "sched_cancellable_sleep_on", q |-> q] \in Frame
            /\ Cancellable([fn |-> "sched_cancellable_sleep_on", q |-> q])
            /\ "KT_SLEEP_CANCELLABLE" \in SleepState
        BY DEF Frame, SleepCall, SleepState, Cancellable
      <3> QED
        BY <2>1, <2>2, <3>2, <3>3, SleepKeeps
    <2>3. CASE SleepCancelled /\ UNCHANGED frame
      BY <2>1, <2>3, CancelledKeeps DEF Calls
    <2> QED
      BY <1>6, <2>2, <2>3 DEF CancellableSleepOn
  <1>7. ASSUME NEW t \in Thread, Yield(t) PROVE IInv'
    <2>1. t = curthr /\ kt_wchan[t] = NULL
      BY <1>7, RunningUnlinked DEF Yield, Calls
    <2>2. p_state' \in [Thread -> ProcState]
      BY <1>7 DEF Yield, IInv, TypeOK, SchedTypeOK
    <2> QED
      BY <1>7, <2>1, <2>2, MakeRunnableKeeps DEF Yield
  <1>8. ASSUME NEW t \in Thread, ReturnCancelled(t) PROVE IInv'
    BY <1>8, CancelledKeeps DEF ReturnCancelled
  <1>9. ASSUME NEW t \in Thread, Return(t) PROVE IInv'
    BY <1>9, ReturnKeeps
  <1>10. ASSUME NEW t \in Thread, NEW u \in Thread, kthread_cancel(t, u)
         PROVE  IInv'
    BY <1>10, CancelKeeps
  <1>11. ASSUME NEW t \in Thread, NEW u \in Thread, Spawn(t, u) PROVE IInv'
    <2>1. u # curthr /\ kt_wchan[u] = NULL
      BY <1>11 DEF Spawn, IInv, Created, NeverStranded
    <2>2. p_state' \in [Thread -> ProcState]
      BY <1>11 DEF Spawn, IInv, TypeOK, SchedTypeOK, ProcState
    <2> QED
      BY <1>11, <2>1, <2>2, MakeRunnableKeeps DEF Spawn
  <1>12. ASSUME NEW q \in WaitQ \ Mutex, Wakeup(q) PROVE IInv'
    BY <1>12, WakeupKeeps
  <1>13. CASE Switch
    BY <1>13, SwitchKeeps
  <1>14. CASE UNCHANGED vars
    BY <1>14 DEF vars, schedVars, IInv, TypeOK, SchedTypeOK, LinksOK, StatesOK,
                 Created, NeverStranded, FramesMatch, Granted, MutualExclusion,
                 NoForgottenWaiter
  <1> QED
    BY <1>1, <1>2, <1>3, <1>4, <1>5, <1>6, <1>7, <1>8, <1>9, <1>10, <1>11,
       <1>12, <1>13, <1>14 DEF Next, LockStep, SleepStep, OtherStep

-----------------------------------------------------------------------------
(* The inductive invariant holds in every reachable state, for any threads,*)
(* mutexes and wait queues, with and without cancellation.                 *)
THEOREM Inductive == Spec => []IInv
  BY IInvInit, IInvStep, PTL DEF Spec

(* Type correctness of the scheduler and mutex state. *)
THEOREM TypeCorrect == Spec => []TypeOK
  <1>1. IInv => TypeOK
    BY DEF IInv
  <1> QED
    BY <1>1, Inductive, PTL

(* A thread that was told it has a mutex is its holder; so no two are in   *)
(* the critical section of one, whatever hand-overs and cancellations      *)
(* happened.                                                               *)
THEOREM Exclusion == Spec => []MutualExclusion
  <1>1. IInv => MutualExclusion
    BY DEF IInv
  <1> QED
    BY <1>1, Inductive, PTL

(* Every thread is linked on exactly the queue its kt_wchan names, in a    *)
(* state that fits it, and every created thread is on one or has the CPU.  *)
THEOREM QueuesConsistent == Spec => [](LinksOK /\ StatesOK /\ NeverStranded)
  <1>1. IInv => LinksOK /\ StatesOK /\ NeverStranded
    BY DEF IInv
  <1> QED
    BY <1>1, Inductive, PTL

(* No thread sleeps for a mutex that nobody holds. *)
THEOREM NobodyForgotten == Spec => []NoForgottenWaiter
  <1>1. IInv => NoForgottenWaiter
    BY DEF IInv
  <1> QED
    BY <1>1, Inductive, PTL

-----------------------------------------------------------------------------
(* Kernel mutexes implement the abstract lock FairLock: every step of      *)
(* KMutex is a step of the lock its callers see, or leaves it unchanged.   *)

(* The thread inside a critical section is the holder. *)
LEMMA InsideIsHolder ==
  ASSUME IInv, NEW m \in Mutex
  PROVE  /\ (\E t \in Thread : m \in locks[t]) => Inside(m) = km_holder[m]
         /\ (\A t \in Thread : m \notin locks[t]) => Inside(m) = NULL
  <1>1. \A t \in Thread : m \in locks[t] => km_holder[m] = t
    BY DEF IInv, MutualExclusion
  <1> QED
    BY <1>1 DEF Inside

LEMMA InsideIsHolderPrime ==
  ASSUME IInv', NEW m \in Mutex
  PROVE  /\ (\E t \in Thread : m \in locks'[t]) => Inside(m)' = km_holder'[m]
         /\ (\A t \in Thread : m \notin locks'[t]) => Inside(m)' = NULL
  <1>1. \A t \in Thread : m \in locks'[t] => km_holder'[m] = t
    BY DEF IInv, MutualExclusion
  <1> QED
    BY <1>1 DEF Inside

(* Init maps to Init. *)
LEMMA InitRefines == Init => Abs!Init
  <1> SUFFICES ASSUME Init PROVE Abs!Init
    OBVIOUS
  <1>1. \A m \in Mutex : tq[m] = <<>> /\ Inside(m) = NULL
    BY DEF Init, Queue, Inside
  <1> QED
    BY <1>1 DEF Init, Abs!Init

(* A step that touches no mutex is a stuttering step. *)
LEMMA Stutters ==
  ASSUME UNCHANGED <<km_holder, locks>>, \A m \in Mutex : tq'[m] = tq[m]
  PROVE  UNCHANGED Abs!absVars
  <1>1. \A m \in Mutex : Inside(m)' = Inside(m)
    BY DEF Inside
  <1> QED
    BY <1>1 DEF Abs!absVars

(* A thread that joins the queue of a mutex waits for it. *)
LEMMA SleepRefines ==
  ASSUME IInv, NEW t \in Thread, NEW m \in Mutex,
         kt_wchan[t] = NULL, km_holder[m] \notin {NULL, t},
         tq' = [tq EXCEPT ![m] = Append(@, t)],
         UNCHANGED <<km_holder, locks>>
  PROVE  Abs!Wait(t, m)
  <1>1. m \in Queue /\ NULL \notin Queue
    BY DEF Queue
  <1>2. t \notin ToSet(tq[m])
    BY <1>1 DEF IInv, LinksOK
  <1>3. [n \in Mutex |-> tq'[n]] =
          [[n \in Mutex |-> tq[n]] EXCEPT ![m] = Append(@, t)]
    BY <1>1 DEF IInv, TypeOK, SchedTypeOK, Queue
  <1>4. [n \in Mutex |-> Inside(n)]' = [n \in Mutex |-> Inside(n)]
    BY DEF Inside
  <1> QED
    BY <1>2, <1>3, <1>4 DEF Abs!Wait, Abs!ToSet, ToSet

(* A thread that takes a free mutex acquires it: nobody waits for it.      *)
LEMMA TakeRefines ==
  ASSUME IInv, IInv', NEW t \in Thread, NEW m \in Mutex,
         km_holder[m] = NULL, Take(t, m)
  PROVE  Abs!Acquire(t, m)
  <1>1. /\ km_holder' = [km_holder EXCEPT ![m] = t]
        /\ locks' = [locks EXCEPT ![t] = @ \cup {m}]
        /\ tq' = tq
    BY DEF Take, schedVars
  <1>2. tq[m] = <<>>
    BY DEF IInv, NoForgottenWaiter
  <1>3. Inside(m)' = t
    BY <1>1, InsideIsHolderPrime DEF IInv, TypeOK
  <1>4. \A n \in Mutex : n # m => Inside(n)' = Inside(n)
    <2>1. \A n \in Mutex, u \in Thread : n # m => (n \in locks'[u] <=> n \in locks[u])
      BY <1>1 DEF IInv, TypeOK
    <2> QED
      BY <2>1 DEF Inside
  <1>5. [n \in Mutex |-> Inside(n)]' =
          [[n \in Mutex |-> Inside(n)] EXCEPT ![m] = t]
    BY <1>3, <1>4
  <1> QED
    BY <1>1, <1>2, <1>5 DEF Abs!Acquire

(* A lock call that returns success enters the critical section.           *)
LEMMA ReturnRefines ==
  ASSUME IInv, IInv', NEW t \in Thread, Return(t)
  PROVE  (\E m \in Mutex : Abs!Enter(m)) \/ UNCHANGED Abs!absVars
  <1>1. t = curthr /\ kt_wchan[t] = NULL
    BY RunningUnlinked DEF Return
  <1>2. /\ locks' = [locks EXCEPT ![t] = @ \cup ({frame[t].q} \cap Mutex)]
        /\ ~(Cancellable(frame[t]) /\ kt_cancelled[t])
        /\ frame[t] # NoCall
        /\ tq' = tq /\ km_holder' = km_holder
    BY DEF Return, schedVars
  <1>3. CASE frame[t].q \notin Mutex \/ frame[t].q \in locks[t]
    <2>1. UNCHANGED locks
      BY <1>2, <1>3 DEF IInv, TypeOK
    <2> QED
      BY <1>2, <2>1, Stutters
  <1>4. ASSUME NEW m \in Mutex, m = frame[t].q, m \notin locks[t]
        PROVE  \E n \in Mutex : Abs!Enter(n)
    <2>1. frame[t] \in MutexCall
      BY <1>2, <1>4 DEF IInv, TypeOK, Frame, SleepCall
    <2>2. km_holder[m] = t
      BY <1>1, <1>2, <1>4, <2>1 DEF IInv, Granted
    <2>3. \A u \in Thread : m \notin locks[u]
      BY <1>4, <2>2 DEF IInv, MutualExclusion
    <2>4. Inside(m) = NULL
      BY <1>4, <2>3, InsideIsHolder
    <2>5. Inside(m)' = t
      BY <1>2, <1>4, <2>2, InsideIsHolderPrime DEF IInv, TypeOK
    <2>6. \A n \in Mutex : n # m => Inside(n)' = Inside(n)
      <3>1. \A n \in Mutex, u \in Thread :
              n # m => (n \in locks'[u] <=> n \in locks[u])
        BY <1>2, <1>4 DEF IInv, TypeOK
      <3> QED
        BY <3>1 DEF Inside
    <2>7. [n \in Mutex |-> Inside(n)]' =
            [[n \in Mutex |-> Inside(n)] EXCEPT ![m] = km_holder[m]]
      BY <2>2, <2>5, <2>6
    <2> QED
      BY <1>2, <1>4, <2>2, <2>4, <2>7 DEF Abs!Enter
  <1> QED
    BY <1>3, <1>4

(* kmutex_unlock releases the mutex and passes it to the first waiter.     *)
LEMMA UnlockRefines ==
  ASSUME IInv, IInv', NEW t \in Thread, NEW m \in Mutex, kmutex_unlock(t, m)
  PROVE  Abs!Release(m)
  <1>1. /\ m \in locks[t] /\ km_holder[m] = t
        /\ locks' = [locks EXCEPT ![t] = @ \ {m}]
    BY DEF kmutex_unlock
  <1>2. Inside(m) = t
    BY <1>1, InsideIsHolder
  <1>3. Inside(m)' = NULL
    <2>1. \A u \in Thread : m \notin locks'[u]
      BY <1>1 DEF IInv, TypeOK, MutualExclusion
    <2> QED
      BY <2>1, InsideIsHolderPrime
  <1>4. \A n \in Mutex : n # m => Inside(n)' = Inside(n)
    <2>1. \A n \in Mutex, u \in Thread :
            n # m => (n \in locks'[u] <=> n \in locks[u])
      BY <1>1 DEF IInv, TypeOK
    <2> QED
      BY <2>1 DEF Inside
  <1>5. [n \in Mutex |-> Inside(n)]' =
          [[n \in Mutex |-> Inside(n)] EXCEPT ![m] = NULL]
    BY <1>3, <1>4
  <1>6. CASE tq[m] = <<>> /\ km_holder' = [km_holder EXCEPT ![m] = NULL]
             /\ UNCHANGED schedVars
    <2>1. tq' = tq
      BY <1>6 DEF schedVars
    <2> QED
      BY <1>1, <1>2, <1>5, <1>6, <2>1 DEF Abs!Release
  <1>7. CASE sched_wakeup_on(m)
             /\ km_holder' = [km_holder EXCEPT ![m] = Head(tq[m])]
    <2>1. /\ tq[m] # <<>>
          /\ tq' = [tq EXCEPT ![m] = Tail(@), ![kt_runq] = Append(@, Head(tq[m]))]
      BY <1>7 DEF sched_wakeup_on
    <2>2. [n \in Mutex |-> tq'[n]] =
            [[n \in Mutex |-> tq[n]] EXCEPT ![m] = Tail(@)]
      <3>1. \A n \in Mutex : n # kt_runq /\ n \in Queue
        BY DEF Queue
      <3>2. tq'[m] = Tail(tq[m]) /\ \A n \in Mutex : n # m => tq'[n] = tq[n]
        BY <2>1, <3>1 DEF IInv, TypeOK, SchedTypeOK
      <3> QED
        BY <3>2
    <2> QED
      BY <1>1, <1>2, <1>5, <1>7, <2>1, <2>2 DEF Abs!Release
  <1> QED
    BY <1>6, <1>7 DEF kmutex_unlock

(* A cancelled thread abandons the mutex it slept for, if any.             *)
LEMMA CancelRefines ==
  ASSUME IInv, NEW t \in Thread, NEW u \in Thread, kthread_cancel(t, u)
  PROVE  (\E m \in Mutex : Abs!Abandon(u, m)) \/ UNCHANGED Abs!absVars
  <1>1. sched_cancel(u) /\ UNCHANGED <<km_holder, locks>>
    BY DEF kthread_cancel
  <1>2. CASE kt_state[u] # "KT_SLEEP_CANCELLABLE"
    <2>1. tq' = tq
      BY <1>1, <1>2 DEF sched_cancel, queueVars
    <2> QED
      BY <1>1, <2>1, Stutters
  <1>3. CASE kt_state[u] = "KT_SLEEP_CANCELLABLE"
    <2>1. PICK q \in Queue : q = kt_wchan[u]
      BY <1>3 DEF IInv, StatesOK, Queue
    <2>2. tq' = [tq EXCEPT ![q] = RemoveFirst(@, u), ![kt_runq] = Append(@, u)]
      BY <1>1, <1>3, <2>1 DEF sched_cancel
    <2>3. u \in ToSet(tq[q])
      BY <2>1 DEF IInv, LinksOK
    <2>4. \A n \in Mutex : n # kt_runq /\ n \in Queue
      BY DEF Queue
    <2>5. CASE q \notin Mutex
      <3>1. \A n \in Mutex : tq'[n] = tq[n]
        BY <2>2, <2>4, <2>5 DEF IInv, TypeOK, SchedTypeOK
      <3> QED
        BY <1>1, <3>1, Stutters
    <2>6. CASE q \in Mutex
      <3>1. /\ tq'[q] = RemoveFirst(tq[q], u)
            /\ \A n \in Mutex : n # q => tq'[n] = tq[n]
        BY <2>2, <2>4, <2>6 DEF IInv, TypeOK, SchedTypeOK
      <3>2. [n \in Mutex |-> tq'[n]] =
              [[n \in Mutex |-> tq[n]] EXCEPT ![q] = RemoveFirst(@, u)]
        BY <2>6, <3>1
      <3>3. \A s, e : Abs!RemoveFirst(s, e) = RemoveFirst(s, e)
        BY DEF Abs!RemoveFirst, RemoveFirst, Abs!RemoveAt, RemoveAt,
               Abs!SelectInSeq, SelectInSeq, Abs!Min, Min
      <3>4. Abs!ToSet(tq[q]) = ToSet(tq[q])
        BY DEF Abs!ToSet, ToSet
      <3>5. [n \in Mutex |-> Inside(n)]' = [n \in Mutex |-> Inside(n)]
        BY <1>1 DEF Inside
      <3> QED
        BY <1>1, <2>3, <2>6, <3>2, <3>3, <3>4, <3>5 DEF Abs!Abandon
    <2> QED
      BY <2>5, <2>6
  <1> QED
    BY <1>2, <1>3

-----------------------------------------------------------------------------
(* Every step of KMutex is a step of FairLock or leaves it unchanged.      *)
LEMMA StepRefines ==
  IInv /\ IInv' /\ [Next]_vars => [Abs!Next]_(Abs!absVars)
  <1> SUFFICES ASSUME IInv, IInv', [Next]_vars
               PROVE  Abs!Next \/ UNCHANGED Abs!absVars
    OBVIOUS
  <1> DEFINE Goal == Abs!Next \/ UNCHANGED Abs!absVars
  <1>0. \A m \in Mutex : m \in Queue /\ m # kt_runq
    BY DEF Queue
  <1>1. ASSUME NEW t \in Thread, NEW m \in Mutex, LockFree(t, m) PROVE Goal
    BY <1>1, TakeRefines DEF LockFree, Abs!Next
  <1>2. ASSUME NEW t \in Thread, NEW m \in Mutex, LockAssert(t, m) PROVE Goal
    BY <1>2, Stutters DEF LockAssert, AssertFails, queueVars
  <1>3. ASSUME NEW t \in Thread, NEW m \in Mutex,
               kmutex_lock(t, m) \/ kmutex_lock_cancellable(t, m)
        PROVE  Goal
    <2>1. /\ Calls(t) /\ km_holder[m] \notin {NULL, t}
          /\ UNCHANGED <<km_holder, locks>>
      BY <1>3 DEF kmutex_lock, kmutex_lock_cancellable
    <2>2. t = curthr /\ kt_wchan[t] = NULL
      BY <2>1, RunningUnlinked DEF Calls
    <2>3. CASE tq' = [tq EXCEPT ![m] = Append(@, t)]
      BY <2>1, <2>2, <2>3, SleepRefines DEF Abs!Next
    <2>4. CASE tq' = tq
      BY <2>1, <2>4, Stutters
    <2> QED
      BY <1>3, <2>2, <2>3, <2>4
      DEF kmutex_lock, kmutex_lock_cancellable, sched_sleep_on,
          sched_cancellable_sleep_on, SleepAs, EnqueueAs, SleepCancelled
  <1>4. ASSUME NEW t \in Thread, NEW m \in Mutex, kmutex_unlock(t, m)
        PROVE  Goal
    BY <1>4, UnlockRefines DEF Abs!Next
  <1>5. ASSUME NEW t \in Thread, NEW q \in WaitQ \ Mutex,
               SleepOn(t, q) \/ CancellableSleepOn(t, q)
        PROVE  Goal
    <2>1. UNCHANGED <<km_holder, locks>>
      BY <1>5 DEF SleepOn, CancellableSleepOn
    <2>2. tq' = [tq EXCEPT ![q] = Append(@, curthr)] \/ tq' = tq
      BY <1>5 DEF SleepOn, CancellableSleepOn, sched_sleep_on,
                  sched_cancellable_sleep_on, SleepAs, EnqueueAs, SleepCancelled
    <2>3. \A m \in Mutex : tq'[m] = tq[m]
      BY <1>0, <2>2 DEF IInv, TypeOK, SchedTypeOK
    <2> QED
      BY <2>1, <2>3, Stutters
  <1>6. ASSUME NEW t \in Thread, NEW u \in Thread, Yield(t) \/ Spawn(t, u)
        PROVE  Goal
    <2>1. UNCHANGED <<km_holder, locks>>
      BY <1>6 DEF Yield, Spawn
    <2>2. \E v \in Thread : tq' = [tq EXCEPT ![kt_runq] = Append(@, v)]
      BY <1>6 DEF Yield, Spawn, sched_make_runnable, EnqueueAs
    <2>3. \A m \in Mutex : tq'[m] = tq[m]
      BY <1>0, <2>2 DEF IInv, TypeOK, SchedTypeOK
    <2> QED
      BY <2>1, <2>3, Stutters
  <1>7. ASSUME NEW t \in Thread, ReturnCancelled(t) PROVE Goal
    BY <1>7, Stutters DEF ReturnCancelled, SleepCancelled
  <1>8. ASSUME NEW t \in Thread, Return(t) PROVE Goal
    BY <1>8, ReturnRefines DEF Abs!Next
  <1>9. ASSUME NEW t \in Thread, NEW u \in Thread, kthread_cancel(t, u)
        PROVE  Goal
    BY <1>9, CancelRefines DEF Abs!Next
  <1>10. ASSUME NEW q \in WaitQ \ Mutex, Wakeup(q) PROVE Goal
    <2>1. UNCHANGED <<km_holder, locks>>
      BY <1>10 DEF Wakeup
    <2>2. \E a, b : tq' = [tq EXCEPT ![q] = a, ![kt_runq] = b]
      BY <1>10 DEF Wakeup, sched_wakeup_on, sched_broadcast_on
    <2>3. \A m \in Mutex : tq'[m] = tq[m]
      BY <1>0, <2>2 DEF IInv, TypeOK, SchedTypeOK
    <2> QED
      BY <2>1, <2>3, Stutters
  <1>11. CASE Switch
    <2>1. UNCHANGED <<km_holder, locks>>
      BY <1>11 DEF Switch
    <2>2. tq' = [tq EXCEPT ![kt_runq] = Tail(@)]
      BY <1>11 DEF Switch, sched_switch
    <2>3. \A m \in Mutex : tq'[m] = tq[m]
      BY <1>0, <2>2 DEF IInv, TypeOK, SchedTypeOK
    <2> QED
      BY <2>1, <2>3, Stutters
  <1>12. CASE UNCHANGED vars
    BY <1>12, Stutters DEF vars, schedVars
  <1> QED
    BY <1>1, <1>2, <1>3, <1>4, <1>5, <1>6, <1>7, <1>8, <1>9, <1>10, <1>11,
       <1>12 DEF Next, LockStep, SleepStep, OtherStep

(* For any number of threads, mutexes and queues, kernel mutexes serve     *)
(* their callers in the order of the requests, one at a time, and only the *)
(* holder's unlock passes a mutex on.                                      *)
THEOREM Refinement == Spec => ServesInOrder
  <1>1. Spec => []IInv
    BY Inductive
  <1> QED
    BY <1>1, InitRefines, StepRefines, PTL DEF Spec, ServesInOrder, Abs!Spec
=============================================================================
