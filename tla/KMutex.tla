------------------------------- MODULE KMutex -------------------------------
(***************************************************************************)
(* Kernel mutexes, proc/kmutex.c, used by arbitrary kernel threads that    *)
(* also sleep on other queues, wake and cancel each other and give up the  *)
(* CPU (the loop of proc/faber_test.c).  kmutex_unlock hands the mutex     *)
(* over: the woken thread is its holder before it has run again.           *)
(*                                                                         *)
(* A thread is either in its own code or inside one kernel call that put   *)
(* it to sleep, its "frame"; the second half of that call is an action of  *)
(* its own, since every other thread may run before it.                    *)
(***************************************************************************)
EXTENDS Sched

CONSTANTS
  Mutex,     \* the kmutex_t objects, each standing for its km_waitq too
  Killing    \* may threads be cancelled? (only proc_kill_all does so)

ASSUME MutexAssumption ==
  /\ Mutex \subseteq WaitQ
  /\ Killing \in BOOLEAN

VARIABLES
  km_holder,  \* holder of each mutex, or NULL
  frame,      \* the call each thread is inside of
  locks       \* the mutexes each thread's code was told it holds

vars == <<schedVars, km_holder, frame, locks>>

NoCall == [fn |-> "none", q |-> NULL]
MutexCall == [fn : {"kmutex_lock", "kmutex_lock_cancellable"}, q : Mutex]
SleepCall == [fn : {"sched_sleep_on", "sched_cancellable_sleep_on"},
              q : WaitQ \ Mutex]
Frame == MutexCall \cup SleepCall \cup {NoCall}

(* Calls whose sleep a cancellation ends. *)
Cancellable(f) ==
  f.fn \in {"kmutex_lock_cancellable", "sched_cancellable_sleep_on"}

TypeOK ==
  /\ SchedTypeOK
  /\ km_holder \in [Mutex -> Thread \cup {NULL}]
  /\ frame \in [Thread -> Frame]
  /\ locks \in [Thread -> SUBSET Mutex]

Init ==
  /\ curthr \in Thread
  /\ tq = [q \in Queue |-> <<>>]
  /\ kt_wchan = [t \in Thread |-> NULL]
  /\ kt_state = [t \in Thread |-> IF t = curthr THEN "KT_RUN" ELSE "KT_NO_STATE"]
  /\ kt_cancelled = [t \in Thread |-> FALSE]
  /\ p_state = [t \in Thread |->
                  IF t = curthr THEN "PROC_RUNNING" ELSE "PROC_NONE"]
  /\ switching = FALSE
  /\ panic = FALSE
  /\ km_holder = [m \in Mutex |-> NULL]
  /\ frame = [t \in Thread |-> NoCall]
  /\ locks = [t \in Thread |-> {}]

-----------------------------------------------------------------------------
(* Thread t executes its own code and may make a kernel call. *)
Calls(t) == Running(t) /\ frame[t] = NoCall

Enter(t, fn, q) == frame' = [frame EXCEPT ![t] = [fn |-> fn, q |-> q]]
Leave(t)        == frame' = [frame EXCEPT ![t] = NoCall]

Take(t, m) ==
  /\ km_holder' = [km_holder EXCEPT ![m] = t]
  /\ locks' = [locks EXCEPT ![t] = @ \cup {m}]
  /\ UNCHANGED <<schedVars, frame>>

(* Code locks a mutex only when it believes it does not hold it. *)
LockFree(t, m) ==
  /\ Calls(t) /\ m \notin locks[t]
  /\ km_holder[m] = NULL
  /\ Take(t, m)

(* KASSERT(curthr != km_holder), common to both lock functions. *)
LockAssert(t, m) ==
  /\ Calls(t) /\ m \notin locks[t]
  /\ AssertFails(km_holder[m] # t)
  /\ UNCHANGED <<km_holder, frame, locks>>

kmutex_lock(t, m) ==
  /\ Calls(t) /\ m \notin locks[t]
  /\ km_holder[m] \notin {NULL, t}
  /\ sched_sleep_on(m)
  /\ Enter(t, "kmutex_lock", m)
  /\ UNCHANGED <<km_holder, locks>>

kmutex_lock_cancellable(t, m) ==
  /\ Calls(t) /\ m \notin locks[t]
  /\ km_holder[m] \notin {NULL, t}
  /\ \/ /\ sched_cancellable_sleep_on(m)
        /\ Enter(t, "kmutex_lock_cancellable", m)
     \/ /\ SleepCancelled               \* -EINTR at once
        /\ UNCHANGED frame
  /\ UNCHANGED <<km_holder, locks>>

(* Mutants of kmutex_unlock: the mutex becomes free when a sleeper is      *)
(* woken; the sleepers are forgotten.                                      *)
kmutex_unlock_Frees(t, m) ==
  /\ Calls(t) /\ m \in locks[t]
  /\ km_holder[m] = t
  /\ locks' = [locks EXCEPT ![t] = @ \ {m}]
  /\ km_holder' = [km_holder EXCEPT ![m] = NULL]
  /\ IF tq[m] = <<>> THEN UNCHANGED schedVars ELSE sched_wakeup_on(m)
  /\ UNCHANGED frame

kmutex_unlock_NoWakeup(t, m) ==
  /\ Calls(t) /\ m \in locks[t]
  /\ km_holder[m] = t
  /\ locks' = [locks EXCEPT ![t] = @ \ {m}]
  /\ km_holder' = [km_holder EXCEPT ![m] = NULL]
  /\ UNCHANGED <<schedVars, frame>>

kmutex_unlock(t, m) ==
  /\ Calls(t) /\ m \in locks[t]
  /\ km_holder[m] = t                   \* KASSERT(curthr == km_holder)
  /\ locks' = [locks EXCEPT ![t] = @ \ {m}]
  /\ \/ /\ tq[m] = <<>>
        /\ km_holder' = [km_holder EXCEPT ![m] = NULL]
        /\ UNCHANGED schedVars
     \/ /\ sched_wakeup_on(m)
        /\ km_holder' = [km_holder EXCEPT ![m] = Head(tq[m])]
  /\ UNCHANGED frame

-----------------------------------------------------------------------------
(* sched_sleep_on and sched_cancellable_sleep_on called directly. *)
SleepOn(t, q) ==
  /\ Calls(t)
  /\ sched_sleep_on(q)
  /\ Enter(t, "sched_sleep_on", q)
  /\ UNCHANGED <<km_holder, locks>>

CancellableSleepOn(t, q) ==
  /\ Calls(t)
  /\ \/ /\ sched_cancellable_sleep_on(q)
        /\ Enter(t, "sched_cancellable_sleep_on", q)
     \/ /\ SleepCancelled
        /\ UNCHANGED frame
  /\ UNCHANGED <<km_holder, locks>>

(* sched_make_runnable(curthr); sched_switch(), how code gives up the CPU. *)
Yield(t) ==
  /\ Calls(t)
  /\ sched_make_runnable(t)
  /\ switching' = TRUE
  /\ UNCHANGED <<kt_cancelled, p_state, curthr, km_holder, frame, locks>>

(* The call thread t slept in returns, now that t has the CPU again: the   *)
(* cancelled ones with -EINTR, a lock call that does not with the mutex.   *)
ReturnCancelled(t) ==
  /\ Running(t) /\ Cancellable(frame[t])
  /\ SleepCancelled
  /\ Leave(t)
  /\ UNCHANGED <<km_holder, locks>>

Return(t) ==
  /\ Running(t) /\ frame[t] # NoCall
  /\ ~(Cancellable(frame[t]) /\ kt_cancelled[t])
  /\ locks' = [locks EXCEPT ![t] = @ \cup ({frame[t].q} \cap Mutex)]
  /\ Leave(t)
  /\ UNCHANGED <<schedVars, km_holder>>

(* proc_kill's kthread_cancel of every other live thread it meets. *)
kthread_cancel(t, u) ==
  /\ Killing
  /\ Calls(t) /\ u # t
  /\ kt_state[u] # "KT_NO_STATE"
  /\ sched_cancel(u)
  /\ UNCHANGED <<km_holder, frame, locks>>

(* kthread_create and sched_make_runnable of a new thread. *)
Spawn(t, u) ==
  /\ Calls(t) /\ kt_state[u] = "KT_NO_STATE"
  /\ sched_make_runnable(u)
  /\ p_state' = [p_state EXCEPT ![u] = "PROC_RUNNING"]
  /\ UNCHANGED <<kt_cancelled, curthr, switching, km_holder, frame, locks>>

(* A device interrupt, or the code of another thread, wakes sleepers of a  *)
(* queue that is not a mutex's.                                            *)
Wakeup(q) ==
  /\ ~panic
  /\ sched_wakeup_on(q) \/ sched_broadcast_on(q)
  /\ UNCHANGED <<km_holder, frame, locks>>

Switch == sched_switch /\ UNCHANGED <<km_holder, frame, locks>>

LockStep(t) ==
  \E m \in Mutex :
    \/ LockFree(t, m) \/ LockAssert(t, m)
    \/ kmutex_lock(t, m) \/ kmutex_lock_cancellable(t, m)
    \/ kmutex_unlock(t, m)

SleepStep(t) ==
  \/ \E q \in WaitQ \ Mutex : SleepOn(t, q) \/ CancellableSleepOn(t, q)
  \/ Yield(t)
  \/ ReturnCancelled(t)
  \/ Return(t)

OtherStep(t) == \E u \in Thread : kthread_cancel(t, u) \/ Spawn(t, u)

Next ==
  \/ \E t \in Thread : LockStep(t) \/ SleepStep(t) \/ OtherStep(t)
  \/ \E q \in WaitQ \ Mutex : Wakeup(q)
  \/ Switch

Spec == Init /\ [][Next]_vars

(* What the kernel's scheduling and its callers provide: a dispatched call *)
(* returns, code gives up the CPU and releases the mutexes it holds after  *)
(* finitely many statements, and devices keep interrupting.                *)
Fairness ==
  /\ WF_vars(Switch)
  /\ \A q \in WaitQ \ Mutex : WF_vars(Wakeup(q))
  /\ \A t \in Thread :
       /\ WF_vars(Return(t))
       /\ WF_vars(ReturnCancelled(t))
       /\ WF_vars(Yield(t))
       /\ \A m \in Mutex : SF_vars(kmutex_unlock(t, m))

FairSpec == Spec /\ Fairness

-----------------------------------------------------------------------------
Created(t) == kt_state[t] # "KT_NO_STATE"

(* proc/sched.c: "unless the thread is in the KT_NO_STATE or KT_EXITED     *)
(* state, it should be on some queue.  Otherwise, it will never be run     *)
(* again."  Every thread is linked on a queue unless it has the CPU.       *)
NeverStranded ==
  \A t \in Thread :
    kt_wchan[t] = NULL <=> ~Created(t) \/ (t = curthr /\ ~switching)

(* No two threads are in the critical section of one mutex, whatever       *)
(* hand-overs and cancellations happened: who was told it has the mutex    *)
(* is its km_holder, so the KASSERT of kmutex_unlock never fails.          *)
MutualExclusion ==
  \A t \in Thread : \A m \in locks[t] : km_holder[m] = t

(* A sleeping thread is inside the call that put it to sleep.              *)
FramesMatch ==
  \A t \in Thread :
    kt_wchan[t] \in WaitQ =>
      /\ frame[t].q = kt_wchan[t]
      /\ kt_state[t] = "KT_SLEEP_CANCELLABLE" => Cancellable(frame[t])

(* A lock call about to return success returns it to the holder.           *)
Granted ==
  \A t \in Thread :
    /\ frame[t] \in MutexCall
    /\ kt_wchan[t] # frame[t].q
    /\ ~(Cancellable(frame[t]) /\ kt_cancelled[t])
    => km_holder[frame[t].q] = t

(* kmutex_unlock never leaves a sleeper on a mutex nobody holds: there     *)
(* would be no unlock left to wake it.                                     *)
NoForgottenWaiter ==
  \A m \in Mutex : tq[m] # <<>> => km_holder[m] # NULL

(* What makes MutualExclusion inductive: a thread that sleeps for a mutex  *)
(* and was dequeued was so by an unlock that made it the holder, or by its *)
(* cancellation, in which case its lock call fails.                        *)
IInv ==
  /\ TypeOK /\ LinksOK /\ StatesOK
  /\ Created(curthr)
  /\ NeverStranded
  /\ FramesMatch
  /\ Granted
  /\ MutualExclusion
  /\ NoForgottenWaiter

NobodyCancelled == \A t \in Thread : ~kt_cancelled[t]

(* include/proc/kmutex.h on kmutex_lock_cancellable: "-EINTR if the sleep  *)
(* was cancelled and this thread does not hold the mutex".                 *)
EintrMeansNotHeld ==
  [][\A t \in Thread :
       ReturnCancelled(t) /\ frame[t] \in MutexCall
         => km_holder[frame[t].q] # t]_vars

(* A thread that sleeps for a mutex gets it, when nobody is ever cancelled *)
(* (a cancelled one may hold it without knowing, EintrMeansNotHeld).       *)
LockGranted ==
  []NobodyCancelled => \A t \in Thread, m \in Mutex :
    (frame[t] \in MutexCall /\ frame[t].q = m) ~> m \in locks[t]

(* A cancelled thread does not stay in a cancellable call, whether it was  *)
(* cancelled before, during or after its sleep.                            *)
CancelReturns ==
  \A t \in Thread :
    (kt_cancelled[t] /\ Cancellable(frame[t]))
      ~> (frame[t] = NoCall \/ panic)

-----------------------------------------------------------------------------
(* The mutex as its callers see it. *)
Inside(m) ==
  IF \E t \in Thread : m \in locks[t]
  THEN CHOOSE t \in Thread : m \in locks[t]
  ELSE NULL

Abs == INSTANCE FairLock WITH
         Client  <- Thread,
         Lock    <- Mutex,
         NONE    <- NULL,
         owner   <- km_holder,
         waiters <- [m \in Mutex |-> tq[m]],
         inside  <- [m \in Mutex |-> Inside(m)]

(* The mutex serves its waiters first come first served: nobody overtakes  *)
(* and only the holder's unlock passes it on.                              *)
ServesInOrder == Abs!Spec
=============================================================================
