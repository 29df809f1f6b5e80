------------------------------- MODULE Sched -------------------------------
(***************************************************************************)
(* The thread scheduler of the kernel, proc/sched.c: the run queue, the    *)
(* wait queues every blocking kernel call sleeps on, and the switch        *)
(* between threads.  The kernel runs on one CPU and is not preemptive      *)
(* (UPREEMPT=0): a thread keeps the CPU until it calls sched_switch, and   *)
(* only interrupt handlers run in between.  This module has the state and  *)
(* one operator per function; KMutex and Proc, which EXTEND it, say who    *)
(* calls them.                                                             *)
(*                                                                         *)
(* A process has exactly one thread (MTP=0), so p_state, which             *)
(* sched_cancellable_sleep_on writes, is indexed by the thread.            *)
(***************************************************************************)
EXTENDS Naturals, Sequences, SequencesExt

CONSTANTS
  Thread,    \* the kthread_t objects
  WaitQ,     \* every ktqueue_t other than the run queue
  kt_runq,   \* the run queue
  NULL       \* the null pointer

ASSUME SchedAssumption ==
  /\ kt_runq \notin WaitQ
  /\ NULL \notin Thread
  /\ NULL \notin WaitQ \cup {kt_runq}

Queue == WaitQ \cup {kt_runq}

VARIABLES
  tq,            \* tq_list of each queue, the next thread to dequeue first
  kt_wchan,      \* the queue each thread is linked on, or NULL
  kt_state,      \* scheduling state of each thread
  kt_cancelled,  \* has the thread been cancelled?
  p_state,       \* state of the thread's process
  curthr,        \* the current thread
  switching,     \* is curthr in sched_switch, looking for a runnable thread?
  panic          \* has a KASSERT failed? (the kernel has stopped)

queueVars == <<tq, kt_wchan, kt_state>>
schedVars == <<tq, kt_wchan, kt_state, kt_cancelled, p_state, curthr,
               switching, panic>>

SleepState  == {"KT_SLEEP", "KT_SLEEP_CANCELLABLE"}
ThreadState == {"KT_NO_STATE", "KT_RUN", "KT_EXITED"} \cup SleepState
ProcState   == {"PROC_NONE", "PROC_RUNNING", "PROC_DEAD"}

SchedTypeOK ==
  /\ tq \in [Queue -> Seq(Thread)]
  /\ kt_wchan \in [Thread -> Queue \cup {NULL}]
  /\ kt_state \in [Thread -> ThreadState]
  /\ kt_cancelled \in [Thread -> BOOLEAN]
  /\ p_state \in [Thread -> ProcState]
  /\ curthr \in Thread
  /\ switching \in BOOLEAN
  /\ panic \in BOOLEAN

(* Thread t has the CPU and is executing code of its own. *)
Running(t) == curthr = t /\ ~switching /\ ~panic

(* A KASSERT of the current thread fails: panic() halts the machine. *)
AssertFails(P) ==
  /\ ~P
  /\ panic' = TRUE
  /\ UNCHANGED <<queueVars, kt_cancelled, p_state, curthr, switching>>

-----------------------------------------------------------------------------
(* Mutant of EnqueueAs: the thread is linked at the wrong end. *)
EnqueueAs_Lifo(q, t, s) ==
  /\ panic' = (kt_wchan[t] # NULL)
  /\ tq' = [tq EXCEPT ![q] = <<t>> \o @]
  /\ kt_wchan' = [kt_wchan EXCEPT ![t] = q]
  /\ kt_state' = [kt_state EXCEPT ![t] = s]

(* Thread t, linked on no queue, is put on queue q in state s.             *)
EnqueueAs(q, t, s) ==
  /\ panic' = (kt_wchan[t] # NULL)
  /\ tq' = [tq EXCEPT ![q] = Append(@, t)]
  /\ kt_wchan' = [kt_wchan EXCEPT ![t] = q]
  /\ kt_state' = [kt_state EXCEPT ![t] = s]

sched_make_runnable(t) == EnqueueAs(kt_runq, t, "KT_RUN")

(* The current thread goes to sleep and looks for another one to run. *)
SleepAs(q, s) ==
  /\ EnqueueAs(q, curthr, s)
  /\ switching' = TRUE
  /\ UNCHANGED <<kt_cancelled, p_state, curthr>>

sched_sleep_on(q) == SleepAs(q, "KT_SLEEP")

(* Mutant of SleepCancelled: the thread's state is stored in p_state. *)
SleepCancelled_WrongEnum ==
  /\ kt_cancelled[curthr]
  /\ p_state' = [p_state EXCEPT ![curthr] = "KT_EXITED"]
  /\ UNCHANGED <<queueVars, kt_cancelled, curthr, switching, panic>>

(* Both exits of sched_cancellable_sleep_on that return -EINTR: the sleep  *)
(* that is refused and the one that is cut short.  The thread keeps running*)
SleepCancelled ==
  /\ kt_cancelled[curthr]
  /\ p_state' = [p_state EXCEPT ![curthr] = "PROC_DEAD"]
  /\ kt_state' = [kt_state EXCEPT ![curthr] = "KT_EXITED"]
  /\ UNCHANGED <<tq, kt_wchan, kt_cancelled, curthr, switching, panic>>

(* The part of sched_cancellable_sleep_on that gives up the CPU. *)
sched_cancellable_sleep_on(q) ==
  /\ ~kt_cancelled[curthr]
  /\ SleepAs(q, "KT_SLEEP_CANCELLABLE")

(* Mutant of sched_wakeup_on: the sleeper is dequeued, not made runnable. *)
sched_wakeup_on_Forgets(q) ==
  /\ tq[q] # <<>>
  /\ tq' = [tq EXCEPT ![q] = Tail(@)]
  /\ kt_wchan' = [kt_wchan EXCEPT ![Head(tq[q])] = NULL]
  /\ UNCHANGED <<kt_state, kt_cancelled, p_state, curthr, switching, panic>>

(* The longest-waiting thread of q becomes runnable. *)
sched_wakeup_on(q) ==
  /\ tq[q] # <<>>
  /\ LET t == Head(tq[q]) IN
       /\ panic' = (kt_state[t] \notin SleepState)
       /\ tq' = [tq EXCEPT ![q] = Tail(@), ![kt_runq] = Append(@, t)]
       /\ kt_wchan' = [kt_wchan EXCEPT ![t] = kt_runq]
       /\ kt_state' = [kt_state EXCEPT ![t] = "KT_RUN"]
  /\ UNCHANGED <<kt_cancelled, p_state, curthr, switching>>

(* Mutant of sched_broadcast_on: one thread is woken in a loop that stops  *)
(* too early, the rest of the queue is dropped.                            *)
sched_broadcast_on_DropsRest(q) ==
  /\ tq[q] # <<>>
  /\ LET t == Head(tq[q]) IN
       /\ tq' = [tq EXCEPT ![q] = <<>>, ![kt_runq] = Append(@, t)]
       /\ kt_wchan' = [kt_wchan EXCEPT ![t] = kt_runq]
       /\ kt_state' = [kt_state EXCEPT ![t] = "KT_RUN"]
  /\ UNCHANGED <<kt_cancelled, p_state, curthr, switching, panic>>

(* Every thread of q becomes runnable, the longest-waiting one first. *)
sched_broadcast_on(q) ==
  LET woken == ToSet(tq[q]) IN
    /\ tq[q] # <<>>
    /\ panic' = (\E t \in woken : kt_state[t] \notin SleepState)
    /\ tq' = [tq EXCEPT ![q] = <<>>, ![kt_runq] = @ \o tq[q]]
    /\ kt_wchan' = [t \in Thread |->
                      IF t \in woken THEN kt_runq ELSE kt_wchan[t]]
    /\ kt_state' = [t \in Thread |->
                      IF t \in woken THEN "KT_RUN" ELSE kt_state[t]]
    /\ UNCHANGED <<kt_cancelled, p_state, curthr, switching>>

(* Mutants of sched_cancel: the sleeper is made runnable without leaving   *)
(* its queue; only the flag is set.                                        *)
sched_cancel_StaysLinked(t) ==
  /\ kt_cancelled' = [kt_cancelled EXCEPT ![t] = TRUE]
  /\ IF kt_state[t] = "KT_SLEEP_CANCELLABLE"
     THEN /\ tq' = [tq EXCEPT ![kt_runq] = Append(@, t)]
          /\ kt_wchan' = [kt_wchan EXCEPT ![t] = kt_runq]
          /\ kt_state' = [kt_state EXCEPT ![t] = "KT_RUN"]
     ELSE UNCHANGED queueVars
  /\ UNCHANGED <<p_state, curthr, switching, panic>>

sched_cancel_FlagOnly(t) ==
  /\ kt_cancelled' = [kt_cancelled EXCEPT ![t] = TRUE]
  /\ UNCHANGED <<queueVars, p_state, curthr, switching, panic>>

(* sched_cancel of another thread: a cancellable sleeper leaves its queue. *)
sched_cancel(t) ==
  /\ kt_cancelled' = [kt_cancelled EXCEPT ![t] = TRUE]
  /\ IF kt_state[t] = "KT_SLEEP_CANCELLABLE"
     THEN /\ tq' = [tq EXCEPT ![kt_wchan[t]] = RemoveFirst(@, t),
                              ![kt_runq] = Append(@, t)]
          /\ kt_wchan' = [kt_wchan EXCEPT ![t] = kt_runq]
          /\ kt_state' = [kt_state EXCEPT ![t] = "KT_RUN"]
     ELSE UNCHANGED queueVars
  /\ UNCHANGED <<p_state, curthr, switching, panic>>

(* sched_switch finds the run queue non-empty and switches to its head.    *)
sched_switch ==
  /\ switching /\ ~panic
  /\ tq[kt_runq] # <<>>
  /\ LET t == Head(tq[kt_runq]) IN
       /\ curthr' = t
       /\ tq' = [tq EXCEPT ![kt_runq] = Tail(@)]
       /\ kt_wchan' = [kt_wchan EXCEPT ![t] = NULL]
       /\ kt_state' = [kt_state EXCEPT ![t] = "KT_RUN"]
  /\ switching' = FALSE
  /\ UNCHANGED <<kt_cancelled, p_state, panic>>

-----------------------------------------------------------------------------
(* The link structure is consistent: a thread is on the queue its kt_wchan *)
(* names, once, and on no other (what the KASSERTs of ktqueue_enqueue,     *)
(* ktqueue_remove and sched_wakeup_on rely on).                            *)
LinksOK ==
  /\ \A q \in Queue : \A i, j \in DOMAIN tq[q] : tq[q][i] = tq[q][j] => i = j
  /\ \A q \in Queue, t \in Thread : t \in ToSet(tq[q]) <=> kt_wchan[t] = q

(* The state of a linked thread is the one its queue calls for. *)
StatesOK ==
  \A t \in Thread :
    /\ kt_wchan[t] \in WaitQ => kt_state[t] \in SleepState
    /\ kt_wchan[t] = kt_runq => kt_state[t] = "KT_RUN"
    /\ kt_state[t] = "KT_SLEEP_CANCELLABLE" =>
         /\ kt_wchan[t] \in WaitQ
         /\ ~kt_cancelled[t]

(* sched.c: queues and threads agree about where each thread is, once, and *)
(* about its state, which decides what a cancellation does.                *)
QueuesOK == LinksOK /\ StatesOK
=============================================================================
