-------------------------------- MODULE Idle --------------------------------
(***************************************************************************)
(* sched_switch (proc/sched.c) against interrupts, one instruction at a    *)
(* time.  Sched takes it as one step; here the CPU's interrupt priority    *)
(* level and interrupt flag decide between which of its statements a       *)
(* handler may run and put a thread on the run queue.                      *)
(*                                                                         *)
(* Each thread sleeps for a request of its own that its device completes   *)
(* with one interrupt; the keyboard interrupts at any time and its handler *)
(* may wake nobody.                                                        *)
(***************************************************************************)
EXTENDS Naturals, Sequences, SequencesExt

CONSTANTS
  Thread,    \* the kernel threads, each standing for its device request too
  keyboard   \* an interrupt source no thread waits for

ASSUME IdleAssumption ==
  keyboard \notin Thread /\ Thread # {} /\ IsFiniteSet(Thread)

VARIABLES
  at,        \* the next statement of the current thread
  curthr,    \* the current thread
  kt_runq,   \* the run queue
  ipl,       \* the CPU's interrupt priority level
  iflag,     \* does the CPU accept interrupts at all (sti, cli)?
  curipl,    \* the local curipl of each thread's sched_switch
  request,   \* threads whose device is still working on their request
  raised     \* interrupts that were raised and not handled yet

cpuVars == <<ipl, iflag>>
devVars == <<request, raised>>
vars == <<at, curthr, kt_runq, cpuVars, curipl, devVars>>

Statement == {"thread",            \* in code of its own
              "raise",             \* intr_setipl(IPL_HIGH) before the loop
              "test",              \* while (sched_queue_empty(&kt_runq))
              "disable", "lower",  \* intr_disable(); intr_setipl(IPL_LOW)
              "wait",              \* intr_wait: sti, hlt
              "halted",            \* in the hlt
              "mask",              \* intr_setipl(IPL_HIGH) after the loop
              "dequeue"}           \* ktqueue_dequeue and context_switch
IPL == {"low", "device", "high"}  \* "device" blocks the device interrupts

TypeOK ==
  /\ at \in Statement
  /\ curthr \in Thread
  /\ kt_runq \in Seq(Thread)
  /\ ipl \in IPL /\ iflag \in BOOLEAN
  /\ curipl \in [Thread -> IPL]
  /\ request \subseteq Thread
  /\ raised \subseteq Thread \cup {keyboard}

(* One thread runs; the others were made runnable when they were created. *)
Init ==
  /\ at = "thread"
  /\ curthr \in Thread
  /\ kt_runq = SetToSeq(Thread \ {curthr})
  /\ ipl = "low" /\ iflag = TRUE
  /\ curipl = [t \in Thread |-> "low"]
  /\ request = {} /\ raised = {}

-----------------------------------------------------------------------------
Step(from, to) == at = from /\ at' = to
SetIpl(l) == ipl' = l /\ UNCHANGED iflag

(* The current thread starts a request and sleeps until it is complete,    *)
(* with its device's interrupt blocked until then (as drivers/disk/ata.c). *)
Sleep ==
  /\ Step("thread", "raise")
  /\ request' = request \cup {curthr}
  /\ \E l \in {"low", "device"} :
       /\ SetIpl(l)
       /\ curipl' = [curipl EXCEPT ![curthr] = l]   \* intr_getipl()
  /\ UNCHANGED <<curthr, kt_runq, raised>>

(* ... or gives the CPU up, with no interrupt blocked. *)
Yield ==
  /\ Step("thread", "raise")
  /\ kt_runq' = Append(kt_runq, curthr)
  /\ SetIpl("low")
  /\ curipl' = [curipl EXCEPT ![curthr] = "low"]
  /\ UNCHANGED <<curthr, devVars>>

Raise ==
  /\ Step("raise", "test")
  /\ SetIpl("high")
  /\ UNCHANGED <<curthr, kt_runq, curipl, devVars>>

Test ==
  /\ Step("test", IF kt_runq = <<>> THEN "disable" ELSE "mask")
  /\ UNCHANGED <<curthr, kt_runq, cpuVars, curipl, devVars>>

Disable ==
  /\ Step("disable", "lower")
  /\ iflag' = FALSE
  /\ UNCHANGED <<curthr, kt_runq, ipl, curipl, devVars>>

(* Mutant of Lower: the level stays high, the interrupt waited for masked. *)
Lower_StaysHigh ==
  /\ Step("lower", "wait")
  /\ UNCHANGED <<curthr, kt_runq, cpuVars, curipl, devVars>>

Lower ==
  /\ Step("lower", "wait")
  /\ SetIpl("low")
  /\ UNCHANGED <<curthr, kt_runq, curipl, devVars>>

(* sti takes effect after the hlt: no interrupt comes in between. *)
intr_wait ==
  /\ Step("wait", "halted")
  /\ iflag' = TRUE
  /\ UNCHANGED <<curthr, kt_runq, ipl, curipl, devVars>>

(* Mutant of Mask: the loop is left with the level it lowered. *)
Mask_Forgotten ==
  /\ Step("mask", "dequeue")
  /\ UNCHANGED <<curthr, kt_runq, cpuVars, curipl, devVars>>

Mask ==
  /\ Step("mask", "dequeue")
  /\ SetIpl("high")
  /\ UNCHANGED <<curthr, kt_runq, curipl, devVars>>

(* Mutants of Dequeue: the level is not restored; the thread that is       *)
(* switched to stays linked.                                               *)
Dequeue_KeepsIpl ==
  /\ Step("dequeue", "thread")
  /\ kt_runq # <<>>
  /\ curthr' = Head(kt_runq)
  /\ kt_runq' = Tail(kt_runq)
  /\ UNCHANGED <<cpuVars, curipl, devVars>>

Dequeue_KeepsLink ==
  /\ Step("dequeue", "thread")
  /\ kt_runq # <<>>
  /\ curthr' = Head(kt_runq)
  /\ SetIpl(curipl[curthr'])
  /\ UNCHANGED <<kt_runq, curipl, devVars>>

(* ktqueue_dequeue, context_switch and, in the thread switched to, the     *)
(* intr_setipl(curipl) at its end (IPL_LOW in __context_initial_func).     *)
Dequeue ==
  /\ Step("dequeue", "thread")
  /\ kt_runq # <<>>
  /\ curthr' = Head(kt_runq)
  /\ kt_runq' = Tail(kt_runq)
  /\ SetIpl(curipl[curthr'])
  /\ UNCHANGED <<curipl, devVars>>

-----------------------------------------------------------------------------
(* A device completes a request; somebody presses a key. *)
Complete(t) ==
  /\ t \in request
  /\ request' = request \ {t}
  /\ raised' = raised \cup {t}
  /\ UNCHANGED <<at, curthr, kt_runq, cpuVars, curipl>>

KeyPress ==
  /\ raised' = raised \cup {keyboard}
  /\ UNCHANGED <<at, curthr, kt_runq, cpuVars, curipl, request>>

Masked == ~iflag \/ ipl # "low"

(* A handler runs to its end; the one of a device makes the thread that    *)
(* waits for it runnable.  An interrupt ends the hlt.                      *)
Interrupt(d) ==
  /\ d \in raised /\ ~Masked
  /\ raised' = raised \ {d}
  /\ kt_runq' = IF d = keyboard THEN kt_runq ELSE Append(kt_runq, d)
  /\ at' = IF at = "halted" THEN "test" ELSE at
  /\ UNCHANGED <<curthr, cpuVars, curipl, request>>

Cpu ==
  \/ Sleep \/ Yield
  \/ Raise \/ Test \/ Disable \/ Lower \/ intr_wait \/ Mask \/ Dequeue

Next ==
  \/ Cpu
  \/ \E t \in Thread : Complete(t)
  \/ KeyPress
  \/ \E d \in Thread \cup {keyboard} : Interrupt(d)

Spec == Init /\ [][Next]_vars

(* The CPU executes, devices complete what they were asked to do and their *)
(* interrupts are delivered when they are not masked.                      *)
Fairness ==
  /\ WF_vars(Cpu)
  /\ \A t \in Thread : WF_vars(Complete(t))
  /\ \A d \in Thread \cup {keyboard} : SF_vars(Interrupt(d))

(* With a user who types on.  (The kernel starts no periodic timer.)       *)
TypingSpec == Spec /\ Fairness /\ WF_vars(KeyPress)

-----------------------------------------------------------------------------
(* A thread is dispatched from a run queue no handler can change under it  *)
(* and that is not empty: ktqueue_dequeue returns a thread.                *)
DequeueIsSafe == at = "dequeue" => Masked /\ kt_runq # <<>>

(* The IPL is the thread's own: it runs on with the level it slept with,   *)
(* however often the loop lowered the CPU's for others ("The IPL is        *)
(* process specific", proc/sched.c).                                       *)
IplIsPerThread == at = "thread" => ipl = curipl[curthr] /\ iflag

(* Every thread is in exactly one place: it has the CPU, is runnable or    *)
(* waits for an interrupt that is still to come.                           *)
OnePlace ==
  \A t \in Thread :
    LET inRunq  == t \in ToSet(kt_runq)
        waiting == t \in request \cup raised
        current == t = curthr /\ at = "thread"
    IN /\ inRunq \/ waiting \/ current
       /\ ~(inRunq /\ waiting) /\ ~(waiting /\ current) /\ ~(current /\ inRunq)
       /\ \A i, j \in DOMAIN kt_runq : kt_runq[i] = kt_runq[j] => i = j
       /\ ~(t \in request /\ t \in raised)

(* A thread that sleeps for a device or is runnable gets the CPU again, as *)
(* long as interrupts keep coming, also when the processor was halted.     *)
EveryThreadRuns ==
  \A t \in Thread : []<>(t = curthr /\ at = "thread")

(* proc/sched.c on sched_switch: "mask all interrupts before reading or    *)
(* modifying the run queue and re-enable interrupts when you are done": no *)
(* handler changes the run queue between the test that found it empty and  *)
(* the hlt, so the processor does not halt over a runnable thread.         *)
HaltsOnlyWhenIdle == at = "halted" => kt_runq = <<>>
=============================================================================
