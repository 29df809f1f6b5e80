-------------------------------- MODULE Proc --------------------------------
(***************************************************************************)
(* The process life cycle, proc/proc.c and proc/kthread.c over Sched:      *)
(* creation, exit, reparenting, waitpid and proc_kill_all.  A process and  *)
(* its only thread are one element of Thread, a slot of the proc and       *)
(* kthread allocators that is used again after it was freed; slot p also   *)
(* stands for the queue p_wait of the process.                             *)
(*                                                                         *)
(* Processes run arbitrary code that creates, waits for and kills other    *)
(* processes and sleeps on devices.  Closing files (do_close, vput) may    *)
(* sleep when the file system does disk I/O (Blocking).                    *)
(***************************************************************************)
EXTENDS Sched, FiniteSets, Queues

CONSTANTS
  idle, init,  \* the two processes the kernel starts with
  Device,      \* wait queues of devices
  AnyChild,    \* the pid -1 of do_waitpid
  Blocking,    \* may closing the files of an exiting process sleep?
  Killing      \* may a process call proc_kill_all (the halt system call)?

ASSUME ProcAssumption ==
  /\ idle \in Thread /\ init \in Thread /\ idle # init
  /\ WaitQ = Thread \cup Device /\ Thread \cap Device = {}
  /\ AnyChild \notin Thread
  /\ Blocking \in BOOLEAN /\ Killing \in BOOLEAN

VARIABLES
  proc_list,   \* _proc_list, oldest first
  p_children,  \* children of each process, oldest first
  p_pproc,     \* parent of each process
  pc,          \* what each process is doing
  wpid         \* the pid argument of its do_waitpid: a process or AnyChild

treeVars == <<proc_list, p_children, p_pproc>>
vars == <<schedVars, treeVars, pc, wpid>>

PC == {"none",      \* the slot is free
       "run",       \* in code of its own
       "sleep",     \* in an uncancellable sleep on a device queue
       "csleep",    \* in a cancellable one
       "eintr",     \* unwinding from a sleep that returned -EINTR
       "waitpid",   \* in the loop of do_waitpid
       "exiting",   \* at the start of proc_cleanup
       "cleanup",   \* in proc_cleanup, after the wakeup of the parent
       "zombie",    \* past proc_cleanup
       "halted"}    \* idle only: shutting the machine down

TypeOK ==
  /\ SchedTypeOK
  /\ proc_list \in Seq(Thread)
  /\ p_children \in [Thread -> Seq(Thread)]
  /\ p_pproc \in [Thread -> Thread \cup {NULL}]
  /\ pc \in [Thread -> PC]
  /\ wpid \in [Thread -> Thread \cup {AnyChild, NULL}]

(* idle has created init, made it runnable and is about to wait for it.    *)
Init ==
  /\ curthr = idle
  /\ tq = [q \in Queue |-> IF q = kt_runq THEN <<init>> ELSE <<>>]
  /\ kt_wchan = [t \in Thread |-> IF t = init THEN kt_runq ELSE NULL]
  /\ kt_state = [t \in Thread |->
                   IF t \in {idle, init} THEN "KT_RUN" ELSE "KT_NO_STATE"]
  /\ kt_cancelled = [t \in Thread |-> FALSE]
  /\ p_state = [t \in Thread |->
                  IF t \in {idle, init} THEN "PROC_RUNNING" ELSE "PROC_NONE"]
  /\ switching = FALSE
  /\ panic = FALSE
  /\ proc_list = <<idle, init>>
  /\ p_children = [t \in Thread |-> IF t = idle THEN <<init>> ELSE <<>>]
  /\ p_pproc = [t \in Thread |-> IF t = init THEN idle ELSE NULL]
  /\ pc = [t \in Thread |-> IF t \in {idle, init} THEN "run" ELSE "none"]
  /\ wpid = [t \in Thread |-> NULL]

-----------------------------------------------------------------------------
At(p, l)   == Running(p) /\ pc[p] = l
Goto(p, l) == pc' = [pc EXCEPT ![p] = l]

(* The code of process p starts a kernel operation.  A cancelled process   *)
(* does not get that far: syscall_handler makes it exit.                   *)
Calls(p) == At(p, "run") /\ ~kt_cancelled[p]

(* proc_create, kthread_create or kthread_clone, sched_make_runnable: how  *)
(* do_fork and the kernel's own code start a process.                      *)
proc_create(p, c) ==
  /\ Calls(p) /\ p # idle
  /\ pc[c] = "none"
  /\ proc_list' = Append(proc_list, c)
  /\ p_children' = [p_children EXCEPT ![p] = Append(@, c), ![c] = <<>>]
  /\ p_pproc' = [p_pproc EXCEPT ![c] = p]
  /\ p_state' = [p_state EXCEPT ![c] = "PROC_RUNNING"]
  /\ kt_cancelled' = [kt_cancelled EXCEPT ![c] = kt_cancelled[p]]
  /\ sched_make_runnable(c)
  /\ Goto(c, "run")
  /\ UNCHANGED <<curthr, switching, wpid>>

(* Disk or terminal I/O sleeps on a device queue, several times in one     *)
(* system call perhaps, so a cancelled process may get here as well.       *)
Sleep(p, q) ==
  /\ At(p, "run") /\ p # idle
  /\ sched_sleep_on(q)
  /\ Goto(p, "sleep")
  /\ UNCHANGED <<treeVars, wpid>>

CancellableSleep(p, q) ==
  /\ At(p, "run") /\ p # idle
  /\ sched_cancellable_sleep_on(q)
  /\ Goto(p, "csleep")
  /\ UNCHANGED <<treeVars, wpid>>

(* The sleep returns 0 ... *)
Wake(p) ==
  /\ \/ At(p, "sleep")
     \/ At(p, "csleep") /\ ~kt_cancelled[p]
  /\ Goto(p, "run")
  /\ UNCHANGED <<schedVars, treeVars, wpid>>

(* ... or -EINTR, at once or after it was cut short. *)
WakeCancelled(p) ==
  /\ At(p, "run") \/ At(p, "csleep")
  /\ SleepCancelled
  /\ Goto(p, "eintr")
  /\ UNCHANGED <<treeVars, wpid>>

-----------------------------------------------------------------------------
(* Mutant of do_exit: kthread_exit leaves kt_state as it was. *)
do_exit_NoState(p) ==
  /\ At(p, "run") \/ At(p, "eintr")
  /\ p # idle
  /\ p = init => p_children[init] = <<>>
  /\ kt_cancelled' = [kt_cancelled EXCEPT ![p] = TRUE]
  /\ kt_wchan' = [kt_wchan EXCEPT ![p] = NULL]
  /\ Goto(p, "exiting")
  /\ UNCHANGED <<tq, kt_state, p_state, curthr, switching, panic, treeVars,
                 wpid>>

(* do_exit and kthread_exit up to proc_cleanup.  The init program exits    *)
(* when its wait() has returned ECHILD.                                    *)
do_exit(p) ==
  /\ At(p, "run") \/ At(p, "eintr")
  /\ p # idle
  /\ p = init => p_children[init] = <<>>
  /\ kt_cancelled' = [kt_cancelled EXCEPT ![p] = TRUE]
  /\ kt_wchan' = [kt_wchan EXCEPT ![p] = NULL]
  /\ kt_state' = [kt_state EXCEPT ![p] = "KT_EXITED"]
  /\ Goto(p, "exiting")
  /\ UNCHANGED <<tq, p_state, curthr, switching, panic, treeVars, wpid>>

(* Mutant of WakeParent: nobody is woken. *)
WakeParent_Silent(p) ==
  /\ At(p, "exiting")
  /\ Goto(p, "cleanup")
  /\ UNCHANGED <<schedVars, treeVars, wpid>>

(* proc_cleanup first wakes the parent, should it be in do_waitpid. *)
WakeParent(p) ==
  /\ At(p, "exiting")
  /\ \/ tq[p_pproc[p]] = <<>> /\ UNCHANGED schedVars
     \/ sched_wakeup_on(p_pproc[p])
  /\ Goto(p, "cleanup")
  /\ UNCHANGED <<treeVars, wpid>>

(* do_close of a file or vput of the working directory waits for the disk. *)
CloseSleeps(p, q) ==
  /\ Blocking
  /\ At(p, "cleanup")
  /\ sched_sleep_on(q)
  /\ UNCHANGED <<treeVars, pc, wpid>>

(* Mutant of proc_cleanup: the children change lists, not parents. *)
proc_cleanup_KeepsParent(p) ==
  /\ At(p, "cleanup")
  /\ p_children' = IF p = init THEN p_children
                   ELSE [p_children EXCEPT ![p] = <<>>,
                                           ![init] = @ \o p_children[p]]
  /\ p_state' = [p_state EXCEPT ![p] = "PROC_DEAD"]
  /\ switching' = TRUE
  /\ Goto(p, "zombie")
  /\ UNCHANGED <<queueVars, kt_cancelled, curthr, panic, proc_list, p_pproc,
                 wpid>>

(* The rest of proc_cleanup, reparenting included, and the sched_switch    *)
(* of proc_thread_exited, from which the thread does not come back.        *)
proc_cleanup(p) ==
  /\ At(p, "cleanup")
  /\ IF p # init
     THEN /\ p_children' = [p_children EXCEPT ![p] = <<>>,
                                              ![init] = @ \o p_children[p]]
          /\ p_pproc' = [c \in Thread |->
                           IF c \in ToSet(p_children[p]) THEN init
                           ELSE p_pproc[c]]
     ELSE UNCHANGED <<p_children, p_pproc>>
  /\ p_state' = [p_state EXCEPT ![p] = "PROC_DEAD"]
  /\ switching' = TRUE
  /\ Goto(p, "zombie")
  /\ UNCHANGED <<queueVars, kt_cancelled, curthr, panic, proc_list, wpid>>

-----------------------------------------------------------------------------
(* Mutant of cleanupDeadProcess: without the KASSERT. *)
cleanupDeadProcess_Unchecked(p, c) ==
  /\ proc_list' = RemoveFirst(proc_list, c)
  /\ p_children' = [p_children EXCEPT ![p] = RemoveFirst(@, c)]
  /\ p_pproc' = [p_pproc EXCEPT ![c] = NULL]
  /\ p_state' = [p_state EXCEPT ![c] = "PROC_NONE"]
  /\ kt_state' = [kt_state EXCEPT ![c] = "KT_NO_STATE"]
  /\ kt_cancelled' = [kt_cancelled EXCEPT ![c] = FALSE]
  /\ pc' = [pc EXCEPT ![c] = "none",
                      ![p] = IF p = idle THEN "halted" ELSE "run"]
  /\ wpid' = [wpid EXCEPT ![p] = NULL]
  /\ UNCHANGED <<tq, kt_wchan, curthr, switching, panic>>

(* cleanupDeadProcess: the parent p takes its child c out of every list    *)
(* and frees it, provided the thread of c has state KT_EXITED (KASSERT).   *)
cleanupDeadProcess(p, c) ==
  \/ /\ kt_state[c] = "KT_EXITED"
     /\ proc_list' = RemoveFirst(proc_list, c)
     /\ p_children' = [p_children EXCEPT ![p] = RemoveFirst(@, c)]
     /\ p_pproc' = [p_pproc EXCEPT ![c] = NULL]
     /\ p_state' = [p_state EXCEPT ![c] = "PROC_NONE"]
     /\ kt_state' = [kt_state EXCEPT ![c] = "KT_NO_STATE"]
     /\ kt_cancelled' = [kt_cancelled EXCEPT ![c] = FALSE]
     /\ pc' = [pc EXCEPT ![c] = "none",
                         ![p] = IF p = idle THEN "halted" ELSE "run"]
     /\ wpid' = [wpid EXCEPT ![p] = NULL]
     /\ UNCHANGED <<tq, kt_wchan, curthr, switching, panic>>
  \/ /\ AssertFails(kt_state[c] = "KT_EXITED")
     /\ UNCHANGED <<treeVars, pc, wpid>>

(* One round of the loop of do_waitpid(w): the first dead child that was   *)
(* asked for is reaped; without one the process sleeps on its p_wait.      *)
Scan(p, w) ==
  LET child == p_children[p]
      dead  == {i \in DOMAIN child : /\ p_state[child[i]] = "PROC_DEAD"
                                     /\ w \in {AnyChild, child[i]}}
  IN \/ /\ dead # {}
        /\ cleanupDeadProcess(p, child[Min(dead)])
     \/ /\ dead = {}
        /\ sched_sleep_on(p)
        /\ Goto(p, "waitpid")
        /\ wpid' = [wpid EXCEPT ![p] = w]
        /\ UNCHANGED treeVars

(* -ECHILD, for no children or for a pid that is not a child's, changes    *)
(* nothing.  idle and init (user/sbin/init.c) wait for any child.          *)
do_waitpid(p, w) ==
  /\ Calls(p)
  /\ IF w = AnyChild THEN p_children[p] # <<>> ELSE w \in ToSet(p_children[p])
  /\ p \in {idle, init} => w = AnyChild
  /\ Scan(p, w)

WaitAgain(p) == At(p, "waitpid") /\ Scan(p, wpid[p])

-----------------------------------------------------------------------------
(* sys_halt: kthread_cancel of every process but idle and its children,    *)
(* then do_exit.                                                           *)
Victims(p) ==
  {v \in ToSet(proc_list) \ {idle, p} : p_pproc[v] # idle}

(* Mutant of proc_kill_all: the cancelled sleepers are not woken. *)
proc_kill_all_FlagsOnly(p) ==
  /\ Killing
  /\ Calls(p) /\ p \notin {idle, init}
  /\ kt_cancelled' = [t \in Thread |->
                        kt_cancelled[t] \/ t \in Victims(p) \cup {p}]
  /\ kt_state' = [kt_state EXCEPT ![p] = "KT_EXITED"]
  /\ Goto(p, "exiting")
  /\ UNCHANGED <<tq, kt_wchan, p_state, curthr, switching, panic, treeVars,
                 wpid>>

proc_kill_all(p) ==
  LET woken == {v \in Victims(p) : kt_state[v] = "KT_SLEEP_CANCELLABLE"}
      cut   == Only(proc_list, woken)
  IN /\ Killing
     /\ Calls(p) /\ p \notin {idle, init}
     /\ kt_cancelled' = [t \in Thread |->
                           kt_cancelled[t] \/ t \in Victims(p) \cup {p}]
     /\ tq' = [q \in Queue |->
                 IF q = kt_runq THEN tq[q] \o cut
                 ELSE Only(tq[q], Thread \ woken)]
     /\ kt_wchan' = [t \in Thread |->
                       IF t \in woken THEN kt_runq ELSE kt_wchan[t]]
     /\ kt_state' = [t \in Thread |->
                       IF t \in woken THEN "KT_RUN"
                       ELSE IF t = p THEN "KT_EXITED" ELSE kt_state[t]]
     /\ Goto(p, "exiting")
     /\ UNCHANGED <<p_state, curthr, switching, panic, treeVars, wpid>>

Interrupt(q) ==
  /\ ~panic
  /\ sched_wakeup_on(q) \/ sched_broadcast_on(q)
  /\ UNCHANGED <<treeVars, pc, wpid>>

Switch == sched_switch /\ UNCHANGED <<treeVars, pc, wpid>>

(* What process p does of its own accord ... *)
Operation(p) ==
  \/ \E c \in Thread : proc_create(p, c)
  \/ \E q \in Device : Sleep(p, q) \/ CancellableSleep(p, q)
  \/ \E w \in Thread \cup {AnyChild} : do_waitpid(p, w)
  \/ do_exit(p)
  \/ proc_kill_all(p)

(* ... and how its calls go on. *)
Continue(p) ==
  \/ Wake(p) \/ WakeCancelled(p) \/ WaitAgain(p)
  \/ WakeParent(p) \/ proc_cleanup(p)
  \/ \E q \in Device : CloseSleeps(p, q)

Next ==
  \/ \E p \in Thread : Operation(p) \/ Continue(p)
  \/ \E q \in Device : Interrupt(q)
  \/ Switch

Spec == Init /\ [][Next]_vars

DiskSleeper(q) == \E t \in ToSet(tq[q]) : kt_state[t] = "KT_SLEEP"

(* Dispatched calls go on, a device interrupts when an uncancellable sleep *)
(* waits for it (a terminal need not), a process that was cancelled meets  *)
(* the check of syscall_handler after finitely many sleeps, and idle and   *)
(* init sit in their wait loops.                                           *)
Fairness ==
  /\ WF_vars(Switch)
  /\ \A q \in Device : WF_vars(DiskSleeper(q) /\ Interrupt(q))
  /\ \A p \in Thread :
       /\ WF_vars(Wake(p) \/ WaitAgain(p))
       /\ WF_vars(WakeCancelled(p))
       /\ WF_vars(WakeParent(p)) /\ WF_vars(proc_cleanup(p))
       /\ SF_vars(do_exit(p) /\ (kt_cancelled[p] \/ pc[p] = "eintr"))
       /\ WF_vars(\E q \in Device : Sleep(p, q))
  /\ WF_vars(do_waitpid(idle, AnyChild)) /\ SF_vars(do_waitpid(init, AnyChild))

FairSpec == Spec /\ Fairness

(* All input comes and all processes exit in the end. *)
AllExit ==
  /\ \A q \in Device : WF_vars(Interrupt(q))
  /\ \A p \in Thread \ {init} : SF_vars(do_exit(p))

-----------------------------------------------------------------------------
Live(p) == pc[p] # "none"

NoDuplicates(s) == \A i, j \in DOMAIN s : s[i] = s[j] => i = j

(* _proc_list, the p_children lists and the p_pproc pointers describe one  *)
(* tree of live processes, through exits in any order, reparenting and the *)
(* reuse of freed slots: no process has a freed parent or is on a freed    *)
(* process's list.                                                         *)
TreeOK ==
  /\ NoDuplicates(proc_list)
  /\ \A p \in Thread : Live(p) <=> p \in ToSet(proc_list)
  /\ \A p \in Thread : Live(p) =>
       /\ p # idle => p_pproc[p] \in Thread /\ Live(p_pproc[p])
       /\ NoDuplicates(p_children[p])
       /\ ToSet(p_children[p]) = {c \in Thread : Live(c) /\ p_pproc[c] = p}

(* do_waitpid frees a process no queue and no CPU still refers to, and a   *)
(* process that has not exited is on a queue or has the CPU: it will run.  *)
NoUseAfterFree ==
  \A p \in Thread :
    LET current == p = curthr /\ ~switching IN
    IF pc[p] \in {"none", "zombie"}
    THEN kt_wchan[p] = NULL /\ ~current /\ (p = curthr => Live(p))
    ELSE (kt_wchan[p] # NULL) # current

(* The child w of p that do_waitpid was called for has exited. *)
HasExited(p, w) ==
  \E c \in ToSet(p_children[p]) : pc[c] = "zombie" /\ w \in {AnyChild, c}

(* proc/proc.c on do_waitpid: "if all children of this process are still   *)
(* running, then this function blocks on its own p_wait queue until one    *)
(* exits".  A process whose children are its own does not sleep on while   *)
(* one it waits for is a zombie.                                           *)
BlocksUntilOneExits ==
  \A p \in Thread \ {init} : kt_wchan[p] = p => ~HasExited(p, wpid[p])

(* No KASSERT fails: in particular a reaped child's thread is KT_EXITED    *)
(* (proc/proc.c, cleanupDeadProcess).                                      *)
NoPanic == ~panic

(* A parent that waits for any child, when its children exit in the end,   *)
(* gets one of them.                                                       *)
WaitpidReturns ==
  AllExit => \A p \in Thread \ {init, idle} : pc[p] = "waitpid" ~> pc[p] = "run"

(* After the halt system call every cancelled process exits, whatever it   *)
(* slept on and whoever it waited for.                                     *)
HaltKills ==
  \A p \in Thread : kt_cancelled[p] ~> pc[p] \in {"none", "zombie"}
=============================================================================
