-------------------------------- MODULE Pids --------------------------------
(***************************************************************************)
(* The numbers of processes: _proc_getid of proc/proc.c, which looks for   *)
(* the next free one among PROC_MAX_COUNT, proc_create, which stores what  *)
(* it returns, and the processes that are reaped meanwhile.                *)
(***************************************************************************)
EXTENDS Integers, FiniteSets

CONSTANTS
  Slot,            \* processes that may exist at once
  PROC_MAX_COUNT,
  Absent           \* there is no process in a slot

ASSUME PidsAssumption == PROC_MAX_COUNT \in Nat \ {0} /\ Absent \notin Int

VARIABLES
  next_pid,
  p_pid     \* the number of each process on _proc_list

pidVars == <<next_pid, p_pid>>

Pid == 0 .. PROC_MAX_COUNT - 1

PidsTypeOK ==
  /\ next_pid \in Pid
  /\ p_pid \in [Slot -> Pid \cup {-1, Absent}]

PidsInit == next_pid = 0 /\ p_pid = [s \in Slot |-> Absent]

Taken == {p_pid[s] : s \in Slot}

(* Mutant of _proc_getid: the number after a taken one is not looked at,   *)
(* nor does it wrap.                                                       *)
_proc_getid_Trusts == IF next_pid \in Taken THEN next_pid + 1 ELSE next_pid

(* The scan starts anew with the number after one that is taken, until it  *)
(* is back where it began.                                                 *)
_proc_getid ==
  LET scan[pid \in Pid] ==
        LET after == (pid + 1) % PROC_MAX_COUNT
        IN IF pid \notin Taken THEN pid
           ELSE IF after = next_pid THEN -1 ELSE scan[after]
  IN scan[next_pid]

proc_create(s) ==
  LET pid == _proc_getid IN
  /\ p_pid[s] = Absent
  /\ p_pid' = [p_pid EXCEPT ![s] = pid]
  /\ next_pid' = IF pid = -1 THEN next_pid ELSE (pid + 1) % PROC_MAX_COUNT

Reaped(s) ==
  /\ p_pid[s] # Absent
  /\ p_pid' = [p_pid EXCEPT ![s] = Absent]
  /\ UNCHANGED next_pid

PidsNext == \E s \in Slot : proc_create(s) \/ Reaped(s)

PidsSpec == PidsInit /\ [][PidsNext]_pidVars

-----------------------------------------------------------------------------
(* No two processes have the same number, across any wrapping, but for     *)
(* those that got -1 because every number was taken: do_waitpid finds the  *)
(* child it is asked for.                                                  *)
PidsDiffer ==
  \A s, t \in Slot : s # t /\ p_pid[s] # Absent /\ p_pid[s] = p_pid[t] => p_pid[s] = -1

(* -1 is given only when there is nothing else to give, and a number only  *)
(* when all from next_pid up to it are taken.                              *)
InTurn ==
  \A s \in Slot : p_pid[s] = Absent /\ p_pid'[s] # Absent =>
    IF p_pid'[s] = -1 THEN Pid \subseteq Taken
    ELSE \A p \in Pid : (p - next_pid) % PROC_MAX_COUNT
                          < (p_pid'[s] - next_pid) % PROC_MAX_COUNT => p \in Taken

(* proc.c, _proc_getid: after no step do two processes share a number,     *)
(* wrapping or not, and none is given out of turn.  At first there is no   *)
(* process.                                                                *)
NumbersOK == [][PidsDiffer' /\ InTurn]_pidVars
=============================================================================
