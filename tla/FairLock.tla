------------------------------ MODULE FairLock ------------------------------
(***************************************************************************)
(* What a kernel mutex promises its callers: at most one client inside,    *)
(* ownership passed on by the release itself, in the order of the          *)
(* requests, and no way for a newcomer to overtake.  A client may give up  *)
(* while it waits, not once it owns the lock.                              *)
(***************************************************************************)
EXTENDS Naturals, Sequences, SequencesExt

CONSTANTS Client, Lock, NONE

VARIABLES
  owner,    \* the client each lock belongs to, or NONE
  waiters,  \* clients waiting for each lock, first come first
  inside    \* the client in each lock's critical section, or NONE

absVars == <<owner, waiters, inside>>

Init ==
  /\ owner = [l \in Lock |-> NONE]
  /\ waiters = [l \in Lock |-> <<>>]
  /\ inside = [l \in Lock |-> NONE]

Acquire(c, l) ==
  /\ owner[l] = NONE /\ waiters[l] = <<>>
  /\ owner' = [owner EXCEPT ![l] = c]
  /\ inside' = [inside EXCEPT ![l] = c]
  /\ UNCHANGED waiters

Wait(c, l) ==
  /\ owner[l] \notin {NONE, c}
  /\ c \notin ToSet(waiters[l])
  /\ waiters' = [waiters EXCEPT ![l] = Append(@, c)]
  /\ UNCHANGED <<owner, inside>>

Abandon(c, l) ==
  /\ c \in ToSet(waiters[l])
  /\ waiters' = [waiters EXCEPT ![l] = RemoveFirst(@, c)]
  /\ UNCHANGED <<owner, inside>>

(* The client inside leaves; the lock passes to the first waiter, if any. *)
Release(l) ==
  /\ inside[l] # NONE /\ owner[l] = inside[l]
  /\ inside' = [inside EXCEPT ![l] = NONE]
  /\ IF waiters[l] = <<>>
     THEN /\ owner' = [owner EXCEPT ![l] = NONE]
          /\ UNCHANGED waiters
     ELSE /\ owner' = [owner EXCEPT ![l] = Head(waiters[l])]
          /\ waiters' = [waiters EXCEPT ![l] = Tail(@)]

(* The new owner learns that it has the lock. *)
Enter(l) ==
  /\ owner[l] # NONE /\ inside[l] = NONE
  /\ inside' = [inside EXCEPT ![l] = owner[l]]
  /\ UNCHANGED <<owner, waiters>>

Next ==
  \E l \in Lock :
    \/ Release(l) \/ Enter(l)
    \/ \E c \in Client : Acquire(c, l) \/ Wait(c, l) \/ Abandon(c, l)

Spec == Init /\ [][Next]_absVars
=============================================================================
