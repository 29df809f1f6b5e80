----------------------------- MODULE TokenBucket ----------------------------
(***************************************************************************)
(* The traffic shaper of warmup2/warmup2.c: packets arrive in Q1, move to  *)
(* Q2 when the bucket holds the tokens they need, and are served by two    *)
(* servers.  Four threads and the one that waits for SIGINT share the      *)
(* queues under mutex_Var and the condition "guard", and end by cancelling *)
(* one another.                                                            *)
(*                                                                         *)
(* A usleep takes any time.  A critical section that only counts, or only  *)
(* appends, is one step.  In the others pthread_mutex_lock is a step and   *)
(* what follows up to the unlock another, so that a thread can be          *)
(* cancelled, or lose the mutex, in between.  Trace output and statistics  *)
(* are left out.                                                           *)
(***************************************************************************)
EXTENDS Integers, Sequences, FiniteSets

CONSTANTS
  num,          \* packets to arrive
  bucketDepth,  \* B
  MaxNeed,      \* largest P of a packet
  Interrupts,   \* whether SIGINT may come
  arrival, tokens, server1, server2, ctrl, \* the threads
  NoThread      \* whose a free mutex is

ASSUME BucketAssumption ==
  /\ num \in Nat /\ bucketDepth \in Nat /\ MaxNeed \in Nat \ {0}
  /\ Interrupts \in BOOLEAN
  /\ Cardinality({arrival, tokens, server1, server2, ctrl}) = 5
  /\ NoThread \notin {arrival, tokens, server1, server2, ctrl}

Server  == {server1, server2}
Workers == {arrival, tokens} \cup Server
All     == Workers \cup {ctrl}

VARIABLES
  reqTokens,          \* what each packet needs
  readFile_flag,      \* they come from a file
  Q1List, Q2List, bucket_token_count,
  total_genPackets, droppedPackets, q1_to_q2, q2_to_out,
  done,               \* p_flag, t_flag, s1_flag and s2_flag
  flag_server,
  mutex,              \* who has mutex_Var
  waiting,            \* threads in pthread_cond_wait
  cancelled,          \* threads that pthread_cancel will end
  lost,               \* (history) packets in the hands of those it has ended
  pc

input  == <<reqTokens, readFile_flag>>
queues == <<Q1List, Q2List, bucket_token_count>>
counts == <<total_genPackets, droppedPackets, q1_to_q2, q2_to_out>>
sync   == <<mutex, waiting>>
flags  == <<done, flag_server>>
ends   == <<cancelled, lost>>
bucketVars   == <<input, queues, counts, sync, flags, ends, pc>>

(* Where thread t can be. *)
Label(t) ==
  CASE t = arrival -> {"sleep", "append", "move", "moving", "last", "exit"}
    [] t = tokens -> {"add", "move", "moving", "last", "exit"}
    [] t \in Server -> {"start", "looking", "wait", "waiting", "woken", "serve",
                        "cancel_p", "cancel_t", "cancel_s", "exit"}
    [] t = ctrl -> {"sigwait", "stop", "drain", "draining", "exit"}

BucketTypeOK ==
  /\ reqTokens \in [1 .. num -> 1 .. MaxNeed] /\ readFile_flag \in BOOLEAN
  /\ Q1List \in Seq(1 .. num) /\ Q2List \in Seq(1 .. num)
  /\ bucket_token_count \in 0 .. bucketDepth
  /\ total_genPackets \in 0 .. num /\ droppedPackets \in 0 .. num
  /\ q1_to_q2 \in 0 .. num /\ q2_to_out \in 0 .. num
  /\ done \in [Workers -> BOOLEAN] /\ flag_server \in BOOLEAN
  /\ mutex \in All \cup {NoThread} /\ waiting \subseteq Server
  /\ cancelled \subseteq Workers /\ lost \in 0 .. num
  /\ pc \in [All -> UNION {Label(t) : t \in All}] /\ \A t \in All : pc[t] \in Label(t)

(* "int p_flag,t_flag,s1_flag,s2_flag=1" sets only the last of them. *)
BucketInit ==
  /\ readFile_flag \in BOOLEAN
  /\ reqTokens \in [1 .. num -> 1 .. MaxNeed]
  /\ readFile_flag \/ \A i, j \in 1 .. num : reqTokens[i] = reqTokens[j]
  /\ Q1List = <<>> /\ Q2List = <<>> /\ bucket_token_count = 0
  /\ total_genPackets = 0 /\ droppedPackets = 0 /\ q1_to_q2 = 0 /\ q2_to_out = 0
  /\ done = [t \in Workers |-> t = server2]
  /\ flag_server = TRUE
  /\ mutex = NoThread /\ waiting = {} /\ cancelled = {} /\ lost = 0
  /\ pc = [t \in All |-> CASE t = arrival -> "sleep"
                              [] t = tokens -> "add"
                              [] t \in Server -> "start"
                              [] t = ctrl -> "sigwait"]

-----------------------------------------------------------------------------
Critical == {"moving", "looking", "wait", "draining"}
Inside == {t \in All : pc[t] \in Critical}

(* Two threads in their critical sections at once: what they do then is    *)
(* undefined.  A thread was cancelled in its critical section: the others  *)
(* wait for the mutex for ever.  The model stops.                          *)
Torn        == Cardinality(Inside) > 1
HeldForEver == mutex \in {arrival, tokens} /\ pc[mutex] = "exit"
Broken      == Torn \/ HeldForEver

Ended == \A t \in Workers : pc[t] = "exit"

At(t, l)   == pc[t] = l /\ ~Broken /\ ~Ended
Goto(t, l) == pc' = [pc EXCEPT ![t] = l]

pthread_mutex_lock(t, from, to) ==
  /\ At(t, from) /\ mutex = NoThread
  /\ mutex' = t
  /\ Goto(t, to)
  /\ UNCHANGED <<input, queues, counts, waiting, flags, ends>>

(* The mutex is of the default kind, which does not ask whose it is. *)
pthread_mutex_unlock == mutex' = NoThread

Broadcast(ps) == [t \in All |-> IF t \in waiting THEN "woken" ELSE ps[t]]

(* Whoever is woken has yet to get the mutex. *)
pthread_cond_broadcast(t, to) ==
  /\ pc' = [Broadcast(pc) EXCEPT ![t] = to]
  /\ waiting' = {}

pthread_cancel(ts) == cancelled' = cancelled \cup {t \in ts : pc[t] # "exit"}

(* Cancellation is asynchronous: it ends a thread anywhere, with the mutex *)
(* if it has it; in pthread_cond_wait once it has got the mutex again.     *)
Cancel(t) ==
  /\ t \in cancelled /\ pc[t] # "exit" /\ ~Broken
  /\ IF t \in waiting \/ pc[t] = "woken"
     THEN mutex = NoThread /\ mutex' = t
     ELSE UNCHANGED mutex
  /\ waiting' = waiting \ {t}
  /\ cancelled' = cancelled \ {t}
  /\ lost' = lost + IF pc[t] \in {"append", "serve"} THEN 1 ELSE 0
  /\ Goto(t, "exit")
  /\ UNCHANGED <<input, queues, counts, flags>>

-----------------------------------------------------------------------------
(* packetArrival: the next packet, dropped when the bucket cannot hold     *)
(* what it needs.  The counters are changed without the mutex.             *)
Arrive ==
  /\ At(arrival, "sleep") /\ total_genPackets < num
  /\ total_genPackets' = total_genPackets + 1
  /\ IF reqTokens[total_genPackets + 1] > bucketDepth
     THEN droppedPackets' = droppedPackets + 1 /\ UNCHANGED pc
     ELSE Goto(arrival, "append") /\ UNCHANGED droppedPackets
  /\ UNCHANGED <<input, queues, q1_to_q2, q2_to_out, sync, flags, ends>>

EnterQ1 ==
  /\ At(arrival, "append") /\ mutex = NoThread
  /\ Q1List' = Append(Q1List, total_genPackets)
  /\ Goto(arrival, "move")
  /\ UNCHANGED <<input, Q2List, bucket_token_count, counts, sync, flags, ends>>

CanMove == Q1List # <<>> /\ reqTokens[Head(Q1List)] <= bucket_token_count

(* The first packet of Q1 goes to Q2 if there are tokens for it. *)
Move(t, to) ==
  LET p == Head(Q1List) IN
  /\ CanMove
  /\ bucket_token_count' = bucket_token_count - reqTokens[p]
  /\ Q1List' = Tail(Q1List)
  /\ Q2List' = Append(Q2List, p)
  /\ q1_to_q2' = q1_to_q2 + 1
  /\ pthread_cond_broadcast(t, to)

ArrivalMoves ==
  /\ At(arrival, "moving")
  /\ IF CanMove THEN Move(arrival, "sleep")
     ELSE Goto(arrival, "sleep") /\ UNCHANGED <<queues, q1_to_q2, waiting>>
  /\ pthread_mutex_unlock
  /\ UNCHANGED <<input, total_genPackets, droppedPackets, q2_to_out, flags, ends>>

(* The end of packetArrival, which unlocks a mutex it does not have.  With *)
(* a file and packets dropped the test is never true: it just returns.     *)
LastPacket ==
  /\ At(arrival, "sleep") /\ total_genPackets = num
  /\ IF readFile_flag /\ num + droppedPackets # num
     THEN Goto(arrival, "exit") /\ UNCHANGED <<mutex, done>>
     ELSE /\ done' = [done EXCEPT ![arrival] = TRUE]
          /\ pthread_mutex_unlock
          /\ Goto(arrival, "last")
  /\ UNCHANGED <<input, queues, counts, waiting, flag_server, ends>>

ExitArrival ==
  /\ At(arrival, "last")
  /\ pthread_cond_broadcast(arrival, "exit")
  /\ UNCHANGED <<input, queues, counts, mutex, flags, ends>>

-----------------------------------------------------------------------------
(* tokenBucket: a token, until all packets have arrived. *)
AddToken ==
  /\ At(tokens, "add") /\ mutex = NoThread
  /\ bucket_token_count' =
       IF total_genPackets # num /\ bucket_token_count < bucketDepth
       THEN bucket_token_count + 1 ELSE bucket_token_count
  /\ Goto(tokens, "move")
  /\ UNCHANGED <<input, Q1List, Q2List, counts, sync, flags, ends>>

TokenMoves ==
  /\ At(tokens, "moving")
  /\ \/ CanMove /\ Move(tokens, "add")
     \/ /\ ~CanMove
        /\ Goto(tokens, IF Q1List = <<>> /\ q1_to_q2 + droppedPackets = num
                        THEN "last" ELSE "add")
        /\ UNCHANGED <<queues, q1_to_q2, waiting>>
  /\ pthread_mutex_unlock
  /\ UNCHANGED <<input, total_genPackets, droppedPackets, q2_to_out, flags, ends>>

(* Mutant of ExitTokens: the servers are not woken. *)
ExitTokens_Silent ==
  /\ At(tokens, "last")
  /\ done' = [done EXCEPT ![tokens] = TRUE]
  /\ Goto(tokens, "exit")
  /\ UNCHANGED <<input, queues, counts, sync, flag_server, ends>>

ExitTokens ==
  /\ At(tokens, "last")
  /\ done' = [done EXCEPT ![tokens] = TRUE]
  /\ pthread_cond_broadcast(tokens, "exit")
  /\ UNCHANGED <<input, queues, counts, mutex, flag_server, ends>>

-----------------------------------------------------------------------------
(* server1Impl and server2Impl, which are the same but for their names. *)
Other(s) == IF s = server1 THEN server2 ELSE server1

(* pthread_cancel of t unless its flag is set. *)
CancelUnless(s, t, l, to) ==
  /\ At(s, l)
  /\ pthread_cancel(IF done[t] THEN {} ELSE {t})
  /\ Goto(s, to)
  /\ UNCHANGED <<input, queues, counts, sync, flags, lost>>

(* After SIGINT. *)
StopServer(s) ==
  /\ At(s, "looking") /\ ~flag_server
  /\ pthread_cancel(IF done[Other(s)] THEN {} ELSE {Other(s)})
  /\ pthread_mutex_unlock
  /\ Goto(s, "exit")
  /\ UNCHANGED <<input, queues, counts, waiting, flags, lost>>

AllServed == q2_to_out + droppedPackets = num

Finish(s) ==
  /\ At(s, "looking") /\ flag_server /\ Q2List = <<>> /\ AllServed
  /\ pthread_mutex_unlock
  /\ Goto(s, "cancel_p")
  /\ UNCHANGED <<input, queues, counts, waiting, flags, ends>>

NothingToDo(s) ==
  /\ At(s, "looking") /\ flag_server /\ Q2List = <<>> /\ ~AllServed
  /\ done' = [done EXCEPT ![s] = FALSE]
  /\ Goto(s, "wait")
  /\ UNCHANGED <<input, queues, counts, sync, flag_server, ends>>

pthread_cond_wait(s) ==
  /\ At(s, "wait")
  /\ mutex' = NoThread
  /\ waiting' = waiting \cup {s}
  /\ Goto(s, "waiting")
  /\ UNCHANGED <<input, queues, counts, flags, ends>>

Woken(s) ==
  /\ At(s, "woken") /\ mutex = NoThread
  /\ mutex' = s
  /\ done' = [done EXCEPT ![s] = TRUE]
  /\ Goto(s, "looking")
  /\ UNCHANGED <<input, queues, counts, waiting, flag_server, ends>>

(* pthread_cond_wait may return without cause. *)
Spurious(s) ==
  /\ s \in waiting /\ ~Broken
  /\ waiting' = waiting \ {s}
  /\ Goto(s, "woken")
  /\ UNCHANGED <<input, queues, counts, mutex, flags, ends>>

Serve(s) ==
  /\ At(s, "looking") /\ flag_server /\ Q2List # <<>>
  /\ Q2List' = Tail(Q2List)
  /\ pthread_mutex_unlock
  /\ Goto(s, "serve")
  /\ UNCHANGED <<input, Q1List, bucket_token_count, counts, waiting, flags, ends>>

Depart(s) ==
  /\ At(s, "serve") /\ mutex = NoThread
  /\ q2_to_out' = q2_to_out + 1
  /\ Goto(s, "start")
  /\ UNCHANGED <<input, queues, total_genPackets, droppedPackets, q1_to_q2,
                 sync, flags, ends>>

Serving(s) ==
  \/ pthread_mutex_lock(s, "start", "looking")
  \/ StopServer(s) \/ Finish(s) \/ NothingToDo(s) \/ Woken(s) \/ Serve(s) \/ Depart(s)
  \/ pthread_cond_wait(s)
  \/ CancelUnless(s, arrival, "cancel_p", "cancel_t")
  \/ CancelUnless(s, tokens, "cancel_t", "cancel_s")
  \/ CancelUnless(s, Other(s), "cancel_s", "exit")

-----------------------------------------------------------------------------
(* signalHandler. *)
SigInt ==
  /\ Interrupts /\ At(ctrl, "sigwait")
  /\ pthread_cancel({arrival})
  /\ Goto(ctrl, "stop")
  /\ UNCHANGED <<input, queues, counts, sync, flags, lost>>

StopAll ==
  /\ At(ctrl, "stop")
  /\ pthread_cancel({tokens})
  /\ flag_server' = FALSE
  /\ Goto(ctrl, "drain")
  /\ UNCHANGED <<input, queues, counts, sync, done, lost>>

(* Mutant of Drain: what was in Q2 is not counted as out. *)
Drain_Uncounted ==
  /\ At(ctrl, "draining")
  /\ q2_to_out' = q2_to_out + Len(Q1List)
  /\ Q1List' = <<>> /\ Q2List' = <<>>
  /\ pthread_cond_broadcast(ctrl, "exit")
  /\ pthread_mutex_unlock
  /\ UNCHANGED <<input, bucket_token_count, total_genPackets, droppedPackets,
                 q1_to_q2, flags, ends>>

Drain ==
  /\ At(ctrl, "draining")
  /\ q2_to_out' = q2_to_out + Len(Q1List) + Len(Q2List)
  /\ Q1List' = <<>> /\ Q2List' = <<>>
  /\ pthread_cond_broadcast(ctrl, "exit")
  /\ pthread_mutex_unlock
  /\ UNCHANGED <<input, bucket_token_count, total_genPackets, droppedPackets,
                 q1_to_q2, flags, ends>>

-----------------------------------------------------------------------------
Arriving ==
  \/ Arrive \/ EnterQ1 \/ ArrivalMoves \/ LastPacket \/ ExitArrival
  \/ pthread_mutex_lock(arrival, "move", "moving")

Filling ==
  \/ AddToken \/ TokenMoves \/ ExitTokens
  \/ pthread_mutex_lock(tokens, "move", "moving")

Stopping == StopAll \/ Drain \/ pthread_mutex_lock(ctrl, "drain", "draining")

BucketNext ==
  \/ Arriving \/ Filling \/ SigInt \/ Stopping
  \/ \E s \in Server : Serving(s) \/ Spurious(s)
  \/ \E t \in Workers : Cancel(t)

BucketSpec == BucketInit /\ [][BucketNext]_bucketVars

(* Every thread runs, and gets the mutex when it is free again and again:  *)
(* whoever had it sleeps or waits before it takes it anew.  A thread is    *)
(* cancelled once.                                                         *)
BucketFairness ==
  /\ SF_bucketVars(Arriving) /\ SF_bucketVars(Filling) /\ SF_bucketVars(Stopping)
  /\ \A s \in Server : SF_bucketVars(Serving(s))
  /\ SF_bucketVars(\E t \in Workers : Cancel(t))

BucketFairSpec == BucketSpec /\ BucketFairness

-----------------------------------------------------------------------------
(* Packets are served in the order of their arrival, whichever of the two  *)
(* threads moves them.                                                     *)
InOrder ==
  LET q == Q2List \o Q1List
  IN \A i \in 1 .. Len(q), j \in 1 .. Len(q) : i < j => q[i] < q[j]

(* Every packet that arrived is in a queue, with a server or counted as    *)
(* dropped or out, but for those of a cancelled thread, however the threads*)
(* end: the servers stop by this count.                                    *)
PacketsAccounted ==
  total_genPackets =
    droppedPackets + q2_to_out + Len(Q1List) + Len(Q2List) + lost
    + Cardinality({t \in Workers : pc[t] \in {"append", "serve"}})

(* Packets need tokens when no more are made. *)
Starved == total_genPackets = num /\ Q1List # <<>> /\ ~CanMove

(* A server waits only while somebody is still to wake or to cancel it,    *)
(* with or without SIGINT: no wakeup is lost between the test of the       *)
(* counters and the wait, though they are changed without the mutex.       *)
NobodyLeftWaiting ==
  \A s \in waiting \ cancelled :
    \/ Broken
    \/ pc[ctrl] \in {"stop", "drain", "draining"}
    \/ \E t \in Workers \ {s} : pc[t] \notin {"waiting", "exit"}

(* Packets keep their order, and none goes missing. *)
PacketsKept == InOrder /\ PacketsAccounted

(* The emulation ends, or starves, or breaks. *)
RunEnds == <>(Ended \/ Broken \/ Starved)
=============================================================================
