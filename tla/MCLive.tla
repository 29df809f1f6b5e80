------------------------------- MODULE MCLive -------------------------------
(***************************************************************************)
(* Two small systems that must go on, in one run: "part" is the one that   *)
(* moves, the other stays in its initial state.                            *)
(***************************************************************************)
EXTENDS Idle, TokenBucket, TLC

CONSTANTS t1, t2, t3  \* threads of Idle

VARIABLE part

allVars == <<part, vars, bucketVars>>

PartsInit ==
  /\ part \in {"idle", "bucket"}
  /\ Init
  /\ BucketInit
  /\ part = "bucket" => curthr = t1
  /\ part = "idle" => ~readFile_flag /\ \A i \in DOMAIN reqTokens : reqTokens[i] = 1

Moves(p, A) == part = p /\ A /\ UNCHANGED part
Idles(A)    == Moves("idle", A) /\ UNCHANGED bucketVars
Packets(A)  == Moves("bucket", A) /\ UNCHANGED vars

PartsNext == Idles(Next) \/ Packets(BucketNext)

(* The fairness of TypingSpec and BucketFairSpec, of the part that moves;  *)
(* no SIGINT comes.                                                        *)
PartsFairness ==
  /\ WF_allVars(Idles(Cpu)) /\ WF_allVars(Idles(KeyPress))
  /\ \A t \in Thread : WF_allVars(Idles(Complete(t)))
  /\ \A d \in Thread \cup {keyboard} : SF_allVars(Idles(Interrupt(d)))
  /\ SF_allVars(Packets(Arriving)) /\ SF_allVars(Packets(Filling))
  /\ \A s \in Server : SF_allVars(Packets(Serving(s)))
  /\ SF_allVars(Packets(\E t \in Workers : Cancel(t)))

PartsSpec == PartsInit /\ [][PartsNext]_allVars /\ PartsFairness

(* sched_switch: every thread gets the CPU again and again as long as      *)
(* interrupts keep coming (EveryThreadRuns of Idle).                       *)
EveryThreadRunsOn == part = "idle" => EveryThreadRuns

(* warmup2: without SIGINT the emulation ends, or starves, or breaks       *)
(* (RunEnds of TokenBucket).                                               *)
EmulationEnds == part = "bucket" => RunEnds
=============================================================================
