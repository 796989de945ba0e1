------------------------------ MODULE PoolMemory ------------------------------
(***************************************************************************)
(* The threads of a server and the memory they share: LoopThread and       *)
(* Zmalloc together.  A thread allocates from its initEventLoop until it   *)
(* leaves its loop, main (caller 0) all the time; a thread that is inside  *)
(* zmalloc takes no other step.  Callers may leave threads out, whose      *)
(* allocations are then not followed.                                      *)
(***************************************************************************)
EXTENDS LoopThread, Zmalloc

ASSUME PoolMemoryAssumption == Callers \subseteq Loops

Runs(c) == c \in {0} \cup {t \in Threads : tpc[t] \in {"init", "loop"}}

Outside(c) == c \in Callers => ~InZmalloc(c)

PoolInit == Init /\ ZmallocInit

mainTurn == mainStep /\ Outside(0) /\ UNCHANGED zmallocVars
threadTurn(t) == threadStep(t) /\ Outside(t) /\ UNCHANGED zmallocVars
lockTurn(t) == threadLock(t) /\ Outside(t) /\ UNCHANGED zmallocVars
otherTurn == ((spuriousWakeup /\ Outside(0)) \/ onSigInt) /\ UNCHANGED zmallocVars

memoryTurn(c) == Runs(c) /\ callStep(c) /\ UNCHANGED threadVars
updateTurn(c) == updateStep(c) /\ UNCHANGED threadVars
enableTurn == Outside(0) /\ zmalloc_enable_thread_safeness /\ UNCHANGED threadVars

PoolNext ==
  \/ mainTurn \/ otherTurn \/ enableTurn
  \/ \E t \in Threads : threadTurn(t)
  \/ \E c \in Callers : memoryTurn(c)

poolVars == <<threadVars, zmallocVars>>

\* As in LoopThread; and a call of zmalloc, once begun, goes on.
PoolSpec ==
  /\ PoolInit /\ [][PoolNext]_poolVars
  /\ WF_poolVars(mainTurn)
  /\ \A t \in Threads : SF_poolVars(lockTurn(t)) /\ WF_poolVars(threadTurn(t))
  /\ \A c \in Callers : SF_poolVars(updateTurn(c))
===============================================================================
