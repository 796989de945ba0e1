------------------------------ MODULE LoopThread ------------------------------
(***************************************************************************)
(* How the loops of a server come up and go down: test.c's main starts a   *)
(* pool of worker threads, each with its event loop (eventLoopThread.c,    *)
(* eventLoopThreadPool.c), runs its own base loop, and when that ends      *)
(* stops and joins the threads, destroys their loops and then its own.     *)
(* Every loop runs aeMain and looks at its state in eventLoopCron, a timer *)
(* of 100 ms (eventLoop.c:164-178).  SIGINT's handler asks the base loop   *)
(* to stop, any number of times after it exists (test.c:47-53).            *)
(***************************************************************************)
EXTENDS Naturals

CONSTANT Workers   \* how many worker threads; loop 0 is the base loop

ASSUME LoopThreadAssumption == Workers \in Nat \ {0}

Threads == 1 .. Workers
Loops == 0 .. Workers

VARIABLES
  mpc,     \* where main is
  i,       \* the thread the pool's loop is at
  mutex,   \* per thread: who holds thread->mutex: "main", "thread" or "nobody"
  woken,   \* per thread: main's cond_wait may return
  ready,   \* the loops that initEventLoop has made (thread->eventLoop # NULL)
  lstate,  \* per loop: eventLoop->state
  tpc,     \* per thread: where it is
  freed,   \* the loops that destroyEventLoop has freed
  wild,    \* the handler of SIGINT has written to the freed base loop
  sigint   \* history: "no", "early" (before startEventLoop(baseLoop)), "running"

threadVars == <<mpc, i, mutex, woken, ready, lstate, tpc, freed, wild, sigint>>

\* initEventLoop has been called for the base loop, nothing else.
Init ==
  /\ mpc = "create" /\ i = 1
  /\ mutex = [t \in Threads |-> "nobody"]
  /\ woken = [t \in Threads |-> FALSE]
  /\ ready = {0}
  /\ lstate = [l \in Loops |-> "START"]
  /\ tpc = [t \in Threads |-> "none"]
  /\ freed = {} /\ wild = FALSE
  /\ sigint = "no"
-----------------------------------------------------------------------------
(* startEventLoopThread, for thread i *)

createThread ==
  /\ mpc = "create"
  /\ tpc' = [tpc EXCEPT ![i] = "created"]
  /\ mpc' = "lock"
  /\ UNCHANGED <<i, mutex, woken, ready, lstate, freed, wild, sigint>>

lockThread ==
  /\ mpc = "lock" /\ mutex[i] = "nobody"
  /\ mutex' = [mutex EXCEPT ![i] = "main"]
  /\ mpc' = "check"
  /\ UNCHANGED <<i, woken, ready, lstate, tpc, freed, wild, sigint>>

\* Not waiting for the loop at all.
LoopReady_Unchecked(t) == TRUE

LoopReady(t) == t \in ready

\* pthread_cond_wait gives up the mutex and waits in one step.
condWait ==
  /\ mpc = "check" /\ ~LoopReady(i)
  /\ mutex' = [mutex EXCEPT ![i] = "nobody"]
  /\ mpc' = "wait"
  /\ UNCHANGED <<i, woken, ready, lstate, tpc, freed, wild, sigint>>

\* It returns signalled, or for no reason, with the mutex.
condReturn ==
  /\ mpc = "wait" /\ woken[i] /\ mutex[i] = "nobody"
  /\ mutex' = [mutex EXCEPT ![i] = "main"]
  /\ mpc' = "check"
  /\ UNCHANGED <<i, woken, ready, lstate, tpc, freed, wild, sigint>>

spuriousWakeup ==
  /\ mpc = "wait" /\ ~woken[i] /\ mutex[i] = "nobody"
  /\ mutex' = [mutex EXCEPT ![i] = "main"]
  /\ mpc' = "check"
  /\ UNCHANGED <<i, woken, ready, lstate, tpc, freed, wild, sigint>>

\* The loop is there: unlock, startEventLoop, and on to the next thread.
startThread ==
  /\ mpc = "check" /\ LoopReady(i)
  /\ mutex' = [mutex EXCEPT ![i] = "nobody"]
  /\ lstate' = [lstate EXCEPT ![i] = "RUN"]
  /\ IF i < Workers THEN mpc' = "create" /\ i' = i + 1 ELSE mpc' = "startBase" /\ UNCHANGED i
  /\ UNCHANGED <<woken, ready, tpc, freed, wild, sigint>>
-----------------------------------------------------------------------------
(* eventThread *)

threadLock(t) ==
  /\ tpc[t] = "created" /\ mutex[t] = "nobody"
  /\ mutex' = [mutex EXCEPT ![t] = "thread"]
  /\ tpc' = [tpc EXCEPT ![t] = "init"]
  /\ UNCHANGED <<mpc, i, woken, ready, lstate, freed, wild, sigint>>

\* eventThread that forgets to signal.
threadInit_NoSignal(t) ==
  /\ tpc[t] = "init"
  /\ lstate' = [lstate EXCEPT ![t] = "START"]
  /\ ready' = ready \cup {t}
  /\ mutex' = [mutex EXCEPT ![t] = "nobody"]
  /\ tpc' = [tpc EXCEPT ![t] = "loop"]
  /\ UNCHANGED <<mpc, i, woken, freed, wild, sigint>>

\* initEventLoop, pthread_cond_signal and unlock, under the mutex.
threadInit(t) ==
  /\ tpc[t] = "init"
  /\ lstate' = [lstate EXCEPT ![t] = "START"]
  /\ ready' = ready \cup {t}
  /\ woken' = [woken EXCEPT ![t] = mpc = "wait" /\ i = t]
  /\ mutex' = [mutex EXCEPT ![t] = "nobody"]
  /\ tpc' = [tpc EXCEPT ![t] = "loop"]
  /\ UNCHANGED <<mpc, i, freed, wild, sigint>>

\* eventLoopCron that ends the loop whenever it does not find it running.
threadCron_NotRun(t) ==
  /\ tpc[t] = "loop" /\ lstate[t] # "RUN"
  /\ lstate' = [lstate EXCEPT ![t] = "STOPING"]
  /\ tpc' = [tpc EXCEPT ![t] = "exited"]
  /\ UNCHANGED <<mpc, i, mutex, woken, ready, freed, wild, sigint>>

\* eventLoopCron finds EVENTLOOP_STOP: aeStop, and aeMain returns.
threadCron(t) ==
  /\ tpc[t] = "loop" /\ lstate[t] = "STOP"
  /\ lstate' = [lstate EXCEPT ![t] = "STOPING"]
  /\ tpc' = [tpc EXCEPT ![t] = "exited"]
  /\ UNCHANGED <<mpc, i, mutex, woken, ready, freed, wild, sigint>>
-----------------------------------------------------------------------------
(* main: the base loop, then stopEventLoopThreadPool *)

\* startEventLoop(baseLoop): RUN, whatever the state was.
startBase ==
  /\ mpc = "startBase"
  /\ lstate' = [lstate EXCEPT ![0] = "RUN"]
  /\ mpc' = "loop"
  /\ UNCHANGED <<i, mutex, woken, ready, tpc, freed, wild, sigint>>

baseCron ==
  /\ mpc = "loop" /\ lstate[0] = "STOP"
  /\ lstate' = [lstate EXCEPT ![0] = "STOPING"]
  /\ mpc' = "stop" /\ i' = 1
  /\ UNCHANGED <<mutex, woken, ready, tpc, freed, wild, sigint>>

\* pthread_join without stopEventLoop.
stopThread_JoinOnly ==
  /\ mpc = "stop"
  /\ mpc' = "join"
  /\ UNCHANGED <<i, mutex, woken, ready, lstate, tpc, freed, wild, sigint>>

\* stopEventLoopThread for thread i: stopEventLoop, then pthread_join.
stopThread ==
  /\ mpc = "stop"
  /\ lstate' = [lstate EXCEPT ![i] = "STOP"]
  /\ mpc' = "join"
  /\ UNCHANGED <<i, mutex, woken, ready, tpc, freed, wild, sigint>>

\* pthread_join forgotten.
joinThread_NoWait ==
  /\ mpc = "join"
  /\ IF i < Workers THEN mpc' = "stop" /\ i' = i + 1 ELSE mpc' = "destroy" /\ i' = 1
  /\ UNCHANGED <<mutex, woken, ready, lstate, tpc, freed, wild, sigint>>

joinThread ==
  /\ mpc = "join" /\ tpc[i] = "exited"
  /\ IF i < Workers THEN mpc' = "stop" /\ i' = i + 1 ELSE mpc' = "destroy" /\ i' = 1
  /\ UNCHANGED <<mutex, woken, ready, lstate, tpc, freed, wild, sigint>>

\* destroyEventLoopThreadPool, called by destroyTcpServer: thread i and its loop.
destroyThread ==
  /\ mpc = "destroy"
  /\ freed' = freed \cup {i}
  /\ IF i < Workers THEN i' = i + 1 /\ UNCHANGED mpc ELSE mpc' = "destroyBase" /\ UNCHANGED i
  /\ UNCHANGED <<mutex, woken, ready, lstate, tpc, wild, sigint>>

\* destroyEventLoop(baseLoop); the pointer that onSigInt tests stays.
destroyBase ==
  /\ mpc = "destroyBase"
  /\ freed' = freed \cup {0}
  /\ mpc' = "done"
  /\ UNCHANGED <<i, mutex, woken, ready, lstate, tpc, wild, sigint>>

\* The signal handler, between any two steps of any thread.
onSigInt ==
  /\ IF 0 \in freed
     THEN wild' = TRUE /\ UNCHANGED lstate
     ELSE lstate' = [lstate EXCEPT ![0] = "STOP"] /\ UNCHANGED wild
  /\ sigint' = IF mpc = "loop" THEN "running"
               ELSE IF mpc \in {"create", "lock", "check", "wait", "startBase"} THEN "early"
               ELSE sigint
  /\ UNCHANGED <<mpc, i, mutex, woken, ready, tpc, freed>>
-----------------------------------------------------------------------------
mainStep == \/ createThread \/ lockThread \/ condWait \/ condReturn \/ startThread
            \/ startBase \/ baseCron \/ stopThread \/ joinThread
            \/ destroyThread \/ destroyBase
threadStep(t) == threadLock(t) \/ threadInit(t) \/ threadCron(t)

Next == mainStep \/ spuriousWakeup \/ onSigInt \/ \E t \in Threads : threadStep(t)

SafeSpec == Init /\ [][Next]_threadVars

\* Threads run, and a mutex that keeps being free is got in the end; SIGINT and
\* spurious wake-ups need not come.
Spec == /\ SafeSpec
        /\ WF_threadVars(mainStep)
        /\ \A t \in Threads : SF_threadVars(threadLock(t)) /\ WF_threadVars(threadStep(t))
-----------------------------------------------------------------------------
LoopTypeOK ==
  /\ mpc \in {"create", "lock", "check", "wait", "startBase", "loop", "stop", "join",
             "destroy", "destroyBase", "done"}
  /\ i \in Threads
  /\ mutex \in [Threads -> {"main", "thread", "nobody"}]
  /\ woken \in [Threads -> BOOLEAN]
  /\ ready \subseteq Loops
  /\ lstate \in [Loops -> {"START", "RUN", "STOPING", "STOP"}]
  /\ tpc \in [Threads -> {"none", "created", "init", "loop", "exited"}]
  /\ freed \subseteq Loops /\ wild \in BOOLEAN
  /\ sigint \in {"no", "early", "running"}

\* main goes past a thread only when the thread's loop exists, however the
\* signal, the wait and spurious wake-ups interleave; from then on nobody finds
\* thread->eventLoop NULL (eventLoopThread.c:18-21, 47-52).
StartedIsReady ==
  /\ mpc \notin {"create", "lock", "check", "wait"} => ready = Loops
  /\ \A t \in Threads : t < i => t \in ready

\* A thread's state is never set back to START by its own late initEventLoop once
\* main has set it running: a started loop is RUN until it is told to stop.
RunUntilStopped ==
  mpc \in {"startBase", "loop"} => \A t \in Threads : lstate[t] = "RUN" /\ tpc[t] = "loop"

\* A loop is destroyed only when the thread that runs it has been joined; the one
\* use of a destroyed loop is the write of a SIGINT that comes after main has
\* destroyed the base loop, whose handler tests a pointer nobody cleared
\* (eventLoopThread.c:33-41, 56-61, test.c:46-53, 71-73).
LoopsOutliveUse ==
  /\ \A t \in Threads : tpc[t] = "loop" => t \notin freed
  /\ wild => mpc = "done" /\ 0 \in freed

\* main gets the pool up, and runs its loop.
StartReturns == mpc = "create" ~> mpc = "loop"

\* A SIGINT that finds the base loop running ends the program.  (An earlier one
\* is forgotten: startBase writes RUN over its STOP, eventLoop.c:210.)
SigintWhileRunning == sigint = "running" ~> mpc = "done"
=============================================================================
