--------------------------- MODULE PoolMemory_proofs ---------------------------
(***************************************************************************)
(* The start handshake of LoopThread, for any number of worker threads:    *)
(* main goes past a thread only when its loop exists, and the loop keeps   *)
(* the RUN that main gives it until main takes it back.  Allocating beside *)
(* it all changes nothing: PoolMemory implements LoopThread.               *)
(*                                                                         *)
(* And the count of zmalloc, for any number of callers, blocks and sizes:  *)
(* used_memory and what the calls under way have still to add or take off  *)
(* are together what the live blocks take.  That needs facts about sums    *)
(* over finite sets, which the second part proves, and for them induction. *)
(* The library's induction theorems are about an operator, which no prover *)
(* here can instantiate; the least member of a set of numbers (WFMin, and  *)
(* < is well founded on Nat) gives the same with a set in its place.       *)
(***************************************************************************)
EXTENDS PoolMemory, FiniteSetTheorems, SequenceTheorems, WellFoundedInduction, TLAPS

Starting == {"create", "lock", "check", "wait"}
Up == {"startBase", "loop"}
Stopping == {"stop", "join", "destroy", "destroyBase", "done"}

\* A thread is in its loop, or has left it, exactly when its loop exists.
ReadyMeansInit ==
  /\ 0 \in ready
  /\ \A t \in Threads : t \in ready <=> tpc[t] \in {"loop", "exited"}

\* While the pool starts: the threads before i run, thread i is on its way, and
\* those after it have not been created.
StartsInTurn ==
  mpc \in Starting =>
    \A t \in Threads :
      /\ t < i => lstate[t] = "RUN" /\ tpc[t] = "loop"
      /\ t >= i => lstate[t] = "START" /\ tpc[t] # "exited"
      /\ t > i => tpc[t] = "none"
      /\ t = i => (tpc[t] = "none" <=> mpc = "create")

AllLooping == mpc \in Stopping => \A t \in Threads : tpc[t] \in {"loop", "exited"}

\* main has joined the threads before i, or all; it frees loops only then, and the
\* base loop last.
JoinedFirst ==
  /\ mpc \in {"stop", "join"} => \A t \in Threads : t < i => tpc[t] = "exited"
  /\ mpc \in {"destroy", "destroyBase", "done"} => \A t \in Threads : tpc[t] = "exited"
  /\ freed # {} => mpc \in {"destroy", "destroyBase", "done"}
  /\ 0 \in freed => mpc = "done"
  /\ wild => 0 \in freed

LoopInv == LoopTypeOK /\ ReadyMeansInit /\ StartsInTurn /\ RunUntilStopped /\ AllLooping
           /\ JoinedFirst
-----------------------------------------------------------------------------
LEMMA InitLoopInv == Init => LoopInv
<1> SUFFICES ASSUME Init PROVE LoopInv
  OBVIOUS
<1> USE LoopThreadAssumption DEF Init, Threads, Loops
<1>1. LoopTypeOK
  <2>1. wild \in BOOLEAN
    BY Zenon
  <2> QED
    BY <2>1 DEF LoopTypeOK
<1>2. ReadyMeansInit /\ StartsInTurn /\ RunUntilStopped /\ AllLooping
  BY DEF ReadyMeansInit, StartsInTurn, RunUntilStopped, AllLooping, Starting, Stopping
<1>3. JoinedFirst
  <2>1. ~wild
    BY Zenon
  <2> QED
    BY <2>1 DEF JoinedFirst
<1> QED
  BY <1>1, <1>2, <1>3 DEF LoopInv

LEMMA NextLoopInv == LoopInv /\ [Next]_threadVars => LoopInv'
<1> SUFFICES ASSUME LoopInv, [Next]_threadVars PROVE LoopInv'
  OBVIOUS
<1> USE DEF LoopInv, LoopTypeOK, ReadyMeansInit, StartsInTurn, RunUntilStopped, AllLooping,
        JoinedFirst, Threads, Loops, Starting, Stopping
<1>0. Workers \in Nat \ {0}
  BY LoopThreadAssumption
<1>1. CASE createThread
  BY <1>0, <1>1 DEF createThread
<1>2. CASE lockThread
  BY <1>0, <1>2 DEF lockThread
<1>3. CASE condWait
  BY <1>0, <1>3 DEF condWait, LoopReady
<1>4. CASE condReturn
  BY <1>0, <1>4 DEF condReturn
<1>5. CASE spuriousWakeup
  BY <1>0, <1>5 DEF spuriousWakeup
<1>6. CASE startThread
  <2>1. tpc[i] = "loop"
    BY <1>6 DEF startThread, LoopReady
  <2>2. CASE i < Workers
    BY <1>0, <1>6, <2>1, <2>2 DEF startThread, LoopReady
  <2>3. CASE ~(i < Workers)
    BY <1>0, <1>6, <2>1, <2>3 DEF startThread, LoopReady
  <2> QED
    BY <2>2, <2>3
<1>7. CASE startBase
  BY <1>0, <1>7 DEF startBase
<1>8. CASE baseCron
  BY <1>0, <1>8 DEF baseCron
<1>9. CASE stopThread
  BY <1>0, <1>9 DEF stopThread
<1>10. CASE joinThread
  BY <1>0, <1>10 DEF joinThread
<1>11. CASE onSigInt
  <2>1. wild' \in BOOLEAN /\ (wild' => 0 \in freed')
    <3>1. CASE 0 \in freed
      BY <1>11, <3>1, Zenon DEF onSigInt
    <3>2. CASE 0 \notin freed
      BY <1>11, <3>2, Zenon DEF onSigInt
    <3> QED
      BY <3>1, <3>2
  <2>2. mpc \in {"startBase", "loop"} \cup Starting => 0 \notin freed
    OBVIOUS
  <2>3. lstate' \in [Loops -> {"START", "RUN", "STOPING", "STOP"}]
        /\ \A t \in Threads : lstate'[t] = lstate[t]
    BY <1>0, <1>11 DEF onSigInt
  <2>4. sigint' \in {"no", "early", "running"}
    BY <1>11 DEF onSigInt
  <2>5. UNCHANGED <<mpc, i, mutex, woken, ready, tpc, freed>>
    BY <1>11 DEF onSigInt
  <2> QED
    BY <1>0, <2>1, <2>2, <2>3, <2>4, <2>5
<1>12. ASSUME NEW t \in Threads, threadLock(t) PROVE LoopInv'
  BY <1>0, <1>12 DEF threadLock
<1>13. ASSUME NEW t \in Threads, threadInit(t) PROVE LoopInv'
  BY <1>0, <1>13 DEF threadInit
<1>14. ASSUME NEW t \in Threads, threadCron(t) PROVE LoopInv'
  BY <1>0, <1>14 DEF threadCron
<1>16. CASE destroyThread
  BY <1>0, <1>16 DEF destroyThread
<1>17. CASE destroyBase
  BY <1>0, <1>17 DEF destroyBase
<1>15. CASE UNCHANGED threadVars
  BY <1>15 DEF threadVars
<1> QED
  BY <1>1, <1>2, <1>3, <1>4, <1>5, <1>6, <1>7, <1>8, <1>9, <1>10, <1>11, <1>12, <1>13, <1>14,
     <1>15, <1>16, <1>17
     DEF Next, mainStep, threadStep

LEMMA LoopInvImpliesStarted == LoopInv => StartedIsReady
<1> SUFFICES ASSUME LoopInv PROVE StartedIsReady
  OBVIOUS
<1> USE LoopThreadAssumption
        DEF LoopInv, LoopTypeOK, ReadyMeansInit, Threads, Loops, Starting, Stopping
<1>1. CASE mpc \in Starting
  BY <1>1 DEF StartedIsReady, StartsInTurn
<1>2. CASE mpc \in Up \cup Stopping
  <2>1. \A t \in Threads : t \in ready
    BY <1>2 DEF RunUntilStopped, AllLooping, Up
  <2>2. \A l \in Loops : l = 0 \/ l \in Threads
    OBVIOUS
  <2>3. ready = Loops
    BY <2>1, <2>2
  <2> QED
    BY <2>1, <2>3 DEF StartedIsReady
<1> QED
  BY <1>1, <1>2 DEF Up

\* Every thread and main together keep the invariant of the handshake
\* (eventLoopThread.c:12-59, eventLoopThreadPool.c:36-55, eventLoop.c:164-216).
THEOREM LoopInvariant == Spec => []LoopInv
<1> QED
  BY InitLoopInv, NextLoopInv, PTL DEF Spec, SafeSpec

\* Types hold for any number of threads.
THEOREM LoopTypeCorrect == Spec => []LoopTypeOK
<1>1. LoopInv => LoopTypeOK
  BY DEF LoopInv
<1> QED
  BY <1>1, LoopInvariant, PTL

\* main goes past a thread only when the thread's loop exists, however signals,
\* waits and spurious wake-ups interleave (eventLoopThread.c:47-52).
THEOREM LoopStartedIsReady == Spec => []StartedIsReady
<1>1. LoopInv => StartedIsReady
  BY LoopInvImpliesStarted
<1> QED
  BY <1>1, LoopInvariant, PTL

\* No thread's own initialisation comes after main has set its loop running, and
\* a running loop is not stopped before main says so (eventLoop.c:164-216).
THEOREM LoopRunsUntilStopped == Spec => []RunUntilStopped
<1>1. LoopInv => RunUntilStopped
  BY DEF LoopInv
<1> QED
  BY <1>1, LoopInvariant, PTL

\* No loop is destroyed under the thread that runs it, whatever the number of
\* threads and of SIGINTs (eventLoopThread.c:33-41, 56-61, test.c:71-73).
THEOREM LoopDestroyedAfterUse == Spec => []LoopsOutliveUse
<1>1. LoopInv => LoopsOutliveUse
  BY DEF LoopInv, JoinedFirst, LoopsOutliveUse
<1> QED
  BY <1>1, LoopInvariant, PTL

\* Who is between lock and unlock of a thread's mutex has it.
HandshakeMutex ==
  \A t \in Threads : /\ mutex[t] = "main" <=> (mpc = "check" /\ i = t)
                     /\ mutex[t] = "thread" <=> tpc[t] = "init"

\* main sleeps in pthread_cond_wait only while the thread has yet to signal.
WaitIsSignalled == mpc = "wait" /\ ~woken[i] => tpc[i] \in {"created", "init"}

SignalInv == LoopInv /\ HandshakeMutex /\ WaitIsSignalled

LEMMA NextSignalInv == SignalInv /\ [Next]_threadVars => SignalInv'
<1> SUFFICES ASSUME SignalInv, [Next]_threadVars PROVE HandshakeMutex' /\ WaitIsSignalled'
  BY NextLoopInv DEF SignalInv
<1> USE LoopThreadAssumption DEF Threads, HandshakeMutex, WaitIsSignalled
<1>1. /\ mutex \in [Threads -> {"main", "thread", "nobody"}] /\ woken \in [Threads -> BOOLEAN]
      /\ tpc \in [Threads -> {"none", "created", "init", "loop", "exited"}] /\ i \in Threads
      /\ Workers \in Nat
  BY DEF SignalInv, LoopInv, LoopTypeOK
<1>2. /\ HandshakeMutex /\ WaitIsSignalled
      /\ mpc \in {"create", "lock", "check", "wait"} =>
           \A t \in Threads : /\ t > i => tpc[t] = "none"
                              /\ t = i => (tpc[t] = "none" <=> mpc = "create")
      /\ \A t \in Threads : t \in ready <=> tpc[t] \in {"loop", "exited"}
  BY DEF SignalInv, LoopInv, StartsInTurn, ReadyMeansInit, Starting
<1>3. CASE createThread
  BY <1>1, <1>2, <1>3 DEF createThread
<1>4. CASE lockThread \/ condReturn \/ spuriousWakeup
  BY <1>1, <1>2, <1>4 DEF lockThread, condReturn, spuriousWakeup
<1>5. CASE condWait
  BY <1>1, <1>2, <1>5 DEF condWait, LoopReady
<1>6. CASE startThread
  BY <1>1, <1>2, <1>6 DEF startThread
<1>7. ASSUME NEW t \in Threads, threadLock(t) PROVE HandshakeMutex' /\ WaitIsSignalled'
  BY <1>1, <1>2, <1>7 DEF threadLock
<1>8. ASSUME NEW t \in Threads, threadInit(t) PROVE HandshakeMutex' /\ WaitIsSignalled'
  BY <1>1, <1>2, <1>8 DEF threadInit
<1>9. ASSUME NEW t \in Threads, threadCron(t) PROVE HandshakeMutex' /\ WaitIsSignalled'
  BY <1>1, <1>2, <1>9 DEF threadCron
<1>10. CASE startBase \/ baseCron \/ stopThread \/ joinThread \/ destroyThread \/ destroyBase
            \/ onSigInt \/ UNCHANGED threadVars
  <2>1. UNCHANGED <<mutex, woken, tpc>>
    BY <1>10 DEF startBase, baseCron, stopThread, joinThread, destroyThread, destroyBase,
                 onSigInt, threadVars
  <2>2. \/ UNCHANGED <<mpc, i>>
        \/ mpc \notin {"check", "wait"} /\ mpc' \notin {"check", "wait"}
    BY <1>10 DEF startBase, baseCron, stopThread, joinThread, destroyThread, destroyBase,
                 onSigInt, threadVars
  <2> QED
    BY <1>1, <1>2, <2>1, <2>2
<1> QED
  BY <1>3, <1>4, <1>5, <1>6, <1>7, <1>8, <1>9, <1>10 DEF Next, mainStep, threadStep

\* The handshake loses no signal: when main waits on the condition variable and has
\* not been signalled, its thread has still to make the loop and to signal, and
\* the mutex that main tested under is free for it (eventLoopThread.c:12-31, 45-55).
THEOREM LoopSignalNotLost == Spec => [](HandshakeMutex /\ WaitIsSignalled)
<1>1. Init => SignalInv
  <2> SUFFICES ASSUME Init PROVE HandshakeMutex /\ WaitIsSignalled
    BY InitLoopInv DEF SignalInv
  <2> QED
    BY DEF Init, HandshakeMutex, WaitIsSignalled
<1>2. SignalInv => HandshakeMutex /\ WaitIsSignalled
  BY DEF SignalInv
<1> QED
  BY <1>1, <1>2, NextSignalInv, PTL DEF Spec, SafeSpec

\* The threads of PoolMemory, which allocate as they go, do what LoopThread says,
\* so all of the above holds of them (zmalloc.c:94-168).
THEOREM PoolIsLoopThread == PoolSpec => SafeSpec
<1>1. PoolInit => Init
  BY DEF PoolInit
<1>2. [PoolNext]_poolVars => [Next]_threadVars
  BY DEF PoolNext, poolVars, mainTurn, otherTurn, enableTurn, threadTurn, memoryTurn, Next
<1> QED
  BY <1>1, <1>2, PTL DEF PoolSpec, SafeSpec

\* No loop of PoolMemory is missing when main needs it, overwritten, or destroyed
\* under its thread.
THEOREM PoolLoopsSafe == PoolSpec => [](StartedIsReady /\ RunUntilStopped /\ LoopsOutliveUse)
<1>1. LoopInv => StartedIsReady /\ RunUntilStopped /\ LoopsOutliveUse
  BY LoopInvImpliesStarted DEF LoopInv, JoinedFirst, LoopsOutliveUse
<1> QED
  BY <1>1, InitLoopInv, NextLoopInv, PoolIsLoopThread, PTL DEF SafeSpec

-----------------------------------------------------------------------------
\* The least element of a set of numbers.
LEMMA LeastNumber ==
  ASSUME NEW T, T \subseteq Nat, T # {}
  PROVE  \E n \in T : \A k \in T : ~(k < n)
<1> DEFINE R == OpToRel(<, Nat)
<1>1. IsWellFoundedOn(R, Nat)
  BY NatLessThanWellFounded
<1>2. PICK n \in T : \A k \in T : ~(<<k, n>> \in R)
  BY <1>1, WFMin
<1>3. \A a, b \in Nat : a < b => <<a, b>> \in R
  BY DEF OpToRel
<1> HIDE DEF R
<1> QED
  BY <1>2, <1>3

\* Induction over numbers, for a set of numbers in the place of a predicate.
LEMMA NatInSet ==
  ASSUME NEW T, 0 \in T, \A n \in Nat : n \in T => n + 1 \in T
  PROVE  Nat \subseteq T
<1> SUFFICES ASSUME Nat \ T # {} PROVE FALSE
  OBVIOUS
<1>1. PICK n \in Nat \ T : \A k \in Nat \ T : ~(k < n)
  BY LeastNumber
<1>2. n - 1 \in Nat /\ n - 1 < n /\ (n - 1) + 1 = n
  BY <1>1
<1>3. n - 1 \in T
  BY <1>1, <1>2
<1> QED
  BY <1>1, <1>2, <1>3

\* Induction over the subsets of a finite set, likewise.
LEMMA SubsetsInSet ==
  ASSUME NEW S, IsFiniteSet(S), NEW T, {} \in T,
         \A U \in SUBSET S : U # {} /\ (\A x \in U : U \ {x} \in T) => U \in T
  PROVE  SUBSET S \subseteq T
<1> DEFINE N == {n \in Nat : \A U \in SUBSET S : Cardinality(U) = n => U \in T}
<1>1. \A U \in SUBSET S : IsFiniteSet(U) /\ Cardinality(U) \in Nat
  BY FS_Subset, FS_CardinalityType
<1>2. 0 \in N
  BY <1>1, FS_EmptySet
<1>3. ASSUME NEW n \in Nat, n \in N PROVE n + 1 \in N
  <2> SUFFICES ASSUME NEW U \in SUBSET S, Cardinality(U) = n + 1 PROVE U \in T
    OBVIOUS
  <2>1. U # {}
    <3>1. Cardinality({}) = 0
      BY FS_EmptySet, Zenon
    <3> QED
      BY <3>1
  <2>2. ASSUME NEW x \in U PROVE U \ {x} \in T
    <3>1. IsFiniteSet(U)
      BY <1>1
    <3>2. Cardinality(U \ {x}) = Cardinality(U) - 1
      BY <3>1, FS_RemoveElement
    <3>3. Cardinality(U \ {x}) = n /\ U \ {x} \in SUBSET S
      BY <3>2
    <3> QED
      BY <1>3, <3>3
  <2> QED
    BY <2>1, <2>2
<1> HIDE DEF N
<1>4. Nat \subseteq N
  BY <1>2, <1>3, NatInSet
<1> QED
  BY <1>1, <1>4 DEF N

Pick(s) == CHOOSE x \in s : TRUE
SumEq(w, S, g) ==
  g = [s \in SUBSET S |-> IF s = {} THEN 0 ELSE w[Pick(s)] + g[s \ {Pick(s)}]]

\* The same, for the subsets of at most n elements.
SumEqUpTo(w, S, n, g) ==
  g = [s \in {u \in SUBSET S : Cardinality(u) <= n} |->
         IF s = {} THEN 0 ELSE w[Pick(s)] + g[s \ {Pick(s)}]]

LEMMA SumIs ==
  ASSUME NEW w, NEW S
  PROVE  SumFunctionOnSet(w, S) = (CHOOSE g : SumEq(w, S, g))[S]
BY DEF SumFunctionOnSet, FoldFunctionOnSet, MapThenFoldSet, SumEq, Pick

LEMMA PickIn == \A s : s # {} => Pick(s) \in s
BY DEF Pick

\* The sums of the subsets of at most n elements are well defined, ...
LEMMA SumsUpTo ==
  ASSUME NEW w, NEW S, IsFiniteSet(S), NEW n \in Nat
  PROVE  \E g : SumEqUpTo(w, S, n, g)
<1> DEFINE Small(k) == {u \in SUBSET S : Cardinality(u) <= k}
           Eq(k, g) == g = [s \in Small(k) |->
                              IF s = {} THEN 0 ELSE w[Pick(s)] + g[s \ {Pick(s)}]]
           N == {k \in Nat : \E g : Eq(k, g)}
<1>0. \A U \in SUBSET S : IsFiniteSet(U) /\ Cardinality(U) \in Nat
  BY FS_Subset, FS_CardinalityType
<1>1. 0 \in N
  <2> DEFINE g == [s \in Small(0) |-> 0]
  <2>1. \A s \in Small(0) : s = {}
    BY <1>0, FS_EmptySet
  <2>2. Eq(0, g)
    BY <2>1
  <2> QED
    BY <2>2
<1>2. ASSUME NEW k \in Nat, k \in N PROVE k + 1 \in N
  <2>1. PICK g : Eq(k, g)
    BY <1>2
  <2> DEFINE h == [s \in Small(k + 1) |->
                     IF s = {} THEN 0 ELSE w[Pick(s)] + g[s \ {Pick(s)}]]
  <2>2. Small(k) \subseteq Small(k + 1)
    BY <1>0
  <2>3. \A s \in Small(k) : h[s] = g[s]
    BY <2>1, <2>2
  <2>4. \A s \in Small(k + 1) : s # {} => s \ {Pick(s)} \in Small(k)
    <3> SUFFICES ASSUME NEW s \in Small(k + 1), s # {} PROVE s \ {Pick(s)} \in Small(k)
      OBVIOUS
    <3>1. Pick(s) \in s /\ IsFiniteSet(s) /\ Cardinality(s) \in Nat /\ Cardinality(s) <= k + 1
      BY <1>0, PickIn
    <3>2. Cardinality(s \ {Pick(s)}) = Cardinality(s) - 1
      BY <3>1, FS_RemoveElement
    <3> QED
      BY <3>1, <3>2
  <2> HIDE DEF Small
  <2>5. \A s \in Small(k + 1) :
          h[s] = IF s = {} THEN 0 ELSE w[Pick(s)] + h[s \ {Pick(s)}]
    BY <2>3, <2>4
  <2>6. Eq(k + 1, h)
    BY <2>5
  <2> HIDE DEF h
  <2> QED
    BY <2>6
<1> HIDE DEF N
<1>3. Nat \subseteq N
  BY <1>1, <1>2, NatInSet
<1> QED
  BY <1>3 DEF N, SumEqUpTo

\* ... so the library's sum is what its recursive definition says.
LEMMA SumDefined ==
  ASSUME NEW w, NEW S, IsFiniteSet(S)
  PROVE  \E g : SumEq(w, S, g) /\ SumFunctionOnSet(w, S) = g[S]
<1> DEFINE Small == {u \in SUBSET S : Cardinality(u) <= Cardinality(S)}
<1>1. \A U \in SUBSET S : Cardinality(U) <= Cardinality(S)
  BY FS_Subset
<1>2. Small = SUBSET S
  BY <1>1
<1>3. Cardinality(S) \in Nat
  BY FS_CardinalityType
<1>4. PICK g : SumEqUpTo(w, S, Cardinality(S), g)
  BY <1>3, SumsUpTo
<1>5. SumEq(w, S, g)
  BY <1>2, <1>4 DEF SumEq, SumEqUpTo
<1>6. SumEq(w, S, CHOOSE h : SumEq(w, S, h))
  BY <1>5
<1> QED
  BY <1>6, SumIs

\* The sum over S begins with the element that CHOOSE picks.
LEMMA SumPick ==
  ASSUME NEW w, NEW S, IsFiniteSet(S)
  PROVE  SumFunctionOnSet(w, S) =
           IF S = {} THEN 0 ELSE w[Pick(S)] + SumFunctionOnSet(w, S \ {Pick(S)})
<1>1. PICK g : SumEq(w, S, g) /\ SumFunctionOnSet(w, S) = g[S]
  BY SumDefined
<1>2. CASE S = {}
  BY <1>1, <1>2 DEF SumEq
<1>3. CASE S # {}
  <2> DEFINE U == S \ {Pick(S)}
  <2>1. U \in SUBSET S /\ IsFiniteSet(U)
    BY FS_Subset
  <2>2. PICK h : SumEq(w, U, h) /\ SumFunctionOnSet(w, U) = h[U]
    BY <2>1, SumDefined
  <2> HIDE DEF U
  <2> DEFINE T == {V \in SUBSET U : g[V] = h[V]}
  <2>3. {} \in T
    BY <1>1, <2>1, <2>2 DEF SumEq
  <2>4. ASSUME NEW V \in SUBSET U, V # {}, \A x \in V : V \ {x} \in T PROVE V \in T
    <3>1. Pick(V) \in V
      BY <2>4, PickIn
    <3>2. g[V \ {Pick(V)}] = h[V \ {Pick(V)}]
      BY <2>4, <3>1
    <3>3. g[V] = w[Pick(V)] + g[V \ {Pick(V)}]
      BY <1>1, <2>1, <2>4 DEF SumEq
    <3>4. h[V] = w[Pick(V)] + h[V \ {Pick(V)}]
      BY <2>2, <2>4 DEF SumEq
    <3> QED
      BY <3>2, <3>3, <3>4
  <2> HIDE DEF T
  <2>5. SUBSET U \subseteq T
    BY <2>1, <2>3, <2>4, SubsetsInSet
  <2>6. g[U] = h[U]
    BY <2>5 DEF T
  <2>7. g[S] = w[Pick(S)] + g[U]
    BY <1>1, <1>3 DEF SumEq, U
  <2> QED
    BY <1>1, <1>3, <2>2, <2>6, <2>7 DEF U
<1> QED
  BY <1>2, <1>3

LEMMA SumEmpty == ASSUME NEW w PROVE SumFunctionOnSet(w, {}) = 0
BY SumPick, FS_EmptySet

\* Sums of integers are integers; equal terms have equal sums.
LEMMA SumInt ==
  ASSUME NEW S, IsFiniteSet(S), NEW w, \A x \in S : w[x] \in Int
  PROVE  SumFunctionOnSet(w, S) \in Int
<1> DEFINE T == {U \in SUBSET S : SumFunctionOnSet(w, U) \in Int}
<1>1. {} \in T
  BY SumEmpty
<1>2. ASSUME NEW U \in SUBSET S, U # {}, \A x \in U : U \ {x} \in T PROVE U \in T
  <2>1. Pick(U) \in U /\ IsFiniteSet(U)
    BY <1>2, PickIn, FS_Subset
  <2>2. SumFunctionOnSet(w, U) = w[Pick(U)] + SumFunctionOnSet(w, U \ {Pick(U)})
    BY <1>2, <2>1, SumPick
  <2>3. w[Pick(U)] \in Int /\ SumFunctionOnSet(w, U \ {Pick(U)}) \in Int
    BY <1>2, <2>1
  <2> QED
    BY <2>2, <2>3
<1> HIDE DEF T
<1>3. SUBSET S \subseteq T
  BY <1>1, <1>2, SubsetsInSet
<1> QED
  BY <1>3 DEF T

LEMMA SumSame ==
  ASSUME NEW S, IsFiniteSet(S), NEW w, NEW v, \A x \in S : w[x] = v[x]
  PROVE  SumFunctionOnSet(w, S) = SumFunctionOnSet(v, S)
<1> DEFINE T == {U \in SUBSET S : SumFunctionOnSet(w, U) = SumFunctionOnSet(v, U)}
<1>1. {} \in T
  BY SumEmpty
<1>2. ASSUME NEW U \in SUBSET S, U # {}, \A x \in U : U \ {x} \in T PROVE U \in T
  <2>1. Pick(U) \in U /\ IsFiniteSet(U)
    BY <1>2, PickIn, FS_Subset
  <2>2. SumFunctionOnSet(w, U) = w[Pick(U)] + SumFunctionOnSet(w, U \ {Pick(U)})
    BY <1>2, <2>1, SumPick
  <2>3. SumFunctionOnSet(v, U) = v[Pick(U)] + SumFunctionOnSet(v, U \ {Pick(U)})
    BY <1>2, <2>1, SumPick
  <2>4. SumFunctionOnSet(w, U \ {Pick(U)}) = SumFunctionOnSet(v, U \ {Pick(U)})
    BY <1>2, <2>1
  <2>5. w[Pick(U)] = v[Pick(U)]
    BY <2>1
  <2> QED
    BY <2>2, <2>3, <2>4, <2>5
<1> HIDE DEF T
<1>3. SUBSET S \subseteq T
  BY <1>1, <1>2, SubsetsInSet
<1> QED
  BY <1>3 DEF T

\* Any element may be added first: the order of the fold does not matter.
LEMMA SumRemove ==
  ASSUME NEW S, IsFiniteSet(S), NEW w, \A x \in S : w[x] \in Int, NEW x \in S
  PROVE  SumFunctionOnSet(w, S) = w[x] + SumFunctionOnSet(w, S \ {x})
<1> DEFINE Sum(U) == SumFunctionOnSet(w, U)
           T == {U \in SUBSET S : \A y \in U : Sum(U) = w[y] + Sum(U \ {y})}
<1>1. {} \in T
  OBVIOUS
<1>2. ASSUME NEW U \in SUBSET S, U # {}, \A y \in U : U \ {y} \in T PROVE U \in T
  <2> SUFFICES ASSUME NEW y \in U PROVE Sum(U) = w[y] + Sum(U \ {y})
    OBVIOUS
  <2> DEFINE p == Pick(U)
             V == U \ {p, y}
  <2>1. p \in U /\ IsFiniteSet(U) /\ IsFiniteSet(V)
    BY <1>2, PickIn, FS_Subset
  <2>2. Sum(U) = w[p] + Sum(U \ {p})
    BY <1>2, <2>1, SumPick
  <2>3. CASE p = y
    BY <2>2, <2>3
  <2>4. CASE p # y
    <3>1. (U \ {p}) \ {y} = V /\ (U \ {y}) \ {p} = V /\ V \subseteq S
      OBVIOUS
    <3>2. y \in U \ {p} /\ p \in U \ {y}
      BY <2>1, <2>4
    <3>3. Sum(U \ {p}) = w[y] + Sum(V)
      BY <1>2, <2>1, <3>1, <3>2
    <3>4. Sum(U \ {y}) = w[p] + Sum(V)
      BY <1>2, <3>1, <3>2
    <3>5. w[p] \in Int /\ w[y] \in Int
      BY <2>1
    <3>6. Sum(V) \in Int
      <4> \A z \in V : w[z] \in Int
        OBVIOUS
      <4> HIDE DEF V
      <4> QED
        BY <2>1, SumInt
    <3> HIDE DEF Sum, V, p
    <3> QED
      BY <2>2, <3>3, <3>4, <3>5, <3>6
  <2> QED
    BY <2>3, <2>4
<1> HIDE DEF T
<1>3. SUBSET S \subseteq T
  BY <1>1, <1>2, SubsetsInSet
<1> QED
  BY <1>3 DEF T

\* The sum with one term more, and with one term changed.
LEMMA SumAdd ==
  ASSUME NEW S, IsFiniteSet(S), NEW x, x \notin S, NEW w, NEW v,
         \A y \in S \cup {x} : v[y] \in Int,
         \A y \in S : v[y] = w[y]
  PROVE  SumFunctionOnSet(v, S \cup {x}) = SumFunctionOnSet(w, S) + v[x]
<1> DEFINE U == S \cup {x}
<1>1. IsFiniteSet(U) /\ x \in U /\ U \ {x} = S
  BY FS_AddElement
<1> HIDE DEF U
<1>2. SumFunctionOnSet(v, U) = v[x] + SumFunctionOnSet(v, U \ {x})
  BY <1>1, SumRemove DEF U
<1>3. SumFunctionOnSet(v, S) = SumFunctionOnSet(w, S)
  BY SumSame
<1>4. SumFunctionOnSet(v, S) \in Int /\ v[x] \in Int
  BY SumInt
<1>5. SumFunctionOnSet(v, U) = SumFunctionOnSet(w, S) + v[x]
  <2>1. SumFunctionOnSet(v, U \ {x}) = SumFunctionOnSet(w, S)
    BY <1>1, <1>3
  <2> QED
    BY <1>2, <1>3, <1>4, <2>1
<1> QED
  BY <1>5 DEF U

LEMMA SumChange ==
  ASSUME NEW S, IsFiniteSet(S), NEW x \in S, NEW w, NEW v,
         \A y \in S : v[y] \in Int /\ w[y] \in Int,
         \A y \in S \ {x} : v[y] = w[y]
  PROVE  SumFunctionOnSet(v, S) = SumFunctionOnSet(w, S) + (v[x] - w[x])
<1> DEFINE U == S \ {x}
<1>1. IsFiniteSet(U) /\ U \subseteq S
  BY FS_Subset
<1>2. SumFunctionOnSet(v, S) = v[x] + SumFunctionOnSet(v, U)
  BY SumRemove
<1>3. SumFunctionOnSet(w, S) = w[x] + SumFunctionOnSet(w, U)
  BY SumRemove
<1>6. \A y \in U : v[y] \in Int /\ w[y] \in Int /\ v[y] = w[y]
  OBVIOUS
<1> HIDE DEF U
<1>4. SumFunctionOnSet(v, U) = SumFunctionOnSet(w, U)
  BY <1>1, <1>6, SumSame
<1>5. SumFunctionOnSet(w, U) \in Int
  BY <1>1, <1>6, SumInt
<1>7. v[x] \in Int /\ w[x] \in Int
  OBVIOUS
<1> QED
  BY <1>2, <1>3, <1>4, <1>5, <1>7
-----------------------------------------------------------------------------
\* What an update does to the count, and what the updates of a call do that are
\* still to come.
Signed(u) == IF u.up THEN u.n ELSE 0 - u.n
StillToCome(t) ==
  IF t = <<>> THEN 0 ELSE IF Len(t) = 1 THEN Signed(t[1]) ELSE Signed(t[1]) + Signed(t[2])

Busy == {c \in Callers : InZmalloc(c)}
Owed == [c \in Busy |-> StillToCome(todo[c])]

Updates == [up : BOOLEAN, n : Nat, ptr : Pointers]

MemoryTypeOK ==
  /\ used_memory \in 0 .. SizeRange - 1
  /\ zmalloc_thread_safe \in BOOLEAN
  /\ overlap \in BOOLEAN
  /\ IsFiniteSet(DOMAIN size)
  /\ \A p \in DOMAIN size : p \in Pointers /\ size[p] \in Nat
  /\ size = [p \in DOMAIN size |-> size[p]]
  /\ todo \in [Callers -> Seq(Updates)]
  /\ \A c \in Callers : Len(todo[c]) <= 2
  /\ loaded \in [Callers -> BOOLEAN] /\ locks \in [Callers -> BOOLEAN]
  /\ register \in [Callers -> Nat]
  /\ IsFiniteSet(Busy)

\* An update that has the lock holds the mutex; while none has overlapped another,
\* at most one is between its load and its store, so what it loaded is still the
\* count.
OneAtATime ==
  /\ \A c \in Callers : loaded[c] => InZmalloc(c)
  /\ \A c \in Callers : loaded[c] /\ locks[c] => used_memory_mutex = c
  /\ ~overlap =>
       \A c \in Callers : loaded[c] =>
         register[c] = used_memory /\ \A d \in Callers \ {c} : ~loaded[d]

\* While none has overlapped another, the count and what is still to come are
\* together what the live blocks take, but for whole turns of the counter.
CountedOrOwed ==
  ~overlap => \E k \in Int :
    used_memory + SumFunction(Owed) = SumFunction(Taken) + k * SizeRange

MemoryInv == MemoryTypeOK /\ OneAtATime /\ CountedOrOwed

LEMMA DivMod ==
  ASSUME NEW n \in Int, NEW d \in Nat \ {0}
  PROVE  /\ n \div d \in Int /\ (n \in Nat => n \div d \in Nat)
         /\ n % d \in 0 .. d - 1 /\ n = (n \div d) * d + (n % d)
OBVIOUS

\* Quotients compare as the numbers do.
LEMMA QuotientOrder ==
  ASSUME NEW a \in Int, NEW b \in Int, NEW d \in Nat \ {0},
         NEW r \in 0 .. d - 1, NEW s \in 0 .. d - 1, a * d + r = b * d + s
  PROVE  a = b /\ r = s
<1>1. ASSUME a > b PROVE FALSE
  <2>1. a * d >= (b + 1) * d
    BY <1>1
  <2>2. (b + 1) * d = b * d + d
    OBVIOUS
  <2>3. a * d \in Int /\ b * d \in Int
    OBVIOUS
  <2> QED
    BY <2>1, <2>2, <2>3
<1>2. ASSUME a < b PROVE FALSE
  <2>1. (a + 1) * d <= b * d
    BY <1>2
  <2>2. (a + 1) * d = a * d + d
    OBVIOUS
  <2>3. a * d \in Int /\ b * d \in Int
    OBVIOUS
  <2> QED
    BY <2>1, <2>2, <2>3
<1>3. a = b
  BY <1>1, <1>2
<1> QED
  BY <1>3

\* A multiple of the divisor comes through a division unchanged.
LEMMA DivMultiple ==
  ASSUME NEW n \in Nat, NEW q \in Nat, NEW d \in Nat \ {0}
  PROVE  (n + q * d) \div d = n \div d + q
<1> DEFINE m == n + q * d
           a == n \div d
           b == m \div d
<1>1. m \in Nat
  OBVIOUS
<1> HIDE DEF m
<1>0. n \in Int /\ m \in Int
  BY <1>1
<1>2. a \in Nat /\ n % d \in 0 .. d - 1 /\ n = a * d + (n % d)
  BY <1>0, DivMod, Zenon
<1>3. b \in Nat /\ m % d \in 0 .. d - 1 /\ m = b * d + (m % d)
  BY <1>0, <1>1, DivMod, Zenon
<1> HIDE DEF a, b
<1> DEFINE r == n % d
           s == m % d
<1> HIDE DEF r, s
<1>4. (a + q) * d + r = b * d + s
  <2>1. (a + q) * d = a * d + q * d
    BY <1>2
  <2> QED
    BY <1>2, <1>3, <2>1 DEF m, r, s
<1>5. a + q \in Int /\ b \in Int /\ r \in 0 .. d - 1 /\ s \in 0 .. d - 1
  BY <1>2, <1>3 DEF r, s
<1>6. a + q = b
  BY <1>4, <1>5, QuotientOrder
<1> QED
  BY <1>6 DEF a, b, m

\* A number in range, off another by whole turns, is the other's remainder.
LEMMA ModUnique ==
  ASSUME NEW u, NEW n \in Int, NEW k \in Int, NEW d \in Nat \ {0},
         u \in 0 .. d - 1, u = n + k * d
  PROVE  u = n % d
<1> DEFINE a == n \div d
           r == n % d
<1>1. a \in Int /\ r \in 0 .. d - 1 /\ n = a * d + r
  OBVIOUS
<1> HIDE DEF a, r
<1>2. 0 * d + u = (a + k) * d + r
  <2>1. (a + k) * d = a * d + k * d
    BY <1>1
  <2> QED
    BY <1>1, <2>1
<1>3. a + k \in Int
  BY <1>1
<1>4. u = r
  BY <1>1, <1>2, <1>3, QuotientOrder
<1> QED
  BY <1>4 DEF r

\* What rounding gives is a number, and the prefix, whole longs, adds just itself.
LEMMA RoundedPrefix ==
  ASSUME NEW n \in Nat
  PROVE  Rounded(n) \in Nat /\ Rounded(n + PREFIX_SIZE) = Rounded(n) + PREFIX_SIZE
<1>1. LongSize \in Nat \ {0} /\ PREFIX_SIZE \in Nat /\ PREFIX_SIZE % LongSize = 0
  BY ZmallocAssumption
<1> DEFINE q == PREFIX_SIZE \div LongSize
           m == n + LongSize - 1
           a == m \div LongSize
<1>2. q \in Nat /\ PREFIX_SIZE = q * LongSize
  BY <1>1
<1>3. m \in Nat
  BY <1>1
<1> HIDE DEF q, m
<1>4. a \in Nat /\ (m + q * LongSize) \div LongSize = a + q
  <2>1. a \in Nat
    BY <1>1, <1>3, DivMod
  <2>2. q \in Nat
    BY <1>2
  <2>3. (m + q * LongSize) \div LongSize = m \div LongSize + q
    BY <1>1, <1>3, <2>2, DivMultiple, Zenon
  <2> QED
    BY <2>1, <2>3
<1> HIDE DEF a
<1>5. n + PREFIX_SIZE + LongSize - 1 = m + q * LongSize
  BY <1>1, <1>2, <1>3 DEF m
<1>6. Rounded(n + PREFIX_SIZE) = LongSize * (a + q)
  BY <1>4, <1>5 DEF Rounded
<1>7. Rounded(n) = LongSize * a
  BY DEF Rounded, a, m
<1> QED
  BY <1>1, <1>2, <1>4, <1>6, <1>7
-----------------------------------------------------------------------------
LEMMA UpdateInts ==
  ASSUME NEW t \in Seq(Updates)
  PROVE  StillToCome(t) \in Int /\ \A j \in DOMAIN t : t[j].n \in Nat /\ Signed(t[j]) \in Int
<1>0. Len(t) \in Nat /\ DOMAIN t = 1 .. Len(t) /\ (Len(t) = 0 => t = <<>>)
  OBVIOUS
<1>1. \A j \in 1 .. Len(t) : t[j].up \in BOOLEAN /\ t[j].n \in Nat
  <2>1. \A j \in 1 .. Len(t) : t[j] \in Updates
    OBVIOUS
  <2> QED
    BY <2>1 DEF Updates
<1>2. \A j \in 1 .. Len(t) : Signed(t[j]) \in Int
  BY <1>1 DEF Signed
<1>3. CASE t = <<>>
  BY <1>1, <1>2, <1>3 DEF StillToCome
<1>4. CASE Len(t) = 1
  BY <1>1, <1>2, <1>4 DEF StillToCome
<1>5. CASE Len(t) >= 2
  BY <1>1, <1>2, <1>5 DEF StillToCome
<1>6. StillToCome(t) \in Int
  BY <1>0, <1>3, <1>4, <1>5
<1> QED
  BY <1>0, <1>1, <1>2, <1>6

\* The two sums are of integers, over finite sets.
LEMMA SumsDefined ==
  ASSUME MemoryTypeOK
  PROVE  /\ SumFunction(Owed) = SumFunctionOnSet(Owed, Busy)
         /\ SumFunction(Taken) = SumFunctionOnSet(Taken, DOMAIN size)
         /\ \A c \in Busy : Owed[c] = StillToCome(todo[c]) /\ Owed[c] \in Int
         /\ \A p \in DOMAIN size : /\ Taken[p] = Rounded(size[p] + PREFIX_SIZE)
                                   /\ Taken[p] \in Int
         /\ SumFunction(Owed) \in Int /\ SumFunction(Taken) \in Int
<1>1. DOMAIN Owed = Busy /\ DOMAIN Taken = DOMAIN size
  BY DEF Owed, Taken
<1>2. SumFunction(Owed) = SumFunctionOnSet(Owed, Busy)
      /\ SumFunction(Taken) = SumFunctionOnSet(Taken, DOMAIN size)
  BY <1>1 DEF SumFunction
<1>3. \A c \in Busy : Owed[c] = StillToCome(todo[c]) /\ Owed[c] \in Int
  <2>1. \A c \in Busy : todo[c] \in Seq(Updates)
    BY DEF Busy, MemoryTypeOK
  <2> QED
    BY <2>1, UpdateInts DEF Owed
<1>4. \A p \in DOMAIN size : Taken[p] = Rounded(size[p] + PREFIX_SIZE) /\ Taken[p] \in Int
  <2> SUFFICES ASSUME NEW p \in DOMAIN size
               PROVE  Taken[p] = Rounded(size[p] + PREFIX_SIZE) /\ Taken[p] \in Int
    OBVIOUS
  <2>1. size[p] + PREFIX_SIZE \in Nat
    BY ZmallocAssumption DEF MemoryTypeOK
  <2> QED
    BY <2>1, RoundedPrefix DEF Taken
<1>5. IsFiniteSet(Busy) /\ IsFiniteSet(DOMAIN size)
  BY DEF MemoryTypeOK
<1>6. SumFunctionOnSet(Owed, Busy) \in Int
  BY <1>3, <1>5, SumInt
<1>7. SumFunctionOnSet(Taken, DOMAIN size) \in Int
  BY <1>4, <1>5, SumInt
<1> QED
  BY <1>2, <1>3, <1>4, <1>6, <1>7

\* A call that begins owes what its updates will do, and disturbs no other.
LEMMA BeginOwes ==
  ASSUME MemoryInv, NEW c \in Callers, NEW us \in Seq(Updates), us # <<>>, Len(us) <= 2,
         Begin(c, us)
  PROVE  /\ todo' \in [Callers -> Seq(Updates)] /\ \A d \in Callers : Len(todo'[d]) <= 2
         /\ IsFiniteSet(Busy')
         /\ OneAtATime'
         /\ SumFunction(Owed') = SumFunction(Owed) + StillToCome(us)
         /\ StillToCome(us) \in Int
<1>1. todo' \in [Callers -> Seq(Updates)] /\ todo'[c] = us
      /\ \A d \in Callers \ {c} : todo'[d] = todo[d]
  BY DEF Begin, MemoryInv, MemoryTypeOK
<1>2. \A d \in Callers : Len(todo'[d]) <= 2
  BY <1>1 DEF MemoryInv, MemoryTypeOK
<1>3. c \notin Busy /\ Busy' = Busy \cup {c}
  BY <1>1 DEF Busy, InZmalloc, Begin
<1>4. IsFiniteSet(Busy) /\ IsFiniteSet(Busy')
  BY <1>3, FS_AddElement DEF MemoryInv, MemoryTypeOK
<1>5. OneAtATime'
  <2>1. UNCHANGED <<loaded, locks, register, used_memory, used_memory_mutex, overlap>>
    BY DEF Begin
  <2>2. \A d \in Callers : InZmalloc(d) => InZmalloc(d)'
    BY <1>1 DEF InZmalloc
  <2> QED
    BY <2>1, <2>2 DEF MemoryInv, OneAtATime
<1>6. StillToCome(us) \in Int
  BY UpdateInts
<1>7. /\ DOMAIN (Owed') = Busy' /\ Owed'[c] = StillToCome(us)
      /\ \A d \in Busy : Owed'[d] = StillToCome(todo[d])
  BY <1>1, <1>3 DEF Owed, Busy
<1>8. /\ SumFunction(Owed) = SumFunctionOnSet(Owed, Busy)
      /\ \A d \in Busy : Owed[d] = StillToCome(todo[d]) /\ Owed[d] \in Int
  BY SumsDefined DEF MemoryInv
<1>9. SumFunctionOnSet(Owed', Busy \cup {c}) = SumFunctionOnSet(Owed, Busy) + Owed'[c]
  <2> DEFINE v == Owed'
  <2>1. \A d \in Busy \cup {c} : v[d] \in Int
    BY <1>6, <1>7, <1>8
  <2>2. \A d \in Busy : v[d] = Owed[d]
    BY <1>7, <1>8
  <2> HIDE DEF v
  <2>3. SumFunctionOnSet(v, Busy \cup {c}) = SumFunctionOnSet(Owed, Busy) + v[c]
    BY <1>3, <1>4, <2>1, <2>2, SumAdd
  <2> QED
    BY <2>3 DEF v
<1>10. SumFunction(Owed') = SumFunctionOnSet(Owed', Busy')
  BY <1>7 DEF SumFunction
<1> QED
  BY <1>1, <1>2, <1>3, <1>4, <1>5, <1>6, <1>7, <1>8, <1>9, <1>10

\* Calls begin only while none has overlapped, and move the two sums alike.
LEMMA BalanceKept ==
  ASSUME MemoryInv, NEW n \in Int, ~overlap,
         MemoryTypeOK', used_memory' = used_memory,
         SumFunction(Owed') = SumFunction(Owed) + n,
         SumFunction(Taken') = SumFunction(Taken) + n
  PROVE  CountedOrOwed'
<1>1. PICK k \in Int :
        used_memory + SumFunction(Owed) = SumFunction(Taken) + k * SizeRange
  BY DEF MemoryInv, CountedOrOwed
<1>2. SumFunction(Owed) \in Int /\ SumFunction(Taken) \in Int
  BY SumsDefined DEF MemoryInv
<1>3. k * SizeRange \in Int /\ used_memory \in Int
  BY ZmallocAssumption DEF MemoryInv, MemoryTypeOK
<1>4. used_memory' + SumFunction(Owed') = SumFunction(Taken') + k * SizeRange
  BY <1>1, <1>2, <1>3
<1> QED
  BY <1>4 DEF CountedOrOwed

\* Rounding what an update names, both kinds.
LEMMA UpdateType ==
  ASSUME NEW p \in Pointers, NEW n \in Nat
  PROVE  /\ Add(p, n) \in Updates /\ Subtract(p, n) \in Updates
         /\ Signed(Add(p, n)) = Rounded(n) /\ Signed(Subtract(p, n)) = 0 - Rounded(n)
BY RoundedPrefix DEF Add, Subtract, Updates, Signed

LEMMA zmallocMemoryInv ==
  ASSUME MemoryInv, NEW c \in Callers, zmalloc(c)
  PROVE  MemoryInv'
<1> USE ZmallocAssumption
<1>1. PICK p \in Pointers \ DOMAIN size, n \in AllocSizes :
        /\ Begin(c, <<Add(p, n + PREFIX_SIZE)>>)
        /\ size' = [q \in DOMAIN size \cup {p} |-> IF q = p THEN n ELSE size[q]]
  BY DEF zmalloc
<1> DEFINE u == Add(p, n + PREFIX_SIZE)
<1>2. u \in Updates /\ Signed(u) = Rounded(n + PREFIX_SIZE) /\ Signed(u) \in Int
  BY UpdateType, RoundedPrefix
<1> HIDE DEF u
<1>3. <<u>> \in Seq(Updates) /\ <<u>> # <<>> /\ Len(<<u>>) <= 2 /\ StillToCome(<<u>>) = Signed(u)
  BY <1>2 DEF StillToCome
<1>4. /\ todo' \in [Callers -> Seq(Updates)] /\ \A d \in Callers : Len(todo'[d]) <= 2
      /\ IsFiniteSet(Busy') /\ OneAtATime'
      /\ SumFunction(Owed') = SumFunction(Owed) + Signed(u)
  BY <1>1, <1>3, BeginOwes DEF u
<1>5. MemoryTypeOK'
  <2>1. DOMAIN size' = DOMAIN size \cup {p} /\ IsFiniteSet(DOMAIN size')
    BY <1>1, FS_AddElement DEF MemoryInv, MemoryTypeOK
  <2>2. \A q \in DOMAIN size' : q \in Pointers /\ size'[q] \in Nat
    BY <1>1, <2>1 DEF MemoryInv, MemoryTypeOK
  <2>3. size' = [q \in DOMAIN size' |-> size'[q]]
    BY <1>1, <2>1
  <2> QED
    BY <1>1, <1>4, <2>1, <2>2, <2>3 DEF MemoryInv, MemoryTypeOK, Begin
<1>6. SumFunction(Taken') = SumFunction(Taken) + Signed(u)
  <2> DEFINE v == Taken'
             D == DOMAIN size
  <2>1. /\ SumFunction(Taken) = SumFunctionOnSet(Taken, D)
        /\ \A q \in D : Taken[q] = Rounded(size[q] + PREFIX_SIZE) /\ Taken[q] \in Int
    BY SumsDefined DEF MemoryInv
  <2>2. DOMAIN v = D \cup {p} /\ v[p] = Signed(u) /\ \A q \in D : v[q] = Taken[q]
    BY <1>1, <1>2, <2>1 DEF Taken
  <2>3. SumFunction(v) = SumFunctionOnSet(v, D \cup {p})
    BY <2>2 DEF SumFunction
  <2>4. \A q \in D \cup {p} : v[q] \in Int
    BY <1>2, <2>1, <2>2
  <2>5. IsFiniteSet(D) /\ p \notin D
    BY <1>1 DEF MemoryInv, MemoryTypeOK
  <2> HIDE DEF v, D
  <2>6. SumFunctionOnSet(v, D \cup {p}) = SumFunctionOnSet(Taken, D) + v[p]
    BY <2>2, <2>4, <2>5, SumAdd
  <2> QED
    BY <2>1, <2>2, <2>3, <2>6 DEF v
<1>7. CountedOrOwed'
  BY <1>1, <1>2, <1>4, <1>5, <1>6, BalanceKept DEF Begin
<1> QED
  BY <1>4, <1>5, <1>7 DEF MemoryInv

LEMMA zreallocMemoryInv ==
  ASSUME MemoryInv, NEW c \in Callers, zrealloc(c)
  PROVE  MemoryInv'
<1> USE ZmallocAssumption
<1>1. PICK p \in DOMAIN size, n \in AllocSizes :
        /\ Begin(c, <<Subtract(p, size[p]), Add(p, n)>>)
        /\ size' = [size EXCEPT ![p] = n]
  BY DEF zrealloc
<1> DEFINE u == Subtract(p, size[p])
           w == Add(p, n)
<1>0. p \in Pointers /\ size[p] \in Nat /\ n \in Nat
  BY DEF MemoryInv, MemoryTypeOK
<1>2. /\ u \in Updates /\ w \in Updates
      /\ Signed(u) = 0 - Rounded(size[p]) /\ Signed(w) = Rounded(n)
  BY <1>0, UpdateType
<1>8. Rounded(size[p]) \in Nat /\ Rounded(n) \in Nat
  BY <1>0, RoundedPrefix
<1> HIDE DEF u, w
<1>3. /\ <<u, w>> \in Seq(Updates) /\ <<u, w>> # <<>> /\ Len(<<u, w>>) <= 2
      /\ StillToCome(<<u, w>>) = Signed(u) + Signed(w)
  BY <1>2 DEF StillToCome
<1> DEFINE k == Rounded(n) - Rounded(size[p])
<1>4. /\ todo' \in [Callers -> Seq(Updates)] /\ \A d \in Callers : Len(todo'[d]) <= 2
      /\ IsFiniteSet(Busy') /\ OneAtATime'
      /\ SumFunction(Owed') = SumFunction(Owed) + (Signed(u) + Signed(w))
  BY <1>1, <1>3, BeginOwes DEF u, w
<1>9. SumFunction(Owed') = SumFunction(Owed) + k
  BY <1>2, <1>4, <1>8
<1>5. MemoryTypeOK'
  <2>1. DOMAIN size' = DOMAIN size
    BY <1>1 DEF MemoryInv, MemoryTypeOK
  <2>2. \A q \in DOMAIN size' : q \in Pointers /\ size'[q] \in Nat
    BY <1>0, <1>1, <2>1 DEF MemoryInv, MemoryTypeOK
  <2>3. size' = [q \in DOMAIN size' |-> size'[q]]
    BY <1>1, <2>1
  <2> QED
    BY <1>1, <1>4, <2>1, <2>2, <2>3 DEF MemoryInv, MemoryTypeOK, Begin
<1>6. SumFunction(Taken') = SumFunction(Taken) + k
  <2> DEFINE v == Taken'
             D == DOMAIN size
  <2>1. /\ SumFunction(Taken) = SumFunctionOnSet(Taken, D)
        /\ \A q \in D : Taken[q] = Rounded(size[q] + PREFIX_SIZE) /\ Taken[q] \in Int
    BY SumsDefined DEF MemoryInv
  <2>2. /\ DOMAIN v = D /\ v[p] = Rounded(n + PREFIX_SIZE)
        /\ \A q \in D \ {p} : v[q] = Taken[q]
    BY <1>1, <2>1 DEF Taken
  <2>3. SumFunction(v) = SumFunctionOnSet(v, D)
    BY <2>2 DEF SumFunction
  <2>4. v[p] - Taken[p] = k /\ v[p] \in Int
    BY <1>0, <1>8, <2>1, <2>2, RoundedPrefix
  <2>5. \A q \in D : v[q] \in Int /\ Taken[q] \in Int
    BY <2>1, <2>2, <2>4
  <2>6. IsFiniteSet(D) /\ p \in D
    BY <1>1 DEF MemoryInv, MemoryTypeOK
  <2> HIDE DEF v, D, k
  <2>7. SumFunctionOnSet(v, D) = SumFunctionOnSet(Taken, D) + (v[p] - Taken[p])
    BY <2>2, <2>5, <2>6, SumChange
  <2> QED
    BY <2>1, <2>3, <2>4, <2>7 DEF v
<1>7. CountedOrOwed'
  <2>1. k \in Int
    BY <1>8
  <2> HIDE DEF k
  <2> QED
    BY <1>1, <2>1, <1>9, <1>5, <1>6, BalanceKept DEF Begin
<1> QED
  BY <1>4, <1>5, <1>7 DEF MemoryInv

LEMMA zfreeMemoryInv ==
  ASSUME MemoryInv, NEW c \in Callers, zfree(c)
  PROVE  MemoryInv'
<1> USE ZmallocAssumption
<1>1. PICK p \in DOMAIN size :
        /\ Begin(c, <<Subtract(p, size[p] + PREFIX_SIZE)>>)
        /\ size' = [q \in DOMAIN size \ {p} |-> size[q]]
  BY DEF zfree
<1> DEFINE n == size[p] + PREFIX_SIZE
           u == Subtract(p, n)
<1>0. p \in Pointers /\ n \in Nat
  BY DEF MemoryInv, MemoryTypeOK
<1>2. u \in Updates /\ Signed(u) = 0 - Rounded(n)
  BY <1>0, UpdateType
<1>8. Rounded(n) \in Nat
  BY <1>0, RoundedPrefix
<1> HIDE DEF u
<1>3. <<u>> \in Seq(Updates) /\ <<u>> # <<>> /\ Len(<<u>>) <= 2 /\ StillToCome(<<u>>) = Signed(u)
  BY <1>2 DEF StillToCome
<1>4. /\ todo' \in [Callers -> Seq(Updates)] /\ \A d \in Callers : Len(todo'[d]) <= 2
      /\ IsFiniteSet(Busy') /\ OneAtATime'
      /\ SumFunction(Owed') = SumFunction(Owed) + (0 - Rounded(n))
  BY <1>1, <1>2, <1>3, BeginOwes DEF u
<1>5. MemoryTypeOK'
  <2>1. DOMAIN size' = DOMAIN size \ {p} /\ IsFiniteSet(DOMAIN size')
    BY <1>1, FS_RemoveElement DEF MemoryInv, MemoryTypeOK
  <2>2. \A q \in DOMAIN size' : q \in Pointers /\ size'[q] \in Nat
    BY <1>1, <2>1 DEF MemoryInv, MemoryTypeOK
  <2>3. size' = [q \in DOMAIN size' |-> size'[q]]
    BY <1>1, <2>1
  <2> QED
    BY <1>1, <1>4, <2>1, <2>2, <2>3 DEF MemoryInv, MemoryTypeOK, Begin
<1>6. SumFunction(Taken') = SumFunction(Taken) + (0 - Rounded(n))
  <2> DEFINE v == Taken'
             D == DOMAIN size
  <2>1. /\ SumFunction(Taken) = SumFunctionOnSet(Taken, D)
        /\ \A q \in D : Taken[q] = Rounded(size[q] + PREFIX_SIZE) /\ Taken[q] \in Int
    BY SumsDefined DEF MemoryInv
  <2>2. DOMAIN v = D \ {p} /\ \A q \in D \ {p} : v[q] = Taken[q]
    BY <1>1, <2>1 DEF Taken
  <2>3. SumFunction(v) = SumFunctionOnSet(v, D \ {p})
    BY <2>2 DEF SumFunction
  <2>4. Taken[p] = Rounded(n)
    BY <2>1
  <2>5. IsFiniteSet(D) /\ p \in D
    BY <1>1 DEF MemoryInv, MemoryTypeOK
  <2>6. \A q \in D : Taken[q] \in Int
    BY <2>1
  <2> HIDE DEF v, D, n
  <2>7. SumFunctionOnSet(Taken, D) = Taken[p] + SumFunctionOnSet(Taken, D \ {p})
    BY <2>5, <2>6, SumRemove
  <2>8. IsFiniteSet(D \ {p})
    BY <2>5, FS_RemoveElement
  <2>9. SumFunctionOnSet(v, D \ {p}) = SumFunctionOnSet(Taken, D \ {p})
    BY <2>2, <2>8, SumSame
  <2>10. SumFunctionOnSet(Taken, D \ {p}) \in Int
    BY <2>6, <2>8, SumInt
  <2>11. SumFunction(v) = SumFunction(Taken) + (0 - Rounded(n))
    BY <1>8, <2>1, <2>3, <2>4, <2>7, <2>9, <2>10
  <2> QED
    BY <2>11 DEF v
<1>7. CountedOrOwed'
  <2> DEFINE k == 0 - Rounded(n)
  <2>1. k \in Int
    BY <1>8
  <2>2. SumFunction(Owed') = SumFunction(Owed) + k /\ SumFunction(Taken') = SumFunction(Taken) + k
    BY <1>4, <1>6
  <2> HIDE DEF k
  <2> QED
    BY <1>1, <2>1, <2>2, <1>5, BalanceKept DEF Begin
<1> QED
  BY <1>4, <1>5, <1>7 DEF MemoryInv

\* The first update of a call leaves the others still to come.
LEMMA FirstUpdate ==
  ASSUME NEW t \in Seq(Updates), t # <<>>, Len(t) <= 2
  PROVE  /\ Head(t) \in Updates /\ Tail(t) \in Seq(Updates)
         /\ Len(Tail(t)) <= 2
         /\ Signed(Head(t)) \in Int /\ StillToCome(t) \in Int /\ StillToCome(Tail(t)) \in Int
         /\ StillToCome(t) = Signed(Head(t)) + StillToCome(Tail(t))
<1>1. Len(t) \in Nat /\ Len(t) # 0 /\ Len(t) <= 2
  <2>1. Len(t) \in Nat \ {0}
    BY EmptySeq
  <2> QED
    BY <2>1, Zenon
<1>2. /\ Head(t) \in Updates /\ Tail(t) \in Seq(Updates) /\ Len(Tail(t)) = Len(t) - 1
      /\ \A j \in 1 .. Len(Tail(t)) : Tail(t)[j] = t[j + 1]
  BY HeadTailProperties
<1>3. Head(t) = t[1] /\ 1 \in DOMAIN t
  BY <1>1
<1>4. Signed(t[1]) \in Int /\ StillToCome(t) \in Int /\ StillToCome(Tail(t)) \in Int
  BY <1>2, <1>3, UpdateInts
<1>5. StillToCome(t) = Signed(t[1]) + StillToCome(Tail(t))
  <2>1. CASE Len(t) = 1
    <3>1. Tail(t) = <<>>
      <4>1. Len(Tail(t)) = 0
        BY <1>2, <2>1
      <4>2. Tail(t) # <<>> => Len(Tail(t)) \in Nat \ {0}
        BY <1>2, EmptySeq, Zenon
      <4> QED
        BY <4>1, <4>2
    <3>2. StillToCome(Tail(t)) = 0
      BY <3>1 DEF StillToCome
    <3>3. StillToCome(t) = Signed(t[1])
      BY <2>1, Zenon DEF StillToCome
    <3> QED
      BY <1>4, <3>2, <3>3
  <2>2. CASE Len(t) # 1
    <3>1. Len(t) = 2
      <4> DEFINE n == Len(t)
      <4>1. n \in Nat /\ n # 0 /\ n <= 2 /\ n # 1
        BY <1>1, <2>2, Zenon
      <4> HIDE DEF n
      <4>2. n = 2
        BY <4>1
      <4> QED
        BY <4>2 DEF n
    <3>2. Len(Tail(t)) = 1 /\ Tail(t)[1] = t[2]
      <4> DEFINE n == Len(Tail(t))
      <4>1. n = 2 - 1
        BY <1>2, <3>1, Zenon
      <4> HIDE DEF n
      <4>2. n = 1 /\ 1 \in 1 .. n /\ 1 + 1 = 2
        BY <4>1
      <4>3. Tail(t)[1] = t[1 + 1]
        BY <1>2, <4>2, Zenon DEF n
      <4> QED
        BY <4>2, <4>3, Zenon DEF n
    <3>3. Tail(t) # <<>>
      <4>1. Len(<<>>) # 1
        OBVIOUS
      <4> QED
        BY <3>2, <4>1, Zenon
    <3>4. StillToCome(t) = Signed(t[1]) + Signed(t[2])
      BY <2>2, Zenon DEF StillToCome
    <3>5. StillToCome(Tail(t)) = Signed(Tail(t)[1])
      BY <3>2, <3>3, Zenon DEF StillToCome
    <3>6. Signed(Tail(t)[1]) = Signed(t[2])
      BY <3>2
    <3> QED
      BY <3>4, <3>5, <3>6
  <2> QED
    BY <2>1, <2>2
<1> QED
  BY <1>1, <1>2, <1>3, <1>4, <1>5

LEMMA loadUsedMemoryInv ==
  ASSUME MemoryInv, NEW c \in Callers, loadUsed(c)
  PROVE  MemoryInv'
<1>1. UNCHANGED <<used_memory, zmalloc_thread_safe, size, todo, calls>>
  BY DEF loadUsed
<1>2. Busy' = Busy /\ Owed' = Owed /\ Taken' = Taken
  BY <1>1 DEF Busy, Owed, Taken, InZmalloc
<1>3. used_memory \in Nat
  BY ZmallocAssumption DEF MemoryInv, MemoryTypeOK
<1>4. overlap' \in BOOLEAN /\ (overlap => overlap')
      /\ (~overlap' => \A d \in Callers \ {c} : loaded[d] => zmalloc_thread_safe /\ locks[d])
  <2>1. overlap' = (overlap \/ \E d \in Callers \ {c} :
                               loaded[d] /\ ~(zmalloc_thread_safe /\ locks[d]))
    BY DEF loadUsed
  <2>2. overlap \in BOOLEAN
    BY DEF MemoryInv, MemoryTypeOK
  <2> QED
    BY <2>1, <2>2, Zenon
<1>5. /\ loaded' = [loaded EXCEPT ![c] = TRUE] /\ register' = [register EXCEPT ![c] = used_memory]
      /\ locks' = [locks EXCEPT ![c] = zmalloc_thread_safe]
      /\ loaded' \in [Callers -> BOOLEAN] /\ locks' \in [Callers -> BOOLEAN]
      /\ register' \in [Callers -> Nat]
  <2>1. loaded \in [Callers -> BOOLEAN] /\ locks \in [Callers -> BOOLEAN]
        /\ register \in [Callers -> Nat] /\ zmalloc_thread_safe \in BOOLEAN
    BY DEF MemoryInv, MemoryTypeOK
  <2>2. /\ loaded' = [loaded EXCEPT ![c] = TRUE]
        /\ register' = [register EXCEPT ![c] = used_memory]
        /\ locks' = [locks EXCEPT ![c] = zmalloc_thread_safe]
    BY DEF loadUsed
  <2> QED
    BY <1>3, <2>1, <2>2
<1>6. MemoryTypeOK'
  <2>1. zmalloc_thread_safe' \in BOOLEAN
    BY <1>1 DEF MemoryInv, MemoryTypeOK
  <2> QED
    BY <1>1, <1>2, <1>4, <1>5, <2>1 DEF MemoryInv, MemoryTypeOK
<1>7. /\ \A d \in Callers : loaded'[d] => d = c \/ loaded[d]
      /\ \A d \in Callers \ {c} : loaded'[d] = loaded[d] /\ locks'[d] = locks[d]
                                  /\ register'[d] = register[d]
      /\ locks'[c] = zmalloc_thread_safe /\ register'[c] = used_memory
  BY <1>5 DEF MemoryInv, MemoryTypeOK
<1>8. \A d \in Callers \ {c} : loaded[d] /\ locks[d] => ~zmalloc_thread_safe
  <2>1. NoCaller \notin Callers
    BY ZmallocAssumption
  <2> QED
    BY <2>1 DEF MemoryInv, OneAtATime, loadUsed
<1>9. OneAtATime'
  <2>1. \A d \in Callers : loaded'[d] => InZmalloc(d)'
    BY <1>1, <1>7 DEF MemoryInv, OneAtATime, InZmalloc, loadUsed
  <2>2. \A d \in Callers : loaded'[d] /\ locks'[d] => used_memory_mutex' = d
    <3>1. used_memory_mutex' = IF zmalloc_thread_safe THEN c ELSE used_memory_mutex
      BY DEF loadUsed
    <3>2. \A d \in Callers : loaded[d] /\ locks[d] => used_memory_mutex = d
      BY DEF MemoryInv, OneAtATime
    <3> QED
      BY <1>7, <1>8, <3>1, <3>2, Zenon
  <2>3. ASSUME ~overlap' PROVE \A d \in Callers : loaded'[d] => d = c
    BY <1>4, <1>7, <1>8, <2>3
  <2>4. ~overlap' => \A e \in Callers : loaded'[e] =>
          register'[e] = used_memory' /\ \A d \in Callers \ {e} : ~loaded'[d]
    BY <1>1, <1>7, <2>3
  <2> QED
    BY <2>1, <2>2, <2>4 DEF OneAtATime
<1>10. CountedOrOwed'
  BY <1>1, <1>2, <1>4 DEF MemoryInv, CountedOrOwed
<1> QED
  BY <1>6, <1>9, <1>10 DEF MemoryInv

LEMMA storeUsedMemoryInv ==
  ASSUME MemoryInv, NEW c \in Callers, storeUsed(c)
  PROVE  MemoryInv'
<1> DEFINE t == todo[c]
           u == Head(t)
           n == Signed(u)
<1>1. SizeRange \in Nat \ {0} /\ NoCaller \notin Callers
  BY ZmallocAssumption
<1>2. loaded[c] /\ t # <<>> /\ t \in Seq(Updates) /\ Len(t) <= 2
  BY DEF MemoryInv, MemoryTypeOK, OneAtATime, storeUsed, InZmalloc
<1> HIDE DEF t
<1>3. /\ u \in Updates /\ Tail(t) \in Seq(Updates) /\ Len(Tail(t)) <= 2 /\ n \in Int
      /\ StillToCome(t) \in Int /\ StillToCome(Tail(t)) \in Int
      /\ StillToCome(t) = n + StillToCome(Tail(t))
  BY <1>2, FirstUpdate
<1>4. u.up \in BOOLEAN /\ u.n \in Nat /\ n = IF u.up THEN u.n ELSE 0 - u.n
  BY <1>3 DEF Updates, Signed
<1>5. StillToCome(Tail(t)) = StillToCome(t) - n
  BY <1>3
<1> HIDE DEF u, n
<1>6. todo' \in [Callers -> Seq(Updates)] /\ todo'[c] = Tail(t)
      /\ \A d \in Callers \ {c} : todo'[d] = todo[d]
  BY <1>3 DEF t, storeUsed, MemoryInv, MemoryTypeOK
<1>7. UNCHANGED <<zmalloc_thread_safe, size, locks, calls, overlap>> /\ Taken' = Taken
  BY DEF storeUsed, Taken
<1>8. used_memory' = (IF u.up THEN register[c] + u.n ELSE register[c] + SizeRange - u.n) % SizeRange
      /\ register[c] \in Nat
  BY DEF storeUsed, u, t, MemoryInv, MemoryTypeOK
<1>9. used_memory' \in 0 .. SizeRange - 1
      /\ \E j \in Int : used_memory' = register[c] + n + j * SizeRange
  <2> DEFINE a == IF u.up THEN register[c] + u.n ELSE register[c] + SizeRange - u.n
             e == IF u.up THEN 0 ELSE 1
             q == a \div SizeRange
  <2>1. a \in Int /\ e \in Int /\ a = register[c] + n + e * SizeRange
    BY <1>1, <1>4, <1>8
  <2>5. used_memory' = a % SizeRange
    BY <1>8
  <2> HIDE DEF a, e
  <2>2. q \in Int /\ a % SizeRange \in 0 .. SizeRange - 1 /\ a = q * SizeRange + (a % SizeRange)
    BY <1>1, <2>1, DivMod
  <2> HIDE DEF q
  <2>3. (e - q) * SizeRange = e * SizeRange - q * SizeRange
    BY <1>1, <2>1, <2>2
  <2>6. e * SizeRange \in Int /\ q * SizeRange \in Int
    BY <1>1, <2>1, <2>2
  <2>4. used_memory' = register[c] + n + (e - q) * SizeRange
    <3>1. a = q * SizeRange + used_memory' /\ used_memory' \in Int
      BY <1>1, <2>2, <2>5
    <3>2. register[c] \in Int /\ n \in Int
      <4>1. n \in Int
        BY <1>3, Zenon
      <4> QED
        BY <1>8, <4>1
    <3> DEFINE r == register[c]
               v == used_memory'
               x == e * SizeRange
               y == q * SizeRange
               z == (e - q) * SizeRange
    <3>3. r \in Int /\ n \in Int /\ v \in Int /\ x \in Int /\ y \in Int
      BY <2>6, <3>1, <3>2, Zenon
    <3>4. a = r + n + x /\ a = y + v /\ z = x - y
      BY <2>1, <2>3, <3>1, Zenon
    <3> HIDE DEF r, v, x, y, z
    <3>5. v = r + n + z
      BY <3>3, <3>4, SMTT(30)
    <3> QED
      BY <3>5, Zenon DEF r, v, z
  <2> QED
    BY <2>1, <2>2, <2>4, <2>5
<1>10. /\ Busy' = IF Tail(t) = <<>> THEN Busy \ {c} ELSE Busy
       /\ c \in Busy /\ IsFiniteSet(Busy) /\ IsFiniteSet(Busy')
  <2>1. Busy' = IF Tail(t) = <<>> THEN Busy \ {c} ELSE Busy
    BY <1>2, <1>6 DEF Busy, InZmalloc, t
  <2>2. c \in Busy /\ IsFiniteSet(Busy)
    BY <1>2 DEF Busy, InZmalloc, t, MemoryInv, MemoryTypeOK
  <2>3. IsFiniteSet(Busy \ {c})
    BY <2>2, FS_RemoveElement
  <2> QED
    BY <2>1, <2>2, <2>3
<1>11. MemoryTypeOK'
  <2>1. \A d \in Callers : Len(todo'[d]) <= 2
    <3>1. \A d \in Callers : Len(todo[d]) <= 2
      BY DEF MemoryInv, MemoryTypeOK
    <3> QED
      BY <1>3, <1>6, <3>1
  <2>2. loaded' \in [Callers -> BOOLEAN] /\ register' \in [Callers -> Nat]
    BY DEF storeUsed, MemoryInv, MemoryTypeOK
  <2>3. locks' \in [Callers -> BOOLEAN] /\ zmalloc_thread_safe' \in BOOLEAN /\ overlap' \in BOOLEAN
    BY <1>7 DEF MemoryInv, MemoryTypeOK
  <2> QED
    BY <1>6, <1>7, <1>9, <1>10, <2>1, <2>2, <2>3 DEF MemoryInv, MemoryTypeOK
<1>12. ~loaded'[c] /\ \A d \in Callers \ {c} : loaded'[d] = loaded[d] /\ register'[d] = register[d]
  BY DEF storeUsed, MemoryInv, MemoryTypeOK
<1>13. OneAtATime'
  <2>1. \A d \in Callers : loaded'[d] => InZmalloc(d)'
    BY <1>6, <1>12 DEF MemoryInv, OneAtATime, InZmalloc
  <2>2. \A d \in Callers : loaded'[d] /\ locks'[d] => used_memory_mutex' = d
    BY <1>7, <1>12 DEF MemoryInv, OneAtATime, storeUsed
  <2>3. ~overlap => \A d \in Callers : ~loaded'[d]
    BY <1>2, <1>12 DEF MemoryInv, OneAtATime
  <2> QED
    BY <1>7, <2>1, <2>2, <2>3 DEF OneAtATime
<1>14. SumFunction(Owed') = SumFunction(Owed) - n /\ SumFunction(Owed) \in Int
  <2> DEFINE v == Owed'
  <2>1. /\ SumFunction(Owed) = SumFunctionOnSet(Owed, Busy) /\ SumFunction(Owed) \in Int
        /\ \A d \in Busy : Owed[d] = StillToCome(todo[d]) /\ Owed[d] \in Int
    BY SumsDefined DEF MemoryInv
  <2>2. DOMAIN v = Busy' /\ \A d \in Busy' : v[d] = StillToCome(todo'[d])
    BY DEF Owed
  <2>3. SumFunction(v) = SumFunctionOnSet(v, Busy')
    BY <2>2 DEF SumFunction
  <2>4. Owed[c] = StillToCome(t)
    BY <1>10, <2>1 DEF t
  <2>5. \A d \in Busy' \ {c} : v[d] = Owed[d] /\ d \in Busy
    BY <1>6, <1>10, <2>1, <2>2 DEF Busy
  <2> HIDE DEF v
  <2>6. CASE Tail(t) = <<>>
    <3>1. StillToCome(t) = n
      <4>1. StillToCome(Tail(t)) = 0
        BY <2>6 DEF StillToCome
      <4> QED
        BY <1>3, <1>5, <4>1
    <3>2. Busy' = Busy \ {c}
      BY <1>10, <2>6
    <3> DEFINE B == Busy \ {c}
    <3>3. SumFunctionOnSet(Owed, Busy) = n + SumFunctionOnSet(Owed, B)
      BY <1>10, <2>1, <2>4, <3>1, SumRemove
    <3>4. IsFiniteSet(B) /\ \A d \in B : v[d] = Owed[d] /\ Owed[d] \in Int
      BY <1>10, <2>1, <2>5, <3>2
    <3> HIDE DEF B
    <3>5. SumFunctionOnSet(v, B) = SumFunctionOnSet(Owed, B)
      BY <3>4, SumSame
    <3>6. SumFunctionOnSet(Owed, B) \in Int
      BY <3>4, SumInt
    <3>7. SumFunction(v) = SumFunctionOnSet(v, B)
      BY <2>3, <3>2 DEF B
    <3>8. SumFunction(v) = SumFunction(Owed) - n
      BY <1>3, <2>1, <3>3, <3>5, <3>6, <3>7
    <3> QED
      BY <2>1, <3>8 DEF v
  <2>7. CASE Tail(t) # <<>>
    <3>1. Busy' = Busy
      BY <1>10, <2>7
    <3>2. v[c] = StillToCome(t) - n
      BY <1>5, <1>6, <1>10, <2>2, <3>1
    <3>3. v[c] \in Int /\ v[c] - Owed[c] = 0 - n
      BY <1>3, <1>5, <2>4, <3>2
    <3>4. \A d \in Busy : v[d] \in Int /\ Owed[d] \in Int
      BY <2>1, <2>5, <3>1, <3>3
    <3>5. \A d \in Busy \ {c} : v[d] = Owed[d]
      BY <2>5, <3>1
    <3>6. SumFunctionOnSet(v, Busy) = SumFunctionOnSet(Owed, Busy) + (v[c] - Owed[c])
      BY <1>10, <3>4, <3>5, SumChange
    <3>7. SumFunction(v) = SumFunction(Owed) - n
      BY <1>3, <2>1, <2>3, <3>1, <3>3, <3>6
    <3> QED
      BY <2>1, <3>7 DEF v
  <2> QED
    BY <2>6, <2>7
<1>15. CountedOrOwed'
  <2> SUFFICES ASSUME ~overlap
               PROVE  \E k \in Int : used_memory' + SumFunction(Owed')
                                     = SumFunction(Taken') + k * SizeRange
    BY <1>7 DEF CountedOrOwed
  <2>1. register[c] = used_memory /\ used_memory \in Int
    BY <1>1, <1>2 DEF MemoryInv, MemoryTypeOK, OneAtATime
  <2>2. PICK k \in Int :
          used_memory + SumFunction(Owed) = SumFunction(Taken) + k * SizeRange
    BY DEF MemoryInv, CountedOrOwed
  <2>3. PICK j \in Int : used_memory' = used_memory + n + j * SizeRange
    BY <1>9, <2>1
  <2>4. SumFunction(Taken) \in Int
    BY SumsDefined DEF MemoryInv
  <2>5. (k + j) * SizeRange = k * SizeRange + j * SizeRange
        /\ k * SizeRange \in Int /\ j * SizeRange \in Int
    BY <1>1
  <2>6. used_memory' + SumFunction(Owed') = SumFunction(Taken) + (k + j) * SizeRange
    <3>1. used_memory' + SumFunction(Owed') = used_memory + SumFunction(Owed) + j * SizeRange
      BY <1>3, <1>14, <2>1, <2>3, <2>5
    <3> QED
      BY <2>2, <2>4, <2>5, <3>1
  <2> QED
    BY <1>7, <2>6
<1> QED
  BY <1>11, <1>13, <1>15 DEF MemoryInv
-----------------------------------------------------------------------------
LEMMA InitMemoryInv == ZmallocInit => MemoryInv
<1> SUFFICES ASSUME ZmallocInit PROVE MemoryInv
  OBVIOUS
<1>1. SizeRange \in Nat \ {0}
  BY ZmallocAssumption
<1>2. Busy = {} /\ DOMAIN size = {}
  BY DEF ZmallocInit, Busy, InZmalloc
<1>3. IsFiniteSet({})
  BY FS_EmptySet
<1>4. MemoryTypeOK
  <2>1. /\ zmalloc_thread_safe \in BOOLEAN /\ overlap \in BOOLEAN
    BY Zenon DEF ZmallocInit
  <2>2. todo \in [Callers -> Seq(Updates)] /\ \A c \in Callers : Len(todo[c]) <= 2
    BY DEF ZmallocInit
  <2>3. /\ loaded \in [Callers -> BOOLEAN] /\ locks \in [Callers -> BOOLEAN]
        /\ register \in [Callers -> Nat]
    BY DEF ZmallocInit
  <2>4. size = [p \in DOMAIN size |-> size[p]]
    BY DEF ZmallocInit
  <2>5. used_memory \in 0 .. SizeRange - 1
    BY <1>1 DEF ZmallocInit
  <2> QED
    BY <1>2, <1>3, <2>1, <2>2, <2>3, <2>4, <2>5 DEF MemoryTypeOK
<1>5. OneAtATime
  BY DEF ZmallocInit, OneAtATime
<1>6. CountedOrOwed
  <2>1. /\ SumFunction(Owed) = SumFunctionOnSet(Owed, {})
        /\ SumFunction(Taken) = SumFunctionOnSet(Taken, {})
    BY <1>2, <1>4, SumsDefined
  <2>2. SumFunction(Owed) = 0 /\ SumFunction(Taken) = 0
    BY <2>1, SumEmpty
  <2>3. used_memory + SumFunction(Owed) = SumFunction(Taken) + 0 * SizeRange
    BY <1>1, <2>2 DEF ZmallocInit
  <2> QED
    BY <2>3 DEF CountedOrOwed
<1> QED
  BY <1>4, <1>5, <1>6 DEF MemoryInv

LEMMA NextMemoryInv == MemoryInv /\ [PoolNext]_poolVars => MemoryInv'
<1> SUFFICES ASSUME MemoryInv, [PoolNext]_poolVars PROVE MemoryInv'
  OBVIOUS
<1>1. CASE UNCHANGED zmallocVars
  <2>1. UNCHANGED <<used_memory, zmalloc_thread_safe, used_memory_mutex, size, todo, loaded,
                    register, locks, calls, overlap>>
    BY <1>1 DEF zmallocVars
  <2>2. Busy' = Busy /\ Owed' = Owed /\ Taken' = Taken
    BY <2>1 DEF Busy, Owed, Taken, InZmalloc
  <2>3. MemoryTypeOK'
    BY <2>1, <2>2 DEF MemoryInv, MemoryTypeOK
  <2>4. OneAtATime'
    BY <2>1 DEF MemoryInv, OneAtATime, InZmalloc
  <2>5. CountedOrOwed'
    BY <2>1, <2>2 DEF MemoryInv, CountedOrOwed
  <2> QED
    BY <2>3, <2>4, <2>5 DEF MemoryInv
<1>2. CASE zmalloc_enable_thread_safeness
  <2>1. UNCHANGED <<used_memory, used_memory_mutex, size, todo, loaded, register, locks, calls,
                    overlap>> /\ zmalloc_thread_safe'
    BY <1>2 DEF zmalloc_enable_thread_safeness
  <2>2. Busy' = Busy /\ Owed' = Owed /\ Taken' = Taken
    BY <2>1 DEF Busy, Owed, Taken, InZmalloc
  <2>6. zmalloc_thread_safe' \in BOOLEAN
    BY <1>2, Zenon DEF zmalloc_enable_thread_safeness
  <2>3. MemoryTypeOK'
    BY <2>1, <2>2, <2>6 DEF MemoryInv, MemoryTypeOK
  <2>4. OneAtATime'
    BY <2>1 DEF MemoryInv, OneAtATime, InZmalloc
  <2>5. CountedOrOwed'
    BY <2>1, <2>2 DEF MemoryInv, CountedOrOwed
  <2> QED
    BY <2>3, <2>4, <2>5 DEF MemoryInv
<1>3. ASSUME NEW c \in Callers, callStep(c) PROVE MemoryInv'
  BY <1>3, zmallocMemoryInv, zreallocMemoryInv, zfreeMemoryInv, loadUsedMemoryInv,
     storeUsedMemoryInv DEF callStep, updateStep
<1> QED
  BY <1>1, <1>2, <1>3
     DEF PoolNext, poolVars, mainTurn, otherTurn, enableTurn, threadTurn, memoryTurn

\* As long as no two updates without the mutex have overlapped, used_memory and
\* what the calls under way have still to add or take off are what the live
\* blocks take, at every step of every call (zmalloc.c:55-81, 94-168).
THEOREM PoolMemoryBalanced == PoolSpec => []MemoryInv
<1>1. PoolInit => MemoryInv
  BY InitMemoryInv DEF PoolInit
<1> QED
  BY <1>1, NextMemoryInv, PTL DEF PoolSpec

\* Between calls used_memory is exactly what the live blocks take, whatever was
\* allocated, changed in size and freed, by any number of threads.
THEOREM PoolUsedIsSum == PoolSpec => []UsedIsSum
<1>1. ASSUME MemoryInv PROVE UsedIsSum
  <2> SUFFICES ASSUME \A c \in Callers : ~InZmalloc(c), ~overlap
               PROVE  used_memory = SumFunction(Taken) % SizeRange
    BY DEF UsedIsSum
  <2>1. SumFunction(Owed) = SumFunctionOnSet(Owed, Busy) /\ SumFunction(Taken) \in Int
    BY <1>1, SumsDefined DEF MemoryInv
  <2>2. Busy = {}
    BY DEF Busy
  <2>3. SumFunction(Owed) = 0
    BY <2>1, <2>2, SumEmpty
  <2>4. PICK k \in Int :
          used_memory + SumFunction(Owed) = SumFunction(Taken) + k * SizeRange
    BY <1>1 DEF MemoryInv, CountedOrOwed
  <2>5. SizeRange \in Nat \ {0} /\ used_memory \in 0 .. SizeRange - 1
    BY <1>1, ZmallocAssumption DEF MemoryInv, MemoryTypeOK
  <2>6. used_memory = SumFunction(Taken) + k * SizeRange
    BY <2>3, <2>4, <2>5
  <2> QED
    BY <2>1, <2>5, <2>6, ModUnique
<1>2. MemoryInv => UsedIsSum
  BY <1>1
<1> QED
  BY <1>2, PoolMemoryBalanced, PTL

\* The mutex is in use, and no update without it is under way.
Guarded == zmalloc_thread_safe /\ ~overlap /\ \A c \in Callers : loaded[c] => locks[c]

Balanced == \E k \in Int : used_memory + SumFunction(Owed) = SumFunction(Taken) + k * SizeRange

\* Enabling the mutex while no update is half done is enough: from then on two
\* updates never overlap, and the count, with what is still to come, is right for
\* ever (zmalloc.c:59-65, 73-79, 192-194).
THEOREM PoolMutexIsEnough == PoolSpec => [][Guarded => Guarded' /\ Balanced']_poolVars
<1>1. ASSUME MemoryInv, [PoolNext]_poolVars, Guarded PROVE Guarded'
  <2> USE DEF Guarded
  <2>1. loaded \in [Callers -> BOOLEAN] /\ locks \in [Callers -> BOOLEAN]
    BY <1>1 DEF MemoryInv, MemoryTypeOK
  <2>2. CASE UNCHANGED zmallocVars
    BY <1>1, <2>2 DEF zmallocVars
  <2>3. CASE zmalloc_enable_thread_safeness
    BY <1>1, <2>3 DEF zmalloc_enable_thread_safeness
  <2>4. ASSUME NEW c \in Callers, zmalloc(c) \/ zrealloc(c) \/ zfree(c) PROVE Guarded'
    <3>1. UNCHANGED <<zmalloc_thread_safe, loaded, locks, overlap>>
      BY <2>4 DEF zmalloc, zrealloc, zfree, Begin
    <3> QED
      BY <1>1, <3>1
  <2>5. ASSUME NEW c \in Callers, loadUsed(c) PROVE Guarded'
    <3>1. /\ locks' = [locks EXCEPT ![c] = zmalloc_thread_safe]
          /\ loaded' = [loaded EXCEPT ![c] = TRUE] /\ UNCHANGED zmalloc_thread_safe
      BY <2>5 DEF loadUsed
    <3>2. ~overlap'
      BY <1>1, <2>5, Zenon DEF loadUsed
    <3>3. \A d \in Callers : loaded'[d] => locks'[d]
      BY <1>1, <2>1, <3>1
    <3> QED
      BY <1>1, <3>1, <3>2, <3>3
  <2>6. ASSUME NEW c \in Callers, storeUsed(c) PROVE Guarded'
    <3>1. /\ loaded' = [loaded EXCEPT ![c] = FALSE]
          /\ UNCHANGED <<zmalloc_thread_safe, locks, overlap>>
      BY <2>6 DEF storeUsed
    <3> QED
      BY <1>1, <2>1, <3>1
  <2> QED
    BY <1>1, <2>2, <2>3, <2>4, <2>5, <2>6
       DEF PoolNext, poolVars, mainTurn, otherTurn, enableTurn, threadTurn, memoryTurn, callStep,
           updateStep
<1>2. ASSUME MemoryInv, [PoolNext]_poolVars, Guarded PROVE Balanced'
  <2>1. MemoryInv' /\ Guarded'
    BY <1>1, <1>2, NextMemoryInv
  <2> QED
    BY <2>1 DEF MemoryInv, CountedOrOwed, Guarded, Balanced
<1>3. MemoryInv /\ [PoolNext]_poolVars => (Guarded => Guarded' /\ Balanced')
  BY <1>1, <1>2
<1> QED
  BY <1>3, PoolMemoryBalanced, PTL DEF PoolSpec
===============================================================================
