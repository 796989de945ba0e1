--------------------------- MODULE TcpServer_proofs ---------------------------
(***************************************************************************)
(* Theorems about the server and the array its sessions are kept in, for   *)
(* any number of sessions, descriptors and workers, any array capacity and *)
(* any length of the message queues.                                       *)
(*                                                                         *)
(* First the array, for every set of items and every capacity: its types,  *)
(* that slots and indices name each other until an erase fills a hole,     *)
(* that the index assertion holds until then, and that tail counts the     *)
(* items pushed and not erased, also afterwards.                           *)
(***************************************************************************)
EXTENDS TcpServer, FiniteSetTheorems, SequenceTheorems, TLAPS

\* The slots in use hold items, whatever the indices say.
SlotsFilled == \A i \in 0 .. tail - 1 : arrayItem[i] \in Items

\* What pushes and erases keep, whoever calls them: the types, which need SlotsFilled,
\* since EraseLast takes an item's index, and capacity >= 2, since pushBack doubles
\* tail, which must not be 0.
ArrayShape ==
  /\ capacity \in Nat /\ capacity >= 2 /\ tail \in 0 .. capacity
  /\ arrayItem \in [0 .. capacity - 1 -> Items \cup {NULL}]
  /\ arrayIndex \in [Items -> -1 .. capacity - 1]
  /\ moved \in BOOLEAN
  /\ SlotsFilled
  /\ ConsistentUntilMove
  /\ IsFiniteSet(Pushed)
  /\ TailCounts

\* The inductive invariant.  AbortOnlyAfterMove needs ConsistentUntilMove one step
\* earlier, and that an item is erased only once as long as the indices are right.
ArrayInv ==
  /\ ArrayShape
  /\ crash \in {"none", "index"}
  /\ AbortOnlyAfterMove

-----------------------------------------------------------------------------
LEMMA ArrayInit == initFastArray => ArrayInv
<1> SUFFICES ASSUME initFastArray PROVE ArrayInv
  OBVIOUS
<1> USE FastArrayAssumption DEF initFastArray
<1>a. /\ capacity \in Nat /\ capacity >= 2 /\ tail \in 0 .. capacity
      /\ arrayItem \in [0 .. capacity - 1 -> Items \cup {NULL}]
      /\ arrayIndex \in [Items -> -1 .. capacity - 1]
      /\ crash \in {"none", "index"} /\ moved \in BOOLEAN
  <2>1. capacity \in Nat /\ capacity >= 2 /\ tail \in 0 .. capacity
    OBVIOUS
  <2>2. arrayItem \in [0 .. capacity - 1 -> Items \cup {NULL}]
    OBVIOUS
  <2>3. arrayIndex \in [Items -> -1 .. capacity - 1]
    <3>1. -1 \in -1 .. capacity - 1
      OBVIOUS
    <3> QED
      BY <3>1
  <2>4. crash \in {"none", "index"} /\ moved \in BOOLEAN
    OBVIOUS
  <2> QED
    BY <2>1, <2>2, <2>3, <2>4
<1>b. SlotsFilled /\ AbortOnlyAfterMove
  BY DEF SlotsFilled, AbortOnlyAfterMove
<1>2. Pushed = {}
  BY DEF Pushed
<1>3. ConsistentUntilMove
  BY <1>2 DEF ConsistentUntilMove
<1>4. IsFiniteSet(Pushed) /\ TailCounts
  BY <1>2, FS_EmptySet DEF TailCounts
<1> QED
  BY <1>a, <1>b, <1>3, <1>4 DEF ArrayInv, ArrayShape

\* There is room for one more after pushBack has looked.
LEMMA PushHasRoom ==
  ASSUME ArrayShape
  PROVE  Grown \in Nat /\ Grown >= capacity /\ tail + 1 <= Grown
BY DEF ArrayShape, Grown

\* A push of an item that is not in the array keeps its shape and adds the item.
LEMMA PushShape ==
  ASSUME ArrayShape, NEW o \in Items \ Pushed, pushBackFastArray(o)
  PROVE  ArrayShape' /\ Pushed' = Pushed \cup {o}
<1> USE DEF pushBackFastArray
<1>0. /\ Grown \in Nat /\ Grown >= capacity /\ tail + 1 <= Grown
      /\ tail \in Nat /\ capacity \in Nat /\ capacity >= 2 /\ tail <= capacity
  BY PushHasRoom DEF ArrayShape
<1>1. /\ arrayIndex \in [Items -> -1 .. capacity - 1]
      /\ arrayItem \in [0 .. capacity - 1 -> Items \cup {NULL}]
      /\ arrayIndex[o] = -1
  BY DEF ArrayShape, Pushed
<1>2. arrayIndex' \in [Items -> -1 .. capacity' - 1]
  BY <1>0, <1>1
<1>3. /\ arrayItem' \in [0 .. capacity' - 1 -> Items \cup {NULL}]
      /\ arrayItem'[tail] = o
      /\ \A i \in 0 .. tail - 1 : arrayItem'[i] = arrayItem[i]
  BY <1>0, <1>1
<1>4. (capacity \in Nat /\ capacity >= 2 /\ tail \in 0 .. capacity /\ moved \in BOOLEAN)'
  BY <1>0 DEF ArrayShape
<1>5. SlotsFilled'
  BY <1>0, <1>3 DEF ArrayShape, SlotsFilled
<1>6. Pushed' = Pushed \cup {o} /\ o \notin Pushed
  BY <1>0, <1>1 DEF Pushed
<1>7. IsFiniteSet(Pushed') /\ TailCounts'
  BY <1>0, <1>6, FS_AddElement DEF ArrayShape, TailCounts
<1>8. ConsistentUntilMove'
  <2> SUFFICES ASSUME ~moved
               PROVE  ConsistentUntilMove'
    BY DEF ConsistentUntilMove
  <2>1. ASSUME NEW q \in Pushed' PROVE arrayIndex'[q] < tail' /\ arrayItem'[arrayIndex'[q]] = q
    <3>1. CASE q = o
      BY <3>1, <1>0, <1>1, <1>3
    <3>2. CASE q # o
      <4>1. q \in Pushed /\ q \in Items /\ arrayIndex'[q] = arrayIndex[q] /\ arrayIndex[q] \in 0 .. capacity - 1
        BY <2>1, <3>2, <1>1, <1>6 DEF Pushed
      <4>2. arrayIndex[q] < tail /\ arrayItem[arrayIndex[q]] = q
        BY <4>1 DEF ArrayShape, ConsistentUntilMove
      <4> QED
        BY <4>1, <4>2, <1>0, <1>3
    <3> QED
      BY <3>1, <3>2
  <2>2. ASSUME NEW i \in 0 .. tail' - 1
        PROVE  arrayItem'[i] \in Items /\ arrayIndex'[arrayItem'[i]] = i
    <3>1. CASE i = tail
      BY <3>1, <1>0, <1>1, <1>3
    <3>2. CASE i # tail
      <4>1. i \in 0 .. tail - 1
        BY <2>2, <3>2, <1>0
      <4>2. arrayItem[i] \in Items /\ arrayIndex[arrayItem[i]] = i /\ arrayItem'[i] = arrayItem[i]
        BY <4>1, <1>3 DEF ArrayShape, ConsistentUntilMove
      <4>3. arrayItem[i] # o
        BY <4>1, <4>2, <1>1
      <4> QED
        BY <4>2, <4>3, <1>1
    <3> QED
      BY <3>1, <3>2
  <2> QED
    BY <2>1, <2>2 DEF ConsistentUntilMove
<1> QED
  BY <1>2, <1>3, <1>4, <1>5, <1>6, <1>7, <1>8 DEF ArrayShape

\* An erase keeps the shape, whether it succeeds or fails its assertion; one that
\* succeeds takes out the item it was given.
LEMMA EraseShape ==
  ASSUME ArrayShape, NEW o \in Items, eraseFastArray(o)
  PROVE  /\ ArrayShape'
         /\ \/ /\ crash' = "index" /\ Pushed' = Pushed /\ UNCHANGED moved
               /\ ~moved => o \notin Pushed
            \/ UNCHANGED crash /\ o \in Pushed /\ Pushed' = Pushed \ {o} /\ (moved => moved')
<1>0. /\ tail \in Nat /\ capacity \in Nat /\ capacity >= 2 /\ tail <= capacity
      /\ arrayIndex \in [Items -> -1 .. capacity - 1]
      /\ arrayItem \in [0 .. capacity - 1 -> Items \cup {NULL}]
      /\ moved \in BOOLEAN
  BY DEF ArrayShape
<1>1. CASE arrayIndex[o] \notin 0 .. tail - 1
  <2>1. /\ crash' = "index"
        /\ UNCHANGED <<arrayItem, tail, capacity, arrayIndex, moved>>
    BY <1>1 DEF eraseFastArray
  <2>2. ~moved => o \notin Pushed
    <3> SUFFICES ASSUME ~moved, o \in Pushed PROVE FALSE
      OBVIOUS
    <3>2. arrayIndex[o] < tail /\ arrayIndex[o] \in 0 .. capacity - 1
      BY <1>0 DEF ArrayShape, ConsistentUntilMove, Pushed
    <3> QED
      BY <3>2, <1>0, <1>1
  <2>3. Pushed' = Pushed
    BY <2>1 DEF Pushed
  <2>4. ArrayShape'
    BY <2>1, <2>3 DEF ArrayShape, SlotsFilled, ConsistentUntilMove, TailCounts
  <2> QED
    BY <2>1, <2>2, <2>3, <2>4
<1>2. CASE arrayIndex[o] \in 0 .. tail - 1
  <2> DEFINE j == arrayIndex[o]
  <2>1. /\ arrayItem' = [arrayItem EXCEPT ![j] = arrayItem[tail - 1]]
        /\ moved' = (moved \/ j # tail - 1)
        /\ tail' = tail - 1
        /\ arrayIndex' = [arrayIndex EXCEPT ![o] = -1]
        /\ UNCHANGED <<capacity, crash>>
    BY <1>2 DEF eraseFastArray, erase
  <2>2. j \in 0 .. tail - 1 /\ tail > 0 /\ tail - 1 \in Nat /\ j \in 0 .. capacity - 1
    BY <1>0, <1>2
  <2>3. arrayItem[tail - 1] \in Items
    BY <2>2 DEF ArrayShape, SlotsFilled
  <2> HIDE DEF j
  <2>4. /\ arrayItem' \in [0 .. capacity - 1 -> Items \cup {NULL}]
        /\ \A i \in 0 .. tail - 1 : arrayItem'[i] = IF i = j THEN arrayItem[tail - 1] ELSE arrayItem[i]
    BY <1>0, <2>1, <2>2, <2>3
  <2>5. /\ (capacity \in Nat /\ capacity >= 2 /\ tail \in 0 .. capacity /\ moved \in BOOLEAN)'
        /\ arrayIndex' \in [Items -> -1 .. capacity - 1]
    BY <1>0, <2>1, <2>2
  <2>6. SlotsFilled'
    BY <1>0, <2>1, <2>2, <2>3, <2>4 DEF ArrayShape, SlotsFilled
  <2>7. Pushed' = Pushed \ {o} /\ o \in Pushed
    BY <1>0, <1>2, <2>1 DEF Pushed
  <2>8. IsFiniteSet(Pushed') /\ TailCounts'
    BY <2>1, <2>7, FS_RemoveElement DEF ArrayShape, TailCounts
  <2>9. ConsistentUntilMove'
    <3> SUFFICES ASSUME ~moved, j = tail - 1
                 PROVE  ConsistentUntilMove'
      BY <2>1 DEF ConsistentUntilMove
    <3>1. \A i \in 0 .. tail - 1 : arrayItem'[i] = arrayItem[i]
      BY <2>2, <2>4
    <3>2. o \in Pushed /\ arrayItem[tail - 1] = o
      BY <2>7 DEF ArrayShape, ConsistentUntilMove, j
    <3>3. ASSUME NEW q \in Pushed'
          PROVE  arrayIndex'[q] < tail' /\ arrayItem'[arrayIndex'[q]] = q
      <4>1. q \in Pushed /\ q # o /\ q \in Items
        BY <3>3, <2>7 DEF Pushed
      <4>2. arrayIndex'[q] = arrayIndex[q] /\ arrayIndex[q] \in 0 .. capacity - 1
        BY <4>1, <2>1, <1>0 DEF Pushed
      <4>3. arrayIndex[q] < tail /\ arrayItem[arrayIndex[q]] = q
        BY <4>1 DEF ArrayShape, ConsistentUntilMove
      <4>4. arrayIndex[q] # tail - 1
        BY <4>1, <4>3, <3>2
      <4> QED
        BY <4>2, <4>3, <4>4, <3>1, <2>1, <1>0
    <3>4. ASSUME NEW i \in 0 .. tail' - 1
          PROVE  arrayItem'[i] \in Items /\ arrayIndex'[arrayItem'[i]] = i
      <4>1. i \in 0 .. tail - 1 /\ i # tail - 1
        BY <3>4, <2>1, <1>0
      <4>2. arrayItem'[i] = arrayItem[i] /\ arrayItem[i] \in Items /\ arrayIndex[arrayItem[i]] = i
        BY <4>1, <3>1 DEF ArrayShape, ConsistentUntilMove
      <4>3. arrayItem[i] # o
        BY <4>1, <4>2 DEF j
      <4> QED
        BY <4>2, <4>3, <2>1, <1>0
    <3> QED
      BY <3>3, <3>4 DEF ConsistentUntilMove
  <2> QED
    BY <2>1, <2>4, <2>5, <2>6, <2>7, <2>8, <2>9 DEF ArrayShape
<1> QED
  BY <1>1, <1>2

\* A push that follows the callers' rule keeps the invariant.
LEMMA PushKeeps ==
  ASSUME ArrayInv, crash = "none", NEW o \in Items \ Pushed, pushBackFastArray(o)
  PROVE  ArrayInv'
BY PushShape DEF ArrayInv, AbortOnlyAfterMove, pushBackFastArray

\* So does an erase, successful or failing its assertion, if the item is a pushed one
\* as long as the indices are right.
LEMMA EraseKeeps ==
  ASSUME ArrayInv, crash = "none", NEW o \in Items, eraseFastArray(o),
         ~moved => o \in Pushed
  PROVE  ArrayInv'
BY EraseShape DEF ArrayInv, AbortOnlyAfterMove

\* Every step of the array's users keeps the invariant.
LEMMA ArrayStep == ArrayInv /\ [ArrayNext]_arrayVars => ArrayInv'
<1> SUFFICES ASSUME ArrayInv, [ArrayNext]_arrayVars PROVE ArrayInv'
  OBVIOUS
<1>1. CASE crash = "none" /\ PushNew
  BY <1>1, PushKeeps DEF PushNew
<1>2. CASE crash = "none" /\ EraseOne
  <2>1. PICK o \in Pushed : eraseFastArray(o)
    BY <1>2 DEF EraseOne
  <2>2. o \in Items
    BY DEF Pushed
  <2> QED
    BY <1>2, <2>1, <2>2, EraseKeeps
<1>3. CASE crash = "none" /\ EraseLast
  <2> DEFINE o == arrayItem[tail - 1]
  <2>1. tail - 1 \in 0 .. tail - 1 /\ tail \in Nat
    BY <1>3 DEF EraseLast, ArrayInv, ArrayShape
  <2>2. o \in Items /\ (~moved => o \in Pushed)
    BY <2>1 DEF ArrayInv, ArrayShape, SlotsFilled, ConsistentUntilMove, Pushed
  <2>3. eraseFastArray(o)
    BY <1>3, <2>1 DEF EraseLast, getArrayItemFastArray
  <2> HIDE DEF o
  <2> QED
    BY <1>3, <2>2, <2>3, EraseKeeps
<1>4. CASE UNCHANGED arrayVars
  <2>1. Pushed' = Pushed
    BY <1>4 DEF arrayVars, Pushed
  <2> QED
    BY <1>4, <2>1
    DEF arrayVars, ArrayInv, ArrayShape, SlotsFilled, ConsistentUntilMove,
        AbortOnlyAfterMove, TailCounts
<1> QED
  BY <1>1, <1>2, <1>3, <1>4 DEF ArrayNext
-----------------------------------------------------------------------------
\* The inductive invariant holds in every state the array's users can reach.
THEOREM ArrayInvariant == ArraySpec => []ArrayInv
BY ArrayInit, ArrayStep, PTL DEF ArraySpec

\* The fields keep their types; no slot outside the allocation is ever written
\* (fastArray.c:22-34).
THEOREM ArrayTypeCorrect == ArraySpec => []ArrayTypeOK
<1>1. ArrayInv => ArrayTypeOK
  BY DEF ArrayInv, ArrayShape, ArrayTypeOK
<1> QED
  BY <1>1, ArrayInvariant, PTL

\* Slots and indices name each other until an erase fills a hole
\* (fastArray.c:36-63).
THEOREM ArrayConsistentUntilMove == ArraySpec => []ConsistentUntilMove
<1>1. ArrayInv => ConsistentUntilMove
  BY DEF ArrayInv, ArrayShape
<1> QED
  BY <1>1, ArrayInvariant, PTL

\* The index assertion of fastArray.c:59 fails only after that.
THEOREM ArrayAbortsOnlyAfterMove == ArraySpec => []AbortOnlyAfterMove
<1>1. ArrayInv => AbortOnlyAfterMove
  BY DEF ArrayInv
<1> QED
  BY <1>1, ArrayInvariant, PTL

\* tail is the number of items pushed and not erased, also after indices went
\* stale and erases hit the wrong slots.
THEOREM ArrayTailCounts == ArraySpec => []TailCounts
<1>1. ArrayInv => TailCounts
  BY DEF ArrayInv, ArrayShape
<1> QED
  BY <1>1, ArrayInvariant, PTL
-----------------------------------------------------------------------------
(* The server *)

Messages == [type : {"ADD", "REMOVE"}, session : Sessions]
Reading == {"read", "erase", "remove"}
Serving == {"run", "dispatch"}

\* Types, with what main has in hand and what a queue holds.
ServerTypes ==
  /\ TcpTypeOK
  /\ mpc \in {"dispatch", "stopRemove", "stopPush"} => mcur \in Sessions
  /\ mask \in [Sessions -> {"read", "none"}]
  /\ queue \in [Threads -> Seq(Messages)]
  /\ wstate \in [Threads -> {"RUN", "STOP", "STOPING"}]

\* A session that was not made yet is in no array and has no loop; every other one
\* has, but the one that main is about to give away.
MadeHasLoop ==
  \A s \in Sessions :
    /\ state[s] = "none" => s \notin Pushed /\ loop[s] = NULL
    /\ state[s] # "none" => loop[s] \in Threads \/ (mpc = "dispatch" /\ mcur = s)

Dispatching == mpc = "dispatch" => loop[mcur] = NULL /\ state[mcur] = "connected"

\* Live sessions have descriptors of their own.
LiveFds ==
  \A s \in Sessions : Live(s) =>
    fd[s] \in Fds /\ \A t \in Sessions : Live(t) /\ fd[t] = fd[s] => t = s

\* ae's table names sessions of this loop on their descriptors; epoll watches live ones.
TableKnown ==
  \A w \in Threads, f \in Fds :
    events[w][f] # NULL => loop[events[w][f]] = w /\ fd[events[w][f]] = f
EpollKnown ==
  \A w \in Threads, s \in Sessions :
    s \in epoll[w] => Live(s) /\ loop[s] = w /\ events[w][fd[s]] = s

\* The session a worker reads is its own, live, and no longer in the batch.
WorkerHolds ==
  \A w \in Threads : wpc[w] \in Reading =>
    Live(wcur[w]) /\ loop[wcur[w]] = w /\ fd[wcur[w]] \notin fired[w]

\* A session whose ADD is in a queue is live, and unknown to its worker as yet.
AddPending ==
  \A w \in Threads : \A i \in DOMAIN queue[w] : \A s \in Sessions :
    queue[w][i] = Msg("ADD", s) =>
      /\ Live(s) /\ loop[s] = w /\ fd[s] \notin fired[w]
      /\ s \notin epoll[w] /\ \A f \in Fds : events[w][f] # s
      /\ ~(wpc[w] \in Reading /\ wcur[w] = s)
      /\ \A j \in DOMAIN queue[w] : queue[w][j] = Msg("ADD", s) => j = i

\* A REMOVE is sent once, for a session of that loop, after its ADD.
RemovePending ==
  \A w \in Threads : \A i \in DOMAIN queue[w] : \A s \in Sessions :
    queue[w][i] = Msg("REMOVE", s) =>
      /\ state[s] = "disconnecting" /\ loop[s] = w
      /\ Msg("REMOVE", s) \notin lost
      /\ ~(mpc = "stopPush" /\ mcur = s)
      /\ \A j \in DOMAIN queue[w] : /\ queue[w][j] = Msg("ADD", s) => j < i
                                    /\ queue[w][j] = Msg("REMOVE", s) => j = i

\* Whoever is disconnecting is with main, in a queue or leaked.
RemoveSent ==
  /\ \A s \in Sessions : Msg("REMOVE", s) \in lost =>
       state[s] = "disconnecting" /\ ~(mpc = "stopPush" /\ mcur = s)
  /\ mpc = "stopPush" => state[mcur] = "disconnecting"
  /\ \A s \in Sessions : state[s] = "disconnecting" =>
       (mpc = "stopPush" /\ mcur = s) \/ InQueue(s) \/ Leaked(s)

\* Nothing is stopped before stopTcpServer gets there.
StopsInTurn ==
  /\ mpc \in Serving => \A s \in Sessions : state[s] # "disconnecting"
  /\ mpc \in Serving => \A w \in Threads : wstate[w] = "RUN"

\* The descriptors of a batch: watched while the server runs, and, where a session is
\* registered, with something to read.
FiredWatched ==
  mpc \in Serving =>
    \A w \in Threads : \A f \in fired[w] \cap Fds : \E s \in epoll[w] : fd[s] = f
FiredReadable ==
  \A w \in Threads : \A f \in fired[w] \cap Fds :
    LET s == events[w][f] IN s # NULL /\ Live(s) => s \in input \cup closed

\* Who frees a connected session.
ConnectedOwned ==
  crash = "none" /\ ~moved =>
    /\ \A s \in Pushed : state[s] = "connected"
    /\ \A w \in Threads : wpc[w] = "remove" =>
         state[wcur[w]] = "connected" /\ wcur[w] \notin Pushed
    /\ mpc = "stopRemove" => /\ state[mcur] = "connected" /\ mcur \notin Pushed
                             /\ \A w \in Threads : ~(wpc[w] = "remove" /\ wcur[w] = mcur)
    /\ \A s \in Sessions : state[s] = "connected" =>
         s \in Pushed \/ InWorker(s) \/ (mpc = "stopRemove" /\ mcur = s)

\* As long as every mask says what is registered.
RegisteredLive ==
  ~MaskCleared =>
    /\ \A w \in Threads, f \in Fds :
         events[w][f] # NULL => Live(events[w][f]) /\ events[w][f] \in epoll[w]
    /\ \A s \in Sessions, w \in Threads :
         Live(s) /\ loop[s] = w =>
           Msg("ADD", s) \in ToSet(queue[w]) \cup lost \/ events[w][fd[s]] = s

ServerInv ==
  /\ ServerTypes /\ ArrayShape
  /\ MadeHasLoop /\ Dispatching /\ LiveFds /\ TableKnown /\ EpollKnown /\ WorkerHolds
  /\ AddPending /\ RemovePending /\ RemoveSent /\ StopsInTurn
  /\ FiredWatched /\ FiredReadable /\ NoSpuriousRead
  /\ ConnectedOwned /\ RegisteredLive
  /\ AbortOnlyAtStop /\ NoUseAfterFree
-----------------------------------------------------------------------------
(* What leaves a conjunct's variables alone keeps the conjunct. *)

LEMMA FrameSessions ==
  ASSUME ServerInv
  PROVE  /\ UNCHANGED <<arrayItem, tail, capacity, arrayIndex, moved>> =>
              ArrayShape' /\ Pushed' = Pushed
         /\ UNCHANGED <<state, arrayIndex, loop, mpc, mcur>> => MadeHasLoop'
         /\ UNCHANGED <<mpc, mcur, loop, state>> => Dispatching'
         /\ UNCHANGED <<state, fd>> => LiveFds'
         /\ UNCHANGED <<events, loop, fd>> => TableKnown'
         /\ UNCHANGED <<epoll, state, loop, events, fd>> => EpollKnown'
         /\ UNCHANGED <<wpc, wcur, state, loop, fd, fired>> => WorkerHolds'
<1>1. UNCHANGED <<arrayItem, tail, capacity, arrayIndex, moved>> =>
        ArrayShape' /\ Pushed' = Pushed
  BY DEF ServerInv, ArrayShape, SlotsFilled, ConsistentUntilMove, TailCounts, Pushed
<1>2. UNCHANGED <<state, arrayIndex, loop, mpc, mcur>> => MadeHasLoop'
  BY DEF ServerInv, MadeHasLoop, Pushed
<1>3. UNCHANGED <<mpc, mcur, loop, state>> => Dispatching'
  BY DEF ServerInv, Dispatching
<1>4. UNCHANGED <<state, fd>> => LiveFds'
  BY DEF ServerInv, LiveFds, Live
<1>5. UNCHANGED <<events, loop, fd>> => TableKnown'
  BY DEF ServerInv, TableKnown
<1>6. UNCHANGED <<epoll, state, loop, events, fd>> => EpollKnown'
  BY DEF ServerInv, EpollKnown, Live
<1>7. UNCHANGED <<wpc, wcur, state, loop, fd, fired>> => WorkerHolds'
  BY DEF ServerInv, WorkerHolds, Live
<1> QED
  BY <1>1, <1>2, <1>3, <1>4, <1>5, <1>6, <1>7

LEMMA FrameQueues ==
  ASSUME ServerInv
  PROVE  /\ UNCHANGED <<queue, state, loop, fd, fired, epoll, events, wpc, wcur>> => AddPending'
         /\ UNCHANGED <<queue, state, loop, lost, mpc, mcur>> => RemovePending'
         /\ UNCHANGED <<queue, state, lost, mpc, mcur>> => RemoveSent'
         /\ UNCHANGED <<mpc, state, wstate>> => StopsInTurn'
<1>1. UNCHANGED <<queue, state, loop, fd, fired, epoll, events, wpc, wcur>> => AddPending'
  BY DEF ServerInv, AddPending, Live
<1>2. UNCHANGED <<queue, state, loop, lost, mpc, mcur>> => RemovePending'
  BY DEF ServerInv, RemovePending
<1>3. UNCHANGED <<queue, state, lost, mpc, mcur>> => RemoveSent'
  BY DEF ServerInv, RemoveSent, InQueue, Leaked
<1>4. UNCHANGED <<mpc, state, wstate>> => StopsInTurn'
  BY DEF ServerInv, StopsInTurn
<1> QED
  BY <1>1, <1>2, <1>3, <1>4

LEMMA FrameRest ==
  ASSUME ServerInv
  PROVE  /\ UNCHANGED <<mpc, fired, epoll, fd>> => FiredWatched'
         /\ UNCHANGED <<fired, events, state, input, closed>> => FiredReadable'
         /\ UNCHANGED <<wpc, wcur, input, closed>> => NoSpuriousRead'
         /\ UNCHANGED <<crash, moved, arrayIndex, state, wpc, wcur, mpc, mcur>> => ConnectedOwned'
         /\ UNCHANGED <<mask, events, state, epoll, loop, queue, lost, fd>> => RegisteredLive'
         /\ UNCHANGED <<crash, moved, mpc>> => AbortOnlyAtStop'
         /\ UNCHANGED <<crash, moved, mask>> => NoUseAfterFree'
         /\ crash' = "none" => AbortOnlyAtStop' /\ NoUseAfterFree'
<1>1. UNCHANGED <<mpc, fired, epoll, fd>> => FiredWatched'
  BY DEF ServerInv, FiredWatched
<1>2. UNCHANGED <<fired, events, state, input, closed>> => FiredReadable'
  BY DEF ServerInv, FiredReadable, Live
<1>3. UNCHANGED <<wpc, wcur, input, closed>> => NoSpuriousRead'
  BY DEF ServerInv, NoSpuriousRead
<1>4. UNCHANGED <<crash, moved, arrayIndex, state, wpc, wcur, mpc, mcur>> => ConnectedOwned'
  BY DEF ServerInv, ConnectedOwned, Pushed, InWorker
<1>5. UNCHANGED <<mask, events, state, epoll, loop, queue, lost, fd>> => RegisteredLive'
  BY DEF ServerInv, RegisteredLive, MaskCleared, Live
<1>6. UNCHANGED <<crash, moved, mpc>> => AbortOnlyAtStop'
  BY DEF ServerInv, AbortOnlyAtStop
<1>7. UNCHANGED <<crash, moved, mask>> => NoUseAfterFree'
  BY DEF ServerInv, NoUseAfterFree, MaskCleared
<1>8. crash' = "none" => AbortOnlyAtStop' /\ NoUseAfterFree'
  BY DEF AbortOnlyAtStop, NoUseAfterFree
<1> QED
  BY <1>1, <1>2, <1>3, <1>4, <1>5, <1>6, <1>7, <1>8
-----------------------------------------------------------------------------
(* Messages and queues *)

LEMMA MsgIs ==
  ASSUME NEW a, NEW b, NEW s, NEW t, Msg(a, s) = Msg(b, t)
  PROVE  a = b /\ s = t
<1>1. Msg(a, s).type = a /\ Msg(b, t).type = b /\ Msg(a, s).session = s /\ Msg(b, t).session = t
  BY DEF Msg
<1> QED
  BY <1>1

LEMMA MsgType ==
  ASSUME NEW s \in Sessions
  PROVE  Msg("ADD", s) \in Messages /\ Msg("REMOVE", s) \in Messages
BY DEF Msg, Messages

LEMMA MessageIs ==
  ASSUME NEW m \in Messages
  PROVE  m = Msg(m.type, m.session) /\ m.session \in Sessions
BY DEF Msg, Messages

\* A push adds its message at the end, or to those lost.
LEMMA PushAdds ==
  ASSUME ServerTypes, NEW w \in Threads, NEW m \in Messages, pushMsgqueue(w, m)
  PROVE  /\ queue' \in [Threads -> Seq(Messages)]
         /\ \A v \in Threads : Len(queue'[v]) <= QueueCap
         /\ \A v \in Threads : \A i \in DOMAIN queue[v] :
              i \in DOMAIN queue'[v] /\ queue'[v][i] = queue[v][i]
         /\ \A v \in Threads : \A i \in DOMAIN queue'[v] :
              \/ i \in DOMAIN queue[v] /\ queue'[v][i] = queue[v][i]
              \/ /\ v = w /\ i = Len(queue[w]) + 1 /\ queue'[v][i] = m
         /\ \/ lost' = lost /\ \E i \in DOMAIN queue'[w] : queue'[w][i] = m
            \/ lost' = lost \cup {m} /\ queue' = queue
<1>1. /\ queue \in [Threads -> Seq(Messages)] /\ QueueCap \in Nat
      /\ \A v \in Threads : Len(queue[v]) <= QueueCap
  BY TcpServerAssumption DEF ServerTypes, TcpTypeOK
<1>2. CASE Len(queue[w]) < QueueCap
  <2>1. queue' = [queue EXCEPT ![w] = Append(queue[w], m)] /\ lost' = lost
    BY <1>2 DEF pushMsgqueue
  <2>2. /\ Append(queue[w], m) \in Seq(Messages)
        /\ Len(Append(queue[w], m)) = Len(queue[w]) + 1
        /\ DOMAIN Append(queue[w], m) = 1 .. Len(queue[w]) + 1
        /\ DOMAIN queue[w] = 1 .. Len(queue[w]) /\ Len(queue[w]) \in Nat
        /\ \A i \in 1 .. Len(queue[w]) : Append(queue[w], m)[i] = queue[w][i]
        /\ Append(queue[w], m)[Len(queue[w]) + 1] = m
    BY <1>1
  <2>3. queue'[w] = Append(queue[w], m) /\ \A v \in Threads \ {w} : queue'[v] = queue[v]
    BY <1>1, <2>1
  <2>4. queue' \in [Threads -> Seq(Messages)]
    BY <1>1, <2>1, <2>2
  <2>5. \A v \in Threads : Len(queue'[v]) <= QueueCap
    BY <1>1, <1>2, <2>2, <2>3
  <2>6. \A v \in Threads : \A i \in DOMAIN queue[v] :
          i \in DOMAIN queue'[v] /\ queue'[v][i] = queue[v][i]
    BY <2>2, <2>3
  <2>7. \A v \in Threads : \A i \in DOMAIN queue'[v] :
          \/ i \in DOMAIN queue[v] /\ queue'[v][i] = queue[v][i]
          \/ /\ v = w /\ i = Len(queue[w]) + 1 /\ queue'[v][i] = m
    BY <2>2, <2>3
  <2>8. Len(queue[w]) + 1 \in DOMAIN queue'[w] /\ queue'[w][Len(queue[w]) + 1] = m
    BY <2>2, <2>3
  <2> QED
    BY <2>1, <2>4, <2>5, <2>6, <2>7, <2>8
<1>3. CASE ~(Len(queue[w]) < QueueCap)
  BY <1>1, <1>3 DEF pushMsgqueue
<1> QED
  BY <1>2, <1>3

\* A drain takes the head; the others move up by one.
LEMMA PopShifts ==
  ASSUME ServerTypes, NEW w \in Threads, queue[w] # <<>>,
         queue' = [queue EXCEPT ![w] = Tail(@)]
  PROVE  /\ queue' \in [Threads -> Seq(Messages)]
         /\ \A v \in Threads : Len(queue'[v]) <= QueueCap
         /\ 1 \in DOMAIN queue[w] /\ Head(queue[w]) = queue[w][1]
         /\ Head(queue[w]) \in Messages
         /\ \A v \in Threads \ {w} : queue'[v] = queue[v]
         /\ \A i \in DOMAIN queue'[w] :
              i \in Nat \ {0} /\ i + 1 \in DOMAIN queue[w] /\ queue'[w][i] = queue[w][i + 1]
         /\ \A i \in DOMAIN queue[w] :
              i # 1 => i - 1 \in DOMAIN queue'[w] /\ queue'[w][i - 1] = queue[w][i]
<1>1. /\ queue \in [Threads -> Seq(Messages)] /\ QueueCap \in Nat
      /\ \A v \in Threads : Len(queue[v]) <= QueueCap
  BY TcpServerAssumption DEF ServerTypes, TcpTypeOK
<1> DEFINE q == queue[w]
<1>2. q \in Seq(Messages) /\ q # <<>>
  BY <1>1
<1>3. queue'[w] = Tail(q) /\ \A v \in Threads \ {w} : queue'[v] = queue[v]
  BY <1>1
<1> HIDE DEF q
<1>4. /\ Tail(q) \in Seq(Messages) /\ Len(q) \in Nat \ {0} /\ Len(Tail(q)) = Len(q) - 1
      /\ DOMAIN Tail(q) = 1 .. Len(q) - 1 /\ DOMAIN q = 1 .. Len(q)
      /\ \A i \in 1 .. Len(q) - 1 : Tail(q)[i] = q[i + 1]
      /\ Head(q) = q[1] /\ Head(q) \in Messages
  BY <1>2
<1>5. queue' \in [Threads -> Seq(Messages)]
  BY <1>1, <1>4 DEF q
<1>6. \A v \in Threads : Len(queue'[v]) <= QueueCap
  BY <1>1, <1>3, <1>4 DEF q
<1>7. \A i \in DOMAIN Tail(q) : i \in Nat \ {0} /\ i + 1 \in DOMAIN q /\ Tail(q)[i] = q[i + 1]
  BY <1>4
<1>8. \A i \in DOMAIN q : i # 1 => i - 1 \in DOMAIN Tail(q) /\ Tail(q)[i - 1] = q[i]
  BY <1>4
<1> QED
  BY <1>3, <1>4, <1>5, <1>6, <1>7, <1>8 DEF q
-----------------------------------------------------------------------------
(* A worker's steps between its sessions *)

\* A worker that neither had a session in hand nor takes one.
LEMMA WorkerMoves ==
  ASSUME ServerInv, NEW w \in Threads, NEW p \in Places \ Reading, wpc[w] \notin Reading,
         wpc' = [wpc EXCEPT ![w] = p], UNCHANGED wcur
  PROVE  /\ wpc' \in [Threads -> Places]
         /\ \A v \in Threads : wpc'[v] \in Reading => v # w /\ wpc'[v] = wpc[v]
         /\ UNCHANGED <<state, loop, fd>> /\ (\A v \in Threads : fired'[v] \subseteq fired[v]) =>
              WorkerHolds'
         /\ UNCHANGED <<queue, state, loop, fd, epoll, events>>
              /\ (\A v \in Threads : fired'[v] \subseteq fired[v]) => AddPending'
         /\ UNCHANGED <<input, closed>> => NoSpuriousRead'
         /\ UNCHANGED <<crash, moved, arrayIndex, state, mpc, mcur>> => ConnectedOwned'
<1>1. wpc' \in [Threads -> Places]
  BY DEF ServerInv, ServerTypes, TcpTypeOK
<1>2. \A v \in Threads : wpc'[v] \in Reading => v # w /\ wpc'[v] = wpc[v]
  BY DEF ServerInv, ServerTypes, TcpTypeOK
<1>3. UNCHANGED <<state, loop, fd>> /\ (\A v \in Threads : fired'[v] \subseteq fired[v]) =>
        WorkerHolds'
  BY <1>2 DEF ServerInv, WorkerHolds, Live
<1>4. UNCHANGED <<queue, state, loop, fd, epoll, events>>
        /\ (\A v \in Threads : fired'[v] \subseteq fired[v]) => AddPending'
  BY <1>2 DEF ServerInv, AddPending, Live
<1>5. UNCHANGED <<input, closed>> => NoSpuriousRead'
  BY <1>2 DEF ServerInv, NoSpuriousRead, Reading
<1>6. \A v \in Threads : wpc'[v] = "remove" <=> wpc[v] = "remove"
  BY DEF ServerInv, ServerTypes, TcpTypeOK, Reading
<1>7. UNCHANGED <<crash, moved, arrayIndex, state, mpc, mcur>> => ConnectedOwned'
  BY <1>6 DEF ServerInv, ConnectedOwned, InWorker, Pushed
<1> QED
  BY <1>1, <1>2, <1>3, <1>4, <1>5, <1>7

\* A batch from which one descriptor is taken.
LEMMA BatchShrinks ==
  ASSUME ServerInv, NEW w \in Threads, NEW f, fired' = [fired EXCEPT ![w] = @ \ {f}]
  PROVE  /\ fired' \in [Threads -> SUBSET (Fds \cup {WAKE})]
         /\ \A v \in Threads : fired'[v] \subseteq fired[v]
         /\ UNCHANGED <<mpc, epoll, fd>> => FiredWatched'
         /\ UNCHANGED <<events, state, input, closed>> => FiredReadable'
<1>1. fired \in [Threads -> SUBSET (Fds \cup {WAKE})]
  BY DEF ServerInv, ServerTypes, TcpTypeOK
<1>2. /\ fired' \in [Threads -> SUBSET (Fds \cup {WAKE})]
      /\ \A v \in Threads : fired'[v] \subseteq fired[v]
  BY <1>1
<1>3. UNCHANGED <<mpc, epoll, fd>> => FiredWatched'
  BY <1>2 DEF ServerInv, FiredWatched
<1>4. UNCHANGED <<events, state, input, closed>> => FiredReadable'
  BY <1>2 DEF ServerInv, FiredReadable, Live
<1> QED
  BY <1>2, <1>3, <1>4

LEMMA BatchDoneKeeps ==
  ASSUME ServerInv, Running, NEW w \in Threads, batchDone(w)
  PROVE  ServerInv'
<1>1. /\ wpc[w] \notin Reading /\ "poll" \in Places \ Reading
      /\ wpc' = [wpc EXCEPT ![w] = "poll"]
      /\ UNCHANGED <<arrayVars, mainVars, sessVars, events, epoll, fired, wcur, wstate, msgVars,
                     peerVars>>
  BY DEF batchDone, Reading, Places
<1>2. ServerTypes'
  BY <1>1, WorkerMoves
  DEF ServerInv, ServerTypes, TcpTypeOK, Reading, arrayVars, mainVars, sessVars, msgVars
<1> QED
  BY <1>1, <1>2, WorkerMoves, FrameSessions, FrameQueues, FrameRest
  DEF ServerInv, arrayVars, mainVars, sessVars, msgVars, peerVars

LEMMA DrainDoneKeeps ==
  ASSUME ServerInv, Running, NEW w \in Threads, drainDone(w)
  PROVE  ServerInv'
<1>1. /\ wpc[w] \notin Reading /\ "dispatch" \in Places \ Reading
      /\ wpc' = [wpc EXCEPT ![w] = "dispatch"]
      /\ UNCHANGED <<arrayVars, mainVars, sessVars, events, epoll, fired, wcur, wstate, msgVars,
                     peerVars>>
  BY DEF drainDone, Reading, Places
<1>2. ServerTypes'
  BY <1>1, WorkerMoves
  DEF ServerInv, ServerTypes, TcpTypeOK, Reading, arrayVars, mainVars, sessVars, msgVars
<1> QED
  BY <1>1, <1>2, WorkerMoves, FrameSessions, FrameQueues, FrameRest
  DEF ServerInv, arrayVars, mainVars, sessVars, msgVars, peerVars

LEMMA CronStopKeeps ==
  ASSUME ServerInv, Running, NEW w \in Threads, cronStop(w)
  PROVE  ServerInv'
<1>1. /\ wpc[w] \notin Reading /\ "exited" \in Places \ Reading /\ wstate[w] = "STOP"
      /\ wpc' = [wpc EXCEPT ![w] = "exited"] /\ wstate' = [wstate EXCEPT ![w] = "STOPING"]
      /\ UNCHANGED <<arrayVars, mainVars, sessVars, events, epoll, fired, wcur, msgVars, peerVars>>
  BY DEF cronStop, Reading, Places
<1>2. ServerTypes'
  BY <1>1, WorkerMoves
  DEF ServerInv, ServerTypes, TcpTypeOK, Reading, arrayVars, mainVars, sessVars, msgVars
<1>3. StopsInTurn'
  BY <1>1 DEF ServerInv, StopsInTurn, mainVars, sessVars
<1> QED
  BY <1>1, <1>2, <1>3, WorkerMoves, FrameSessions, FrameQueues, FrameRest
  DEF ServerInv, arrayVars, mainVars, sessVars, msgVars, peerVars

LEMMA CallPopKeeps ==
  ASSUME ServerInv, Running, NEW w \in Threads, callPop(w)
  PROVE  ServerInv'
<1>1. /\ wpc[w] \notin Reading /\ "drain" \in Places \ Reading
      /\ wpc' = [wpc EXCEPT ![w] = "drain"] /\ fired' = [fired EXCEPT ![w] = @ \ {WAKE}]
      /\ UNCHANGED <<arrayVars, mainVars, sessVars, events, epoll, wcur, wstate, msgVars, peerVars>>
  BY DEF callPop, Reading, Places
<1>2. ServerTypes'
  BY <1>1, WorkerMoves, BatchShrinks
  DEF ServerInv, ServerTypes, TcpTypeOK, Reading, arrayVars, mainVars, sessVars, msgVars
<1> QED
  BY <1>1, <1>2, WorkerMoves, BatchShrinks, FrameSessions, FrameQueues, FrameRest
  DEF ServerInv, arrayVars, mainVars, sessVars, msgVars, peerVars

LEMMA SkipStaleKeeps ==
  ASSUME ServerInv, Running, NEW w \in Threads, NEW f \in Fds, skipStale(w, f)
  PROVE  ServerInv'
<1>1. /\ fired' = [fired EXCEPT ![w] = @ \ {f}]
      /\ UNCHANGED <<arrayVars, mainVars, sessVars, events, epoll, wpc, wcur, wstate, msgVars,
                     peerVars>>
  BY DEF skipStale
<1>2. ServerTypes'
  BY <1>1, BatchShrinks
  DEF ServerInv, ServerTypes, TcpTypeOK, arrayVars, mainVars, sessVars, msgVars
<1>3. WorkerHolds'
  BY <1>1, BatchShrinks DEF ServerInv, WorkerHolds, Live, sessVars
<1>4. AddPending'
  BY <1>1, BatchShrinks DEF ServerInv, AddPending, Live, sessVars, msgVars
<1> QED
  BY <1>1, <1>2, <1>3, <1>4, BatchShrinks, FrameSessions, FrameQueues, FrameRest
  DEF ServerInv, arrayVars, mainVars, sessVars, msgVars, peerVars

\* epoll returns descriptors of live sessions the table has, so of none whose ADD is due.
LEMMA PollKeeps ==
  ASSUME ServerInv, Running, NEW w \in Threads, poll(w)
  PROVE  ServerInv'
<1> DEFINE ready == {fd[s] : s \in Readable(w)} \cup (IF queue[w] = <<>> THEN {} ELSE {WAKE})
<1>1. /\ wpc[w] \notin Reading /\ "dispatch" \in Places \ Reading
      /\ wpc' = [wpc EXCEPT ![w] = "dispatch"] /\ fired' = [fired EXCEPT ![w] = ready]
      /\ UNCHANGED <<arrayVars, mainVars, sessVars, events, epoll, wcur, wstate, msgVars, peerVars>>
  BY DEF poll, Reading, Places
<1>2. epoll[w] \subseteq Sessions
  BY DEF ServerInv, ServerTypes, TcpTypeOK
<1>3. \A s \in Readable(w) : /\ s \in Sessions /\ s \in epoll[w] /\ Live(s) /\ fd[s] \in Fds
                             /\ events[w][fd[s]] = s /\ s \in input \cup closed
  BY <1>2 DEF ServerInv, EpollKnown, LiveFds, Readable
<1>4. fired[w] \subseteq Fds \cup {WAKE} /\ ready \subseteq Fds \cup {WAKE}
  BY <1>3 DEF ServerInv, ServerTypes, TcpTypeOK
<1>5. \A f \in ready \cap Fds : \E s \in Readable(w) : fd[s] = f
  BY TcpServerAssumption
<1>6. fired'[w] = ready /\ \A v \in Threads \ {w} : fired'[v] = fired[v]
  BY <1>1 DEF ServerInv, ServerTypes, TcpTypeOK
<1>7. fired' \in [Threads -> SUBSET (Fds \cup {WAKE})]
  BY <1>1, <1>4 DEF ServerInv, ServerTypes, TcpTypeOK
<1> HIDE DEF ready
<1>8. ServerTypes'
  BY <1>1, <1>7, WorkerMoves
  DEF ServerInv, ServerTypes, TcpTypeOK, Reading, arrayVars, mainVars, sessVars, msgVars
<1>9. WorkerHolds'
  BY <1>1, <1>6, WorkerMoves DEF ServerInv, WorkerHolds, Live, sessVars
<1>10. \A i \in DOMAIN queue[w] : \A s \in Sessions :
          queue[w][i] = Msg("ADD", s) => fd[s] \notin ready
  BY <1>3, <1>5 DEF ServerInv, AddPending, LiveFds
<1>11. AddPending'
  <2> SUFFICES ASSUME NEW v \in Threads, NEW i \in DOMAIN queue[v], NEW s \in Sessions,
                      queue[v][i] = Msg("ADD", s)
               PROVE  fd[s] \notin fired'[v] /\ ~(wpc'[v] \in Reading /\ wcur[v] = s)
    BY <1>1 DEF ServerInv, AddPending, Live, sessVars, msgVars
  <2>1. fd[s] \notin fired'[v]
    BY <1>6, <1>10 DEF ServerInv, AddPending
  <2>2. ~(wpc'[v] \in Reading /\ wcur[v] = s)
    BY <1>1, WorkerMoves DEF ServerInv, AddPending
  <2> QED
    BY <2>1, <2>2
<1>12. FiredWatched'
  BY <1>1, <1>3, <1>5, <1>6 DEF ServerInv, FiredWatched, mainVars, sessVars
<1>13. FiredReadable'
  <2> SUFFICES ASSUME NEW v \in Threads, NEW f \in fired'[v] \cap Fds, events[v][f] # NULL,
                      Live(events[v][f])
               PROVE  events[v][f] \in input \cup closed
    BY <1>1 DEF FiredReadable, Live, sessVars, peerVars
  <2>1. CASE v = w
    BY <1>3, <1>5, <1>6, <2>1
  <2>2. CASE v # w
    BY <1>6, <2>2 DEF ServerInv, FiredReadable
  <2> QED
    BY <2>1, <2>2
<1> QED
  BY <1>1, <1>8, <1>9, <1>11, <1>12, <1>13, WorkerMoves, FrameSessions, FrameQueues, FrameRest
  DEF ServerInv, arrayVars, mainVars, sessVars, msgVars, peerVars
-----------------------------------------------------------------------------
(* The main thread between sessions *)

\* Main goes on to stop, with no session in hand before or after.
LEMMA MainMoves ==
  ASSUME ServerInv, Running,
         mpc \in {"run", "stopping", "signal", "join"},
         mpc' \in {"stopping", "signal", "join", "done"},
         UNCHANGED <<arrayVars, mcur, sessVars, events, epoll, fired, wpc, wcur, msgVars, peerVars>>,
         k' \in Threads, UNCHANGED nextId,
         wstate' \in [Threads -> {"RUN", "STOP", "STOPING"}]
  PROVE  ServerInv'
<1>1. ServerTypes'
  BY DEF ServerInv, ServerTypes, TcpTypeOK, arrayVars, sessVars, msgVars
<1>2. MadeHasLoop'
  BY DEF ServerInv, MadeHasLoop, Pushed, arrayVars, sessVars
<1>3. Dispatching'
  BY DEF Dispatching
<1>4. RemovePending'
  BY DEF ServerInv, RemovePending, sessVars, msgVars
<1>5. RemoveSent'
  BY DEF ServerInv, RemoveSent, InQueue, Leaked, sessVars, msgVars
<1>6. StopsInTurn' /\ FiredWatched'
  BY DEF StopsInTurn, FiredWatched, Serving
<1>7. ConnectedOwned'
  BY DEF ServerInv, ConnectedOwned, InWorker, Pushed, arrayVars, sessVars
<1>8. AbortOnlyAtStop' /\ NoUseAfterFree'
  BY FrameRest DEF Running, arrayVars
<1> QED
  BY <1>1, <1>2, <1>3, <1>4, <1>5, <1>6, <1>7, <1>8, FrameSessions, FrameQueues, FrameRest
  DEF ServerInv, arrayVars, sessVars, msgVars, peerVars

LEMMA StopStepsKeep ==
  ASSUME ServerInv, Running, beginStop \/ stopUnlock \/ stopThread \/ joinThread
  PROVE  ServerInv'
<1> USE DEF ServerInv, ServerTypes, TcpTypeOK, Threads
<1>1. CASE beginStop
  BY <1>1, MainMoves DEF beginStop, loopVars
<1>2. CASE stopUnlock
  BY <1>2, MainMoves, TcpServerAssumption DEF stopUnlock, loopVars
<1>3. CASE stopThread
  BY <1>3, MainMoves DEF stopThread
<1>4. CASE joinThread
  <2>1. k' \in Threads
    BY <1>4, TcpServerAssumption DEF joinThread
  <2> QED
    BY <1>4, <2>1, MainMoves DEF joinThread, loopVars
<1> QED
  BY <1>1, <1>2, <1>3, <1>4

LEMMA AcceptErrorKeeps ==
  ASSUME ServerInv, Running, acceptError
  PROVE  ServerInv'
<1>1. /\ crash' = "accept"
      /\ UNCHANGED <<arrayItem, tail, capacity, arrayIndex, moved,
                     mainVars, sessVars, loopVars, msgVars, peerVars>>
  BY DEF acceptError
<1>2. ServerTypes'
  BY <1>1 DEF ServerInv, ServerTypes, TcpTypeOK, mainVars, sessVars, loopVars, msgVars
<1>3. ConnectedOwned' /\ AbortOnlyAtStop' /\ NoUseAfterFree'
  BY <1>1 DEF ConnectedOwned, AbortOnlyAtStop, NoUseAfterFree
<1> QED
  BY <1>1, <1>2, <1>3, FrameSessions, FrameQueues, FrameRest
  DEF ServerInv, mainVars, sessVars, loopVars, msgVars, peerVars

(* The peers *)

\* Data or an end of stream only adds reasons to be readable.
LEMMA PeerKeeps ==
  ASSUME ServerInv, Running, NEW s \in Sessions, peerSends(s) \/ peerCloses(s)
  PROVE  ServerInv'
<1>1. /\ UNCHANGED <<arrayVars, mainVars, sessVars, loopVars, msgVars>>
      /\ input \cup closed \subseteq input' \cup closed'
  BY DEF peerSends, peerCloses
<1>2. ServerTypes'
  BY <1>1 DEF ServerInv, ServerTypes, TcpTypeOK, arrayVars, mainVars, sessVars, loopVars, msgVars
<1>3. FiredReadable'
  BY <1>1 DEF ServerInv, FiredReadable, Live, sessVars, loopVars
<1>4. NoSpuriousRead'
  BY <1>1 DEF ServerInv, NoSpuriousRead, loopVars
<1> QED
  BY <1>1, <1>2, <1>3, <1>4, FrameSessions, FrameQueues, FrameRest
  DEF ServerInv, arrayVars, mainVars, sessVars, loopVars, msgVars

LEMMA StutterKeeps ==
  ASSUME ServerInv, UNCHANGED vars
  PROVE  ServerInv'
<1>1. ServerTypes'
  BY DEF ServerInv, ServerTypes, TcpTypeOK, vars, arrayVars, mainVars, sessVars, loopVars, msgVars
<1> QED
  BY <1>1, FrameSessions, FrameQueues, FrameRest
  DEF ServerInv, vars, arrayVars, mainVars, sessVars, loopVars, msgVars, peerVars

LEMMA InitServerInv ==
  ASSUME Init
  PROVE  ServerInv
<1> USE TcpServerAssumption, FastArrayAssumption DEF Init
<1>1. Pushed = {}
  BY DEF Pushed, initFastArray
<1>2. \A s \in Sessions : ~Live(s)
  BY DEF Live
<1>3. ServerTypes
  <2>1. 1 \in Threads /\ QueueCap \in Nat
    BY DEF Threads
  <2>2. queue \in [Threads -> Seq(Messages)] /\ \A w \in Threads : Len(queue[w]) <= QueueCap
    BY <2>1
  <2> QED
    BY <2>1, <2>2 DEF ServerTypes, TcpTypeOK, initFastArray, Places, States
<1>4. ArrayShape
  BY ArrayInit DEF ArrayInv
<1>5. MadeHasLoop /\ Dispatching /\ LiveFds
  BY <1>1, <1>2 DEF MadeHasLoop, Dispatching, LiveFds
<1>6. TableKnown /\ EpollKnown
  BY DEF TableKnown, EpollKnown
<1>7. WorkerHolds /\ NoSpuriousRead
  BY DEF WorkerHolds, Reading, NoSpuriousRead
<1>8. \A w \in Threads : DOMAIN queue[w] = {}
  OBVIOUS
<1>9. AddPending /\ RemovePending
  BY <1>8 DEF AddPending, RemovePending
<1>10. RemoveSent /\ StopsInTurn
  BY DEF RemoveSent, StopsInTurn
<1>11. FiredWatched /\ FiredReadable
  BY DEF FiredWatched, FiredReadable
<1>12. ConnectedOwned
  BY <1>1 DEF ConnectedOwned
<1>13. RegisteredLive
  BY <1>2 DEF RegisteredLive
<1>14. AbortOnlyAtStop /\ NoUseAfterFree
  BY DEF AbortOnlyAtStop, NoUseAfterFree, initFastArray
<1> QED
  BY <1>3, <1>4, <1>5, <1>6, <1>7, <1>9, <1>10, <1>11, <1>12, <1>13, <1>14 DEF ServerInv
-----------------------------------------------------------------------------
(* The main thread with a session in hand *)

\* Nothing that was sent is taken back by a push, and what is pushed is sent or lost.
LEMMA PushHeard ==
  ASSUME ServerTypes, NEW w \in Threads, NEW m \in Messages, pushMsgqueue(w, m)
  PROVE  /\ \A v \in Threads : ToSet(queue[v]) \subseteq ToSet(queue'[v])
         /\ lost \subseteq lost'
         /\ m \in ToSet(queue'[w]) \/ m \in lost'
BY PushAdds DEF ToSet

\* A session with no loop yet is in no table, no queue and no worker's hand.
LEMMA NoLoopUnknown ==
  ASSUME ServerInv, NEW s \in Sessions, loop[s] = NULL
  PROVE  /\ \A w \in Threads, f \in Fds : events[w][f] # s
         /\ \A w \in Threads : s \notin epoll[w]
         /\ \A w \in Threads : wpc[w] \in Reading => wcur[w] # s
         /\ \A w \in Threads : \A i \in DOMAIN queue[w] :
              queue[w][i] # Msg("ADD", s) /\ queue[w][i] # Msg("REMOVE", s)
<1>1. \A w \in Threads : loop[s] # w
  BY TcpServerAssumption
<1>2. s # NULL
  BY FastArrayAssumption DEF Sessions
<1>3. \A w \in Threads, f \in Fds : events[w][f] # s
  BY <1>1, <1>2 DEF ServerInv, TableKnown
<1>4. \A w \in Threads : s \notin epoll[w]
  BY <1>1 DEF ServerInv, EpollKnown
<1>5. \A w \in Threads : wpc[w] \in Reading => wcur[w] # s
  BY <1>1 DEF ServerInv, WorkerHolds
<1>6. \A w \in Threads : \A i \in DOMAIN queue[w] :
        queue[w][i] # Msg("ADD", s) /\ queue[w][i] # Msg("REMOVE", s)
  BY <1>1 DEF ServerInv, AddPending, RemovePending
<1> QED
  BY <1>3, <1>4, <1>5, <1>6

\* Accepting: the new session is nowhere yet, and its descriptor is nobody's.
LEMMA GetSessionKeeps ==
  ASSUME ServerInv, Running, getSession
  PROVE  ServerInv'
<1>1. PICK s \in Sessions, f \in FreeFds :
        /\ state[s] = "none" /\ mpc = "run"
        /\ state' = [state EXCEPT ![s] = "connected"]
        /\ fd' = [fd EXCEPT ![s] = f]
        /\ pushBackFastArray(s)
        /\ mcur' = s /\ mpc' = "dispatch"
        /\ UNCHANGED <<k, nextId, mask, loop, loopVars, msgVars, peerVars>>
  BY DEF getSession
<1>2. /\ state \in [Sessions -> States] /\ fd \in [Sessions -> Fds \cup {NULL}]
      /\ epoll \in [Threads -> SUBSET Sessions] /\ f \in Fds
      /\ wpc \in [Threads -> Places] /\ wcur \in [Threads -> Sessions \cup {NULL}]
  BY DEF ServerInv, ServerTypes, TcpTypeOK, FreeFds
<1>3. /\ state'[s] = "connected" /\ fd'[s] = f
      /\ \A t \in Sessions \ {s} : state'[t] = state[t] /\ fd'[t] = fd[t]
  BY <1>1, <1>2
<1>4. s \notin Pushed /\ loop[s] = NULL /\ ~Live(s)
  BY <1>1 DEF ServerInv, MadeHasLoop, Live
<1>5. /\ \A w \in Threads, g \in Fds : events[w][g] # s
      /\ \A w \in Threads : s \notin epoll[w]
      /\ \A w \in Threads : wpc[w] \in Reading => wcur[w] # s
      /\ \A w \in Threads : \A i \in DOMAIN queue[w] :
           queue[w][i] # Msg("ADD", s) /\ queue[w][i] # Msg("REMOVE", s)
  BY <1>4, NoLoopUnknown
<1>6. ArrayShape' /\ Pushed' = Pushed \cup {s}
  BY <1>1, <1>4, PushShape DEF ServerInv, Sessions
<1>7. crash' = crash /\ moved' = moved
  BY <1>1 DEF pushBackFastArray
<1>8. Live(s)' /\ \A t \in Sessions \ {s} : Live(t)' <=> Live(t)
  BY <1>3 DEF Live
<1>9. \A t \in Sessions : Live(t) => fd[t] # f
  BY DEF FreeFds
<1>10. ServerTypes'
  <2>1. state' \in [Sessions -> States] /\ fd' \in [Sessions -> Fds \cup {NULL}]
    BY <1>1, <1>2 DEF States
  <2> QED
    BY <1>1, <1>7, <2>1 DEF ServerInv, ServerTypes, TcpTypeOK, loopVars, msgVars
<1>11. MadeHasLoop'
  BY <1>1, <1>3, <1>6 DEF ServerInv, MadeHasLoop
<1>12. Dispatching'
  BY <1>1, <1>3, <1>4 DEF Dispatching
<1>13. LiveFds'
  BY <1>2, <1>3, <1>8, <1>9 DEF ServerInv, LiveFds
<1>14. TableKnown'
  <2> SUFFICES ASSUME NEW w \in Threads, NEW g \in Fds, events[w][g] # NULL
               PROVE  loop[events[w][g]] = w /\ fd'[events[w][g]] = g
    BY <1>1 DEF TableKnown, loopVars
  <2>1. events[w][g] \in Sessions \ {s}
    BY <1>5 DEF ServerInv, ServerTypes, TcpTypeOK
  <2> QED
    BY <1>3, <2>1 DEF ServerInv, TableKnown
<1>15. EpollKnown'
  BY <1>1, <1>3, <1>5, <1>8 DEF ServerInv, EpollKnown, loopVars
<1>16. WorkerHolds'
  <2> SUFFICES ASSUME NEW w \in Threads, wpc[w] \in Reading
               PROVE  Live(wcur[w])' /\ loop[wcur[w]] = w /\ fd'[wcur[w]] \notin fired[w]
    BY <1>1 DEF WorkerHolds, loopVars, Live
  <2>1. wcur[w] \in Sessions \ {s}
    BY <1>5 DEF ServerInv, ServerTypes, TcpTypeOK, Reading
  <2> QED
    BY <1>1, <1>3, <1>8, <2>1 DEF ServerInv, WorkerHolds, loopVars, Live
<1>17. AddPending'
  BY <1>1, <1>3, <1>5, <1>8 DEF ServerInv, AddPending, loopVars, msgVars
<1>18. RemovePending'
  BY <1>1, <1>3, <1>5 DEF ServerInv, RemovePending, loopVars, msgVars
<1>19. RemoveSent'
  BY <1>1, <1>3 DEF ServerInv, RemoveSent, InQueue, Leaked, msgVars
<1>20. StopsInTurn'
  BY <1>1, <1>3 DEF ServerInv, StopsInTurn, Serving, loopVars
<1>21. FiredWatched'
  BY <1>1, <1>2, <1>3, <1>5 DEF ServerInv, FiredWatched, Serving, loopVars
<1>22. FiredReadable'
  <2> SUFFICES ASSUME NEW w \in Threads, NEW g \in fired[w] \cap Fds, events[w][g] # NULL,
                      Live(events[w][g])'
               PROVE  events[w][g] \in input \cup closed
    BY <1>1 DEF FiredReadable, loopVars, peerVars, Live
  <2>1. events[w][g] \in Sessions \ {s}
    BY <1>5 DEF ServerInv, ServerTypes, TcpTypeOK
  <2>2. Live(events[w][g])
    BY <1>1, <1>3, <2>1 DEF Live, loopVars
  <2> QED
    BY <2>2 DEF ServerInv, FiredReadable
<1>23. ConnectedOwned'
  <2> SUFFICES ASSUME crash = "none", ~moved
               PROVE  /\ \A t \in Pushed' : state'[t] = "connected"
                      /\ \A w \in Threads : wpc[w] = "remove" =>
                           state'[wcur[w]] = "connected" /\ wcur[w] \notin Pushed'
                      /\ \A t \in Sessions : state'[t] = "connected" =>
                           t \in Pushed' \/ InWorker(t)
    BY <1>1, <1>7 DEF ConnectedOwned, InWorker, loopVars
  <2>1. \A w \in Threads : wpc[w] = "remove" => wcur[w] \in Sessions \ {s}
    BY <1>5 DEF ServerInv, ServerTypes, TcpTypeOK, Reading
  <2>2. \A t \in Pushed : t \in Sessions
    BY DEF Pushed, Sessions
  <2> QED
    BY <1>1, <1>3, <1>6, <2>1, <2>2 DEF ServerInv, ConnectedOwned
<1>24. RegisteredLive'
  <2> SUFFICES ASSUME ~MaskCleared
               PROVE  /\ \A w \in Threads, g \in Fds : events[w][g] # NULL =>
                           Live(events[w][g])' /\ events[w][g] \in epoll[w]
                      /\ \A t \in Sessions, w \in Threads : Live(t)' /\ loop[t] = w =>
                           Msg("ADD", t) \in ToSet(queue[w]) \cup lost \/ events[w][fd'[t]] = t
    BY <1>1 DEF RegisteredLive, MaskCleared, loopVars, msgVars, Live
  <2>1. \A w \in Threads, g \in Fds : events[w][g] # NULL => events[w][g] \in Sessions \ {s}
    BY <1>5 DEF ServerInv, ServerTypes, TcpTypeOK
  <2>2. \A w \in Threads, g \in Fds : events[w][g] # NULL =>
          Live(events[w][g])' /\ events[w][g] \in epoll[w]
    <3> SUFFICES ASSUME NEW w \in Threads, NEW g \in Fds, events[w][g] # NULL
                 PROVE  Live(events[w][g])' /\ events[w][g] \in epoll[w]
      OBVIOUS
    <3>1. Live(events[w][g]) /\ events[w][g] \in epoll[w]
      BY DEF ServerInv, RegisteredLive
    <3>2. Live(events[w][g])'
      BY <1>1, <1>3, <2>1, <3>1 DEF Live, loopVars
    <3> QED
      BY <3>1, <3>2
  <2>3. \A w \in Threads : loop[s] # w
    BY <1>4, TcpServerAssumption
  <2> QED
    BY <1>3, <1>8, <2>2, <2>3 DEF ServerInv, RegisteredLive
<1>25. NoSpuriousRead'
  BY <1>1, FrameRest DEF loopVars, peerVars
<1>26. AbortOnlyAtStop' /\ NoUseAfterFree'
  BY <1>7, FrameRest DEF Running
<1> QED
  BY <1>6, <1>10, <1>11, <1>12, <1>13, <1>14, <1>15, <1>16, <1>17, <1>18, <1>19, <1>20,
     <1>21, <1>22, <1>23, <1>24, <1>25, <1>26 DEF ServerInv

\* Dealing out: the worker has not heard of the session, nor polled its descriptor.
LEMMA DispatchSessionKeeps ==
  ASSUME ServerInv, Running, dispatchSession
  PROVE  ServerInv'
<1> DEFINE s == mcur
           n == nextId
           m == Msg("ADD", s)
<1>1. /\ mpc = "dispatch" /\ s \in Sessions /\ n \in Threads /\ n # NULL
      /\ loop[s] = NULL /\ state[s] = "connected" /\ wstate[n] = "RUN"
  BY TcpServerAssumption
  DEF dispatchSession, ServerInv, ServerTypes, TcpTypeOK, Dispatching, StopsInTurn, Serving
<1>2. /\ loop' = [loop EXCEPT ![s] = n] /\ nextId' = NextThread(n)
      /\ pushMsgqueue(n, m) /\ mpc' = "run" /\ mcur' = NULL
      /\ UNCHANGED <<arrayVars, k, state, fd, mask, loopVars, peerVars>>
  BY <1>1 DEF dispatchSession
<1>3. m \in Messages
  BY <1>1, MsgType
<1>4. /\ \A w \in Threads, g \in Fds : events[w][g] # s
      /\ \A w \in Threads : s \notin epoll[w]
      /\ \A w \in Threads : wpc[w] \in Reading => wcur[w] # s
      /\ \A w \in Threads : \A i \in DOMAIN queue[w] :
           queue[w][i] # Msg("ADD", s) /\ queue[w][i] # Msg("REMOVE", s)
  BY <1>1, NoLoopUnknown
<1> HIDE DEF s, n, m
<1>5. loop'[s] = n /\ \A t \in Sessions \ {s} : loop'[t] = loop[t]
  BY <1>1, <1>2 DEF ServerInv, ServerTypes, TcpTypeOK
<1>6. \A t \in Sessions : Live(t)' <=> Live(t)
  BY <1>2 DEF Live
<1>7. /\ queue' \in [Threads -> Seq(Messages)]
      /\ \A v \in Threads : Len(queue'[v]) <= QueueCap
      /\ \A v \in Threads : \A i \in DOMAIN queue'[v] :
           \/ i \in DOMAIN queue[v] /\ queue'[v][i] = queue[v][i]
           \/ v = n /\ i = Len(queue[n]) + 1 /\ queue'[v][i] = m
      /\ lost' = lost \/ lost' = lost \cup {m}
  BY <1>1, <1>2, <1>3, PushAdds DEF ServerInv
<1>8. /\ \A v \in Threads : ToSet(queue[v]) \subseteq ToSet(queue'[v])
      /\ lost \subseteq lost'
      /\ m \in ToSet(queue'[n]) \/ m \in lost'
  BY <1>1, <1>2, <1>3, PushHeard DEF ServerInv
<1>9. \A t \in Sessions : Msg("REMOVE", t) # m
  BY <1>1, MsgIs DEF m
<1>10. ServerTypes'
  <2>1. loop' \in [Sessions -> Threads \cup {NULL}]
    BY <1>1, <1>2 DEF ServerInv, ServerTypes, TcpTypeOK
  <2>2. nextId' \in Threads
    BY <1>1, <1>2, TcpServerAssumption DEF NextThread, Threads
  <2> QED
    BY <1>2, <1>7, <2>1, <2>2 DEF ServerInv, ServerTypes, TcpTypeOK, arrayVars, loopVars
<1>11. ArrayShape' /\ Pushed' = Pushed
  BY <1>2, FrameSessions DEF arrayVars
<1>12. MadeHasLoop'
  BY <1>1, <1>2, <1>5, <1>11 DEF ServerInv, MadeHasLoop, s
<1>13. Dispatching'
  BY <1>2 DEF Dispatching
<1>14. LiveFds'
  BY <1>2, FrameSessions
<1>15. TableKnown'
  <2> SUFFICES ASSUME NEW w \in Threads, NEW g \in Fds, events[w][g] # NULL
               PROVE  loop'[events[w][g]] = w /\ fd[events[w][g]] = g
    BY <1>2 DEF TableKnown, loopVars
  <2>1. events[w][g] \in Sessions \ {s}
    BY <1>4 DEF ServerInv, ServerTypes, TcpTypeOK
  <2> QED
    BY <1>5, <2>1 DEF ServerInv, TableKnown
<1>16. EpollKnown'
  BY <1>2, <1>4, <1>5, <1>6 DEF ServerInv, EpollKnown, loopVars
<1>17. WorkerHolds'
  <2> SUFFICES ASSUME NEW w \in Threads, wpc[w] \in Reading
               PROVE  Live(wcur[w])' /\ loop'[wcur[w]] = w /\ fd[wcur[w]] \notin fired[w]
    BY <1>2 DEF WorkerHolds, loopVars, Live
  <2>1. wcur[w] \in Sessions \ {s}
    BY <1>4 DEF ServerInv, ServerTypes, TcpTypeOK, Reading
  <2> QED
    BY <1>2, <1>5, <1>6, <2>1 DEF ServerInv, WorkerHolds, loopVars, Live
<1>18. fd[s] \notin fired[n]
  <2>1. Live(s) /\ fd[s] \in Fds
    BY <1>1 DEF Live, ServerInv, LiveFds
  <2>2. \A t \in epoll[n] : t \in Sessions /\ Live(t) /\ t # s
    BY <1>1, <1>4 DEF ServerInv, ServerTypes, TcpTypeOK, EpollKnown
  <2>3. \A t \in epoll[n] : fd[t] # fd[s]
    BY <1>1, <2>1, <2>2 DEF ServerInv, LiveFds
  <2> QED
    BY <1>1, <2>1, <2>3 DEF ServerInv, FiredWatched, Serving
<1>19. AddPending'
  <2> SUFFICES ASSUME NEW w \in Threads, NEW i \in DOMAIN queue'[w], NEW t \in Sessions,
                      queue'[w][i] = Msg("ADD", t)
               PROVE  /\ Live(t) /\ loop'[t] = w /\ fd[t] \notin fired[w]
                      /\ t \notin epoll[w] /\ \A f \in Fds : events[w][f] # t
                      /\ ~(wpc[w] \in Reading /\ wcur[w] = t)
                      /\ \A j \in DOMAIN queue'[w] : queue'[w][j] = Msg("ADD", t) => j = i
    BY <1>2, <1>6 DEF AddPending, loopVars
  <2>1. CASE i \in DOMAIN queue[w] /\ queue'[w][i] = queue[w][i]
    <3>1. t # s
      BY <1>4, <2>1
    <3>2. m # Msg("ADD", t)
      BY <3>1, MsgIs DEF m
    <3> QED
      BY <1>5, <1>7, <2>1, <3>1, <3>2 DEF ServerInv, AddPending
  <2>2. CASE w = n /\ i = Len(queue[n]) + 1 /\ queue'[w][i] = m
    <3>1. t = s
      BY <2>2, MsgIs DEF m
    <3> QED
      BY <1>1, <1>4, <1>5, <1>7, <1>18, <2>2, <3>1 DEF Live
  <2> QED
    BY <1>7, <2>1, <2>2
<1>20. RemovePending'
  <2>1. \A w \in Threads : \A i \in DOMAIN queue[w] : \A t \in Sessions :
          queue[w][i] # Msg("REMOVE", t)
    BY <1>1 DEF ServerInv, RemovePending, StopsInTurn, Serving
  <2>2. \A w \in Threads : \A i \in DOMAIN queue'[w] : \A t \in Sessions :
          queue'[w][i] # Msg("REMOVE", t)
    BY <1>7, <1>9, <2>1
  <2> QED
    BY <2>2 DEF RemovePending
<1>21. RemoveSent'
  BY <1>1, <1>2, <1>7, <1>9 DEF ServerInv, RemoveSent, StopsInTurn, Serving
<1>22. StopsInTurn' /\ FiredWatched'
  BY <1>1, <1>2 DEF ServerInv, StopsInTurn, FiredWatched, Serving, loopVars
<1>23. FiredReadable' /\ NoSpuriousRead'
  BY <1>2, FrameRest DEF loopVars, peerVars
<1>24. ConnectedOwned'
  BY <1>1, <1>2, <1>11 DEF ServerInv, ConnectedOwned, InWorker, arrayVars, loopVars
<1>25. RegisteredLive'
  <2> SUFFICES ASSUME ~MaskCleared
               PROVE  /\ \A w \in Threads, g \in Fds : events[w][g] # NULL =>
                           Live(events[w][g]) /\ events[w][g] \in epoll[w]
                      /\ \A t \in Sessions, w \in Threads : Live(t) /\ loop'[t] = w =>
                           Msg("ADD", t) \in ToSet(queue'[w]) \cup lost' \/ events[w][fd[t]] = t
    BY <1>2 DEF RegisteredLive, MaskCleared, loopVars, Live
  <2>1. \A w \in Threads, g \in Fds : events[w][g] # NULL =>
          Live(events[w][g]) /\ events[w][g] \in epoll[w]
    BY DEF ServerInv, RegisteredLive
  <2>2. \A t \in Sessions \ {s}, w \in Threads : Live(t) /\ loop'[t] = w =>
          Msg("ADD", t) \in ToSet(queue'[w]) \cup lost' \/ events[w][fd[t]] = t
    BY <1>5, <1>8 DEF ServerInv, RegisteredLive
  <2>3. \A w \in Threads : loop'[s] = w => Msg("ADD", s) \in ToSet(queue'[w]) \cup lost'
    BY <1>5, <1>8 DEF m
  <2> QED
    BY <2>1, <2>2, <2>3
<1>26. AbortOnlyAtStop' /\ NoUseAfterFree'
  BY <1>2, FrameRest DEF Running, arrayVars
<1> QED
  BY <1>10, <1>11, <1>12, <1>13, <1>14, <1>15, <1>16, <1>17, <1>19, <1>20,
     <1>21, <1>22, <1>23, <1>24, <1>25, <1>26 DEF ServerInv

\* stopTcpServer takes the last item: a session of the array, so a connected one as long
\* as the indices are right.
LEMMA StopEraseKeeps ==
  ASSUME ServerInv, Running, stopErase
  PROVE  ServerInv'
<1> DEFINE s == arrayItem[tail - 1]
<1>1. tail \in Nat /\ tail > 0 /\ mpc = "stopping"
  BY DEF stopErase, ServerInv, ArrayShape
<1>2. getArrayItemFastArray(tail - 1) = s
  BY <1>1 DEF getArrayItemFastArray
<1>3. /\ mcur' = s /\ mpc' = "stopRemove"
      /\ IF Live(s) THEN eraseFastArray(s)
         ELSE crash' = "freed" /\ UNCHANGED <<arrayItem, tail, capacity, arrayIndex, moved>>
      /\ UNCHANGED <<k, nextId, sessVars, loopVars, msgVars, peerVars>>
  BY <1>2 DEF stopErase
<1>4. s \in Sessions
  BY <1>1 DEF ServerInv, ArrayShape, SlotsFilled, Sessions
<1>5. crash = "none" /\ (crash = "none" /\ ~moved => s \in Pushed /\ state[s] = "connected")
  <2>1. ~moved => s \in Pushed
    BY <1>1, <1>4 DEF ServerInv, ArrayShape, ConsistentUntilMove, Pushed, Sessions
  <2> QED
    BY <2>1 DEF ServerInv, ConnectedOwned, Running
<1> HIDE DEF s
<1>6. /\ ArrayShape' /\ Pushed' \subseteq Pushed /\ (moved => moved')
      /\ crash' \in {"none", "index", "freed"}
      /\ crash' = "none" => Pushed' = Pushed \ {s} /\ s \in Pushed
      /\ crash' = "freed" => moved
  <2>1. CASE Live(s)
    BY <1>3, <1>4, <1>5, <2>1, EraseShape DEF ServerInv, Sessions
  <2>2. CASE ~Live(s)
    <3>1. crash' = "freed" /\ ArrayShape' /\ Pushed' = Pushed /\ moved' = moved
      BY <1>3, <2>2, FrameSessions
    <3>2. moved
      BY <1>5, <2>2 DEF Live
    <3> QED
      BY <3>1, <3>2
  <2> QED
    BY <2>1, <2>2
<1>7. ServerTypes'
  BY <1>3, <1>4, <1>6
  DEF ServerInv, ServerTypes, TcpTypeOK, sessVars, loopVars, msgVars
<1>8. MadeHasLoop'
  BY <1>1, <1>3, <1>6 DEF ServerInv, MadeHasLoop, sessVars
<1>9. Dispatching' /\ StopsInTurn' /\ FiredWatched'
  BY <1>3 DEF Dispatching, StopsInTurn, FiredWatched, Serving
<1>10. RemovePending'
  BY <1>3 DEF ServerInv, RemovePending, sessVars, msgVars
<1>11. RemoveSent'
  BY <1>1, <1>3 DEF ServerInv, RemoveSent, InQueue, Leaked, sessVars, msgVars
<1>12. ConnectedOwned'
  <2> SUFFICES ASSUME crash' = "none", ~moved'
               PROVE  /\ \A t \in Pushed' : state[t] = "connected"
                      /\ \A w \in Threads : wpc[w] = "remove" =>
                           state[wcur[w]] = "connected" /\ wcur[w] \notin Pushed'
                      /\ state[s] = "connected" /\ s \notin Pushed'
                      /\ \A w \in Threads : ~(wpc[w] = "remove" /\ wcur[w] = s)
                      /\ \A t \in Sessions : state[t] = "connected" =>
                           t \in Pushed' \/ InWorker(t) \/ t = s
    BY <1>3 DEF ConnectedOwned, InWorker, sessVars, loopVars
  <2>1. ~moved
    BY <1>6
  <2> QED
    BY <1>1, <1>5, <1>6, <2>1 DEF ServerInv, ConnectedOwned
<1>13. AbortOnlyAtStop'
  BY <1>3 DEF AbortOnlyAtStop
<1>14. NoUseAfterFree'
  BY <1>6 DEF NoUseAfterFree
<1> QED
  BY <1>3, <1>6, <1>7, <1>8, <1>9, <1>10, <1>11, <1>12, <1>13, <1>14,
     FrameSessions, FrameQueues, FrameRest
  DEF ServerInv, sessVars, loopVars, msgVars, peerVars

\* Main marks the session it erased: nobody else is about to free it.
LEMMA StopRemoveKeeps ==
  ASSUME ServerInv, Running, stopRemove
  PROVE  ServerInv'
<1> DEFINE s == mcur
<1>1. /\ mpc = "stopRemove" /\ s \in Sessions /\ crash = "none"
      /\ UNCHANGED <<arrayItem, tail, capacity, arrayIndex, moved,
                     mcur, k, nextId, fd, mask, loop, loopVars, msgVars, peerVars>>
  BY DEF stopRemove, ServerInv, ServerTypes, Running
<1>2. crash = "none" /\ ~moved => state[s] = "connected"
  BY <1>1 DEF ServerInv, ConnectedOwned
<1>3. CASE ~Live(s)
  <2>1. crash' = "freed" /\ mpc' = mpc /\ state' = state /\ moved
    BY <1>1, <1>2, <1>3 DEF stopRemove, Live
  <2>2. ServerTypes'
    BY <1>1, <2>1 DEF ServerInv, ServerTypes, TcpTypeOK, loopVars, msgVars
  <2>3. ConnectedOwned' /\ AbortOnlyAtStop'
    BY <2>1 DEF ConnectedOwned, AbortOnlyAtStop
  <2>4. NoUseAfterFree'
    BY <1>1, <2>1 DEF NoUseAfterFree
  <2> QED
    BY <1>1, <2>1, <2>2, <2>3, <2>4, FrameSessions, FrameQueues, FrameRest
    DEF ServerInv, loopVars, msgVars, peerVars
<1>4. CASE Live(s) /\ state[s] # "connected"
  <2>1. crash' = crash /\ mpc' = "stopping" /\ state' = state
    BY <1>4 DEF stopRemove
  <2>2. ServerTypes'
    BY <1>1, <2>1 DEF ServerInv, ServerTypes, TcpTypeOK, loopVars, msgVars
  <2>3. ConnectedOwned'
    BY <1>1, <1>2, <1>4, <2>1 DEF ConnectedOwned
  <2>4. MadeHasLoop'
    BY <1>1, <2>1 DEF ServerInv, MadeHasLoop, Pushed
  <2>5. Dispatching' /\ StopsInTurn' /\ FiredWatched'
    BY <2>1 DEF Dispatching, StopsInTurn, FiredWatched, Serving
  <2>6. RemovePending' /\ RemoveSent'
    BY <1>1, <2>1 DEF ServerInv, RemovePending, RemoveSent, InQueue, Leaked, msgVars
  <2> QED
    BY <1>1, <2>1, <2>2, <2>3, <2>4, <2>5, <2>6, FrameSessions, FrameQueues, FrameRest
    DEF ServerInv, loopVars, msgVars, peerVars
<1>5. CASE state[s] = "connected"
  <2>1. /\ crash' = crash /\ mpc' = "stopPush"
        /\ state' = [state EXCEPT ![s] = "disconnecting"]
    BY <1>5 DEF stopRemove, Live
  <2>2. /\ state'[s] = "disconnecting"
        /\ \A t \in Sessions \ {s} : state'[t] = state[t]
    BY <1>1, <2>1 DEF ServerInv, ServerTypes, TcpTypeOK
  <2>3. \A t \in Sessions : Live(t)' <=> Live(t)
    BY <1>5, <2>2 DEF Live
  <2>4. ServerTypes'
    <3>1. state' \in [Sessions -> States]
      BY <2>1 DEF ServerInv, ServerTypes, TcpTypeOK, States
    <3> QED
      BY <1>1, <2>1, <3>1 DEF ServerInv, ServerTypes, TcpTypeOK, loopVars, msgVars
  <2>5. MadeHasLoop'
    BY <1>1, <1>5, <2>1, <2>2 DEF ServerInv, MadeHasLoop, Pushed
  <2>6. Dispatching' /\ StopsInTurn' /\ FiredWatched'
    BY <2>1 DEF Dispatching, StopsInTurn, FiredWatched, Serving
  <2>7. LiveFds'
    BY <1>1, <2>3 DEF ServerInv, LiveFds
  <2>8. EpollKnown'
    BY <1>1, <2>3 DEF ServerInv, EpollKnown, loopVars
  <2>9. WorkerHolds'
    <3> SUFFICES ASSUME NEW w \in Threads, wpc[w] \in Reading
                 PROVE  Live(wcur[w])' /\ loop[wcur[w]] = w /\ fd[wcur[w]] \notin fired[w]
      BY <1>1 DEF WorkerHolds, loopVars, Live
    <3>1. wcur[w] \in Sessions /\ Live(wcur[w])
      BY DEF ServerInv, ServerTypes, TcpTypeOK, Reading, WorkerHolds
    <3>2. Live(wcur[w])'
      BY <1>1, <2>2, <3>1 DEF Live, loopVars
    <3> QED
      BY <3>2 DEF ServerInv, WorkerHolds
  <2>10. AddPending'
    BY <1>1, <2>3 DEF ServerInv, AddPending, loopVars, msgVars
  <2>11. RemovePending'
    BY <1>1, <1>5, <2>1, <2>2 DEF ServerInv, RemovePending, msgVars
  <2>12. RemoveSent'
    BY <1>1, <1>5, <2>1, <2>2 DEF ServerInv, RemoveSent, InQueue, Leaked, msgVars
  <2>13. \A w \in Threads, f \in Fds :
           events[w][f] # NULL => (Live(events[w][f])' <=> Live(events[w][f]))
    <3> SUFFICES ASSUME NEW w \in Threads, NEW f \in Fds, events[w][f] # NULL
                 PROVE  Live(events[w][f])' <=> Live(events[w][f])
      OBVIOUS
    <3>1. events[w][f] \in Sessions
      BY DEF ServerInv, ServerTypes, TcpTypeOK
    <3> QED
      BY <1>1, <1>5, <2>2, <3>1 DEF Live, loopVars
  <2>14. FiredReadable'
    <3> SUFFICES ASSUME NEW w \in Threads, NEW f \in fired[w] \cap Fds, events[w][f] # NULL,
                        Live(events[w][f])'
                 PROVE  events[w][f] \in input \cup closed
      BY <1>1 DEF FiredReadable, loopVars, peerVars, Live
    <3> QED
      BY <2>13 DEF ServerInv, FiredReadable
  <2>15. ConnectedOwned'
    <3> SUFFICES ASSUME crash = "none", ~moved
                 PROVE  /\ \A t \in Pushed : state'[t] = "connected"
                        /\ \A w \in Threads : wpc[w] = "remove" =>
                             state'[wcur[w]] = "connected" /\ wcur[w] \notin Pushed
                        /\ \A t \in Sessions : state'[t] = "connected" =>
                             t \in Pushed \/ InWorker(t)
      BY <1>1, <2>1 DEF ConnectedOwned, InWorker, Pushed, loopVars
    <3>1. \A t \in Pushed : t \in Sessions
      BY DEF Pushed, Sessions
    <3>2. \A w \in Threads : wpc[w] = "remove" => wcur[w] \in Sessions
      BY DEF ServerInv, ServerTypes, TcpTypeOK
    <3> QED
      BY <1>1, <2>2, <3>1, <3>2 DEF ServerInv, ConnectedOwned
  <2>16. RegisteredLive'
    <3> SUFFICES ASSUME ~MaskCleared
                 PROVE  /\ \A w \in Threads, f \in Fds : events[w][f] # NULL =>
                             Live(events[w][f])' /\ events[w][f] \in epoll[w]
                        /\ \A t \in Sessions, w \in Threads : Live(t)' /\ loop[t] = w =>
                             Msg("ADD", t) \in ToSet(queue[w]) \cup lost \/ events[w][fd[t]] = t
      BY <1>1 DEF RegisteredLive, MaskCleared, loopVars, msgVars, Live
    <3> QED
      BY <2>3, <2>13 DEF ServerInv, RegisteredLive
  <2>17. AbortOnlyAtStop' /\ NoUseAfterFree'
    BY <2>1, FrameRest DEF Running
  <2> QED
    BY <1>1, <2>1, <2>4, <2>5, <2>6, <2>7, <2>8, <2>9, <2>10, <2>11, <2>12, <2>14, <2>15,
       <2>16, <2>17, FrameSessions, FrameRest
    DEF ServerInv, loopVars, peerVars
<1> QED
  BY <1>3, <1>4, <1>5 DEF Live

\* The session's one REMOVE: sent after its ADD, or lost.
LEMMA StopPushKeeps ==
  ASSUME ServerInv, Running, stopPush
  PROVE  ServerInv'
<1> DEFINE s == mcur
           n == loop[mcur]
           m == Msg("REMOVE", mcur)
<1>1. /\ mpc = "stopPush" /\ s \in Sessions /\ state[s] = "disconnecting" /\ n \in Threads
      /\ pushMsgqueue(n, m) /\ mpc' = "stopping" /\ mcur' = NULL
      /\ UNCHANGED <<arrayVars, k, nextId, sessVars, loopVars, peerVars>>
  BY DEF stopPush, ServerInv, ServerTypes, RemoveSent, MadeHasLoop
<1>2. m \in Messages
  BY <1>1, MsgType
<1>3. \A w \in Threads : \A i \in DOMAIN queue[w] : queue[w][i] # m
  BY <1>1 DEF ServerInv, RemovePending
<1>4. m \notin lost
  BY <1>1 DEF ServerInv, RemoveSent
<1>5. loop[s] = n
  OBVIOUS
<1>6. \A t \in Sessions : Msg("ADD", t) # m /\ (Msg("REMOVE", t) = m => t = s)
  BY <1>1, MsgIs
<1>7. Msg("REMOVE", s) = m
  OBVIOUS
<1> HIDE DEF s, n, m
<1>8. /\ queue' \in [Threads -> Seq(Messages)]
      /\ \A v \in Threads : Len(queue'[v]) <= QueueCap
      /\ \A v \in Threads : \A i \in DOMAIN queue[v] :
           i \in DOMAIN queue'[v] /\ queue'[v][i] = queue[v][i]
      /\ \A v \in Threads : \A i \in DOMAIN queue'[v] :
           \/ i \in DOMAIN queue[v] /\ queue'[v][i] = queue[v][i]
           \/ v = n /\ i = Len(queue[n]) + 1 /\ queue'[v][i] = m
      /\ \/ lost' = lost /\ \E i \in DOMAIN queue'[n] : queue'[n][i] = m
         \/ lost' = lost \cup {m} /\ queue' = queue
  BY <1>1, <1>2, PushAdds DEF ServerInv
<1>9. /\ \A v \in Threads : ToSet(queue[v]) \subseteq ToSet(queue'[v])
      /\ lost \subseteq lost'
      /\ m \in ToSet(queue'[n]) \/ m \in lost'
  BY <1>1, <1>2, PushHeard DEF ServerInv
<1>10. ServerTypes'
  BY <1>1, <1>8 DEF ServerInv, ServerTypes, TcpTypeOK, arrayVars, sessVars, loopVars
<1>11. MadeHasLoop'
  BY <1>1 DEF ServerInv, MadeHasLoop, Pushed, arrayVars, sessVars
<1>12. Dispatching' /\ StopsInTurn' /\ FiredWatched'
  BY <1>1 DEF Dispatching, StopsInTurn, FiredWatched, Serving
<1>13. AddPending'
  <2> SUFFICES ASSUME NEW w \in Threads, NEW i \in DOMAIN queue'[w], NEW t \in Sessions,
                      queue'[w][i] = Msg("ADD", t)
               PROVE  /\ Live(t) /\ loop[t] = w /\ fd[t] \notin fired[w]
                      /\ t \notin epoll[w] /\ \A f \in Fds : events[w][f] # t
                      /\ ~(wpc[w] \in Reading /\ wcur[w] = t)
                      /\ \A j \in DOMAIN queue'[w] : queue'[w][j] = Msg("ADD", t) => j = i
    BY <1>1 DEF AddPending, Live, sessVars, loopVars
  <2>1. i \in DOMAIN queue[w] /\ queue[w][i] = Msg("ADD", t)
    BY <1>6, <1>8
  <2>2. \A j \in DOMAIN queue'[w] : queue'[w][j] = Msg("ADD", t) =>
          j \in DOMAIN queue[w] /\ queue[w][j] = Msg("ADD", t)
    BY <1>6, <1>8
  <2> QED
    BY <2>1, <2>2 DEF ServerInv, AddPending
<1>14. RemovePending'
  <2> SUFFICES ASSUME NEW w \in Threads, NEW i \in DOMAIN queue'[w], NEW t \in Sessions,
                      queue'[w][i] = Msg("REMOVE", t)
               PROVE  /\ state[t] = "disconnecting" /\ loop[t] = w
                      /\ Msg("REMOVE", t) \notin lost'
                      /\ \A j \in DOMAIN queue'[w] :
                           /\ queue'[w][j] = Msg("ADD", t) => j < i
                           /\ queue'[w][j] = Msg("REMOVE", t) => j = i
    BY <1>1 DEF RemovePending, sessVars
  <2>1. CASE i \in DOMAIN queue[w] /\ queue'[w][i] = queue[w][i]
    <3>1. Msg("REMOVE", t) # m
      BY <1>3, <2>1
    <3> QED
      BY <1>6, <1>8, <2>1, <3>1 DEF ServerInv, RemovePending
  <2>2. CASE w = n /\ i = Len(queue[n]) + 1 /\ queue'[w][i] = m
    <3>1. t = s /\ Msg("REMOVE", t) = m
      BY <1>6, <2>2
    <3>2. \A j \in DOMAIN queue[n] : j < i
      <4>1. queue[n] \in Seq(Messages)
        BY <1>1 DEF ServerInv, ServerTypes
      <4> QED
        BY <2>2, <4>1
    <3>3. i \notin DOMAIN queue[n]
      BY <3>2, <2>2
    <3>4. m \notin lost'
      BY <1>4, <1>8, <2>2, <3>3
    <3>5. \A j \in DOMAIN queue'[n] : j = i \/ (j \in DOMAIN queue[n] /\ queue'[n][j] # m /\ j < i)
      BY <1>1, <1>3, <1>8, <2>2, <3>2
    <3> QED
      BY <1>1, <1>5, <1>6, <2>2, <3>1, <3>4, <3>5
  <2> QED
    BY <1>8, <2>1, <2>2
<1>15. RemoveSent'
  <2>1. \A t \in Sessions : Msg("REMOVE", t) \in lost' => state[t] = "disconnecting"
    BY <1>1, <1>6, <1>8 DEF ServerInv, RemoveSent
  <2>2. \A t \in Sessions : state[t] = "disconnecting" => InQueue(t)' \/ Leaked(t)'
    <3> SUFFICES ASSUME NEW t \in Sessions, state[t] = "disconnecting"
                 PROVE  InQueue(t)' \/ Leaked(t)'
      OBVIOUS
    <3>1. CASE t = s
      BY <1>1, <1>7, <1>9, <3>1 DEF InQueue, Leaked
    <3>2. CASE t # s
      <4>1. InQueue(t) \/ Leaked(t)
        BY <3>2 DEF ServerInv, RemoveSent, s
      <4> QED
        BY <1>9, <4>1 DEF InQueue, Leaked
    <3> QED
      BY <3>1, <3>2
  <2> QED
    BY <1>1, <2>1, <2>2 DEF RemoveSent, sessVars
<1>16. ConnectedOwned'
  BY <1>1 DEF ServerInv, ConnectedOwned, InWorker, Pushed, arrayVars, sessVars, loopVars
<1>17. RegisteredLive'
  <2> SUFFICES ASSUME ~MaskCleared
               PROVE  /\ \A w \in Threads, f \in Fds : events[w][f] # NULL =>
                           Live(events[w][f]) /\ events[w][f] \in epoll[w]
                      /\ \A t \in Sessions, w \in Threads : Live(t) /\ loop[t] = w =>
                           Msg("ADD", t) \in ToSet(queue'[w]) \cup lost' \/ events[w][fd[t]] = t
    BY <1>1 DEF RegisteredLive, MaskCleared, sessVars, loopVars, Live
  <2> QED
    BY <1>9 DEF ServerInv, RegisteredLive
<1>18. AbortOnlyAtStop' /\ NoUseAfterFree'
  BY <1>1, FrameRest DEF Running, arrayVars
<1> QED
  BY <1>1, <1>10, <1>11, <1>12, <1>13, <1>14, <1>15, <1>16, <1>17, <1>18, FrameSessions, FrameRest
  DEF ServerInv, arrayVars, sessVars, loopVars, peerVars
-----------------------------------------------------------------------------
(* A worker with a session in hand *)

\* What ae's table registers is a session, of that worker and on that descriptor.
LEMMA TableSession ==
  ASSUME ServerInv, NEW w \in Threads, NEW f \in Fds, events[w][f] # NULL
  PROVE  /\ events[w][f] \in Sessions /\ loop[events[w][f]] = w /\ fd[events[w][f]] = f
         /\ ~MaskCleared => Live(events[w][f]) /\ events[w][f] \in epoll[w]
BY DEF ServerInv, ServerTypes, TcpTypeOK, TableKnown, RegisteredLive

\* What a worker has in hand.
LEMMA HeldSession ==
  ASSUME ServerInv, NEW w \in Threads, wpc[w] \in Reading
  PROVE  /\ wcur[w] \in Sessions /\ Live(wcur[w]) /\ loop[wcur[w]] = w
         /\ fd[wcur[w]] \notin fired[w]
         /\ \A v \in Threads \ {w} : wpc[v] \in Reading => wcur[v] # wcur[w]
<1>1. \A v \in Threads : wpc[v] \in Reading =>
        /\ wcur[v] \in Sessions /\ Live(wcur[v]) /\ loop[wcur[v]] = v
        /\ fd[wcur[v]] \notin fired[v]
  BY DEF ServerInv, ServerTypes, TcpTypeOK, WorkerHolds, Reading
<1> QED
  BY <1>1

\* Dispatching a read event: the session is registered, so it is live and, its event
\* being of this batch, has something to read.
LEMMA CallReadKeeps ==
  ASSUME ServerInv, Running, NEW w \in Threads, NEW f \in Fds, callRead(w, f)
  PROVE  ServerInv'
<1> DEFINE s == events[w][f]
<1>1. /\ wpc[w] = "dispatch" /\ f \in fired[w] \cap Fds /\ s # NULL
      /\ fired' = [fired EXCEPT ![w] = @ \ {f}]
      /\ wcur' = [wcur EXCEPT ![w] = s]
      /\ UNCHANGED <<arrayItem, tail, capacity, arrayIndex, moved, mainVars, sessVars,
                     events, epoll, wstate, msgVars, peerVars>>
  BY DEF callRead
<1>2. \/ Live(s) /\ wpc' = [wpc EXCEPT ![w] = "read"] /\ crash' = crash
      \/ ~Live(s) /\ wpc' = wpc /\ crash' = "freed"
  BY DEF callRead
<1>3. s \in Sessions /\ loop[s] = w /\ fd[s] = f /\ (~MaskCleared => Live(s))
  BY <1>1, TableSession
<1>4. Live(s) => s \in input \cup closed
  BY <1>1 DEF ServerInv, FiredReadable
<1>5. \A i \in DOMAIN queue[w] : queue[w][i] # Msg("ADD", s)
  BY <1>3 DEF ServerInv, AddPending
<1> HIDE DEF s
<1>6. /\ wpc \in [Threads -> Places] /\ wcur \in [Threads -> Sessions \cup {NULL}]
      /\ fired \in [Threads -> SUBSET (Fds \cup {WAKE})]
  BY DEF ServerInv, ServerTypes, TcpTypeOK
<1>7. /\ wcur'[w] = s /\ (Live(s) => wpc'[w] = "read") /\ (~Live(s) => wpc'[w] = "dispatch")
      /\ \A v \in Threads \ {w} : wpc'[v] = wpc[v] /\ wcur'[v] = wcur[v] /\ fired'[v] = fired[v]
      /\ fired'[w] = fired[w] \ {f}
  BY <1>1, <1>2, <1>6
<1>8. ServerTypes'
  <2>1. wpc' \in [Threads -> Places] /\ wcur' \in [Threads -> Sessions \cup {NULL}]
    BY <1>1, <1>2, <1>3, <1>6 DEF Places
  <2>2. fired' \in [Threads -> SUBSET (Fds \cup {WAKE})]
    BY <1>1, BatchShrinks
  <2>3. \A v \in Threads : wpc'[v] \in {"read", "erase", "remove"} => wcur'[v] \in Sessions
    BY <1>3, <1>7 DEF ServerInv, ServerTypes, TcpTypeOK
  <2> QED
    BY <1>1, <1>2, <2>1, <2>2, <2>3 DEF ServerInv, ServerTypes, TcpTypeOK, mainVars, sessVars, msgVars
<1>9. WorkerHolds'
  <2> SUFFICES ASSUME NEW v \in Threads, wpc'[v] \in Reading
               PROVE  Live(wcur'[v]) /\ loop[wcur'[v]] = v /\ fd[wcur'[v]] \notin fired'[v]
    BY <1>1 DEF WorkerHolds, sessVars, Live
  <2>1. CASE v = w
    BY <1>3, <1>7, <2>1 DEF Reading
  <2>2. CASE v # w
    BY <1>7, <2>2 DEF ServerInv, WorkerHolds
  <2> QED
    BY <2>1, <2>2
<1>10. AddPending'
  <2> SUFFICES ASSUME NEW v \in Threads, NEW i \in DOMAIN queue[v], NEW t \in Sessions,
                      queue[v][i] = Msg("ADD", t)
               PROVE  fd[t] \notin fired'[v] /\ ~(wpc'[v] \in Reading /\ wcur'[v] = t)
    BY <1>1 DEF ServerInv, AddPending, Live, sessVars, msgVars
  <2>1. fd[t] \notin fired[v] /\ ~(wpc[v] \in Reading /\ wcur[v] = t)
    BY DEF ServerInv, AddPending
  <2>2. CASE v = w
    BY <1>5, <1>7, <2>1, <2>2
  <2>3. CASE v # w
    BY <1>7, <2>1, <2>3
  <2> QED
    BY <2>2, <2>3
<1>11. NoSpuriousRead'
  BY <1>1, <1>4, <1>7 DEF ServerInv, NoSpuriousRead, peerVars
<1>12. ConnectedOwned'
  <2>1. CASE ~Live(s)
    BY <1>2, <2>1 DEF ConnectedOwned
  <2>2. CASE Live(s)
    <3>1. crash' = crash
      BY <1>2, <2>2
    <3>2. \A v \in Threads : /\ wpc'[v] = "remove" <=> wpc[v] = "remove"
                             /\ wpc[v] = "remove" => wcur'[v] = wcur[v]
      BY <1>1, <1>7, <2>2
    <3> QED
      BY <1>1, <3>1, <3>2 DEF ServerInv, ConnectedOwned, InWorker, Pushed, mainVars, sessVars
  <2> QED
    BY <2>1, <2>2
<1>13. AbortOnlyAtStop'
  BY <1>2 DEF AbortOnlyAtStop, Running
<1>14. NoUseAfterFree'
  <2>1. crash' = "freed" => MaskCleared
    BY <1>2, <1>3 DEF Running
  <2> QED
    BY <1>1, <2>1 DEF NoUseAfterFree, MaskCleared, sessVars
<1> QED
  BY <1>1, <1>8, <1>9, <1>10, <1>11, <1>12, <1>13, <1>14, BatchShrinks,
     FrameSessions, FrameQueues, FrameRest
  DEF ServerInv, mainVars, sessVars, msgVars, peerVars

\* Reading takes the data; nobody else counts on it.
LEMMA ReadKeeps ==
  ASSUME ServerInv, Running, NEW w \in Threads, NEW p \in {"dispatch", "erase"},
         wpc[w] = "read", wpc' = [wpc EXCEPT ![w] = p],
         wcur' = wcur \/ (p = "dispatch" /\ wcur' = [wcur EXCEPT ![w] = NULL]),
         input' = input \ {wcur[w]},
         mask' = mask \/ mask' = [mask EXCEPT ![wcur[w]] = "none"],
         UNCHANGED <<arrayVars, mainVars, state, fd, loop, events, epoll, fired, wstate,
                     msgVars, closed>>
  PROVE  ServerInv'
<1> DEFINE s == wcur[w]
<1>1. /\ s \in Sessions /\ loop[s] = w /\ fd[s] \notin fired[w]
      /\ \A v \in Threads \ {w} : wpc[v] \in Reading => wcur[v] # s
  BY HeldSession DEF Reading
<1>2. /\ wpc \in [Threads -> Places] /\ wcur \in [Threads -> Sessions \cup {NULL}]
      /\ mask \in [Sessions -> {"read", "none"}]
  BY DEF ServerInv, ServerTypes, TcpTypeOK
<1>3. /\ wpc'[w] = p /\ (wpc'[w] \in Reading => wcur'[w] = wcur[w])
      /\ \A v \in Threads \ {w} : wpc'[v] = wpc[v] /\ wcur'[v] = wcur[v]
  BY <1>2 DEF Reading
<1>4. mask' = mask \/ MaskCleared'
  BY <1>1, <1>2 DEF MaskCleared
<1>5. \A v \in Threads : wpc'[v] \in Reading => wpc[v] \in Reading /\ wcur'[v] = wcur[v]
  BY <1>3 DEF Reading
<1>6. ServerTypes'
  <2>1. /\ wpc' \in [Threads -> Places] /\ wcur' \in [Threads -> Sessions \cup {NULL}]
        /\ mask' \in [Sessions -> {"read", "none"}]
    BY <1>1, <1>2 DEF Places
  <2>2. \A v \in Threads : wpc'[v] \in {"read", "erase", "remove"} => wcur'[v] \in Sessions
    BY <1>5 DEF ServerInv, ServerTypes, TcpTypeOK, Reading
  <2> QED
    BY <2>1, <2>2 DEF ServerInv, ServerTypes, TcpTypeOK, arrayVars, mainVars, msgVars
<1>7. WorkerHolds'
  BY <1>5 DEF ServerInv, WorkerHolds, Live
<1>8. AddPending'
  BY <1>5 DEF ServerInv, AddPending, Live, msgVars
<1>9. FiredReadable'
  <2> SUFFICES ASSUME NEW v \in Threads, NEW f \in fired[v] \cap Fds, events[v][f] # NULL,
                      Live(events[v][f])
               PROVE  events[v][f] \in input' \cup closed
    BY DEF FiredReadable, Live
  <2>1. events[v][f] # s
    BY <1>1, TableSession
  <2> QED
    BY <2>1 DEF ServerInv, FiredReadable
<1>10. NoSpuriousRead'
  <2> SUFFICES ASSUME NEW v \in Threads, wpc'[v] = "read"
               PROVE  wcur'[v] \in input' \cup closed'
    BY DEF NoSpuriousRead
  <2>1. v # w /\ wpc[v] = "read" /\ wcur'[v] = wcur[v]
    BY <1>3
  <2> QED
    BY <1>1, <2>1 DEF ServerInv, NoSpuriousRead, Reading
<1>11. \A v \in Threads : /\ wpc'[v] = "remove" <=> wpc[v] = "remove"
                          /\ wpc[v] = "remove" => wcur'[v] = wcur[v]
  BY <1>3
<1>12. ConnectedOwned'
  BY <1>11 DEF ServerInv, ConnectedOwned, InWorker, Pushed, arrayVars, mainVars
<1>13. RegisteredLive'
  <2>1. CASE MaskCleared'
    BY <2>1 DEF RegisteredLive
  <2>2. CASE mask' = mask
    BY <2>2, FrameRest DEF msgVars
  <2> QED
    BY <1>4, <2>1, <2>2
<1>14. AbortOnlyAtStop' /\ NoUseAfterFree'
  BY FrameRest DEF Running, arrayVars
<1> QED
  BY <1>6, <1>7, <1>8, <1>9, <1>10, <1>12, <1>13, <1>14, FrameSessions, FrameQueues, FrameRest
  DEF ServerInv, arrayVars, mainVars, msgVars

LEMMA ReadStepsKeep ==
  ASSUME ServerInv, Running, NEW w \in Threads, readData(w) \/ readNothing(w)
  PROVE  ServerInv'
<1>1. PICK p \in {"dispatch", "erase"} :
        /\ wpc' = [wpc EXCEPT ![w] = p]
        /\ wcur' = wcur \/ (p = "dispatch" /\ wcur' = [wcur EXCEPT ![w] = NULL])
  <2>1. CASE readData(w)
    BY <2>1 DEF readData
  <2>2. CASE readNothing(w)
    BY <2>2 DEF readNothing
  <2> QED
    BY <2>1, <2>2
<1>2. mask' = mask \/ mask' = [mask EXCEPT ![wcur[w]] = "none"]
  BY DEF readData, writeSession, readNothing, sessVars
<1>3. /\ wpc[w] = "read" /\ input' = input \ {wcur[w]}
      /\ UNCHANGED <<arrayVars, mainVars, state, fd, loop, events, epoll, fired, wstate,
                     msgVars, closed>>
  BY DEF readData, readNothing, sessVars
<1> QED
  BY <1>1, <1>2, <1>3, ReadKeeps

\* A disconnect takes its session out of the array.  While the server serves, nobody
\* can have taken it out before; the index assertion fails only at stop.
LEMMA DisConnectionKeeps ==
  ASSUME ServerInv, Running, NEW w \in Threads, tcpServerDisConnection(w)
  PROVE  ServerInv'
<1> DEFINE s == wcur[w]
<1>1. /\ wpc[w] = "erase" /\ mpc \notin {"stopping", "stopRemove", "stopPush"}
      /\ eraseFastArray(s) /\ wpc' = [wpc EXCEPT ![w] = "remove"]
      /\ UNCHANGED <<mainVars, sessVars, events, epoll, fired, wcur, wstate, msgVars, peerVars>>
  BY DEF tcpServerDisConnection, ArrayLockFree
<1>2. /\ s \in Sessions /\ Live(s) /\ loop[s] = w
      /\ \A v \in Threads \ {w} : wpc[v] \in Reading => wcur[v] # s
  BY <1>1, HeldSession DEF Reading
<1>3. wpc'[w] = "remove" /\ \A v \in Threads \ {w} : wpc'[v] = wpc[v]
  BY <1>1 DEF ServerInv, ServerTypes, TcpTypeOK
<1> HIDE DEF s
<1>4. /\ ArrayShape'
      /\ \/ /\ crash' = "index" /\ Pushed' = Pushed /\ moved' = moved /\ (~moved => s \notin Pushed)
         \/ crash' = crash /\ s \in Pushed /\ Pushed' = Pushed \ {s} /\ (moved => moved')
  BY <1>1, <1>2, EraseShape DEF ServerInv, Sessions
<1>5. ServerTypes'
  <2>1. wpc' \in [Threads -> Places]
    BY <1>1 DEF ServerInv, ServerTypes, TcpTypeOK, Places
  <2>2. \A v \in Threads : wpc'[v] \in {"read", "erase", "remove"} => wcur'[v] \in Sessions
    BY <1>1, <1>2, <1>3 DEF ServerInv, ServerTypes, TcpTypeOK, s
  <2> QED
    BY <1>1, <1>4, <2>1, <2>2 DEF ServerInv, ServerTypes, TcpTypeOK, mainVars, sessVars, msgVars
<1>6. MadeHasLoop'
  BY <1>1, <1>4 DEF ServerInv, MadeHasLoop, mainVars, sessVars
<1>7. \A v \in Threads : wpc'[v] \in Reading => wpc[v] \in Reading
  BY <1>1, <1>3 DEF Reading
<1>8. WorkerHolds'
  BY <1>1, <1>7 DEF ServerInv, WorkerHolds, Live, sessVars
<1>9. AddPending'
  BY <1>1, <1>7 DEF ServerInv, AddPending, Live, sessVars, msgVars
<1>10. NoSpuriousRead'
  BY <1>1, <1>3 DEF ServerInv, NoSpuriousRead, peerVars
<1>11. crash = "none"
  BY DEF Running
<1>12. ConnectedOwned'
  <2> SUFFICES ASSUME crash' = "none", ~moved'
               PROVE  /\ \A t \in Pushed' : state[t] = "connected"
                      /\ \A v \in Threads : wpc'[v] = "remove" =>
                           state[wcur[v]] = "connected" /\ wcur[v] \notin Pushed'
                      /\ \A t \in Sessions : state[t] = "connected" =>
                           t \in Pushed' \/ \E v \in Threads : wpc'[v] = "remove" /\ wcur[v] = t
    BY <1>1 DEF ConnectedOwned, InWorker, mainVars, sessVars
  <2>1. s \in Pushed /\ Pushed' = Pushed \ {s} /\ ~moved
    BY <1>4
  <2>2. /\ \A t \in Pushed : state[t] = "connected"
        /\ \A v \in Threads : wpc[v] = "remove" =>
             state[wcur[v]] = "connected" /\ wcur[v] \notin Pushed
        /\ \A t \in Sessions : state[t] = "connected" => t \in Pushed \/ InWorker(t)
    BY <1>1, <1>11, <2>1 DEF ServerInv, ConnectedOwned
  <2>3. state[s] = "connected"
    BY <2>1, <2>2
  <2>4. \A v \in Threads : wpc'[v] = "remove" =>
          state[wcur[v]] = "connected" /\ wcur[v] \notin Pushed'
    BY <1>3, <2>1, <2>2, <2>3 DEF s
  <2>5. \A t \in Sessions : InWorker(t) => \E v \in Threads : wpc'[v] = "remove" /\ wcur[v] = t
    BY <1>1, <1>3 DEF InWorker
  <2>6. \E v \in Threads : wpc'[v] = "remove" /\ wcur[v] = s
    BY <1>3 DEF s
  <2> QED
    BY <2>1, <2>2, <2>4, <2>5, <2>6
<1>13. AbortOnlyAtStop'
  <2> SUFFICES ASSUME crash' = "index", mpc \in Serving
               PROVE  moved'
    BY <1>1 DEF AbortOnlyAtStop, Serving, mainVars
  <2>1. moved' = moved /\ (~moved => s \notin Pushed)
    BY <1>4, <1>11
  <2>2. state[s] = "connected"
    BY <1>2 DEF ServerInv, StopsInTurn, Live
  <2>3. ~InWorker(s)
    BY <1>1, <1>2 DEF InWorker, Reading
  <2>4. ~moved => s \in Pushed
    BY <1>1, <1>2, <1>11, <2>2, <2>3 DEF ServerInv, ConnectedOwned
  <2> QED
    BY <2>1, <2>4
<1>14. NoUseAfterFree'
  BY <1>4, <1>11 DEF NoUseAfterFree
<1> QED
  BY <1>1, <1>4, <1>5, <1>6, <1>8, <1>9, <1>10, <1>12, <1>13, <1>14,
     FrameSessions, FrameQueues, FrameRest
  DEF ServerInv, mainVars, sessVars, msgVars, peerVars

\* Freeing a session on its own loop: it leaves the table, when its mask says it is
\* there, and epoll; no other session has its descriptor.
LEMMA FreeKeeps ==
  ASSUME ServerInv, NEW w \in Threads, NEW s \in Sessions, Live(s), loop[s] = w,
         events' = Unregistered(s, w), destroySession(s, w),
         UNCHANGED <<arrayVars, mainVars, fired, wstate>>,
         \A v \in Threads : wpc'[v] \in Reading =>
           v # w /\ wpc[v] = wpc'[v] /\ wcur'[v] = wcur[v]
  PROVE  /\ state'[s] = "freed" /\ \A t \in Sessions \ {s} : state'[t] = state[t]
         /\ \A v \in Threads, g \in Fds : events'[v][g] # NULL => events'[v][g] = events[v][g]
         /\ \A v \in Threads : epoll'[v] \subseteq epoll[v]
         /\ \A t \in Sessions \ {s}, v \in Threads : t \in epoll[v] => t \in epoll'[v]
         /\ UNCHANGED <<fd, mask, loop, closed>>
         /\ state' \in [Sessions -> States]
         /\ events' \in [Threads -> [Fds -> Sessions \cup {NULL}]]
         /\ epoll' \in [Threads -> SUBSET Sessions]
         /\ MadeHasLoop' /\ Dispatching' /\ LiveFds' /\ TableKnown' /\ EpollKnown'
         /\ WorkerHolds' /\ StopsInTurn' /\ FiredReadable' /\ NoSpuriousRead'
         /\ (\A t \in Sessions \ {s}, v \in Threads :
               Msg("ADD", t) \in ToSet(queue[v]) \cup lost =>
                 Msg("ADD", t) \in ToSet(queue'[v]) \cup lost') => RegisteredLive'
<1>1. /\ state' = [state EXCEPT ![s] = "freed"]
      /\ epoll' = [epoll EXCEPT ![w] = @ \ {s}]
      /\ input' = input \ {s}
      /\ UNCHANGED <<fd, mask, loop, closed>>
  BY DEF destroySession
<1>2. /\ state \in [Sessions -> States] /\ epoll \in [Threads -> SUBSET Sessions]
      /\ events \in [Threads -> [Fds -> Sessions \cup {NULL}]]
      /\ mask \in [Sessions -> {"read", "none"}]
      /\ NULL \notin Sessions /\ NULL \notin Threads
  BY TcpServerAssumption, FastArrayAssumption DEF ServerInv, ServerTypes, TcpTypeOK, Sessions
<1>3. fd[s] \in Fds /\ \A t \in Sessions : Live(t) /\ fd[t] = fd[s] => t = s
  BY DEF ServerInv, LiveFds
<1>4. state'[s] = "freed" /\ \A t \in Sessions \ {s} : state'[t] = state[t]
  BY <1>1, <1>2
<1>5. ~Live(s)' /\ \A t \in Sessions \ {s} : Live(t)' <=> Live(t)
  BY <1>4 DEF Live
<1>6. /\ epoll'[w] = epoll[w] \ {s} /\ \A v \in Threads \ {w} : epoll'[v] = epoll[v]
      /\ epoll' \in [Threads -> SUBSET Sessions]
  BY <1>1, <1>2
<1>7. /\ events' \in [Threads -> [Fds -> Sessions \cup {NULL}]]
      /\ mask[s] = "read" => events'[w][fd[s]] = NULL
      /\ \A v \in Threads, g \in Fds : v # w \/ g # fd[s] => events'[v][g] = events[v][g]
      /\ \A v \in Threads, g \in Fds : events'[v][g] # NULL => events'[v][g] = events[v][g]
  <2>1. CASE mask[s] = "read"
    <3>1. events' = [events EXCEPT ![w] = [events[w] EXCEPT ![fd[s]] = NULL]]
      BY <2>1 DEF Unregistered
    <3>2. events[w] \in [Fds -> Sessions \cup {NULL}]
      BY <1>2
    <3>3. [events[w] EXCEPT ![fd[s]] = NULL] \in [Fds -> Sessions \cup {NULL}]
      BY <3>2
    <3>4. events'[w] = [events[w] EXCEPT ![fd[s]] = NULL] /\ \A v \in Threads \ {w} : events'[v] = events[v]
      BY <1>2, <3>1
    <3>5. events' \in [Threads -> [Fds -> Sessions \cup {NULL}]]
      BY <1>2, <3>1, <3>3
    <3>6. events'[w][fd[s]] = NULL /\ \A g \in Fds : g # fd[s] => events'[w][g] = events[w][g]
      BY <1>3, <3>2, <3>4
    <3> QED
      BY <3>4, <3>5, <3>6
  <2>2. CASE mask[s] # "read"
    BY <1>2, <2>2 DEF Unregistered
  <2> QED
    BY <2>1, <2>2
<1>8. \A t \in Sessions \ {s}, v \in Threads : t \in epoll[v] => t \in epoll'[v]
  BY <1>6
<1>9. state' \in [Sessions -> States]
  BY <1>1, <1>2 DEF States
<1>10. \A v \in Threads : epoll'[v] \subseteq epoll[v]
  BY <1>6
<1>11. MadeHasLoop'
  BY <1>1, <1>4 DEF ServerInv, MadeHasLoop, Pushed, arrayVars, mainVars
<1>12. Dispatching'
  <2>1. loop[s] # NULL
    BY <1>2
  <2> QED
    BY <1>1, <1>4, <2>1 DEF ServerInv, ServerTypes, Dispatching, mainVars
<1>13. LiveFds'
  BY <1>1, <1>5 DEF ServerInv, LiveFds
<1>14. TableKnown'
  BY <1>1, <1>7 DEF ServerInv, TableKnown
<1>15. EpollKnown'
  <2> SUFFICES ASSUME NEW v \in Threads, NEW t \in Sessions, t \in epoll'[v]
               PROVE  Live(t)' /\ loop[t] = v /\ events'[v][fd[t]] = t
    BY <1>1 DEF EpollKnown
  <2>1. Live(t) /\ loop[t] = v /\ events[v][fd[t]] = t /\ fd[t] \in Fds
    BY <1>10 DEF ServerInv, EpollKnown, LiveFds
  <2>2. t # s
    BY <1>6, <2>1
  <2>3. fd[t] # fd[s]
    BY <1>3, <2>1, <2>2
  <2> QED
    BY <1>5, <1>7, <2>1, <2>2, <2>3
<1>16. \A v \in Threads : wpc'[v] \in Reading =>
         /\ wpc[v] = wpc'[v] /\ wcur'[v] = wcur[v] /\ wcur[v] \in Sessions \ {s}
         /\ Live(wcur[v]) /\ loop[wcur[v]] = v /\ fd[wcur[v]] \notin fired[v]
  BY HeldSession
<1>17. WorkerHolds'
  <2> SUFFICES ASSUME NEW v \in Threads, wpc'[v] \in Reading
               PROVE  Live(wcur[v])' /\ loop[wcur[v]] = v /\ fd[wcur[v]] \notin fired[v]
    BY <1>1, <1>16 DEF WorkerHolds, Live
  <2>1. wcur'[v] = wcur[v] /\ wcur[v] \in Sessions \ {s} /\ Live(wcur[v])
    BY <1>16
  <2>2. state'[wcur'[v]] = state[wcur[v]]
    BY <1>4, <2>1
  <2> QED
    BY <1>16, <2>1, <2>2 DEF Live
<1>18. StopsInTurn'
  BY <1>4 DEF ServerInv, StopsInTurn, mainVars
<1>19. FiredReadable'
  <2> SUFFICES ASSUME NEW v \in Threads, NEW g \in fired[v] \cap Fds, events'[v][g] # NULL,
                      Live(events[v][g])'
               PROVE  events'[v][g] \in input' \cup closed
    BY <1>1 DEF FiredReadable, Live
  <2>1. events'[v][g] = events[v][g] /\ events[v][g] \in Sessions
    BY <1>2, <1>7
  <2>2. events[v][g] # s /\ Live(events[v][g])
    BY <1>4, <2>1 DEF Live
  <2> QED
    BY <1>1, <2>1, <2>2 DEF ServerInv, FiredReadable
<1>20. NoSpuriousRead'
  BY <1>1, <1>16 DEF ServerInv, NoSpuriousRead, Reading
<1>21. ASSUME \A t \in Sessions \ {s}, v \in Threads :
                Msg("ADD", t) \in ToSet(queue[v]) \cup lost =>
                  Msg("ADD", t) \in ToSet(queue'[v]) \cup lost'
       PROVE  RegisteredLive'
  <2> SUFFICES ASSUME ~MaskCleared
               PROVE  /\ \A v \in Threads, g \in Fds : events'[v][g] # NULL =>
                           Live(events[v][g])' /\ events'[v][g] \in epoll'[v]
                      /\ \A t \in Sessions, v \in Threads : Live(t)' /\ loop[t] = v =>
                           Msg("ADD", t) \in ToSet(queue'[v]) \cup lost' \/ events'[v][fd[t]] = t
    BY <1>1 DEF RegisteredLive, MaskCleared, Live
  <2>1. mask[s] = "read"
    BY <1>2 DEF MaskCleared
  <2>2. ASSUME NEW v \in Threads, NEW g \in Fds, events'[v][g] # NULL
        PROVE  Live(events[v][g])' /\ events'[v][g] \in epoll'[v]
    <3>1. events'[v][g] = events[v][g] /\ events[v][g] # NULL
      BY <1>7, <2>2
    <3>2. /\ events[v][g] \in Sessions /\ loop[events[v][g]] = v /\ fd[events[v][g]] = g
          /\ Live(events[v][g]) /\ events[v][g] \in epoll[v]
      BY <3>1, TableSession
    <3>3. events[v][g] # s
      BY <1>7, <2>1, <2>2, <3>2
    <3>4. Live(events[v][g])'
      BY <1>4, <3>1, <3>2, <3>3 DEF Live
    <3> QED
      BY <1>8, <3>1, <3>2, <3>3, <3>4
  <2>3. ASSUME NEW t \in Sessions, NEW v \in Threads, Live(t)', loop[t] = v
        PROVE  Msg("ADD", t) \in ToSet(queue'[v]) \cup lost' \/ events'[v][fd[t]] = t
    <3>1. t # s /\ Live(t) /\ fd[t] \in Fds /\ fd[t] # fd[s]
      BY <1>3, <1>5, <2>3 DEF ServerInv, LiveFds
    <3>2. Msg("ADD", t) \in ToSet(queue[v]) \cup lost \/ events[v][fd[t]] = t
      BY <2>3, <3>1 DEF ServerInv, RegisteredLive
    <3> QED
      BY <1>7, <1>21, <3>1, <3>2
  <2> QED
    BY <2>2, <2>3
<1> QED
  BY <1>1, <1>4, <1>6, <1>7, <1>8, <1>9, <1>10, <1>11, <1>12, <1>13, <1>14, <1>15, <1>17, <1>18,
     <1>19, <1>20, <1>21

\* The end of a disconnect: the session is freed, unless main has marked it meanwhile,
\* which stale indices alone allow.
LEMMA RemoveSessionEventKeeps ==
  ASSUME ServerInv, Running, NEW w \in Threads, removeSessionEvent(w)
  PROVE  ServerInv'
<1> DEFINE s == wcur[w]
<1>1. /\ wpc[w] = "remove" /\ wpc' = [wpc EXCEPT ![w] = "dispatch"]
      /\ wcur' = [wcur EXCEPT ![w] = NULL]
      /\ UNCHANGED <<arrayVars, mainVars, fired, wstate, msgVars>>
      /\ IF state[s] # "connected"
         THEN UNCHANGED <<events, epoll, sessVars, peerVars>>
         ELSE events' = Unregistered(s, w) /\ destroySession(s, w)
  BY DEF removeSessionEvent
<1>2. /\ s \in Sessions /\ Live(s) /\ loop[s] = w /\ fd[s] \notin fired[w]
      /\ \A v \in Threads \ {w} : wpc[v] \in Reading => wcur[v] # s
  BY <1>1, HeldSession DEF Reading
<1>3. \A v \in Threads : \A i \in DOMAIN queue[v] : queue[v][i] # Msg("ADD", s)
  BY <1>1, <1>2 DEF ServerInv, AddPending, Reading
<1>4. ~moved => state[s] = "connected" /\ s \notin Pushed
  BY <1>1 DEF ServerInv, ConnectedOwned, Running
<1> HIDE DEF s
<1>5. /\ wpc \in [Threads -> Places] /\ wcur \in [Threads -> Sessions \cup {NULL}]
  BY DEF ServerInv, ServerTypes, TcpTypeOK
<1>6. /\ wpc'[w] = "dispatch" /\ \A v \in Threads \ {w} : wpc'[v] = wpc[v] /\ wcur'[v] = wcur[v]
      /\ wpc' \in [Threads -> Places] /\ wcur' \in [Threads -> Sessions \cup {NULL}]
  BY <1>1, <1>5 DEF Places
<1>7. \A v \in Threads : wpc'[v] \in Reading => v # w /\ wpc[v] = wpc'[v] /\ wcur'[v] = wcur[v]
  BY <1>6 DEF Reading
<1>8. \A v \in Threads : wpc'[v] \in {"read", "erase", "remove"} => wcur'[v] \in Sessions
  BY <1>7 DEF ServerInv, ServerTypes, TcpTypeOK, Reading
<1>9. AbortOnlyAtStop' /\ NoUseAfterFree'
  BY <1>1, FrameRest DEF Running, arrayVars
<1>10. CASE state[s] # "connected"
  <2>1. UNCHANGED <<events, epoll, sessVars, peerVars>>
    BY <1>1, <1>10
  <2>2. ServerTypes'
    BY <1>1, <1>6, <1>8, <2>1 DEF ServerInv, ServerTypes, TcpTypeOK, arrayVars, mainVars, sessVars, msgVars
  <2>3. WorkerHolds'
    BY <1>1, <1>7, <2>1 DEF ServerInv, WorkerHolds, Live, sessVars
  <2>4. AddPending'
    BY <1>1, <1>7, <2>1 DEF ServerInv, AddPending, Live, sessVars, msgVars
  <2>5. NoSpuriousRead'
    BY <1>7, <2>1 DEF ServerInv, NoSpuriousRead, Reading, peerVars
  <2>6. ConnectedOwned'
    BY <1>1, <1>4, <1>10 DEF ConnectedOwned, arrayVars
  <2> QED
    BY <1>1, <1>9, <2>1, <2>2, <2>3, <2>4, <2>5, <2>6, FrameSessions, FrameQueues, FrameRest
    DEF ServerInv, arrayVars, mainVars, sessVars, msgVars, peerVars
<1>11. CASE state[s] = "connected"
  <2>1. events' = Unregistered(s, w) /\ destroySession(s, w)
    BY <1>1, <1>11
  <2>2. /\ state'[s] = "freed" /\ \A t \in Sessions \ {s} : state'[t] = state[t]
        /\ \A v \in Threads, g \in Fds : events'[v][g] # NULL => events'[v][g] = events[v][g]
        /\ \A v \in Threads : epoll'[v] \subseteq epoll[v]
        /\ \A t \in Sessions \ {s}, v \in Threads : t \in epoll[v] => t \in epoll'[v]
        /\ UNCHANGED <<fd, mask, loop, closed>>
        /\ state' \in [Sessions -> States]
        /\ events' \in [Threads -> [Fds -> Sessions \cup {NULL}]]
        /\ epoll' \in [Threads -> SUBSET Sessions]
        /\ MadeHasLoop' /\ Dispatching' /\ LiveFds' /\ TableKnown' /\ EpollKnown'
        /\ WorkerHolds' /\ StopsInTurn' /\ FiredReadable' /\ NoSpuriousRead'
        /\ RegisteredLive'
    <3>1. /\ UNCHANGED <<arrayVars, mainVars, fired, wstate>>
          /\ \A t \in Sessions \ {s}, v \in Threads :
               Msg("ADD", t) \in ToSet(queue[v]) \cup lost =>
                 Msg("ADD", t) \in ToSet(queue'[v]) \cup lost'
      BY <1>1 DEF msgVars
    <3> QED
      BY <1>2, <1>7, <2>1, <3>1, FreeKeeps
  <2>3. ServerTypes'
    BY <1>1, <1>6, <1>8, <2>2 DEF ServerInv, ServerTypes, TcpTypeOK, arrayVars, mainVars, msgVars
  <2>4. AddPending'
    <3> SUFFICES ASSUME NEW v \in Threads, NEW i \in DOMAIN queue[v], NEW t \in Sessions,
                        queue[v][i] = Msg("ADD", t)
                 PROVE  /\ Live(t)' /\ t \notin epoll'[v] /\ \A f \in Fds : events'[v][f] # t
                        /\ ~(wpc'[v] \in Reading /\ wcur'[v] = t)
      BY <1>1, <2>2 DEF ServerInv, AddPending, msgVars
    <3>1. /\ t # s /\ Live(t) /\ t \notin epoll[v] /\ \A f \in Fds : events[v][f] # t
          /\ ~(wpc[v] \in Reading /\ wcur[v] = t)
      BY <1>3 DEF ServerInv, AddPending
    <3>2. Live(t)'
      BY <2>2, <3>1 DEF Live
    <3>3. t # NULL
      BY FastArrayAssumption DEF Sessions
    <3> QED
      BY <1>7, <2>2, <3>1, <3>2, <3>3
  <2>5. RemovePending'
    BY <1>1, <1>11, <2>2 DEF ServerInv, RemovePending, mainVars, msgVars
  <2>6. RemoveSent'
    BY <1>1, <1>11, <2>2 DEF ServerInv, ServerTypes, RemoveSent, InQueue, Leaked, mainVars, msgVars
  <2>7. FiredWatched'
    <3> SUFFICES ASSUME mpc \in Serving, NEW v \in Threads, NEW f \in fired[v] \cap Fds
                 PROVE  \E t \in epoll'[v] : fd[t] = f
      BY <1>1, <2>2 DEF FiredWatched, mainVars
    <3>1. PICK t \in epoll[v] : fd[t] = f
      BY DEF ServerInv, FiredWatched
    <3>2. t \in Sessions /\ loop[t] = v
      BY <3>1 DEF ServerInv, ServerTypes, TcpTypeOK, EpollKnown
    <3>3. t # s
      BY <1>2, <3>1, <3>2
    <3> QED
      BY <2>2, <3>1, <3>2, <3>3
  <2>8. ConnectedOwned'
    <3> SUFFICES ASSUME crash = "none", ~moved
                 PROVE  /\ \A t \in Pushed : state'[t] = "connected"
                        /\ \A v \in Threads : wpc'[v] = "remove" =>
                             state'[wcur'[v]] = "connected" /\ wcur'[v] \notin Pushed
                        /\ mpc = "stopRemove" =>
                             /\ state'[mcur] = "connected" /\ mcur \notin Pushed
                             /\ \A v \in Threads : ~(wpc'[v] = "remove" /\ wcur'[v] = mcur)
                        /\ \A t \in Sessions : state'[t] = "connected" =>
                             t \in Pushed \/ InWorker(t)' \/ (mpc = "stopRemove" /\ mcur = t)
      BY <1>1 DEF ConnectedOwned, Pushed, arrayVars, mainVars
    <3>1. /\ \A t \in Pushed : t \in Sessions /\ state[t] = "connected"
          /\ \A v \in Threads : wpc[v] = "remove" =>
               state[wcur[v]] = "connected" /\ wcur[v] \notin Pushed
          /\ mpc = "stopRemove" => /\ state[mcur] = "connected" /\ mcur \notin Pushed
                                   /\ \A v \in Threads : ~(wpc[v] = "remove" /\ wcur[v] = mcur)
          /\ \A t \in Sessions : state[t] = "connected" =>
               t \in Pushed \/ InWorker(t) \/ (mpc = "stopRemove" /\ mcur = t)
      BY DEF ServerInv, ConnectedOwned, Pushed, Sessions
    <3>2. \A t \in Pushed : state'[t] = "connected"
      BY <1>4, <2>2, <3>1
    <3>3. \A v \in Threads : wpc'[v] = "remove" =>
            v # w /\ wpc[v] = "remove" /\ wcur'[v] = wcur[v] /\ wcur[v] \in Sessions \ {s}
      BY <1>2, <1>6, <1>8 DEF Reading
    <3>4. mpc = "stopRemove" => mcur \in Sessions \ {s}
      BY <1>1, <3>1 DEF ServerInv, ServerTypes, s
    <3>5. \A t \in Sessions \ {s} : InWorker(t) => InWorker(t)'
      BY <1>6 DEF InWorker, s
    <3> QED
      BY <2>2, <3>1, <3>2, <3>3, <3>4, <3>5
  <2> QED
    BY <1>1, <1>9, <2>2, <2>3, <2>4, <2>5, <2>6, <2>7, <2>8, FrameSessions
    DEF ServerInv, arrayVars
<1> QED
  BY <1>10, <1>11
-----------------------------------------------------------------------------
(* A worker taking its messages *)

\* A pop takes the head and nothing else; what each queue says of a session stays so.
LEMMA PopKeeps ==
  ASSUME ServerInv, NEW w \in Threads, queue[w] # <<>>,
         queue' = [queue EXCEPT ![w] = Tail(@)]
  PROVE  /\ queue' \in [Threads -> Seq(Messages)]
         /\ \A v \in Threads : Len(queue'[v]) <= QueueCap
         /\ Head(queue[w]) \in ToSet(queue[w]) /\ Head(queue[w]) \in Messages
         /\ \A v \in Threads : ToSet(queue'[v]) \subseteq ToSet(queue[v])
         /\ \A v \in Threads : \A i \in DOMAIN queue'[v] : queue'[v][i] \in ToSet(queue[v])
         /\ \A v \in Threads : \A m \in ToSet(queue[v]) :
              m \in ToSet(queue'[v]) \/ (v = w /\ m = Head(queue[w]))
         /\ \A v \in Threads : \A i \in DOMAIN queue'[v] : \A t \in Sessions :
              queue'[v][i] = Msg("ADD", t) =>
                /\ v = w => Head(queue[w]) # Msg("ADD", t)
                /\ \A j \in DOMAIN queue'[v] : queue'[v][j] = Msg("ADD", t) => j = i
         /\ \A v \in Threads : \A i \in DOMAIN queue'[v] : \A t \in Sessions :
              queue'[v][i] = Msg("REMOVE", t) =>
                /\ v = w => Head(queue[w]) # Msg("REMOVE", t)
                /\ \A j \in DOMAIN queue'[v] :
                     /\ queue'[v][j] = Msg("ADD", t) => j < i
                     /\ queue'[v][j] = Msg("REMOVE", t) => j = i
<1>1. /\ queue' \in [Threads -> Seq(Messages)]
      /\ \A v \in Threads : Len(queue'[v]) <= QueueCap
      /\ 1 \in DOMAIN queue[w] /\ Head(queue[w]) = queue[w][1]
      /\ Head(queue[w]) \in Messages
      /\ \A v \in Threads \ {w} : queue'[v] = queue[v]
      /\ \A i \in DOMAIN queue'[w] :
           i \in Nat \ {0} /\ i + 1 \in DOMAIN queue[w] /\ queue'[w][i] = queue[w][i + 1]
      /\ \A i \in DOMAIN queue[w] :
           i # 1 => i - 1 \in DOMAIN queue'[w] /\ queue'[w][i - 1] = queue[w][i]
  BY PopShifts DEF ServerInv
<1>2. /\ \A v \in Threads : ToSet(queue'[v]) \subseteq ToSet(queue[v])
      /\ \A v \in Threads : \A i \in DOMAIN queue'[v] : queue'[v][i] \in ToSet(queue[v])
  BY <1>1 DEF ToSet
<1>3. ASSUME NEW v \in Threads, NEW m \in ToSet(queue[v])
      PROVE  m \in ToSet(queue'[v]) \/ (v = w /\ m = Head(queue[w]))
  <2>1. PICK i \in DOMAIN queue[v] : m = queue[v][i]
    BY DEF ToSet
  <2>2. CASE v # w
    BY <1>1, <2>2
  <2>3. CASE v = w /\ i # 1
    <3>1. i - 1 \in DOMAIN queue'[v] /\ queue'[v][i - 1] = m
      BY <1>1, <2>1, <2>3
    <3> QED
      BY <3>1 DEF ToSet
  <2>4. CASE v = w /\ i = 1
    BY <1>1, <2>1, <2>4
  <2> QED
    BY <2>2, <2>3, <2>4
<1>4. Head(queue[w]) \in ToSet(queue[w])
  BY <1>1 DEF ToSet
<1>5. ASSUME NEW v \in Threads, NEW i \in DOMAIN queue'[v], NEW t \in Sessions,
             queue'[v][i] = Msg("ADD", t)
      PROVE  /\ v = w => Head(queue[w]) # Msg("ADD", t)
             /\ \A j \in DOMAIN queue'[v] : queue'[v][j] = Msg("ADD", t) => j = i
  <2>1. CASE v # w
    BY <1>1, <1>5, <2>1 DEF ServerInv, AddPending
  <2>2. CASE v = w
    <3>1. i + 1 \in DOMAIN queue[w] /\ queue[w][i + 1] = Msg("ADD", t) /\ i \in Nat \ {0}
      BY <1>1, <1>5, <2>2
    <3>2. \A j \in DOMAIN queue[w] : queue[w][j] = Msg("ADD", t) => j = i + 1
      BY <3>1 DEF ServerInv, AddPending
    <3> QED
      BY <1>1, <2>2, <3>1, <3>2
  <2> QED
    BY <2>1, <2>2
<1>6. ASSUME NEW v \in Threads, NEW i \in DOMAIN queue'[v], NEW t \in Sessions,
             queue'[v][i] = Msg("REMOVE", t)
      PROVE  /\ v = w => Head(queue[w]) # Msg("REMOVE", t)
             /\ \A j \in DOMAIN queue'[v] : /\ queue'[v][j] = Msg("ADD", t) => j < i
                                            /\ queue'[v][j] = Msg("REMOVE", t) => j = i
  <2>1. CASE v # w
    BY <1>1, <1>6, <2>1 DEF ServerInv, RemovePending
  <2>2. CASE v = w
    <3>1. i + 1 \in DOMAIN queue[w] /\ queue[w][i + 1] = Msg("REMOVE", t) /\ i \in Nat \ {0}
      BY <1>1, <1>6, <2>2
    <3>2. \A j \in DOMAIN queue[w] : /\ queue[w][j] = Msg("ADD", t) => j < i + 1
                                     /\ queue[w][j] = Msg("REMOVE", t) => j = i + 1
      BY <3>1 DEF ServerInv, RemovePending
    <3> QED
      BY <1>1, <2>2, <3>1, <3>2
  <2> QED
    BY <2>1, <2>2
<1> QED
  BY <1>1, <1>2, <1>3, <1>4, <1>5, <1>6

\* What a pending ADD says.
LEMMA Pending ==
  ASSUME ServerInv, NEW w \in Threads, NEW s \in Sessions
  PROVE  /\ Msg("ADD", s) \in ToSet(queue[w]) =>
              /\ Live(s) /\ loop[s] = w /\ fd[s] \notin fired[w]
              /\ s \notin epoll[w] /\ \A f \in Fds : events[w][f] # s
              /\ ~(wpc[w] \in Reading /\ wcur[w] = s)
         /\ Msg("REMOVE", s) \in ToSet(queue[w]) =>
              /\ state[s] = "disconnecting" /\ loop[s] = w
              /\ Msg("REMOVE", s) \notin lost
              /\ ~(mpc = "stopPush" /\ mcur = s)
BY DEF ServerInv, AddPending, RemovePending, ToSet

\* A worker hears of a session: its descriptor is free in ae's table, unless a partial
\* write left a dead registration there.
LEMMA DrainAddKeeps ==
  ASSUME ServerInv, Running, NEW w \in Threads, drainAdd(w)
  PROVE  ServerInv'
<1> DEFINE h == Head(queue[w])
           s == h.session
<1>1. /\ queue[w] # <<>> /\ h.type = "ADD" /\ queue' = [queue EXCEPT ![w] = Tail(@)]
      /\ UNCHANGED <<arrayItem, tail, capacity, arrayIndex, moved, mainVars, state, fd, mask,
                     fired, wpc, wcur, wstate, peerVars>>
  BY DEF drainAdd
<1>2. IF ~Live(s) THEN crash' = "freed" /\ UNCHANGED <<loop, events, epoll, lost>>
      ELSE /\ loop' = [loop EXCEPT ![s] = w]
           /\ \/ /\ mask[s] = "read" /\ (events[w][fd[s]] # NULL => s \in epoll[w])
                 /\ events' = [events EXCEPT ![w][fd[s]] = s]
                 /\ epoll' = [epoll EXCEPT ![w] = @ \cup {s}]
                 /\ UNCHANGED lost
              \/ lost' = lost \cup {h} /\ UNCHANGED <<events, epoll>>
              \/ mask[s] # "read" /\ UNCHANGED <<events, epoll, lost>>
           /\ UNCHANGED crash
  BY DEF drainAdd
<1>3. h = Msg("ADD", s) /\ s \in Sessions /\ h \in ToSet(queue[w])
  BY <1>1, PopKeeps, MessageIs
<1>4. /\ Live(s) /\ loop[s] = w /\ fd[s] \notin fired[w]
      /\ s \notin epoll[w] /\ \A f \in Fds : events[w][f] # s
      /\ ~(wpc[w] \in Reading /\ wcur[w] = s)
  BY <1>3, Pending
<1>5. /\ queue' \in [Threads -> Seq(Messages)]
      /\ \A v \in Threads : Len(queue'[v]) <= QueueCap
      /\ \A v \in Threads : \A i \in DOMAIN queue'[v] : queue'[v][i] \in ToSet(queue[v])
      /\ \A v \in Threads : \A m \in ToSet(queue[v]) : m \in ToSet(queue'[v]) \/ (v = w /\ m = h)
      /\ \A v \in Threads : \A i \in DOMAIN queue'[v] : \A t \in Sessions :
           queue'[v][i] = Msg("ADD", t) =>
             /\ v = w => h # Msg("ADD", t)
             /\ \A j \in DOMAIN queue'[v] : queue'[v][j] = Msg("ADD", t) => j = i
      /\ \A v \in Threads : \A i \in DOMAIN queue'[v] : \A t \in Sessions :
           queue'[v][i] = Msg("REMOVE", t) =>
             /\ v = w => h # Msg("REMOVE", t)
             /\ \A j \in DOMAIN queue'[v] :
                  /\ queue'[v][j] = Msg("ADD", t) => j < i
                  /\ queue'[v][j] = Msg("REMOVE", t) => j = i
  BY <1>1, PopKeeps
<1> HIDE DEF h, s
<1>6. /\ loop \in [Sessions -> Threads \cup {NULL}] /\ epoll \in [Threads -> SUBSET Sessions]
      /\ events \in [Threads -> [Fds -> Sessions \cup {NULL}]] /\ NULL \notin Sessions
      /\ mask \in [Sessions -> {"read", "none"}]
  BY FastArrayAssumption DEF ServerInv, ServerTypes, TcpTypeOK, Sessions
<1>7. fd[s] \in Fds /\ \A t \in Sessions : Live(t) /\ fd[t] = fd[s] => t = s
  BY <1>3, <1>4 DEF ServerInv, LiveFds
<1>8. loop' = loop /\ crash' = crash
  BY <1>2, <1>3, <1>4, <1>6
<1>9. \A t \in Sessions : Live(t)' <=> Live(t)
  BY <1>1 DEF Live
<1>10. /\ \/ /\ events' = [events EXCEPT ![w] = [events[w] EXCEPT ![fd[s]] = s]]
             /\ epoll' = [epoll EXCEPT ![w] = @ \cup {s}]
          \/ /\ mask[s] # "read" \/ h \in lost'
             /\ events' = events /\ epoll' = epoll
       /\ lost' = lost \/ lost' = lost \cup {h}
  BY <1>2, <1>4
<1>11. /\ \A v \in Threads, g \in Fds : v # w \/ g # fd[s] => events'[v][g] = events[v][g]
       /\ events'[w][fd[s]] = s \/ events'[w][fd[s]] = events[w][fd[s]]
       /\ \A v \in Threads \ {w} : epoll'[v] = epoll[v]
       /\ \/ epoll'[w] = epoll[w]
          \/ epoll'[w] = epoll[w] \cup {s} /\ events'[w][fd[s]] = s
       /\ events' \in [Threads -> [Fds -> Sessions \cup {NULL}]]
       /\ epoll' \in [Threads -> SUBSET Sessions]
       /\ events'[w][fd[s]] = s => s \in epoll'[w]
       /\ events'[w][fd[s]] # s => mask[s] # "read" \/ h \in lost'
  <2>1. CASE /\ events' = [events EXCEPT ![w] = [events[w] EXCEPT ![fd[s]] = s]]
             /\ epoll' = [epoll EXCEPT ![w] = @ \cup {s}]
    <3>1. [events[w] EXCEPT ![fd[s]] = s] \in [Fds -> Sessions \cup {NULL}]
      BY <1>3, <1>6
    <3>2. events'[w] = [events[w] EXCEPT ![fd[s]] = s] /\ \A v \in Threads \ {w} : events'[v] = events[v]
      BY <1>6, <2>1
    <3>3. events' \in [Threads -> [Fds -> Sessions \cup {NULL}]]
      BY <1>6, <2>1, <3>1
    <3>4. events[w] \in [Fds -> Sessions \cup {NULL}]
      BY <1>6
    <3>5. events'[w][fd[s]] = s /\ \A g \in Fds : g # fd[s] => events'[w][g] = events[w][g]
      BY <1>7, <3>2, <3>4
    <3>6. /\ epoll'[w] = epoll[w] \cup {s} /\ \A v \in Threads \ {w} : epoll'[v] = epoll[v]
          /\ epoll' \in [Threads -> SUBSET Sessions]
      BY <1>3, <1>6, <2>1
    <3> QED
      BY <2>1, <3>2, <3>3, <3>5, <3>6
  <2>2. CASE /\ mask[s] # "read" \/ h \in lost'
             /\ events' = events /\ epoll' = epoll
    BY <1>4, <1>6, <1>7, <2>2
  <2> QED
    BY <1>10, <2>1, <2>2
<1>12. /\ \A v \in Threads : epoll[v] \subseteq epoll'[v]
       /\ lost \subseteq lost'
       /\ \A t \in Sessions : Msg("REMOVE", t) # h
       /\ \A t \in Sessions : Msg("REMOVE", t) \in lost' <=> Msg("REMOVE", t) \in lost
  BY <1>3, <1>10, <1>11, MsgIs
<1>13. ServerTypes'
  BY <1>1, <1>5, <1>8, <1>11 DEF ServerInv, ServerTypes, TcpTypeOK, mainVars
<1>14. TableKnown'
  BY <1>1, <1>4, <1>8, <1>11 DEF ServerInv, TableKnown
<1>15. EpollKnown'
  <2> SUFFICES ASSUME NEW v \in Threads, NEW t \in Sessions, t \in epoll'[v]
               PROVE  Live(t) /\ loop[t] = v /\ events'[v][fd[t]] = t
    BY <1>1, <1>8, <1>9 DEF EpollKnown
  <2>1. CASE t \in epoll[v]
    <3>1. Live(t) /\ loop[t] = v /\ events[v][fd[t]] = t /\ fd[t] \in Fds
      BY <2>1 DEF ServerInv, EpollKnown, LiveFds
    <3>2. v = w => fd[t] # fd[s]
      BY <1>4, <1>7, <2>1, <3>1
    <3> QED
      BY <1>11, <3>1, <3>2
  <2>2. CASE t \notin epoll[v]
    BY <1>4, <1>11, <2>2
  <2> QED
    BY <2>1, <2>2
<1>16. AddPending'
  <2> SUFFICES ASSUME NEW v \in Threads, NEW i \in DOMAIN queue'[v], NEW t \in Sessions,
                      queue'[v][i] = Msg("ADD", t)
               PROVE  /\ Live(t) /\ loop[t] = v /\ fd[t] \notin fired[v]
                      /\ t \notin epoll'[v] /\ \A f \in Fds : events'[v][f] # t
                      /\ ~(wpc[v] \in Reading /\ wcur[v] = t)
                      /\ \A j \in DOMAIN queue'[v] : queue'[v][j] = Msg("ADD", t) => j = i
    BY <1>1, <1>8, <1>9 DEF AddPending
  <2>1. Msg("ADD", t) \in ToSet(queue[v])
    BY <1>5
  <2>2. v = w => t # s
    BY <1>3, <1>5
  <2>3. /\ Live(t) /\ loop[t] = v /\ fd[t] \notin fired[v]
        /\ t \notin epoll[v] /\ \A f \in Fds : events[v][f] # t
        /\ ~(wpc[v] \in Reading /\ wcur[v] = t)
    BY <2>1, Pending
  <2>4. t \notin epoll'[v] /\ \A f \in Fds : events'[v][f] # t
    BY <1>11, <2>2, <2>3
  <2> QED
    BY <1>5, <2>3, <2>4
<1>17. RemovePending'
  <2> SUFFICES ASSUME NEW v \in Threads, NEW i \in DOMAIN queue'[v], NEW t \in Sessions,
                      queue'[v][i] = Msg("REMOVE", t)
               PROVE  /\ state[t] = "disconnecting" /\ loop[t] = v
                      /\ Msg("REMOVE", t) \notin lost
                      /\ ~(mpc = "stopPush" /\ mcur = t)
    BY <1>1, <1>5, <1>8, <1>12 DEF RemovePending, mainVars
  <2>1. Msg("REMOVE", t) \in ToSet(queue[v])
    BY <1>5
  <2> QED
    BY <2>1, Pending
<1>18. RemoveSent'
  <2>1. \A t \in Sessions : InQueue(t) => InQueue(t)'
    BY <1>5, <1>12 DEF InQueue
  <2> QED
    BY <1>1, <1>12, <2>1 DEF ServerInv, ServerTypes, RemoveSent, Leaked, mainVars
<1>19. FiredWatched'
  BY <1>1, <1>12 DEF ServerInv, FiredWatched, mainVars
<1>20. FiredReadable'
  <2> SUFFICES ASSUME NEW v \in Threads, NEW g \in fired[v] \cap Fds, events'[v][g] # NULL,
                      Live(events[v][g])'
               PROVE  events'[v][g] \in input \cup closed
    BY <1>1 DEF FiredReadable, Live, peerVars
  <2>1. events'[v][g] = events[v][g]
    BY <1>4, <1>11
  <2>2. events[v][g] \in Sessions /\ Live(events[v][g])
    BY <1>1, <1>6, <2>1 DEF Live
  <2> QED
    BY <2>1, <2>2 DEF ServerInv, FiredReadable
<1>21. RegisteredLive'
  <2> SUFFICES ASSUME ~MaskCleared
               PROVE  /\ \A v \in Threads, g \in Fds : events'[v][g] # NULL =>
                            Live(events[v][g])' /\ events'[v][g] \in epoll'[v]
                      /\ \A t \in Sessions, v \in Threads : Live(t) /\ loop[t] = v =>
                           Msg("ADD", t) \in ToSet(queue'[v]) \cup lost' \/ events'[v][fd[t]] = t
    BY <1>1, <1>8, <1>9 DEF RegisteredLive, MaskCleared
  <2>1. \A v \in Threads, g \in Fds : events[v][g] # NULL =>
          /\ events[v][g] \in Sessions /\ Live(events[v][g]) /\ events[v][g] \in epoll[v]
          /\ loop[events[v][g]] = v /\ fd[events[v][g]] = g
    BY TableSession
  <2>2. events[w][fd[s]] = NULL
    BY <1>4, <1>7, <2>1
  <2>3. (events'[w][fd[s]] = s /\ s \in epoll'[w]) \/ (events'[w][fd[s]] = NULL /\ h \in lost')
    BY <1>3, <1>6, <1>11, <2>2 DEF MaskCleared
  <2>4. ASSUME NEW v \in Threads, NEW g \in Fds, events'[v][g] # NULL
        PROVE  Live(events[v][g])' /\ events'[v][g] \in epoll'[v]
    <3>1. CASE v = w /\ g = fd[s]
      <4>1. events'[v][g] = s /\ s \in epoll'[v]
        BY <2>3, <2>4, <3>1
      <4> QED
        BY <1>1, <1>4, <4>1 DEF Live
    <3>2. CASE v # w \/ g # fd[s]
      <4>1. events'[v][g] = events[v][g] /\ Live(events[v][g]) /\ events[v][g] \in epoll[v]
        BY <1>11, <2>1, <2>4, <3>2
      <4>2. Live(events[v][g])'
        BY <1>1, <4>1 DEF Live
      <4> QED
        BY <1>12, <4>1, <4>2
    <3> QED
      BY <3>1, <3>2
  <2>5. ASSUME NEW t \in Sessions, NEW v \in Threads, Live(t), loop[t] = v
        PROVE  Msg("ADD", t) \in ToSet(queue'[v]) \cup lost' \/ events'[v][fd[t]] = t
    <3>1. CASE t = s
      BY <1>3, <1>4, <2>3, <2>5, <3>1
    <3>2. CASE t # s
      <4>1. fd[t] \in Fds /\ fd[t] # fd[s]
        BY <1>7, <2>5, <3>2 DEF ServerInv, LiveFds
      <4>2. Msg("ADD", t) # h
        BY <1>3, <3>2, MsgIs
      <4>3. Msg("ADD", t) \in ToSet(queue[v]) \cup lost \/ events[v][fd[t]] = t
        BY <2>5 DEF ServerInv, RegisteredLive
      <4> QED
        BY <1>5, <1>11, <1>12, <4>1, <4>2, <4>3
    <3> QED
      BY <3>1, <3>2
  <2> QED
    BY <2>4, <2>5
<1> QED
  BY <1>1, <1>8, <1>13, <1>14, <1>15, <1>16, <1>17, <1>18, <1>19, <1>20, <1>21,
     FrameSessions, FrameQueues, FrameRest
  DEF ServerInv, mainVars, peerVars

\* A REMOVE frees its session: its ADD was handled before, so ae has no message of it left.
LEMMA DrainRemoveKeeps ==
  ASSUME ServerInv, Running, NEW w \in Threads, drainRemove(w)
  PROVE  ServerInv'
<1> DEFINE h == Head(queue[w])
           s == h.session
<1>1. /\ wpc[w] = "drain" /\ queue[w] # <<>> /\ h.type = "REMOVE"
      /\ queue' = [queue EXCEPT ![w] = Tail(@)]
      /\ UNCHANGED <<arrayItem, tail, capacity, arrayIndex, moved, mainVars,
                     fired, wpc, wcur, wstate, lost>>
      /\ Live(s) => events' = Unregistered(s, w) /\ destroySession(s, w) /\ crash' = crash
  BY DEF drainRemove
<1>2. h = Msg("REMOVE", s) /\ s \in Sessions /\ h \in ToSet(queue[w])
  BY <1>1, PopKeeps, MessageIs
<1>3. /\ state[s] = "disconnecting" /\ loop[s] = w /\ Msg("REMOVE", s) \notin lost
      /\ ~(mpc = "stopPush" /\ mcur = s)
  BY <1>2, Pending
<1>4. \A v \in Threads : Msg("ADD", s) \notin ToSet(queue[v])
  <2>1. \A v \in Threads : Msg("ADD", s) \in ToSet(queue[v]) => v = w
    BY <1>2, <1>3, Pending
  <2>2. Msg("ADD", s) \notin ToSet(queue[w])
    <3>1. 1 \in DOMAIN queue[w] /\ queue[w][1] = Msg("REMOVE", s)
      BY <1>1, <1>2, PopShifts DEF ServerInv
    <3>2. \A j \in DOMAIN queue[w] : queue[w][j] = Msg("ADD", s) => j < 1
      BY <1>2, <3>1 DEF ServerInv, RemovePending
    <3>3. queue[w] \in Seq(Messages)
      BY DEF ServerInv, ServerTypes
    <3>4. \A j \in DOMAIN queue[w] : ~(j < 1)
      BY <3>3
    <3> QED
      BY <3>2, <3>4 DEF ToSet
  <2> QED
    BY <2>1, <2>2
<1>5. /\ queue' \in [Threads -> Seq(Messages)]
      /\ \A v \in Threads : Len(queue'[v]) <= QueueCap
      /\ \A v \in Threads : \A i \in DOMAIN queue'[v] : queue'[v][i] \in ToSet(queue[v])
      /\ \A v \in Threads : \A m \in ToSet(queue[v]) : m \in ToSet(queue'[v]) \/ (v = w /\ m = h)
      /\ \A v \in Threads : \A i \in DOMAIN queue'[v] : \A t \in Sessions :
           queue'[v][i] = Msg("ADD", t) =>
             /\ v = w => h # Msg("ADD", t)
             /\ \A j \in DOMAIN queue'[v] : queue'[v][j] = Msg("ADD", t) => j = i
      /\ \A v \in Threads : \A i \in DOMAIN queue'[v] : \A t \in Sessions :
           queue'[v][i] = Msg("REMOVE", t) =>
             /\ v = w => h # Msg("REMOVE", t)
             /\ \A j \in DOMAIN queue'[v] :
                  /\ queue'[v][j] = Msg("ADD", t) => j < i
                  /\ queue'[v][j] = Msg("REMOVE", t) => j = i
  BY <1>1, PopKeeps
<1> HIDE DEF h, s
<1>6. \A t \in Sessions : Msg("ADD", t) # h /\ (Msg("REMOVE", t) = h => t = s)
  BY <1>2, MsgIs
<1>7. events' = Unregistered(s, w) /\ destroySession(s, w) /\ crash' = crash
  BY <1>1, <1>3 DEF Live
<1>8. /\ UNCHANGED <<arrayVars, mainVars, fired, wstate>>
      /\ \A v \in Threads : wpc'[v] \in Reading =>
           v # w /\ wpc[v] = wpc'[v] /\ wcur'[v] = wcur[v]
      /\ \A t \in Sessions \ {s}, v \in Threads :
           Msg("ADD", t) \in ToSet(queue[v]) \cup lost =>
             Msg("ADD", t) \in ToSet(queue'[v]) \cup lost'
  BY <1>1, <1>5, <1>6, <1>7 DEF Reading, arrayVars
<1>9. /\ state'[s] = "freed" /\ \A t \in Sessions \ {s} : state'[t] = state[t]
      /\ \A v \in Threads, g \in Fds : events'[v][g] # NULL => events'[v][g] = events[v][g]
      /\ \A v \in Threads : epoll'[v] \subseteq epoll[v]
      /\ UNCHANGED <<fd, mask, loop, closed>>
      /\ state' \in [Sessions -> States]
      /\ events' \in [Threads -> [Fds -> Sessions \cup {NULL}]]
      /\ epoll' \in [Threads -> SUBSET Sessions]
      /\ MadeHasLoop' /\ Dispatching' /\ LiveFds' /\ TableKnown' /\ EpollKnown'
      /\ WorkerHolds' /\ StopsInTurn' /\ FiredReadable' /\ NoSpuriousRead'
      /\ RegisteredLive'
  <2>1. Live(s)
    BY <1>3 DEF Live
  <2> QED
    BY <1>2, <1>3, <1>7, <1>8, <2>1, FreeKeeps
<1>10. ServerTypes'
  BY <1>1, <1>5, <1>7, <1>9 DEF ServerInv, ServerTypes, TcpTypeOK, mainVars
<1>11. AddPending'
  <2> SUFFICES ASSUME NEW v \in Threads, NEW i \in DOMAIN queue'[v], NEW t \in Sessions,
                      queue'[v][i] = Msg("ADD", t)
               PROVE  /\ Live(t)' /\ loop[t] = v /\ fd[t] \notin fired[v]
                      /\ t \notin epoll'[v] /\ \A f \in Fds : events'[v][f] # t
                      /\ ~(wpc[v] \in Reading /\ wcur[v] = t)
    BY <1>1, <1>5, <1>9 DEF AddPending
  <2>1. Msg("ADD", t) \in ToSet(queue[v])
    BY <1>5
  <2>2. /\ t # s /\ Live(t) /\ loop[t] = v /\ fd[t] \notin fired[v]
        /\ t \notin epoll[v] /\ \A f \in Fds : events[v][f] # t
        /\ ~(wpc[v] \in Reading /\ wcur[v] = t)
    BY <1>4, <2>1, Pending
  <2>3. Live(t)'
    BY <1>9, <2>2 DEF Live
  <2>4. t # NULL
    BY FastArrayAssumption DEF Sessions
  <2> QED
    BY <1>9, <2>2, <2>3, <2>4
<1>12. RemovePending'
  <2> SUFFICES ASSUME NEW v \in Threads, NEW i \in DOMAIN queue'[v], NEW t \in Sessions,
                      queue'[v][i] = Msg("REMOVE", t)
               PROVE  /\ state'[t] = "disconnecting" /\ loop[t] = v
                      /\ Msg("REMOVE", t) \notin lost
                      /\ ~(mpc = "stopPush" /\ mcur = t)
    BY <1>1, <1>5, <1>9 DEF RemovePending, mainVars
  <2>1. Msg("REMOVE", t) \in ToSet(queue[v])
    BY <1>5
  <2>2. /\ state[t] = "disconnecting" /\ loop[t] = v
        /\ Msg("REMOVE", t) \notin lost /\ ~(mpc = "stopPush" /\ mcur = t)
    BY <2>1, Pending
  <2>3. t # s
    BY <1>2, <1>3, <1>5, <2>2
  <2> QED
    BY <1>9, <2>2, <2>3
<1>13. RemoveSent'
  <2>1. \A t \in Sessions \ {s} : InQueue(t) => InQueue(t)'
    BY <1>5, <1>6 DEF InQueue
  <2>2. mpc = "stopPush" => mcur \in Sessions \ {s}
    BY <1>3 DEF ServerInv, ServerTypes
  <2> QED
    BY <1>1, <1>3, <1>9, <2>1, <2>2 DEF ServerInv, RemoveSent, Leaked, mainVars
<1>14. FiredWatched'
  <2>1. mpc \notin Serving
    BY <1>2, <1>3 DEF ServerInv, StopsInTurn
  <2> QED
    BY <1>1, <2>1 DEF FiredWatched, mainVars
<1>15. ConnectedOwned'
  <2> SUFFICES ASSUME crash = "none", ~moved
               PROVE  /\ \A t \in Pushed : state'[t] = "connected"
                      /\ \A v \in Threads : wpc[v] = "remove" =>
                           state'[wcur[v]] = "connected" /\ wcur[v] \notin Pushed
                      /\ mpc = "stopRemove" =>
                           /\ state'[mcur] = "connected" /\ mcur \notin Pushed
                           /\ \A v \in Threads : ~(wpc[v] = "remove" /\ wcur[v] = mcur)
                      /\ \A t \in Sessions : state'[t] = "connected" =>
                           t \in Pushed \/ InWorker(t) \/ (mpc = "stopRemove" /\ mcur = t)
    BY <1>1, <1>7 DEF ConnectedOwned, InWorker, Pushed, mainVars
  <2>1. /\ \A t \in Pushed : t \in Sessions /\ state[t] = "connected"
        /\ \A v \in Threads : wpc[v] = "remove" =>
             wcur[v] \in Sessions /\ state[wcur[v]] = "connected" /\ wcur[v] \notin Pushed
        /\ mpc = "stopRemove" => /\ mcur \in Sessions /\ state[mcur] = "connected" /\ mcur \notin Pushed
                                 /\ \A v \in Threads : ~(wpc[v] = "remove" /\ wcur[v] = mcur)
        /\ \A t \in Sessions : state[t] = "connected" =>
             t \in Pushed \/ InWorker(t) \/ (mpc = "stopRemove" /\ mcur = t)
    BY DEF ServerInv, ServerTypes, TcpTypeOK, ConnectedOwned, Pushed, Sessions
  <2> QED
    BY <1>3, <1>9, <2>1
<1>16. AbortOnlyAtStop' /\ NoUseAfterFree'
  BY <1>7, FrameRest DEF Running
<1> QED
  BY <1>1, <1>9, <1>10, <1>11, <1>12, <1>13, <1>14, <1>15, <1>16, FrameSessions
  DEF ServerInv
-----------------------------------------------------------------------------
LEMMA NextKeeps ==
  ASSUME ServerInv, [Next]_vars
  PROVE  ServerInv'
<1>1. CASE UNCHANGED vars
  BY <1>1, StutterKeeps
<1>2. CASE acceptStep
  BY <1>2, GetSessionKeeps, AcceptErrorKeeps, StopStepsKeep DEF acceptStep
<1>3. CASE mainStep
  BY <1>3, DispatchSessionKeeps, StopEraseKeeps, StopRemoveKeeps, StopPushKeeps, StopStepsKeep
  DEF mainStep
<1>4. CASE peerStep
  BY <1>4, PeerKeeps DEF peerStep
<1>5. ASSUME NEW w \in Threads, workerStep(w)
      PROVE  ServerInv'
  <2>1. Running
    BY <1>5 DEF workerStep
  <2>2. CASE poll(w) \/ batchDone(w) \/ callPop(w) \/ drainDone(w)
    BY <2>1, <2>2, PollKeeps, BatchDoneKeeps, CallPopKeeps, DrainDoneKeeps
  <2>3. CASE drainAdd(w) \/ drainRemove(w)
    BY <2>1, <2>3, DrainAddKeeps, DrainRemoveKeeps
  <2>4. CASE readData(w) \/ readNothing(w) \/ tcpServerDisConnection(w) \/ removeSessionEvent(w)
    BY <2>1, <2>4, ReadStepsKeep, DisConnectionKeeps, RemoveSessionEventKeeps
  <2>5. CASE \E f \in Fds : skipStale(w, f) \/ callRead(w, f)
    BY <2>1, <2>5, SkipStaleKeeps, CallReadKeeps
  <2> QED
    BY <1>5, <2>2, <2>3, <2>4, <2>5 DEF workerStep
<1>6. ASSUME NEW w \in Threads, cronStep(w)
      PROVE  ServerInv'
  BY <1>6, CronStopKeeps DEF cronStep
<1> QED
  BY <1>1, <1>2, <1>3, <1>4, <1>5, <1>6 DEF Next

THEOREM ServerInvariant == SafeSpec => []ServerInv
<1>1. Init => ServerInv
  BY InitServerInv
<1>2. ServerInv /\ [Next]_vars => ServerInv'
  BY NextKeeps
<1> QED
  BY <1>1, <1>2, PTL DEF SafeSpec

\* The states that TLC visits are of these types for any size of the server.
THEOREM ServerTypesHold == SafeSpec => []TcpTypeOK
<1>1. ServerInv => TcpTypeOK
  BY DEF ServerInv, ServerTypes
<1> QED
  BY <1>1, ServerInvariant, PTL

\* Slots and indices of the shared array name each other until an erase fills a hole.
THEOREM ArrayConsistent == SafeSpec => []ConsistentUntilMove
<1>1. ServerInv => ConsistentUntilMove
  BY DEF ServerInv, ArrayShape
<1> QED
  BY <1>1, ServerInvariant, PTL

\* While indices are right, an index assertion fails only at stop.
THEOREM AbortsOnlyAtStop == SafeSpec => []AbortOnlyAtStop
<1>1. ServerInv => AbortOnlyAtStop
  BY DEF ServerInv
<1> QED
  BY <1>1, ServerInvariant, PTL

\* While indices are right and no write was partial, no freed session is used.
THEOREM NoSessionUsedAfterFree == SafeSpec => []NoUseAfterFree
<1>1. ServerInv => NoUseAfterFree
  BY DEF ServerInv
<1> QED
  BY <1>1, ServerInvariant, PTL

\* onReadSession always finds data or the end of the stream.
THEOREM ReadsAreWanted == SafeSpec => []NoSpuriousRead
<1>1. ServerInv => NoSpuriousRead
  BY DEF ServerInv
<1> QED
  BY <1>1, ServerInvariant, PTL

\* ae's tables are of the live sessions, and every live session is heard.
THEOREM TablesCurrent == SafeSpec => []RegistrationsCurrent
<1>1. ServerInv => RegistrationsCurrent
  <2> SUFFICES ASSUME ServerInv, ~MaskCleared
               PROVE  /\ \A w \in Threads, f \in Fds : events[w][f] # NULL =>
                           /\ Live(events[w][f]) /\ fd[events[w][f]] = f
                           /\ loop[events[w][f]] = w /\ events[w][f] \in epoll[w]
                      /\ \A s \in Sessions, w \in Threads : Live(s) /\ loop[s] = w =>
                           \/ Msg("ADD", s) \in ToSet(queue[w]) \cup lost
                           \/ events[w][fd[s]] = s
    BY DEF RegistrationsCurrent
  <2>1. \A w \in Threads, f \in Fds : events[w][f] # NULL =>
          /\ Live(events[w][f]) /\ fd[events[w][f]] = f
          /\ loop[events[w][f]] = w /\ events[w][f] \in epoll[w]
    BY TableSession
  <2>2. \A s \in Sessions, w \in Threads : Live(s) /\ loop[s] = w =>
          Msg("ADD", s) \in ToSet(queue[w]) \cup lost \/ events[w][fd[s]] = s
    BY DEF ServerInv, RegisteredLive
  <2> QED
    BY <2>1, <2>2
<1> QED
  BY <1>1, ServerInvariant, PTL

\* With right indices the slots in use hold exactly the items pushed.
LEMMA InArrayIsPushed ==
  ASSUME ServerInv, ~moved, NEW s \in Sessions
  PROVE  InArray(s) <=> s \in Pushed
<1>1. /\ tail \in Nat /\ arrayIndex \in [Items -> -1 .. capacity - 1] /\ capacity \in Nat
      /\ \A o \in Pushed : arrayIndex[o] < tail /\ arrayItem[arrayIndex[o]] = o
      /\ \A i \in 0 .. tail - 1 : arrayItem[i] \in Items /\ arrayIndex[arrayItem[i]] = i
  BY DEF ServerInv, ArrayShape, ConsistentUntilMove
<1>2. InArray(s) => s \in Pushed
  BY <1>1 DEF InArray, Pushed, Sessions
<1>3. ASSUME s \in Pushed
      PROVE  InArray(s)
  <2>1. arrayIndex[s] \in 0 .. tail - 1 /\ arrayItem[arrayIndex[s]] = s
    BY <1>1, <1>3 DEF Pushed
  <2> QED
    BY <2>1 DEF InArray
<1> QED
  BY <1>2, <1>3

LEMMA OneOwner ==
  ASSUME ServerInv, crash = "none", ~moved, NEW s \in Sessions
  PROVE  /\ Live(s) => \E o : OwnersOf(s) = {o}
         /\ ~Live(s) => OwnersOf(s) = {}
<1>1. InArray(s) => state[s] = "connected"
  BY InArrayIsPushed DEF ServerInv, ConnectedOwned
<1>2. InWorker(s) => state[s] = "connected" /\ ~InArray(s)
  BY InArrayIsPushed DEF ServerInv, ConnectedOwned, InWorker
<1>3. mpc = "stopRemove" /\ mcur = s =>
        state[s] = "connected" /\ ~InArray(s) /\ ~InWorker(s)
  BY InArrayIsPushed DEF ServerInv, ConnectedOwned, InWorker
<1>4. mpc = "stopPush" /\ mcur = s => state[s] = "disconnecting"
  BY DEF ServerInv, RemoveSent
<1>5. InQueue(s) => /\ state[s] = "disconnecting" /\ ~Leaked(s)
                    /\ ~(mpc = "stopPush" /\ mcur = s)
  BY Pending DEF InQueue, Leaked
<1>6. Leaked(s) => state[s] = "disconnecting" /\ ~(mpc = "stopPush" /\ mcur = s)
  BY DEF ServerInv, RemoveSent, Leaked
<1>7. state[s] = "connected" =>
        InArray(s) \/ InWorker(s) \/ (mpc = "stopRemove" /\ mcur = s)
  BY InArrayIsPushed DEF ServerInv, ConnectedOwned
<1>8. state[s] = "disconnecting" =>
        (mpc = "stopPush" /\ mcur = s) \/ InQueue(s) \/ Leaked(s)
  BY DEF ServerInv, RemoveSent
<1>9. CASE state[s] = "connected"
  <2>1. ~InQueue(s) /\ ~Leaked(s) /\ (InMain(s) <=> mpc = "stopRemove" /\ mcur = s) /\ Live(s)
    BY <1>4, <1>5, <1>6, <1>9 DEF InMain, Live
  <2>2. CASE InArray(s)
    BY <1>2, <1>3, <2>1, <2>2 DEF OwnersOf
  <2>3. CASE InWorker(s)
    BY <1>2, <1>3, <2>1, <2>3 DEF OwnersOf
  <2>4. CASE mpc = "stopRemove" /\ mcur = s
    BY <1>3, <2>1, <2>4 DEF OwnersOf
  <2> QED
    BY <1>7, <1>9, <2>2, <2>3, <2>4
<1>10. CASE state[s] = "disconnecting"
  <2>1. ~InArray(s) /\ ~InWorker(s) /\ (InMain(s) <=> mpc = "stopPush" /\ mcur = s) /\ Live(s)
    BY <1>1, <1>2, <1>3, <1>10 DEF InMain, Live
  <2>2. CASE mpc = "stopPush" /\ mcur = s
    BY <1>5, <1>6, <2>1, <2>2 DEF OwnersOf
  <2>3. CASE InQueue(s)
    BY <1>5, <2>1, <2>3 DEF OwnersOf
  <2>4. CASE Leaked(s)
    BY <1>5, <1>6, <2>1, <2>4 DEF OwnersOf
  <2> QED
    BY <1>8, <1>10, <2>2, <2>3, <2>4
<1>11. CASE ~Live(s)
  <2>1. ~InArray(s) /\ ~InWorker(s) /\ ~InMain(s) /\ ~InQueue(s) /\ ~Leaked(s)
    BY <1>1, <1>2, <1>3, <1>4, <1>5, <1>6, <1>11 DEF InMain, Live
  <2> QED
    BY <1>11, <2>1 DEF OwnersOf
<1> QED
  BY <1>9, <1>10, <1>11 DEF Live

\* While indices are right, every live session is to be freed by exactly one.
THEOREM EverySessionOwned == SafeSpec => []SingleOwner
<1>1. ServerInv => SingleOwner
  <2> SUFFICES ASSUME ServerInv, crash = "none", ~moved, NEW s \in Sessions
               PROVE  Cardinality(OwnersOf(s)) = IF Live(s) THEN 1 ELSE 0
    BY DEF SingleOwner
  <2>1. CASE Live(s)
    BY <2>1, OneOwner, FS_Singleton
  <2>2. CASE ~Live(s)
    BY <2>2, OneOwner, FS_EmptySet
  <2> QED
    BY <2>1, <2>2
<1> QED
  BY <1>1, ServerInvariant, PTL
=============================================================================
