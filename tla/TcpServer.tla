------------------------------ MODULE TcpServer ------------------------------
(***************************************************************************)
(* A running tcpServer: the main thread accepts connections in its base    *)
(* loop, gives each session to a worker thread in turn, and on SIGINT      *)
(* stops the server (tcpServer.c, eventLoop.c, session.c, test.c); worker  *)
(* threads run one event loop each (ae.c, ae_epoll.c) and read, answer and *)
(* close their sessions.  Main and the workers share the session array     *)
(* (FastArray, under sessionArrayLock), the sessions, and one message      *)
(* queue per worker.                                                       *)
(*                                                                         *)
(* A message queue is a bounded FIFO here: that its mutex, wake byte and   *)
(* ring amount to that is what MsgQueue and its proofs show.  The server   *)
(* starts with its threads up (LoopThread models how they come up).        *)
(*                                                                         *)
(* crash ends the modelled run: "index" (fastArray.c:59) and "accept"      *)
(* (tcpServer.c:73) are failed assertions, "freed" is a use of a freed     *)
(* session, after which the behaviour is undefined.                        *)
(***************************************************************************)
EXTENDS FastArray, Sequences, SequencesExt

CONSTANTS
  Workers,        \* how many worker threads; they are 1 .. Workers
  Fds,            \* the descriptors accept can return
  QueueCap,       \* slots of a message queue (MSGQUEUESIZE, 128)
  AcceptErrors,   \* whether accept may fail
  PartialWrites,  \* whether a peer may read so slowly that send is partial
  Refusals        \* whether aeCreateFileEvent may fail for a new session's descriptor

Sessions == Items
Threads == 1 .. Workers

WAKE == "wake"   \* a worker's popFd in its fired list

ASSUME TcpServerAssumption ==
  /\ Workers \in Nat \ {0}
  /\ NULL \notin Fds \cup Threads /\ WAKE \notin Fds
  /\ QueueCap \in Nat \ {0}
  /\ AcceptErrors \in BOOLEAN /\ PartialWrites \in BOOLEAN /\ Refusals \in BOOLEAN

VARIABLES
  mpc,       \* where the main thread is
  mcur,      \* the session main is handling
  k,         \* stopEventLoopThreadPool's i
  nextId,    \* the static of eventLoopThreadPool.c
  state,     \* session->state, "none" before initSession, "freed" after zfree
  fd,        \* session->cfd
  mask,      \* session->mask: "read" (SESSION_READABLE) or "none"
  loop,      \* session->loop, the number of a worker
  queue,     \* per worker: its message queue
  lost,      \* messages refused by a full queue, and ADDs by ae
  events,    \* per worker: the session registered to read in ae's events[fd]
  epoll,     \* per worker: the sessions whose sockets its epoll watches
  fired,     \* per worker: what aeApiPoll returned and is not yet dispatched
  wpc, wcur, \* where each worker is, and the session it is handling
  wstate,    \* per worker: eventLoop->state
  input,     \* sessions whose socket has unread data
  closed     \* sessions whose peer has closed

mainVars == <<mpc, mcur, k, nextId>>
sessVars == <<state, fd, mask, loop>>
loopVars == <<events, epoll, fired, wpc, wcur, wstate>>
msgVars  == <<queue, lost>>
peerVars == <<input, closed>>
vars == <<arrayVars, mainVars, sessVars, loopVars, msgVars, peerVars>>

Init ==
  /\ initFastArray
  /\ mpc = "run" /\ mcur = NULL /\ k = 1 /\ nextId = 1
  /\ state = [s \in Sessions |-> "none"]
  /\ fd = [s \in Sessions |-> NULL]
  /\ mask = [s \in Sessions |-> "read"]
  /\ loop = [s \in Sessions |-> NULL]
  /\ queue = [w \in Threads |-> <<>>]
  /\ lost = {}
  /\ events = [w \in Threads |-> [f \in Fds |-> NULL]]
  /\ epoll = [w \in Threads |-> {}]
  /\ fired = [w \in Threads |-> {}]
  /\ wpc = [w \in Threads |-> "poll"]
  /\ wcur = [w \in Threads |-> NULL]
  /\ wstate = [w \in Threads |-> "RUN"]
  /\ input = {} /\ closed = {}

Live(s) == state[s] \in {"connected", "disconnecting"}
FreeFds == Fds \ {fd[s] : s \in {t \in Sessions : Live(t)}}
Msg(type, s) == [type |-> type, session |-> s]

\* stopTcpServer that unlocks only after stopEventLoopThreadPool.
ArrayLockFree_LateUnlock == mpc \in {"run", "dispatch", "done"}

\* Main holds sessionArrayLock all through the loop of stopTcpServer; the other
\* critical sections are single steps.
ArrayLockFree == mpc \notin {"stopping", "stopRemove", "stopPush"}
-----------------------------------------------------------------------------
(* pushMsgqueue as the callers use it: nobody looks at the result *)

pushMsgqueue(w, m) ==
  IF Len(queue[w]) < QueueCap
  THEN queue' = [queue EXCEPT ![w] = Append(@, m)] /\ UNCHANGED lost
  ELSE lost' = lost \cup {m} /\ UNCHANGED queue

(* destroySession: the socket is closed, which also takes it out of epoll *)
destroySession(s, w) ==
  /\ state' = [state EXCEPT ![s] = "freed"]
  /\ epoll' = [epoll EXCEPT ![w] = @ \ {s}]
  /\ input' = input \ {s}
  /\ UNCHANGED <<fd, mask, loop, closed>>

\* The session is freed with its event left in ae's table.
Unregistered_Never(s, w) == events

\* aeDeleteFileEvent for the session's read event, asked for by its mask.
Unregistered(s, w) ==
  IF mask[s] = "read" THEN [events EXCEPT ![w][fd[s]] = NULL] ELSE events
-----------------------------------------------------------------------------
(* The main thread: onAccept *)

\* getSession: accept, fill in the session, put it in the array.
getSession ==
  /\ mpc = "run"
  /\ \E s \in Sessions, f \in FreeFds :
       /\ state[s] = "none"
       /\ state' = [state EXCEPT ![s] = "connected"]
       /\ fd' = [fd EXCEPT ![s] = f]
       /\ pushBackFastArray(s)
       /\ mcur' = s
  /\ mpc' = "dispatch"
  /\ UNCHANGED <<k, nextId, mask, loop, loopVars, msgVars, peerVars>>

\* accept fails: getSession returns NULL, which onAccept asserts it never does.
acceptError ==
  /\ AcceptErrors /\ mpc = "run"
  /\ crash' = "accept"
  /\ UNCHANGED <<arrayItem, tail, capacity, arrayIndex, moved,
                 mainVars, sessVars, loopVars, msgVars, peerVars>>

\* getNextEventLoop going back to the first thread one thread too late.
NextThread_Late(i) == IF i + 1 > Workers + 1 THEN 1 ELSE i + 1

NextThread(i) == IF i + 1 > Workers THEN 1 ELSE i + 1

\* The rest of onAccept: getNextEventLoop, then updateSessionEvent, which from
\* another thread sends ADDSESSION if the loop runs.
dispatchSession ==
  /\ mpc = "dispatch"
  /\ loop' = [loop EXCEPT ![mcur] = nextId]
  /\ nextId' = NextThread(nextId)
  /\ IF wstate[nextId] = "RUN" THEN pushMsgqueue(nextId, Msg("ADD", mcur))
                               ELSE UNCHANGED msgVars
  /\ mpc' = "run" /\ mcur' = NULL
  /\ UNCHANGED <<arrayVars, k, state, fd, mask, loopVars, peerVars>>
-----------------------------------------------------------------------------
(* The main thread: SIGINT has ended the base loop; stopTcpServer *)

beginStop ==
  /\ mpc = "run"
  /\ mpc' = "stopping"
  /\ UNCHANGED <<arrayVars, mcur, k, nextId, sessVars, loopVars, msgVars, peerVars>>

\* One turn of the loop: take the last item and erase it.
stopErase ==
  /\ mpc = "stopping" /\ tail > 0
  /\ LET s == getArrayItemFastArray(tail - 1)
     IN  /\ mcur' = s
         /\ IF Live(s)
            THEN eraseFastArray(s)
            ELSE crash' = "freed" /\ UNCHANGED <<arrayItem, tail, capacity, arrayIndex, moved>>
  /\ mpc' = "stopRemove"
  /\ UNCHANGED <<k, nextId, sessVars, loopVars, msgVars, peerVars>>

\* removeSessionEvent from another thread, as far as the state of the session.
stopRemove ==
  /\ mpc = "stopRemove"
  /\ IF ~Live(mcur)
     THEN crash' = "freed" /\ UNCHANGED <<mpc, state>>
     ELSE IF state[mcur] # "connected"
     THEN mpc' = "stopping" /\ UNCHANGED <<state, crash>>
     ELSE /\ mpc' = "stopPush"
          /\ state' = [state EXCEPT ![mcur] = "disconnecting"]
          /\ UNCHANGED crash
  /\ UNCHANGED <<arrayItem, tail, capacity, arrayIndex, moved,
                 mcur, k, nextId, fd, mask, loop, loopVars, msgVars, peerVars>>

stopPush ==
  /\ mpc = "stopPush"
  /\ pushMsgqueue(loop[mcur], Msg("REMOVE", mcur))
  /\ mpc' = "stopping" /\ mcur' = NULL
  /\ UNCHANGED <<arrayVars, k, nextId, sessVars, loopVars, peerVars>>

\* The array is empty: unlock, go on to the threads.
stopUnlock ==
  /\ mpc = "stopping" /\ tail = 0
  /\ mpc' = "signal" /\ k' = 1
  /\ UNCHANGED <<arrayVars, mcur, nextId, sessVars, loopVars, msgVars, peerVars>>

\* stopEventLoopThread for thread k: stopEventLoop, then pthread_join.
stopThread ==
  /\ mpc = "signal"
  /\ wstate' = [wstate EXCEPT ![k] = "STOP"]
  /\ mpc' = "join"
  /\ UNCHANGED <<arrayVars, mcur, k, nextId, sessVars, events, epoll, fired, wpc, wcur,
                 msgVars, peerVars>>

joinThread ==
  /\ mpc = "join" /\ wpc[k] = "exited"
  /\ IF k < Workers THEN mpc' = "signal" /\ k' = k + 1
                    ELSE mpc' = "done" /\ UNCHANGED k
  /\ UNCHANGED <<arrayVars, mcur, nextId, sessVars, loopVars, msgVars, peerVars>>
-----------------------------------------------------------------------------
(* A worker: aeProcessEvents *)

Readable(w) == {s \in epoll[w] : s \in input \cup closed}

\* aeApiPoll returns the readable descriptors, popFd among them.
poll(w) ==
  /\ wpc[w] = "poll"
  /\ LET ready == {fd[s] : s \in Readable(w)} \cup (IF queue[w] = <<>> THEN {} ELSE {WAKE})
     IN  ready # {} /\ fired' = [fired EXCEPT ![w] = ready]
  /\ wpc' = [wpc EXCEPT ![w] = "dispatch"]
  /\ UNCHANGED <<arrayVars, mainVars, sessVars, events, epoll, wcur, wstate, msgVars,
                 peerVars>>

\* eventLoopCron, due at the end of this turn, finds EVENTLOOP_STOP.
cronStop(w) ==
  /\ wpc[w] = "poll" /\ wstate[w] = "STOP"
  /\ wstate' = [wstate EXCEPT ![w] = "STOPING"]
  /\ wpc' = [wpc EXCEPT ![w] = "exited"]
  /\ UNCHANGED <<arrayVars, mainVars, sessVars, events, epoll, fired, wcur, msgVars,
                 peerVars>>

\* The batch is done.
batchDone(w) ==
  /\ wpc[w] = "dispatch" /\ fired[w] = {}
  /\ wpc' = [wpc EXCEPT ![w] = "poll"]
  /\ UNCHANGED <<arrayVars, mainVars, sessVars, events, epoll, fired, wcur, wstate, msgVars,
                 peerVars>>

\* A fired descriptor whose event was removed meanwhile is skipped (ae.c:334-337).
skipStale(w, f) ==
  /\ wpc[w] = "dispatch" /\ f \in fired[w] \cap Fds /\ events[w][f] = NULL
  /\ fired' = [fired EXCEPT ![w] = @ \ {f}]
  /\ UNCHANGED <<arrayVars, mainVars, sessVars, events, epoll, wpc, wcur, wstate, msgVars,
                 peerVars>>

\* The same event dispatched again, as for a handler of both reads and writes.
callRead_Twice(w, f) ==
  /\ wpc[w] = "dispatch" /\ f \in fired[w] \cap Fds /\ events[w][f] # NULL
  /\ wcur' = [wcur EXCEPT ![w] = events[w][f]]
  /\ IF Live(events[w][f])
     THEN wpc' = [wpc EXCEPT ![w] = "read"] /\ UNCHANGED crash
     ELSE crash' = "freed" /\ UNCHANGED wpc
  /\ UNCHANGED <<arrayItem, tail, capacity, arrayIndex, moved, mainVars, sessVars,
                 events, epoll, fired, wstate, msgVars, peerVars>>

\* onReadSession is entered with the session registered for the descriptor.
callRead(w, f) ==
  /\ wpc[w] = "dispatch" /\ f \in fired[w] \cap Fds /\ events[w][f] # NULL
  /\ fired' = [fired EXCEPT ![w] = @ \ {f}]
  /\ wcur' = [wcur EXCEPT ![w] = events[w][f]]
  /\ IF Live(events[w][f])
     THEN wpc' = [wpc EXCEPT ![w] = "read"] /\ UNCHANGED crash
     ELSE crash' = "freed" /\ UNCHANGED wpc
  /\ UNCHANGED <<arrayItem, tail, capacity, arrayIndex, moved, mainVars, sessVars,
                 events, epoll, wstate, msgVars, peerVars>>

callPop(w) ==
  /\ wpc[w] = "dispatch" /\ WAKE \in fired[w]
  /\ fired' = [fired EXCEPT ![w] = @ \ {WAKE}]
  /\ wpc' = [wpc EXCEPT ![w] = "drain"]
  /\ UNCHANGED <<arrayVars, mainVars, sessVars, events, epoll, wcur, wstate, msgVars,
                 peerVars>>
-----------------------------------------------------------------------------
(* A worker: popMsgqueue and eventCallBack *)

drainDone(w) ==
  /\ wpc[w] = "drain" /\ queue[w] = <<>>
  /\ wpc' = [wpc EXCEPT ![w] = "dispatch"]
  /\ UNCHANGED <<arrayVars, mainVars, sessVars, events, epoll, fired, wcur, wstate, msgVars,
                 peerVars>>

\* ADDSESSION.  ae modifies the epoll entry when events[fd] is still in use, which
\* fails if that entry went away with the socket it was for, and it may fail by
\* itself (ae.c:89-96): nothing is registered and nobody notices.
drainAdd(w) ==
  /\ wpc[w] = "drain" /\ queue[w] # <<>> /\ Head(queue[w]).type = "ADD"
  /\ LET s == Head(queue[w]).session
         known == events[w][fd[s]] # NULL
     IN  IF ~Live(s) THEN crash' = "freed" /\ UNCHANGED <<loop, events, epoll, lost>>
         ELSE /\ loop' = [loop EXCEPT ![s] = w]
              /\ \/ /\ mask[s] = "read" /\ (known => s \in epoll[w])
                    /\ events' = [events EXCEPT ![w][fd[s]] = s]
                    /\ epoll' = [epoll EXCEPT ![w] = @ \cup {s}]
                    /\ UNCHANGED lost
                 \/ /\ mask[s] = "read" /\ (Refusals \/ (known /\ s \notin epoll[w]))
                    /\ lost' = lost \cup {Head(queue[w])} /\ UNCHANGED <<events, epoll>>
                 \/ mask[s] # "read" /\ UNCHANGED <<events, epoll, lost>>
              /\ UNCHANGED crash
  /\ queue' = [queue EXCEPT ![w] = Tail(@)]
  /\ UNCHANGED <<arrayItem, tail, capacity, arrayIndex, moved, mainVars, state, fd, mask,
                 fired, wpc, wcur, wstate, peerVars>>

\* REMOVESESSION.
drainRemove(w) ==
  /\ wpc[w] = "drain" /\ queue[w] # <<>> /\ Head(queue[w]).type = "REMOVE"
  /\ LET s == Head(queue[w]).session
     IN  IF ~Live(s) THEN crash' = "freed" /\ UNCHANGED <<events, epoll, sessVars, peerVars>>
         ELSE /\ events' = Unregistered(s, w)
              /\ destroySession(s, w)
              /\ UNCHANGED crash
  /\ queue' = [queue EXCEPT ![w] = Tail(@)]
  /\ UNCHANGED <<arrayItem, tail, capacity, arrayIndex, moved, mainVars,
                 fired, wpc, wcur, wstate, lost>>
-----------------------------------------------------------------------------
(* A worker: onReadSession.  Its call of connectionCallBack never happens: it is
   for a session in state kConnecting, and getSession made this one kConnected. *)

\* writeSession, called by dataCallBack: all of the answer goes out, or a part,
\* which leaves session->mask = mask & SESSION_WRITABLE, nothing.
writeSession(s) ==
  \/ UNCHANGED mask
  \/ /\ PartialWrites /\ state[s] = "connected"
     /\ mask' = [mask EXCEPT ![s] = "none"]

\* readSession got data: dataCallBack, which may answer and may ask to close.
readData(w) ==
  /\ wpc[w] = "read" /\ wcur[w] \in input
  /\ input' = input \ {wcur[w]}
  /\ writeSession(wcur[w])
  /\ \/ /\ wpc' = [wpc EXCEPT ![w] = "dispatch"]
        /\ wcur' = [wcur EXCEPT ![w] = NULL]
     \/ /\ wpc' = [wpc EXCEPT ![w] = "erase"]
        /\ UNCHANGED wcur
  /\ UNCHANGED <<arrayVars, mainVars, state, fd, loop, events, epoll, fired, wstate,
                 msgVars, closed>>

\* readSession's 0 taken for "nothing to read yet".
readNothing_AsAgain(w) ==
  /\ wpc[w] = "read" /\ (wcur[w] \notin input \/ wcur[w] \in closed)
  /\ input' = input \ {wcur[w]}
  /\ wpc' = [wpc EXCEPT ![w] = "dispatch"]
  /\ wcur' = [wcur EXCEPT ![w] = NULL]
  /\ UNCHANGED <<arrayVars, mainVars, sessVars, events, epoll, fired, wstate, msgVars,
                 closed>>

\* readSession returned 0: end of stream, nothing to read, or an error, which
\* hides the data read before it.
readNothing(w) ==
  /\ wpc[w] = "read" /\ (wcur[w] \notin input \/ wcur[w] \in closed)
  /\ input' = input \ {wcur[w]}
  /\ wpc' = [wpc EXCEPT ![w] = "erase"]
  /\ UNCHANGED <<arrayVars, mainVars, sessVars, events, epoll, fired, wcur, wstate, msgVars,
                 closed>>

\* A disconnect that leaves the session in the array.
tcpServerDisConnection_NoErase(w) ==
  /\ wpc[w] = "erase" /\ ArrayLockFree
  /\ wpc' = [wpc EXCEPT ![w] = "remove"]
  /\ UNCHANGED <<arrayVars, mainVars, sessVars, events, epoll, fired, wcur, wstate, msgVars,
                 peerVars>>

\* tcpServerDisConnection: the user's callback, then removeSession.
tcpServerDisConnection(w) ==
  /\ wpc[w] = "erase" /\ ArrayLockFree
  /\ eraseFastArray(wcur[w])
  /\ wpc' = [wpc EXCEPT ![w] = "remove"]
  /\ UNCHANGED <<mainVars, sessVars, events, epoll, fired, wcur, wstate, msgVars, peerVars>>

\* removeSessionEvent on the loop's own thread.
removeSessionEvent(w) ==
  /\ wpc[w] = "remove"
  /\ IF state[wcur[w]] # "connected"
     THEN UNCHANGED <<events, epoll, sessVars, peerVars>>
     ELSE events' = Unregistered(wcur[w], w) /\ destroySession(wcur[w], w)
  /\ wpc' = [wpc EXCEPT ![w] = "dispatch"]
  /\ wcur' = [wcur EXCEPT ![w] = NULL]
  /\ UNCHANGED <<arrayVars, mainVars, fired, wstate, msgVars>>
-----------------------------------------------------------------------------
(* The peers *)

peerSends(s) ==
  /\ Live(s) /\ s \notin input \cup closed
  /\ input' = input \cup {s}
  /\ UNCHANGED <<arrayVars, mainVars, sessVars, loopVars, msgVars, closed>>

peerCloses(s) ==
  /\ Live(s) /\ s \notin closed
  /\ closed' = closed \cup {s}
  /\ UNCHANGED <<arrayVars, mainVars, sessVars, loopVars, msgVars, input>>
-----------------------------------------------------------------------------
Running == crash = "none"

acceptStep == Running /\ (getSession \/ acceptError \/ beginStop)
mainStep == Running /\ (dispatchSession \/ stopErase \/ stopRemove \/ stopPush
                        \/ stopUnlock \/ stopThread \/ joinThread)
workerStep(w) ==
  Running /\ \/ poll(w) \/ batchDone(w) \/ callPop(w) \/ drainDone(w) \/ drainAdd(w)
             \/ drainRemove(w) \/ readData(w) \/ readNothing(w)
             \/ tcpServerDisConnection(w) \/ removeSessionEvent(w)
             \/ \E f \in Fds : skipStale(w, f) \/ callRead(w, f)
cronStep(w) == Running /\ cronStop(w)
peerStep == Running /\ \E s \in Sessions : peerSends(s) \/ peerCloses(s)

Next == acceptStep \/ mainStep \/ peerStep \/ \E w \in Threads : workerStep(w) \/ cronStep(w)

SafeSpec == Init /\ [][Next]_vars

\* Threads run: what main and the workers have begun goes on.  The cron timer is
\* due every 100 ms, so a worker that keeps turning cannot miss it for ever.
\* Nothing makes a peer connect, send or close, nor SIGINT arrive.
Spec == /\ SafeSpec
        /\ WF_vars(mainStep)
        /\ \A w \in Threads : WF_vars(workerStep(w)) /\ SF_vars(cronStep(w))
-----------------------------------------------------------------------------
States == {"none", "connected", "disconnecting", "freed"}
Places == {"poll", "dispatch", "drain", "read", "erase", "remove", "exited"}

TcpTypeOK ==
  /\ crash \in {"none", "index", "accept", "freed"}
  /\ mpc \in {"run", "dispatch", "stopping", "stopRemove", "stopPush", "signal", "join", "done"}
  /\ k \in Threads /\ nextId \in Threads
  /\ mcur \in Sessions \cup {NULL}
  /\ state \in [Sessions -> States]
  /\ fd \in [Sessions -> Fds \cup {NULL}]
  /\ loop \in [Sessions -> Threads \cup {NULL}]
  /\ events \in [Threads -> [Fds -> Sessions \cup {NULL}]]
  /\ epoll \in [Threads -> SUBSET Sessions]
  /\ fired \in [Threads -> SUBSET (Fds \cup {WAKE})]
  /\ wpc \in [Threads -> Places] /\ wcur \in [Threads -> Sessions \cup {NULL}]
  /\ \A w \in Threads : wpc[w] \in {"read", "erase", "remove"} => wcur[w] \in Sessions
  /\ \A w \in Threads : Len(queue[w]) <= QueueCap

(***************************************************************************)
(* Who is to free a session: the array (and so a disconnect, or stop), the *)
(* worker that has erased it, main between erasing it and sending REMOVE,  *)
(* a REMOVE on its way, or nobody, when a full queue refused the REMOVE.   *)
(***************************************************************************)
InArray(s) == \E i \in 0 .. tail - 1 : arrayItem[i] = s
InWorker(s) == \E w \in Threads : wpc[w] = "remove" /\ wcur[w] = s
InMain(s) == mpc \in {"stopRemove", "stopPush"} /\ mcur = s
InQueue(s) == \E w \in Threads : Msg("REMOVE", s) \in ToSet(queue[w])
Leaked(s) == Msg("REMOVE", s) \in lost

OwnersOf(s) == {o \in {"array", "worker", "main", "queue", "nobody"} :
                  \/ o = "array" /\ InArray(s)
                  \/ o = "worker" /\ InWorker(s)
                  \/ o = "main" /\ InMain(s)
                  \/ o = "queue" /\ InQueue(s)
                  \/ o = "nobody" /\ Leaked(s)}

\* As long as the array's indices are right, every live session is somebody's
\* to free and nobody else's, through accept, disconnect and stop: it is freed
\* at most once, and leaks only by a refused REMOVE or one left in the queue
\* (tcpServer.c:20-37, 125-148, eventLoop.c:246-269, 40-49).
SingleOwner ==
  crash = "none" /\ ~moved =>
    \A s \in Sessions : Cardinality(OwnersOf(s)) = IF Live(s) THEN 1 ELSE 0

\* A partial write clears the mask that tells removal what is registered.
MaskCleared == \E s \in Sessions : mask[s] = "none"

\* As long as the array's indices are right and no write was partial, no thread
\* uses a freed session: not through ae's table, nor a message, nor the array.
NoUseAfterFree == crash = "freed" => moved \/ MaskCleared

\* With right indices, the index assertion fails only for a session that
\* disconnects while stopTcpServer is taking it.
AbortOnlyAtStop == crash = "index" => moved \/ mpc \notin {"run", "dispatch"}

\* What ae has registered is a live session of that worker on that descriptor,
\* watched by its epoll: a descriptor closed and accepted again is never
\* mistaken for the old one.  And every live session is heard: its worker has it
\* registered, or its ADD is on its way or was refused (ae.c:86-123, ae_epoll.c:
\* 31-66).  The exception is a server with a partial write behind it.
RegistrationsCurrent ==
  crash = "none" /\ ~moved /\ ~MaskCleared =>
    /\ \A w \in Threads, f \in Fds :
         events[w][f] # NULL => /\ Live(events[w][f]) /\ fd[events[w][f]] = f
                                /\ loop[events[w][f]] = w /\ events[w][f] \in epoll[w]
    /\ \A s \in Sessions, w \in Threads :
         Live(s) /\ loop[s] = w =>
           \/ Msg("ADD", s) \in ToSet(queue[w]) \cup lost
           \/ events[w][fd[s]] = s

\* onReadSession is entered only for a session that has data or whose peer has
\* closed: never for a stale event of the same batch, where readSession would
\* find nothing and take that for a disconnect (session.c:68-69, eventLoop.c:136).
NoSpuriousRead ==
  \A w \in Threads : wpc[w] = "read" => wcur[w] \in input \cup closed

\* Stopping ends, unless an assertion fails on the way: main never waits for a
\* worker with the array lock held, nor a worker for main without end.
StopTerminates == mpc = "stopping" ~> mpc = "done" \/ crash # "none"

\* A peer that closes is noticed and its session freed, while the server runs.
PeerCloseFrees ==
  \A s \in Sessions : s \in closed /\ Live(s) ~> \/ state[s] = "freed"
                                               \/ mpc \notin {"run", "dispatch"}
                                               \/ crash # "none"
=============================================================================
