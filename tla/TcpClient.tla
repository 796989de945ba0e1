------------------------------ MODULE TcpClient ------------------------------
(***************************************************************************)
(* One tcpClient (tcpClient.c) on a running event loop: it connects, turns *)
(* the connected socket into a session, and when retry is set connects     *)
(* again after a failed attempt or a lost connection.                      *)
(*                                                                         *)
(* The loop's thread runs the handlers: onConnecting, the retry timer,     *)
(* onReadSession with onClose as its disConnectionCallBack, and            *)
(* eventCallBack for the messages of other threads (eventLoop.c:32-67).    *)
(* The user calls start, send, stop and destroy, one call after another,   *)
(* on the loop's thread or on another one, whose steps interleave with the *)
(* loop's, in the middle of realConnect and onClose too: start first, stop *)
(* when started, destroy when stopped.                                     *)
(*                                                                         *)
(* crash ends the run: "connect" (tcpClient.c:95), "message" (eventLoop.c: *)
(* 38) and "session" (eventLoop.c:248) are failed assertions, "null" is a  *)
(* write through a null pointer (tcpClient.c:72), "freed" the use of a     *)
(* freed session or client.                                                *)
(***************************************************************************)
EXTENDS Integers, Sequences, FiniteSets

CONSTANTS
  Sockets,       \* the descriptors socket() can return
  Sessions,      \* what initSession can return; each is used once
  NULL,          \* the null pointer
  QueueCap,      \* slots of the loop's message queue (128)
  FirstDelay,    \* retryDelayMs as the user sets it
  MaxDelay,      \* kMaxRetryDelayMs
  MaxTimers      \* bound of the model: retry timers pending at once

CONNECTING == "onConnecting"

\* The socket was closed and has left epoll, but ae's table still has its event:
\* to register the next socket of that number ae asks epoll to modify an entry
\* that is not there, and fails.
STALE == "stale"

ASSUME TcpClientAssumption ==
  /\ NULL \notin Sessions \cup Sockets /\ IsFiniteSet(Sockets)
  /\ CONNECTING \notin Sessions \cup {NULL} /\ STALE \notin Sessions \cup {NULL}
  /\ QueueCap \in Nat \ {0} /\ MaxTimers \in Nat \ {0}
  /\ FirstDelay \in Nat /\ MaxDelay \in Nat \ {0}

VARIABLES
  cstate,       \* tcpClient->state, "freed" after destroyTcpClient
  csession,     \* tcpClient->session
  retry, delay, \* tcpClient->retry, retryDelayMs
  timers,       \* how many retry timers are pending
  sstate, cfd,  \* per session: cfd, session->state ("none" before initSession, "freed")
  opened,       \* the sockets that are open
  readable,     \* per session: session->mask is SESSION_READABLE, not SESSION_NONE
  ev,           \* per socket: what ae has registered: NULL, CONNECTING, a session, or STALE
  queue,        \* the loop's message queue
  lpc, lcur,    \* the loop: "idle" or where it is in realConnect or in onReadSession
  upc, ucur,    \* the user's other thread: "idle" or where it is in stop or send
  started,      \* the user has started the client and not stopped it
  crash,
  unheard,      \* history: the open sockets whose registration ae refused
  hasty, raced  \* history, see Orderly

clientVars == <<cstate, csession, retry, delay>>
sessVars == <<sstate, cfd, readable, opened, ev, unheard>>
userVars == <<upc, ucur, started>>
loopVars == <<lpc, lcur>>
history == <<hasty, raced>>
vars == <<clientVars, timers, sessVars, queue, loopVars, userVars, crash, history>>

\* initTcpClient; the user has set retry and retryDelayMs.
Init ==
  /\ cstate = "disconnected" /\ csession = NULL /\ retry \in BOOLEAN /\ delay = FirstDelay
  /\ timers = 0
  /\ sstate = [s \in Sessions |-> "none"] /\ cfd = [s \in Sessions |-> NULL]
  /\ readable = [s \in Sessions |-> TRUE]
  /\ opened = {} /\ ev = [f \in Sockets |-> NULL] /\ unheard = {}
  /\ queue = <<>>
  /\ lpc = "idle" /\ lcur = NULL
  /\ upc = "idle" /\ ucur = NULL /\ started = FALSE
  /\ crash = "none" /\ hasty = FALSE /\ raced = FALSE

Live(s) == sstate[s] \in {"connecting", "connected", "disconnecting"}
Pending == {f \in Sockets : ev[f] = CONNECTING}
Msg(type, s) == [type |-> type, session |-> s]
Connects == {i \in DOMAIN queue : queue[i].type = "CONNECT"}

Connecting == lpc \in {"state", "session"}   \* the loop is in realConnect
InCallback == Connecting \/ lpc = "lost"      \* ... or in onClose

\* What can still make a connection, or is one.
Activity == timers + Cardinality(Pending) + Cardinality(Connects)
              + (IF (csession # NULL /\ lpc # "lost") \/ Connecting THEN 1 ELSE 0)

\* Something of the client is left: an attempt, a session, a message.
Busy == Activity > 0 \/ queue # <<>> \/ \E s \in Sessions : Live(s)

\* The user's other thread is inside stop or send, or what it did about s is pending.
InUse(s) ==
  sstate[s] = "disconnecting" \/ upc # "idle" \/ \E i \in DOMAIN queue : queue[i].session = s

\* pushMsgqueue, whose result nobody looks at.
pushMsgqueue(m) == queue' = IF Len(queue) < QueueCap THEN Append(queue, m) ELSE queue
-----------------------------------------------------------------------------
(* The parts of the handlers *)

\* aeCreateFileEvent on the open socket f, whose result nobody looks at: it may
\* fail (a descriptor past AE_SETSIZE, epoll_ctl), and does on a stale entry.
\* onConnecting has deleted its own event before.
register(f, x) ==
  \/ ev[f] # STALE /\ ev' = [ev EXCEPT ![f] = x] /\ UNCHANGED unheard
  \/ ev' = [ev EXCEPT ![f] = IF @ = CONNECTING THEN NULL ELSE @] /\ unheard' = unheard \cup {f}

\* onReConnect that does not leave the state kConnecting for startConnectInLoop.
onReConnect_NoState ==
  IF retry
  THEN /\ timers < MaxTimers /\ timers' = timers + 1
       /\ delay' = IF delay < MaxDelay THEN 2 * delay ELSE MaxDelay
       /\ UNCHANGED cstate
  ELSE UNCHANGED <<cstate, timers, delay>>

\* onReConnect that goes on doubling.
onReConnect_NoMax ==
  IF retry
  THEN /\ cstate' = "connecting"
       /\ timers < MaxTimers /\ timers' = timers + 1
       /\ delay' = 2 * delay
  ELSE UNCHANGED <<cstate, timers, delay>>

onReConnect ==
  IF retry
  THEN /\ cstate' = "connecting"
       /\ timers < MaxTimers /\ timers' = timers + 1
       /\ delay' = IF delay < MaxDelay THEN 2 * delay ELSE MaxDelay
  ELSE UNCHANGED <<cstate, timers, delay>>

\* The session that realConnect uses: the client's, or a new one.
SessionToUse(s) == IF csession = NULL THEN sstate[s] = "none" ELSE s = csession

\* realConnect on socket f: its session s is registered; setConnected and
\* setSession do the rest.
realConnect(f) ==
  \E s \in Sessions :
    /\ SessionToUse(s)
    /\ csession' = s
    /\ IF sstate[s] = "freed"
       THEN crash' = "freed" /\ UNCHANGED <<cfd, sstate, readable, ev, unheard>>
       ELSE /\ sstate' = [sstate EXCEPT ![s] = IF @ = "none" THEN "connecting" ELSE @]
            /\ readable' = [readable EXCEPT ![s] = TRUE]
            /\ cfd' = [cfd EXCEPT ![s] = f]
            /\ register(f, s)
            /\ UNCHANGED crash
    /\ lpc' = "state"
    /\ raced' = (raced \/ upc # "idle")

\* startConnectInLoop without the test of the state.
startConnectInLoop_Unchecked(state) ==
  \/ crash' = "connect" /\ cstate' = state
     /\ UNCHANGED <<csession, sessVars, lpc, raced>>
  \/ \E f \in Sockets \ opened :
       /\ opened' = opened \cup {f}
       /\ cstate' = state
       /\ \/ realConnect(f)
          \/ /\ register(f, CONNECTING)
             /\ UNCHANGED <<csession, sstate, cfd, readable, lpc, crash, raced>>

\* startConnectInLoop, when the client's state is (or has just been set to) state:
\* the attempt fails at once, succeeds at once, or is under way.
startConnectInLoop(state) ==
  \/ /\ state # "connecting"
     /\ cstate' = state
     /\ UNCHANGED <<csession, sessVars, lpc, crash, raced>>
  \/ /\ state = "connecting" /\ crash' = "connect"
     /\ cstate' = state
     /\ UNCHANGED <<csession, sessVars, lpc, raced>>
  \/ /\ state = "connecting"
     /\ cstate' = state
     /\ \E f \in Sockets \ opened :
          /\ opened' = opened \cup {f}
          /\ \/ realConnect(f)
             \/ /\ register(f, CONNECTING)
                /\ UNCHANGED <<csession, sstate, cfd, readable, lpc, crash, raced>>

\* Its socket is closed and its memory freed.
destroySession(s) ==
  /\ sstate' = [sstate EXCEPT ![s] = "freed"]
  /\ opened' = opened \ {cfd[s]} /\ unheard' = unheard \ {cfd[s]}

\* Its read event, if it was registered, is deleted if the mask names it.
removeAndDestroy(s) ==
  /\ ev' = [ev EXCEPT ![cfd[s]] = IF readable[s] \/ @ = NULL THEN NULL ELSE STALE]
  /\ destroySession(s)
  /\ UNCHANGED <<cfd, readable>>
-----------------------------------------------------------------------------
(* The loop's thread *)

LoopIdle == crash = "none" /\ lpc = "idle"

\* The retry timer, which holds the client's address.
timerFires ==
  /\ LoopIdle /\ timers > 0
  /\ timers' = timers - 1
  /\ IF cstate = "freed"
     THEN crash' = "freed" /\ UNCHANGED <<cstate, csession, sessVars, lpc, raced>>
     ELSE startConnectInLoop(cstate)
  /\ UNCHANGED <<retry, delay, queue, lcur, userVars, hasty>>

\* onConnecting; it does not look at the client's state.
connectDone(f) ==
  /\ LoopIdle /\ ev[f] = CONNECTING
  /\ IF cstate = "freed"
     THEN crash' = "freed" /\ UNCHANGED <<csession, sstate, cfd, readable, ev, unheard, lpc, raced>>
     ELSE realConnect(f)
  /\ UNCHANGED <<cstate, retry, delay, timers, opened, queue, lcur, userVars, hasty>>

\* realConnect goes on: the client is kConnected, ...
setConnected ==
  /\ crash = "none" /\ lpc = "state"
  /\ cstate' = "connected" /\ lpc' = "session"
  /\ UNCHANGED <<csession, retry, delay, timers, sessVars, queue, lcur, userVars, crash, history>>

\* ... then tcpClient->session, which a stop on the other thread may have set to NULL.
setSession ==
  /\ crash = "none" /\ lpc = "session" /\ lpc' = "idle"
  /\ IF csession = NULL
     THEN crash' = "null" /\ UNCHANGED sstate
     ELSE sstate' = [sstate EXCEPT ![csession] = "connected"] /\ UNCHANGED crash
  /\ UNCHANGED <<clientVars, timers, cfd, readable, opened, ev, unheard, queue, lcur, userVars, history>>

\* onConnecting that does not close the socket.
connectFailed_Leak(f) ==
  /\ LoopIdle /\ ev[f] = CONNECTING
  /\ IF cstate = "freed"
     THEN crash' = "freed" /\ UNCHANGED <<cstate, delay, timers, ev>>
     ELSE ev' = [ev EXCEPT ![f] = NULL] /\ onReConnect /\ UNCHANGED crash
  /\ UNCHANGED <<csession, retry, sstate, cfd, readable, opened, unheard, queue, loopVars, userVars, history>>

connectFailed(f) ==
  /\ LoopIdle /\ ev[f] = CONNECTING
  /\ IF cstate = "freed"
     THEN crash' = "freed" /\ UNCHANGED <<cstate, delay, timers, opened, ev>>
     ELSE /\ ev' = [ev EXCEPT ![f] = NULL]
          /\ opened' = opened \ {f}
          /\ onReConnect
          /\ UNCHANGED crash
  /\ UNCHANGED <<csession, retry, sstate, cfd, readable, unheard, queue, loopVars, userVars, history>>

\* onReadSession for a session whose peer has closed, or whose dataCallBack asks
\* to close: onClose calls onReConnect, ...
lost(f) ==
  /\ LoopIdle /\ ev[f] \in Sessions
  /\ IF sstate[ev[f]] = "freed" \/ cstate = "freed"
     THEN crash' = "freed" /\ UNCHANGED <<cstate, delay, timers, loopVars, raced>>
     ELSE /\ onReConnect
          /\ lpc' = "lost" /\ lcur' = ev[f]
          /\ raced' = (raced \/ InUse(ev[f]))
          /\ UNCHANGED crash
  /\ UNCHANGED <<csession, retry, sessVars, queue, userVars, hasty>>

\* onClose that keeps the client's pointer to the session.
forget_KeepSession ==
  /\ crash = "none" /\ lpc = "lost" /\ lpc' = "remove"
  /\ UNCHANGED <<clientVars, timers, sessVars, queue, lcur, userVars, crash, history>>

\* ... then forgets the session; ...
forget ==
  /\ crash = "none" /\ lpc = "lost" /\ lpc' = "remove"
  /\ csession' = NULL
  /\ UNCHANGED <<cstate, retry, delay, timers, sessVars, queue, lcur, userVars, crash, history>>

\* ... then removeSessionEvent.
removeStep ==
  /\ crash = "none" /\ lpc = "remove"
  /\ \/ sstate[lcur] = "connected" /\ removeAndDestroy(lcur) /\ UNCHANGED crash
     \/ sstate[lcur] \in {"connecting", "disconnecting"} /\ UNCHANGED <<sessVars, crash>>
     \/ sstate[lcur] = "freed" /\ crash' = "freed" /\ UNCHANGED sessVars
  /\ lpc' = "idle" /\ lcur' = NULL
  /\ UNCHANGED <<clientVars, timers, queue, userVars, history>>

Draining(type) == LoopIdle /\ queue # <<>> /\ Head(queue).type = type /\ queue' = Tail(queue)

\* A CONNECT message; event->session, which nobody has set, may be NULL.
drainConnect ==
  /\ Draining("CONNECT")
  /\ \/ crash' = "message" /\ UNCHANGED <<cstate, csession, sessVars, lpc, raced>>
     \/ /\ cstate = "freed"
        /\ crash' = "freed" /\ UNCHANGED <<cstate, csession, sessVars, lpc, raced>>
     \/ cstate # "freed" /\ startConnectInLoop("connecting")
  /\ UNCHANGED <<retry, delay, timers, lcur, userVars, hasty>>

drainRemove ==
  /\ Draining("REMOVE")
  /\ LET s == Head(queue).session
     IN  IF Live(s) THEN removeAndDestroy(s) /\ UNCHANGED crash
                    ELSE crash' = "freed" /\ UNCHANGED sessVars
  /\ UNCHANGED <<clientVars, timers, loopVars, userVars, history>>

\* writeSession: what the socket does not take at once goes to the send buffer and
\* the mask becomes SESSION_NONE (session.c:115-120).
writeSession(s) ==
  IF sstate[s] = "connected"
  THEN \E all \in BOOLEAN : readable' = [readable EXCEPT ![s] = all /\ @]
  ELSE UNCHANGED readable

drainSend ==
  /\ Draining("SEND")
  /\ IF Live(Head(queue).session)
     THEN writeSession(Head(queue).session) /\ UNCHANGED crash
     ELSE crash' = "freed" /\ UNCHANGED readable
  /\ UNCHANGED <<clientVars, timers, sstate, cfd, opened, ev, unheard, loopVars, userVars, history>>

\* onReadSession with data: dataCallBack answers on the session.
answer(f) ==
  /\ LoopIdle /\ ev[f] \in Sessions
  /\ IF sstate[ev[f]] = "freed"
     THEN crash' = "freed" /\ UNCHANGED readable
     ELSE writeSession(ev[f]) /\ UNCHANGED crash
  /\ UNCHANGED <<clientVars, timers, sstate, cfd, opened, ev, unheard, queue, loopVars, userVars, history>>
-----------------------------------------------------------------------------
(* The user *)

UserIdle == crash = "none" /\ upc = "idle" /\ cstate # "freed"

startHere ==
  /\ UserIdle /\ lpc = "idle" /\ ~started
  /\ started' = TRUE /\ hasty' = (hasty \/ Busy)
  /\ startConnectInLoop("connecting")
  /\ UNCHANGED <<retry, delay, timers, queue, lcur, upc, ucur>>

startElsewhere ==
  /\ UserIdle /\ ~started
  /\ started' = TRUE /\ hasty' = (hasty \/ Busy)
  /\ pushMsgqueue(Msg("CONNECT", NULL))
  /\ UNCHANGED <<clientVars, timers, sessVars, loopVars, upc, ucur, crash, raced>>

\* stopTcpClient that only forgets the session.
stopHere_NoRemove ==
  /\ UserIdle /\ lpc = "idle" /\ started
  /\ started' = FALSE
  /\ cstate' = "disconnected" /\ csession' = NULL
  /\ UNCHANGED <<retry, delay, timers, sessVars, queue, loopVars, upc, ucur, crash, history>>

stopHere ==
  /\ UserIdle /\ lpc = "idle" /\ started
  /\ started' = FALSE
  /\ cstate' = "disconnected" /\ csession' = NULL
  /\ raced' = (raced \/ (csession # NULL /\ InUse(csession)))
  /\ \/ csession = NULL /\ UNCHANGED <<sessVars, crash>>
     \/ /\ csession # NULL /\ sstate[csession] = "connected"
        /\ removeAndDestroy(csession) /\ UNCHANGED crash
     \/ /\ csession # NULL /\ sstate[csession] = "freed"
        /\ crash' = "freed" /\ UNCHANGED sessVars
  /\ UNCHANGED <<retry, delay, timers, queue, loopVars, upc, ucur, hasty>>

\* stopTcpClient on the other thread: the state, ...
stopElsewhere ==
  /\ UserIdle /\ started
  /\ started' = FALSE /\ cstate' = "disconnected" /\ upc' = "stopTest"
  /\ raced' = (raced \/ InCallback)
  /\ UNCHANGED <<csession, retry, delay, timers, sessVars, queue, loopVars, ucur, crash, hasty>>

\* ... the test for a session, ...
stopTest ==
  /\ crash = "none" /\ upc = "stopTest"
  /\ ucur' = csession /\ upc' = IF csession = NULL THEN "idle" ELSE "stopCheck"
  /\ UNCHANGED <<clientVars, timers, sessVars, queue, loopVars, started, crash, history>>

\* ... removeSessionEvent with tcpClient->session, read again or not: its state, ...
stopCheck ==
  /\ crash = "none" /\ upc = "stopCheck"
  /\ \E s \in {ucur, csession} :
       /\ ucur' = s
       /\ \/ s = NULL /\ crash' = "session" /\ UNCHANGED upc
          \/ s # NULL /\ sstate[s] = "freed" /\ crash' = "freed" /\ UNCHANGED upc
          \/ s # NULL /\ sstate[s] = "connected" /\ upc' = "stopPush" /\ UNCHANGED crash
          \/ /\ s # NULL /\ sstate[s] \in {"connecting", "disconnecting"}
             /\ upc' = "stopClear" /\ UNCHANGED crash
  /\ UNCHANGED <<clientVars, timers, sessVars, queue, loopVars, started, history>>

\* ... kDisconnecting and the message, ...
stopPush ==
  /\ crash = "none" /\ upc = "stopPush"
  /\ upc' = "stopClear"
  /\ IF Live(ucur)
     THEN /\ sstate' = [sstate EXCEPT ![ucur] = "disconnecting"]
          /\ pushMsgqueue(Msg("REMOVE", ucur))
          /\ UNCHANGED crash
     ELSE crash' = "freed" /\ UNCHANGED <<sstate, queue>>
  /\ UNCHANGED <<clientVars, timers, cfd, readable, opened, ev, unheard, loopVars, ucur, started, history>>

\* ... and the pointer.
stopClear ==
  /\ crash = "none" /\ upc = "stopClear"
  /\ upc' = "idle" /\ ucur' = NULL
  /\ csession' = NULL
  /\ UNCHANGED <<cstate, retry, delay, timers, sessVars, queue, loopVars, started, crash, history>>

\* sendSessionEvent on the other thread, with tcpClient->session.
sendElsewhere ==
  /\ UserIdle /\ started /\ csession # NULL
  /\ ucur' = csession /\ upc' = "sendCheck"
  /\ raced' = (raced \/ InCallback)
  /\ UNCHANGED <<clientVars, timers, sessVars, queue, loopVars, started, crash, hasty>>

sendCheck ==
  /\ crash = "none" /\ upc = "sendCheck"
  /\ upc' = "idle" /\ ucur' = NULL
  /\ \/ sstate[ucur] = "freed" /\ crash' = "freed" /\ UNCHANGED queue
     \/ sstate[ucur] \in {"connecting", "disconnecting"} /\ UNCHANGED <<queue, crash>>
     \/ sstate[ucur] = "connected" /\ pushMsgqueue(Msg("SEND", ucur)) /\ UNCHANGED crash
  /\ UNCHANGED <<clientVars, timers, sessVars, loopVars, started, history>>

\* destroyTcpClient, on the loop's thread; a session it still has is destroyed,
\* its event left in ae.
destroyHere ==
  /\ UserIdle /\ lpc = "idle" /\ ~started
  /\ cstate' = "freed"
  /\ hasty' = (hasty \/ Busy)
  /\ \/ csession = NULL /\ UNCHANGED <<sstate, opened, ev, unheard, crash>>
     \/ /\ csession # NULL /\ Live(csession)
        /\ ev' = [ev EXCEPT ![cfd[csession]] = IF @ = NULL THEN NULL ELSE STALE]
        /\ destroySession(csession)
        /\ UNCHANGED crash
     \/ /\ csession # NULL /\ ~Live(csession)
        /\ crash' = "freed" /\ UNCHANGED <<sstate, opened, ev, unheard>>
  /\ UNCHANGED <<csession, retry, delay, timers, cfd, readable, queue, loopVars, upc, ucur, started, raced>>
-----------------------------------------------------------------------------
loopStep ==
  \/ timerFires \/ setConnected \/ setSession \/ forget \/ removeStep
  \/ drainConnect \/ drainRemove \/ drainSend
  \/ \E f \in Sockets : connectDone(f) \/ connectFailed(f) \/ answer(f) \/ lost(f)
userStep ==
  \/ startHere \/ startElsewhere \/ stopHere \/ stopElsewhere \/ stopTest \/ stopCheck
  \/ stopPush \/ stopClear \/ sendElsewhere \/ sendCheck \/ destroyHere

Next == loopStep \/ userStep

Spec == Init /\ [][Next]_vars
-----------------------------------------------------------------------------
\* The client's variables keep their types.  The delay ends below twice
\* kMaxRetryDelayMs: its limit is tested before the doubling (tcpClient.c:26).
ClientTypeOK ==
  /\ cstate \in {"disconnected", "connecting", "connected", "freed"}
  /\ csession \in Sessions \cup {NULL} /\ ucur \in Sessions \cup {NULL}
  /\ timers \in 0 .. MaxTimers
  /\ delay = FirstDelay \/ delay \in 0 .. 2 * MaxDelay - 1
  /\ sstate \in [Sessions -> {"none", "connecting", "connected", "disconnecting", "freed"}]
  /\ cfd \in [Sessions -> Sockets \cup {NULL}]
  /\ unheard \subseteq opened /\ opened \subseteq Sockets
  /\ readable \in [Sessions -> BOOLEAN]
  /\ ev \in [Sockets -> Sessions \cup {NULL, CONNECTING, STALE}]
  /\ Len(queue) <= QueueCap
  /\ crash \in {"none", "connect", "message", "session", "null", "freed"}

\* What the code leaves to its user: start and destroy only when nothing of an
\* earlier start is left; no call or message about a session under way when the
\* loop connects, loses or removes it.  Nothing in the code sees to it.
Orderly == ~hasty /\ ~raced

\* The attempts that ae refused: of them nobody will ever hear.
Abandoned == {f \in unheard : \A s \in Sessions : Live(s) => cfd[s] # f}

\* A client that retries never just sits there: while it is kConnecting a timer,
\* an attempt, a session or a message is pending, and while it is kConnected it
\* has a session (onReConnect and onClose, tcpClient.c:21-36), unless an attempt
\* was refused by ae (tcpClient.c:101).
RetryNeverStuck ==
  crash = "none" /\ retry =>
    /\ cstate = "connecting" => Activity > 0 \/ Abandoned # {}
    /\ cstate = "connected" /\ ~raced => csession # NULL

\* For an orderly user, a client has at most one attempt, timer, CONNECT message
\* or session at any time: retries do not multiply.
AtMostOneActivity == Orderly => Activity <= 1

\* No descriptor is forgotten: through failed attempts, partial writes, lost
\* sessions and stops by either thread the event loop watches every open socket,
\* but for those that ae refused when they were connected or became a session's,
\* which nobody noticed (tcpClient.c:101, eventLoop.c:232-235).
OpenIsWatched ==
  crash = "none" =>
    \A f \in opened : ev[f] \in Sessions \cup {CONNECTING} <=> f \notin unheard

\* For an orderly user, every open socket is an attempt's, watched or refused, or
\* is on its way out or the client's session has it: stop leaves none behind.
NoOrphanSocket ==
  Orderly /\ crash = "none" =>
    \A f \in opened :
      \/ ev[f] = CONNECTING \/ f \in Abandoned
      \/ csession # NULL /\ cfd[csession] = f
      \/ lpc = "remove" /\ cfd[lcur] = f
      \/ \E s \in Sessions : sstate[s] = "disconnecting" /\ cfd[s] = f

\* For an orderly user, no handler touches a session or a client that is freed.
NoUseAfterFree == Orderly => crash # "freed"

\* Only retry timers, which nothing cancels, are left of a stopped client.
Quiet ==
  /\ cstate = "disconnected" /\ csession = NULL /\ ~started
  /\ Pending = {} /\ queue = <<>> /\ \A s \in Sessions : ~Live(s)
  /\ lpc = "idle" /\ upc = "idle"

\* A stopped client of which only retry timers are left stays stopped until the
\* user starts or destroys it: the timers find it kDisconnected (tcpClient.c:88).
\* (One that is stopped during an attempt does not: see the README.)
QuietStaysQuiet == [][Quiet => Quiet' \/ started' \/ cstate' = "freed"]_vars
=============================================================================
