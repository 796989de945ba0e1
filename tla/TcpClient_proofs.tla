--------------------------- MODULE TcpClient_proofs ---------------------------
(***************************************************************************)
(* Theorems about TcpClient, for any sockets, sessions, delays and queue.  *)
(* Whatever the user does: types hold, every open socket is watched unless *)
(* ae refused it, a retrying client always has something pending, and a    *)
(* quiet one stays quiet.  For an orderly user: one attempt or session at  *)
(* a time, no socket without an owner, no use of what is freed.            *)
(***************************************************************************)
EXTENDS TcpClient, FiniteSetTheorems, SequenceTheorems, TLAPS

Messages == {Msg("CONNECT", NULL)} \cup [type : {"REMOVE", "SEND"}, session : Sessions]

Stopping == {"stopTest", "stopCheck", "stopPush", "stopClear"}

\* What the handlers hold in hand is a session where they use it as one.
InHand ==
  /\ queue \in Seq(Messages)
  /\ lpc \in {"idle", "state", "session", "lost", "remove"}
  /\ lpc \in {"lost", "remove"} => lcur \in Sessions
  /\ upc \in Stopping \cup {"idle", "sendCheck"}
  /\ upc \in {"stopPush", "sendCheck"} => ucur \in Sessions

ClientTypes == ClientTypeOK /\ InHand

\* ae names sessions that were made, and open sockets.
EntriesKnown ==
  \A f \in Sockets :
    /\ ev[f] \in Sessions => sstate[ev[f]] # "none"
    /\ ev[f] \in Sessions \cup {CONNECTING} => f \in opened

\* A live session has an open socket to itself, which ae refused or watches for it.
LiveOwnsSocket ==
  crash = "none" =>
    \A s \in Sessions : Live(s) =>
      /\ cfd[s] \in opened
      /\ ev[cfd[s]] = s \/ cfd[s] \in unheard
      /\ \A t \in Sessions : Live(t) /\ cfd[t] = cfd[s] => t = s

\* A client that is connecting has a timer or an attempt.
ConnectingPends ==
  crash = "none" /\ retry /\ cstate = "connecting" =>
    timers > 0 \/ Pending # {} \/ lpc = "state" \/ Abandoned # {}

\* A stop on the other thread finds the client connected again only when raced.
ConnectedHasSession ==
  /\ crash = "none" /\ retry /\ cstate = "connected" /\ ~raced => csession # NULL
  /\ upc \in Stopping /\ ~raced => cstate # "connected"

\* In realConnect and onClose the loop is alone with the session unless raced.
AloneInCallback ==
  /\ InCallback /\ ~raced => upc = "idle"
  /\ Connecting /\ ~raced => csession # NULL
  /\ Connecting /\ csession # NULL /\ crash = "none" => Live(csession)
  /\ lpc = "lost" /\ retry => cstate # "connected"

ClientInv ==
  /\ ClientTypes
  /\ EntriesKnown
  /\ LiveOwnsSocket
  /\ OpenIsWatched
  /\ ConnectingPends
  /\ ConnectedHasSession
  /\ AloneInCallback
-----------------------------------------------------------------------------
(* Types *)

LEMMA PushKeepsMessages ==
  ASSUME queue \in Seq(Messages), Len(queue) <= QueueCap, NEW m \in Messages, pushMsgqueue(m)
  PROVE  queue' \in Seq(Messages) /\ Len(queue') <= QueueCap
<1>1. QueueCap \in Nat
  BY TcpClientAssumption
<1> QED
  BY <1>1, AppendProperties DEF pushMsgqueue

LEMMA DrainKeepsMessages ==
  ASSUME queue \in Seq(Messages), Len(queue) <= QueueCap, NEW type, Draining(type)
  PROVE  /\ queue' \in Seq(Messages) /\ Len(queue') <= QueueCap
         /\ Head(queue) \in Messages /\ Head(queue).type = type
<1>1. QueueCap \in Nat
  BY TcpClientAssumption
<1> QED
  BY <1>1, HeadTailProperties DEF Draining

\* What the parts of the handlers change.
SessTypes ==
  /\ csession \in Sessions \cup {NULL}
  /\ cstate \in {"disconnected", "connecting", "connected", "freed"}
  /\ sstate \in [Sessions -> {"none", "connecting", "connected", "disconnecting", "freed"}]
  /\ cfd \in [Sessions -> Sockets \cup {NULL}]
  /\ unheard \subseteq opened /\ opened \subseteq Sockets
  /\ readable \in [Sessions -> BOOLEAN]
  /\ ev \in [Sockets -> Sessions \cup {NULL, CONNECTING, STALE}]
  /\ crash \in {"none", "connect", "message", "session", "null", "freed"}

\* A socket is registered, or refused and not watched.
LEMMA RegisterIs ==
  ASSUME SessTypes, NEW f \in Sockets, NEW x \in Sessions \cup {CONNECTING}, register(f, x)
  PROVE  /\ ev' \in [Sockets -> Sessions \cup {NULL, CONNECTING, STALE}]
         /\ \A g \in Sockets : g # f => ev'[g] = ev[g]
         /\ \/ ev'[f] = x /\ unheard' = unheard
            \/ /\ ev'[f] = (IF ev[f] = CONNECTING THEN NULL ELSE ev[f])
               /\ unheard' = unheard \cup {f}
BY DEF SessTypes, register

LEMMA RealConnectTypes ==
  ASSUME SessTypes, NEW f \in Sockets, realConnect(f), opened' = opened \cup {f},
         cstate' \in {"disconnected", "connecting", "connected", "freed"}
  PROVE  SessTypes' /\ lpc' = "state"
<1>1. PICK s \in Sessions :
        /\ csession' = s
        /\ IF sstate[s] = "freed"
           THEN crash' = "freed" /\ UNCHANGED <<cfd, sstate, readable, ev, unheard>>
           ELSE /\ sstate' = [sstate EXCEPT ![s] = IF @ = "none" THEN "connecting" ELSE @]
                /\ readable' = [readable EXCEPT ![s] = TRUE]
                /\ cfd' = [cfd EXCEPT ![s] = f]
                /\ register(f, s)
                /\ UNCHANGED crash
        /\ lpc' = "state"
  BY DEF realConnect
<1>2. CASE sstate[s] = "freed"
  BY <1>1, <1>2 DEF SessTypes
<1>3. CASE sstate[s] # "freed"
  <2>1. ev' \in [Sockets -> Sessions \cup {NULL, CONNECTING, STALE}] /\ unheard' \subseteq opened'
    BY <1>1, <1>3, RegisterIs DEF SessTypes
  <2>2. sstate' \in [Sessions -> {"none", "connecting", "connected", "disconnecting", "freed"}]
    BY <1>1, <1>3 DEF SessTypes
  <2> QED
    BY <1>1, <1>3, <2>1, <2>2 DEF SessTypes
<1> QED
  BY <1>2, <1>3

LEMMA StartConnectTypes ==
  ASSUME SessTypes, NEW state \in {"disconnected", "connecting", "connected"},
         startConnectInLoop(state)
  PROVE  SessTypes' /\ lpc' \in {lpc, "state"}
<1>1. CASE cstate' = state /\ crash' \in {crash, "connect"} /\ UNCHANGED <<csession, sessVars, lpc>>
  BY <1>1 DEF SessTypes, sessVars
<1>2. ASSUME NEW f \in Sockets, opened' = opened \cup {f}, cstate' = state, realConnect(f)
      PROVE  SessTypes' /\ lpc' = "state"
  BY <1>2, RealConnectTypes
<1>3. ASSUME NEW f \in Sockets, opened' = opened \cup {f}, register(f, CONNECTING),
             cstate' = state, UNCHANGED <<csession, sstate, cfd, readable, lpc, crash, raced>>
      PROVE  SessTypes'
  <2>1. ev' \in [Sockets -> Sessions \cup {NULL, CONNECTING, STALE}] /\ unheard' \subseteq opened'
    BY <1>3, RegisterIs DEF SessTypes
  <2> QED
    BY <1>3, <2>1 DEF SessTypes
<1> QED
  BY <1>1, <1>2, <1>3 DEF startConnectInLoop

LEMMA RemoveTypes ==
  ASSUME SessTypes, NEW s \in Sessions, removeAndDestroy(s),
         csession' \in {csession, NULL}, cstate' \in {cstate, "disconnected"}, crash' = crash
  PROVE  SessTypes'
BY DEF removeAndDestroy, destroySession, SessTypes

\* The types that the handlers' parts leave alone.
RestTypes ==
  /\ ucur \in Sessions \cup {NULL}
  /\ timers \in 0 .. MaxTimers
  /\ delay = FirstDelay \/ delay \in 0 .. 2 * MaxDelay - 1
  /\ Len(queue) <= QueueCap
  /\ InHand

LEMMA TypesSplit == ClientTypes <=> SessTypes /\ RestTypes
BY DEF ClientTypes, ClientTypeOK, SessTypes, RestTypes

LEMMA ReConnectTypes ==
  ASSUME RestTypes, onReConnect
  PROVE  /\ timers' \in 0 .. MaxTimers
         /\ delay' = FirstDelay \/ delay' \in 0 .. 2 * MaxDelay - 1
         /\ cstate' \in {cstate, "connecting"}
<1>1. MaxDelay \in Nat \ {0} /\ FirstDelay \in Nat /\ MaxTimers \in Nat
  BY TcpClientAssumption
<1> QED
  BY <1>1 DEF onReConnect, RestTypes

LEMMA LoopTypes ==
  ASSUME SessTypes, RestTypes, EntriesKnown, OpenIsWatched, loopStep
  PROVE  SessTypes' /\ RestTypes'
<1>0. MaxTimers \in Nat /\ QueueCap \in Nat /\ MaxDelay \in Nat
  BY TcpClientAssumption
<1>1. CASE timerFires
  <2>1. SessTypes' /\ lpc' \in {lpc, "state"}
    <3>1. CASE cstate = "freed"
      BY <1>1, <3>1 DEF timerFires, SessTypes, sessVars
    <3>2. CASE cstate # "freed"
      <4>1. cstate \in {"disconnected", "connecting", "connected"}
        BY <3>2 DEF SessTypes
      <4> QED
        BY <1>1, <3>2, <4>1, StartConnectTypes DEF timerFires
    <3> QED
      BY <3>1, <3>2
  <2> QED
    BY <1>0, <1>1, <2>1 DEF timerFires, LoopIdle, RestTypes, InHand, userVars
<1>2. CASE removeStep
  <2>1. RestTypes'
    BY <1>0, <1>2 DEF removeStep, RestTypes, InHand, clientVars, userVars
  <2>2. lcur \in Sessions /\ UNCHANGED clientVars
    BY <1>0, <1>2 DEF removeStep, RestTypes, InHand
  <2>3. CASE removeAndDestroy(lcur) /\ UNCHANGED crash
    BY <2>1, <2>2, <2>3, RemoveTypes DEF clientVars
  <2>4. CASE UNCHANGED sessVars /\ crash' \in {crash, "freed"}
    BY <2>1, <2>2, <2>4 DEF SessTypes, sessVars, clientVars
  <2> QED
    BY <1>2, <2>1, <2>3, <2>4 DEF removeStep
<1>3. CASE drainConnect
  <2>1. queue' \in Seq(Messages) /\ Len(queue') <= QueueCap
    BY <1>0, <1>3, DrainKeepsMessages DEF drainConnect, RestTypes, InHand
  <2>2. SessTypes' /\ lpc' \in {lpc, "state"}
    <3>1. CASE startConnectInLoop("connecting")
      BY <3>1, StartConnectTypes
    <3>2. CASE crash' \in {"message", "freed"} /\ UNCHANGED <<cstate, csession, sessVars, lpc>>
      BY <3>2 DEF SessTypes, sessVars
    <3> QED
      BY <1>3, <3>1, <3>2 DEF drainConnect
  <2> QED
    BY <1>0, <1>3, <2>1, <2>2
    DEF drainConnect, Draining, LoopIdle, RestTypes, InHand, userVars
<1>4. CASE drainRemove
  <2>1. /\ queue' \in Seq(Messages) /\ Len(queue') <= QueueCap
        /\ Head(queue) \in Messages /\ Head(queue).type = "REMOVE"
    BY <1>0, <1>4, DrainKeepsMessages DEF drainRemove, RestTypes, InHand
  <2>2. Head(queue).session \in Sessions
    BY <2>1 DEF Messages, Msg
  <2>3. RestTypes'
    BY <1>0, <1>4, <2>1 DEF drainRemove, RestTypes, InHand, clientVars, loopVars, userVars
  <2>4. CASE removeAndDestroy(Head(queue).session) /\ UNCHANGED crash
    BY <1>4, <2>2, <2>3, <2>4, RemoveTypes DEF drainRemove, clientVars
  <2>5. CASE UNCHANGED sessVars /\ crash' = "freed"
    BY <1>4, <2>3, <2>5 DEF drainRemove, SessTypes, sessVars, clientVars
  <2> QED
    BY <1>4, <2>3, <2>4, <2>5 DEF drainRemove
<1>5. CASE drainSend
  <2>1. /\ queue' \in Seq(Messages) /\ Len(queue') <= QueueCap
    BY <1>0, <1>5, DrainKeepsMessages DEF drainSend, RestTypes, InHand
  <2>2. RestTypes'
    BY <1>0, <1>5, <2>1 DEF drainSend, RestTypes, InHand, clientVars, loopVars, userVars
  <2> QED
    BY <1>5, <2>2 DEF drainSend, writeSession, SessTypes, clientVars
<1>6. ASSUME NEW f \in Sockets, connectDone(f) PROVE SessTypes' /\ RestTypes'
  <2>1. SessTypes' /\ lpc' \in {lpc, "state"}
    <3>1. CASE cstate = "freed"
      BY <1>6, <3>1 DEF connectDone, SessTypes
    <3>2. CASE cstate # "freed"
      <4>1. opened' = opened \cup {f} /\ cstate' \in {"disconnected", "connecting", "connected"}
        BY <1>6, <3>2 DEF connectDone, SessTypes, EntriesKnown
      <4> QED
        BY <1>6, <3>2, <4>1, RealConnectTypes DEF connectDone
    <3> QED
      BY <3>1, <3>2
  <2> QED
    BY <1>0, <1>6, <2>1 DEF connectDone, LoopIdle, RestTypes, InHand, userVars
<1>7. ASSUME NEW f \in Sockets, connectFailed(f) PROVE SessTypes' /\ RestTypes'
  <2>1. CASE cstate = "freed"
    BY <1>0, <1>7, <2>1 DEF connectFailed, SessTypes, RestTypes, InHand, loopVars, userVars, history
  <2>2. CASE cstate # "freed"
    <3>1. f \notin unheard
      BY <1>7 DEF connectFailed, LoopIdle, EntriesKnown, OpenIsWatched
    <3> QED
      BY <1>7, <2>2, <3>1, ReConnectTypes
      DEF connectFailed, SessTypes, RestTypes, InHand, loopVars, userVars, history
  <2> QED
    BY <2>1, <2>2
<1>8. ASSUME NEW f \in Sockets, answer(f) PROVE SessTypes' /\ RestTypes'
  <2>1. RestTypes'
    BY <1>0, <1>8 DEF answer, RestTypes, InHand, clientVars, loopVars, userVars
  <2> QED
    BY <1>8, <2>1 DEF answer, writeSession, SessTypes, clientVars
<1>9. ASSUME NEW f \in Sockets, lost(f) PROVE SessTypes' /\ RestTypes'
  <2>1. CASE UNCHANGED <<cstate, delay, timers, loopVars>> /\ crash' = "freed"
    BY <1>0, <1>9, <2>1 DEF lost, SessTypes, RestTypes, InHand, sessVars, loopVars, userVars
  <2>2. CASE onReConnect /\ lpc' = "lost" /\ lcur' = ev[f] /\ UNCHANGED crash
    BY <1>9, <2>2, ReConnectTypes
    DEF lost, SessTypes, RestTypes, InHand, sessVars, userVars
  <2> QED
    BY <1>9, <2>1, <2>2 DEF lost
<1>10. CASE setConnected
  BY <1>0, <1>10 DEF setConnected, SessTypes, RestTypes, InHand, sessVars, userVars
<1>11. CASE setSession
  <2>1. RestTypes'
    BY <1>0, <1>11 DEF setSession, RestTypes, InHand, clientVars, userVars
  <2> QED
    BY <1>11, <2>1 DEF setSession, SessTypes, clientVars
<1>12. CASE forget
  BY <1>0, <1>12 DEF forget, SessTypes, RestTypes, InHand, sessVars, userVars
<1> QED
  BY <1>1, <1>2, <1>3, <1>4, <1>5, <1>6, <1>7, <1>8, <1>9, <1>10, <1>11, <1>12 DEF loopStep

LEMMA UserTypes ==
  ASSUME SessTypes, RestTypes, userStep
  PROVE  SessTypes' /\ RestTypes'
<1>0. MaxTimers \in Nat /\ QueueCap \in Nat /\ MaxDelay \in Nat
  BY TcpClientAssumption
<1>1. CASE startHere
  <2>1. SessTypes' /\ lpc' \in {lpc, "state"}
    BY <1>1, StartConnectTypes DEF startHere
  <2> QED
    BY <1>0, <1>1, <2>1 DEF startHere, UserIdle, RestTypes, InHand
<1>2. CASE startElsewhere
  <2>1. Msg("CONNECT", NULL) \in Messages
    BY DEF Messages
  <2>2. queue' \in Seq(Messages) /\ Len(queue') <= QueueCap
    BY <1>2, <2>1, PushKeepsMessages DEF startElsewhere, RestTypes, InHand
  <2> QED
    BY <1>0, <1>2, <2>2
    DEF startElsewhere, SessTypes, RestTypes, InHand, clientVars, sessVars, loopVars
<1>3. CASE stopHere
  <2>1. RestTypes'
    BY <1>0, <1>3 DEF stopHere, RestTypes, InHand, loopVars
  <2>2. CASE csession # NULL /\ removeAndDestroy(csession) /\ UNCHANGED crash
    <3>1. csession \in Sessions
      BY <2>2 DEF SessTypes
    <3> QED
      BY <1>3, <2>1, <2>2, <3>1, RemoveTypes DEF stopHere
  <2>3. CASE UNCHANGED sessVars /\ crash' \in {crash, "freed"}
    BY <1>3, <2>1, <2>3 DEF stopHere, SessTypes, sessVars
  <2> QED
    BY <1>3, <2>2, <2>3 DEF stopHere
<1>4. CASE stopElsewhere
  BY <1>0, <1>4 DEF stopElsewhere, SessTypes, RestTypes, InHand, Stopping, sessVars, loopVars
<1>5. CASE stopTest
  BY <1>0, <1>5
  DEF stopTest, SessTypes, RestTypes, InHand, Stopping, clientVars, sessVars, loopVars
<1>6. CASE stopCheck
  <2>1. PICK s \in Sessions \cup {NULL} :
          /\ ucur' = s
          /\ crash' \in {crash, "session", "freed"}
          /\ upc' \in {"stopCheck", "stopClear"} \/ (s \in Sessions /\ upc' = "stopPush")
    <3>1. ucur \in Sessions \cup {NULL} /\ csession \in Sessions \cup {NULL}
      BY DEF SessTypes, RestTypes
    <3>2. PICK s \in {ucur, csession} :
            /\ ucur' = s
            /\ \/ s = NULL /\ crash' = "session" /\ UNCHANGED upc
               \/ s # NULL /\ sstate[s] = "freed" /\ crash' = "freed" /\ UNCHANGED upc
               \/ s # NULL /\ sstate[s] = "connected" /\ upc' = "stopPush" /\ UNCHANGED crash
               \/ s # NULL /\ upc' = "stopClear" /\ UNCHANGED crash
      BY <1>6 DEF stopCheck
    <3>3. upc = "stopCheck"
      BY <1>6 DEF stopCheck
    <3>4. /\ s \in Sessions \cup {NULL}
          /\ crash' \in {crash, "session", "freed"}
          /\ upc' \in {"stopCheck", "stopClear"} \/ (s \in Sessions /\ upc' = "stopPush")
      <4>1. s \in Sessions \cup {NULL}
        BY <3>1, <3>2
      <4>2. crash' \in {crash, "session", "freed"}
        BY <3>2
      <4>3. s # NULL => s \in Sessions
        BY <4>1
      <4>4. upc' \in {"stopCheck", "stopClear"} \/ (s \in Sessions /\ upc' = "stopPush")
        BY <3>2, <3>3, <4>3
      <4> QED
        BY <4>1, <4>2, <4>4
    <3> QED
      BY <3>2, <3>4
  <2>2. SessTypes'
    BY <1>6, <2>1 DEF stopCheck, SessTypes, clientVars, sessVars
  <2> QED
    BY <1>0, <1>6, <2>1, <2>2 DEF stopCheck, RestTypes, InHand, Stopping, clientVars, loopVars
<1>7. CASE stopPush
  <2>1. ucur \in Sessions
    BY <1>7 DEF stopPush, RestTypes, InHand
  <2>2. queue' \in Seq(Messages) /\ Len(queue') <= QueueCap
    <3>1. Msg("REMOVE", ucur) \in Messages
      BY <2>1 DEF Messages, Msg
    <3> QED
      BY <1>7, <3>1, PushKeepsMessages DEF stopPush, RestTypes, InHand
  <2>3. SessTypes'
    BY <1>7 DEF stopPush, SessTypes, clientVars
  <2> QED
    BY <1>0, <1>7, <2>1, <2>2, <2>3 DEF stopPush, RestTypes, InHand, Stopping, clientVars, loopVars
<1>8. CASE stopClear
  BY <1>0, <1>8 DEF stopClear, SessTypes, RestTypes, InHand, Stopping, sessVars, loopVars
<1>9. CASE sendElsewhere
  BY <1>0, <1>9
  DEF sendElsewhere, SessTypes, RestTypes, InHand, Stopping, clientVars, sessVars, loopVars
<1>10. CASE sendCheck
  <2>1. ucur \in Sessions
    BY <1>10 DEF sendCheck, RestTypes, InHand
  <2>2. queue' \in Seq(Messages) /\ Len(queue') <= QueueCap
    <3>1. Msg("SEND", ucur) \in Messages
      BY <2>1 DEF Messages, Msg
    <3> QED
      BY <1>10, <3>1, PushKeepsMessages DEF sendCheck, RestTypes, InHand
  <2>3. SessTypes'
    BY <1>10 DEF sendCheck, SessTypes, clientVars, sessVars
  <2> QED
    BY <1>0, <1>10, <2>2, <2>3 DEF sendCheck, RestTypes, InHand, Stopping, clientVars, loopVars
<1>11. CASE destroyHere
  <2>1. RestTypes'
    BY <1>0, <1>11 DEF destroyHere, RestTypes, InHand, loopVars
  <2>2. SessTypes'
    BY <1>11 DEF destroyHere, destroySession, SessTypes
  <2> QED
    BY <2>1, <2>2
<1> QED
  BY <1>1, <1>2, <1>3, <1>4, <1>5, <1>6, <1>7, <1>8, <1>9, <1>10, <1>11 DEF userStep

LEMMA InitTypes == Init => ClientTypes
<1> SUFFICES ASSUME Init PROVE ClientTypes
  OBVIOUS
<1>1. MaxTimers \in Nat /\ QueueCap \in Nat
  BY TcpClientAssumption
<1>2. SessTypes
  BY DEF Init, SessTypes
<1>3. RestTypes
  <2>1. queue = <<>> /\ Len(queue) = 0 /\ queue \in Seq(Messages)
    BY DEF Init
  <2> QED
    BY <1>1, <2>1 DEF Init, RestTypes, InHand
<1> QED
  BY <1>2, <1>3, TypesSplit

LEMMA NextTypes == ClientTypes /\ EntriesKnown /\ OpenIsWatched /\ [Next]_vars => ClientTypes'
<1> SUFFICES ASSUME ClientTypes, EntriesKnown, OpenIsWatched, [Next]_vars PROVE ClientTypes'
  OBVIOUS
<1>1. SessTypes /\ RestTypes
  BY TypesSplit
<1>2. SessTypes' /\ RestTypes'
  <2>1. CASE UNCHANGED vars
    BY <1>1, <2>1 DEF SessTypes, RestTypes, InHand, vars, clientVars, sessVars, loopVars, userVars
  <2> QED
    BY <1>1, <2>1, LoopTypes, UserTypes DEF Next
<1> QED
  BY <1>2 DEF ClientTypes, ClientTypeOK, SessTypes, RestTypes
-----------------------------------------------------------------------------
(* Sessions, sockets and what ae has registered *)

SockInv == EntriesKnown /\ LiveOwnsSocket /\ OpenIsWatched

\* No session is made or freed, no socket opened or closed.
LEMMA SameSocks ==
  ASSUME SockInv, UNCHANGED <<cfd, opened, ev, unheard>>,
         \A s \in Sessions : /\ sstate'[s] = "none" <=> sstate[s] = "none"
                             /\ Live(s)' <=> Live(s),
         crash' = "none" => crash = "none"
  PROVE  SockInv' /\ Pending' = Pending /\ Abandoned' = Abandoned
<1>1. EntriesKnown' /\ LiveOwnsSocket' /\ OpenIsWatched'
  BY DEF SockInv, EntriesKnown, LiveOwnsSocket, OpenIsWatched
<1> QED
  BY <1>1 DEF SockInv, Pending, Abandoned

\* A socket that no live session has becomes a session's.
LEMMA RealConnectKeeps ==
  ASSUME SessTypes, SockInv, crash = "none",
         NEW f \in Sockets, realConnect(f), opened' = opened \cup {f},
         f \notin opened \/ ev[f] = CONNECTING
  PROVE  SockInv' /\ csession' # NULL /\ (crash' = "none" => Live(csession)')
<1>0. CONNECTING \notin Sessions \cup {NULL} /\ NULL \notin Sessions
  BY TcpClientAssumption
<1>1. PICK s \in Sessions :
        /\ csession' = s
        /\ IF sstate[s] = "freed"
           THEN crash' = "freed" /\ UNCHANGED <<cfd, sstate, readable, ev, unheard>>
           ELSE /\ sstate' = [sstate EXCEPT ![s] = IF @ = "none" THEN "connecting" ELSE @]
                /\ readable' = [readable EXCEPT ![s] = TRUE]
                /\ cfd' = [cfd EXCEPT ![s] = f]
                /\ register(f, s)
                /\ UNCHANGED crash
  BY DEF realConnect
<1>2. CASE sstate[s] = "freed"
  <2>1. crash' # "none" /\ UNCHANGED <<sstate, ev>>
    BY <1>1, <1>2
  <2> QED
    BY <1>0, <1>1, <2>1 DEF SockInv, EntriesKnown, LiveOwnsSocket, OpenIsWatched
<1>3. CASE sstate[s] # "freed"
  <2>1. /\ \A g \in Sockets : g # f => ev'[g] = ev[g]
        /\ \/ ev'[f] = s /\ unheard' = unheard
           \/ /\ ev'[f] = (IF ev[f] = CONNECTING THEN NULL ELSE ev[f])
              /\ unheard' = unheard \cup {f}
    BY <1>1, <1>3, RegisterIs
  <2>2. f \notin unheard /\ ev[f] \notin Sessions
    BY <1>0 DEF SockInv, EntriesKnown, OpenIsWatched, SessTypes
  <2>3. \A t \in Sessions : sstate'[t] = IF t = s /\ sstate[s] = "none" THEN "connecting" ELSE sstate[t]
    BY <1>1, <1>3 DEF SessTypes
  <2>4. \A t \in Sessions : cfd'[t] = IF t = s THEN f ELSE cfd[t]
    BY <1>1, <1>3 DEF SessTypes
  <2>5. Live(s)'
    BY <1>3, <2>3 DEF Live, SessTypes
  <2>6. ASSUME NEW t \in Sessions, t # s, Live(t)'
        PROVE  Live(t) /\ cfd[t] # f
    <3>1. Live(t)
      BY <2>3, <2>6 DEF Live
    <3>2. cfd[t] \in opened /\ (ev[cfd[t]] = t \/ cfd[t] \in unheard)
      BY <3>1 DEF SockInv, LiveOwnsSocket
    <3> QED
      BY <1>0, <2>2, <3>1, <3>2
  <2>7. EntriesKnown'
    BY <1>0, <1>3, <2>1, <2>2, <2>3 DEF SockInv, EntriesKnown
  <2>8. LiveOwnsSocket'
    <3> SUFFICES ASSUME NEW t \in Sessions, Live(t)'
                 PROVE  /\ cfd'[t] \in opened'
                        /\ ev'[cfd'[t]] = t \/ cfd'[t] \in unheard'
                        /\ \A u \in Sessions : Live(u)' /\ cfd'[u] = cfd'[t] => u = t
      BY DEF LiveOwnsSocket
    <3>1. CASE t = s
      BY <2>1, <2>4, <2>6, <3>1
    <3>2. CASE t # s
      <4>1. Live(t) /\ cfd'[t] = cfd[t] /\ cfd[t] # f
        BY <2>4, <2>6, <3>2
      <4>2. /\ cfd[t] \in opened /\ (ev[cfd[t]] = t \/ cfd[t] \in unheard)
            /\ \A u \in Sessions : Live(u) /\ cfd[u] = cfd[t] => u = t
        BY <4>1 DEF SockInv, LiveOwnsSocket
      <4>3. cfd[t] \in Sockets
        BY <4>2 DEF SessTypes
      <4> QED
        BY <2>1, <2>4, <2>6, <4>1, <4>2, <4>3
    <3> QED
      BY <3>1, <3>2
  <2>9. OpenIsWatched'
    BY <1>0, <2>1, <2>2 DEF SockInv, OpenIsWatched, SessTypes
  <2> QED
    BY <1>0, <1>1, <2>5, <2>7, <2>8, <2>9 DEF SockInv
<1> QED
  BY <1>2, <1>3

\* A new socket begins to connect, or is refused.
LEMMA AttemptKeeps ==
  ASSUME SessTypes, SockInv, crash = "none",
         NEW f \in Sockets \ opened, opened' = opened \cup {f}, register(f, CONNECTING),
         UNCHANGED <<sstate, cfd, crash>>
  PROVE  SockInv' /\ (Pending' # {} \/ Abandoned' # {})
<1>0. CONNECTING \notin Sessions \cup {NULL}
  BY TcpClientAssumption
<1>1. /\ \A g \in Sockets : g # f => ev'[g] = ev[g]
      /\ \/ ev'[f] = CONNECTING /\ unheard' = unheard
         \/ ev'[f] = ev[f] /\ unheard' = unheard \cup {f}
  BY RegisterIs DEF SockInv, EntriesKnown
<1>2. f \notin unheard /\ ev[f] \notin Sessions \cup {CONNECTING}
  BY DEF SockInv, EntriesKnown, SessTypes
<1>3. \A s \in Sessions : Live(s) => cfd[s] # f
  BY DEF SockInv, LiveOwnsSocket
<1>4. EntriesKnown'
  BY <1>0, <1>1, <1>2 DEF SockInv, EntriesKnown
<1>5. LiveOwnsSocket'
  BY <1>1, <1>3 DEF SockInv, LiveOwnsSocket, Live, SessTypes
<1>6. OpenIsWatched'
  BY <1>1, <1>2 DEF SockInv, OpenIsWatched, SessTypes
<1>7. Pending' # {} \/ Abandoned' # {}
  BY <1>1, <1>3 DEF Pending, Abandoned, Live
<1> QED
  BY <1>4, <1>5, <1>6, <1>7 DEF SockInv

LEMMA StartConnectKeeps ==
  ASSUME SessTypes, SockInv, crash = "none", lpc = "idle",
         NEW state \in {"disconnected", "connecting", "connected"}, startConnectInLoop(state)
  PROVE  /\ SockInv' /\ cstate' = state
         /\ crash' = "none" /\ state = "connecting" =>
              Pending' # {} \/ Abandoned' # {} \/ lpc' = "state"
         /\ \/ UNCHANGED <<csession, lpc, raced>>
            \/ /\ lpc' = "state" /\ raced' = (raced \/ upc # "idle")
               /\ csession' # NULL /\ (crash' = "none" => Live(csession)')
<1>1. CASE /\ cstate' = state /\ UNCHANGED <<csession, sessVars, lpc, raced>>
           /\ (crash' = "connect" \/ (state # "connecting" /\ crash' = crash))
  <2>1. SockInv'
    BY <1>1, SameSocks DEF sessVars, Live
  <2> QED
    BY <1>1, <2>1
<1>2. ASSUME NEW f \in Sockets \ opened, opened' = opened \cup {f}, cstate' = state, realConnect(f)
      PROVE  /\ SockInv' /\ cstate' = state /\ lpc' = "state" /\ raced' = (raced \/ upc # "idle")
             /\ csession' # NULL /\ (crash' = "none" => Live(csession)')
  BY <1>2, RealConnectKeeps DEF realConnect
<1>3. ASSUME NEW f \in Sockets \ opened, opened' = opened \cup {f}, register(f, CONNECTING),
             cstate' = state, UNCHANGED <<csession, sstate, cfd, readable, lpc, crash, raced>>
      PROVE  SockInv' /\ (Pending' # {} \/ Abandoned' # {})
  BY <1>3, AttemptKeeps
<1> QED
  BY <1>1, <1>2, <1>3 DEF startConnectInLoop

\* A live session is freed, its event deleted and its socket closed.
LEMMA RemoveKeeps ==
  ASSUME SessTypes, SockInv, NEW s \in Sessions, Live(s), destroySession(s), UNCHANGED <<crash, cfd>>,
         crash = "none", NEW x \in {NULL, STALE}, ev' = [ev EXCEPT ![cfd[s]] = x]
  PROVE  SockInv' /\ Pending \subseteq Pending' /\ Abandoned \subseteq Abandoned'
<1>0. /\ CONNECTING \notin Sessions /\ STALE \notin Sessions
      /\ CONNECTING # STALE /\ CONNECTING # NULL /\ NULL \notin Sessions
  BY TcpClientAssumption DEF CONNECTING, STALE
<1>1. /\ sstate' = [sstate EXCEPT ![s] = "freed"]
      /\ opened' = opened \ {cfd[s]} /\ unheard' = unheard \ {cfd[s]}
  BY DEF destroySession
<1>2. cfd[s] \in Sockets /\ ev[cfd[s]] # CONNECTING
  BY <1>0 DEF SockInv, LiveOwnsSocket, OpenIsWatched, SessTypes
<1>3. \A g \in Sockets : ev'[g] = IF g = cfd[s] THEN x ELSE ev[g]
  BY DEF SessTypes
<1>4. \A t \in Sessions : sstate'[t] = IF t = s THEN "freed" ELSE sstate[t]
  BY <1>1 DEF SessTypes
<1>5. \A t \in Sessions : Live(t)' => t # s /\ Live(t) /\ cfd[t] # cfd[s]
  BY <1>4 DEF Live, SockInv, LiveOwnsSocket
<1>6. EntriesKnown'
  BY <1>0, <1>1, <1>3, <1>4 DEF SockInv, EntriesKnown
<1>7. LiveOwnsSocket'
  BY <1>1, <1>3, <1>5 DEF SockInv, LiveOwnsSocket, SessTypes
<1>8. OpenIsWatched'
  BY <1>1, <1>3 DEF SockInv, OpenIsWatched, SessTypes
<1>9. Pending \subseteq Pending'
  BY <1>2, <1>3 DEF Pending
<1>10. Abandoned \subseteq Abandoned'
  BY <1>1, <1>5 DEF Abandoned
<1> QED
  BY <1>6, <1>7, <1>8, <1>9, <1>10 DEF SockInv
-----------------------------------------------------------------------------
(* The steps *)

\* What is left to show of a step once the types are known.
Kept == SockInv' /\ ConnectingPends' /\ ConnectedHasSession' /\ AloneInCallback'

\* A step that changes neither sessions nor sockets, and makes no client
\* connecting or connected.
LEMMA QuietStep ==
  ASSUME ClientInv, crash = "none",
         UNCHANGED <<csession, sstate, cfd, opened, ev, unheard, retry>>,
         cstate' = cstate \/ cstate' = "disconnected",
         timers' = timers \/ crash' # "none",
         lpc' = lpc \/ (lpc = "remove" /\ lpc' = "idle"),
         raced => raced',
         upc' \in Stopping => upc \in Stopping \/ cstate' # "connected",
         InCallback /\ ~raced' /\ upc = "idle" => upc' = "idle"
  PROVE  Kept
<1>1. SockInv' /\ Pending' = Pending /\ Abandoned' = Abandoned
  BY SameSocks DEF ClientInv, SockInv, Live
<1>2. ConnectingPends'
  BY <1>1 DEF ClientInv, ConnectingPends
<1>3. ConnectedHasSession'
  BY DEF ClientInv, ConnectedHasSession
<1>4. AloneInCallback'
  BY DEF ClientInv, AloneInCallback, InCallback, Connecting, Live
<1> QED
  BY <1>1, <1>2, <1>3, <1>4 DEF Kept

LEMMA StartConnectStep ==
  ASSUME ClientInv, crash = "none", lpc = "idle",
         NEW state \in {"disconnected", "connecting", "connected"}, startConnectInLoop(state),
         state = "connected" => cstate = "connected",
         UNCHANGED <<retry, upc>>
  PROVE  Kept
<1>1. /\ SockInv' /\ cstate' = state
      /\ crash' = "none" /\ state = "connecting" =>
           Pending' # {} \/ Abandoned' # {} \/ lpc' = "state"
      /\ \/ UNCHANGED <<csession, lpc, raced>>
         \/ /\ lpc' = "state" /\ raced' = (raced \/ upc # "idle")
            /\ csession' # NULL /\ (crash' = "none" => Live(csession)')
  BY StartConnectKeeps, TypesSplit DEF ClientInv, SockInv
<1>2. ConnectingPends'
  BY <1>1 DEF ConnectingPends
<1>3. ConnectedHasSession'
  <2>1. CASE UNCHANGED <<csession, raced>>
    <3>1. cstate' = "connected" => cstate = "connected"
      BY <1>1
    <3>2. crash' = "none" => crash = "none"
      OBVIOUS
    <3> QED
      BY <2>1, <3>1, <3>2 DEF ClientInv, ConnectedHasSession
  <2>2. CASE raced' = (raced \/ upc # "idle") /\ csession' # NULL
    BY <2>2 DEF ConnectedHasSession, Stopping
  <2> QED
    BY <1>1, <2>1, <2>2
<1>4. AloneInCallback'
  BY <1>1 DEF AloneInCallback, InCallback, Connecting
<1> QED
  BY <1>1, <1>2, <1>3, <1>4 DEF Kept

LEMMA RemoveStepKeeps ==
  ASSUME ClientInv, crash = "none", NEW s \in Sessions, Live(s), destroySession(s),
         NEW x \in {NULL, STALE}, ev' = [ev EXCEPT ![cfd[s]] = x],
         UNCHANGED <<crash, cfd, retry, timers, upc>>, lpc \in {"idle", "remove"}, lpc' = "idle",
         raced => raced',
         \/ UNCHANGED <<cstate, csession>>
         \/ cstate' \in {"disconnected", "freed"}
  PROVE  Kept
<1>1. SockInv' /\ Pending \subseteq Pending' /\ Abandoned \subseteq Abandoned'
  BY RemoveKeeps, TypesSplit DEF ClientInv, SockInv
<1>2. ConnectingPends'
  BY <1>1 DEF ClientInv, ConnectingPends
<1>3. ConnectedHasSession'
  BY DEF ClientInv, ConnectedHasSession
<1>4. AloneInCallback'
  BY DEF AloneInCallback, InCallback, Connecting
<1> QED
  BY <1>1, <1>2, <1>3, <1>4 DEF Kept

\* removeAndDestroy leaves ae one of two entries for the socket.
LEMMA RemoveIs ==
  ASSUME SessTypes, NEW s \in Sessions, removeAndDestroy(s)
  PROVE  /\ destroySession(s) /\ cfd' = cfd
         /\ \E x \in {NULL, STALE} : ev' = [ev EXCEPT ![cfd[s]] = x]
BY DEF removeAndDestroy, SessTypes

\* After onReConnect of a client that retries a timer is pending.
LEMMA ReConnectStep ==
  ASSUME ClientInv, crash = "none", onReConnect, SockInv',
         UNCHANGED <<crash, csession, retry, upc>>, raced => raced',
         lpc = "idle", lpc' = "idle" \/ (lpc' = "lost" /\ (~raced' => upc = "idle"))
  PROVE  Kept
<1>1. timers \in Nat
  BY TcpClientAssumption DEF ClientInv, ClientTypes, ClientTypeOK
<1>2. CASE retry
  <2>1. cstate' = "connecting" /\ timers' > 0 /\ retry'
    BY <1>1, <1>2 DEF onReConnect
  <2> QED
    BY <2>1 DEF Kept, ConnectingPends, ConnectedHasSession, AloneInCallback, InCallback, Connecting
<1>3. CASE ~retry
  <2>1. ~retry' /\ cstate' = cstate
    BY <1>3 DEF onReConnect
  <2>2. upc \in Stopping /\ ~raced' => cstate # "connected"
    BY DEF ClientInv, ConnectedHasSession
  <2> QED
    BY <2>1, <2>2
    DEF Kept, ConnectingPends, ConnectedHasSession, AloneInCallback, InCallback, Connecting
<1> QED
  BY <1>2, <1>3

LEMMA LoopKeeps ==
  ASSUME ClientInv, loopStep
  PROVE  Kept
<1>0. /\ SessTypes /\ RestTypes
      /\ SockInv
  BY TypesSplit DEF ClientInv, SockInv
<1>1. CASE timerFires
  <2>1. CASE cstate = "freed"
    BY <1>1, <2>1, QuietStep DEF timerFires, LoopIdle, InCallback, Connecting, sessVars, userVars
  <2>2. CASE cstate # "freed"
    <3>1. cstate \in {"disconnected", "connecting", "connected"}
      BY <1>0, <2>2 DEF SessTypes
    <3> QED
      BY <1>1, <2>2, <3>1, StartConnectStep DEF timerFires, LoopIdle, userVars
  <2> QED
    BY <2>1, <2>2
<1>2. CASE removeStep
  <2>1. /\ lcur \in Sessions /\ crash = "none" /\ lpc = "remove" /\ lpc' = "idle"
        /\ UNCHANGED <<cstate, csession, retry, timers, upc, raced>>
    BY <1>0, <1>2 DEF removeStep, RestTypes, InHand, clientVars, userVars, history
  <2>2. CASE sstate[lcur] = "connected" /\ removeAndDestroy(lcur) /\ UNCHANGED crash
    BY <1>0, <2>1, <2>2, RemoveIs, RemoveStepKeeps DEF Live
  <2>3. CASE UNCHANGED sessVars
    BY <2>1, <2>3, QuietStep DEF sessVars
  <2> QED
    BY <1>2, <2>2, <2>3 DEF removeStep
<1>3. CASE drainConnect
  <2>1. crash = "none" /\ lpc = "idle" /\ UNCHANGED <<retry, timers, upc>>
    BY <1>3 DEF drainConnect, Draining, LoopIdle, userVars
  <2>2. CASE startConnectInLoop("connecting")
    BY <2>1, <2>2, StartConnectStep
  <2>3. CASE crash' \in {"message", "freed"} /\ UNCHANGED <<cstate, csession, sessVars, lpc, raced>>
    BY <2>1, <2>3, QuietStep DEF sessVars
  <2> QED
    BY <1>3, <2>2, <2>3 DEF drainConnect
<1>4. CASE drainRemove
  <2> DEFINE s == Head(queue).session
  <2>1. s \in Sessions
    <3>1. Head(queue) \in Messages /\ Head(queue).type = "REMOVE"
      BY <1>0, <1>4, DrainKeepsMessages DEF drainRemove, RestTypes, InHand
    <3> QED
      BY <3>1 DEF Messages, Msg
  <2>2. /\ crash = "none" /\ lpc = "idle" /\ lpc' = "idle"
        /\ UNCHANGED <<cstate, csession, retry, timers, upc, raced>>
    BY <1>4 DEF drainRemove, Draining, LoopIdle, clientVars, loopVars, userVars, history
  <2>3. CASE Live(s) /\ removeAndDestroy(s) /\ UNCHANGED crash
    BY <1>0, <2>1, <2>2, <2>3, RemoveIs, RemoveStepKeeps
  <2>4. CASE crash' = "freed" /\ UNCHANGED sessVars
    BY <2>2, <2>4, QuietStep DEF sessVars
  <2> QED
    BY <1>4, <2>3, <2>4 DEF drainRemove
<1>5. CASE drainSend
  <2>1. /\ crash = "none" /\ UNCHANGED <<sstate, cfd, opened, ev, unheard>>
        /\ UNCHANGED <<cstate, csession, retry, timers, lpc, upc, raced>>
    BY <1>5 DEF drainSend, Draining, LoopIdle, clientVars, loopVars, userVars, history
  <2> QED
    BY <2>1, QuietStep
<1>6. ASSUME NEW f \in Sockets, connectDone(f) PROVE Kept
  <2>1. /\ crash = "none" /\ lpc = "idle" /\ ev[f] = CONNECTING
        /\ UNCHANGED <<cstate, retry, timers, upc, opened>>
    BY <1>6 DEF connectDone, LoopIdle, userVars
  <2>2. CASE cstate = "freed"
    BY <1>6, <2>1, <2>2, QuietStep DEF connectDone
  <2>3. CASE cstate # "freed"
    <3>1. realConnect(f)
      BY <1>6, <2>3 DEF connectDone
    <3>2. opened' = opened \cup {f}
      BY <1>0, <2>1 DEF SockInv, EntriesKnown
    <3>3. SockInv' /\ csession' # NULL /\ (crash' = "none" => Live(csession)')
      BY <1>0, <2>1, <3>1, <3>2, RealConnectKeeps
    <3>4. lpc' = "state" /\ raced' = (raced \/ upc # "idle")
      BY <3>1 DEF realConnect
    <3>5. ConnectingPends' /\ AloneInCallback'
      BY <2>1, <3>3, <3>4 DEF ConnectingPends, AloneInCallback, InCallback, Connecting
    <3>6. ConnectedHasSession'
      BY <2>1, <3>3, <3>4 DEF ClientInv, ConnectedHasSession, Stopping
    <3> QED
      BY <3>3, <3>5, <3>6 DEF Kept
  <2> QED
    BY <2>2, <2>3
<1>7. ASSUME NEW f \in Sockets, connectFailed(f) PROVE Kept
  <2>1. /\ crash = "none" /\ ev[f] = CONNECTING /\ lpc = "idle" /\ lpc' = "idle"
        /\ UNCHANGED <<csession, retry, sstate, cfd, unheard, upc, raced>>
    BY <1>7 DEF connectFailed, LoopIdle, loopVars, userVars, history
  <2>2. CASE cstate = "freed"
    BY <1>7, <2>1, <2>2, QuietStep DEF connectFailed
  <2>3. CASE cstate # "freed"
    <3>1. /\ ev' = [ev EXCEPT ![f] = NULL] /\ opened' = opened \ {f}
          /\ onReConnect /\ UNCHANGED crash
      BY <1>7, <2>3 DEF connectFailed
    <3>2. /\ CONNECTING \notin Sessions /\ NULL \notin Sessions /\ NULL # CONNECTING
      BY TcpClientAssumption
    <3>3. \A g \in Sockets : ev'[g] = IF g = f THEN NULL ELSE ev[g]
      BY <1>0, <3>1 DEF SessTypes
    <3>4. f \notin unheard
      BY <1>0, <2>1 DEF SockInv, EntriesKnown, OpenIsWatched
    <3>5. EntriesKnown'
      BY <1>0, <2>1, <3>1, <3>2, <3>3 DEF SockInv, EntriesKnown
    <3>6. LiveOwnsSocket'
      BY <1>0, <2>1, <3>1, <3>2, <3>3, <3>4 DEF SockInv, LiveOwnsSocket, Live, SessTypes
    <3>7. OpenIsWatched'
      BY <1>0, <2>1, <3>1, <3>3 DEF SockInv, OpenIsWatched, SessTypes
    <3> QED
      BY <2>1, <3>1, <3>5, <3>6, <3>7, ReConnectStep DEF SockInv
  <2> QED
    BY <2>2, <2>3
<1>8. ASSUME NEW f \in Sockets, answer(f) PROVE Kept
  <2>1. /\ crash = "none" /\ UNCHANGED <<sstate, cfd, opened, ev, unheard>>
        /\ UNCHANGED <<cstate, csession, retry, timers, lpc, upc, raced>>
    BY <1>8 DEF answer, LoopIdle, clientVars, loopVars, userVars, history
  <2> QED
    BY <2>1, QuietStep
<1>9. ASSUME NEW f \in Sockets, lost(f) PROVE Kept
  <2>1. /\ crash = "none" /\ lpc = "idle"
        /\ UNCHANGED <<csession, retry, sstate, cfd, opened, ev, unheard, upc>>
    BY <1>9 DEF lost, LoopIdle, sessVars, userVars
  <2>2. CASE crash' = "freed" /\ UNCHANGED <<cstate, loopVars, raced>>
    BY <2>1, <2>2, QuietStep DEF loopVars
  <2>3. CASE /\ onReConnect /\ lpc' = "lost" /\ raced' = (raced \/ InUse(ev[f])) /\ UNCHANGED crash
    <3>1. SockInv'
      BY <1>0, <2>1, <2>3, SameSocks DEF Live
    <3>2. (raced => raced') /\ (~raced' => upc = "idle")
      BY <2>3 DEF InUse
    <3> QED
      BY <2>1, <2>3, <3>1, <3>2, ReConnectStep
  <2> QED
    BY <1>9, <2>2, <2>3 DEF lost
<1>10. CASE setConnected
  <2>1. /\ lpc = "state" /\ lpc' = "session" /\ cstate' = "connected" /\ crash' = crash
        /\ UNCHANGED <<csession, retry, timers, sstate, cfd, opened, ev, unheard, upc, raced>>
    BY <1>10 DEF setConnected, sessVars, userVars, history
  <2>2. SockInv'
    BY <1>0, <2>1, SameSocks DEF Live
  <2>3. ConnectingPends' /\ ConnectedHasSession'
    BY <2>1
    DEF ConnectingPends, ClientInv, ConnectedHasSession, AloneInCallback, InCallback, Connecting, Stopping
  <2>4. AloneInCallback'
    BY <2>1 DEF ClientInv, AloneInCallback, InCallback, Connecting, Live
  <2> QED
    BY <2>2, <2>3, <2>4 DEF Kept
<1>11. CASE setSession
  <2>1. /\ crash = "none" /\ lpc = "session" /\ lpc' = "idle"
        /\ UNCHANGED <<cstate, csession, retry, timers, cfd, opened, ev, unheard, upc, raced>>
    BY <1>11 DEF setSession, clientVars, userVars, history
  <2>2. \A s \in Sessions : /\ sstate'[s] = "none" <=> sstate[s] = "none"
                            /\ Live(s)' <=> Live(s)
    <3>1. csession # NULL => Live(csession)
      BY <2>1 DEF ClientInv, AloneInCallback, Connecting
    <3>2. sstate' = sstate \/ (Live(csession) /\ sstate' = [sstate EXCEPT ![csession] = "connected"])
      BY <1>11, <3>1 DEF setSession
    <3> QED
      BY <1>0, <3>2 DEF SessTypes, Live
  <2>3. SockInv' /\ Pending' = Pending /\ Abandoned' = Abandoned
    BY <1>0, <2>1, <2>2, SameSocks
  <2>4. ConnectingPends' /\ ConnectedHasSession'
    BY <2>1, <2>3 DEF ClientInv, ConnectingPends, ConnectedHasSession
  <2>5. AloneInCallback'
    BY <2>1 DEF AloneInCallback, InCallback, Connecting
  <2> QED
    BY <2>3, <2>4, <2>5 DEF Kept
<1>12. CASE forget
  <2>1. /\ lpc = "lost" /\ lpc' = "remove" /\ crash' = crash
        /\ UNCHANGED <<cstate, retry, timers, sstate, cfd, opened, ev, unheard, upc, raced>>
    BY <1>12 DEF forget, sessVars, userVars, history
  <2>2. SockInv' /\ Pending' = Pending /\ Abandoned' = Abandoned
    BY <1>0, <2>1, SameSocks DEF Live
  <2>3. ConnectingPends' /\ ConnectedHasSession' /\ AloneInCallback'
    BY <2>1, <2>2
    DEF ClientInv, ConnectingPends, ConnectedHasSession, AloneInCallback, InCallback, Connecting
  <2> QED
    BY <2>2, <2>3 DEF Kept
<1> QED
  BY <1>1, <1>2, <1>3, <1>4, <1>5, <1>6, <1>7, <1>8, <1>9, <1>10, <1>11, <1>12 DEF loopStep

LEMMA UserKeeps ==
  ASSUME ClientInv, userStep
  PROVE  Kept
<1>0. SessTypes /\ RestTypes /\ SockInv
  BY TypesSplit DEF ClientInv, SockInv
<1>1. CASE startHere
  BY <1>1, StartConnectStep DEF startHere, UserIdle
<1>2. CASE startElsewhere
  <2>1. /\ crash = "none" /\ UNCHANGED <<sstate, cfd, opened, ev, unheard, retry>>
        /\ UNCHANGED <<cstate, timers, csession, lpc, raced, upc>>
    BY <1>2 DEF startElsewhere, UserIdle, clientVars, sessVars, loopVars
  <2> QED
    BY <2>1, QuietStep
<1>3. CASE stopHere
  <2>1. /\ crash = "none" /\ cstate' = "disconnected" /\ csession' = NULL
        /\ lpc = "idle" /\ lpc' = "idle" /\ (raced => raced')
        /\ UNCHANGED <<retry, timers, upc>> /\ upc = "idle"
    BY <1>3 DEF stopHere, UserIdle, loopVars
  <2>2. CASE UNCHANGED sessVars /\ crash' \in {crash, "freed"}
    <3>1. SockInv'
      BY <1>0, <2>1, <2>2, SameSocks DEF sessVars, Live
    <3> QED
      BY <2>1, <3>1
      DEF Kept, ConnectingPends, ConnectedHasSession, AloneInCallback, InCallback, Connecting
  <2>3. CASE /\ csession # NULL /\ sstate[csession] = "connected"
             /\ removeAndDestroy(csession) /\ UNCHANGED crash
    <3>1. csession \in Sessions /\ Live(csession)
      BY <1>0, <2>3 DEF SessTypes, Live
    <3> QED
      BY <1>0, <2>1, <2>3, <3>1, RemoveIs, RemoveStepKeeps
  <2> QED
    BY <1>3, <2>2, <2>3 DEF stopHere
<1>4. CASE stopElsewhere
  <2>1. /\ crash = "none" /\ UNCHANGED <<sstate, cfd, opened, ev, unheard, retry>>
        /\ UNCHANGED <<timers, csession, lpc>> /\ cstate' = "disconnected"
        /\ raced' = (raced \/ InCallback)
    BY <1>4 DEF stopElsewhere, UserIdle, sessVars, loopVars
  <2> QED
    BY <2>1, QuietStep
<1>5. CASE stopTest
  <2>1. /\ crash = "none" /\ UNCHANGED <<sstate, cfd, opened, ev, unheard, retry>>
        /\ UNCHANGED <<cstate, timers, csession, lpc, raced>> /\ upc = "stopTest"
    BY <1>5 DEF stopTest, clientVars, sessVars, loopVars, history
  <2> QED
    BY <2>1, QuietStep DEF Stopping
<1>6. CASE stopCheck
  <2>1. /\ crash = "none" /\ UNCHANGED <<sstate, cfd, opened, ev, unheard, retry>>
        /\ UNCHANGED <<cstate, timers, csession, lpc, raced>> /\ upc = "stopCheck"
    BY <1>6 DEF stopCheck, clientVars, sessVars, loopVars, history
  <2> QED
    BY <2>1, QuietStep DEF Stopping
<1>7. CASE stopPush
  <2>1. /\ crash = "none" /\ UNCHANGED <<cfd, opened, ev, unheard, retry>>
        /\ UNCHANGED <<cstate, timers, csession, lpc, raced>> /\ upc = "stopPush"
    BY <1>7 DEF stopPush, clientVars, loopVars, history
  <2>2. ucur \in Sessions
    BY <1>0, <2>1 DEF RestTypes, InHand
  <2>3. \A s \in Sessions : /\ sstate'[s] = "none" <=> sstate[s] = "none"
                            /\ Live(s)' <=> Live(s)
    BY <1>0, <1>7, <2>2 DEF stopPush, Live, SessTypes
  <2>4. SockInv' /\ Pending' = Pending /\ Abandoned' = Abandoned
    BY <1>0, <2>1, <2>3, SameSocks
  <2>5. ConnectingPends' /\ ConnectedHasSession'
    BY <2>1, <2>4 DEF ClientInv, ConnectingPends, ConnectedHasSession, Stopping
  <2>6. AloneInCallback'
    <3>1. Connecting' /\ csession' # NULL /\ crash' = "none" => Live(csession)'
      BY <1>0, <2>1, <2>3 DEF ClientInv, AloneInCallback, Connecting, SessTypes
    <3> QED
      BY <2>1, <3>1 DEF ClientInv, AloneInCallback, InCallback, Connecting
  <2> QED
    BY <2>4, <2>5, <2>6 DEF Kept
<1>8. CASE stopClear
  <2>1. /\ crash' = crash /\ UNCHANGED <<sstate, cfd, opened, ev, unheard, retry>>
        /\ UNCHANGED <<cstate, timers, lpc, raced>> /\ upc = "stopClear" /\ upc' = "idle"
        /\ csession' = NULL
    BY <1>8 DEF stopClear, sessVars, loopVars, history
  <2>2. SockInv' /\ Pending' = Pending /\ Abandoned' = Abandoned
    BY <1>0, <2>1, SameSocks DEF Live
  <2>3. ConnectingPends' /\ ConnectedHasSession'
    BY <2>1, <2>2 DEF ClientInv, ConnectingPends, ConnectedHasSession, Stopping
  <2>4. AloneInCallback'
    BY <2>1 DEF ClientInv, AloneInCallback, InCallback, Connecting
  <2> QED
    BY <2>2, <2>3, <2>4 DEF Kept
<1>9. CASE sendElsewhere
  <2>1. /\ crash = "none" /\ UNCHANGED <<sstate, cfd, opened, ev, unheard, retry>>
        /\ UNCHANGED <<cstate, timers, csession, lpc>> /\ upc' = "sendCheck"
        /\ raced' = (raced \/ InCallback)
    BY <1>9 DEF sendElsewhere, UserIdle, clientVars, sessVars, loopVars
  <2> QED
    BY <2>1, QuietStep DEF Stopping
<1>10. CASE sendCheck
  <2>1. /\ crash = "none" /\ UNCHANGED <<sstate, cfd, opened, ev, unheard, retry>>
        /\ UNCHANGED <<cstate, timers, csession, lpc, raced>> /\ upc' = "idle"
    BY <1>10 DEF sendCheck, clientVars, sessVars, loopVars, history
  <2> QED
    BY <2>1, QuietStep DEF Stopping
<1>11. CASE destroyHere
  <2>1. /\ crash = "none" /\ cstate' = "freed" /\ lpc = "idle" /\ lpc' = "idle" /\ upc = "idle"
        /\ UNCHANGED <<cfd, retry, timers, upc, raced>>
    BY <1>11 DEF destroyHere, UserIdle, loopVars
  <2>2. CASE UNCHANGED <<sstate, opened, ev, unheard>>
    <3>1. SockInv'
      BY <1>0, <2>1, <2>2, SameSocks DEF Live
    <3> QED
      BY <2>1, <3>1
      DEF Kept, ConnectingPends, ConnectedHasSession, AloneInCallback, InCallback, Connecting
  <2>3. CASE /\ csession # NULL /\ Live(csession) /\ UNCHANGED crash
             /\ ev' = [ev EXCEPT ![cfd[csession]] = IF @ = NULL THEN NULL ELSE STALE]
             /\ destroySession(csession)
    <3>1. csession \in Sessions
      BY <1>0, <2>3 DEF SessTypes
    <3>2. PICK x \in {NULL, STALE} : ev' = [ev EXCEPT ![cfd[csession]] = x]
      BY <2>3
    <3> QED
      BY <2>1, <2>3, <3>1, <3>2, RemoveStepKeeps
  <2> QED
    BY <1>11, <2>2, <2>3 DEF destroyHere
<1> QED
  BY <1>1, <1>2, <1>3, <1>4, <1>5, <1>6, <1>7, <1>8, <1>9, <1>10, <1>11 DEF userStep

LEMMA InitClientInv == Init => ClientInv
<1> SUFFICES ASSUME Init PROVE ClientInv
  OBVIOUS
<1>1. NULL \notin Sessions /\ NULL # STALE /\ NULL # CONNECTING
  BY TcpClientAssumption
<1>2. EntriesKnown /\ LiveOwnsSocket /\ OpenIsWatched
  BY <1>1 DEF Init, EntriesKnown, LiveOwnsSocket, OpenIsWatched, Live
<1>3. ConnectingPends /\ ConnectedHasSession /\ AloneInCallback
  BY DEF Init, ConnectingPends, ConnectedHasSession, AloneInCallback, InCallback, Connecting, Stopping
<1> QED
  BY <1>2, <1>3, InitTypes DEF ClientInv

LEMMA NextClientInv == ClientInv /\ [Next]_vars => ClientInv'
<1> SUFFICES ASSUME ClientInv, [Next]_vars PROVE ClientInv'
  OBVIOUS
<1>1. ClientTypes'
  BY NextTypes DEF ClientInv
<1>2. Kept
  <2>1. CASE UNCHANGED vars
    <3>1. SockInv' /\ Pending' = Pending /\ Abandoned' = Abandoned
      BY <2>1, SameSocks DEF ClientInv, SockInv, Live, vars, clientVars, sessVars
    <3>2. ConnectingPends' /\ ConnectedHasSession'
      BY <2>1, <3>1
      DEF ClientInv, ConnectingPends, ConnectedHasSession, vars, clientVars, loopVars, userVars, history
    <3>3. AloneInCallback'
      BY <2>1
      DEF ClientInv, AloneInCallback, InCallback, Connecting, Live,
          vars, clientVars, sessVars, loopVars, userVars, history
    <3> QED
      BY <3>1, <3>2, <3>3 DEF Kept
  <2> QED
    BY <2>1, LoopKeeps, UserKeeps DEF Next
<1> QED
  BY <1>1, <1>2 DEF ClientInv, Kept, SockInv
-----------------------------------------------------------------------------
\* The invariant of the client, its sessions and its sockets, for any number of
\* them and any interleaving of the loop and a user (tcpClient.c, eventLoop.c:25-120).
THEOREM ClientInvariant == Spec => []ClientInv
<1> QED
  BY InitClientInv, NextClientInv, PTL DEF Spec

\* Types hold, and the delay ends below twice its maximum (tcpClient.c:21-36).
THEOREM ClientTypeCorrect == Spec => []ClientTypeOK
<1>1. ClientInv => ClientTypeOK
  BY DEF ClientInv, ClientTypes
<1> QED
  BY <1>1, ClientInvariant, PTL

\* No open socket is forgotten by the event loop, whatever the user does, but for
\* one whose registration failed unnoticed (tcpClient.c:38-117, ae.c:86-105).
THEOREM ClientOpenIsWatched == Spec => []OpenIsWatched
<1>1. ClientInv => OpenIsWatched
  BY DEF ClientInv
<1> QED
  BY <1>1, ClientInvariant, PTL

\* What still can make a connection is finite, and there is something of it when
\* a timer, an attempt or a session is there.
LEMMA ActivityIsPositive ==
  ASSUME ClientInv, timers > 0 \/ Pending # {} \/ lpc = "state"
  PROVE  Activity > 0
<1>1. timers \in Nat
  BY TcpClientAssumption DEF ClientInv, ClientTypes, ClientTypeOK
<1>2. IsFiniteSet(Pending) /\ (Pending # {} => Cardinality(Pending) # 0)
  <2>1. Pending \subseteq Sockets /\ IsFiniteSet(Sockets)
    BY TcpClientAssumption DEF Pending
  <2> QED
    BY <2>1, FS_Subset, FS_EmptySet
<1>3. Cardinality(Connects) \in Nat
  <2>1. Connects \subseteq 1 .. Len(queue) /\ Len(queue) \in Nat
    <3>1. queue \in Seq(Messages)
      BY DEF ClientInv, ClientTypes, InHand
    <3>2. DOMAIN queue = 1 .. Len(queue) /\ Len(queue) \in Nat
      BY <3>1
    <3> QED
      BY <3>2 DEF Connects
  <2>2. IsFiniteSet(1 .. Len(queue))
    BY <2>1, FS_Interval
  <2>3. IsFiniteSet(Connects)
    BY <2>1, <2>2, FS_Subset
  <2> QED
    BY <2>3, FS_CardinalityType
<1>4. Cardinality(Pending) \in Nat
  BY <1>2, FS_CardinalityType
<1> QED
  BY <1>1, <1>2, <1>3, <1>4 DEF Activity, Connecting

\* A retrying client that is connecting has something pending, unless ae refused an
\* attempt, and a connected one has its session (tcpClient.c:21-79).
THEOREM ClientRetryNeverStuck == Spec => []RetryNeverStuck
<1>1. ClientInv => RetryNeverStuck
  <2> SUFFICES ASSUME ClientInv, crash = "none", retry
               PROVE  /\ cstate = "connecting" => Activity > 0 \/ Abandoned # {}
                      /\ cstate = "connected" /\ ~raced => csession # NULL
    BY DEF RetryNeverStuck
  <2>1. cstate = "connecting" =>
          timers > 0 \/ Pending # {} \/ lpc = "state" \/ Abandoned # {}
    BY DEF ClientInv, ConnectingPends
  <2>2. cstate = "connected" /\ ~raced => csession # NULL
    BY DEF ClientInv, ConnectedHasSession
  <2> QED
    BY <2>1, <2>2, ActivityIsPositive
<1> QED
  BY <1>1, ClientInvariant, PTL

\* A stopped client of which only timers are left is left alone by the loop
\* (tcpClient.c:81-98, 38-56).
THEOREM ClientQuietStaysQuiet == Spec => QuietStaysQuiet
<1>1. ClientInv /\ [Next]_vars => (Quiet => Quiet' \/ started' \/ cstate' = "freed")
  <2> SUFFICES ASSUME ClientInv, [Next]_vars, Quiet, ~started', cstate' # "freed" PROVE Quiet'
    OBVIOUS
  <2>0. /\ \A f \in Sockets : ev[f] # CONNECTING /\ (ev[f] \in Sessions => sstate[ev[f]] = "freed")
        /\ cstate = "disconnected" /\ csession = NULL /\ ~started
        /\ queue = <<>> /\ lpc = "idle" /\ upc = "idle"
        /\ SessTypes
    BY TypesSplit DEF Quiet, Pending, Live, ClientInv, EntriesKnown, SessTypes
  <2>1. CASE timerFires
    BY <2>0, <2>1 DEF timerFires, startConnectInLoop, Quiet, Pending, Live, sessVars, loopVars, userVars
  <2>2. CASE \E f \in Sockets : answer(f)
    BY <2>0, <2>2 DEF answer, Quiet, Pending, Live, clientVars, loopVars, userVars
  <2>3. CASE \E f \in Sockets : lost(f)
    BY <2>0, <2>3 DEF lost, Quiet, Pending, Live, sessVars, loopVars, userVars
  <2>4. CASE UNCHANGED vars
    BY <2>4 DEF Quiet, Pending, Live, vars, clientVars, sessVars, loopVars, userVars
  <2>5. /\ ~removeStep /\ ~drainConnect /\ ~drainRemove /\ ~drainSend
        /\ ~setConnected /\ ~setSession /\ ~forget
    BY <2>0
    DEF removeStep, drainConnect, drainRemove, drainSend, Draining, setConnected, setSession, forget
  <2>6. \A f \in Sockets : ~connectDone(f) /\ ~connectFailed(f)
    BY <2>0 DEF connectDone, connectFailed
  <2>7. ~userStep
    BY <2>0 DEF userStep, startHere, startElsewhere, stopHere, stopElsewhere, stopTest, stopCheck,
       stopPush, stopClear, sendElsewhere, sendCheck, destroyHere
  <2> QED
    BY <2>1, <2>2, <2>3, <2>4, <2>5, <2>6, <2>7 DEF Next, loopStep
<1> QED
  BY <1>1, ClientInvariant, PTL DEF Spec, QuietStaysQuiet
-----------------------------------------------------------------------------
(* For an orderly user.  Without one, each of these fails. *)

\* A client is destroyed only when nothing of it is left.
NothingLeft ==
  cstate = "freed" =>
    /\ timers = 0 /\ Pending = {} /\ queue = <<>> /\ csession = NULL
    /\ lpc = "idle" /\ upc = "idle" /\ \A s \in Sessions : ~Live(s)

\* Of timer, attempt, CONNECT and session there is one at most.
OneAttempt ==
  /\ timers <= 1 /\ \A f, g \in Pending : f = g
  /\ timers > 0 => Pending = {} /\ Connects = {} /\ (csession = NULL \/ lpc = "lost")
  /\ Pending # {} => Connects = {} /\ csession = NULL
  /\ Connects # {} => csession = NULL

\* ae's table names live sessions, on their sockets.
EventsLive == \A f \in Sockets : ev[f] \in Sessions => Live(ev[f]) /\ cfd[ev[f]] = f

\* A connected session is the client's, or the loop is about to free it.
ConnectedHeld ==
  \A s \in Sessions :
    /\ sstate[s] \in {"connecting", "connected"} => s = csession \/ (lpc = "remove" /\ lcur = s)
    /\ sstate[s] = "connecting" => Connecting

\* While the loop connects a session, or loses and frees it, nobody else knows it.
Closing ==
  /\ InCallback => csession # NULL /\ upc = "idle"
  /\ lpc = "lost" => csession = lcur
  /\ lpc = "remove" => csession = NULL /\ upc \in {"idle", "stopTest"}
  /\ lpc \in {"lost", "remove"} => /\ sstate[lcur] = "connected"
                                   /\ \A i \in DOMAIN queue : queue[i].session # lcur

\* What the client's pointer and the user's other thread name.
NamedIsHeld ==
  /\ csession # NULL => \/ sstate[csession] = "connected" \/ upc = "stopClear"
                        \/ Connecting /\ sstate[csession] = "connecting"
  /\ upc \in {"stopCheck", "stopPush", "sendCheck"} => csession # NULL /\ ucur = csession
  /\ upc = "stopClear" => /\ csession = ucur /\ ucur \in Sessions
                          /\ sstate[ucur] \in {"disconnecting", "freed"}

\* Who stops does nothing else before that is over.
StopIsLast ==
  /\ upc \in Stopping => ~started
  /\ \A s \in Sessions : sstate[s] = "disconnecting" => ~started /\ upc \in {"idle", "stopClear"}

\* A CONNECT is alone in the queue, a REMOVE is the last message, a SEND's session lives.
QueueInOrder ==
  \A i \in DOMAIN queue :
    /\ queue[i].type = "CONNECT" => Len(queue) = 1
    /\ queue[i].type = "REMOVE" => i = Len(queue) /\ sstate[queue[i].session] = "disconnecting"
    /\ queue[i].type = "SEND" => Live(queue[i].session)

Order ==
  /\ crash # "freed"
  /\ NothingLeft /\ OneAttempt /\ EventsLive /\ ConnectedHeld /\ Closing
  /\ NamedIsHeld /\ StopIsLast /\ QueueInOrder

OrderInv == Orderly => Order

\* The parts of ClientInv that the proofs below use.
LEMMA OrderFacts ==
  ASSUME ClientInv
  PROVE  /\ SessTypes /\ InHand
         /\ timers \in Nat /\ ucur \in Sessions \cup {NULL}
         /\ queue \in Seq(Messages) /\ Len(queue) \in Nat /\ DOMAIN queue = 1 .. Len(queue)
         /\ NULL \notin Sessions /\ CONNECTING \notin Sessions \cup {NULL, STALE}
         /\ STALE \notin Sessions \cup {NULL}
<1>1. SessTypes /\ RestTypes
  BY TypesSplit DEF ClientInv
<1>2. timers \in Nat /\ ucur \in Sessions \cup {NULL} /\ InHand
  BY <1>1, TcpClientAssumption DEF RestTypes
<1>3. queue \in Seq(Messages)
  BY <1>2 DEF InHand
<1>4. Len(queue) \in Nat /\ DOMAIN queue = 1 .. Len(queue)
  BY <1>3
<1>5. /\ NULL \notin Sessions /\ CONNECTING \notin Sessions \cup {NULL}
      /\ STALE \notin Sessions \cup {NULL} /\ CONNECTING # STALE
  BY TcpClientAssumption DEF CONNECTING, STALE
<1> QED
  BY <1>1, <1>2, <1>3, <1>4, <1>5

\* Activity counts each kind of attempt: it is 0 only when there is none, and at
\* most 1 when there is one at most.
LEMMA ActivityCounts ==
  ASSUME ClientInv
  PROVE  /\ Activity \in Nat
         /\ ~(Activity > 0) => /\ timers = 0 /\ Pending = {} /\ Connects = {} /\ ~Connecting
                               /\ csession = NULL \/ lpc = "lost"
         /\ OneAttempt /\ QueueInOrder /\ Closing => Activity <= 1
<1>0. timers \in Nat /\ Len(queue) \in Nat /\ DOMAIN queue = 1 .. Len(queue)
  BY OrderFacts
<1>1. IsFiniteSet(Pending)
  <2>1. Pending \subseteq Sockets /\ IsFiniteSet(Sockets)
    BY TcpClientAssumption DEF Pending
  <2> QED
    BY <2>1, FS_Subset
<1>2. IsFiniteSet(Connects)
  <2>1. Connects \subseteq 1 .. Len(queue)
    BY <1>0 DEF Connects
  <2> QED
    <3>1. IsFiniteSet(1 .. Len(queue))
      BY <1>0, FS_Interval
    <3> QED
      BY <2>1, <3>1, FS_Subset
<1>3. /\ Cardinality(Pending) \in Nat /\ (Cardinality(Pending) = 0 <=> Pending = {})
      /\ Cardinality(Connects) \in Nat /\ (Cardinality(Connects) = 0 <=> Connects = {})
  BY <1>1, <1>2, FS_CardinalityType, FS_EmptySet
<1>4. Activity \in Nat
  BY <1>0, <1>3 DEF Activity
<1>5. ~(Activity > 0) => /\ timers = 0 /\ Pending = {} /\ Connects = {} /\ ~Connecting
                         /\ csession = NULL \/ lpc = "lost"
  BY <1>0, <1>3 DEF Activity
<1>6. ASSUME OneAttempt, QueueInOrder, Closing PROVE Activity <= 1
  <2>1. Cardinality(Pending) <= 1
    <3>1. CASE Pending = {}
      BY <1>3, <3>1
    <3>2. ASSUME NEW f \in Pending PROVE Cardinality(Pending) <= 1
      <4>1. Pending = {f}
        BY <1>6, <3>2 DEF OneAttempt
      <4>2. Cardinality(Pending) = 1
        BY <4>1, FS_Singleton, Zenon
      <4> QED
        BY <4>2
    <3> QED
      BY <3>1, <3>2
  <2>2. Cardinality(Connects) <= 1
    <3>1. CASE Connects = {}
      BY <1>3, <3>1
    <3>2. ASSUME NEW i \in Connects PROVE Cardinality(Connects) <= 1
      <4>1. i \in DOMAIN queue /\ queue[i].type = "CONNECT"
        BY <3>2 DEF Connects
      <4>2. Len(queue) = 1
        BY <1>6, <4>1 DEF QueueInOrder
      <4>3. Connects = {1}
        BY <1>0, <4>1, <4>2 DEF Connects
      <4>4. Cardinality(Connects) = 1
        BY <4>3, FS_Singleton, Zenon
      <4> QED
        BY <4>4
    <3> QED
      BY <3>1, <3>2
  <2>3. timers <= 1
    BY <1>6 DEF OneAttempt
  <2>4. CASE (csession # NULL /\ lpc # "lost") \/ Connecting
    <3>1. csession # NULL /\ lpc # "lost"
      BY <1>6, <2>4 DEF Closing, InCallback, Connecting
    <3>2. timers = 0 /\ Pending = {} /\ Connects = {}
      BY <1>0, <1>6, <3>1 DEF OneAttempt
    <3> QED
      BY <1>3, <2>4, <3>2 DEF Activity
  <2>5. CASE ~((csession # NULL /\ lpc # "lost") \/ Connecting)
    <3>1. Activity = timers + Cardinality(Pending) + Cardinality(Connects) + 0
      BY <1>0, <1>3, <2>5 DEF Activity
    <3>2. CASE timers > 0
      BY <1>0, <1>3, <1>6, <2>3, <3>1, <3>2 DEF OneAttempt
    <3>3. CASE timers = 0 /\ Pending # {}
      BY <1>0, <1>3, <1>6, <2>1, <3>1, <3>3 DEF OneAttempt
    <3>4. CASE timers = 0 /\ Pending = {}
      BY <1>0, <1>3, <2>2, <3>1, <3>4
    <3> QED
      BY <1>0, <3>2, <3>3, <3>4
  <2> QED
    BY <2>4, <2>5
<1> QED
  BY <1>4, <1>5, <1>6

\* A user that is not hasty starts and destroys when nothing is left.
LEMMA NotBusy ==
  ASSUME ClientInv, Order, ~Busy
  PROVE  /\ timers = 0 /\ Pending = {} /\ Connects = {} /\ csession = NULL
         /\ queue = <<>> /\ \A s \in Sessions : ~Live(s)
         /\ lpc = "idle"
<1>1. InHand
  BY OrderFacts
<1>2. lpc \notin {"lost", "remove"}
  BY <1>1 DEF Busy, Order, Closing, Live, InHand
<1> QED
  BY <1>1, <1>2, ActivityCounts DEF Busy, Connecting, InHand
-----------------------------------------------------------------------------
\* An attempt's socket becomes the client's new session; nothing else is pending.
LEMMA AttemptSucceeds ==
  ASSUME ClientInv, Order, crash = "none", lpc = "idle", csession = NULL,
         NEW f \in Sockets, realConnect(f), ~raced', cstate' # "freed",
         timers' = 0, Connects' = {}, queue' \in {queue, <<>>},
         \A g \in Pending : g = f, UNCHANGED <<lcur, upc, ucur>>,
         started' = started \/ \A s \in Sessions : ~Live(s)
  PROVE  Order'
<1>0. /\ SessTypes /\ DOMAIN queue = 1 .. Len(queue) /\ queue \in Seq(Messages)
      /\ NULL \notin Sessions /\ CONNECTING \notin Sessions \cup {NULL}
  BY OrderFacts
<1>1. PICK s \in Sessions :
        /\ SessionToUse(s) /\ csession' = s
        /\ IF sstate[s] = "freed"
           THEN crash' = "freed" /\ UNCHANGED <<cfd, sstate, readable, ev, unheard>>
           ELSE /\ sstate' = [sstate EXCEPT ![s] = IF @ = "none" THEN "connecting" ELSE @]
                /\ readable' = [readable EXCEPT ![s] = TRUE]
                /\ cfd' = [cfd EXCEPT ![s] = f]
                /\ register(f, s)
                /\ UNCHANGED crash
        /\ lpc' = "state"
        /\ raced' = (raced \/ upc # "idle")
  BY DEF realConnect
<1>2. sstate[s] = "none"
  BY <1>1 DEF SessionToUse
<1>3. crash' = "none" /\ upc' = "idle" /\ lpc' = "state" /\ csession' = s
  BY <1>1, <1>2
<1>4. \A t \in Sessions : sstate'[t] = IF t = s THEN "connecting" ELSE sstate[t]
  BY <1>0, <1>1, <1>2 DEF SessTypes
<1>5. \A t \in Sessions : cfd'[t] = IF t = s THEN f ELSE cfd[t]
  BY <1>0, <1>1, <1>2 DEF SessTypes
<1>6. /\ \A g \in Sockets : g # f => ev'[g] = ev[g]
      /\ ev'[f] = s \/ ev'[f] = (IF ev[f] = CONNECTING THEN NULL ELSE ev[f])
  BY <1>0, <1>1, <1>2, RegisterIs
<1>7. Pending' = {}
  BY <1>0, <1>6 DEF Pending
<1>8. EventsLive'
  <2> SUFFICES ASSUME NEW g \in Sockets, ev'[g] \in Sessions
               PROVE  Live(ev[g])' /\ cfd'[ev'[g]] = g
    BY DEF EventsLive
  <2>1. CASE g = f /\ ev'[g] = s
    BY <1>4, <1>5, <2>1 DEF Live
  <2>2. CASE ev'[g] = ev[g]
    <3>1. Live(ev[g]) /\ cfd[ev[g]] = g
      BY <2>2 DEF Order, EventsLive
    <3>2. ev[g] # s
      BY <1>2, <3>1 DEF Live
    <3> QED
      BY <1>4, <1>5, <2>2, <3>1, <3>2 DEF Live
  <2> QED
    BY <1>0, <1>6, <2>1, <2>2
<1>9. ConnectedHeld'
  BY <1>0, <1>3, <1>4 DEF Order, ConnectedHeld, Connecting
<1>10. NothingLeft' /\ OneAttempt'
  BY <1>3, <1>7 DEF NothingLeft, OneAttempt
<1>11. Closing' /\ NamedIsHeld'
  BY <1>0, <1>3, <1>4 DEF Closing, NamedIsHeld, InCallback, Connecting
<1>12. StopIsLast'
  BY <1>3, <1>4 DEF Order, StopIsLast, Stopping, Live
<1>13. QueueInOrder'
  <2>1. CASE queue' = <<>>
    BY <2>1 DEF QueueInOrder
  <2>2. CASE queue' = queue
    <3>1. \A t : sstate[t] = "disconnecting" \/ Live(t) => t # s
      BY <1>2 DEF Live
    <3>2. \A i \in DOMAIN queue :
            queue[i].type \in {"REMOVE", "SEND"} => queue[i].session \in Sessions
      BY <1>0 DEF Messages, Msg
    <3> QED
      BY <1>4, <2>2, <3>1, <3>2 DEF Order, QueueInOrder, Live
  <2> QED
    BY <2>1, <2>2
<1> QED
  BY <1>3, <1>8, <1>9, <1>10, <1>11, <1>12, <1>13 DEF Order

\* What does not touch the sessions, the client's pointer and the loop's place
\* can only disturb the count of attempts, the queue and what started says.
LEMMA SessionsAsTheyWere ==
  ASSUME ClientInv, Order, UNCHANGED <<csession, sstate, cfd, loopVars, upc, ucur>>,
         crash' # "freed", cstate' # "freed",
         \A f \in Sockets : ev'[f] \in Sessions => ev'[f] = ev[f],
         OneAttempt', queue' \in {queue, <<>>},
         started' = started \/ (upc = "idle" /\ \A s \in Sessions : ~Live(s))
  PROVE  Order'
<1>0. UNCHANGED <<lpc, lcur>> /\ DOMAIN queue = 1 .. Len(queue) /\ queue \in Seq(Messages)
  BY OrderFacts DEF loopVars
<1>1. NothingLeft' /\ EventsLive'
  BY DEF Order, NothingLeft, EventsLive, Live
<1>2. ConnectedHeld' /\ NamedIsHeld'
  BY <1>0 DEF Order, ConnectedHeld, NamedIsHeld, Connecting
<1>3. Closing'
  BY <1>0 DEF Order, Closing, InCallback, Connecting
<1>4. StopIsLast'
  BY DEF Order, StopIsLast, Stopping, Live
<1>5. QueueInOrder'
  BY DEF Order, QueueInOrder, Live
<1> QED
  BY <1>1, <1>2, <1>3, <1>4, <1>5 DEF Order

\* Whatever becomes of an attempt that starts when nothing else is pending.
LEMMA AttemptStarts ==
  ASSUME ClientInv, Order, crash = "none", lpc = "idle", csession = NULL, Pending = {},
         NEW state \in {"disconnected", "connecting", "connected"},
         startConnectInLoop(state), ~raced',
         timers' = 0, Connects' = {}, queue' \in {queue, <<>>},
         UNCHANGED <<lcur, upc, ucur>>,
         started' = started \/ (upc = "idle" /\ \A s \in Sessions : ~Live(s))
  PROVE  Order'
<1>0. SessTypes /\ CONNECTING \notin Sessions
  BY OrderFacts
<1>1. CASE /\ cstate' = state /\ crash' \in {crash, "connect"}
           /\ UNCHANGED <<csession, sessVars, lpc>>
  <2>1. Pending' = {}
    BY <1>1 DEF Pending, sessVars
  <2>2. OneAttempt'
    BY <1>1, <2>1 DEF OneAttempt
  <2> QED
    BY <1>1, <2>2, SessionsAsTheyWere DEF sessVars, loopVars
<1>2. ASSUME NEW f \in Sockets, cstate' = state, realConnect(f) PROVE Order'
  BY <1>2, AttemptSucceeds
<1>3. ASSUME NEW f \in Sockets, register(f, CONNECTING), cstate' = state,
             UNCHANGED <<csession, sstate, cfd, readable, lpc, crash, raced>>
      PROVE  Order'
  <2>1. /\ \A g \in Sockets : g # f => ev'[g] = ev[g]
        /\ ev'[f] = CONNECTING \/ ev'[f] = ev[f]
    BY <1>0, <1>3, RegisterIs DEF Pending
  <2>2. Pending' \subseteq {f}
    BY <2>1 DEF Pending
  <2>3. OneAttempt'
    BY <1>3, <2>2 DEF OneAttempt
  <2>4. \A g \in Sockets : ev'[g] \in Sessions => ev'[g] = ev[g]
    BY <1>0, <2>1
  <2> QED
    BY <1>3, <2>3, <2>4, SessionsAsTheyWere DEF loopVars
<1> QED
  BY <1>1, <1>2, <1>3 DEF startConnectInLoop

\* A session that nobody else holds is removed and freed.
LEMMA SessionRemoved ==
  ASSUME ClientInv, Order, crash' = "none", cstate' # "freed",
         NEW s \in Sessions, Live(s), removeAndDestroy(s),
         csession' \in {csession, NULL}, lpc \in {"idle", "remove"}, lpc' = "idle", timers' = timers,
         upc' = upc, ucur' = ucur, upc = "idle" => started' \in {started, FALSE},
         upc # "idle" => started' = started,
         csession' = s => upc = "stopClear",
         upc \in {"stopCheck", "stopPush", "sendCheck", "stopClear"} =>
           csession' = csession /\ (csession = s => upc = "stopClear"),
         lpc = "remove" => lcur = s,
         csession # s => csession' = csession,
         Connects' \subseteq Connects,
         \/ queue' = <<>>
         \/ queue' = queue /\ \A i \in DOMAIN queue : queue[i].session # s
  PROVE  Order'
<1>0. SessTypes /\ STALE \notin Sessions \cup {NULL} /\ NULL \notin Sessions
      /\ CONNECTING \notin {NULL, STALE}
      /\ DOMAIN queue = 1 .. Len(queue) /\ queue \in Seq(Messages)
  BY OrderFacts
<1>1. \A t \in Sessions : sstate'[t] = IF t = s THEN "freed" ELSE sstate[t]
  BY <1>0 DEF removeAndDestroy, destroySession, SessTypes
<1>2. \A g \in Sockets : ev'[g] \in {NULL, STALE} \/ (g # cfd[s] /\ ev'[g] = ev[g])
  BY <1>0 DEF removeAndDestroy, SessTypes
<1>3. EventsLive'
  <2> SUFFICES ASSUME NEW g \in Sockets, ev'[g] \in Sessions
               PROVE  Live(ev[g])' /\ cfd'[ev'[g]] = g
    BY DEF EventsLive
  <2>1. g # cfd[s] /\ ev'[g] = ev[g]
    BY <1>0, <1>2
  <2>2. Live(ev[g]) /\ cfd[ev[g]] = g
    BY <2>1 DEF Order, EventsLive
  <2>3. ev[g] # s
    BY <2>1, <2>2
  <2>4. sstate'[ev'[g]] = sstate[ev[g]] /\ cfd' = cfd
    BY <1>1, <2>1, <2>3 DEF removeAndDestroy
  <2> QED
    BY <2>1, <2>2, <2>4 DEF Live
<1>4. ConnectedHeld'
  BY <1>1 DEF Order, ConnectedHeld, Connecting
<1>5. NothingLeft' /\ Closing'
  BY DEF NothingLeft, Closing, InCallback, Connecting
<1>6. OneAttempt'
  <2>1. Pending' \subseteq Pending
    BY <1>0, <1>2 DEF Pending
  <2>2. csession = NULL => csession' = NULL
    OBVIOUS
  <2> QED
    BY <2>1, <2>2 DEF Order, OneAttempt
<1>7. NamedIsHeld'
  <2>1. csession' # NULL => sstate'[csession'] = "connected" \/ upc' = "stopClear"
    BY <1>0, <1>1 DEF Order, NamedIsHeld, Connecting, SessTypes
  <2>2. upc' \in {"stopCheck", "stopPush", "sendCheck"} => csession' # NULL /\ ucur' = csession'
    BY DEF Order, NamedIsHeld
  <2>3. upc' = "stopClear" => /\ csession' = ucur' /\ ucur' \in Sessions
                              /\ sstate'[ucur'] \in {"disconnecting", "freed"}
    BY <1>1 DEF Order, NamedIsHeld
  <2> QED
    BY <2>1, <2>2, <2>3 DEF NamedIsHeld
<1>8. StopIsLast'
  <2>1. upc' \in Stopping => ~started'
    BY DEF Order, StopIsLast, Stopping
  <2>2. \A t \in Sessions : sstate'[t] = "disconnecting" => sstate[t] = "disconnecting"
    BY <1>1
  <2>3. ~started => ~started'
    OBVIOUS
  <2> QED
    BY <2>1, <2>2, <2>3 DEF Order, StopIsLast
<1>9. QueueInOrder'
  <2>1. CASE queue' = <<>>
    BY <2>1 DEF QueueInOrder
  <2>2. CASE queue' = queue /\ \A i \in DOMAIN queue : queue[i].session # s
    <3>1. \A i \in DOMAIN queue :
            queue[i].type \in {"REMOVE", "SEND"} => queue[i].session \in Sessions
      BY <1>0 DEF Messages, Msg
    <3> QED
      BY <1>1, <2>2, <3>1 DEF Order, QueueInOrder, Live
  <2> QED
    BY <2>1, <2>2
<1> QED
  BY <1>3, <1>4, <1>5, <1>6, <1>7, <1>8, <1>9 DEF Order

\* A message in the queue is about a session when it is not a CONNECT.
LEMMA QueueNames ==
  ASSUME ClientInv
  PROVE  /\ \A i \in DOMAIN queue :
              /\ queue[i].type \in {"CONNECT", "REMOVE", "SEND"}
              /\ queue[i].type # "CONNECT" => queue[i].session \in Sessions
              /\ queue[i].type = "CONNECT" => queue[i].session \notin Sessions
         /\ queue # <<>> => /\ 1 \in DOMAIN queue /\ Head(queue) = queue[1]
                            /\ (Len(queue) = 1 => Tail(queue) = <<>>)
<1>1. /\ queue \in Seq(Messages) /\ Len(queue) \in Nat /\ DOMAIN queue = 1 .. Len(queue)
      /\ NULL \notin Sessions
  BY OrderFacts
<1>2. \A i \in DOMAIN queue : queue[i] \in Messages
  BY <1>1
<1> QED
  BY <1>1, <1>2, HeadTailProperties, EmptySeq DEF Messages, Msg

LEMMA LoopOrder ==
  ASSUME ClientInv, Order, loopStep, ~raced'
  PROVE  Order'
<1>0. /\ SessTypes /\ InHand /\ timers \in Nat /\ Len(queue) \in Nat /\ DOMAIN queue = 1 .. Len(queue)
      /\ queue \in Seq(Messages)
      /\ NULL \notin Sessions /\ CONNECTING \notin Sessions \cup {NULL, STALE}
      /\ STALE \notin Sessions \cup {NULL}
  BY OrderFacts
<1>1. CASE timerFires
  <2>1. /\ crash = "none" /\ lpc = "idle" /\ timers > 0 /\ timers' = timers - 1
        /\ UNCHANGED <<queue, lcur, upc, ucur, started>>
    BY <1>1 DEF timerFires, LoopIdle, userVars
  <2>2. timers' = 0 /\ Pending = {} /\ Connects' = {} /\ csession = NULL
    BY <1>0, <2>1 DEF Order, OneAttempt, Connects
  <2>3. cstate # "freed"
    BY <2>1 DEF Order, NothingLeft
  <2>4. startConnectInLoop(cstate) /\ cstate \in {"disconnected", "connecting", "connected"}
    BY <1>0, <1>1, <2>3 DEF timerFires, SessTypes
  <2> QED
    BY <2>1, <2>2, <2>4, AttemptStarts
<1>2. CASE removeStep
  <2>1. /\ crash = "none" /\ lpc = "remove" /\ lpc' = "idle" /\ lcur \in Sessions
        /\ UNCHANGED <<csession, cstate, timers, queue, upc, ucur, started>>
    BY <1>0, <1>2 DEF removeStep, clientVars, userVars, InHand
  <2>2. /\ csession = NULL /\ sstate[lcur] = "connected" /\ upc \in {"idle", "stopTest"}
        /\ \A i \in DOMAIN queue : queue[i].session # lcur
    BY <2>1 DEF Order, Closing
  <2>3. Live(lcur) /\ removeAndDestroy(lcur) /\ crash' = "none"
    BY <1>2, <2>1, <2>2 DEF removeStep, Live
  <2>4. cstate' # "freed"
    BY <2>1 DEF Order, NothingLeft
  <2>5. Connects' = Connects /\ csession' = NULL
    BY <2>1, <2>2 DEF Connects
  <2> QED
    BY <1>0, <2>1, <2>2, <2>3, <2>4, <2>5, SessionRemoved
<1>3. CASE drainConnect
  <2>1. /\ crash = "none" /\ lpc = "idle" /\ queue # <<>> /\ Head(queue).type = "CONNECT"
        /\ queue' = Tail(queue) /\ UNCHANGED <<timers, lcur, upc, ucur, started>>
    BY <1>3 DEF drainConnect, Draining, LoopIdle, userVars
  <2>2. Len(queue) = 1 /\ 1 \in Connects
    BY <2>1, QueueNames DEF Order, QueueInOrder, Connects
  <2>3. queue' = <<>> /\ Connects' = {}
    BY <2>1, <2>2, QueueNames DEF Connects
  <2>4. timers = 0 /\ Pending = {} /\ csession = NULL
    BY <1>0, <2>2 DEF Order, OneAttempt
  <2>5. cstate # "freed"
    BY <2>1 DEF Order, NothingLeft
  <2>6. CASE crash' = "message" /\ UNCHANGED <<cstate, csession, sessVars, lpc, raced>>
    <3>1. OneAttempt'
      BY <2>1, <2>3, <2>4, <2>6 DEF OneAttempt, Pending, sessVars
    <3> QED
      BY <2>1, <2>3, <2>5, <2>6, <3>1, SessionsAsTheyWere DEF sessVars, loopVars
  <2>7. CASE startConnectInLoop("connecting")
    BY <2>1, <2>3, <2>4, <2>7, AttemptStarts
  <2> QED
    BY <1>3, <2>5, <2>6, <2>7 DEF drainConnect
<1>4. CASE drainRemove
  <2> DEFINE s == Head(queue).session
  <2>1. /\ crash = "none" /\ lpc = "idle" /\ queue # <<>> /\ Head(queue).type = "REMOVE"
        /\ queue' = Tail(queue) /\ UNCHANGED <<csession, cstate, timers, lpc, upc, ucur, started>>
    BY <1>4 DEF drainRemove, Draining, LoopIdle, clientVars, loopVars, userVars
  <2>2. s \in Sessions /\ Len(queue) = 1 /\ sstate[s] = "disconnecting"
    BY <2>1, QueueNames DEF Order, QueueInOrder
  <2>3. Live(s) /\ removeAndDestroy(s) /\ crash' = "none"
    BY <1>4, <2>1, <2>2 DEF drainRemove, Live
  <2>4. queue' = <<>> /\ Connects' = {}
    BY <2>1, <2>2, QueueNames DEF Connects
  <2>5. cstate' # "freed"
    BY <2>1 DEF Order, NothingLeft
  <2>6. csession = s => upc = "stopClear"
    BY <1>0, <2>2 DEF Order, NamedIsHeld
  <2> HIDE DEF s
  <2> QED
    BY <1>0, <2>1, <2>2, <2>3, <2>4, <2>5, <2>6, SessionRemoved
<1>5. CASE drainSend
  <2>1. /\ crash = "none" /\ lpc = "idle" /\ queue # <<>> /\ Head(queue).type = "SEND"
        /\ queue' = Tail(queue)
        /\ UNCHANGED <<csession, cstate, timers, lpc, lcur, sstate, cfd, ev, upc, ucur, started>>
    BY <1>5 DEF drainSend, Draining, LoopIdle, clientVars, loopVars, userVars
  <2>2. Live(Head(queue).session) /\ cstate # "freed"
    BY <2>1, QueueNames DEF Order, QueueInOrder, NothingLeft
  <2>3. crash' = "none"
    BY <1>5, <2>1, <2>2 DEF drainSend
  <2>4. \A i \in DOMAIN queue' : /\ i \in Nat /\ i + 1 \in DOMAIN queue /\ queue'[i] = queue[i + 1]
                                 /\ (i + 1 = Len(queue) => i = Len(queue'))
    BY <1>0, <2>1, HeadTailProperties
  <2>5. QueueInOrder'
    <3>1. \A i \in DOMAIN queue' : queue[i + 1].type # "CONNECT"
      BY <1>0, <2>4 DEF Order, QueueInOrder
    <3> QED
      BY <2>1, <2>4, <3>1 DEF Order, QueueInOrder, Live
  <2>6. Connects' # {} => Connects # {}
    BY <2>4 DEF Connects
  <2>7. OneAttempt'
    BY <2>1, <2>6 DEF Order, OneAttempt, Pending
  <2>8. NothingLeft' /\ EventsLive' /\ ConnectedHeld' /\ Closing'
    BY <2>1, <2>2
    DEF Order, NothingLeft, EventsLive, ConnectedHeld, Closing, InCallback, Connecting, Live
  <2>9. NamedIsHeld' /\ StopIsLast'
    BY <2>1 DEF Order, NamedIsHeld, StopIsLast, Connecting, Stopping
  <2> QED
    BY <2>3, <2>5, <2>7, <2>8, <2>9 DEF Order
<1>6. ASSUME NEW f \in Sockets, connectDone(f) PROVE Order'
  <2>1. /\ crash = "none" /\ lpc = "idle" /\ f \in Pending
        /\ UNCHANGED <<cstate, timers, queue, lcur, upc, ucur, started>>
    BY <1>6 DEF connectDone, LoopIdle, Pending, userVars
  <2>2. timers = 0 /\ Connects = {} /\ csession = NULL /\ \A g \in Pending : g = f
    BY <1>0, <2>1 DEF Order, OneAttempt
  <2>3. cstate # "freed" /\ realConnect(f)
    BY <1>6, <2>1 DEF connectDone, Order, NothingLeft
  <2>4. timers' = 0 /\ Connects' = {}
    BY <2>1, <2>2 DEF Connects
  <2> QED
    BY <2>1, <2>2, <2>3, <2>4, AttemptSucceeds
<1>7. ASSUME NEW f \in Sockets, connectFailed(f) PROVE Order'
  <2>1. /\ crash = "none" /\ lpc = "idle" /\ f \in Pending
        /\ UNCHANGED <<csession, sstate, cfd, loopVars, queue, upc, ucur, started>>
    BY <1>7 DEF connectFailed, LoopIdle, Pending, userVars
  <2>2. timers = 0 /\ Connects = {} /\ csession = NULL /\ Pending = {f}
    BY <1>0, <2>1 DEF Order, OneAttempt
  <2>3. cstate # "freed"
    BY <2>1 DEF Order, NothingLeft
  <2>4. ev' = [ev EXCEPT ![f] = NULL] /\ onReConnect /\ crash' = "none"
    BY <1>7, <2>1, <2>3 DEF connectFailed
  <2>5. \A g \in Sockets : ev'[g] = IF g = f THEN NULL ELSE ev[g]
    BY <1>0, <2>4 DEF SessTypes
  <2>6. Pending' = {}
    BY <1>0, <2>2, <2>5 DEF Pending
  <2>7. timers' \in {0, 1} /\ cstate' # "freed"
    BY <2>2, <2>3, <2>4 DEF onReConnect
  <2>8. OneAttempt'
    BY <2>1, <2>2, <2>6, <2>7 DEF OneAttempt, Connects
  <2> QED
    BY <1>0, <2>1, <2>4, <2>5, <2>7, <2>8, SessionsAsTheyWere
<1>8. ASSUME NEW f \in Sockets, answer(f) PROVE Order'
  <2>1. /\ crash = "none" /\ ev[f] \in Sessions
        /\ UNCHANGED <<csession, cstate, timers, loopVars, sstate, cfd, ev, queue, upc, ucur, started>>
    BY <1>8 DEF answer, LoopIdle, clientVars, userVars
  <2>2. Live(ev[f])
    BY <2>1 DEF Order, EventsLive
  <2>3. crash' = "none" /\ cstate # "freed"
    BY <1>8, <2>1, <2>2 DEF answer, Live, Order, NothingLeft
  <2>4. OneAttempt'
    BY <2>1 DEF Order, OneAttempt, Pending, Connects, loopVars
  <2> QED
    BY <2>1, <2>3, <2>4, SessionsAsTheyWere
<1>9. ASSUME NEW f \in Sockets, lost(f) PROVE Order'
  <2> DEFINE s == ev[f]
  <2>1. /\ crash = "none" /\ lpc = "idle" /\ s \in Sessions
        /\ UNCHANGED <<sessVars, queue, upc, ucur, started>>
    BY <1>9 DEF lost, LoopIdle, userVars
  <2>2. Live(s)
    BY <2>1 DEF Order, EventsLive
  <2>3. cstate # "freed"
    BY <2>1, <2>2 DEF Order, NothingLeft
  <2>4. /\ onReConnect /\ csession' = csession /\ lpc' = "lost" /\ lcur' = s
        /\ crash' = "none" /\ ~InUse(s)
    BY <1>9, <2>1, <2>2, <2>3 DEF lost, Live
  <2>5. /\ sstate[s] = "connected" /\ upc = "idle"
        /\ \A i \in DOMAIN queue : queue[i].session # s
    BY <2>1, <2>2, <2>4 DEF InUse, Live, Order, ConnectedHeld, Connecting
  <2>6. s = csession
    BY <2>1, <2>5 DEF Order, ConnectedHeld
  <2>7. timers = 0 /\ Pending = {} /\ Connects = {}
    BY <1>0, <2>1, <2>6 DEF Order, OneAttempt
  <2>8. timers' \in {0, 1} /\ cstate' # "freed" /\ Pending' = {} /\ Connects' = {}
    BY <2>1, <2>3, <2>4, <2>7 DEF onReConnect, Pending, Connects, sessVars
  <2>9. NothingLeft' /\ OneAttempt'
    BY <2>4, <2>8 DEF NothingLeft, OneAttempt
  <2>10. UNCHANGED <<sstate, cfd, ev>>
    BY <2>1 DEF sessVars
  <2>11. EventsLive' /\ ConnectedHeld' /\ Closing'
    BY <1>0, <2>1, <2>4, <2>5, <2>6, <2>10
    DEF Order, ConnectedHeld, Closing, EventsLive, InCallback, Connecting, Live
  <2>12. NamedIsHeld' /\ StopIsLast'
    BY <2>1, <2>4, <2>5, <2>6, <2>10 DEF Order, NamedIsHeld, StopIsLast, Connecting, Stopping
  <2>13. QueueInOrder'
    BY <2>1, <2>10 DEF Order, QueueInOrder, Live
  <2> QED
    BY <2>4, <2>9, <2>11, <2>12, <2>13 DEF Order
<1>10. CASE setConnected
  <2>1. /\ crash' = "none" /\ lpc = "state" /\ lpc' = "session" /\ cstate' = "connected"
        /\ UNCHANGED <<csession, timers, sstate, cfd, ev, queue, lcur, upc, ucur, started>>
    BY <1>10 DEF setConnected, sessVars, userVars
  <2>2. NothingLeft' /\ OneAttempt' /\ EventsLive'
    BY <2>1 DEF Order, OneAttempt, Pending, Connects, NothingLeft, EventsLive, Live
  <2>3. ConnectedHeld' /\ Closing'
    BY <2>1 DEF Order, ConnectedHeld, Closing, InCallback, Connecting
  <2>4. NamedIsHeld' /\ StopIsLast' /\ QueueInOrder'
    BY <2>1 DEF Order, NamedIsHeld, StopIsLast, QueueInOrder, Connecting, Stopping, Live
  <2> QED
    BY <2>1, <2>2, <2>3, <2>4 DEF Order
<1>11. CASE setSession
  <2>1. /\ crash = "none" /\ lpc = "session" /\ lpc' = "idle"
        /\ UNCHANGED <<csession, cstate, timers, cfd, ev, queue, lcur, upc, ucur, started>>
    BY <1>11 DEF setSession, clientVars, userVars
  <2>2. /\ csession \in Sessions /\ upc = "idle" /\ sstate[csession] \in {"connecting", "connected"}
        /\ cstate # "freed"
    BY <1>0, <2>1 DEF Order, Closing, NamedIsHeld, NothingLeft, InCallback, Connecting, SessTypes
  <2>3. sstate' = [sstate EXCEPT ![csession] = "connected"] /\ crash' = "none"
    BY <1>0, <1>11, <2>1, <2>2 DEF setSession
  <2>4. \A t \in Sessions : sstate'[t] = IF t = csession THEN "connected" ELSE sstate[t]
    BY <1>0, <2>3 DEF SessTypes
  <2>5. \A t \in Sessions : Live(t)' <=> Live(t)
    BY <2>2, <2>4 DEF Live
  <2>6. NothingLeft' /\ OneAttempt' /\ EventsLive'
    BY <2>1, <2>2, <2>5 DEF Order, OneAttempt, Pending, Connects, NothingLeft, EventsLive
  <2>7. ConnectedHeld' /\ Closing'
    BY <2>1, <2>2, <2>4 DEF Order, ConnectedHeld, Closing, InCallback, Connecting
  <2>8. NamedIsHeld' /\ StopIsLast'
    BY <2>1, <2>2, <2>4 DEF Order, NamedIsHeld, StopIsLast, Stopping
  <2>9. QueueInOrder'
    BY <2>1, <2>2, <2>4, <2>5, QueueNames DEF Order, QueueInOrder
  <2> QED
    BY <2>3, <2>6, <2>7, <2>8, <2>9 DEF Order
<1>12. CASE forget
  <2>1. /\ crash' = "none" /\ lpc = "lost" /\ lpc' = "remove" /\ csession' = NULL
        /\ UNCHANGED <<cstate, timers, sstate, cfd, ev, queue, lcur, upc, ucur, started>>
    BY <1>12 DEF forget, sessVars, userVars
  <2>2. NothingLeft' /\ OneAttempt' /\ EventsLive'
    BY <2>1 DEF Order, OneAttempt, Pending, Connects, NothingLeft, EventsLive, Live
  <2>3. ConnectedHeld' /\ Closing'
    BY <2>1 DEF Order, ConnectedHeld, Closing, InCallback, Connecting
  <2>4. NamedIsHeld' /\ StopIsLast' /\ QueueInOrder'
    BY <2>1
    DEF Order, NamedIsHeld, StopIsLast, QueueInOrder, Closing, InCallback, Connecting, Stopping, Live
  <2> QED
    BY <2>1, <2>2, <2>3, <2>4 DEF Order
<1> QED
  BY <1>1, <1>2, <1>3, <1>4, <1>5, <1>6, <1>7, <1>8, <1>9, <1>10, <1>11, <1>12 DEF loopStep

LEMMA UserOrder ==
  ASSUME ClientInv, Order, userStep, ~hasty', ~raced'
  PROVE  Order'
<1>0. /\ SessTypes /\ InHand /\ timers \in Nat /\ Len(queue) \in Nat /\ DOMAIN queue = 1 .. Len(queue)
      /\ queue \in Seq(Messages) /\ NULL \notin Sessions /\ ucur \in Sessions \cup {NULL}
      /\ csession \in Sessions \cup {NULL} /\ QueueCap \in Nat \ {0}
  BY OrderFacts, TcpClientAssumption DEF SessTypes
<1>1. CASE startHere
  <2>1. /\ crash = "none" /\ lpc = "idle" /\ upc = "idle" /\ ~Busy /\ startConnectInLoop("connecting")
        /\ UNCHANGED <<timers, queue, lcur, upc, ucur>>
    BY <1>1 DEF startHere, UserIdle
  <2>2. /\ timers' = 0 /\ Pending = {} /\ Connects' = {} /\ csession = NULL
        /\ \A s \in Sessions : ~Live(s)
    BY <2>1, NotBusy DEF Connects
  <2> QED
    BY <2>1, <2>2, AttemptStarts
<1>2. CASE startElsewhere
  <2>1. /\ crash' = "none" /\ upc = "idle" /\ cstate' # "freed" /\ ~Busy
        /\ pushMsgqueue(Msg("CONNECT", NULL))
        /\ UNCHANGED <<csession, cstate, timers, sstate, cfd, ev, lpc, lcur, upc, ucur>>
    BY <1>2 DEF startElsewhere, UserIdle, clientVars, sessVars, loopVars
  <2>2. /\ timers = 0 /\ Pending = {} /\ csession = NULL /\ queue = <<>>
        /\ lpc = "idle" /\ \A s \in Sessions : ~Live(s)
    BY <2>1, NotBusy
  <2>3. queue' = <<Msg("CONNECT", NULL)>>
    BY <1>0, <2>1, <2>2 DEF pushMsgqueue
  <2>4. QueueInOrder'
    BY <2>3 DEF QueueInOrder, Msg
  <2>5. OneAttempt' /\ NothingLeft'
    BY <2>1, <2>2 DEF OneAttempt, Pending, NothingLeft
  <2>6. EventsLive' /\ ConnectedHeld' /\ Closing'
    BY <2>1, <2>2 DEF Order, EventsLive, ConnectedHeld, Closing, InCallback, Connecting, Live
  <2>7. NamedIsHeld' /\ StopIsLast'
    BY <2>1, <2>2 DEF NamedIsHeld, StopIsLast, Connecting, Stopping, Live
  <2> QED
    BY <2>1, <2>4, <2>5, <2>6, <2>7 DEF Order
<1>3. CASE stopHere
  <2>1. /\ crash = "none" /\ upc = "idle" /\ lpc = "idle" /\ cstate' = "disconnected" /\ csession' = NULL
        /\ started' = FALSE /\ UNCHANGED <<timers, queue, lpc, lcur, upc, ucur>>
        /\ (csession # NULL => ~InUse(csession))
    BY <1>3 DEF stopHere, UserIdle, loopVars
  <2>2. Connects' = Connects
    BY <2>1 DEF Connects
  <2>3. CASE csession = NULL
    <3>1. UNCHANGED <<sstate, cfd, ev, crash>>
      BY <1>3, <2>3 DEF stopHere, sessVars
    <3>2. OneAttempt' /\ NothingLeft' /\ EventsLive' /\ ConnectedHeld' /\ Closing'
      BY <2>1, <2>2, <2>3, <3>1
      DEF Order, OneAttempt, Pending, NothingLeft, EventsLive, ConnectedHeld, Closing, InCallback, Connecting, Live
    <3>3. NamedIsHeld' /\ StopIsLast' /\ QueueInOrder'
      BY <2>1, <3>1 DEF Order, NamedIsHeld, StopIsLast, QueueInOrder, Connecting, Stopping, Live
    <3> QED
      BY <2>1, <3>1, <3>2, <3>3 DEF Order
  <2>4. CASE csession # NULL
    <3>1. csession \in Sessions /\ sstate[csession] = "connected"
      BY <1>0, <2>1, <2>4 DEF Order, NamedIsHeld, Connecting
    <3>2. Live(csession) /\ removeAndDestroy(csession) /\ crash' = "none"
      BY <1>3, <2>1, <2>4, <3>1 DEF stopHere, Live
    <3>3. \A i \in DOMAIN queue : queue[i].session # csession
      BY <2>1, <2>4 DEF InUse
    <3> QED
      BY <1>0, <2>1, <2>2, <3>1, <3>2, <3>3, SessionRemoved
  <2> QED
    BY <2>3, <2>4
<1>4. CASE stopElsewhere
  <2>1. /\ crash' = "none" /\ upc = "idle" /\ ~InCallback /\ upc' = "stopTest" /\ started /\ ~started'
        /\ cstate' = "disconnected"
        /\ UNCHANGED <<csession, timers, sstate, cfd, ev, queue, lpc, lcur, ucur>>
    BY <1>4 DEF stopElsewhere, UserIdle, sessVars, loopVars
  <2>2. OneAttempt' /\ NothingLeft' /\ EventsLive' /\ ConnectedHeld' /\ Closing'
    BY <2>1
    DEF Order, OneAttempt, Pending, Connects, NothingLeft, EventsLive, ConnectedHeld, Closing,
        InCallback, Connecting, Live
  <2>3. NamedIsHeld' /\ StopIsLast' /\ QueueInOrder'
    BY <2>1 DEF Order, NamedIsHeld, StopIsLast, QueueInOrder, Connecting, Stopping, Live
  <2> QED
    BY <2>1, <2>2, <2>3 DEF Order
<1>5. CASE stopTest
  <2>1. /\ crash' = "none" /\ upc = "stopTest"
        /\ ucur' = csession /\ upc' = IF csession = NULL THEN "idle" ELSE "stopCheck"
        /\ UNCHANGED <<csession, cstate, timers, sstate, cfd, ev, queue, lpc, lcur, started>>
    BY <1>5 DEF stopTest, clientVars, sessVars, loopVars
  <2>2. OneAttempt' /\ NothingLeft' /\ EventsLive' /\ ConnectedHeld' /\ Closing'
    BY <2>1
    DEF Order, OneAttempt, Pending, Connects, NothingLeft, EventsLive, ConnectedHeld, Closing,
        InCallback, Connecting, Live
  <2>3. NamedIsHeld' /\ StopIsLast' /\ QueueInOrder'
    BY <2>1 DEF Order, NamedIsHeld, StopIsLast, QueueInOrder, Connecting, Stopping, Live
  <2> QED
    BY <2>1, <2>2, <2>3 DEF Order
<1>6. CASE stopCheck
  <2>1. /\ crash = "none" /\ upc = "stopCheck"
        /\ UNCHANGED <<csession, cstate, timers, sstate, cfd, ev, queue, lpc, lcur, started>>
    BY <1>6 DEF stopCheck, clientVars, sessVars, loopVars
  <2>2. /\ csession \in Sessions /\ ucur = csession /\ sstate[csession] = "connected"
    BY <1>0, <2>1 DEF Order, NamedIsHeld, Closing, InCallback
  <2>3. ucur' = csession /\ upc' = "stopPush" /\ crash' = "none"
    BY <1>0, <1>6, <2>1, <2>2 DEF stopCheck
  <2>4. OneAttempt' /\ NothingLeft' /\ EventsLive' /\ ConnectedHeld' /\ Closing'
    BY <2>1, <2>2, <2>3
    DEF Order, OneAttempt, Pending, Connects, NothingLeft, EventsLive, ConnectedHeld, Closing,
        InCallback, Connecting, Live
  <2>5. NamedIsHeld' /\ StopIsLast' /\ QueueInOrder'
    BY <2>1, <2>2, <2>3 DEF Order, NamedIsHeld, StopIsLast, QueueInOrder, Connecting, Stopping, Live
  <2> QED
    BY <2>3, <2>4, <2>5 DEF Order
<1>7. CASE stopPush
  <2>1. /\ crash = "none" /\ upc = "stopPush" /\ upc' = "stopClear"
        /\ UNCHANGED <<csession, cstate, timers, cfd, ev, lpc, lcur, ucur, started>>
    BY <1>7 DEF stopPush, clientVars, loopVars
  <2>2. csession \in Sessions /\ ucur = csession /\ sstate[csession] = "connected"
    BY <1>0, <2>1 DEF Order, NamedIsHeld, Closing, InCallback
  <2>3. /\ sstate' = [sstate EXCEPT ![csession] = "disconnecting"]
        /\ pushMsgqueue(Msg("REMOVE", csession)) /\ crash' = "none"
    BY <1>7, <2>1, <2>2 DEF stopPush, Live
  <2>4. \A t \in Sessions : sstate'[t] = IF t = csession THEN "disconnecting" ELSE sstate[t]
    BY <1>0, <2>3 DEF SessTypes
  <2>5. \A t \in Sessions : sstate[t] # "disconnecting"
    BY <2>1 DEF Order, StopIsLast
  <2>6. \A i \in DOMAIN queue : queue[i].type = "SEND" /\ Live(queue[i].session)
                                /\ queue[i].session \in Sessions
    BY <1>0, <2>2, <2>5, QueueNames DEF Order, OneAttempt, Connects, QueueInOrder
  <2>7. lpc' = "idle" /\ cstate # "freed" /\ ~started
    BY <1>0, <2>1 DEF Order, Closing, NothingLeft, StopIsLast, InCallback, Connecting, Stopping, InHand
  <2>8. \A i \in DOMAIN queue' :
          \/ queue'[i].type = "SEND" /\ queue'[i].session \in Sessions /\ Live(queue'[i].session)
          \/ queue'[i] = Msg("REMOVE", csession) /\ i = Len(queue')
    <3>1. CASE queue' = queue
      BY <2>6, <3>1
    <3>2. CASE queue' = Append(queue, Msg("REMOVE", csession))
      <4>1. /\ Len(queue') = Len(queue) + 1 /\ DOMAIN queue' = 1 .. Len(queue')
            /\ queue'[Len(queue')] = Msg("REMOVE", csession)
            /\ \A i \in 1 .. Len(queue) : queue'[i] = queue[i]
        BY <1>0, <3>2
      <4>2. \A i \in DOMAIN queue' : i = Len(queue') \/ i \in DOMAIN queue
        BY <1>0, <4>1
      <4> QED
        BY <1>0, <2>6, <4>1, <4>2
    <3> QED
      BY <2>3, <3>1, <3>2 DEF pushMsgqueue
  <2>9. \A t \in Sessions : Live(t) => Live(t)'
    BY <2>4 DEF Live
  <2>10. QueueInOrder'
    <3> SUFFICES ASSUME NEW i \in DOMAIN queue'
                 PROVE  /\ queue'[i].type = "CONNECT" => Len(queue') = 1
                        /\ queue'[i].type = "REMOVE" =>
                             i = Len(queue') /\ sstate'[queue'[i].session] = "disconnecting"
                        /\ queue'[i].type = "SEND" => Live(queue[i].session)'
      BY DEF QueueInOrder
    <3>1. CASE queue'[i].type = "SEND" /\ queue'[i].session \in Sessions /\ Live(queue'[i].session)
      BY <2>4, <3>1 DEF Live
    <3>2. CASE queue'[i] = Msg("REMOVE", csession) /\ i = Len(queue')
      BY <2>2, <2>4, <3>2 DEF Msg
    <3> QED
      BY <2>8, <3>1, <3>2
  <2>11. Connects' = {}
    BY <2>8 DEF Connects, Msg
  <2>12. OneAttempt' /\ NothingLeft' /\ EventsLive' /\ ConnectedHeld' /\ Closing'
    BY <2>1, <2>4, <2>7, <2>9, <2>11
    DEF Order, OneAttempt, Pending, NothingLeft, EventsLive, ConnectedHeld, Closing, InCallback, Connecting, Live
  <2>13. NamedIsHeld' /\ StopIsLast'
    BY <2>1, <2>2, <2>4, <2>7 DEF NamedIsHeld, StopIsLast, Connecting, Stopping
  <2> QED
    BY <2>3, <2>10, <2>12, <2>13 DEF Order
<1>8. CASE stopClear
  <2>1. /\ crash' = "none" /\ upc = "stopClear" /\ upc' = "idle" /\ csession' = NULL
        /\ UNCHANGED <<cstate, timers, sstate, cfd, ev, queue, lpc, lcur, started>>
    BY <1>8 DEF stopClear, sessVars, loopVars
  <2>2. sstate[csession] # "connected" /\ csession = ucur /\ ~started /\ lpc = "idle" /\ cstate # "freed"
    BY <1>0, <2>1
    DEF Order, NamedIsHeld, StopIsLast, Connecting, InCallback, Stopping, Closing, NothingLeft, InHand
  <2>3. OneAttempt' /\ NothingLeft' /\ EventsLive' /\ ConnectedHeld' /\ Closing'
    BY <2>1, <2>2
    DEF Order, OneAttempt, Pending, Connects, NothingLeft, EventsLive, ConnectedHeld, Closing,
        InCallback, Connecting, Live
  <2>4. NamedIsHeld' /\ StopIsLast' /\ QueueInOrder'
    BY <2>1, <2>2 DEF Order, NamedIsHeld, StopIsLast, QueueInOrder, Connecting, Stopping, Live
  <2> QED
    BY <2>1, <2>3, <2>4 DEF Order
<1>9. CASE sendElsewhere
  <2>1. /\ crash' = "none" /\ upc = "idle" /\ ~InCallback /\ upc' = "sendCheck" /\ ucur' = csession
        /\ csession # NULL /\ started /\ cstate # "freed"
        /\ UNCHANGED <<csession, cstate, timers, sstate, cfd, ev, queue, lpc, lcur, started>>
    BY <1>9 DEF sendElsewhere, UserIdle, clientVars, sessVars, loopVars
  <2>2. OneAttempt' /\ NothingLeft' /\ EventsLive' /\ ConnectedHeld' /\ Closing'
    BY <2>1
    DEF Order, OneAttempt, Pending, Connects, NothingLeft, EventsLive, ConnectedHeld, Closing,
        InCallback, Connecting, Live
  <2>3. NamedIsHeld' /\ StopIsLast' /\ QueueInOrder'
    BY <2>1 DEF Order, NamedIsHeld, StopIsLast, QueueInOrder, Connecting, Stopping, Live
  <2> QED
    BY <2>1, <2>2, <2>3 DEF Order
<1>10. CASE sendCheck
  <2>1. /\ crash = "none" /\ upc = "sendCheck" /\ upc' = "idle"
        /\ UNCHANGED <<csession, cstate, timers, sstate, cfd, ev, lpc, lcur, started>>
    BY <1>10 DEF sendCheck, clientVars, sessVars, loopVars
  <2>2. csession \in Sessions /\ ucur = csession /\ sstate[csession] = "connected"
    BY <1>0, <2>1 DEF Order, NamedIsHeld, Closing, InCallback
  <2>3. pushMsgqueue(Msg("SEND", csession)) /\ crash' = "none"
    BY <1>10, <2>1, <2>2 DEF sendCheck
  <2>4. \A t \in Sessions : sstate[t] # "disconnecting"
    BY <2>1 DEF Order, StopIsLast
  <2>5. \A i \in DOMAIN queue : queue[i].type = "SEND" /\ Live(queue[i].session)
    BY <1>0, <2>2, <2>4, QueueNames DEF Order, OneAttempt, Connects, QueueInOrder
  <2>6. lpc' = "idle" /\ cstate # "freed"
    BY <1>0, <2>1 DEF Order, Closing, NothingLeft, InCallback, Connecting, InHand
  <2>7. \A i \in DOMAIN queue' : queue'[i].type = "SEND" /\ Live(queue'[i].session)
    <3>1. CASE queue' = queue
      BY <2>5, <3>1
    <3>2. CASE queue' = Append(queue, Msg("SEND", csession))
      <4>1. /\ Len(queue') = Len(queue) + 1 /\ DOMAIN queue' = 1 .. Len(queue')
            /\ queue'[Len(queue')] = Msg("SEND", csession)
            /\ \A i \in 1 .. Len(queue) : queue'[i] = queue[i]
        BY <1>0, <3>2
      <4>2. \A i \in DOMAIN queue' : i = Len(queue') \/ i \in DOMAIN queue
        BY <1>0, <4>1
      <4> QED
        BY <1>0, <2>2, <2>5, <4>1, <4>2 DEF Live, Msg
    <3> QED
      BY <2>3, <3>1, <3>2 DEF pushMsgqueue
  <2>8. QueueInOrder'
    BY <2>1, <2>7 DEF QueueInOrder, Live
  <2>9. Connects' = {}
    BY <2>7 DEF Connects
  <2>10. OneAttempt' /\ NothingLeft' /\ EventsLive' /\ ConnectedHeld' /\ Closing'
    BY <2>1, <2>6, <2>9
    DEF Order, OneAttempt, Pending, NothingLeft, EventsLive, ConnectedHeld, Closing, InCallback, Connecting, Live
  <2>11. NamedIsHeld' /\ StopIsLast'
    BY <2>1, <2>2, <2>4 DEF NamedIsHeld, StopIsLast, Connecting, Stopping
  <2> QED
    BY <2>3, <2>8, <2>10, <2>11 DEF Order
<1>11. CASE destroyHere
  <2>1. /\ crash = "none" /\ upc = "idle" /\ lpc = "idle" /\ ~started /\ ~Busy
        /\ UNCHANGED <<csession, timers, cfd, queue, lpc, lcur, upc, ucur, started>>
    BY <1>11 DEF destroyHere, UserIdle, loopVars
  <2>2. /\ timers = 0 /\ Pending = {} /\ Connects = {} /\ csession = NULL /\ queue = <<>>
        /\ \A s \in Sessions : ~Live(s)
    BY <2>1, NotBusy
  <2>3. UNCHANGED <<sstate, ev, crash>>
    BY <1>11, <2>2 DEF destroyHere
  <2>4. OneAttempt' /\ NothingLeft' /\ EventsLive' /\ ConnectedHeld' /\ Closing'
    BY <2>1, <2>2, <2>3
    DEF Order, OneAttempt, Pending, Connects, NothingLeft, EventsLive, ConnectedHeld, Closing,
        InCallback, Connecting, Live
  <2>5. NamedIsHeld' /\ StopIsLast' /\ QueueInOrder'
    BY <2>1, <2>2, <2>3 DEF Order, NamedIsHeld, StopIsLast, QueueInOrder, Connecting, Stopping, Live
  <2> QED
    BY <2>1, <2>3, <2>4, <2>5 DEF Order
<1> QED
  BY <1>1, <1>2, <1>3, <1>4, <1>5, <1>6, <1>7, <1>8, <1>9, <1>10, <1>11 DEF userStep

\* Neither hasty nor raced is ever taken back.
LEMMA ConnectKeepsRaced ==
  ASSUME raced
  PROVE  /\ \A f : realConnect(f) => raced'
         /\ \A state : startConnectInLoop(state) => raced'
<1>1. ASSUME NEW f, realConnect(f) PROVE raced'
  BY <1>1 DEF realConnect
<1>2. ASSUME NEW state, startConnectInLoop(state) PROVE raced'
  <2>1. CASE UNCHANGED raced
    BY <2>1
  <2>2. ASSUME NEW f, realConnect(f) PROVE raced'
    BY <2>2, <1>1
  <2> QED
    BY <1>2, <2>1, <2>2 DEF startConnectInLoop
<1> QED
  BY <1>1, <1>2

LEMMA OrderlyBefore ==
  ASSUME Next, Orderly'
  PROVE  Orderly
<1>1. hasty => hasty'
  <2> SUFFICES ASSUME hasty PROVE hasty'
    OBVIOUS
  <2>1. CASE UNCHANGED hasty
    BY <2>1
  <2>2. CASE hasty' = (hasty \/ Busy)
    BY <2>2
  <2> QED
    BY <2>1, <2>2
    DEF Next, loopStep, userStep, history, timerFires, setConnected, setSession, forget, removeStep,
        drainConnect, drainRemove, drainSend, connectDone, connectFailed, answer, lost, startHere, startElsewhere, stopHere, stopElsewhere,
        stopTest, stopCheck, stopPush, stopClear, sendElsewhere, sendCheck, destroyHere
<1>2. raced => raced'
  <2> SUFFICES ASSUME raced PROVE raced'
    OBVIOUS
  <2>1. CASE UNCHANGED raced
    BY <2>1
  <2>2. ASSUME NEW x, raced' = (raced \/ x) PROVE raced'
    BY <2>2
  <2>3. ASSUME NEW f \in Sockets, connectDone(f) PROVE raced'
    BY <2>1, <2>3, ConnectKeepsRaced DEF connectDone
  <2>4. ASSUME NEW f \in Sockets, lost(f) PROVE raced'
    BY <2>1, <2>2, <2>4 DEF lost
  <2>5. CASE timerFires
    BY <2>1, <2>5, ConnectKeepsRaced DEF timerFires
  <2>6. CASE drainConnect
    BY <2>1, <2>6, ConnectKeepsRaced DEF drainConnect
  <2>7. CASE startHere
    BY <2>7, ConnectKeepsRaced DEF startHere
  <2>8. CASE stopHere
    BY <2>2, <2>8 DEF stopHere
  <2>9. ASSUME NEW f \in Sockets, connectFailed(f) \/ answer(f) PROVE UNCHANGED raced
    BY <2>9 DEF connectFailed, answer, history
  <2>10. CASE setConnected \/ setSession \/ forget \/ removeStep \/ drainRemove \/ drainSend
    BY <2>1, <2>10 DEF setConnected, setSession, forget, removeStep, drainRemove, drainSend, history
  <2>11. CASE \/ startElsewhere \/ stopTest \/ stopCheck \/ stopPush \/ stopClear
              \/ sendCheck \/ destroyHere
    BY <2>1, <2>11
    DEF startElsewhere, stopTest, stopCheck, stopPush, stopClear, sendCheck, destroyHere, history
  <2>12. CASE stopElsewhere \/ sendElsewhere
    BY <2>2, <2>12 DEF stopElsewhere, sendElsewhere
  <2> QED
    BY <2>1, <2>3, <2>4, <2>5, <2>6, <2>7, <2>8, <2>9, <2>10, <2>11, <2>12 DEF Next, loopStep, userStep
<1> QED
  BY <1>1, <1>2 DEF Orderly

LEMMA InitOrderInv == Init => OrderInv
<1> SUFFICES ASSUME Init PROVE Order
  BY DEF OrderInv
<1>1. NULL \notin Sessions /\ NULL # CONNECTING
  BY TcpClientAssumption DEF CONNECTING
<1> QED
  BY <1>1 DEF Init, Order, NothingLeft, OneAttempt, EventsLive, ConnectedHeld, Closing, NamedIsHeld,
     StopIsLast, QueueInOrder, Pending, Connects, Live, Stopping, Connecting, InCallback

LEMMA NextOrderInv == ClientInv /\ OrderInv /\ [Next]_vars => OrderInv'
<1> SUFFICES ASSUME ClientInv, OrderInv, [Next]_vars, Orderly' PROVE Order'
  BY DEF OrderInv
<1>1. CASE Next
  <2>1. Order
    BY <1>1, OrderlyBefore DEF OrderInv
  <2>2. ~hasty' /\ ~raced'
    BY DEF Orderly
  <2> QED
    BY <1>1, <2>1, <2>2, LoopOrder, UserOrder DEF Next
<1>2. CASE UNCHANGED vars
  BY <1>2 DEF OrderInv, Order, NothingLeft, OneAttempt, EventsLive, ConnectedHeld, Closing, NamedIsHeld,
     StopIsLast, QueueInOrder, Pending, Connects, Live, Stopping, Connecting, InCallback, Orderly,
     vars, clientVars, sessVars, userVars, loopVars, history
<1> QED
  BY <1>1, <1>2
-----------------------------------------------------------------------------
\* The invariant of a client whose user starts and destroys it only when nothing
\* is left of an earlier start and does not race with a loss (tcpClient.c:38-149).
THEOREM ClientOrder == Spec => []OrderInv
<1>1. ClientInv /\ ClientInv' /\ OrderInv /\ [Next]_vars => OrderInv'
  BY NextOrderInv
<1> QED
  BY InitOrderInv, <1>1, ClientInvariant, PTL DEF Spec

\* Such a client has one connection at a time: retries do not multiply, however
\* timers, attempts and messages of another thread interleave (tcpClient.c:21-98).
THEOREM ClientAtMostOne == Spec => []AtMostOneActivity
<1>1. ClientInv /\ OrderInv => AtMostOneActivity
  BY ActivityCounts DEF AtMostOneActivity, OrderInv, Order
<1> QED
  BY <1>1, ClientInvariant, ClientOrder, PTL

\* No open socket of it is without an owner (tcpClient.c:38-79, 100-117).
THEOREM ClientNoOrphan == Spec => []NoOrphanSocket
<1>1. ClientInv /\ OrderInv => NoOrphanSocket
  <2> SUFFICES ASSUME ClientInv, OrderInv, Orderly, crash = "none",
                      NEW f \in opened, ev[f] # CONNECTING, f \notin Abandoned
               PROVE  \/ csession # NULL /\ cfd[csession] = f
                      \/ lpc = "remove" /\ cfd[lcur] = f
                      \/ \E s \in Sessions : sstate[s] = "disconnecting" /\ cfd[s] = f
    BY DEF NoOrphanSocket
  <2>1. f \in Sockets /\ NULL \notin Sessions /\ Order
    BY OrderFacts DEF SessTypes, OrderInv
  <2>2. PICK s \in Sessions : Live(s) /\ cfd[s] = f
    <3>1. CASE f \in unheard
      BY <3>1 DEF Abandoned
    <3>2. CASE f \notin unheard
      <4>1. ev[f] \in Sessions
        BY <3>2 DEF ClientInv, OpenIsWatched
      <4> QED
        BY <2>1, <4>1 DEF Order, EventsLive
    <3> QED
      BY <3>1, <3>2
  <2> QED
    BY <2>1, <2>2 DEF Order, ConnectedHeld, Live
<1> QED
  BY <1>1, ClientInvariant, ClientOrder, PTL

\* No handler and no call of it touches a freed session or client
\* (tcpClient.c:21-98, eventLoop.c:32-67, 243-291).
THEOREM ClientNoUseAfterFree == Spec => []NoUseAfterFree
<1>1. OrderInv => NoUseAfterFree
  BY DEF OrderInv, Order, NoUseAfterFree
<1> QED
  BY <1>1, ClientOrder, PTL
=============================================================================
