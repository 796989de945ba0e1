------------------------------- MODULE MsgQueue -------------------------------
(***************************************************************************)
(* struct eventMsgqueue of event_msgqueue.c: threads hand messages to the  *)
(* thread that runs an event loop.  A mutex protects the ring of CircQueue *)
(* and one byte on a socket pair wakes the loop, sent only by the push     *)
(* that finds the ring empty.  popMsgqueue is the loop's read handler on   *)
(* the socket; it lets the mutex go round each callback                    *)
(* (unlockBetweenCallbacks is always 1).                                   *)
(*                                                                         *)
(* The socket pair is blocking: a send to a full socket waits, and it is   *)
(* made with the mutex held.                                               *)
(***************************************************************************)
EXTENDS CircQueue, FiniteSets

CONSTANTS
  Producers,  \* the threads that push
  Loop,       \* the thread that runs the loop and pops
  NoThread,   \* the owner of a free mutex
  SockCap,    \* how many one-byte sends the socket takes before send blocks
  RecvMax     \* the size of popMsgqueue's buffer (64)

ASSUME MsgQueueAssumption ==
  /\ Loop \notin Producers
  /\ NoThread \notin Producers \cup {Loop}
  /\ SockCap \in Nat \ {0}
  /\ RecvMax \in Nat \ {0}
  /\ NULL \notin Elems
  /\ MaxEntries # 0

VARIABLES
  lock,       \* the thread that holds msgq->lock
  bytes,      \* bytes in the socket pair
  pc,         \* where each producer is in pushMsgqueue
  msg,        \* pushMsgqueue's argument
  lpc,        \* where the loop is: in aeApiPoll or in popMsgqueue
  qdata,      \* popMsgqueue's local
  accepted,   \* history: the messages pushed, in order
  delivered,  \* history: the messages whose callback has run, in order
  dropped,    \* history: the messages refused (no caller looks at the result)
  burst       \* history: pops since the socket was last read empty

threadVars == <<lock, bytes, pc, msg, lpc, qdata>>
history == <<accepted, delivered, dropped, burst>>
vars == <<circVars, threadVars, history>>

initMsgqueue ==
  /\ initCircqueue
  /\ lock = NoThread
  /\ bytes = 0
  /\ pc = [p \in Producers |-> "idle"]
  /\ msg = [p \in Producers |-> NULL]
  /\ lpc = "poll"
  /\ qdata = NULL
  /\ accepted = <<>> /\ delivered = <<>> /\ dropped = {} /\ burst = 0

\* A message is a freshly allocated event: it is pushed at most once.
Fresh(m) ==
  /\ m \notin dropped
  /\ \A i \in DOMAIN accepted : accepted[i] # m
  /\ \A p \in Producers : msg[p] # m
-----------------------------------------------------------------------------
(* pushMsgqueue, by producer p *)

PushStart(p, m) ==
  /\ pc[p] = "idle" /\ Fresh(m)
  /\ pc' = [pc EXCEPT ![p] = "lock"]
  /\ msg' = [msg EXCEPT ![p] = m]
  /\ UNCHANGED <<circVars, lock, bytes, lpc, qdata, history>>

PushLock(p) ==
  /\ pc[p] = "lock" /\ lock = NoThread
  /\ lock' = p
  /\ pc' = [pc EXCEPT ![p] = "push"]
  /\ UNCHANGED <<circVars, bytes, msg, lpc, qdata, history>>

\* A wake byte with every push.
NeedsWake_Always(n) == n # 0

\* pushMsgqueue that wakes the loop only when the ring was already in use.
NeedsWake_Inverted(n) == n # 1

\* The push that finds the ring empty sends the wake byte.
NeedsWake(n) == n = 1

\* PushTail that returns at once, mutex held, when the ring is full.
PushTail_ReturnLocked(p) ==
  /\ pc[p] = "push"
  /\ pushTailCircqueue(msg[p])
  /\ \/ /\ ret' = "ok"
        /\ accepted' = Append(accepted, msg[p])
        /\ pc' = [pc EXCEPT ![p] = IF NeedsWake(count') THEN "send" ELSE "unlock"]
        /\ UNCHANGED dropped
     \/ /\ ret' = "full"
        /\ dropped' = dropped \cup {msg[p]}
        /\ pc' = [pc EXCEPT ![p] = "idle"]
        /\ UNCHANGED accepted
  /\ UNCHANGED <<lock, bytes, msg, lpc, qdata, delivered, burst>>

PushTail(p) ==
  /\ pc[p] = "push"
  /\ pushTailCircqueue(msg[p])
  /\ \/ /\ ret' = "ok"
        /\ accepted' = Append(accepted, msg[p])
        /\ pc' = [pc EXCEPT ![p] = IF NeedsWake(count') THEN "send" ELSE "unlock"]
        /\ UNCHANGED dropped
     \/ /\ ret' = "full"
        /\ dropped' = dropped \cup {msg[p]}
        /\ pc' = [pc EXCEPT ![p] = "unlock"]
        /\ UNCHANGED accepted
  /\ UNCHANGED <<lock, bytes, msg, lpc, qdata, delivered, burst>>

\* send(), blocking while the socket is full.
PushSend(p) ==
  /\ pc[p] = "send" /\ bytes < SockCap
  /\ bytes' = bytes + 1
  /\ pc' = [pc EXCEPT ![p] = "unlock"]
  /\ UNCHANGED <<circVars, lock, msg, lpc, qdata, history>>

PushUnlock(p) ==
  /\ pc[p] = "unlock"
  /\ lock' = NoThread
  /\ pc' = [pc EXCEPT ![p] = "idle"]
  /\ msg' = [msg EXCEPT ![p] = NULL]
  /\ UNCHANGED <<circVars, bytes, lpc, qdata, history>>
-----------------------------------------------------------------------------
(* popMsgqueue, by the loop, when ae finds popFd readable *)

PopRecv ==
  /\ lpc = "poll" /\ bytes > 0
  /\ bytes' = IF bytes > RecvMax THEN bytes - RecvMax ELSE 0
  /\ burst' = IF bytes > RecvMax THEN burst ELSE 0
  /\ lpc' = "lock"
  /\ UNCHANGED <<circVars, lock, pc, msg, qdata, accepted, delivered, dropped>>

PopLock ==
  /\ lpc = "lock" /\ lock = NoThread
  /\ lock' = Loop
  /\ lpc' = "check"
  /\ UNCHANGED <<circVars, bytes, pc, msg, qdata, history>>

\* PopHead that takes one message and leaves the drain loop.
PopHead_OneShot ==
  /\ lpc = "check" /\ count > 0
  /\ popHeadCircqueue
  /\ qdata' = ret'
  /\ delivered' = Append(delivered, ret')
  /\ burst' = burst + 1
  /\ lock' = NoThread
  /\ lpc' = "poll"
  /\ UNCHANGED <<bytes, pc, msg, accepted, dropped>>

PopHead ==
  /\ lpc = "check" /\ count > 0
  /\ popHeadCircqueue
  /\ qdata' = ret'
  /\ burst' = burst + 1
  /\ lock' = NoThread
  /\ lpc' = "callback"
  /\ UNCHANGED <<bytes, pc, msg, accepted, delivered, dropped>>

PopCallback ==
  /\ lpc = "callback"
  /\ delivered' = Append(delivered, qdata)
  /\ qdata' = NULL
  /\ lpc' = "lock"
  /\ UNCHANGED <<circVars, lock, bytes, pc, msg, accepted, dropped, burst>>

PopDone ==
  /\ lpc = "check" /\ count = 0
  /\ lock' = NoThread
  /\ lpc' = "poll"
  /\ UNCHANGED <<circVars, bytes, pc, msg, qdata, history>>
-----------------------------------------------------------------------------
PushStep(p) == PushLock(p) \/ PushTail(p) \/ PushSend(p) \/ PushUnlock(p)
PopStep == PopRecv \/ PopLock \/ PopHead \/ PopCallback \/ PopDone

Next ==
  \/ \E p \in Producers : (\E m \in Elems : PushStart(p, m)) \/ PushStep(p)
  \/ PopStep

SafeSpec == initMsgqueue /\ [][Next]_vars

\* The threads run: a started push goes on, and so does the loop.  Nobody is
\* made to push.
Spec ==
  /\ SafeSpec
  /\ \A p \in Producers : WF_vars(PushStep(p))
  /\ WF_vars(PopStep)
-----------------------------------------------------------------------------
InPush(p) == pc[p] \in {"push", "send", "unlock"}
Senders == {p \in Producers : pc[p] = "send"}

MsgQueueTypeOK ==
  /\ CircTypeOK
  /\ lock \in Producers \cup {Loop, NoThread}
  /\ bytes \in 0 .. SockCap
  /\ pc \in [Producers -> {"idle", "lock", "push", "send", "unlock"}]
  /\ msg \in [Producers -> Elems \cup {NULL}]
  /\ \A p \in Producers : pc[p] # "idle" => msg[p] \in Elems
  /\ lpc \in {"poll", "lock", "check", "callback"}
  /\ qdata \in Elems \cup {NULL}
  /\ lpc = "callback" => qdata \in Elems
  /\ accepted \in Seq(Elems) /\ delivered \in Seq(Elems)
  /\ dropped \subseteq Elems
  /\ burst \in Nat

\* The ring is touched only by the thread that owns the mutex.
MutualExclusion ==
  /\ \A p \in Producers : InPush(p) <=> lock = p
  /\ lpc = "check" <=> lock = Loop

(***************************************************************************)
(* No message waits in the ring with nothing under way to fetch it: a      *)
(* wake byte is in the socket or about to be sent, or the drain loop has   *)
(* yet to look again (event_msgqueue.c:126-144 against 204-210).           *)
(***************************************************************************)
NoLostWakeup ==
  count > 0 => \/ bytes > 0
               \/ \E p \in Producers : pc[p] = "send"
               \/ lpc \in {"lock", "check", "callback"}

(***************************************************************************)
(* One wake byte is sent each time the ring stops being empty, also while  *)
(* the drain loop runs and does not read the socket: the bytes unread are  *)
(* at most one more than the messages popped since it was last read empty. *)
(* So send, made with the mutex held, blocks only after SockCap messages   *)
(* drained in one go (event_msgqueue.c:126, 206-207).                      *)
(***************************************************************************)
WakeBytesBounded ==
  bytes + (IF \E p \in Producers : pc[p] = "send" THEN 1 ELSE 0)
    <= burst + (IF count > 0 THEN 1 ELSE 0)

\* What popMsgqueue has taken from the ring and not yet given to the callback.
InHand == IF lpc = "callback" THEN <<qdata>> ELSE <<>>

\* A message is delivered exactly once and in the order of acceptance: the
\* history of the accepted ones is the delivered, the one in hand and the ring.
ExactlyOnceInOrder == accepted = delivered \o InHand \o Contents

\* The socket is full, a pusher waits in send with the mutex, and the drain, which
\* has to end before the socket is read again, waits for the mutex or soon will.
Wedged == bytes = SockCap /\ Senders # {} /\ lpc \in {"callback", "lock"}

\* The message queue is the channel its users think of: its steps are the
\* channel's, and unless it wedges every accepted message reaches its callback
\* (event_msgqueue.c:121-145, 200-213).
Channel == INSTANCE MsgChannel WITH Messages <- Elems, Bound <- MaxEntries
ChannelSafe == Channel!SafeSpec
ChannelSpec == ChannelSafe /\ (Channel!Delivers \/ <>Wedged)

\* Every push returns, or the two threads end up waiting for each other: and that
\* takes SockCap messages popped since the socket was last read empty
\* (event_msgqueue.c:126-144, 204-210).
PushReturns ==
  \A p \in Producers :
    pc[p] = "lock" ~> pc[p] = "idle" \/ (Wedged /\ burst >= SockCap)
=============================================================================
