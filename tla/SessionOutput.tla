----------------------------- MODULE SessionOutput -----------------------------
(***************************************************************************)
(* How bytes leave through one session (session.c, eventLoop.c).  The      *)
(* loop's thread writes at once with writeSession; another thread calls    *)
(* sendSessionEvent, which queues a SENDSESSION message that the loop      *)
(* turns into a writeSession, or removeSessionEvent, which queues a        *)
(* REMOVESESSION.  writeSession sends what the socket takes; the rest goes *)
(* to session->sendBuffer.                                                 *)
(*                                                                         *)
(* A byte is <<t, n>>: the n-th byte of thread t.  onWriteSession, which   *)
(* would empty the send buffer, is not here: StalledUnwatched says why it  *)
(* is never called.                                                        *)
(***************************************************************************)
EXTENDS Naturals, Sequences, SequencesExt

CONSTANTS
  Senders,    \* the threads other than the loop's that use the session
  Loop,       \* the loop's thread
  QueueCap,   \* slots of the loop's message queue (128)
  Room,       \* bytes the socket takes before send says EAGAIN
  MaxLen,     \* bound of the model: bytes of one buffer
  MaxBytes    \* bound of the model: bytes a thread writes in all

ASSUME SessionOutputAssumption ==
  /\ Loop \notin Senders
  /\ QueueCap \in Nat \ {0} /\ Room \in Nat \ {0}
  /\ MaxLen \in Nat \ {0} /\ MaxBytes \in Nat

Writers == Senders \cup {Loop}

VARIABLES
  state,       \* session->state: "connected", "disconnecting", or "freed"
  mask,        \* session->mask: a set of "READABLE", "WRITABLE"
  watched,     \* the events of the session registered with ae
  sendBuffer,  \* the bytes of session->sendBuffer
  queue,       \* the loop's messages about the session
  wbuf,        \* what is left of writeSession's sendBuf
  lpc,         \* the loop: "idle" or "write", in writeSession
  tpc, tbuf,   \* per sender: "idle", or past the test of the state in a call; its sendBuf
  space,       \* bytes the socket still takes
  sent,        \* the bytes the socket has taken, in order
  handed,      \* history: the bytes writeSession was given, in order
  made,        \* history: per thread, how many bytes it has given away
  lost,        \* history: the bytes refused or given up
  failed,      \* history: a send has failed with an error
  raced,       \* history: the session was removed with another call or message about
  late,        \* history: a call was begun after the session had been freed
  crash        \* a freed session was used

sessVars == <<state, mask, watched, sendBuffer>>
loopVars == <<lpc, wbuf>>
history == <<handed, made, lost, failed, raced, late>>
vars == <<sessVars, queue, loopVars, tpc, tbuf, space, sent, history, crash>>

Init ==
  /\ state = "connected" /\ mask = {"READABLE"} /\ watched = {"READABLE"}
  /\ sendBuffer = <<>> /\ queue = <<>> /\ wbuf = <<>> /\ lpc = "idle"
  /\ tpc = [t \in Senders |-> "idle"] /\ tbuf = [t \in Senders |-> <<>>]
  /\ space = Room /\ sent = <<>>
  /\ handed = <<>> /\ made = [t \in Writers |-> 0] /\ lost = {}
  /\ failed = FALSE /\ raced = FALSE /\ late = FALSE /\ crash = FALSE

\* A new buffer of thread t, of n bytes.
NewBuffer(t, n) == [i \in 1 .. n |-> <<t, made[t] + i>>]
Makes(t, n) == made[t] + n <= MaxBytes /\ made' = [made EXCEPT ![t] = @ + n]

\* A full queue that makes room by forgetting its oldest message.
pushMsgqueue_Overwrite(m) ==
  queue' = Append(IF Len(queue) < QueueCap THEN queue ELSE Tail(queue), m) /\ UNCHANGED lost

\* pushMsgqueue, whose result nobody looks at.
pushMsgqueue(m) ==
  IF Len(queue) < QueueCap
  THEN queue' = Append(queue, m) /\ UNCHANGED lost
  ELSE lost' = lost \cup ToSet(m.buf) /\ UNCHANGED queue

InCall(t) == tpc[t] # "idle"
-----------------------------------------------------------------------------
(* writeSession, on the loop's thread *)

\* It is called with buf: only a connected session writes.
writeSession(buf) ==
  IF state = "connected"
  THEN /\ wbuf' = buf /\ lpc' = "write" /\ handed' = handed \o buf
       /\ UNCHANGED lost
  ELSE lost' = lost \cup ToSet(buf) /\ UNCHANGED <<wbuf, lpc, handed>>

\* A turn of its loop: send takes a part of the buffer, or all of it.
sendSome ==
  /\ lpc = "write" /\ wbuf # <<>> /\ "WRITABLE" \notin mask
  /\ \E n \in 1 .. Len(wbuf) :
       /\ n <= space
       /\ space' = space - n
       /\ sent' = sent \o SubSeq(wbuf, 1, n)
       /\ wbuf' = SubSeq(wbuf, n + 1, Len(wbuf))
  /\ UNCHANGED <<sessVars, queue, lpc, tpc, tbuf, history, crash>>

\* send fails: the rest of the buffer is left with the caller, who does not look.
sendError ==
  /\ lpc = "write" /\ wbuf # <<>> /\ "WRITABLE" \notin mask
  /\ lost' = lost \cup ToSet(wbuf)
  /\ failed' = TRUE
  /\ wbuf' = <<>> /\ lpc' = "idle"
  /\ UNCHANGED <<sessVars, queue, tpc, tbuf, space, sent, handed, made, raced, late, crash>>

\* The rest put before what is there.
storeRest_Front ==
  /\ lpc = "write" /\ wbuf # <<>> /\ (space = 0 \/ "WRITABLE" \in mask)
  /\ sendBuffer' = wbuf \o sendBuffer
  /\ mask' = mask \cap {"WRITABLE"}
  /\ watched' = watched \cup mask'
  /\ wbuf' = <<>> /\ lpc' = "idle"
  /\ UNCHANGED <<state, queue, tpc, tbuf, space, sent, history, crash>>

\* The mask with SESSION_WRITABLE set.
storeRest_Or ==
  /\ lpc = "write" /\ wbuf # <<>> /\ (space = 0 \/ "WRITABLE" \in mask)
  /\ sendBuffer' = sendBuffer \o wbuf
  /\ mask' = mask \cup {"WRITABLE"}
  /\ watched' = watched \cup mask'
  /\ wbuf' = <<>> /\ lpc' = "idle"
  /\ UNCHANGED <<state, queue, tpc, tbuf, space, sent, history, crash>>

\* EAGAIN: the rest goes to the send buffer, the mask becomes what it has in common
\* with SESSION_WRITABLE, and updateSessionEvent registers what the mask names.
storeRest ==
  /\ lpc = "write" /\ wbuf # <<>> /\ (space = 0 \/ "WRITABLE" \in mask)
  /\ sendBuffer' = sendBuffer \o wbuf
  /\ mask' = mask \cap {"WRITABLE"}
  /\ watched' = watched \cup mask'
  /\ wbuf' = <<>> /\ lpc' = "idle"
  /\ UNCHANGED <<state, queue, tpc, tbuf, space, sent, history, crash>>

\* Everything is out: writeCompleteCallBack.
writeComplete ==
  /\ lpc = "write" /\ wbuf = <<>>
  /\ lpc' = "idle"
  /\ UNCHANGED <<sessVars, queue, wbuf, tpc, tbuf, space, sent, history, crash>>
-----------------------------------------------------------------------------
(* The loop: callbacks that write, messages, and removing the session *)

LoopIdle == ~crash /\ lpc = "idle"

\* dataCallBack, or sendSessionEvent on the loop's own thread.
writeHere(n) ==
  /\ LoopIdle /\ state # "freed"
  /\ Makes(Loop, n)
  /\ writeSession(NewBuffer(Loop, n))
  /\ UNCHANGED <<sessVars, queue, tpc, tbuf, space, sent, failed, raced, late, crash>>

\* eventCallBack, SENDSESSION.
drainSend ==
  /\ LoopIdle /\ queue # <<>> /\ Head(queue).type = "SEND"
  /\ queue' = Tail(queue)
  /\ IF state = "freed"
     THEN crash' = TRUE /\ UNCHANGED <<loopVars, handed, lost>>
     ELSE writeSession(Head(queue).buf) /\ UNCHANGED crash
  /\ UNCHANGED <<sessVars, tpc, tbuf, space, sent, made, failed, raced, late>>

\* eventCallBack, REMOVESESSION.
drainRemove ==
  /\ LoopIdle /\ queue # <<>> /\ Head(queue).type = "REMOVE"
  /\ queue' = Tail(queue)
  /\ IF state = "freed"
     THEN crash' = TRUE /\ UNCHANGED <<state, watched>>
     ELSE state' = "freed" /\ watched' = watched \ mask /\ UNCHANGED crash
  /\ UNCHANGED <<mask, sendBuffer, loopVars, tpc, tbuf, space, sent, history>>

\* The peer has closed, or dataCallBack asks to: removeSessionEvent, on the loop.
removeHere ==
  /\ LoopIdle /\ state = "connected"
  /\ state' = "freed" /\ watched' = watched \ mask
  /\ raced' = (raced \/ queue # <<>> \/ \E t \in Senders : InCall(t))
  /\ UNCHANGED <<mask, sendBuffer, queue, loopVars, tpc, tbuf, space, sent,
                 handed, made, lost, failed, late, crash>>
-----------------------------------------------------------------------------
(* Another thread.  A call that finds the session kDisconnecting returns -1 *)
(* and changes nothing.                                                     *)

\* sendSessionEvent tests the state, ...
sendCheck(t, n) ==
  /\ ~crash /\ tpc[t] = "idle" /\ state = "connected"
  /\ Makes(t, n)
  /\ tbuf' = [tbuf EXCEPT ![t] = NewBuffer(t, n)]
  /\ tpc' = [tpc EXCEPT ![t] = "send"]
  /\ UNCHANGED <<sessVars, queue, loopVars, space, sent, handed, lost, failed, raced,
                 late, crash>>

\* ... and queues the message.
sendPush(t) ==
  /\ ~crash /\ tpc[t] = "send"
  /\ pushMsgqueue([type |-> "SEND", buf |-> tbuf[t]])
  /\ tbuf' = [tbuf EXCEPT ![t] = <<>>]
  /\ tpc' = [tpc EXCEPT ![t] = "idle"]
  /\ UNCHANGED <<sessVars, loopVars, space, sent, handed, made, failed, raced,
                 late, crash>>

\* removeSessionEvent tests the state, ...
removeCheck(t) ==
  /\ ~crash /\ tpc[t] = "idle" /\ state = "connected"
  /\ tpc' = [tpc EXCEPT ![t] = "remove"]
  /\ UNCHANGED <<sessVars, queue, loopVars, tbuf, space, sent, history, crash>>

\* removeSessionEvent that leaves the state.
removePush_NoState(t) ==
  /\ ~crash /\ tpc[t] = "remove"
  /\ tpc' = [tpc EXCEPT ![t] = "idle"]
  /\ raced' = (raced \/ \E u \in Senders \ {t} : InCall(u))
  /\ IF state = "freed"
     THEN crash' = TRUE /\ UNCHANGED <<queue, lost>>
     ELSE pushMsgqueue([type |-> "REMOVE", buf |-> <<>>]) /\ UNCHANGED crash
  /\ UNCHANGED <<sessVars, loopVars, tbuf, space, sent, handed, made, failed, late>>

\* ... sets it to kDisconnecting and queues the message.
removePush(t) ==
  /\ ~crash /\ tpc[t] = "remove"
  /\ tpc' = [tpc EXCEPT ![t] = "idle"]
  /\ raced' = (raced \/ \E u \in Senders \ {t} : InCall(u))
  /\ IF state = "freed"
     THEN crash' = TRUE /\ UNCHANGED <<state, queue, lost>>
     ELSE /\ state' = "disconnecting"
          /\ pushMsgqueue([type |-> "REMOVE", buf |-> <<>>])
          /\ UNCHANGED crash
  /\ UNCHANGED <<mask, watched, sendBuffer, loopVars, tbuf, space, sent, handed, made,
                 failed, late>>

\* Either function called with a session that has been freed: its first statement
\* reads the state that is no longer there.
lateCall(t) ==
  /\ ~crash /\ state = "freed"
  /\ IF t = Loop THEN lpc = "idle" ELSE tpc[t] = "idle"
  /\ late' = TRUE /\ crash' = TRUE
  /\ UNCHANGED <<sessVars, queue, loopVars, tpc, tbuf, space, sent, handed, made, lost,
                 failed, raced>>
-----------------------------------------------------------------------------
\* The peer reads, and the socket takes as much again.
peerReads ==
  /\ state # "freed" /\ space < Room
  /\ space' = Room
  /\ UNCHANGED <<sessVars, queue, loopVars, tpc, tbuf, sent, history, crash>>
-----------------------------------------------------------------------------
loopStep ==
  \/ sendSome \/ sendError \/ storeRest \/ writeComplete
  \/ drainSend \/ drainRemove \/ removeHere
  \/ \E n \in 1 .. MaxLen : writeHere(n)
senderStep(t) ==
  \/ sendPush(t) \/ removeCheck(t) \/ removePush(t)
  \/ \E n \in 1 .. MaxLen : sendCheck(t, n)

Next ==
  \/ loopStep \/ peerReads
  \/ \E t \in Senders : senderStep(t)
  \/ \E t \in Writers : lateCall(t)

Spec == Init /\ [][Next]_vars
-----------------------------------------------------------------------------
Bytes == {<<t, n>> : t \in Writers, n \in 1 .. MaxBytes}
Messages == [type : {"SEND", "REMOVE"}, buf : Seq(Bytes)]

OutputTypeOK ==
  /\ state \in {"connected", "disconnecting", "freed"}
  /\ mask \subseteq {"READABLE", "WRITABLE"} /\ watched \subseteq {"READABLE", "WRITABLE"}
  /\ sendBuffer \in Seq(Bytes) /\ wbuf \in Seq(Bytes) /\ sent \in Seq(Bytes)
  /\ queue \in Seq(Messages) /\ Len(queue) <= QueueCap
  /\ lpc \in {"idle", "write"}
  /\ tpc \in [Senders -> {"idle", "send", "remove"}] /\ tbuf \in [Senders -> Seq(Bytes)]
  /\ space \in 0 .. Room
  /\ handed \in Seq(Bytes) /\ made \in [Writers -> 0 .. MaxBytes] /\ lost \subseteq Bytes
  /\ failed \in BOOLEAN /\ raced \in BOOLEAN /\ late \in BOOLEAN /\ crash \in BOOLEAN

\* No byte is in two buffers of f, or twice in one.
Apart(f) ==
  \A c, d \in DOMAIN f :
    \A i \in DOMAIN f[c], j \in DOMAIN f[d] : f[c][i] = f[d][j] => c = d /\ i = j

BytesOf(f) == UNION {ToSet(f[c]) : c \in DOMAIN f}

InLoop == <<sent, sendBuffer, wbuf>>
InMessages == [k \in DOMAIN queue |-> queue[k].buf]

\* Every byte that a thread has given away.
Given == {b \in Bytes : b[2] <= made[b[1]]}

\* No byte is duplicated or forgotten: each is in exactly one place, in the socket
\* or a buffer of the loop, in a message, with a thread in a call, or among those
\* refused or given up (session.c:86-130, eventLoop.c:58-60, 271-292).
EveryByteOnce ==
  LET places == <<BytesOf(InLoop), BytesOf(InMessages), BytesOf(tbuf), lost>>
  IN  ~crash =>
        /\ Apart(InLoop) /\ Apart(InMessages) /\ Apart(tbuf)
        /\ \A x, y \in DOMAIN places : x # y => places[x] \cap places[y] = {}
        /\ UNION ToSet(places) = Given

\* In h, a comes before b; the bytes of s come in their order.
Before(h, a, b) == \E k, l \in DOMAIN h : k < l /\ h[k] = a /\ h[l] = b
InOrder(h, s) == \A i, j \in DOMAIN s : i < j => Before(h, s[i], s[j])

\* What the peer misses of the stream it was written is exactly the send buffer:
\* each part in the order of writing.  So the stream is whole until the first
\* write the socket does not take, and later writes overtake the bytes left
\* behind (session.c:93-121).
GapIsSendBuffer ==
  LET out == sent \o wbuf
  IN  ~failed =>
        /\ InOrder(handed, out) /\ InOrder(handed, sendBuffer)
        /\ ToSet(out) \cap ToSet(sendBuffer) = {}
        /\ ToSet(out) \cup ToSet(sendBuffer) = ToSet(handed)

\* Nothing will ever send what is in the send buffer: the mask that should ask
\* for write events is empty after a partial write, and none is registered, so
\* onWriteSession is never called (session.c:120, eventLoop.c:218-236).
StalledUnwatched ==
  "WRITABLE" \notin watched /\ (sendBuffer # <<>> => mask = {})

\* A freed session is used only by a call begun after it was freed, or if its
\* removal overlapped another thread's call or left messages.  Calls and messages
\* that came before the removal are safe by themselves: with one thread sending and
\* then removing, the queue's order and the state see to it (eventLoop.c:246-292).
FreedUseIsLateOrRace == crash => late \/ raced
=============================================================================
