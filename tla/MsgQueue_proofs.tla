--------------------------- MODULE MsgQueue_proofs ---------------------------
(***************************************************************************)
(* The circular queue keeps its shape and implements a bounded FIFO, for   *)
(* every size, every bound and every set of elements; the message queue    *)
(* around it protects its ring, loses no wake-up, bounds its wake bytes    *)
(* and delivers exactly once and in order, for every number of producers,  *)
(* messages, slots and bytes of the socket.                                *)
(***************************************************************************)
EXTENDS MsgQueue, SequenceTheorems, TLAPS

-----------------------------------------------------------------------------
(* The circular queue (CircQueue) *)

CircInv == CircTypeOK /\ RingShape

\* What the ring holds, as a sequence (the view pushMsgqueue and popMsgqueue have).
LEMMA ContentsIsSeq ==
  ASSUME CircInv
  PROVE  /\ Contents \in Seq(Elems)
         /\ Len(Contents) = count
         /\ \A i \in 1 .. count : Contents[i] = entries[Slot(i - 1)]
<1>1. count \in Nat
  BY DEF CircInv, CircTypeOK
<1>2. ASSUME NEW i \in 1 .. count
      PROVE  entries[Slot(i - 1)] \in Elems
  <2>1. i - 1 \in 0 .. count - 1
    BY <1>1
  <2> QED
    BY <2>1 DEF CircInv, RingShape
<1> QED
  BY <1>1, <1>2 DEF Contents

\* The same after a step.
LEMMA ContentsIsSeqAfter ==
  ASSUME CircInv'
  PROVE  /\ Contents' \in Seq(Elems)
         /\ Len(Contents') = count'
         /\ \A i \in 1 .. count' : Contents'[i] = entries'[Slot(i - 1)']
<1>1. count' \in Nat
  BY DEF CircInv, CircTypeOK
<1>2. ASSUME NEW i \in 1 .. count'
      PROVE  entries'[Slot(i - 1)'] \in Elems
  <2>1. \A n \in Nat : \A k \in 1 .. n : k - 1 \in 0 .. n - 1
    OBVIOUS
  <2>2. i - 1 \in 0 .. count' - 1
    BY ONLY <1>1, <2>1, i \in 1 .. count'
  <2> QED
    BY <2>2 DEF CircInv, RingShape
<1> QED
  BY <1>1, <1>2 DEF Contents

LEMMA InitCircInv == initCircqueue => CircInv
  BY CircAssumption DEF initCircqueue, CircInv, CircTypeOK, RingShape, Slot

\* Storing at tail keeps the shape of any ring that has a free slot.
LEMMA StoreKeepsShape ==
  ASSUME CircInv, NEW elem \in Elems, ~isFullcircqueue,
         MaxEntries # 0 => count # MaxEntries,
         StoreAtTail(ThisRing, elem)
  PROVE  CircInv'
<1> USE CircAssumption
<1>1. CircTypeOK'
  BY DEF CircInv, CircTypeOK, StoreAtTail, ThisRing, Wrap, isFullcircqueue
<1>2. tail' = Slot(count)'
  BY DEF CircInv, CircTypeOK, RingShape, StoreAtTail, ThisRing, Wrap, Slot, isFullcircqueue
<1>3. \A i \in 0 .. count' - 1 : entries'[Slot(i)'] \in Elems
  <2>1. TAKE i \in 0 .. count' - 1
  <2>2. Slot(i)' = Slot(i) /\ Slot(i) \in 0 .. arrayElements - 1
    BY DEF CircInv, CircTypeOK, StoreAtTail, ThisRing, Slot, isFullcircqueue
  <2>3. CASE i = count
    BY <2>2, <2>3 DEF CircInv, CircTypeOK, RingShape, StoreAtTail, ThisRing
  <2>4. CASE i # count
    <3>1. i \in 0 .. count - 1
      BY <2>4 DEF CircInv, CircTypeOK, StoreAtTail
    <3>2. entries[Slot(i)] \in Elems
      BY <3>1 DEF CircInv, RingShape
    <3> QED
      BY <2>2, <3>2 DEF CircInv, CircTypeOK, StoreAtTail, ThisRing
  <2> QED
    BY <2>3, <2>4
<1>4. (MaxEntries # 0 => count <= MaxEntries /\ arrayElements = InitialElements)'
  BY DEF CircInv, CircTypeOK, RingShape, StoreAtTail, ThisRing
<1> QED
  BY <1>1, <1>2, <1>3, <1>4 DEF CircInv, RingShape

\* What a push that finds a free slot does to the contents.
LEMMA StoreAppends ==
  ASSUME CircInv, NEW elem \in Elems, ~isFullcircqueue,
         MaxEntries # 0 => count # MaxEntries,
         StoreAtTail(ThisRing, elem)
  PROVE  Contents' = Append(Contents, elem)
<1>1. CircInv'
  BY StoreKeepsShape
<1>2. /\ Contents \in Seq(Elems) /\ Len(Contents) = count
      /\ \A i \in 1 .. count : Contents[i] = entries[Slot(i - 1)]
  BY ContentsIsSeq
<1>3. /\ Contents' \in Seq(Elems) /\ Len(Contents') = count'
      /\ \A i \in 1 .. count' : Contents'[i] = entries'[Slot(i - 1)']
  BY <1>1, ContentsIsSeqAfter
<1>4. Append(Contents, elem) \in Seq(Elems) /\ Len(Append(Contents, elem)) = count'
  BY <1>2 DEF StoreAtTail
<1>5. ASSUME NEW i \in 1 .. count'
      PROVE  Contents'[i] = Append(Contents, elem)[i]
  <2>1. count \in Nat /\ count' = count + 1
    BY DEF CircInv, CircTypeOK, StoreAtTail
  <2>2. Slot(i - 1)' = Slot(i - 1) /\ Slot(i - 1) \in 0 .. arrayElements - 1
    BY <2>1 DEF CircInv, CircTypeOK, StoreAtTail, ThisRing, Slot, isFullcircqueue
  <2>3. CASE i = count + 1
    <3>1. Slot(i - 1) = tail
      BY <2>1, <2>3 DEF CircInv, RingShape
    <3>2. entries'[tail] = elem
      BY <2>2, <3>1 DEF CircInv, CircTypeOK, StoreAtTail, ThisRing
    <3>3. Append(Contents, elem)[i] = elem
      BY <1>2, <2>1, <2>3
    <3> QED
      BY <1>3, <2>2, <3>1, <3>2, <3>3
  <2>4. CASE i # count + 1
    <3>1. i \in 1 .. count
      BY <2>1, <2>4
    <3>2. Slot(i - 1) # tail
      BY <2>1, <3>1 DEF CircInv, CircTypeOK, RingShape, Slot, isFullcircqueue
    <3>3. entries'[Slot(i - 1)] = entries[Slot(i - 1)]
      BY <2>2, <3>2 DEF CircInv, CircTypeOK, StoreAtTail, ThisRing
    <3>4. Append(Contents, elem)[i] = Contents[i]
      BY <1>2, <3>1
    <3> QED
      BY <1>2, <1>3, <2>2, <3>1, <3>3, <3>4
  <2> QED
    BY <2>3, <2>4
<1> QED
  BY <1>3, <1>4, <1>5, SeqEqual

\* A pop that finds something removes the oldest element and returns it.
LEMMA PopTakesHead ==
  ASSUME CircInv, count > 0, popHeadCircqueue
  PROVE  CircInv' /\ Contents # <<>> /\ Contents' = Tail(Contents) /\ ret' = Head(Contents)
<1> USE CircAssumption
<1>0. /\ count \in Nat /\ count' = count - 1 /\ ret' = entries[head]
      /\ head' = Wrap(head + 1, arrayElements)
      /\ tail' = tail /\ arrayElements' = arrayElements /\ entries' = entries
  BY DEF CircInv, CircTypeOK, popHeadCircqueue, ringVars
<1>1. ASSUME NEW i \in 0 .. count - 1
      PROVE  Slot(i)' = Slot(i + 1) /\ i + 1 \in 0 .. count
  BY <1>0 DEF CircInv, CircTypeOK, Slot, Wrap
<1>2. Slot(0) = head
  BY DEF CircInv, CircTypeOK, Slot
<1>3. entries[head] \in Elems
  <2>1. 0 \in 0 .. count - 1
    BY <1>0
  <2> QED
    BY <1>2, <2>1 DEF CircInv, RingShape
<1>4. CircInv'
  <2>1. CircTypeOK'
    BY <1>0, <1>3 DEF CircInv, CircTypeOK, Wrap
  <2>2. (tail = Slot(count))'
    BY <1>0 DEF CircInv, CircTypeOK, RingShape, Slot, Wrap
  <2>3. ASSUME NEW i \in 0 .. count' - 1
        PROVE  entries'[Slot(i)'] \in Elems
    <3>1. i \in 0 .. count - 1 /\ i + 1 \in 0 .. count - 1
      BY <1>0
    <3> QED
      BY <1>0, <1>1, <3>1 DEF CircInv, RingShape
  <2> QED
    BY <1>0, <2>1, <2>2, <2>3 DEF CircInv, RingShape
<1>5. /\ Contents \in Seq(Elems) /\ Len(Contents) = count
      /\ \A i \in 1 .. count : Contents[i] = entries[Slot(i - 1)]
  BY ContentsIsSeq
<1>6. /\ Contents' \in Seq(Elems) /\ Len(Contents') = count'
      /\ \A i \in 1 .. count' : Contents'[i] = entries'[Slot(i - 1)']
  BY <1>4, ContentsIsSeqAfter
<1>7. Contents # <<>> /\ ret' = Head(Contents)
  <2>1. 1 \in 1 .. count /\ 1 - 1 = 0
    BY <1>0
  <2>2. Contents[1] = entries[head]
    BY <1>2, <1>5, <2>1
  <2>3. Contents # <<>>
    BY <1>5
  <2> QED
    BY <1>0, <1>5, <2>2, <2>3
<1>8. Contents' = Tail(Contents)
  <2>1. Tail(Contents) \in Seq(Elems) /\ Len(Tail(Contents)) = count - 1
    BY <1>5, <1>7
  <2>2. ASSUME NEW i \in 1 .. count'
        PROVE  Contents'[i] = Tail(Contents)[i]
    <3>1. i - 1 \in 0 .. count - 1 /\ i \in 1 .. count - 1 /\ i + 1 \in 1 .. count
      BY <1>0
    <3>2. Slot(i - 1)' = Slot(i)
      BY <1>1, <3>1
    <3>3. Contents[i + 1] = entries[Slot(i)]
      BY <1>5, <3>1
    <3>4. Tail(Contents)[i] = Contents[i + 1]
      BY <1>5, <1>7, <3>1
    <3> QED
      BY <1>0, <1>6, <3>2, <3>3, <3>4
  <2> QED
    BY <1>0, <1>6, <2>1, <2>2, SeqEqual
<1> QED
  BY <1>4, <1>7, <1>8

\* growCircqueue lays the contents of a full ring out in order from slot 0.
LEMMA GrowUnrolls ==
  ASSUME CircInv, isFullcircqueue
  PROVE  /\ count \in Nat \ {0}
         /\ growCircqueue.head = 0
         /\ growCircqueue.tail = count
         /\ growCircqueue.size = 2 * count
         /\ growCircqueue.entries \in [0 .. 2 * count - 1 -> Elems \cup {NULL}]
         /\ \A i \in 0 .. count - 1 : growCircqueue.entries[i] = entries[Slot(i)]
<1> DEFINE new == [i \in 0 .. 2 * count - 1 |->
                     IF i < count - head THEN entries[head + i]
                     ELSE IF i < count THEN entries[i - (count - head)]
                     ELSE NULL]
<1>1. /\ count \in Nat \ {0} /\ arrayElements = count
      /\ head \in 0 .. count - 1 /\ tail = head
      /\ entries \in [0 .. count - 1 -> Elems \cup {NULL}]
  BY CircAssumption DEF CircInv, CircTypeOK, RingShape, Slot, isFullcircqueue
<1>2. (count - head) + tail = count /\ ~(head < tail)
  BY <1>1
<1>3. growCircqueue = [head |-> 0, tail |-> count, size |-> 2 * count, entries |-> new]
  BY <1>1, <1>2 DEF growCircqueue
<1>4. new \in [0 .. 2 * count - 1 -> Elems \cup {NULL}]
  <2>1. ASSUME NEW i \in 0 .. 2 * count - 1
        PROVE  new[i] \in Elems \cup {NULL}
    BY <1>1, <2>1
  <2> QED
    BY <2>1
<1>5. ASSUME NEW i \in 0 .. count - 1
      PROVE  new[i] = entries[Slot(i)]
  BY <1>1 DEF Slot
<1> HIDE DEF new
<1> QED
  BY <1>1, <1>3, <1>4, <1>5

\* A push into a full unbounded ring: the grown ring takes the element.
LEMMA GrowAppends ==
  ASSUME CircInv, NEW elem \in Elems, MaxEntries = 0, isFullcircqueue,
         StoreAtTail(growCircqueue, elem)
  PROVE  CircInv' /\ Contents' = Append(Contents, elem)
<1>1. /\ count \in Nat \ {0} /\ count' = count + 1 /\ ret' = "ok"
      /\ head' = 0 /\ arrayElements' = 2 * count /\ tail' = Wrap(count + 1, 2 * count)
      /\ entries' \in [0 .. 2 * count - 1 -> Elems \cup {NULL}]
      /\ entries'[count] = elem
      /\ \A i \in 0 .. count - 1 : entries'[i] = entries[Slot(i)]
  BY GrowUnrolls DEF StoreAtTail
<1>2. \A i \in 0 .. count : Slot(i)' = i
  BY <1>1 DEF Slot
<1>4. CircInv'
  <2>1. CircTypeOK'
    BY <1>1 DEF CircTypeOK, Wrap
  <2>2. (tail = Slot(count))'
    BY <1>1 DEF Slot, Wrap
  <2>3. ASSUME NEW i \in 0 .. count' - 1
        PROVE  entries'[Slot(i)'] \in Elems
    <3>1. CASE i = count
      BY <1>1, <1>2, <3>1
    <3>2. CASE i # count
      <4>1. i \in 0 .. count - 1
        BY <1>1, <3>2
      <4> QED
        BY <1>1, <1>2, <4>1 DEF CircInv, RingShape
    <3> QED
      BY <3>1, <3>2
  <2> QED
    BY <2>1, <2>2, <2>3 DEF CircInv, RingShape
<1>5. /\ Contents \in Seq(Elems) /\ Len(Contents) = count
      /\ \A i \in 1 .. count : Contents[i] = entries[Slot(i - 1)]
  BY ContentsIsSeq
<1>6. /\ Contents' \in Seq(Elems) /\ Len(Contents') = count'
      /\ \A i \in 1 .. count' : Contents'[i] = entries'[Slot(i - 1)']
  BY <1>4, ContentsIsSeqAfter
<1>7. Append(Contents, elem) \in Seq(Elems) /\ Len(Append(Contents, elem)) = count'
  BY <1>1, <1>5
<1>8. ASSUME NEW i \in 1 .. count'
      PROVE  Contents'[i] = Append(Contents, elem)[i]
  <2>1. CASE i = count + 1
    <3>1. i - 1 = count /\ Slot(i - 1)' = count
      BY <1>1, <1>2, <2>1
    <3>2. Append(Contents, elem)[i] = elem
      BY <1>1, <1>5, <2>1
    <3> QED
      BY <1>1, <1>6, <3>1, <3>2
  <2>2. CASE i # count + 1
    <3>1. i \in 1 .. count /\ i - 1 \in 0 .. count - 1
      BY <1>1, <2>2
    <3>2. Slot(i - 1)' = i - 1
      BY <1>1, <1>2, <3>1
    <3>3. Append(Contents, elem)[i] = Contents[i]
      BY <1>1, <1>5, <3>1
    <3>4. Contents[i] = entries[Slot(i - 1)]
      BY <1>5, <3>1
    <3>5. entries'[i - 1] = entries[Slot(i - 1)]
      BY <1>1, <3>1
    <3> QED
      BY <1>6, <3>2, <3>3, <3>4, <3>5
  <2> QED
    BY <2>1, <2>2
<1> QED
  BY <1>4, <1>6, <1>7, <1>8, SeqEqual

\* Nothing of the ring but ret changes when a call refuses or finds nothing.
LEMMA RingUnchanged ==
  ASSUME CircInv, UNCHANGED ringVars, ret' \in Elems \cup {NULL, "ok", "full"}
  PROVE  CircInv' /\ Contents' = Contents
BY DEF CircInv, CircTypeOK, RingShape, ringVars, Slot, Contents

-----------------------------------------------------------------------------
\* One push, seen from outside: accepted and last, or refused for want of room.
LEMMA PushRefines ==
  ASSUME CircInv, NEW elem \in Elems, pushTailCircqueue(elem)
  PROVE  CircInv' /\ (Fifo!PushAccepted(elem) \/ Fifo!PushRefused)
<1>0. /\ MaxEntries \in Nat /\ count \in Nat
      /\ MaxEntries # 0 => count <= MaxEntries /\ arrayElements = InitialElements
      /\ MaxEntries <= InitialElements
      /\ Contents \in Seq(Elems) /\ Len(Contents) = count
  BY CircAssumption, ContentsIsSeq DEF CircInv, CircTypeOK, RingShape
<1>1. CASE MaxEntries # 0 /\ count = MaxEntries /\ ret' = "full" /\ UNCHANGED ringVars
  <2>1. CircInv' /\ Contents' = Contents
    BY <1>1, RingUnchanged
  <2> QED
    BY <1>0, <1>1, <2>1 DEF Fifo!PushRefused, Fifo!HasRoom
<1>2. CASE /\ ~(MaxEntries # 0 /\ count = MaxEntries)
           /\ MaxEntries # 0 \/ ~isFullcircqueue
           /\ StoreAtTail(ThisRing, elem)
  <2>1. ~isFullcircqueue /\ (MaxEntries # 0 => count # MaxEntries)
    BY <1>0, <1>2 DEF isFullcircqueue
  <2>2. CircInv' /\ Contents' = Append(Contents, elem)
    BY <1>2, <2>1, StoreKeepsShape, StoreAppends
  <2>3. Fifo!HasRoom /\ ret' = "ok"
    BY <1>0, <1>2, <2>1 DEF Fifo!HasRoom, StoreAtTail
  <2> QED
    BY <2>2, <2>3 DEF Fifo!PushAccepted
<1>3. CASE MaxEntries = 0 /\ isFullcircqueue /\ StoreAtTail(growCircqueue, elem)
  <2>1. CircInv' /\ Contents' = Append(Contents, elem)
    BY <1>3, GrowAppends
  <2> QED
    BY <1>3, <2>1 DEF Fifo!PushAccepted, Fifo!HasRoom, StoreAtTail
<1> QED
  BY <1>1, <1>2, <1>3 DEF pushTailCircqueue

\* One pop, seen from outside: the oldest element, or null from an empty queue.
LEMMA PopRefines ==
  ASSUME CircInv, popHeadCircqueue
  PROVE  CircInv' /\ (Fifo!PopElement \/ Fifo!PopNothing)
<1>1. CASE count = 0 /\ ret' = NULL /\ UNCHANGED ringVars
  <2>1. CircInv' /\ Contents' = Contents /\ Contents = <<>>
    <3>1. Len(Contents) = 0 /\ Contents \in Seq(Elems)
      BY <1>1, ContentsIsSeq
    <3> QED
      BY <1>1, <3>1, RingUnchanged
  <2> QED
    BY <1>1, <2>1 DEF Fifo!PopNothing
<1>2. CASE count > 0
  BY <1>2, PopTakesHead DEF Fifo!PopElement
<1> QED
  BY <1>1, <1>2 DEF popHeadCircqueue

LEMMA CircNextInv == CircInv /\ [CircNext]_circVars => CircInv'
<1> SUFFICES ASSUME CircInv, [CircNext]_circVars
             PROVE  CircInv'
  OBVIOUS
<1>1. ASSUME NEW elem \in Elems, pushTailCircqueue(elem)
      PROVE  CircInv'
  BY <1>1, PushRefines
<1>2. CASE popHeadCircqueue
  BY <1>2, PopRefines
<1>3. CASE UNCHANGED circVars
  <2>1. ret' \in Elems \cup {NULL, "ok", "full"}
    BY <1>3 DEF CircInv, CircTypeOK, circVars
  <2> QED
    BY <1>3, <2>1, RingUnchanged DEF circVars
<1> QED
  BY <1>1, <1>2, <1>3 DEF CircNext

\* Every reachable ring is well formed: indices in the array, tail count slots
\* after head round the ring, every slot in use filled, and a bounded queue
\* within its bound (event_msgqueue.c:91-119, for every size and bound).
THEOREM CircInvariant == CircSpec => []CircInv
<1> QED
  BY InitCircInv, CircNextInv, PTL DEF CircSpec

THEOREM CircTypeCorrect == CircSpec => []CircTypeOK
<1>1. CircInv => CircTypeOK
  BY DEF CircInv
<1> QED
  BY <1>1, CircInvariant, PTL

THEOREM CircRingShape == CircSpec => []RingShape
<1>1. CircInv => RingShape
  BY DEF CircInv
<1> QED
  BY <1>1, CircInvariant, PTL

\* The ring implements a FIFO queue bounded by MaxEntries: elements come out in
\* the order they went in, each once, and only a full bounded queue refuses one.
THEOREM CircImplementsFifo == CircSpec => FifoSpec
<1>1. initCircqueue => Fifo!Init
  BY DEF initCircqueue, Fifo!Init, Contents
<1>2. ASSUME CircInv, [CircNext]_circVars
      PROVE  [Fifo!Next]_<<Contents, ret>>
  <2>1. ASSUME NEW elem \in Elems, pushTailCircqueue(elem)
        PROVE  Fifo!Next
    BY <1>2, <2>1, PushRefines DEF Fifo!Next
  <2>2. CASE popHeadCircqueue
    BY <1>2, <2>2, PopRefines DEF Fifo!Next
  <2>3. CASE UNCHANGED circVars
    BY <2>3 DEF circVars, ringVars, Contents, Slot
  <2> QED
    BY <1>2, <2>1, <2>2, <2>3 DEF CircNext
<1> QED
  BY <1>1, <1>2, CircInvariant, PTL DEF CircSpec, FifoSpec, Fifo!Spec

-----------------------------------------------------------------------------
(* The message queue (MsgQueue) *)

\* The inductive invariant: the ring's own, the types, and the four properties.
\* NoLostWakeup and WakeBytesBounded both need to know that a sender owns the
\* mutex and that what it has just stored is still in the ring.
SenderSeesItsMessage ==
  \A p \in Producers : pc[p] = "send" => count > 0

MsgQueueInv ==
  /\ CircInv
  /\ MsgQueueTypeOK
  /\ MutualExclusion
  /\ SenderSeesItsMessage
  /\ NoLostWakeup
  /\ WakeBytesBounded
  /\ ExactlyOnceInOrder

-----------------------------------------------------------------------------
(* Facts about sequences *)

LEMMA ConcatAppend ==
  ASSUME NEW S, NEW s \in Seq(S), NEW t \in Seq(S), NEW e \in S
  PROVE  s \o Append(t, e) = Append(s \o t, e)
OBVIOUS

LEMMA ConcatHeadTail ==
  ASSUME NEW S, NEW s \in Seq(S), NEW t \in Seq(S), t # <<>>
  PROVE  s \o <<>> \o t = s \o <<Head(t)>> \o Tail(t)
OBVIOUS

LEMMA ConcatMove ==
  ASSUME NEW S, NEW s \in Seq(S), NEW t \in Seq(S), NEW e \in S
  PROVE  s \o <<e>> \o t = Append(s, e) \o <<>> \o t
OBVIOUS
-----------------------------------------------------------------------------
\* What a step that leaves the ring alone leaves alone.
LEMMA RingAlone ==
  ASSUME CircInv, UNCHANGED circVars
  PROVE  CircInv' /\ Contents' = Contents /\ count' = count
<1>1. ret' \in Elems \cup {NULL, "ok", "full"}
  BY DEF CircInv, CircTypeOK, circVars
<1> QED
  BY <1>1, RingUnchanged DEF circVars, ringVars

\* The two outcomes of the push inside pushMsgqueue.
LEMMA PushOutcome ==
  ASSUME CircInv, NEW elem \in Elems, pushTailCircqueue(elem)
  PROVE  /\ CircInv' /\ count \in Nat
         /\ \/ /\ ret' = "ok" /\ count' = count + 1
               /\ Contents' = Append(Contents, elem)
               /\ MaxEntries # 0 => count < MaxEntries
            \/ /\ ret' = "full" /\ count' = count /\ count = MaxEntries
               /\ Contents' = Contents
<1>1. CircInv' /\ (Fifo!PushAccepted(elem) \/ Fifo!PushRefused)
  BY PushRefines
<1>2. Contents \in Seq(Elems) /\ Len(Contents) = count
  BY ContentsIsSeq
<1>3. Len(Contents') = count'
  BY <1>1, ContentsIsSeqAfter
<1>4. count \in Nat /\ MaxEntries \in Nat /\ (MaxEntries # 0 => count <= MaxEntries)
  BY CircAssumption DEF CircInv, CircTypeOK, RingShape
<1>5. CASE Fifo!PushAccepted(elem)
  BY <1>1, <1>2, <1>3, <1>4, <1>5 DEF Fifo!PushAccepted, Fifo!HasRoom
<1>6. CASE Fifo!PushRefused
  BY <1>1, <1>2, <1>3, <1>4, <1>6 DEF Fifo!PushRefused, Fifo!HasRoom
<1> QED
  BY <1>1, <1>5, <1>6

LEMMA InitMsgQueueInv == initMsgqueue => MsgQueueInv
<1> SUFFICES ASSUME initMsgqueue PROVE MsgQueueInv
  OBVIOUS
<1> USE MsgQueueAssumption DEF initMsgqueue
<1>1. CircInv /\ Contents = <<>> /\ count = 0
  <2>1. CircInv
    BY InitCircInv
  <2> QED
    BY <2>1 DEF initCircqueue, Contents
<1>2. MsgQueueTypeOK
  BY <1>1 DEF MsgQueueTypeOK, CircInv
<1>3. MutualExclusion
  BY DEF MutualExclusion, InPush
<1>4. SenderSeesItsMessage /\ NoLostWakeup /\ WakeBytesBounded
  BY <1>1 DEF SenderSeesItsMessage, NoLostWakeup, WakeBytesBounded
<1>5. ExactlyOnceInOrder
  BY <1>1 DEF ExactlyOnceInOrder, InHand
<1> QED
  BY <1>1, <1>2, <1>3, <1>4, <1>5 DEF MsgQueueInv

-----------------------------------------------------------------------------
(* One lemma per action: the invariant survives it *)

LEMMA PushStartInv ==
  ASSUME MsgQueueInv, NEW p \in Producers, NEW m \in Elems, PushStart(p, m)
  PROVE  MsgQueueInv'
<1> USE MsgQueueAssumption DEF MsgQueueInv, PushStart, history
<1>1. CircInv' /\ Contents' = Contents /\ count' = count
  BY RingAlone
<1>2. MsgQueueTypeOK'
  BY <1>1 DEF MsgQueueTypeOK, CircInv
<1>3. MutualExclusion'
  BY DEF MutualExclusion, InPush, MsgQueueTypeOK
<1>4. SenderSeesItsMessage' /\ NoLostWakeup' /\ WakeBytesBounded'
  BY <1>1 DEF MsgQueueTypeOK, SenderSeesItsMessage, NoLostWakeup, WakeBytesBounded
<1>5. ExactlyOnceInOrder'
  BY <1>1 DEF ExactlyOnceInOrder, InHand
<1> QED
  BY <1>1, <1>2, <1>3, <1>4, <1>5

LEMMA PushLockInv ==
  ASSUME MsgQueueInv, NEW p \in Producers, PushLock(p)
  PROVE  MsgQueueInv'
<1> USE MsgQueueAssumption DEF MsgQueueInv, PushLock, history
<1>1. CircInv' /\ Contents' = Contents /\ count' = count
  BY RingAlone
<1>2. MsgQueueTypeOK'
  BY <1>1 DEF MsgQueueTypeOK, CircInv
<1>3. MutualExclusion'
  BY DEF MutualExclusion, InPush, MsgQueueTypeOK
<1>4. SenderSeesItsMessage' /\ NoLostWakeup' /\ WakeBytesBounded'
  BY <1>1 DEF MsgQueueTypeOK, SenderSeesItsMessage, NoLostWakeup, WakeBytesBounded
<1>5. ExactlyOnceInOrder'
  BY <1>1 DEF ExactlyOnceInOrder, InHand
<1> QED
  BY <1>1, <1>2, <1>3, <1>4, <1>5

LEMMA PushSendInv ==
  ASSUME MsgQueueInv, NEW p \in Producers, PushSend(p)
  PROVE  MsgQueueInv'
<1> USE MsgQueueAssumption DEF MsgQueueInv, PushSend, history
<1>1. CircInv' /\ Contents' = Contents /\ count' = count
  BY RingAlone
<1>2. MsgQueueTypeOK'
  BY <1>1 DEF MsgQueueTypeOK, CircInv
<1>3. MutualExclusion'
  BY DEF MutualExclusion, InPush, MsgQueueTypeOK
<1>4. SenderSeesItsMessage' /\ NoLostWakeup'
  BY <1>1 DEF MsgQueueTypeOK, SenderSeesItsMessage, NoLostWakeup
<1>5. WakeBytesBounded'
  <2>1. \A q \in Producers : pc[q] = "send" => q = p
    BY DEF MutualExclusion, InPush
  <2>2. \A q \in Producers : pc'[q] # "send"
    BY <2>1 DEF MsgQueueTypeOK
  <2> QED
    BY <1>1, <2>2 DEF MsgQueueTypeOK, WakeBytesBounded
<1>6. ExactlyOnceInOrder'
  BY <1>1 DEF ExactlyOnceInOrder, InHand
<1> QED
  BY <1>1, <1>2, <1>3, <1>4, <1>5, <1>6

LEMMA PushUnlockInv ==
  ASSUME MsgQueueInv, NEW p \in Producers, PushUnlock(p)
  PROVE  MsgQueueInv'
<1> USE MsgQueueAssumption DEF MsgQueueInv, PushUnlock, history
<1>1. CircInv' /\ Contents' = Contents /\ count' = count
  BY RingAlone
<1>2. MsgQueueTypeOK'
  BY <1>1 DEF MsgQueueTypeOK, CircInv
<1>3. MutualExclusion'
  BY DEF MutualExclusion, InPush, MsgQueueTypeOK
<1>4. SenderSeesItsMessage' /\ NoLostWakeup' /\ WakeBytesBounded'
  BY <1>1 DEF MsgQueueTypeOK, SenderSeesItsMessage, NoLostWakeup, WakeBytesBounded
<1>5. ExactlyOnceInOrder'
  BY <1>1 DEF ExactlyOnceInOrder, InHand
<1> QED
  BY <1>1, <1>2, <1>3, <1>4, <1>5

LEMMA PushTailInv ==
  ASSUME MsgQueueInv, NEW p \in Producers, PushTail(p)
  PROVE  MsgQueueInv'
<1> USE MsgQueueAssumption DEF MsgQueueInv
<1>0. msg[p] \in Elems /\ pc[p] = "push" /\ pushTailCircqueue(msg[p])
  BY DEF PushTail, MsgQueueTypeOK
<1>1. /\ CircInv' /\ count \in Nat
      /\ \/ /\ ret' = "ok" /\ count' = count + 1
            /\ Contents' = Append(Contents, msg[p])
         \/ /\ ret' = "full" /\ count' = count
            /\ Contents' = Contents
  BY <1>0, PushOutcome
<1>2. MsgQueueTypeOK'
  <2>1. CircTypeOK' /\ UNCHANGED <<lock, bytes, msg, lpc, qdata, delivered, burst>>
    BY <1>1 DEF CircInv, PushTail
  <2>2. accepted' = accepted \/ accepted' = Append(accepted, msg[p])
    BY DEF PushTail
  <2>3. dropped' = dropped \/ dropped' = dropped \cup {msg[p]}
    BY DEF PushTail
  <2>4. accepted' \in Seq(Elems)
    BY <1>0, <2>2 DEF MsgQueueTypeOK
  <2>5. dropped' \subseteq Elems
    BY <1>0, <2>3 DEF MsgQueueTypeOK
  <2>6. /\ pc' \in [Producers -> {"idle", "lock", "push", "send", "unlock"}]
        /\ \A q \in Producers : q # p => pc'[q] = pc[q]
    BY DEF MsgQueueTypeOK, PushTail
  <2> QED
    BY <1>0, <2>1, <2>4, <2>5, <2>6 DEF MsgQueueTypeOK
<1>3. MutualExclusion'
  BY DEF MutualExclusion, InPush, MsgQueueTypeOK, PushTail
<1>4. \A q \in Producers : q # p => pc[q] # "send"
  BY <1>0 DEF MutualExclusion, InPush
<1>5. lpc # "check"
  BY <1>0 DEF MutualExclusion, InPush
<1>6. CASE ret' = "ok"
  <2>1. count' = count + 1 /\ Contents' = Append(Contents, msg[p])
    BY <1>1, <1>6
  <2>2. SenderSeesItsMessage'
    BY <1>1, <2>1 DEF SenderSeesItsMessage
  <2>3. NoLostWakeup'
    BY <1>0, <1>1, <1>6, <2>1 DEF NoLostWakeup, MsgQueueTypeOK, PushTail, NeedsWake
  <2>4. WakeBytesBounded'
    BY <1>0, <1>1, <1>4, <1>6, <2>1 DEF WakeBytesBounded, MsgQueueTypeOK, PushTail, NeedsWake
  <2>5. ExactlyOnceInOrder'
    <3>1. InHand' = InHand /\ delivered' = delivered
      BY DEF PushTail, InHand
    <3>2. delivered \o InHand \in Seq(Elems) /\ Contents \in Seq(Elems)
      BY ContentsIsSeq DEF InHand, MsgQueueTypeOK
    <3>3. accepted' = Append(accepted, msg[p])
      BY <1>6 DEF PushTail
    <3>4. (delivered \o InHand) \o Append(Contents, msg[p])
            = Append((delivered \o InHand) \o Contents, msg[p])
      BY <1>0, <3>2, ConcatAppend
    <3>5. accepted = (delivered \o InHand) \o Contents
      BY DEF ExactlyOnceInOrder
    <3>6. accepted' = (delivered' \o InHand') \o Contents'
      BY <2>1, <3>1, <3>3, <3>4, <3>5
    <3> QED
      BY <3>6 DEF ExactlyOnceInOrder
  <2> QED
    BY <1>1, <1>2, <1>3, <2>2, <2>3, <2>4, <2>5
<1>7. CASE ret' = "full"
  <2>1. count' = count /\ Contents' = Contents /\ accepted' = accepted
    BY <1>1, <1>7 DEF PushTail
  <2>2. SenderSeesItsMessage' /\ NoLostWakeup' /\ WakeBytesBounded'
    BY <1>0, <1>1, <1>4, <1>7, <2>1
    DEF SenderSeesItsMessage, NoLostWakeup, WakeBytesBounded, MsgQueueTypeOK, PushTail
  <2>3. ExactlyOnceInOrder'
    BY <2>1 DEF ExactlyOnceInOrder, InHand, PushTail
  <2> QED
    BY <1>1, <1>2, <1>3, <2>2, <2>3
<1> QED
  BY <1>1, <1>6, <1>7

LEMMA PopRecvInv ==
  ASSUME MsgQueueInv, PopRecv
  PROVE  MsgQueueInv'
<1> USE MsgQueueAssumption DEF MsgQueueInv, PopRecv
<1>1. CircInv' /\ Contents' = Contents /\ count' = count
  BY RingAlone
<1>2. MsgQueueTypeOK'
  BY <1>1 DEF MsgQueueTypeOK, CircInv
<1>3. MutualExclusion'
  BY DEF MutualExclusion, InPush, MsgQueueTypeOK
<1>4. SenderSeesItsMessage' /\ NoLostWakeup'
  BY <1>1 DEF MsgQueueTypeOK, SenderSeesItsMessage, NoLostWakeup
<1>5. WakeBytesBounded'
  BY <1>1 DEF MsgQueueTypeOK, WakeBytesBounded, SenderSeesItsMessage
<1>6. ExactlyOnceInOrder'
  BY <1>1 DEF ExactlyOnceInOrder, InHand
<1> QED
  BY <1>1, <1>2, <1>3, <1>4, <1>5, <1>6

LEMMA PopLockInv ==
  ASSUME MsgQueueInv, PopLock
  PROVE  MsgQueueInv'
<1> USE MsgQueueAssumption DEF MsgQueueInv, PopLock, history
<1>1. CircInv' /\ Contents' = Contents /\ count' = count
  BY RingAlone
<1>2. MsgQueueTypeOK'
  BY <1>1 DEF MsgQueueTypeOK, CircInv
<1>3. MutualExclusion'
  BY DEF MutualExclusion, InPush, MsgQueueTypeOK
<1>4. SenderSeesItsMessage' /\ NoLostWakeup' /\ WakeBytesBounded'
  BY <1>1 DEF MsgQueueTypeOK, SenderSeesItsMessage, NoLostWakeup, WakeBytesBounded
<1>5. ExactlyOnceInOrder'
  BY <1>1 DEF ExactlyOnceInOrder, InHand
<1> QED
  BY <1>1, <1>2, <1>3, <1>4, <1>5

LEMMA PopHeadInv ==
  ASSUME MsgQueueInv, PopHead
  PROVE  MsgQueueInv'
<1> USE MsgQueueAssumption DEF MsgQueueInv
<1>1. /\ CircInv' /\ Contents # <<>>
      /\ Contents' = Tail(Contents) /\ ret' = Head(Contents)
  BY PopTakesHead DEF PopHead
<1>2. count \in Nat /\ count > 0 /\ count' = count - 1
  BY DEF PopHead, popHeadCircqueue, CircInv, CircTypeOK
<1>3. Contents \in Seq(Elems) /\ ret' \in Elems
  BY <1>1, ContentsIsSeq
<1>4. MsgQueueTypeOK'
  BY <1>1, <1>3 DEF MsgQueueTypeOK, CircInv, PopHead
<1>5. MutualExclusion'
  BY DEF MutualExclusion, InPush, MsgQueueTypeOK, PopHead
<1>6. \A q \in Producers : pc[q] # "send"
  BY DEF MutualExclusion, InPush, PopHead
<1>7. SenderSeesItsMessage' /\ NoLostWakeup' /\ WakeBytesBounded'
  BY <1>2, <1>6
  DEF MsgQueueTypeOK, PopHead, SenderSeesItsMessage, NoLostWakeup, WakeBytesBounded
<1>8. ExactlyOnceInOrder'
  <2>1. InHand = <<>> /\ InHand' = <<Head(Contents)>>
    BY <1>1 DEF PopHead, InHand
  <2>2. delivered \in Seq(Elems) /\ delivered' = delivered /\ accepted' = accepted
    BY DEF MsgQueueTypeOK, PopHead
  <2> QED
    BY <1>1, <1>3, <2>1, <2>2, ConcatHeadTail DEF ExactlyOnceInOrder
<1> QED
  BY <1>1, <1>4, <1>5, <1>7, <1>8

LEMMA PopCallbackInv ==
  ASSUME MsgQueueInv, PopCallback
  PROVE  MsgQueueInv'
<1> USE MsgQueueAssumption DEF MsgQueueInv, PopCallback
<1>1. CircInv' /\ Contents' = Contents /\ count' = count
  BY RingAlone
<1>2. MsgQueueTypeOK'
  BY <1>1 DEF MsgQueueTypeOK, CircInv
<1>3. MutualExclusion'
  BY DEF MutualExclusion, InPush, MsgQueueTypeOK
<1>4. SenderSeesItsMessage' /\ NoLostWakeup' /\ WakeBytesBounded'
  BY <1>1 DEF MsgQueueTypeOK, SenderSeesItsMessage, NoLostWakeup, WakeBytesBounded
<1>5. ExactlyOnceInOrder'
  <2>1. InHand = <<qdata>> /\ InHand' = <<>>
    BY DEF InHand
  <2>2. qdata \in Elems /\ delivered \in Seq(Elems) /\ Contents \in Seq(Elems)
    BY ContentsIsSeq DEF MsgQueueTypeOK
  <2> QED
    BY <1>1, <2>1, <2>2, ConcatMove DEF ExactlyOnceInOrder
<1> QED
  BY <1>1, <1>2, <1>3, <1>4, <1>5

LEMMA PopDoneInv ==
  ASSUME MsgQueueInv, PopDone
  PROVE  MsgQueueInv'
<1> USE MsgQueueAssumption DEF MsgQueueInv, PopDone, history
<1>1. CircInv' /\ Contents' = Contents /\ count' = count
  BY RingAlone
<1>2. MsgQueueTypeOK'
  BY <1>1 DEF MsgQueueTypeOK, CircInv
<1>3. MutualExclusion'
  BY DEF MutualExclusion, InPush, MsgQueueTypeOK
<1>4. SenderSeesItsMessage' /\ NoLostWakeup' /\ WakeBytesBounded'
  BY <1>1 DEF MsgQueueTypeOK, SenderSeesItsMessage, NoLostWakeup, WakeBytesBounded
<1>5. ExactlyOnceInOrder'
  BY <1>1 DEF ExactlyOnceInOrder, InHand
<1> QED
  BY <1>1, <1>2, <1>3, <1>4, <1>5

-----------------------------------------------------------------------------
LEMMA NextMsgQueueInv == MsgQueueInv /\ [Next]_vars => MsgQueueInv'
<1> SUFFICES ASSUME MsgQueueInv, [Next]_vars
             PROVE  MsgQueueInv'
  OBVIOUS
<1>1. ASSUME NEW p \in Producers, NEW m \in Elems, PushStart(p, m)
      PROVE  MsgQueueInv'
  BY <1>1, PushStartInv
<1>2. ASSUME NEW p \in Producers, PushStep(p)
      PROVE  MsgQueueInv'
  BY <1>2, PushLockInv, PushTailInv, PushSendInv, PushUnlockInv DEF PushStep
<1>3. CASE PopStep
  BY <1>3, PopRecvInv, PopLockInv, PopHeadInv, PopCallbackInv, PopDoneInv DEF PopStep
<1>4. CASE UNCHANGED vars
  <2> USE <1>4 DEF MsgQueueInv, vars, threadVars, history
  <2>1. CircInv' /\ Contents' = Contents /\ count' = count
    BY RingAlone
  <2>2. MsgQueueTypeOK'
    BY <2>1 DEF MsgQueueTypeOK, CircInv
  <2>3. MutualExclusion' /\ SenderSeesItsMessage' /\ NoLostWakeup' /\ WakeBytesBounded'
    BY <2>1 DEF MutualExclusion, InPush, SenderSeesItsMessage, NoLostWakeup, WakeBytesBounded
  <2>4. ExactlyOnceInOrder'
    BY <2>1 DEF ExactlyOnceInOrder, InHand
  <2> QED
    BY <2>1, <2>2, <2>3, <2>4
<1> QED
  BY <1>1, <1>2, <1>3, <1>4 DEF Next

\* The whole inductive invariant, for every run of the queue.
THEOREM MsgQueueInvariant == SafeSpec => []MsgQueueInv
<1> QED
  BY InitMsgQueueInv, NextMsgQueueInv, PTL DEF SafeSpec

\* Every field of the queue and every local keeps its type.
THEOREM MsgQueueTypeCorrect == SafeSpec => []MsgQueueTypeOK
<1>1. MsgQueueInv => MsgQueueTypeOK
  BY DEF MsgQueueInv
<1> QED
  BY <1>1, MsgQueueInvariant, PTL

\* At most one thread is between lock and unlock of msgq->lock, and it owns it.
THEOREM MsgQueueExcludes == SafeSpec => []MutualExclusion
<1>1. MsgQueueInv => MutualExclusion
  BY DEF MsgQueueInv
<1> QED
  BY <1>1, MsgQueueInvariant, PTL

\* A message in the ring always has something under way that will fetch it
\* (event_msgqueue.c:126-144, 204-210).
THEOREM MsgQueueWakes == SafeSpec => []NoLostWakeup
<1>1. MsgQueueInv => NoLostWakeup
  BY DEF MsgQueueInv
<1> QED
  BY <1>1, MsgQueueInvariant, PTL

\* A push blocks in send, mutex held, only in a drain that has popped as many
\* messages as the socket takes bytes (event_msgqueue.c:206-207).
SendBlocksOnlyInLongDrain ==
  \A p \in Producers : pc[p] = "send" /\ bytes = SockCap => burst >= SockCap

\* The wake bytes in the socket are bounded by the messages of the current
\* drain, and send can block only when that drain is SockCap messages long.
THEOREM MsgQueueWakeBytes == SafeSpec => [](WakeBytesBounded /\ SendBlocksOnlyInLongDrain)
<1>1. MsgQueueInv => WakeBytesBounded /\ SendBlocksOnlyInLongDrain
  BY MsgQueueAssumption
  DEF MsgQueueInv, MsgQueueTypeOK, WakeBytesBounded, SendBlocksOnlyInLongDrain
<1> QED
  BY <1>1, MsgQueueInvariant, PTL

\* The deadlock is final: the sender has the mutex until a byte is read, and the
\* loop reads none before it has had the mutex (event_msgqueue.c:126-128, 204-210).
WedgedForEver == [][Wedged => Wedged']_vars

\* Once the socket is full in a drain and a pusher is in send, neither thread goes on.
THEOREM MsgQueueWedged == SafeSpec => WedgedForEver
<1>1. MsgQueueInv /\ [Next]_vars => [Wedged => Wedged']_vars
  <2> SUFFICES ASSUME MsgQueueInv, Next, Wedged PROVE Wedged'
    OBVIOUS
  <2>1. PICK s \in Producers : pc[s] = "send"
    BY DEF Wedged, Senders
  <2>2. /\ bytes = SockCap /\ lpc \in {"callback", "lock"}
        /\ lock = s /\ \A q \in Producers : InPush(q) <=> lock = q
    BY <2>1 DEF Wedged, MsgQueueInv, MutualExclusion, InPush
  <2>3. s # NoThread /\ pc \in [Producers -> {"idle", "lock", "push", "send", "unlock"}]
    BY MsgQueueAssumption DEF MsgQueueInv, MsgQueueTypeOK
  <2>4. /\ bytes' = bytes /\ pc'[s] = "send" /\ lpc' \in {"callback", "lock"}
    <3>1. ASSUME NEW p \in Producers, NEW m \in Elems, PushStart(p, m)
          PROVE  bytes' = bytes /\ pc'[s] = "send" /\ lpc' \in {"callback", "lock"}
      BY <2>1, <2>2, <2>3, <3>1 DEF PushStart
    <3>2. ASSUME NEW p \in Producers, PushStep(p) PROVE FALSE
      <4>1. ~PushLock(p)
        BY <2>2, <2>3 DEF PushLock
      <4>2. ~PushTail(p) /\ ~PushUnlock(p)
        BY <2>1, <2>2 DEF PushTail, PushUnlock, InPush
      <4>3. ~PushSend(p)
        BY <2>2, MsgQueueAssumption DEF PushSend
      <4> QED
        BY <3>2, <4>1, <4>2, <4>3 DEF PushStep
    <3>3. ASSUME PopStep
          PROVE  bytes' = bytes /\ pc'[s] = "send" /\ lpc' \in {"callback", "lock"}
      <4>1. ~PopRecv /\ ~PopLock /\ ~PopHead /\ ~PopDone
        BY <2>2, <2>3 DEF PopRecv, PopLock, PopHead, PopDone
      <4>2. PopCallback
        BY <3>3, <4>1 DEF PopStep
      <4> QED
        BY <2>1, <4>2 DEF PopCallback
    <3> QED
      BY <3>1, <3>2, <3>3 DEF Next
  <2> QED
    BY <2>2, <2>4 DEF Wedged, Senders
<1> QED
  BY <1>1, MsgQueueInvariant, PTL DEF SafeSpec, WedgedForEver

\* Accepted messages reach the callback exactly once, in order of acceptance.
THEOREM MsgQueueFifo == SafeSpec => []ExactlyOnceInOrder
<1>1. MsgQueueInv => ExactlyOnceInOrder
  BY DEF MsgQueueInv
<1> QED
  BY <1>1, MsgQueueInvariant, PTL

-----------------------------------------------------------------------------
\* How many messages are accepted and not delivered, and which one is next.
LEMMA PendingIs ==
  ASSUME MsgQueueInv
  PROVE  /\ Len(accepted) \in Nat /\ Len(delivered) \in Nat
         /\ Channel!Pending = Len(InHand) + count
         /\ lpc = "callback" => /\ Len(InHand) = 1
                                /\ accepted[Len(delivered) + 1] = qdata
         /\ lpc # "callback" => Len(InHand) = 0
         /\ Len(InHand) \in 0 .. 1
<1>1. /\ accepted \in Seq(Elems) /\ delivered \in Seq(Elems) /\ InHand \in Seq(Elems)
      /\ Contents \in Seq(Elems) /\ Len(Contents) = count
  BY ContentsIsSeq DEF MsgQueueInv, MsgQueueTypeOK, InHand
<1>2. accepted = (delivered \o InHand) \o Contents
  BY DEF MsgQueueInv, ExactlyOnceInOrder
<1>3. Len(accepted) = Len(delivered) + Len(InHand) + count
  <2>1. /\ delivered \o InHand \in Seq(Elems)
        /\ Len(delivered \o InHand) = Len(delivered) + Len(InHand)
    BY <1>1
  <2>2. Len((delivered \o InHand) \o Contents) = Len(delivered \o InHand) + Len(Contents)
    BY <1>1, <2>1, ConcatProperties
  <2>3. Len(accepted) = Len((delivered \o InHand) \o Contents)
    BY <1>2
  <2> QED
    BY <1>1, <2>1, <2>2, <2>3
<1>4. ASSUME lpc = "callback"
      PROVE  Len(InHand) = 1 /\ accepted[Len(delivered) + 1] = qdata
  <2>1. InHand = <<qdata>> /\ qdata \in Elems
    BY <1>4 DEF InHand, MsgQueueInv, MsgQueueTypeOK
  <2>2. ((delivered \o <<qdata>>) \o Contents)[Len(delivered) + 1] = qdata
    BY <1>1, <2>1
  <2> QED
    BY <1>2, <2>1, <2>2
<1>5. lpc # "callback" => Len(InHand) = 0
  BY DEF InHand
<1>6. Len(InHand) \in 0 .. 1
  BY <1>4, <1>5
<1> QED
  BY <1>1, <1>3, <1>4, <1>5, <1>6 DEF Channel!Pending

\* The queue, its mutex, its socket and its drain loop implement the channel of
\* MsgChannel: posted in some order, delivered once each in that order, refused
\* only when MaxEntries messages wait (event_msgqueue.c:121-145, 200-213).
THEOREM MsgQueueImplementsChannel == SafeSpec => ChannelSafe
<1>1. initMsgqueue => Channel!Init
  BY DEF initMsgqueue, Channel!Init
<1>2. ASSUME MsgQueueInv, [Next]_vars
      PROVE  [Channel!Next]_<<accepted, delivered, dropped>>
  <2>1. ASSUME NEW p \in Producers, PushTail(p)
        PROVE  Channel!Next
    <3>1. msg[p] \in Elems /\ CircInv
      BY <1>2, <2>1 DEF MsgQueueInv, MsgQueueTypeOK, PushTail
    <3>2. count \in Nat /\ MaxEntries \in Nat
      BY <3>1, CircAssumption DEF CircInv, CircTypeOK
    <3>3. \/ ret' = "ok" /\ count < MaxEntries
          \/ ret' = "full" /\ count = MaxEntries
      BY <2>1, <3>1, PushOutcome, MsgQueueAssumption DEF PushTail
    <3>4. CASE ret' = "ok" /\ count < MaxEntries
      <4>1. Channel!Pending <= MaxEntries
        BY <1>2, <3>2, <3>4, PendingIs DEF InHand
      <4>2. Channel!Post(msg[p])
        BY <2>1, <3>4, <4>1 DEF PushTail, Channel!Post
      <4> QED
        BY <3>1, <4>2 DEF Channel!Next
    <3>5. CASE ret' = "full" /\ count = MaxEntries
      <4>1. Channel!Pending >= MaxEntries
        BY <1>2, <3>2, <3>5, PendingIs
      <4>2. Channel!Refuse(msg[p])
        BY <2>1, <3>5, <4>1 DEF PushTail, Channel!Refuse
      <4> QED
        BY <3>1, <4>2 DEF Channel!Next
    <3> QED
      BY <3>3, <3>4, <3>5
  <2>2. CASE PopCallback
    <3>1. Len(delivered) < Len(accepted) /\ accepted[Len(delivered) + 1] = qdata
      <4>1. count \in Nat
        BY <1>2 DEF MsgQueueInv, CircInv, CircTypeOK
      <4>2. /\ Len(accepted) \in Nat /\ Len(delivered) \in Nat
            /\ Len(accepted) - Len(delivered) = 1 + count
            /\ accepted[Len(delivered) + 1] = qdata
        BY <1>2, <2>2, PendingIs DEF PopCallback, Channel!Pending
      <4> QED
        BY <4>1, <4>2
    <3> QED
      BY <2>2, <3>1 DEF PopCallback, Channel!Next, Channel!Deliver
  <2>3. ASSUME NEW p \in Producers, NEW m \in Elems, PushStart(p, m)
        PROVE  UNCHANGED <<accepted, delivered, dropped>>
    BY <2>3 DEF PushStart, history
  <2>4. ASSUME NEW p \in Producers, PushLock(p) \/ PushSend(p) \/ PushUnlock(p)
        PROVE  UNCHANGED <<accepted, delivered, dropped>>
    BY <2>4 DEF PushLock, PushSend, PushUnlock, history
  <2>5. CASE PopRecv \/ PopLock \/ PopHead \/ PopDone
    BY <2>5 DEF PopRecv, PopLock, PopHead, PopDone, history
  <2>6. CASE UNCHANGED vars
    BY <2>6 DEF vars, history
  <2> QED
    BY <1>2, <2>1, <2>2, <2>3, <2>4, <2>5, <2>6 DEF Next, PushStep, PopStep
<1> QED
  BY <1>1, <1>2, MsgQueueInvariant, PTL
  DEF SafeSpec, ChannelSafe, Channel!SafeSpec, Channel!vars
=============================================================================
