------------------------------ MODULE CircQueue ------------------------------
(***************************************************************************)
(* struct circqueue of event_msgqueue.c (lines 8-119): a ring of           *)
(* arrayElements slots, a power of two, read at head and written at tail.  *)
(*                                                                         *)
(* With MaxEntries # 0 (the only way initMsgqueue is called, size 128) the *)
(* queue is bounded; with MaxEntries = 0 it doubles its array when full.   *)
(* zcalloc aborts the process rather than return NULL, so the failure      *)
(* returns of initCircqueue and growCircqueue are unreachable.             *)
(***************************************************************************)
EXTENDS Naturals, Sequences

CONSTANTS
  Elems,             \* the elements (pointers to msgEvent)
  MaxEntries,        \* the size given to initCircqueue, 0 for an unbounded queue
  InitialElements,   \* nextpow2(size), or DEFAULT_UNBOUNDED_QUEUE_SIZE for size 0
  MaxElements,       \* bound of the model: the largest array growth may allocate
  NULL               \* the null pointer

ASSUME CircAssumption ==
  /\ MaxEntries \in Nat
  /\ InitialElements \in Nat \ {0}
  /\ MaxElements \in Nat
  /\ MaxEntries <= InitialElements

VARIABLES
  head, tail, count, arrayElements, entries,  \* the fields of struct circqueue
  ret                                         \* what the last call returned

ringVars == <<head, tail, count, arrayElements, entries>>
circVars == <<ringVars, ret>>

(***************************************************************************)
(* i & (n - 1), the way both indices are wrapped: for n a power of two and *)
(* i in 0..n it is i, except that n becomes 0.                             *)
(***************************************************************************)
Wrap(i, n) == IF i = n THEN 0 ELSE i

initCircqueue ==
  /\ head = 0
  /\ tail = 0
  /\ count = 0
  /\ arrayElements = InitialElements
  /\ entries = [i \in 0 .. InitialElements - 1 |-> NULL]
  /\ ret = NULL

isFullcircqueue == count = arrayElements

ThisRing == [head |-> head, tail |-> tail, size |-> arrayElements, entries |-> entries]

\* growCircqueue without the second memcpy: the wrapped chunk is forgotten.
growCircqueue_NoTailChunk ==
  [head |-> 0, tail |-> count, size |-> 2 * arrayElements,
   entries |-> [i \in 0 .. 2 * arrayElements - 1 |->
                  IF i < arrayElements - head THEN entries[head + i] ELSE NULL]]

(***************************************************************************)
(* The ring growCircqueue leaves behind: an array twice as long that holds *)
(* the chunk from head to the end (or to tail) and then the wrapped chunk. *)
(***************************************************************************)
growCircqueue ==
  LET headchunklen == IF head < tail THEN tail - head ELSE arrayElements - head
      tailchunklen == IF head < tail THEN 0 ELSE tail
      newsize == 2 * arrayElements
  IN  [head |-> 0, tail |-> headchunklen + tailchunklen, size |-> newsize,
       entries |-> [i \in 0 .. newsize - 1 |->
                      IF i < headchunklen THEN entries[head + i]
                      ELSE IF i < headchunklen + tailchunklen THEN entries[i - headchunklen]
                      ELSE NULL]]

\* StoreAtTail with the mask left out: tail runs past the end of the array.
StoreAtTail_NoWrap(r, elem) ==
  /\ count' = count + 1
  /\ entries' = [r.entries EXCEPT ![r.tail] = elem]
  /\ tail' = r.tail + 1
  /\ head' = r.head
  /\ arrayElements' = r.size
  /\ ret' = "ok"

\* The last four lines of pushTailCircqueue, on the ring r.
StoreAtTail(r, elem) ==
  /\ count' = count + 1
  /\ entries' = [r.entries EXCEPT ![r.tail] = elem]
  /\ tail' = Wrap(r.tail + 1, r.size)
  /\ head' = r.head
  /\ arrayElements' = r.size
  /\ ret' = "ok"

\* Bound of the model: growth stops the exploration at MaxElements slots.
MayGrow == 2 * arrayElements <= MaxElements

\* At its bound a bounded queue refuses; otherwise the element is stored, and
\* only a queue without a bound grows to make room.
pushTailCircqueue(elem) ==
  IF MaxEntries # 0 /\ count = MaxEntries
  THEN ret' = "full" /\ UNCHANGED ringVars
  ELSE \/ /\ MaxEntries # 0 \/ ~isFullcircqueue
          /\ StoreAtTail(ThisRing, elem)
       \/ /\ MaxEntries = 0 /\ isFullcircqueue /\ MayGrow
          /\ StoreAtTail(growCircqueue, elem)

\* popHeadCircqueue that moves head only when something is left behind it.
popHeadCircqueue_KeepHead ==
  \/ /\ count = 0
     /\ ret' = NULL
     /\ UNCHANGED ringVars
  \/ /\ count > 0
     /\ count' = count - 1
     /\ ret' = entries[head]
     /\ head' = IF count > 1 THEN Wrap(head + 1, arrayElements) ELSE head
     /\ UNCHANGED <<tail, arrayElements, entries>>

popHeadCircqueue ==
  \/ /\ count = 0
     /\ ret' = NULL
     /\ UNCHANGED ringVars
  \/ /\ count > 0
     /\ count' = count - 1
     /\ ret' = entries[head]
     /\ head' = Wrap(head + 1, arrayElements)
     /\ UNCHANGED <<tail, arrayElements, entries>>

CircNext == (\E elem \in Elems : pushTailCircqueue(elem)) \/ popHeadCircqueue

CircSpec == initCircqueue /\ [][CircNext]_circVars
-----------------------------------------------------------------------------
\* The slot of the element with i older elements before it.
Slot(i) == IF head + i < arrayElements THEN head + i ELSE head + i - arrayElements

\* The elements from the oldest to the newest.
Contents == [i \in 1 .. count |-> entries[Slot(i - 1)]]

CircTypeOK ==
  /\ arrayElements \in Nat \ {0}
  /\ head \in 0 .. arrayElements - 1
  /\ tail \in 0 .. arrayElements - 1
  /\ count \in 0 .. arrayElements
  /\ entries \in [0 .. arrayElements - 1 -> Elems \cup {NULL}]
  /\ ret \in Elems \cup {NULL, "ok", "full"}

(***************************************************************************)
(* The three indices always agree: tail is count slots after head, round   *)
(* the ring, every slot in use holds an element, and a bounded queue never *)
(* exceeds its bound (so tail never laps head, event_msgqueue.c:92-102).   *)
(***************************************************************************)
RingShape ==
  /\ tail = Slot(count)
  /\ \A i \in 0 .. count - 1 : entries[Slot(i)] \in Elems
  /\ MaxEntries # 0 => count <= MaxEntries /\ arrayElements = InitialElements

\* The ring is a first-in first-out queue bounded by MaxEntries, whatever
\* wrapping and growing happen underneath (event_msgqueue.c:59-119).
Fifo == INSTANCE BoundedFifo WITH queue <- Contents, Bound <- MaxEntries
FifoSpec == Fifo!Spec
=============================================================================
