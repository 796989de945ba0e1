------------------------------ MODULE FastArray ------------------------------
(***************************************************************************)
(* fastArray.c: an unordered array of items that each remember their slot  *)
(* in arrayIndex, so that one can be erased without a search.  erase fills *)
(* the hole with the last item.  The only caller creates it with 128 slots *)
(* (tcpServer.c:81, 88).                                                   *)
(*                                                                         *)
(* A failed myAssert aborts the process: crash then names the assertion    *)
(* and no action is enabled any more.                                      *)
(***************************************************************************)
EXTENDS Integers, FiniteSets

CONSTANTS
  Items,     \* the items (sessions; arrayItem is their first field)
  Capacity,  \* the capacity given to initFastArray
  NULL       \* the null pointer

\* With 0 or 1, initFastArray records more slots than it allocates.
ASSUME FastArrayAssumption ==
  /\ Capacity \in Nat /\ Capacity >= 2
  /\ NULL \notin Items

VARIABLES
  arrayItem, tail, capacity,  \* the fields of struct fastArray
  arrayIndex,                 \* the field of each item
  crash,                      \* "none", or what ended the process
  moved                       \* history: an erase has filled a hole

arrayVars == <<arrayItem, tail, capacity, arrayIndex, crash, moved>>

initFastArray ==
  /\ arrayItem = [i \in 0 .. Capacity - 1 |-> NULL]
  /\ tail = 0
  /\ capacity = Capacity
  /\ arrayIndex = [o \in Items |-> -1]
  /\ crash = "none"
  /\ moved = FALSE

\* Doubles only once the array has overrun its capacity.
Grown_Late == IF tail > capacity THEN 2 * tail ELSE capacity

\* The capacity after pushBack has made room.
Grown == IF tail >= capacity THEN 2 * tail ELSE capacity

pushBackFastArray(o) ==
  /\ arrayIndex' = [arrayIndex EXCEPT ![o] = tail]
  /\ capacity' = Grown
  /\ arrayItem' = [i \in 0 .. Grown - 1 |-> IF i = tail THEN o
                                            ELSE IF i < capacity THEN arrayItem[i]
                                            ELSE NULL]
  /\ tail' = tail + 1
  /\ UNCHANGED <<crash, moved>>

\* erase that takes every hole for the last slot.
erase_NoFill(i) ==
  /\ arrayItem' = arrayItem
  /\ moved' = moved
  /\ tail' = tail - 1

\* The last item takes slot i; its arrayIndex is left as it was.
erase(i) ==
  /\ arrayItem' = [arrayItem EXCEPT ![i] = arrayItem[tail - 1]]
  /\ moved' = (moved \/ i # tail - 1)
  /\ tail' = tail - 1

eraseFastArray(o) ==
  \/ /\ arrayIndex[o] \notin 0 .. tail - 1     \* myAssert, fastArray.c:59
     /\ crash' = "index"
     /\ UNCHANGED <<arrayItem, tail, capacity, arrayIndex, moved>>
  \/ /\ arrayIndex[o] \in 0 .. tail - 1
     /\ erase(arrayIndex[o])
     /\ arrayIndex' = [arrayIndex EXCEPT ![o] = -1]
     /\ UNCHANGED <<capacity, crash>>

getArrayItemFastArray(i) == IF i < 0 \/ i > tail THEN NULL ELSE arrayItem[i]

\* The callers push an item once and erase each pushed item once, in any order.
Pushed == {o \in Items : arrayIndex[o] # -1}

PushNew == \E o \in Items \ Pushed : pushBackFastArray(o)
EraseOne == \E o \in Pushed : eraseFastArray(o)
EraseLast == tail > 0 /\ eraseFastArray(getArrayItemFastArray(tail - 1))

ArrayNext == crash = "none" /\ (PushNew \/ EraseOne \/ EraseLast)

ArraySpec == initFastArray /\ [][ArrayNext]_arrayVars
-----------------------------------------------------------------------------
ArrayTypeOK ==
  /\ capacity \in Nat
  /\ tail \in 0 .. capacity
  /\ arrayItem \in [0 .. capacity - 1 -> Items \cup {NULL}]
  /\ arrayIndex \in [Items -> -1 .. capacity - 1]
  /\ crash \in {"none", "index"}
  /\ moved \in BOOLEAN

\* Until an erase fills a hole, slots and indices name each other, and the
\* pushed items are exactly the ones in the slots (fastArray.c:36-63).
ConsistentUntilMove ==
  ~moved => /\ \A o \in Pushed : arrayIndex[o] < tail /\ arrayItem[arrayIndex[o]] = o
            /\ \A i \in 0 .. tail - 1 : /\ arrayItem[i] \in Items
                                        /\ arrayIndex[arrayItem[i]] = i

\* The index assertion can fail only once an erase has filled a hole.
AbortOnlyAfterMove == crash = "index" => moved

\* tail counts the items pushed and not erased, also after indices went stale,
\* when erases hit the wrong slot, until the process aborts.
TailCounts == tail = Cardinality(Pushed)

\* The assertion of fastArray.c:59: an item being erased has a valid index.
IndexAssertionHolds == crash # "index"
=============================================================================
