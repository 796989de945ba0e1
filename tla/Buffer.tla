-------------------------------- MODULE Buffer --------------------------------
(***************************************************************************)
(* struct buffer of buffer.c: bytes are written at writeIndex and read at  *)
(* readIndex, with kCheapPrepend bytes kept free in front.  The read       *)
(* buffer of a session is filled by recv and grown when full (session.c:   *)
(* 55-64); a send buffer is appended to.  All indices are uint32 and wrap. *)
(*                                                                         *)
(* size is what initBuffer was asked for; the allocation is kCheapPrepend  *)
(* longer until expandBuffer makes it 2 * size.  A write that leaves the   *)
(* allocation is undefined: crash is then "overrun" and nothing follows.   *)
(***************************************************************************)
EXTENDS Integers, Sequences

CONSTANTS
  kCheapPrepend,  \* 8
  Word,           \* 2^32
  SessionSizes,   \* the initial sizes of a session's buffers (1024)
  Appends,        \* byte strings given to appendBuffer
  Receives,       \* byte strings recv returns
  Prepends,       \* byte strings given to prependBuffer
  MaxSize         \* bound of the model: the largest size expandBuffer makes

ASSUME BufferAssumption ==
  /\ kCheapPrepend \in Nat \ {0}
  /\ SessionSizes \subseteq kCheapPrepend .. MaxSize
  /\ MaxSize \in Nat /\ Word \in Nat /\ 2 * MaxSize + kCheapPrepend < Word
  /\ \A bytes \in Appends \cup Receives \cup Prepends : bytes \in Seq(Nat)

VARIABLES
  size, writeIndex, readIndex,  \* the fields of struct buffer
  data,                         \* the allocation, a function on 0 .. its length - 1
  use,                          \* what the buffer is for, see initBuffer
  crash,                        \* "none" or "overrun"
  stream                        \* history: the bytes put in and not yet taken out

vars == <<size, writeIndex, readIndex, data, use, crash, stream>>

JUNK == -1   \* what malloc and realloc leave in memory, told apart from every byte

\* a - b in uint32.
Minus(a, b) == IF a >= b THEN a - b ELSE a - b + Word

Alloc(n) == [i \in 0 .. n - 1 |-> JUNK]
Realloc(n) == [i \in 0 .. n - 1 |-> IF i \in DOMAIN data THEN data[i] ELSE JUNK]

(***************************************************************************)
(* A session has a "read" and a "send" buffer.  A "temp" buffer is made    *)
(* for a given number of bytes, which are then appended once (test.c:20,   *)
(* 33); it is "spent" from then on.                                        *)
(***************************************************************************)
initBuffer ==
  /\ \/ use \in {"read", "send"} /\ size \in SessionSizes
     \/ use = "temp" /\ size \in {Len(bytes) : bytes \in Appends}
  /\ writeIndex = kCheapPrepend /\ readIndex = kCheapPrepend
  /\ data = Alloc(IF size = 0 THEN 0 ELSE kCheapPrepend + size)
  /\ crash = "none" /\ stream = <<>>

Writeable == Minus(size, writeIndex)     \* getWriteableBytesBuffer
Readable == Minus(writeIndex, readIndex) \* getReadableBytesBuffer

\* The state of a buffer between the calls of one operation.
Now == [size |-> size, wi |-> writeIndex, ri |-> readIndex, data |-> data]

expandBuffer == [Now EXCEPT !.size = 2 * size, !.data = Realloc(2 * size)]

\* The indices move down and the bytes stay where they are.
Compacted_StaleData == [Now EXCEPT !.ri = kCheapPrepend, !.wi = kCheapPrepend + Readable]

\* The readable bytes move down to the prepend area.
Compacted ==
  [Now EXCEPT !.ri = kCheapPrepend, !.wi = kCheapPrepend + Readable,
              !.data = [i \in DOMAIN data |->
                          IF i \in kCheapPrepend .. kCheapPrepend + Readable - 1
                          THEN data[i - kCheapPrepend + readIndex] ELSE data[i]]]

\* makeSpaceBuffer that forgets that the prepend area is to stay free.
makeSpaceBuffer_NoPrepend(more) ==
  IF DOMAIN data = {}
  THEN [Now EXCEPT !.data = Alloc(more + kCheapPrepend),
                   !.wi = kCheapPrepend, !.ri = kCheapPrepend]
  ELSE IF Writeable + readIndex < more THEN expandBuffer ELSE Compacted

makeSpaceBuffer(more) ==
  IF DOMAIN data = {}
  THEN [Now EXCEPT !.data = Alloc(more + kCheapPrepend),
                   !.wi = kCheapPrepend, !.ri = kCheapPrepend]
  ELSE IF Writeable + readIndex < more + kCheapPrepend THEN expandBuffer ELSE Compacted

\* memcpy of bytes to writeIndex, on the buffer b, and writeIndex moved behind it.
Write(b, bytes) ==
  LET n == Len(bytes)
  IN  IF n = 0 \/ b.wi + n - 1 \in DOMAIN b.data
      THEN /\ data' = [i \in DOMAIN b.data |->
                         IF i \in b.wi .. b.wi + n - 1 THEN bytes[i - b.wi + 1] ELSE b.data[i]]
           /\ size' = b.size /\ readIndex' = b.ri /\ writeIndex' = b.wi + n
           /\ stream' = stream \o bytes
           /\ UNCHANGED crash
      ELSE crash' = "overrun" /\ UNCHANGED <<size, writeIndex, readIndex, data, stream>>

appendBuffer(bytes) ==
  Write(IF Len(bytes) > Writeable THEN makeSpaceBuffer(Len(bytes)) ELSE Now, bytes)

\* readSession that grows the buffer one byte late.
receive_Late(bytes) == Len(bytes) <= Writeable + 1 /\ Write(Now, bytes)

\* One turn of readSession's loop that gets data.
receive(bytes) ==
  LET b == IF Writeable = 0 THEN expandBuffer ELSE Now
  IN  /\ Len(bytes) <= Minus(b.size, b.wi)
      /\ Write(b, bytes)

\* moveReadIndexBuffer, by no more than there is to read.
moveReadIndexBuffer(n) ==
  /\ n <= Readable
  /\ readIndex' = readIndex + n
  /\ stream' = SubSeq(stream, n + 1, Len(stream))
  /\ UNCHANGED <<size, writeIndex, data, crash>>

retrieveAllBuffer ==
  /\ writeIndex' = kCheapPrepend /\ readIndex' = kCheapPrepend
  /\ stream' = <<>>
  /\ UNCHANGED <<size, data, crash>>

\* Refused when the bytes fit; written far outside when they do not.
prependBuffer(bytes) ==
  IF Len(bytes) <= readIndex
  THEN UNCHANGED vars
  ELSE crash' = "overrun" /\ UNCHANGED <<size, writeIndex, readIndex, data, stream>>
-----------------------------------------------------------------------------
Fill == /\ use = "read" /\ \E bytes \in Receives : receive(bytes)
        /\ UNCHANGED use
Add == /\ use = "send" /\ \E bytes \in Appends : appendBuffer(bytes)
       /\ UNCHANGED use
AddOnce == /\ use = "temp" /\ \E bytes \in Appends : Len(bytes) = size /\ appendBuffer(bytes)
           /\ use' = "spent"
Prepend == /\ use = "send" /\ \E bytes \in Prepends : prependBuffer(bytes)
           /\ UNCHANGED use
Take == /\ \E n \in 1 .. MaxSize : moveReadIndexBuffer(n)
        /\ UNCHANGED use
Clear == /\ use = "send" /\ Readable = 0 /\ retrieveAllBuffer   \* onWriteSession, all sent
         /\ UNCHANGED use

Next == /\ crash = "none"
        /\ Fill \/ Add \/ AddOnce \/ Prepend \/ Take \/ Clear
        /\ size' <= MaxSize

Spec == initBuffer /\ [][Next]_vars
-----------------------------------------------------------------------------
\* The indices of a session's buffer stay in order and inside size, although
\* size does not count the prepend area that writeIndex does, so the uint32
\* subtractions never wrap (buffer.c:57-113, session.c:55-64).
IndicesInOrder ==
  use \in {"read", "send"} =>
    /\ kCheapPrepend <= readIndex /\ readIndex <= writeIndex /\ writeIndex <= size
    /\ 0 .. size - 1 \subseteq DOMAIN data

\* What is there to read is what was put in and not yet taken out, in order,
\* across growing and compacting (buffer.c:57-103).
ReadableIsStream ==
  /\ Readable = Len(stream)
  /\ \A i \in 1 .. Len(stream) : data[readIndex + i - 1] = stream[i]

\* recv never writes outside the allocation, and a buffer made for n bytes takes
\* n bytes, also when n is less than the prepend area and the free space wraps
\* (session.c:55-64, test.c:20-21, 33-34).
SafeUses == crash = "overrun" => use = "send"

\* An append overruns only if the bytes would not fit in twice the size: one
\* doubling, or moving the bytes down, is all that makeSpaceBuffer does (57-81).
OverrunOnlyBeyondDoubling ==
  [][\A bytes \in Appends : Add /\ appendBuffer(bytes) /\ crash' = "overrun"
                              => writeIndex + Len(bytes) > 2 * size]_vars
=============================================================================
