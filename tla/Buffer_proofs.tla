----------------------------- MODULE Buffer_proofs -----------------------------
(***************************************************************************)
(* The buffers of Buffer, for every size and every length of the bytes put *)
(* in: a session's indices stay in order, the bytes come out as they went  *)
(* in, and only a send buffer can be written outside its allocation.       *)
(***************************************************************************)
EXTENDS Buffer, SequenceTheorems, TLAPS

BufTypeOK ==
  /\ size \in Nat /\ writeIndex \in Nat /\ readIndex \in Nat
  /\ use \in {"read", "send", "temp", "spent"}
  /\ crash \in {"none", "overrun"}
  /\ stream \in Seq(Nat)

\* The allocation is longer than size by the prepend area, until it has grown.
Allocated ==
  use \in {"read", "send"} =>
    DOMAIN data = 0 .. size - 1 \/ DOMAIN data = 0 .. size + kCheapPrepend - 1

\* A temp buffer is as initBuffer has left it.
TempIsFresh ==
  use = "temp" =>
    /\ writeIndex = kCheapPrepend /\ readIndex = kCheapPrepend /\ stream = <<>>
    /\ size > 0 => DOMAIN data = 0 .. kCheapPrepend + size - 1
    /\ size = 0 => DOMAIN data = {}

\* What is there to read lies inside the allocation.
ReadableInside ==
  /\ readIndex <= writeIndex
  /\ \A i \in readIndex .. writeIndex - 1 : i \in DOMAIN data

BufInv ==
  /\ BufTypeOK
  /\ Allocated
  /\ TempIsFresh
  /\ ReadableInside
  /\ IndicesInOrder
  /\ ReadableIsStream
  /\ SafeUses
-----------------------------------------------------------------------------
LEMMA Sizes ==
  /\ kCheapPrepend \in Nat \ {0} /\ MaxSize \in Nat /\ Word \in Nat
  /\ kCheapPrepend < Word
  /\ \A n \in SessionSizes : n \in Nat /\ kCheapPrepend <= n
  /\ \A bytes \in Appends \cup Receives \cup Prepends :
       bytes \in Seq(Nat) /\ Len(bytes) \in Nat
<1>1. /\ kCheapPrepend \in Nat \ {0} /\ MaxSize \in Nat /\ Word \in Nat
      /\ 2 * MaxSize + kCheapPrepend < Word /\ SessionSizes \subseteq kCheapPrepend .. MaxSize
      /\ \A bytes \in Appends \cup Receives \cup Prepends : bytes \in Seq(Nat)
  BY BufferAssumption
<1>2. kCheapPrepend < Word
  BY <1>1
<1>3. \A n \in kCheapPrepend .. MaxSize : n \in Nat /\ kCheapPrepend <= n
  BY <1>1
<1>4. \A bytes \in Seq(Nat) : Len(bytes) \in Nat
  OBVIOUS
<1> QED
  BY <1>1, <1>2, <1>3, <1>4

LEMMA MinusInOrder ==
  ASSUME NEW a \in Nat, NEW b \in Nat, b <= a
  PROVE  Minus(a, b) = a - b /\ Minus(a, b) \in Nat
BY DEF Minus

LEMMA InitBufInv == initBuffer => BufInv
<1> SUFFICES ASSUME initBuffer PROVE BufInv
  OBVIOUS
<1>1. /\ kCheapPrepend \in Nat \ {0}
      /\ writeIndex = kCheapPrepend /\ readIndex = kCheapPrepend
      /\ crash = "none" /\ stream = <<>> /\ stream \in Seq(Nat) /\ Len(stream) = 0
  BY Sizes DEF initBuffer
<1>2. /\ size \in Nat /\ use \in {"read", "send", "temp"}
      /\ use \in {"read", "send"} => kCheapPrepend <= size
  BY Sizes DEF initBuffer
<1>3. DOMAIN data = IF size = 0 THEN 0 .. 0 - 1 ELSE 0 .. kCheapPrepend + size - 1
  <2>1. data = Alloc(IF size = 0 THEN 0 ELSE kCheapPrepend + size)
    BY DEF initBuffer
  <2>2. CASE size = 0
    BY <2>1, <2>2 DEF Alloc
  <2>3. CASE size # 0
    <3>1. data = Alloc(kCheapPrepend + size)
      BY <2>1, <2>3
    <3>2. DOMAIN data = 0 .. kCheapPrepend + size - 1
      BY <1>1, <1>2, <3>1 DEF Alloc
    <3> QED
      BY <2>3, <3>2
  <2> QED
    BY <2>2, <2>3
<1>4. 0 .. 0 - 1 = {} /\ readIndex .. writeIndex - 1 = {}
  BY <1>1
<1>5. BufTypeOK /\ TempIsFresh /\ SafeUses
  BY <1>1, <1>2, <1>3, <1>4 DEF BufTypeOK, TempIsFresh, SafeUses
<1>6. Allocated /\ ReadableInside
  BY <1>1, <1>2, <1>3, <1>4 DEF Allocated, ReadableInside
<1>7. IndicesInOrder
  <2> SUFFICES ASSUME use \in {"read", "send"} PROVE 0 .. size - 1 \subseteq DOMAIN data
    BY <1>1, <1>2 DEF IndicesInOrder
  <2>1. DOMAIN data = 0 .. kCheapPrepend + size - 1
    BY <1>1, <1>2, <1>3
  <2> QED
    BY <1>1, <1>2, <2>1
<1>8. ReadableIsStream
  <2>1. Readable = 0
    BY <1>1 DEF Readable, Minus
  <2> QED
    BY <1>1, <2>1 DEF ReadableIsStream
<1> QED
  BY <1>5, <1>6, <1>7, <1>8 DEF BufInv

\* Bytes written behind what is there to read, inside the allocation.
LEMMA WriteFits ==
  ASSUME BufInv, NEW b, NEW bytes \in Seq(Nat),
         b.wi \in Nat, b.ri \in Nat, b.wi = b.ri + Len(stream),
         \A i \in b.ri .. b.wi + Len(bytes) - 1 : i \in DOMAIN b.data,
         \A i \in 1 .. Len(stream) : b.data[b.ri + i - 1] = stream[i],
         Write(b, bytes)
  PROVE  /\ crash' = crash /\ size' = b.size /\ readIndex' = b.ri
         /\ writeIndex' = b.wi + Len(bytes)
         /\ DOMAIN data' = DOMAIN b.data
         /\ stream' \in Seq(Nat) /\ ReadableIsStream' /\ ReadableInside'
<1>0. PICK n, l, w, r \in Nat : n = Len(bytes) /\ l = Len(stream) /\ w = b.wi /\ r = b.ri
  BY DEF BufInv, BufTypeOK
<1>1. w = r + l
  BY <1>0
<1>2. /\ stream \in Seq(Nat)
      /\ \A i \in r .. w + n - 1 : i \in DOMAIN b.data
      /\ \A i \in 1 .. l : b.data[r + i - 1] = stream[i]
  BY <1>0 DEF BufInv, BufTypeOK
<1>3. n = 0 \/ w + n - 1 \in DOMAIN b.data
  <2>1. n = 0 \/ w + n - 1 \in r .. w + n - 1
    BY <1>1
  <2> QED
    BY <1>2, <2>1
<1>4. /\ data' = [i \in DOMAIN b.data |->
                    IF i \in w .. w + n - 1 THEN bytes[i - w + 1] ELSE b.data[i]]
      /\ size' = b.size /\ readIndex' = r /\ writeIndex' = w + n
      /\ stream' = stream \o bytes /\ crash' = crash
  BY <1>0, <1>3 DEF Write
<1>5. /\ stream' \in Seq(Nat) /\ Len(stream') = l + n
      /\ \A i \in 1 .. l + n : stream'[i] = IF i <= l THEN stream[i] ELSE bytes[i - l]
  BY <1>0, <1>2, <1>4, ConcatProperties
<1>6. Readable' = l + n
  <2>1. Readable' = Minus(w + n, r)
    BY <1>4 DEF Readable
  <2> QED
    BY <1>1, <2>1 DEF Minus
<1>7. ASSUME NEW i \in 1 .. l + n PROVE data'[r + i - 1] = stream'[i]
  <2>1. /\ r + i - 1 \in r .. w + n - 1
        /\ i <= l => i \in 1 .. l /\ ~(r + i - 1 \in w .. w + n - 1)
        /\ ~(i <= l) => r + i - 1 \in w .. w + n - 1 /\ (r + i - 1) - w + 1 = i - l
    BY <1>1
  <2>2. r + i - 1 \in DOMAIN b.data
    BY <1>2, <2>1
  <2>3. data'[r + i - 1] = IF r + i - 1 \in w .. w + n - 1 THEN bytes[(r + i - 1) - w + 1]
                                                           ELSE b.data[r + i - 1]
    BY <1>4, <2>2
  <2> QED
    BY <1>2, <1>5, <2>1, <2>3
<1>8. ReadableIsStream'
  BY <1>4, <1>5, <1>6, <1>7 DEF ReadableIsStream
<1>9. ReadableInside'
  BY <1>2, <1>4, <1>1 DEF ReadableInside
<1> QED
  BY <1>0, <1>4, <1>5, <1>8, <1>9

\* Where a session's indices and its bytes are.
LEMMA SessionFacts ==
  ASSUME BufInv
  PROVE  /\ size \in Nat /\ writeIndex \in Nat /\ readIndex \in Nat
         /\ stream \in Seq(Nat) /\ Len(stream) \in Nat
         /\ Readable = Len(stream) /\ writeIndex = readIndex + Len(stream)
         /\ \A i \in 1 .. Len(stream) : data[readIndex + i - 1] = stream[i]
         /\ use \in {"read", "send"} =>
              /\ kCheapPrepend <= readIndex /\ writeIndex <= size
              /\ Writeable = size - writeIndex /\ Writeable \in Nat
              /\ \A i \in 0 .. size - 1 : i \in DOMAIN data
<1>1. /\ size \in Nat /\ writeIndex \in Nat /\ readIndex \in Nat
      /\ stream \in Seq(Nat) /\ Len(stream) \in Nat /\ readIndex <= writeIndex
      /\ Readable = Len(stream)
      /\ \A i \in 1 .. Len(stream) : data[readIndex + i - 1] = stream[i]
  BY DEF BufInv, BufTypeOK, ReadableInside, ReadableIsStream
<1>2. writeIndex = readIndex + Len(stream)
  <2>1. Readable = writeIndex - readIndex
    BY <1>1, MinusInOrder DEF Readable
  <2> QED
    BY <1>1, <2>1
<1>3. ASSUME use \in {"read", "send"}
      PROVE  /\ kCheapPrepend <= readIndex /\ writeIndex <= size
             /\ \A i \in 0 .. size - 1 : i \in DOMAIN data
  BY <1>3 DEF BufInv, IndicesInOrder
<1>4. ASSUME use \in {"read", "send"}
      PROVE  Writeable = size - writeIndex /\ Writeable \in Nat
  BY <1>1, <1>3, <1>4, MinusInOrder DEF Writeable
<1> QED
  BY <1>1, <1>2, <1>3, <1>4

\* The buffer b, from which a session's buffer is written, is as a session's is.
SessionLike(b) ==
  /\ b.size \in Nat /\ b.wi \in Nat /\ b.ri \in Nat
  /\ kCheapPrepend <= b.ri /\ b.wi = b.ri + Len(stream) /\ b.wi <= b.size
  /\ DOMAIN b.data = 0 .. b.size - 1 \/ DOMAIN b.data = 0 .. b.size + kCheapPrepend - 1
  /\ \A i \in 1 .. Len(stream) : b.data[b.ri + i - 1] = stream[i]

LEMMA NowIsSessionLike ==
  ASSUME BufInv, use \in {"read", "send"}
  PROVE  SessionLike(Now) /\ Now.wi = writeIndex /\ Now.size = size
<1>1. Now.size = size /\ Now.wi = writeIndex /\ Now.ri = readIndex /\ Now.data = data
  BY DEF Now
<1>2. DOMAIN data = 0 .. size - 1 \/ DOMAIN data = 0 .. size + kCheapPrepend - 1
  BY DEF BufInv, Allocated
<1> HIDE DEF Now
<1> QED
  BY <1>1, <1>2, SessionFacts DEF SessionLike

LEMMA ExpandedIsSessionLike ==
  ASSUME BufInv, use \in {"read", "send"}
  PROVE  /\ SessionLike(expandBuffer)
         /\ expandBuffer.wi = writeIndex /\ expandBuffer.size = 2 * size
<1> DEFINE b == expandBuffer  l == Len(stream)
<1>1. /\ b.size = 2 * size /\ b.wi = writeIndex /\ b.ri = readIndex
      /\ b.data = Realloc(2 * size)
  BY DEF expandBuffer, Now
<1> HIDE DEF b
<1>2. /\ DOMAIN b.data = 0 .. 2 * size - 1
      /\ \A i \in 0 .. 2 * size - 1 : i \in DOMAIN data => b.data[i] = data[i]
  BY <1>1 DEF Realloc
<1>3. /\ size \in Nat /\ writeIndex \in Nat /\ readIndex \in Nat /\ l \in Nat
      /\ kCheapPrepend \in Nat /\ kCheapPrepend <= readIndex
      /\ writeIndex = readIndex + l /\ writeIndex <= size
      /\ \A i \in 0 .. size - 1 : i \in DOMAIN data
      /\ \A i \in 1 .. l : data[readIndex + i - 1] = stream[i]
  BY SessionFacts, Sizes
<1>4. ASSUME NEW i \in 1 .. l PROVE b.data[readIndex + i - 1] = stream[i]
  <2>1. readIndex + i - 1 \in 0 .. size - 1 /\ readIndex + i - 1 \in 0 .. 2 * size - 1
    <3> HIDE DEF l
    <3> QED
      BY <1>3
  <2> QED
    BY <1>2, <1>3, <2>1
<1>5. b.size \in Nat /\ b.wi <= b.size
  BY <1>1, <1>3
<1> QED
  BY <1>1, <1>2, <1>3, <1>4, <1>5 DEF SessionLike, b

LEMMA CompactedIsSessionLike ==
  ASSUME BufInv, use \in {"read", "send"}
  PROVE  /\ SessionLike(Compacted)
         /\ Compacted.wi = kCheapPrepend + Len(stream) /\ Compacted.size = size
<1> DEFINE b == Compacted  l == Len(stream)
<1>1. /\ size \in Nat /\ writeIndex \in Nat /\ readIndex \in Nat /\ l \in Nat
      /\ kCheapPrepend \in Nat /\ kCheapPrepend <= readIndex
      /\ writeIndex = readIndex + l /\ writeIndex <= size /\ Readable = l
      /\ \A i \in 0 .. size - 1 : i \in DOMAIN data
      /\ \A i \in 1 .. l : data[readIndex + i - 1] = stream[i]
  BY SessionFacts, Sizes
<1>2. /\ b.size = size /\ b.wi = kCheapPrepend + l /\ b.ri = kCheapPrepend
      /\ b.data = [i \in DOMAIN data |->
                     IF i \in kCheapPrepend .. kCheapPrepend + l - 1
                     THEN data[i - kCheapPrepend + readIndex] ELSE data[i]]
  BY <1>1 DEF Compacted, Now
<1> HIDE DEF b
<1>3. ASSUME NEW i \in 1 .. l PROVE b.data[kCheapPrepend + i - 1] = stream[i]
  <2> DEFINE j == kCheapPrepend + i - 1
  <2>1. /\ j \in 0 .. size - 1 /\ j \in kCheapPrepend .. kCheapPrepend + l - 1
        /\ j - kCheapPrepend + readIndex = readIndex + i - 1
    <3> HIDE DEF l
    <3> QED
      BY <1>1
  <2> HIDE DEF j
  <2>2. b.data[j] = data[readIndex + i - 1]
    BY <1>1, <1>2, <2>1
  <2> QED
    BY <1>1, <2>2 DEF j
<1>4. DOMAIN b.data = DOMAIN data
  BY <1>2
<1>5. DOMAIN data = 0 .. size - 1 \/ DOMAIN data = 0 .. size + kCheapPrepend - 1
  BY DEF BufInv, Allocated
<1>6. kCheapPrepend + l \in Nat /\ kCheapPrepend + l <= size
  BY <1>1
<1>7. SessionLike(b)
  <2>1. /\ b.size \in Nat /\ b.wi \in Nat /\ b.ri \in Nat
        /\ kCheapPrepend <= b.ri /\ b.wi = b.ri + Len(stream) /\ b.wi <= b.size
    BY <1>1, <1>2, <1>6
  <2>2. \A i \in 1 .. Len(stream) : b.data[b.ri + i - 1] = stream[i]
    BY <1>2, <1>3
  <2> QED
    BY <1>2, <1>4, <1>5, <2>1, <2>2 DEF SessionLike
<1> QED
  BY <1>2, <1>7 DEF b

\* A write that ends within size leaves a session's buffer in order.
LEMMA SessionWrite ==
  ASSUME BufInv, use \in {"read", "send"}, use' = use, NEW b, SessionLike(b),
         NEW bytes \in Seq(Nat), b.wi + Len(bytes) <= b.size, Write(b, bytes)
  PROVE  BufInv' /\ crash' = crash
<1>0. PICK k, n, l, z, w, r \in Nat :
        /\ k = kCheapPrepend /\ n = Len(bytes) /\ l = Len(stream)
        /\ z = b.size /\ w = b.wi /\ r = b.ri
  <2>1. /\ kCheapPrepend \in Nat /\ Len(bytes) \in Nat /\ Len(stream) \in Nat
        /\ b.size \in Nat /\ b.wi \in Nat /\ b.ri \in Nat
    BY Sizes, SessionFacts DEF SessionLike
  <2> QED
    BY <2>1, Zenon
<1>1. k <= r /\ w = r + l /\ w + n <= z
  BY <1>0 DEF SessionLike
<1>2. \A i \in 0 .. z - 1 : i \in DOMAIN b.data
  <2>1. DOMAIN b.data = 0 .. z - 1 \/ DOMAIN b.data = 0 .. z + k - 1
    BY <1>0 DEF SessionLike
  <2>2. \A i \in 0 .. z - 1 : i \in 0 .. z + k - 1
    BY <1>0
  <2> QED
    BY <2>1, <2>2
<1>3. \A i \in r .. w + n - 1 : i \in 0 .. z - 1
  BY <1>1
<1>4. /\ crash' = crash /\ size' = z /\ readIndex' = r /\ writeIndex' = w + n
      /\ DOMAIN data' = DOMAIN b.data
      /\ stream' \in Seq(Nat) /\ ReadableIsStream' /\ ReadableInside'
  BY <1>0, <1>1, <1>2, <1>3, WriteFits DEF SessionLike
<1>5. BufTypeOK' /\ TempIsFresh' /\ SafeUses'
  BY <1>1, <1>4 DEF BufInv, BufTypeOK, TempIsFresh, SafeUses
<1>6. Allocated'
  BY <1>0, <1>4 DEF Allocated, SessionLike
<1>7. IndicesInOrder'
  <2>1. kCheapPrepend <= readIndex' /\ readIndex' <= writeIndex' /\ writeIndex' <= size'
    BY <1>0, <1>1, <1>4
  <2>2. 0 .. size' - 1 \subseteq DOMAIN data'
    BY <1>2, <1>4
  <2> QED
    BY <2>1, <2>2 DEF IndicesInOrder
<1> QED
  BY <1>4, <1>5, <1>6, <1>7 DEF BufInv

\* After a write outside the allocation nothing else has changed.
LEMMA OverrunKeeps ==
  ASSUME BufInv, use = "send", use' = use, crash' = "overrun",
         UNCHANGED <<size, writeIndex, readIndex, data, stream>>
  PROVE  BufInv'
BY DEF BufInv, BufTypeOK, Allocated, TempIsFresh, ReadableInside, IndicesInOrder,
       ReadableIsStream, SafeUses, Readable

LEMMA FillKeeps ==
  ASSUME BufInv, crash = "none", Fill
  PROVE  BufInv'
<1>1. use = "read" /\ use' = use
  BY DEF Fill
<1>2. PICK bytes \in Receives : receive(bytes)
  BY DEF Fill
<1>3. bytes \in Seq(Nat) /\ Len(bytes) \in Nat
  BY Sizes
<1> DEFINE b == IF Writeable = 0 THEN expandBuffer ELSE Now
<1>4. Len(bytes) <= Minus(b.size, b.wi) /\ Write(b, bytes)
  BY <1>2 DEF receive
<1>5. SessionLike(b)
  BY <1>1, NowIsSessionLike, ExpandedIsSessionLike
<1> HIDE DEF b
<1>6. b.wi + Len(bytes) <= b.size
  <2>1. b.size \in Nat /\ b.wi \in Nat /\ b.wi <= b.size
    BY <1>5 DEF SessionLike
  <2>2. Minus(b.size, b.wi) = b.size - b.wi
    BY <2>1, MinusInOrder
  <2> QED
    BY <1>3, <1>4, <2>1, <2>2
<1> QED
  BY <1>1, <1>3, <1>4, <1>5, <1>6, SessionWrite

\* An append keeps the invariant, and overruns only beyond one doubling.
LEMMA AppendOutcome ==
  ASSUME BufInv, crash = "none", use = "send", use' = use,
         NEW bytes \in Appends, appendBuffer(bytes)
  PROVE  BufInv' /\ (crash' = "overrun" => writeIndex + Len(bytes) > 2 * size)
<1> DEFINE n == Len(bytes)
<1>1. bytes \in Seq(Nat) /\ n \in Nat
  BY Sizes
<1>2. /\ size \in Nat /\ writeIndex \in Nat /\ readIndex \in Nat
      /\ kCheapPrepend \in Nat \ {0} /\ kCheapPrepend <= readIndex /\ writeIndex <= size
      /\ Len(stream) \in Nat /\ writeIndex = readIndex + Len(stream)
      /\ Writeable = size - writeIndex
      /\ \A i \in 0 .. size - 1 : i \in DOMAIN data
  BY SessionFacts, Sizes
<1>3. ASSUME NEW b, SessionLike(b), Write(b, bytes), b.wi + n <= b.size
      PROVE  BufInv' /\ crash' = "none"
  BY <1>1, <1>3, SessionWrite
<1> HIDE DEF n
<1>4. CASE n <= Writeable
  <2>1. Write(Now, bytes)
    BY <1>1, <1>2, <1>4 DEF appendBuffer, n
  <2>2. SessionLike(Now) /\ Now.wi + n <= Now.size
    BY <1>1, <1>2, <1>4, NowIsSessionLike
  <2> QED
    BY <1>3, <2>1, <2>2
<1>5. CASE ~(n <= Writeable)
  <2>1. Write(makeSpaceBuffer(n), bytes)
    BY <1>1, <1>2, <1>5 DEF appendBuffer, n
  <2>2. DOMAIN data # {}
    <3>1. 0 \in 0 .. size - 1
      BY <1>2
    <3> QED
      BY <1>2, <3>1
  <2>3. CASE Writeable + readIndex < n + kCheapPrepend
    <3>1. Write(expandBuffer, bytes)
      BY <2>1, <2>2, <2>3 DEF makeSpaceBuffer
    <3>2. /\ SessionLike(expandBuffer)
          /\ expandBuffer.wi = writeIndex /\ expandBuffer.size = 2 * size
      BY ExpandedIsSessionLike
    <3>3. CASE writeIndex + n <= 2 * size
      BY <1>3, <3>1, <3>2, <3>3
    <3>4. CASE ~(writeIndex + n <= 2 * size)
      <4>1. writeIndex + n > 2 * size
        BY <1>1, <1>2, <3>4
      <4>2. /\ crash' = "overrun"
            /\ UNCHANGED <<size, writeIndex, readIndex, data, stream>>
        <5>1. DOMAIN expandBuffer.data = 0 .. 2 * size - 1
          BY DEF expandBuffer, Realloc, Now
        <5>2. ~(writeIndex + n - 1 \in 0 .. 2 * size - 1) /\ n # 0
          BY <1>1, <1>2, <4>1
        <5> HIDE DEF expandBuffer
        <5> QED
          BY <3>1, <3>2, <5>1, <5>2 DEF Write, n
      <4> QED
        BY <4>1, <4>2, OverrunKeeps DEF n
    <3> QED
      BY <3>3, <3>4
  <2>4. CASE ~(Writeable + readIndex < n + kCheapPrepend)
    <3>1. Write(Compacted, bytes)
      BY <2>1, <2>2, <2>4 DEF makeSpaceBuffer
    <3>2. /\ SessionLike(Compacted)
          /\ Compacted.wi = kCheapPrepend + Len(stream) /\ Compacted.size = size
      BY CompactedIsSessionLike
    <3>3. kCheapPrepend + Len(stream) + n <= size
      BY <1>1, <1>2, <2>4
    <3> QED
      BY <1>3, <3>1, <3>2, <3>3
  <2> QED
    BY <2>3, <2>4
<1> QED
  BY <1>4, <1>5

LEMMA AddKeeps ==
  ASSUME BufInv, crash = "none", Add
  PROVE  BufInv'
BY AppendOutcome DEF Add

LEMMA PrependKeeps ==
  ASSUME BufInv, crash = "none", Prepend
  PROVE  BufInv'
<1>1. use = "send" /\ use' = use
  BY DEF Prepend
<1>2. \/ UNCHANGED vars
      \/ crash' = "overrun" /\ UNCHANGED <<size, writeIndex, readIndex, data, stream>>
  BY DEF Prepend, prependBuffer
<1>3. CASE UNCHANGED vars
  BY <1>3 DEF vars, BufInv, BufTypeOK, Allocated, TempIsFresh, ReadableInside, IndicesInOrder,
              ReadableIsStream, SafeUses, Readable
<1> QED
  BY <1>1, <1>2, <1>3, OverrunKeeps

LEMMA ClearKeeps ==
  ASSUME BufInv, crash = "none", Clear
  PROVE  BufInv'
<1>1. /\ use = "send" /\ use' = use
      /\ writeIndex' = kCheapPrepend /\ readIndex' = kCheapPrepend
      /\ stream' = <<>> /\ size' = size /\ data' = data /\ crash' = crash
  BY DEF Clear, retrieveAllBuffer
<1>2. /\ kCheapPrepend \in Nat \ {0} /\ size \in Nat /\ kCheapPrepend <= size
      /\ 0 .. size - 1 \subseteq DOMAIN data
  <2>1. /\ kCheapPrepend \in Nat \ {0} /\ size \in Nat /\ Len(stream) \in Nat
        /\ kCheapPrepend <= readIndex /\ writeIndex = readIndex + Len(stream)
        /\ writeIndex <= size /\ writeIndex \in Nat /\ readIndex \in Nat
    BY <1>1, SessionFacts, Sizes
  <2> QED
    BY <1>1, <2>1 DEF BufInv, IndicesInOrder
<1>3. Readable' = 0 /\ kCheapPrepend .. kCheapPrepend - 1 = {} /\ 1 .. 0 = {}
  BY <1>1, <1>2 DEF Readable, Minus
<1>4. stream' \in Seq(Nat) /\ Len(stream') = 0
  BY <1>1
<1>5. BufTypeOK' /\ Allocated' /\ TempIsFresh' /\ SafeUses'
  BY <1>1, <1>2, <1>4 DEF BufInv, BufTypeOK, Allocated, TempIsFresh, SafeUses
<1>6. ReadableInside' /\ IndicesInOrder' /\ ReadableIsStream'
  BY <1>1, <1>2, <1>3, <1>4 DEF ReadableInside, IndicesInOrder, ReadableIsStream
<1> QED
  BY <1>5, <1>6 DEF BufInv

LEMMA TakeKeeps ==
  ASSUME BufInv, crash = "none", Take
  PROVE  BufInv'
<1>1. PICK n \in 1 .. MaxSize : moveReadIndexBuffer(n)
  BY DEF Take
<1>2. PICK l, r \in Nat : l = Len(stream) /\ r = readIndex
  BY SessionFacts
<1>3. n \in Nat \ {0} /\ n <= l
  BY <1>1, <1>2, SessionFacts, Sizes DEF moveReadIndexBuffer
<1>4. /\ readIndex' = r + n /\ stream' = SubSeq(stream, n + 1, l) /\ writeIndex' = writeIndex
      /\ size' = size /\ data' = data /\ crash' = crash /\ use' = use
  BY <1>1, <1>2 DEF moveReadIndexBuffer, Take
<1>5. /\ stream \in Seq(Nat) /\ writeIndex = r + l /\ writeIndex \in Nat
      /\ \A i \in 1 .. l : data[r + i - 1] = stream[i]
  BY <1>2, SessionFacts
<1>6. /\ stream' \in Seq(Nat) /\ Len(stream') = l - n
      /\ \A i \in 1 .. l - n : stream'[i] = stream[n + i]
  <2>1. \A i \in n + 1 .. l : stream[i] \in Nat
    <3>1. \A i \in n + 1 .. l : i \in 1 .. Len(stream)
      BY <1>2, <1>3
    <3> QED
      BY <1>5, <3>1, ElementOfSeq
  <2>2. n + 1 \in Int /\ l \in Int
    BY <1>3
  <2>3. /\ SubSeq(stream, n + 1, l) \in Seq(Nat)
        /\ Len(SubSeq(stream, n + 1, l)) = IF n + 1 <= l THEN l - (n + 1) + 1 ELSE 0
        /\ \A i \in 1 .. l - (n + 1) + 1 : SubSeq(stream, n + 1, l)[i] = stream[(n + 1) + i - 1]
    BY <2>1, <2>2, SubSeqProperties
  <2>4. /\ (IF n + 1 <= l THEN l - (n + 1) + 1 ELSE 0) = l - n
        /\ \A i \in 1 .. l - n : i \in 1 .. l - (n + 1) + 1 /\ (n + 1) + i - 1 = n + i
    BY <1>3
  <2> QED
    BY <1>4, <2>3, <2>4
<1>7. Readable' = l - n
  <2>1. Readable' = Minus(r + l, r + n)
    BY <1>4, <1>5 DEF Readable
  <2> QED
    BY <1>3, <2>1 DEF Minus
<1>8. ReadableIsStream'
  <2>1. \A i \in 1 .. l - n : data'[(r + n) + i - 1] = stream'[i]
    <3> SUFFICES ASSUME NEW i \in 1 .. l - n PROVE data[(r + n) + i - 1] = stream[n + i]
      BY <1>4, <1>6
    <3>1. n + i \in 1 .. l /\ r + (n + i) - 1 = (r + n) + i - 1
      BY <1>3
    <3> QED
      BY <1>5, <3>1
  <2> QED
    BY <1>4, <1>6, <1>7, <2>1 DEF ReadableIsStream
<1>9. ReadableInside'
  <2>1. \A i \in r .. writeIndex - 1 : i \in DOMAIN data
    BY <1>2 DEF BufInv, ReadableInside
  <2>2. \A i \in r + n .. writeIndex - 1 : i \in r .. writeIndex - 1
    BY <1>3, <1>5
  <2>3. r + n <= writeIndex
    BY <1>3, <1>5
  <2> QED
    BY <1>4, <2>1, <2>2, <2>3 DEF ReadableInside
<1>10. IndicesInOrder'
  <2>1. /\ kCheapPrepend <= r => kCheapPrepend <= r + n
        /\ r + n <= writeIndex
    BY <1>3, <1>5, Sizes
  <2> QED
    BY <1>2, <1>4, <2>1 DEF BufInv, IndicesInOrder
<1>11. use # "temp"
  <2>1. use = "temp" => Len(stream) = 0
    BY DEF BufInv, TempIsFresh
  <2> QED
    BY <1>2, <1>3, <2>1
<1>12. BufTypeOK' /\ Allocated' /\ TempIsFresh' /\ SafeUses'
  <2>1. r + n \in Nat
    BY <1>3
  <2> QED
    BY <1>4, <1>6, <1>11, <2>1 DEF BufInv, BufTypeOK, Allocated, TempIsFresh, SafeUses
<1> QED
  BY <1>8, <1>9, <1>10, <1>12 DEF BufInv

\* A temp buffer takes the bytes it was made for.  For fewer bytes than the prepend
\* area the free space wraps to more than enough, and the bytes fit; for more it
\* doubles first.
LEMMA AddOnceKeeps ==
  ASSUME BufInv, crash = "none", AddOnce
  PROVE  BufInv'
<1>1. PICK bytes \in Appends : Len(bytes) = size /\ appendBuffer(bytes)
  BY DEF AddOnce
<1>2. PICK n, k \in Nat : n = size /\ k = kCheapPrepend /\ k # 0
  BY Sizes DEF BufInv, BufTypeOK
<1>3. /\ bytes \in Seq(Nat) /\ Len(bytes) = n /\ size = n
      /\ use = "temp" /\ use' = "spent"
      /\ writeIndex = k /\ readIndex = k /\ stream = <<>> /\ Len(stream) = 0
      /\ n > 0 => DOMAIN data = 0 .. k + n - 1
      /\ Word \in Nat /\ k < Word
  BY <1>1, <1>2, Sizes DEF AddOnce, BufInv, TempIsFresh
<1>4. Writeable = IF n >= k THEN n - k ELSE n - k + Word
  BY <1>3 DEF Writeable, Minus
<1>5. ASSUME NEW b, b.wi = k, b.ri = k, b.size \in Nat, Write(b, bytes),
             \A i \in k .. k + n - 1 : i \in DOMAIN b.data
      PROVE  BufInv'
  <2>1. \A i \in 1 .. Len(stream) : b.data[b.ri + i - 1] = stream[i]
    BY <1>3
  <2>2. b.wi \in Nat /\ b.ri \in Nat /\ b.wi = b.ri + Len(stream)
    BY <1>3, <1>5
  <2>3. /\ crash' = crash /\ size' = b.size /\ readIndex' = k /\ writeIndex' = k + n
        /\ stream' \in Seq(Nat) /\ ReadableIsStream' /\ ReadableInside'
    BY <1>3, <1>5, <2>1, <2>2, WriteFits
  <2>4. BufTypeOK'
    BY <1>3, <1>5, <2>3 DEF BufTypeOK
  <2> QED
    BY <1>3, <2>3, <2>4 DEF BufInv, Allocated, TempIsFresh, IndicesInOrder, SafeUses
<1>6. CASE n <= Writeable
  <2>1. Write(Now, bytes)
    BY <1>1, <1>3, <1>4, <1>6 DEF appendBuffer
  <2>2. Now.wi = k /\ Now.ri = k /\ Now.size = n /\ Now.data = data
    BY <1>3 DEF Now
  <2>3. \A i \in k .. k + n - 1 : n > 0 /\ i \in 0 .. k + n - 1
    OBVIOUS
  <2> QED
    BY <1>3, <1>5, <2>1, <2>2, <2>3
<1>7. CASE ~(n <= Writeable)
  <2>1. n >= k /\ Writeable = n - k
    BY <1>3, <1>4, <1>7
  <2>2. DOMAIN data # {}
    <3>1. n > 0 /\ 0 \in 0 .. k + n - 1
      BY <1>2, <2>1
    <3> QED
      BY <1>3, <3>1
  <2>3. Writeable + readIndex < n + kCheapPrepend
    BY <1>2, <1>3, <2>1
  <2>4. Write(makeSpaceBuffer(n), bytes)
    BY <1>1, <1>3, <1>4, <1>7 DEF appendBuffer
  <2>5. Write(expandBuffer, bytes)
    BY <2>2, <2>3, <2>4 DEF makeSpaceBuffer
  <2>6. /\ expandBuffer.wi = k /\ expandBuffer.ri = k /\ expandBuffer.size = 2 * n
        /\ DOMAIN expandBuffer.data = 0 .. 2 * n - 1
    BY <1>3 DEF expandBuffer, Realloc, Now
  <2>7. 2 * n \in Nat /\ \A i \in k .. k + n - 1 : i \in 0 .. 2 * n - 1
    BY <2>1
  <2> QED
    BY <1>5, <2>5, <2>6, <2>7
<1> QED
  BY <1>6, <1>7

LEMMA NextBufInv == BufInv /\ [Next]_vars => BufInv'
<1> SUFFICES ASSUME BufInv, [Next]_vars PROVE BufInv'
  OBVIOUS
<1>1. CASE UNCHANGED vars
  BY <1>1 DEF vars, BufInv, BufTypeOK, Allocated, TempIsFresh, ReadableInside, IndicesInOrder,
              ReadableIsStream, SafeUses, Readable
<1> QED
  BY <1>1, FillKeeps, AddKeeps, AddOnceKeeps, PrependKeeps, TakeKeeps, ClearKeeps DEF Next
-----------------------------------------------------------------------------
\* The invariant of the buffers, for every size and content (buffer.c, session.c:47-84).
THEOREM BufferInvariant == Spec => []BufInv
<1> QED
  BY InitBufInv, NextBufInv, PTL DEF Spec

\* The indices of a session's buffers stay in order, and no subtraction of them
\* wraps (buffer.c:57-113, session.c:55-64).
THEOREM BufferIndicesInOrder == Spec => []IndicesInOrder
<1>1. BufInv => IndicesInOrder
  BY DEF BufInv
<1> QED
  BY <1>1, BufferInvariant, PTL

\* Growing and compacting keep the bytes and their order (buffer.c:57-103).
THEOREM BufferReadableIsStream == Spec => []ReadableIsStream
<1>1. BufInv => ReadableIsStream
  BY DEF BufInv
<1> QED
  BY <1>1, BufferInvariant, PTL

\* Receiving, and filling a buffer made for n bytes with n bytes, never write
\* outside the allocation (session.c:55-64, test.c:20-21).
THEOREM BufferSafeUses == Spec => []SafeUses
<1>1. BufInv => SafeUses
  BY DEF BufInv
<1> QED
  BY <1>1, BufferInvariant, PTL

\* An append overruns only when one doubling is not enough (buffer.c:57-81).
THEOREM BufferOverrunOnlyBeyondDoubling == Spec => OverrunOnlyBeyondDoubling
<1>1. BufInv /\ [Next]_vars
        => [\A bytes \in Appends : Add /\ appendBuffer(bytes) /\ crash' = "overrun"
                                     => writeIndex + Len(bytes) > 2 * size]_vars
  <2> SUFFICES ASSUME BufInv, Next, NEW bytes \in Appends, Add, appendBuffer(bytes),
                      crash' = "overrun"
               PROVE  writeIndex + Len(bytes) > 2 * size
    OBVIOUS
  <2> QED
    BY AppendOutcome DEF Next, Add
<1> QED
  BY <1>1, BufferInvariant, PTL DEF Spec, OverrunOnlyBeyondDoubling
=============================================================================
