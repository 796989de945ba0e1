-------------------------- MODULE SessionOutput_proofs --------------------------
(***************************************************************************)
(* What becomes of the bytes written to a session, for any number of       *)
(* threads, any sizes of the queue and of the socket's room.               *)
(***************************************************************************)
EXTENDS SessionOutput, SequenceTheorems, TLAPS

\* No byte is twice in s.
Distinct(s) == \A i, j \in DOMAIN s : s[i] = s[j] => i = j

-----------------------------------------------------------------------------
(* Sequences and the bytes in them *)

LEMMA SetOfSeq ==
  ASSUME NEW S, NEW s \in Seq(S)
  PROVE  /\ ToSet(s) \subseteq S
         /\ \A b : b \in ToSet(s) <=> \E i \in DOMAIN s : s[i] = b
<1>1. DOMAIN s = 1 .. Len(s) /\ \A i \in 1 .. Len(s) : s[i] \in S
  BY LenProperties, ElementOfSeq
<1> QED
  BY <1>1 DEF ToSet

LEMMA SetOfEmpty == ToSet(<<>>) = {} /\ Distinct(<<>>)
BY DEF ToSet, Distinct

LEMMA ConcatElements ==
  ASSUME NEW S, NEW s \in Seq(S), NEW t \in Seq(S)
  PROVE  /\ s \o t \in Seq(S)
         /\ \A i \in DOMAIN s : i \in DOMAIN (s \o t) /\ (s \o t)[i] = s[i]
         /\ \A j \in DOMAIN t : /\ Len(s) + j \in DOMAIN (s \o t)
                                /\ (s \o t)[Len(s) + j] = t[j]
         /\ \A k \in DOMAIN (s \o t) : \/ k \in DOMAIN s
                                       \/ k - Len(s) \in DOMAIN t /\ k = Len(s) + (k - Len(s))
<1> DEFINE u == s \o t
           m == Len(s)
           n == Len(t)
<1>1. m \in Nat /\ n \in Nat /\ DOMAIN s = 1 .. m /\ DOMAIN t = 1 .. n
  BY LenProperties
<1>2. u \in Seq(S) /\ DOMAIN u = 1 .. m + n
      /\ \A i \in 1 .. m + n : u[i] = IF i <= m THEN s[i] ELSE t[i - m]
  <2>1. u \in Seq(S) /\ Len(u) = m + n
        /\ \A i \in 1 .. m + n : u[i] = IF i <= m THEN s[i] ELSE t[i - m]
    BY ConcatProperties
  <2>2. DOMAIN u = 1 .. Len(u)
    BY <2>1, LenProperties
  <2> QED
    BY <2>1, <2>2
<1> HIDE DEF u, m, n
<1>3. \A i \in DOMAIN s : i \in DOMAIN u /\ u[i] = s[i]
  BY <1>1, <1>2
<1>4. ASSUME NEW j \in DOMAIN t PROVE m + j \in DOMAIN u /\ u[m + j] = t[j]
  <2>1. j \in 1 .. n /\ m + j \in 1 .. m + n /\ ~(m + j <= m) /\ (m + j) - m = j
    BY <1>1
  <2> QED
    BY <1>2, <2>1
<1>5. \A k \in DOMAIN u : k \in DOMAIN s \/ (k - m \in DOMAIN t /\ k = m + (k - m))
  BY <1>1, <1>2
<1> QED
  BY <1>2, <1>3, <1>4, <1>5 DEF u, m

LEMMA ConcatSet ==
  ASSUME NEW S, NEW s \in Seq(S), NEW t \in Seq(S)
  PROVE  ToSet(s \o t) = ToSet(s) \cup ToSet(t)
<1>1. s \o t \in Seq(S)
  BY ConcatElements
<1>2. ASSUME NEW b \in ToSet(s \o t) PROVE b \in ToSet(s) \cup ToSet(t)
  <2>1. PICK k \in DOMAIN (s \o t) : (s \o t)[k] = b
    BY <1>1, SetOfSeq
  <2>2. CASE k \in DOMAIN s
    BY <2>1, <2>2, ConcatElements, SetOfSeq
  <2>3. CASE k - Len(s) \in DOMAIN t /\ k = Len(s) + (k - Len(s))
    <3>1. (s \o t)[k] = t[k - Len(s)]
      BY <2>3, ConcatElements
    <3> QED
      BY <2>1, <2>3, <3>1, SetOfSeq
  <2> QED
    BY <2>1, <2>2, <2>3, ConcatElements
<1>3. ASSUME NEW b \in ToSet(s) PROVE b \in ToSet(s \o t)
  <2>1. PICK i \in DOMAIN s : s[i] = b
    BY SetOfSeq
  <2>2. i \in DOMAIN (s \o t) /\ (s \o t)[i] = b
    BY <2>1, ConcatElements
  <2> QED
    BY <2>2 DEF ToSet
<1>4. ASSUME NEW b \in ToSet(t) PROVE b \in ToSet(s \o t)
  <2>1. PICK i \in DOMAIN t : t[i] = b
    BY SetOfSeq
  <2>2. Len(s) + i \in DOMAIN (s \o t) /\ (s \o t)[Len(s) + i] = b
    BY <2>1, ConcatElements
  <2> QED
    BY <2>2 DEF ToSet
<1> QED
  BY <1>2, <1>3, <1>4

LEMMA ConcatDistinct ==
  ASSUME NEW S, NEW s \in Seq(S), NEW t \in Seq(S)
  PROVE  Distinct(s \o t) <=> Distinct(s) /\ Distinct(t) /\ ToSet(s) \cap ToSet(t) = {}
<1> DEFINE u == s \o t
           m == Len(s)
<1>1. m \in Nat /\ DOMAIN s \subseteq 1 .. m /\ DOMAIN t \subseteq Nat \ {0}
      /\ DOMAIN t \subseteq Int
  BY LenProperties
<1>2. /\ \A i \in DOMAIN s : i \in DOMAIN u /\ u[i] = s[i]
      /\ \A j \in DOMAIN t : m + j \in DOMAIN u /\ u[m + j] = t[j]
      /\ \A k \in DOMAIN u : k \in DOMAIN s \/ (k - m \in DOMAIN t /\ k = m + (k - m))
  BY ConcatElements
<1>3. /\ \A b : b \in ToSet(s) <=> \E i \in DOMAIN s : s[i] = b
      /\ \A b : b \in ToSet(t) <=> \E i \in DOMAIN t : t[i] = b
  BY SetOfSeq
<1> HIDE DEF u, m
<1>4. ASSUME Distinct(u) PROVE Distinct(s) /\ Distinct(t) /\ ToSet(s) \cap ToSet(t) = {}
  <2>1. Distinct(s)
    BY <1>2, <1>4 DEF Distinct
  <2>2. Distinct(t)
    <3> SUFFICES ASSUME NEW i \in DOMAIN t, NEW j \in DOMAIN t, t[i] = t[j] PROVE i = j
      BY DEF Distinct
    <3>1. m + i = m + j
      BY <1>2, <1>4 DEF Distinct
    <3>2. i \in Int /\ j \in Int
      BY <1>1
    <3> QED
      BY <1>1, <3>1, <3>2
  <2>3. ASSUME NEW b \in ToSet(s), b \in ToSet(t) PROVE FALSE
    <3>1. PICK i \in DOMAIN s : s[i] = b
      BY <1>3
    <3>2. PICK j \in DOMAIN t : t[j] = b
      BY <1>3, <2>3
    <3>3. i = m + j
      BY <1>2, <1>4, <3>1, <3>2 DEF Distinct
    <3>4. i \in 1 .. m /\ j \in Nat /\ j # 0
      BY <1>1
    <3> QED
      BY <1>1, <3>3, <3>4
  <2> QED
    BY <2>1, <2>2, <2>3
<1>5. ASSUME Distinct(s), Distinct(t), ToSet(s) \cap ToSet(t) = {} PROVE Distinct(u)
  <2> SUFFICES ASSUME NEW i \in DOMAIN u, NEW j \in DOMAIN u, u[i] = u[j] PROVE i = j
    BY DEF Distinct
  <2>1. CASE i \in DOMAIN s /\ j \in DOMAIN s
    BY <1>2, <1>5, <2>1 DEF Distinct
  <2>2. CASE i - m \in DOMAIN t /\ i = m + (i - m) /\ j - m \in DOMAIN t /\ j = m + (j - m)
    <3>1. u[i] = t[i - m] /\ u[j] = t[j - m]
      BY <1>2, <2>2
    <3>2. i - m = j - m
      BY <1>5, <2>2, <3>1 DEF Distinct
    <3> QED
      BY <2>2, <3>2
  <2>3. CASE i \in DOMAIN s /\ j - m \in DOMAIN t /\ j = m + (j - m)
    <3>1. u[i] \in ToSet(s) /\ u[j] \in ToSet(t)
      BY <1>2, <1>3, <2>3
    <3> QED
      BY <1>5, <3>1
  <2>4. CASE j \in DOMAIN s /\ i - m \in DOMAIN t /\ i = m + (i - m)
    <3>1. u[j] \in ToSet(s) /\ u[i] \in ToSet(t)
      BY <1>2, <1>3, <2>4
    <3> QED
      BY <1>5, <3>1
  <2> QED
    BY <1>2, <2>1, <2>2, <2>3, <2>4
<1> QED
  BY <1>4, <1>5 DEF u

\* A buffer sent in two parts.
LEMMA Split ==
  ASSUME NEW S, NEW s \in Seq(S), NEW n \in 1 .. Len(s)
  PROVE  /\ SubSeq(s, 1, n) \in Seq(S) /\ SubSeq(s, n + 1, Len(s)) \in Seq(S)
         /\ SubSeq(s, 1, n) \o SubSeq(s, n + 1, Len(s)) = s
<1>1. Len(s) \in Nat /\ \A i \in 1 .. Len(s) : s[i] \in S
  BY LenProperties, ElementOfSeq
<1>2. SubSeq(s, 1, n) \in Seq(S)
  BY <1>1, SubSeqProperties
<1>3. SubSeq(s, n + 1, Len(s)) \in Seq(S)
  BY <1>1, SubSeqProperties
<1>4. 1 \in 1 .. Len(s) + 1 /\ n \in 1 - 1 .. Len(s) /\ Len(s) \in n .. Len(s)
  BY <1>1
<1>5. SubSeq(s, 1, n) \o SubSeq(s, n + 1, Len(s)) = SubSeq(s, 1, Len(s))
  BY <1>4, ConcatAdjacentSubSeq
<1> QED
  BY <1>2, <1>3, <1>5, SubSeqFull
-----------------------------------------------------------------------------
(* Several buffers at once *)

LEMMA ApartMeans ==
  ASSUME NEW f
  PROVE  Apart(f) <=> /\ \A c \in DOMAIN f : Distinct(f[c])
                      /\ \A c, d \in DOMAIN f : c # d => ToSet(f[c]) \cap ToSet(f[d]) = {}
<1>1. ASSUME Apart(f)
      PROVE  /\ \A c \in DOMAIN f : Distinct(f[c])
             /\ \A c, d \in DOMAIN f : c # d => ToSet(f[c]) \cap ToSet(f[d]) = {}
  <2>1. \A c \in DOMAIN f : Distinct(f[c])
    BY <1>1 DEF Apart, Distinct
  <2>2. ASSUME NEW c \in DOMAIN f, NEW d \in DOMAIN f, c # d,
               NEW b \in ToSet(f[c]), b \in ToSet(f[d])
        PROVE  FALSE
    <3>1. PICK i \in DOMAIN f[c] : f[c][i] = b
      BY DEF ToSet
    <3>2. PICK j \in DOMAIN f[d] : f[d][j] = b
      BY <2>2 DEF ToSet
    <3> QED
      BY <1>1, <2>2, <3>1, <3>2 DEF Apart
  <2> QED
    BY <2>1, <2>2
<1>2. ASSUME \A c \in DOMAIN f : Distinct(f[c]),
             \A c, d \in DOMAIN f : c # d => ToSet(f[c]) \cap ToSet(f[d]) = {}
      PROVE  Apart(f)
  <2> SUFFICES ASSUME NEW c \in DOMAIN f, NEW d \in DOMAIN f,
                      NEW i \in DOMAIN f[c], NEW j \in DOMAIN f[d], f[c][i] = f[d][j]
               PROVE  c = d /\ i = j
    BY DEF Apart
  <2>1. f[c][i] \in ToSet(f[c]) /\ f[d][j] \in ToSet(f[d])
    BY DEF ToSet
  <2>2. c = d
    BY <1>2, <2>1
  <2>3. i = j
    BY <1>2, <2>2 DEF Distinct
  <2> QED
    BY <2>2, <2>3
<1> QED
  BY <1>1, <1>2

LEMMA BytesOfMember ==
  ASSUME NEW f, NEW b
  PROVE  b \in BytesOf(f) <=> \E c \in DOMAIN f : b \in ToSet(f[c])
BY DEF BytesOf

\* g is f with a buffer put at c, which was empty or not there.
Fills(f, g, c) ==
  /\ DOMAIN g = DOMAIN f \cup {c}
  /\ \A d \in DOMAIN f \ {c} : g[d] = f[d]
  /\ c \in DOMAIN f => f[c] = <<>>

LEMMA Filled ==
  ASSUME NEW f, NEW g, NEW c, Fills(f, g, c),
         Apart(f), Distinct(g[c]), ToSet(g[c]) \cap BytesOf(f) = {}
  PROVE  Apart(g) /\ BytesOf(g) = BytesOf(f) \cup ToSet(g[c])
<1> USE DEF Fills
<1>1. \A d \in DOMAIN g : d # c => d \in DOMAIN f /\ g[d] = f[d] /\ Distinct(g[d])
  BY ApartMeans
<1>2. \A d \in DOMAIN g : d # c => ToSet(g[d]) \cap ToSet(g[c]) = {}
  BY <1>1, BytesOfMember
<1>3. \A d, e \in DOMAIN g : d # c /\ e # c /\ d # e => ToSet(g[d]) \cap ToSet(g[e]) = {}
  BY <1>1, ApartMeans
<1>4. Apart(g)
  BY <1>1, <1>2, <1>3, ApartMeans
<1>5. ASSUME NEW b PROVE b \in BytesOf(g) <=> b \in BytesOf(f) \cup ToSet(g[c])
  <2>1. b \in BytesOf(g) <=> \E d \in DOMAIN g : b \in ToSet(g[d])
    BY BytesOfMember
  <2>2. b \in BytesOf(f) <=> \E d \in DOMAIN f : b \in ToSet(f[d])
    BY BytesOfMember
  <2>3. \A d \in DOMAIN f : b \in ToSet(f[d]) => d # c
    BY SetOfEmpty
  <2> QED
    BY <1>1, <2>1, <2>2, <2>3
<1> QED
  BY <1>4, <1>5

\* One buffer emptied.
LEMMA Emptied ==
  ASSUME NEW f, NEW g, NEW c \in DOMAIN f, DOMAIN g = DOMAIN f,
         \A d \in DOMAIN f \ {c} : g[d] = f[d], g[c] = <<>>, Apart(f)
  PROVE  /\ Apart(g) /\ Distinct(f[c])
         /\ BytesOf(f) = BytesOf(g) \cup ToSet(f[c])
         /\ BytesOf(g) \cap ToSet(f[c]) = {}
<1>1. ToSet(g[c]) = {} /\ Distinct(g[c])
  BY SetOfEmpty
<1>2. \A d \in DOMAIN f : Distinct(f[d])
      /\ \A e \in DOMAIN f : d # e => ToSet(f[d]) \cap ToSet(f[e]) = {}
  BY ApartMeans
<1>3. \A d \in DOMAIN g : Distinct(g[d])
  BY <1>1, <1>2
<1>4. \A d, e \in DOMAIN g : d # e => ToSet(g[d]) \cap ToSet(g[e]) = {}
  <2> SUFFICES ASSUME NEW d \in DOMAIN g, NEW e \in DOMAIN g, d # e
               PROVE  ToSet(g[d]) \cap ToSet(g[e]) = {}
    OBVIOUS
  <2>1. CASE d = c \/ e = c
    BY <1>1, <2>1
  <2>2. CASE d # c /\ e # c
    <3>1. g[d] = f[d] /\ g[e] = f[e]
      BY <2>2
    <3> QED
      BY <1>2, <3>1
  <2> QED
    BY <2>1, <2>2
<1>5. Apart(g)
  BY <1>3, <1>4, ApartMeans
<1>6. ASSUME NEW b
      PROVE  /\ b \in BytesOf(f) <=> b \in BytesOf(g) \cup ToSet(f[c])
             /\ ~(b \in BytesOf(g) /\ b \in ToSet(f[c]))
  <2>1. b \in BytesOf(g) <=> \E d \in DOMAIN g : b \in ToSet(g[d])
    BY BytesOfMember
  <2>2. b \in BytesOf(f) <=> \E d \in DOMAIN f : b \in ToSet(f[d])
    BY BytesOfMember
  <2>3. b \in BytesOf(g) <=> \E d \in DOMAIN f \ {c} : b \in ToSet(f[d])
    BY <1>1, <2>1
  <2> QED
    BY <1>2, <2>2, <2>3
<1> QED
  BY <1>2, <1>5, <1>6

\* The first buffer of a sequence of them taken away.
LEMMA Taken ==
  ASSUME NEW f, NEW g, NEW n \in Nat, DOMAIN f = 1 .. n + 1, DOMAIN g = 1 .. n,
         \A k \in 1 .. n : g[k] = f[k + 1], Apart(f)
  PROVE  /\ Apart(g) /\ Distinct(f[1])
         /\ BytesOf(f) = BytesOf(g) \cup ToSet(f[1])
         /\ BytesOf(g) \cap ToSet(f[1]) = {}
<1>1. /\ \A d \in 1 .. n + 1 : Distinct(f[d])
      /\ \A d, e \in 1 .. n + 1 : d # e => ToSet(f[d]) \cap ToSet(f[e]) = {}
  BY ApartMeans
<1>2. \A k \in 1 .. n : k + 1 \in 1 .. n + 1 /\ k + 1 # 1
  OBVIOUS
<1>3. \A d \in DOMAIN g : Distinct(g[d])
  BY <1>1, <1>2
<1>4. \A d, e \in DOMAIN g : d # e => ToSet(g[d]) \cap ToSet(g[e]) = {}
  <2> SUFFICES ASSUME NEW d \in 1 .. n, NEW e \in 1 .. n, d # e
               PROVE  ToSet(g[d]) \cap ToSet(g[e]) = {}
    OBVIOUS
  <2>1. g[d] = f[d + 1] /\ g[e] = f[e + 1] /\ d + 1 # e + 1
    OBVIOUS
  <2> QED
    BY <1>1, <1>2, <2>1
<1>5. Apart(g)
  BY <1>3, <1>4, ApartMeans
<1>6. 1 \in 1 .. n + 1
  OBVIOUS
<1>7. ASSUME NEW b
      PROVE  /\ b \in BytesOf(f) <=> b \in BytesOf(g) \cup ToSet(f[1])
             /\ ~(b \in BytesOf(g) /\ b \in ToSet(f[1]))
  <2>1. b \in BytesOf(g) <=> \E d \in 1 .. n : b \in ToSet(f[d + 1])
    BY BytesOfMember
  <2>2. b \in BytesOf(f) <=> \E d \in 1 .. n + 1 : b \in ToSet(f[d])
    BY BytesOfMember
  <2>3. \A d \in 1 .. n + 1 : d # 1 => d - 1 \in 1 .. n /\ (d - 1) + 1 = d
    OBVIOUS
  <2>4. b \in BytesOf(f) => b \in BytesOf(g) \cup ToSet(f[1])
    BY <2>1, <2>2, <2>3
  <2>5. b \in BytesOf(g) => b \in BytesOf(f) /\ b \notin ToSet(f[1])
    <3> SUFFICES ASSUME b \in BytesOf(g) PROVE b \in BytesOf(f) /\ b \notin ToSet(f[1])
      OBVIOUS
    <3>1. PICK d \in 1 .. n : b \in ToSet(f[d + 1])
      BY <2>1
    <3> QED
      BY <1>1, <1>2, <1>6, <2>2, <3>1
  <2>6. b \in ToSet(f[1]) => b \in BytesOf(f)
    BY <1>6, <2>2
  <2> QED
    BY <2>4, <2>5, <2>6
<1> QED
  BY <1>1, <1>5, <1>6, <1>7
-----------------------------------------------------------------------------
(* Types, and what is empty when *)

\* Between two writes the loop holds no bytes, nor does a sender that is not about
\* to queue some, nor a message that removes the session.
EmptyBetween ==
  /\ lpc = "idle" => wbuf = <<>>
  /\ \A t \in Senders : tpc[t] # "send" => tbuf[t] = <<>>
  /\ \A k \in DOMAIN queue : queue[k].type = "REMOVE" => queue[k].buf = <<>>

TypeInv == OutputTypeOK /\ EmptyBetween

LEMMA NewBufferIs ==
  ASSUME OutputTypeOK, NEW t \in Writers, NEW n \in Nat, n # 0, Makes(t, n)
  PROVE  /\ NewBuffer(t, n) \in Seq(Bytes)
         /\ made' \in [Writers -> 0 .. MaxBytes]
         /\ Distinct(NewBuffer(t, n))
         /\ ToSet(NewBuffer(t, n)) \cap Given = {}
         /\ Given' = Given \cup ToSet(NewBuffer(t, n))
<1> DEFINE m == made[t]
           nb == NewBuffer(t, n)
<1>0. MaxBytes \in Nat
  BY SessionOutputAssumption
<1>1. m \in Nat /\ made \in [Writers -> 0 .. MaxBytes] /\ m + n <= MaxBytes
      /\ made' = [made EXCEPT ![t] = m + n]
  BY <1>0 DEF OutputTypeOK, Makes
<1>2. DOMAIN nb = 1 .. n /\ \A i \in 1 .. n : nb[i] = <<t, m + i>>
  BY DEF NewBuffer
<1>3. \A i \in 1 .. n : m + i \in 1 .. MaxBytes /\ <<t, m + i>> \in Bytes
  BY <1>0, <1>1 DEF Bytes
<1>4. nb \in Seq(Bytes)
  BY <1>3 DEF NewBuffer
<1> HIDE DEF nb, m
<1>5. made' \in [Writers -> 0 .. MaxBytes]
  BY <1>0, <1>1
<1>6. Distinct(nb)
  BY <1>1, <1>2 DEF Distinct
<1>7. \A b \in Bytes : /\ b[1] \in Writers /\ b[2] \in 1 .. MaxBytes /\ b = <<b[1], b[2]>>
  BY DEF Bytes
<1>8. \A b : b \in ToSet(nb) <=> \E i \in 1 .. n : b = <<t, m + i>>
  BY <1>2 DEF ToSet
<1>9. ToSet(nb) \cap Given = {}
  <2> SUFFICES ASSUME NEW i \in 1 .. n, <<t, m + i>> \in Given PROVE FALSE
    BY <1>8
  <2>1. m + i <= made[t]
    BY DEF Given
  <2> QED
    BY <1>1, <2>1 DEF m
<1>10. ASSUME NEW b \in Bytes PROVE b \in Given' <=> b \in Given \/ b \in ToSet(nb)
  <2>1. b \in Given' <=> b[2] <= made'[b[1]]
    BY DEF Given
  <2>2. b \in Given <=> b[2] <= made[b[1]]
    BY DEF Given
  <2>3. CASE b[1] = t
    <3>1. made'[b[1]] = m + n /\ made[b[1]] = m
      BY <1>1, <1>7, <2>3 DEF m
    <3>2. b \in ToSet(nb) <=> \E i \in 1 .. n : b[2] = m + i
      BY <1>7, <1>8, <2>3
    <3>3. (\E i \in 1 .. n : b[2] = m + i) <=> m < b[2] /\ b[2] <= m + n
      <4>1. b[2] \in Int
        BY <1>7
      <4>2. m < b[2] /\ b[2] <= m + n => b[2] - m \in 1 .. n /\ b[2] = m + (b[2] - m)
        BY <1>1, <4>1
      <4> QED
        BY <1>1, <4>1, <4>2
    <3>4. b[2] \in Int
      BY <1>7
    <3> QED
      BY <1>1, <2>1, <2>2, <3>1, <3>2, <3>3, <3>4
  <2>4. CASE b[1] # t
    <3>1. made'[b[1]] = made[b[1]]
      BY <1>1, <1>7, <2>4
    <3>2. b \notin ToSet(nb)
      BY <1>8, <2>4
    <3> QED
      BY <2>1, <2>2, <3>1, <3>2
  <2> QED
    BY <2>3, <2>4
<1>11. Given \subseteq Bytes /\ Given' \subseteq Bytes /\ ToSet(nb) \subseteq Bytes
  BY <1>4, SetOfSeq DEF Given, Bytes
<1> QED
  BY <1>4, <1>5, <1>6, <1>9, <1>10, <1>11 DEF nb

LEMMA PushType ==
  ASSUME OutputTypeOK, NEW m \in Messages, pushMsgqueue(m)
  PROVE  /\ queue' \in Seq(Messages) /\ Len(queue') <= QueueCap /\ lost' \subseteq Bytes
         /\ \/ queue' = queue
            \/ /\ DOMAIN queue' = 1 .. Len(queue) + 1 /\ queue'[Len(queue) + 1] = m
               /\ \A k \in DOMAIN queue : queue'[k] = queue[k]
<1>0. QueueCap \in Nat
  BY SessionOutputAssumption
<1>1. queue \in Seq(Messages) /\ Len(queue) \in Nat /\ DOMAIN queue = 1 .. Len(queue)
      /\ Len(queue) <= QueueCap /\ lost \subseteq Bytes
  BY LenProperties DEF OutputTypeOK
<1>2. CASE Len(queue) < QueueCap
  <2> DEFINE q == Append(queue, m)
  <2>1. queue' = q /\ lost' = lost
    BY <1>2 DEF pushMsgqueue
  <2>2. q \in Seq(Messages) /\ Len(q) = Len(queue) + 1
        /\ (\A k \in 1 .. Len(queue) : q[k] = queue[k]) /\ q[Len(queue) + 1] = m
    BY <1>1, AppendProperties
  <2>3. DOMAIN q = 1 .. Len(q)
    BY <2>2, LenProperties
  <2> HIDE DEF q
  <2>4. Len(q) <= QueueCap
    BY <1>0, <1>1, <1>2, <2>2
  <2> QED
    BY <1>1, <2>1, <2>2, <2>3, <2>4
<1>3. CASE ~(Len(queue) < QueueCap)
  <2>1. queue' = queue /\ lost' = lost \cup ToSet(m.buf)
    BY <1>3 DEF pushMsgqueue
  <2>2. ToSet(m.buf) \subseteq Bytes
    BY SetOfSeq DEF Messages
  <2> QED
    BY <1>1, <2>1, <2>2
<1> QED
  BY <1>2, <1>3

LEMMA PopType ==
  ASSUME OutputTypeOK, queue # <<>>
  PROVE  /\ Head(queue) \in Messages /\ Head(queue) = queue[1] /\ 1 \in DOMAIN queue
         /\ Tail(queue) \in Seq(Messages) /\ Len(Tail(queue)) <= QueueCap
         /\ Len(queue) \in Nat /\ Len(queue) # 0 /\ Len(Tail(queue)) = Len(queue) - 1
         /\ DOMAIN queue = 1 .. Len(queue) /\ DOMAIN Tail(queue) = 1 .. Len(queue) - 1
         /\ \A k \in 1 .. Len(queue) - 1 : k + 1 \in DOMAIN queue /\ Tail(queue)[k] = queue[k + 1]
<1>0. QueueCap \in Nat
  BY SessionOutputAssumption
<1>1. queue \in Seq(Messages) /\ Len(queue) <= QueueCap
  BY DEF OutputTypeOK
<1>2. Len(queue) \in Nat /\ DOMAIN queue = 1 .. Len(queue)
  BY <1>1, LenProperties
<1>3. Len(queue) # 0
  <2>1. Len(queue) \in Nat \ {0}
    BY <1>1, EmptySeq
  <2> QED
    BY <2>1, Zenon
<1>4. /\ Head(queue) \in Messages /\ Tail(queue) \in Seq(Messages)
      /\ Len(Tail(queue)) = Len(queue) - 1
      /\ \A k \in 1 .. Len(Tail(queue)) : Tail(queue)[k] = queue[k + 1]
  BY <1>1, HeadTailProperties
<1>5. DOMAIN Tail(queue) = 1 .. Len(Tail(queue))
  BY <1>4, LenProperties
<1>6. Head(queue) = queue[1]
  BY <1>1, <1>3
<1> DEFINE n == Len(queue)
           m == Len(Tail(queue))
<1> HIDE DEF n, m
<1>7. n \in Nat /\ n # 0 /\ m = n - 1 /\ n <= QueueCap
  BY <1>1, <1>2, <1>3, <1>4, Zenon DEF n, m
<1>8. 1 \in 1 .. n /\ m <= QueueCap /\ \A k \in 1 .. m : k + 1 \in 1 .. n
  BY <1>0, <1>7
<1> QED
  BY <1>2, <1>4, <1>5, <1>6, <1>7, <1>8, Zenon DEF n, m

LEMMA InitTypeInv == Init => TypeInv
<1> SUFFICES ASSUME Init PROVE TypeInv
  OBVIOUS
<1> USE SessionOutputAssumption
<1>1. <<>> \in Seq(Bytes) /\ <<>> \in Seq(Messages) /\ Len(<<>>) = 0
  BY EmptySeq
<1>2. /\ tbuf \in [Senders -> Seq(Bytes)] /\ tpc \in [Senders -> {"idle", "send", "remove"}]
      /\ made \in [Writers -> 0 .. MaxBytes] /\ lost \subseteq Bytes
  BY <1>1 DEF Init
<1>3. failed \in BOOLEAN /\ raced \in BOOLEAN /\ late \in BOOLEAN /\ crash \in BOOLEAN
  BY Zenon DEF Init
<1>4. Len(queue) <= QueueCap /\ space \in 0 .. Room
  BY <1>1 DEF Init
<1>5. OutputTypeOK
  BY <1>1, <1>2, <1>3, <1>4 DEF Init, OutputTypeOK
<1>6. EmptyBetween
  BY DEF Init, EmptyBetween
<1> QED
  BY <1>5, <1>6 DEF TypeInv

\* writeSession hands its buffer on, or gives it up.
LEMMA writeSessionType ==
  ASSUME OutputTypeOK, NEW buf \in Seq(Bytes), writeSession(buf), lpc = "idle", wbuf = <<>>
  PROVE  /\ wbuf' \in Seq(Bytes) /\ handed' \in Seq(Bytes) /\ lost' \subseteq Bytes
         /\ lpc' \in {"idle", "write"} /\ (lpc' = "idle" => wbuf' = <<>>)
<1>1. ToSet(buf) \subseteq Bytes
  BY SetOfSeq
<1>2. handed \o buf \in Seq(Bytes)
  BY ConcatElements DEF OutputTypeOK
<1> QED
  BY <1>1, <1>2 DEF writeSession, OutputTypeOK

LEMMA NextTypeInv == TypeInv /\ [Next]_vars => TypeInv'
<1> SUFFICES ASSUME TypeInv, [Next]_vars PROVE TypeInv'
  OBVIOUS
<1> USE DEF vars, sessVars, loopVars, history
<1>0. OutputTypeOK
  BY DEF TypeInv
<1>1. CASE sendSome
  <2>1. PICK n \in 1 .. Len(wbuf) :
          /\ n <= space /\ space' = space - n
          /\ sent' = sent \o SubSeq(wbuf, 1, n) /\ wbuf' = SubSeq(wbuf, n + 1, Len(wbuf))
    BY <1>1 DEF sendSome
  <2>2. wbuf \in Seq(Bytes) /\ sent \in Seq(Bytes) /\ space \in 0 .. Room /\ Room \in Nat
        /\ Len(wbuf) \in Nat
    BY <1>0, LenProperties, SessionOutputAssumption DEF OutputTypeOK
  <2>3. SubSeq(wbuf, 1, n) \in Seq(Bytes) /\ wbuf' \in Seq(Bytes)
    BY <2>1, <2>2, Split
  <2>4. sent' \in Seq(Bytes)
    BY <2>1, <2>2, <2>3, ConcatElements
  <2>5. space' \in 0 .. Room
    <3>1. n \in Nat
      BY <2>2
    <3> QED
      BY <2>1, <2>2, <3>1
  <2>6. /\ lpc = "write"
        /\ UNCHANGED <<sessVars, queue, lpc, tpc, tbuf, history, crash>>
    BY <1>1 DEF sendSome
  <2> QED
    BY <2>3, <2>4, <2>5, <2>6 DEF TypeInv, OutputTypeOK, EmptyBetween
<1>2. CASE sendError
  <2>1. ToSet(wbuf) \subseteq Bytes /\ <<>> \in Seq(Bytes)
    BY <1>0, SetOfSeq, EmptySeq DEF OutputTypeOK
  <2>2. /\ lost' = lost \cup ToSet(wbuf) /\ wbuf' = <<>> /\ lpc' = "idle" /\ failed' = TRUE
        /\ UNCHANGED <<sessVars, queue, tpc, tbuf, space, sent, handed, made, raced, late, crash>>
    BY <1>2 DEF sendError
  <2> QED
    BY <2>1, <2>2 DEF TypeInv, OutputTypeOK, EmptyBetween
<1>3. CASE storeRest
  <2>1. sendBuffer \o wbuf \in Seq(Bytes) /\ <<>> \in Seq(Bytes)
    BY <1>0, ConcatElements, EmptySeq DEF OutputTypeOK
  <2>2. /\ sendBuffer' = sendBuffer \o wbuf /\ mask' = mask \cap {"WRITABLE"}
        /\ watched' = watched \cup mask' /\ wbuf' = <<>> /\ lpc' = "idle"
        /\ UNCHANGED <<state, queue, tpc, tbuf, space, sent, history, crash>>
    BY <1>3 DEF storeRest
  <2> QED
    BY <2>1, <2>2 DEF TypeInv, OutputTypeOK, EmptyBetween
<1>4. CASE writeComplete
  BY <1>4 DEF writeComplete, TypeInv, OutputTypeOK, EmptyBetween
<1>5. CASE drainSend
  <2>1. /\ lpc = "idle" /\ wbuf = <<>> /\ queue # <<>> /\ queue' = Tail(queue)
        /\ UNCHANGED <<sessVars, tpc, tbuf, space, sent, made, failed, raced, late>>
    BY <1>5 DEF drainSend, LoopIdle, TypeInv, EmptyBetween
  <2>2. /\ Head(queue) \in Messages /\ Tail(queue) \in Seq(Messages) /\ Len(Tail(queue)) <= QueueCap
        /\ \A k \in DOMAIN Tail(queue) : k + 1 \in DOMAIN queue /\ Tail(queue)[k] = queue[k + 1]
    BY <1>0, <2>1, PopType
  <2>3. Head(queue).buf \in Seq(Bytes)
    BY <2>2 DEF Messages
  <2>4. CASE state = "freed"
    <3>1. crash' = TRUE /\ UNCHANGED <<loopVars, handed, lost>>
      BY <1>5, <2>4 DEF drainSend
    <3> QED
      BY <2>1, <2>2, <3>1 DEF TypeInv, OutputTypeOK, EmptyBetween
  <2>5. CASE state # "freed"
    <3>1. writeSession(Head(queue).buf) /\ UNCHANGED crash
      BY <1>5, <2>5 DEF drainSend
    <3>2. /\ wbuf' \in Seq(Bytes) /\ handed' \in Seq(Bytes) /\ lost' \subseteq Bytes
          /\ lpc' \in {"idle", "write"} /\ (lpc' = "idle" => wbuf' = <<>>)
      BY <1>0, <2>1, <2>3, <3>1, writeSessionType
    <3> QED
      BY <2>1, <2>2, <3>1, <3>2 DEF TypeInv, OutputTypeOK, EmptyBetween
  <2> QED
    BY <2>4, <2>5
<1>6. CASE drainRemove
  <2>1. /\ queue # <<>> /\ queue' = Tail(queue)
        /\ UNCHANGED <<mask, sendBuffer, loopVars, tpc, tbuf, space, sent, history>>
        /\ state' \in {state, "freed"} /\ watched' \subseteq watched
    BY <1>6 DEF drainRemove, LoopIdle
  <2>2. crash' \in BOOLEAN
    <3>1. crash' = TRUE \/ crash' = crash
      BY <1>6, Zenon DEF drainRemove
    <3> QED
      BY <1>0, <3>1 DEF OutputTypeOK
  <2>3. /\ Tail(queue) \in Seq(Messages) /\ Len(Tail(queue)) <= QueueCap
        /\ \A k \in DOMAIN Tail(queue) : k + 1 \in DOMAIN queue /\ Tail(queue)[k] = queue[k + 1]
    BY <1>0, <2>1, PopType
  <2> QED
    BY <2>1, <2>2, <2>3 DEF TypeInv, OutputTypeOK, EmptyBetween
<1>7. CASE removeHere
  <2>1. raced' \in BOOLEAN
    BY <1>7, Zenon DEF removeHere
  <2>2. /\ state' = "freed" /\ watched' = watched \ mask
        /\ UNCHANGED <<mask, sendBuffer, queue, loopVars, tpc, tbuf, space, sent,
                       handed, made, lost, failed, late, crash>>
    BY <1>7 DEF removeHere
  <2> QED
    BY <2>1, <2>2 DEF TypeInv, OutputTypeOK, EmptyBetween
<1>8. ASSUME NEW n \in 1 .. MaxLen, writeHere(n) PROVE TypeInv'
  <2>1. /\ lpc = "idle" /\ wbuf = <<>> /\ Makes(Loop, n) /\ writeSession(NewBuffer(Loop, n))
        /\ UNCHANGED <<sessVars, queue, tpc, tbuf, space, sent, failed, raced, late, crash>>
    BY <1>8 DEF writeHere, LoopIdle, TypeInv, EmptyBetween
  <2>2. n \in Nat /\ n # 0 /\ Loop \in Writers
    BY SessionOutputAssumption DEF Writers
  <2>3. NewBuffer(Loop, n) \in Seq(Bytes) /\ made' \in [Writers -> 0 .. MaxBytes]
    BY <1>0, <2>1, <2>2, NewBufferIs
  <2>4. /\ wbuf' \in Seq(Bytes) /\ handed' \in Seq(Bytes) /\ lost' \subseteq Bytes
        /\ lpc' \in {"idle", "write"} /\ (lpc' = "idle" => wbuf' = <<>>)
    BY <1>0, <2>1, <2>3, writeSessionType
  <2> QED
    BY <2>1, <2>3, <2>4 DEF TypeInv, OutputTypeOK, EmptyBetween
<1>9. CASE peerReads
  <2>1. space' \in 0 .. Room
    BY <1>9, SessionOutputAssumption DEF peerReads
  <2>2. UNCHANGED <<sessVars, queue, loopVars, tpc, tbuf, sent, history, crash>>
    BY <1>9 DEF peerReads
  <2> QED
    BY <2>1, <2>2 DEF TypeInv, OutputTypeOK, EmptyBetween
<1>10. ASSUME NEW t \in Senders, NEW n \in 1 .. MaxLen, sendCheck(t, n) PROVE TypeInv'
  <2>1. n \in Nat /\ n # 0 /\ t \in Writers
    BY SessionOutputAssumption DEF Writers
  <2>2. /\ Makes(t, n) /\ tbuf' = [tbuf EXCEPT ![t] = NewBuffer(t, n)]
        /\ tpc' = [tpc EXCEPT ![t] = "send"]
        /\ UNCHANGED <<sessVars, queue, loopVars, space, sent, handed, lost, failed, raced,
                       late, crash>>
    BY <1>10 DEF sendCheck
  <2>3. NewBuffer(t, n) \in Seq(Bytes) /\ made' \in [Writers -> 0 .. MaxBytes]
    BY <1>0, <2>1, <2>2, NewBufferIs
  <2>4. tbuf' \in [Senders -> Seq(Bytes)] /\ tpc' \in [Senders -> {"idle", "send", "remove"}]
        /\ \A u \in Senders : tpc'[u] # "send" => tbuf'[u] = <<>>
    BY <1>0, <2>2, <2>3 DEF OutputTypeOK, TypeInv, EmptyBetween
  <2> QED
    BY <2>2, <2>3, <2>4 DEF TypeInv, OutputTypeOK, EmptyBetween
<1>11. ASSUME NEW t \in Senders, sendPush(t) PROVE TypeInv'
  <2> DEFINE m == [type |-> "SEND", buf |-> tbuf[t]]
  <2>1. m \in Messages /\ m.type = "SEND" /\ m.buf = tbuf[t]
    BY <1>0 DEF OutputTypeOK, Messages
  <2>2. /\ pushMsgqueue(m) /\ tbuf' = [tbuf EXCEPT ![t] = <<>>]
        /\ tpc' = [tpc EXCEPT ![t] = "idle"]
        /\ UNCHANGED <<sessVars, loopVars, space, sent, handed, made, failed, raced,
                       late, crash>>
    BY <1>11 DEF sendPush
  <2> HIDE DEF m
  <2>3. /\ queue' \in Seq(Messages) /\ Len(queue') <= QueueCap /\ lost' \subseteq Bytes
        /\ \/ queue' = queue
           \/ /\ DOMAIN queue' = 1 .. Len(queue) + 1 /\ queue'[Len(queue) + 1] = m
              /\ \A k \in DOMAIN queue : queue'[k] = queue[k]
    BY <1>0, <2>1, <2>2, PushType
  <2>4. \A k \in DOMAIN queue' : queue'[k].type = "REMOVE" => queue'[k].buf = <<>>
    <3>1. DOMAIN queue = 1 .. Len(queue) /\ Len(queue) \in Nat
      BY <1>0, LenProperties DEF OutputTypeOK
    <3>2. \A k \in 1 .. Len(queue) + 1 : k \in 1 .. Len(queue) \/ k = Len(queue) + 1
      BY <3>1
    <3>3. "SEND" # "REMOVE"
      OBVIOUS
    <3> QED
      BY <2>1, <2>3, <3>1, <3>2, <3>3, Zenon DEF TypeInv, EmptyBetween
  <2>5. tbuf' \in [Senders -> Seq(Bytes)] /\ tpc' \in [Senders -> {"idle", "send", "remove"}]
        /\ \A u \in Senders : tpc'[u] # "send" => tbuf'[u] = <<>>
    BY <1>0, <2>2, EmptySeq DEF OutputTypeOK, TypeInv, EmptyBetween
  <2> QED
    BY <2>2, <2>3, <2>4, <2>5 DEF TypeInv, OutputTypeOK, EmptyBetween
<1>12. ASSUME NEW t \in Senders, removeCheck(t) PROVE TypeInv'
  <2>1. /\ tpc[t] = "idle" /\ tpc' = [tpc EXCEPT ![t] = "remove"]
        /\ UNCHANGED <<sessVars, queue, loopVars, tbuf, space, sent, history, crash>>
    BY <1>12 DEF removeCheck
  <2>2. tpc' \in [Senders -> {"idle", "send", "remove"}]
        /\ \A u \in Senders : tpc'[u] # "send" => tbuf'[u] = <<>>
    BY <1>0, <2>1 DEF OutputTypeOK, TypeInv, EmptyBetween
  <2> QED
    BY <2>1, <2>2 DEF TypeInv, OutputTypeOK, EmptyBetween
<1>13. ASSUME NEW t \in Senders, removePush(t) PROVE TypeInv'
  <2> DEFINE m == [type |-> "REMOVE", buf |-> <<>>]
  <2>1. m \in Messages /\ m.buf = <<>>
    BY EmptySeq DEF Messages
  <2>2. /\ tpc[t] = "remove" /\ tpc' = [tpc EXCEPT ![t] = "idle"]
        /\ UNCHANGED <<mask, watched, sendBuffer, loopVars, tbuf, space, sent, handed, made,
                       failed, late>>
    BY <1>13 DEF removePush
  <2>3. raced' \in BOOLEAN
    BY <1>13, Zenon DEF removePush
  <2>4. tpc' \in [Senders -> {"idle", "send", "remove"}]
        /\ \A u \in Senders : tpc'[u] # "send" => tbuf'[u] = <<>>
    BY <1>0, <2>2 DEF OutputTypeOK, TypeInv, EmptyBetween
  <2>5. CASE state = "freed"
    <3>1. crash' = TRUE /\ UNCHANGED <<state, queue, lost>>
      BY <1>13, <2>5 DEF removePush
    <3> QED
      BY <2>2, <2>3, <2>4, <3>1 DEF TypeInv, OutputTypeOK, EmptyBetween
  <2>6. CASE state # "freed"
    <3>1. state' = "disconnecting" /\ pushMsgqueue(m) /\ UNCHANGED crash
      BY <1>13, <2>6 DEF removePush
    <3> HIDE DEF m
    <3>2. /\ queue' \in Seq(Messages) /\ Len(queue') <= QueueCap /\ lost' \subseteq Bytes
          /\ \/ queue' = queue
             \/ /\ DOMAIN queue' = 1 .. Len(queue) + 1 /\ queue'[Len(queue) + 1] = m
                /\ \A k \in DOMAIN queue : queue'[k] = queue[k]
      BY <1>0, <2>1, <3>1, PushType
    <3>3. \A k \in DOMAIN queue' : queue'[k].type = "REMOVE" => queue'[k].buf = <<>>
      <4>1. DOMAIN queue = 1 .. Len(queue) /\ Len(queue) \in Nat
        BY <1>0, LenProperties DEF OutputTypeOK
      <4>2. \A k \in 1 .. Len(queue) + 1 : k \in 1 .. Len(queue) \/ k = Len(queue) + 1
        BY <4>1
      <4> QED
        BY <2>1, <3>2, <4>1, <4>2, Zenon DEF TypeInv, EmptyBetween
    <3> QED
      BY <2>2, <2>3, <2>4, <3>1, <3>2, <3>3 DEF TypeInv, OutputTypeOK, EmptyBetween
  <2> QED
    BY <2>5, <2>6
<1>14. CASE UNCHANGED vars
  BY <1>14 DEF TypeInv, OutputTypeOK, EmptyBetween
<1>15. ASSUME NEW t \in Writers, lateCall(t) PROVE TypeInv'
  <2>1. /\ late' = TRUE /\ crash' = TRUE
        /\ UNCHANGED <<sessVars, queue, loopVars, tpc, tbuf, space, sent, handed, made, lost,
                       failed, raced>>
    BY <1>15, Zenon DEF lateCall
  <2> QED
    BY <2>1 DEF TypeInv, OutputTypeOK, EmptyBetween
<1> QED
  BY <1>1, <1>2, <1>3, <1>4, <1>5, <1>6, <1>7, <1>8, <1>9, <1>10, <1>11, <1>12, <1>13, <1>14, <1>15
     DEF Next, loopStep, senderStep
-----------------------------------------------------------------------------
(* The mask *)

\* No step asks for write events, and the one that fills the send buffer empties
\* the mask.
MaskInv == "WRITABLE" \notin mask /\ StalledUnwatched

LEMMA InitMaskInv == Init => MaskInv
BY DEF Init, MaskInv, StalledUnwatched

LEMMA NextMaskInv == MaskInv /\ [Next]_vars => MaskInv'
<1> SUFFICES ASSUME MaskInv, [Next]_vars PROVE MaskInv'
  OBVIOUS
<1> USE DEF MaskInv, StalledUnwatched, sessVars
<1>1. CASE storeRest
  <2>1. mask' = {} /\ watched' = watched
    BY <1>1 DEF storeRest
  <2> QED
    BY <2>1
<1>2. CASE drainRemove \/ removeHere
  <2>1. mask' = mask /\ sendBuffer' = sendBuffer /\ watched' \subseteq watched
    BY <1>2 DEF drainRemove, removeHere
  <2> QED
    BY <2>1
<1>3. CASE UNCHANGED <<mask, watched, sendBuffer>>
  BY <1>3
<1>4. CASE ~(storeRest \/ drainRemove \/ removeHere)
  <2>1. UNCHANGED <<mask, watched, sendBuffer>>
    BY <1>4 DEF Next, loopStep, senderStep, vars, sendSome, sendError, writeComplete, drainSend,
                writeHere, peerReads, sendCheck, sendPush, removeCheck, removePush, lateCall
  <2> QED
    BY <1>3, <2>1
<1> QED
  BY <1>1, <1>2, <1>4

-----------------------------------------------------------------------------
(* A session is used until it is freed *)

\* As long as no removal has overlapped a call or left messages behind: a session
\* that is not connected is in nobody's call; the message that removes it is the
\* last in the queue, and is queued only when it is not connected; and once it is
\* freed nothing about it is left.
RaceInv ==
  /\ FreedUseIsLateOrRace
  /\ ~raced =>
       /\ state # "connected" => \A t \in Senders : ~InCall(t)
       /\ state = "connected" => \A k \in DOMAIN queue : queue[k].type # "REMOVE"
       /\ \A k \in DOMAIN queue : queue[k].type = "REMOVE" => k = Len(queue)
       /\ state = "freed" => queue = <<>>

LEMMA InitRaceInv == Init => RaceInv
<1> SUFFICES ASSUME Init PROVE RaceInv
  OBVIOUS
<1>1. ~crash
  BY Zenon DEF Init
<1> QED
  BY <1>1 DEF Init, RaceInv, FreedUseIsLateOrRace, InCall

LEMMA NextRaceInv == TypeInv /\ RaceInv /\ [Next]_vars => RaceInv'
<1> SUFFICES ASSUME TypeInv, RaceInv, [Next]_vars PROVE RaceInv'
  OBVIOUS
<1>0. OutputTypeOK /\ raced \in BOOLEAN /\ tpc \in [Senders -> {"idle", "send", "remove"}]
      /\ late \in BOOLEAN /\ (~raced /\ ~late => ~crash)
  BY DEF TypeInv, OutputTypeOK, RaceInv, FreedUseIsLateOrRace
<1>1. CASE UNCHANGED <<state, queue, tpc, raced, late, crash>>
  BY <1>1 DEF RaceInv, FreedUseIsLateOrRace, InCall
<1>2. CASE drainSend
  <2>1. /\ queue # <<>> /\ Head(queue).type = "SEND" /\ queue' = Tail(queue)
        /\ UNCHANGED <<state, tpc, raced, late>>
    BY <1>2 DEF drainSend, sessVars
  <2>2. ~raced => crash' = crash
    <3>1. state # "freed" => crash' = crash
      BY <1>2 DEF drainSend
    <3> QED
      BY <2>1, <3>1 DEF RaceInv
  <2>3. /\ DOMAIN Tail(queue) = 1 .. Len(queue) - 1 /\ Len(Tail(queue)) = Len(queue) - 1
        /\ Len(queue) \in Nat
        /\ \A k \in 1 .. Len(queue) - 1 : k + 1 \in DOMAIN queue /\ Tail(queue)[k] = queue[k + 1]
    BY <1>0, <2>1, PopType
  <2>4. ~raced => \A k \in DOMAIN queue' :
          /\ state = "connected" => queue'[k].type # "REMOVE"
          /\ queue'[k].type = "REMOVE" => k = Len(queue')
    <3> SUFFICES ASSUME ~raced, NEW k \in 1 .. Len(queue) - 1
                 PROVE  /\ state = "connected" => queue'[k].type # "REMOVE"
                        /\ queue'[k].type = "REMOVE" => k = Len(queue')
      BY <2>1, <2>3
    <3>1. queue'[k] = queue[k + 1] /\ k + 1 \in DOMAIN queue
      BY <2>1, <2>3
    <3>2. queue[k + 1].type = "REMOVE" => k + 1 = Len(queue) /\ state # "connected"
      BY <3>1 DEF RaceInv
    <3>3. k + 1 = Len(queue) => k = Len(queue')
      <4> DEFINE n == Len(queue)
                 l == Len(queue')
      <4>1. n \in Nat /\ l = n - 1 /\ k \in 1 .. n - 1
        BY <2>1, <2>3, Zenon
      <4> HIDE DEF n, l
      <4>2. k + 1 = n => k = l
        BY <4>1
      <4> QED
        BY <4>2 DEF n, l
    <3> QED
      BY <3>1, <3>2, <3>3
  <2>5. ~raced => state # "freed"
    BY <2>1 DEF RaceInv
  <2> QED
    BY <1>0, <2>1, <2>2, <2>4, <2>5 DEF RaceInv, FreedUseIsLateOrRace, InCall
<1>3. CASE drainRemove
  <2>1. /\ queue # <<>> /\ Head(queue).type = "REMOVE" /\ queue' = Tail(queue)
        /\ UNCHANGED <<tpc, raced, late>>
    BY <1>3 DEF drainRemove, history
  <2>2. /\ Head(queue) = queue[1] /\ 1 \in DOMAIN queue
        /\ Len(Tail(queue)) = Len(queue) - 1 /\ Tail(queue) \in Seq(Messages)
    BY <1>0, <2>1, PopType
  <2>3. ASSUME ~raced PROVE 1 = Len(queue) /\ state # "connected" /\ state # "freed"
    BY <2>1, <2>2, <2>3 DEF RaceInv
  <2>4. ~raced => queue' = <<>>
    <3> SUFFICES ASSUME ~raced PROVE Tail(queue) = <<>>
      BY <2>1
    <3>1. Len(Tail(queue)) = 0
      <4> DEFINE n == Len(queue)
                 m == Len(Tail(queue))
      <4>1. n = 1 /\ m = n - 1
        BY <2>2, <2>3, Zenon
      <4> HIDE DEF n, m
      <4>2. m = 0
        BY <4>1
      <4> QED
        BY <4>2 DEF m
    <3>2. Tail(queue) # <<>> => Len(Tail(queue)) \in Nat \ {0}
      BY <2>2, EmptySeq, Zenon
    <3> QED
      BY <3>1, <3>2
  <2>5. ~raced => state' = "freed" /\ crash' = crash
    BY <1>3, <2>3 DEF drainRemove
  <2>6. ~raced => DOMAIN queue' = {}
    BY <2>4
  <2> QED
    BY <1>0, <2>1, <2>3, <2>4, <2>5, <2>6 DEF RaceInv, FreedUseIsLateOrRace, InCall
<1>4. CASE removeHere
  <2>1. /\ state = "connected" /\ state' = "freed" /\ UNCHANGED <<queue, tpc, late, crash>>
    BY <1>4 DEF removeHere
  <2>2. raced' = (raced \/ queue # <<>> \/ \E t \in Senders : InCall(t))
    BY <1>4 DEF removeHere
  <2>3. ~raced' => ~raced /\ queue = <<>> /\ \A t \in Senders : ~InCall(t)
    BY <1>0, <2>2, Zenon
  <2>4. ~raced' => DOMAIN queue' = {}
    BY <2>1, <2>3
  <2> QED
    BY <1>0, <2>1, <2>3, <2>4 DEF RaceInv, FreedUseIsLateOrRace, InCall
<1>5. ASSUME NEW t \in Senders, NEW n \in 1 .. MaxLen, sendCheck(t, n) PROVE RaceInv'
  <2>1. state = "connected" /\ UNCHANGED <<state, queue, raced, late, crash>>
    BY <1>5 DEF sendCheck, sessVars
  <2> QED
    BY <2>1 DEF RaceInv, FreedUseIsLateOrRace
<1>6. ASSUME NEW t \in Senders, removeCheck(t) PROVE RaceInv'
  <2>1. state = "connected" /\ UNCHANGED <<state, queue, raced, late, crash>>
    BY <1>6 DEF removeCheck, sessVars, history
  <2> QED
    BY <2>1 DEF RaceInv, FreedUseIsLateOrRace
<1>7. ASSUME NEW t \in Senders, sendPush(t) PROVE RaceInv'
  <2> DEFINE m == [type |-> "SEND", buf |-> tbuf[t]]
  <2>1. /\ InCall(t) /\ pushMsgqueue(m) /\ tpc' = [tpc EXCEPT ![t] = "idle"]
        /\ UNCHANGED <<state, raced, late, crash>>
    BY <1>7 DEF sendPush, InCall, sessVars
  <2>2. m \in Messages /\ m.type # "REMOVE"
    BY <1>0 DEF OutputTypeOK, Messages
  <2> HIDE DEF m
  <2>3. \/ queue' = queue
        \/ /\ DOMAIN queue' = 1 .. Len(queue) + 1 /\ queue'[Len(queue) + 1] = m
           /\ \A k \in DOMAIN queue : queue'[k] = queue[k]
    BY <1>0, <2>1, <2>2, PushType
  <2>4. DOMAIN queue = 1 .. Len(queue) /\ Len(queue) \in Nat
    BY <1>0, LenProperties DEF OutputTypeOK
  <2>5. \A k \in 1 .. Len(queue) + 1 : k \in DOMAIN queue \/ k = Len(queue) + 1
    BY <2>4
  <2>6. ~raced => state = "connected"
    BY <2>1 DEF RaceInv
  <2>7. ~raced => \A k \in DOMAIN queue' : queue'[k].type # "REMOVE"
    BY <2>2, <2>3, <2>5, <2>6, Zenon DEF RaceInv
  <2> QED
    BY <1>0, <2>1, <2>6, <2>7 DEF RaceInv, FreedUseIsLateOrRace
<1>8. ASSUME NEW t \in Senders, removePush(t) PROVE RaceInv'
  <2> DEFINE m == [type |-> "REMOVE", buf |-> <<>>]
  <2>1. InCall(t) /\ tpc' = [tpc EXCEPT ![t] = "idle"] /\ late' = late
    BY <1>8 DEF removePush, InCall
  <2>2. raced' = (raced \/ \E u \in Senders \ {t} : InCall(u))
    BY <1>8 DEF removePush
  <2>3. ~raced' => ~raced /\ \A u \in Senders : u # t => ~InCall(u)
    BY <1>0, <2>2, Zenon
  <2>4. ~raced => state = "connected"
    BY <2>1 DEF RaceInv
  <2>5. ~raced' => \A u \in Senders : ~InCall(u)'
    <3>1. tpc'[t] = "idle" /\ \A u \in Senders : u # t => tpc'[u] = tpc[u]
      BY <1>0, <2>1
    <3> QED
      BY <2>3, <3>1 DEF InCall
  <2>6. ASSUME ~raced PROVE state' = "disconnecting" /\ pushMsgqueue(m) /\ crash' = crash
    BY <1>8, <2>4, <2>6 DEF removePush
  <2>7. m \in Messages
    BY EmptySeq DEF Messages
  <2> HIDE DEF m
  <2>8. ~raced =>
          /\ Len(queue') \in Nat /\ DOMAIN queue' = 1 .. Len(queue')
          /\ \/ queue' = queue
             \/ /\ DOMAIN queue' = 1 .. Len(queue) + 1 /\ queue'[Len(queue) + 1] = m
                /\ \A k \in DOMAIN queue : queue'[k] = queue[k]
    <3> SUFFICES ASSUME ~raced
                 PROVE  /\ Len(queue') \in Nat /\ DOMAIN queue' = 1 .. Len(queue')
                        /\ \/ queue' = queue
                           \/ /\ DOMAIN queue' = 1 .. Len(queue) + 1 /\ queue'[Len(queue) + 1] = m
                              /\ \A k \in DOMAIN queue : queue'[k] = queue[k]
      OBVIOUS
    <3>1. /\ queue' \in Seq(Messages)
          /\ \/ queue' = queue
             \/ /\ DOMAIN queue' = 1 .. Len(queue) + 1 /\ queue'[Len(queue) + 1] = m
                /\ \A k \in DOMAIN queue : queue'[k] = queue[k]
      BY <1>0, <2>6, <2>7, PushType
    <3> QED
      BY <3>1, LenProperties
  <2>9. ASSUME ~raced
        PROVE  \A k \in DOMAIN queue' : queue'[k].type = "REMOVE" => k = Len(queue')
    <3>1. DOMAIN queue = 1 .. Len(queue) /\ Len(queue) \in Nat
      BY <1>0, LenProperties DEF OutputTypeOK
    <3>2. \A k \in DOMAIN queue : queue[k].type # "REMOVE"
      BY <2>4, <2>9 DEF RaceInv
    <3>3. CASE queue' = queue
      BY <3>2, <3>3
    <3>4. CASE /\ DOMAIN queue' = 1 .. Len(queue) + 1
               /\ \A k \in DOMAIN queue : queue'[k] = queue[k]
      <4> DEFINE n == Len(queue)
                 l == Len(queue')
      <4>1. n \in Nat /\ l \in Nat /\ 1 .. l = 1 .. n + 1
        BY <2>8, <2>9, <3>1, <3>4
      <4> HIDE DEF n, l
      <4>2. l = n + 1
        <5>1. n + 1 \in 1 .. l
          BY <4>1
        <5>2. l \in 1 .. n + 1
          BY <4>1, <5>1
        <5> QED
          BY <4>1, <5>1, <5>2
      <4>3. \A k \in 1 .. n + 1 : k \in 1 .. n \/ k = n + 1
        BY <4>1
      <4>4. \A k \in DOMAIN queue' : k \in DOMAIN queue \/ k = l
        BY <3>1, <3>4, <4>2, <4>3, Zenon DEF n
      <4> QED
        BY <3>2, <3>4, <4>4, Zenon DEF l
    <3> QED
      BY <2>8, <2>9, <3>3, <3>4
  <2> QED
    BY <1>0, <2>1, <2>3, <2>5, <2>6, <2>9 DEF RaceInv, FreedUseIsLateOrRace
<1>9. CASE sendSome \/ sendError \/ storeRest \/ writeComplete \/ peerReads \/ UNCHANGED vars
           \/ \E n \in 1 .. MaxLen : writeHere(n)
  <2>1. UNCHANGED <<state, queue, tpc, raced, late, crash>>
    BY <1>9 DEF vars, sendSome, sendError, writeComplete, storeRest, writeHere, peerReads,
                sessVars, history
  <2> QED
    BY <1>1, <2>1
<1>10. ASSUME NEW t \in Writers, lateCall(t) PROVE RaceInv'
  <2>1. late' = TRUE /\ UNCHANGED <<state, queue, tpc, raced>>
    BY <1>10, Zenon DEF lateCall, sessVars
  <2> QED
    BY <2>1 DEF RaceInv, FreedUseIsLateOrRace, InCall
<1> QED
  BY <1>2, <1>3, <1>4, <1>5, <1>6, <1>7, <1>8, <1>9, <1>10 DEF Next, loopStep, senderStep

-----------------------------------------------------------------------------
(* Where the bytes are *)

\* The bytes of a whole, each in one of six places.
Parted(S, B, W, Q, T, L, whole) ==
  /\ S \cup B \cup W \cup Q \cup T \cup L = whole
  /\ S \cap (B \cup W \cup Q \cup T \cup L) = {}
  /\ B \cap (W \cup Q \cup T \cup L) = {}
  /\ W \cap (Q \cup T \cup L) = {}
  /\ Q \cap (T \cup L) = {}
  /\ T \cap L = {}

InPlace == Parted(ToSet(sent), ToSet(sendBuffer), ToSet(wbuf), BytesOf(InMessages), BytesOf(tbuf),
                  lost, Given)

ByteInv ==
  ~crash => /\ Distinct(sent) /\ Distinct(sendBuffer) /\ Distinct(wbuf)
            /\ Apart(InMessages) /\ Apart(tbuf)
            /\ InPlace

\* A message pushed takes its bytes into the queue, or they are lost.
LEMMA PushBytes ==
  ASSUME OutputTypeOK, NEW m \in Messages, pushMsgqueue(m), Apart(InMessages), Distinct(m.buf),
         ToSet(m.buf) \cap BytesOf(InMessages) = {}
  PROVE  /\ Apart(InMessages')
         /\ \/ /\ BytesOf(InMessages') = BytesOf(InMessages) \cup ToSet(m.buf)
               /\ lost' = lost
            \/ /\ BytesOf(InMessages') = BytesOf(InMessages)
               /\ lost' = lost \cup ToSet(m.buf)
<1>1. queue \in Seq(Messages) /\ DOMAIN queue = 1 .. Len(queue) /\ Len(queue) \in Nat
  BY LenProperties DEF OutputTypeOK
<1>2. CASE Len(queue) < QueueCap
  <2> DEFINE q == Append(queue, m)
             n == Len(queue) + 1
             f == InMessages
             g == InMessages'
  <2>1. queue' = q /\ lost' = lost
    BY <1>2 DEF pushMsgqueue
  <2>2. q \in Seq(Messages) /\ Len(q) = n
        /\ (\A k \in 1 .. Len(queue) : q[k] = queue[k]) /\ q[n] = m
    BY <1>1, AppendProperties
  <2>3. DOMAIN q = 1 .. n
    BY <2>2, LenProperties
  <2> HIDE DEF q
  <2>4. 1 .. n = DOMAIN queue \cup {n} /\ n \notin DOMAIN queue
    BY <1>1
  <2> HIDE DEF n
  <2>5. DOMAIN f = DOMAIN queue /\ DOMAIN g = DOMAIN f \cup {n} /\ n \notin DOMAIN f
        /\ g[n] = m.buf /\ \A d \in DOMAIN f \ {n} : g[d] = f[d]
    BY <1>1, <2>1, <2>2, <2>3, <2>4 DEF InMessages
  <2>6. Apart(f) /\ Distinct(g[n]) /\ ToSet(g[n]) \cap BytesOf(f) = {}
    BY <2>5
  <2> HIDE DEF f, g
  <2>7. Fills(f, g, n)
    BY <2>5 DEF Fills
  <2>8. Apart(g) /\ BytesOf(g) = BytesOf(f) \cup ToSet(g[n])
    BY <2>6, <2>7, Filled
  <2> QED
    BY <2>1, <2>5, <2>8 DEF f, g
<1>3. CASE ~(Len(queue) < QueueCap)
  <2>1. queue' = queue /\ lost' = lost \cup ToSet(m.buf)
    BY <1>3 DEF pushMsgqueue
  <2>2. InMessages' = InMessages
    BY <2>1 DEF InMessages
  <2> QED
    BY <2>1, <2>2
<1> QED
  BY <1>2, <1>3

\* A message taken off the queue takes its bytes with it.
LEMMA PopBytes ==
  ASSUME OutputTypeOK, queue # <<>>, queue' = Tail(queue), Apart(InMessages)
  PROVE  /\ Apart(InMessages') /\ Distinct(Head(queue).buf)
         /\ BytesOf(InMessages) = BytesOf(InMessages') \cup ToSet(Head(queue).buf)
         /\ BytesOf(InMessages') \cap ToSet(Head(queue).buf) = {}
<1> DEFINE n == Len(queue) - 1
           f == InMessages
           g == InMessages'
<1>1. /\ Head(queue) = queue[1] /\ 1 \in DOMAIN queue
      /\ DOMAIN queue = 1 .. Len(queue) /\ DOMAIN Tail(queue) = 1 .. n
      /\ \A k \in 1 .. n : k + 1 \in DOMAIN queue /\ Tail(queue)[k] = queue[k + 1]
  BY PopType
<1>2. n \in Nat /\ Len(queue) = n + 1
  <2> DEFINE l == Len(queue)
  <2>1. l \in Nat /\ l # 0
    BY PopType
  <2> HIDE DEF l
  <2>2. l - 1 \in Nat /\ l = (l - 1) + 1
    BY <2>1
  <2> QED
    BY <2>2 DEF l
<1> HIDE DEF n
<1>3. DOMAIN f = 1 .. n + 1 /\ f[1] = Head(queue).buf
  BY <1>1, <1>2 DEF InMessages
<1>4. DOMAIN g = 1 .. n /\ \A k \in 1 .. n : g[k] = f[k + 1]
  BY <1>1 DEF InMessages
<1>5. Apart(f)
  OBVIOUS
<1> HIDE DEF f, g
<1>6. /\ Apart(g) /\ Distinct(f[1]) /\ BytesOf(f) = BytesOf(g) \cup ToSet(f[1])
      /\ BytesOf(g) \cap ToSet(f[1]) = {}
  BY <1>2, <1>3, <1>4, <1>5, Taken
<1> QED
  BY <1>3, <1>6 DEF f, g

\* writeSession takes the bytes of its buffer, or they are lost.
LEMMA writeSessionBytes ==
  ASSUME NEW buf, writeSession(buf), Distinct(buf), wbuf = <<>>
  PROVE  /\ Distinct(wbuf')
         /\ \/ ToSet(wbuf') = ToSet(buf) /\ lost' = lost
            \/ ToSet(wbuf') = {} /\ lost' = lost \cup ToSet(buf)
BY SetOfEmpty DEF writeSession

LEMMA InitByteInv == Init => ByteInv
<1> SUFFICES ASSUME Init PROVE ByteInv
  OBVIOUS
<1>1. ToSet(sent) = {} /\ ToSet(sendBuffer) = {} /\ ToSet(wbuf) = {} /\ Distinct(sent)
      /\ Distinct(sendBuffer) /\ Distinct(wbuf) /\ lost = {}
  BY SetOfEmpty DEF Init
<1>2. DOMAIN InMessages = {}
  BY DEF Init, InMessages
<1>3. Apart(InMessages) /\ BytesOf(InMessages) = {}
  BY <1>2 DEF Apart, BytesOf
<1>4. DOMAIN tbuf = Senders /\ \A t \in Senders : tbuf[t] = <<>>
  BY DEF Init
<1>5. BytesOf(tbuf) = {}
  BY <1>4, SetOfEmpty DEF BytesOf
<1>6. Apart(tbuf)
  BY <1>4, SetOfEmpty, ApartMeans
<1>7. Given = {}
  <2>1. \A b \in Bytes : b[1] \in Writers /\ b[2] \in 1 .. MaxBytes
    BY DEF Bytes
  <2>2. \A b \in Bytes : made[b[1]] = 0 /\ ~(b[2] <= 0)
    BY <2>1, SessionOutputAssumption DEF Init
  <2> QED
    BY <2>2 DEF Given
<1> QED
  BY <1>1, <1>3, <1>5, <1>6, <1>7 DEF ByteInv, InPlace, Parted

LEMMA NextByteInv == TypeInv /\ ByteInv /\ [Next]_vars => ByteInv'
<1> SUFFICES ASSUME TypeInv, ByteInv, [Next]_vars, ~crash' PROVE ByteInv'
  BY DEF ByteInv
<1> USE DEF sessVars, loopVars, history
<1>0. OutputTypeOK /\ EmptyBetween
  BY DEF TypeInv
<1>1. ~crash
  BY DEF Next, loopStep, senderStep, vars, sendSome, sendError, storeRest, writeComplete, drainSend,
         drainRemove, removeHere, writeHere, peerReads, sendCheck, sendPush, removeCheck,
         removePush, lateCall, LoopIdle
<1>2. /\ Distinct(sent) /\ Distinct(sendBuffer) /\ Distinct(wbuf)
      /\ Apart(InMessages) /\ Apart(tbuf)
  BY <1>1 DEF ByteInv
<1>3. InPlace
  BY <1>1 DEF ByteInv
<1>4. sent \in Seq(Bytes) /\ sendBuffer \in Seq(Bytes) /\ wbuf \in Seq(Bytes)
      /\ tbuf \in [Senders -> Seq(Bytes)]
  BY <1>0 DEF OutputTypeOK
<1> DEFINE S == ToSet(sent)
           B == ToSet(sendBuffer)
           W == ToSet(wbuf)
           Q == BytesOf(InMessages)
           T == BytesOf(tbuf)
           Keeps == /\ Distinct(sent') /\ Distinct(sendBuffer') /\ Distinct(wbuf')
                    /\ Apart(InMessages') /\ Apart(tbuf')
<1>5. Parted(S, B, W, Q, T, lost, Given)
  BY <1>3 DEF InPlace
<1>6. ASSUME Keeps, Parted(S', B', W', Q', T', lost', Given') PROVE ByteInv'
  BY <1>6 DEF ByteInv, InPlace
<1>7. /\ UNCHANGED queue => UNCHANGED InMessages /\ Q' = Q
      /\ UNCHANGED made => Given' = Given
  BY DEF InMessages, Given
<1>8. CASE sendSome
  <2>1. PICK n \in 1 .. Len(wbuf) :
          sent' = sent \o SubSeq(wbuf, 1, n) /\ wbuf' = SubSeq(wbuf, n + 1, Len(wbuf))
    BY <1>8 DEF sendSome
  <2> DEFINE a == SubSeq(wbuf, 1, n)
  <2>2. UNCHANGED <<sendBuffer, queue, tbuf, lost, made>>
    BY <1>8 DEF sendSome
  <2>3. a \in Seq(Bytes) /\ wbuf' \in Seq(Bytes) /\ wbuf = a \o wbuf'
    BY <1>4, <2>1, Split
  <2>4. sent' = sent \o a
    BY <2>1
  <2> HIDE DEF a
  <2>5. W = ToSet(a) \cup W' /\ ToSet(a) \cap W' = {} /\ Distinct(a) /\ Distinct(wbuf')
    BY <1>2, <2>3, ConcatSet, ConcatDistinct
  <2>6. S' = S \cup ToSet(a)
    BY <1>4, <2>3, <2>4, ConcatSet
  <2>7. S \cap ToSet(a) = {}
    BY <1>5, <2>5 DEF Parted
  <2>8. Distinct(sent')
    BY <1>2, <1>4, <2>3, <2>4, <2>5, <2>7, ConcatDistinct
  <2>9. Keeps
    BY <1>2, <1>7, <2>2, <2>5, <2>8
  <2>10. B' = B /\ Q' = Q /\ T' = T /\ lost' = lost /\ Given' = Given
    BY <1>7, <2>2
  <2> HIDE DEF S, B, W, Q, T
  <2>11. Parted(S', B', W', Q', T', lost', Given')
    BY <1>5, <2>5, <2>6, <2>10 DEF Parted
  <2> QED
    BY <1>6, <2>9, <2>11 DEF S, B, W, Q, T
<1>9. CASE sendError
  <2>1. /\ wbuf' = <<>> /\ lost' = lost \cup W
        /\ UNCHANGED <<sent, sendBuffer, queue, tbuf, made>>
    BY <1>9 DEF sendError
  <2>2. W' = {} /\ Distinct(wbuf')
    BY <2>1, SetOfEmpty
  <2>3. Keeps
    BY <1>2, <1>7, <2>1, <2>2
  <2>4. S' = S /\ B' = B /\ Q' = Q /\ T' = T /\ Given' = Given
    BY <1>7, <2>1
  <2>5. lost' = lost \cup W
    BY <2>1
  <2> HIDE DEF S, B, W, Q, T
  <2>6. Parted(S', B', W', Q', T', lost', Given')
    BY <1>5, <2>2, <2>4, <2>5 DEF Parted
  <2> QED
    BY <1>6, <2>3, <2>6 DEF S, B, W, Q, T
<1>10. CASE storeRest
  <2>1. /\ wbuf' = <<>> /\ sendBuffer' = sendBuffer \o wbuf
        /\ UNCHANGED <<sent, queue, tbuf, lost, made>>
    BY <1>10 DEF storeRest
  <2>2. W' = {} /\ Distinct(wbuf') /\ B' = B \cup W
    BY <1>4, <2>1, SetOfEmpty, ConcatSet
  <2>3. B \cap W = {}
    BY <1>5 DEF Parted
  <2>4. Distinct(sendBuffer')
    BY <1>2, <1>4, <2>1, <2>3, ConcatDistinct
  <2>5. Keeps
    BY <1>2, <1>7, <2>1, <2>2, <2>4
  <2>6. S' = S /\ Q' = Q /\ T' = T /\ lost' = lost /\ Given' = Given
    BY <1>7, <2>1
  <2> HIDE DEF S, B, W, Q, T
  <2>7. Parted(S', B', W', Q', T', lost', Given')
    BY <1>5, <2>2, <2>6 DEF Parted
  <2> QED
    BY <1>6, <2>5, <2>7 DEF S, B, W, Q, T
<1>11. CASE UNCHANGED <<sent, sendBuffer, wbuf, queue, tbuf, lost, made>>
  <2>1. Keeps /\ S' = S /\ B' = B /\ W' = W /\ Q' = Q /\ T' = T /\ lost' = lost /\ Given' = Given
    BY <1>2, <1>7, <1>11
  <2> QED
    BY <1>5, <1>6, <2>1
<1>12. CASE drainSend
  <2> DEFINE h == Head(queue).buf
  <2>1. /\ wbuf = <<>> /\ queue # <<>> /\ queue' = Tail(queue) /\ writeSession(h)
        /\ UNCHANGED <<sent, sendBuffer, tbuf, made>>
    BY <1>0, <1>12 DEF drainSend, LoopIdle, EmptyBetween
  <2>2. /\ Apart(InMessages') /\ Distinct(h) /\ Q = Q' \cup ToSet(h) /\ Q' \cap ToSet(h) = {}
    BY <1>0, <1>2, <2>1, PopBytes
  <2> HIDE DEF h
  <2>3. /\ Distinct(wbuf')
        /\ \/ W' = ToSet(h) /\ lost' = lost
           \/ W' = {} /\ lost' = lost \cup ToSet(h)
    BY <2>1, <2>2, writeSessionBytes
  <2>4. W = {}
    BY <2>1, SetOfEmpty
  <2>5. Keeps
    BY <1>2, <2>1, <2>2, <2>3
  <2>6. S' = S /\ B' = B /\ T' = T /\ Given' = Given
    BY <1>7, <2>1
  <2> HIDE DEF S, B, W, Q, T
  <2>7. Parted(S', B', W', Q', T', lost', Given')
    BY <1>5, <2>2, <2>3, <2>4, <2>6 DEF Parted
  <2> QED
    BY <1>6, <2>5, <2>7 DEF S, B, W, Q, T
<1>13. CASE drainRemove
  <2> DEFINE h == Head(queue).buf
  <2>1. /\ queue # <<>> /\ queue' = Tail(queue) /\ Head(queue).type = "REMOVE"
        /\ UNCHANGED <<sent, sendBuffer, wbuf, tbuf, lost, made>>
    BY <1>13 DEF drainRemove
  <2>2. Apart(InMessages') /\ Q = Q' \cup ToSet(h)
    BY <1>0, <1>2, <2>1, PopBytes
  <2>3. ToSet(h) = {}
    <3>1. Head(queue) = queue[1] /\ 1 \in DOMAIN queue
      BY <1>0, <2>1, PopType
    <3> QED
      BY <1>0, <2>1, <3>1, SetOfEmpty DEF EmptyBetween
  <2>4. Keeps
    BY <1>2, <2>1, <2>2
  <2>5. S' = S /\ B' = B /\ W' = W /\ Q' = Q /\ T' = T /\ lost' = lost /\ Given' = Given
    BY <1>7, <2>1, <2>2, <2>3
  <2> QED
    BY <1>5, <1>6, <2>4, <2>5
<1>14. ASSUME NEW n \in 1 .. MaxLen, writeHere(n) PROVE ByteInv'
  <2> DEFINE nb == NewBuffer(Loop, n)
  <2>1. /\ wbuf = <<>> /\ Makes(Loop, n) /\ writeSession(nb)
        /\ UNCHANGED <<sent, sendBuffer, queue, tbuf>>
    BY <1>0, <1>14 DEF writeHere, LoopIdle, EmptyBetween
  <2>2. n \in Nat /\ n # 0 /\ Loop \in Writers
    BY SessionOutputAssumption DEF Writers
  <2>3. Distinct(nb) /\ ToSet(nb) \cap Given = {} /\ Given' = Given \cup ToSet(nb)
    BY <1>0, <2>1, <2>2, NewBufferIs
  <2> HIDE DEF nb
  <2>4. /\ Distinct(wbuf')
        /\ \/ W' = ToSet(nb) /\ lost' = lost
           \/ W' = {} /\ lost' = lost \cup ToSet(nb)
    BY <2>1, <2>3, writeSessionBytes
  <2>5. W = {}
    BY <2>1, SetOfEmpty
  <2>6. Keeps
    BY <1>2, <1>7, <2>1, <2>4
  <2>7. S' = S /\ B' = B /\ T' = T /\ Q' = Q
    BY <1>7, <2>1
  <2> HIDE DEF S, B, W, Q, T
  <2>8. Parted(S', B', W', Q', T', lost', Given')
    BY <1>5, <2>3, <2>4, <2>5, <2>7 DEF Parted
  <2> QED
    BY <1>6, <2>6, <2>8 DEF S, B, W, Q, T
<1>15. ASSUME NEW t \in Senders, NEW n \in 1 .. MaxLen, sendCheck(t, n) PROVE ByteInv'
  <2> DEFINE nb == NewBuffer(t, n)
  <2>1. /\ tbuf[t] = <<>> /\ Makes(t, n) /\ tbuf' = [tbuf EXCEPT ![t] = nb]
        /\ UNCHANGED <<sent, sendBuffer, wbuf, queue, lost>>
    BY <1>0, <1>15 DEF sendCheck, EmptyBetween
  <2>2. n \in Nat /\ n # 0 /\ t \in Writers
    BY SessionOutputAssumption DEF Writers
  <2>3. Distinct(nb) /\ ToSet(nb) \cap Given = {} /\ Given' = Given \cup ToSet(nb)
    BY <1>0, <2>1, <2>2, NewBufferIs
  <2> HIDE DEF nb
  <2>4. /\ DOMAIN tbuf = Senders /\ DOMAIN tbuf' = DOMAIN tbuf \cup {t} /\ tbuf'[t] = nb
        /\ \A d \in DOMAIN tbuf \ {t} : tbuf'[d] = tbuf[d]
    BY <1>4, <2>1
  <2>5. ToSet(nb) \cap T = {}
    BY <1>5, <2>3 DEF Parted
  <2>6. Apart(tbuf') /\ T' = T \cup ToSet(nb)
    <3> DEFINE f == tbuf
               g == tbuf'
    <3>1. Apart(f) /\ Distinct(g[t]) /\ ToSet(g[t]) \cap BytesOf(f) = {}
      BY <1>2, <2>3, <2>4, <2>5
    <3>2. Fills(f, g, t)
      BY <2>1, <2>4 DEF Fills
    <3> HIDE DEF f, g
    <3>3. Apart(g) /\ BytesOf(g) = BytesOf(f) \cup ToSet(g[t])
      BY <3>1, <3>2, Filled
    <3> QED
      BY <2>4, <3>3 DEF f, g
  <2>7. Keeps
    BY <1>2, <1>7, <2>1, <2>6
  <2>8. S' = S /\ B' = B /\ W' = W /\ Q' = Q /\ lost' = lost
    BY <1>7, <2>1
  <2> HIDE DEF S, B, W, Q, T
  <2>9. Parted(S', B', W', Q', T', lost', Given')
    BY <1>5, <2>3, <2>6, <2>8 DEF Parted
  <2> QED
    BY <1>6, <2>7, <2>9 DEF S, B, W, Q, T
<1>16. ASSUME NEW t \in Senders, sendPush(t) PROVE ByteInv'
  <2> DEFINE h == tbuf[t]
             m == [type |-> "SEND", buf |-> h]
  <2>1. /\ pushMsgqueue(m) /\ tbuf' = [tbuf EXCEPT ![t] = <<>>]
        /\ UNCHANGED <<sent, sendBuffer, wbuf, made>>
    BY <1>16 DEF sendPush
  <2>2. m \in Messages /\ m.buf = h
    BY <1>4 DEF Messages
  <2>3. /\ DOMAIN tbuf' = DOMAIN tbuf /\ t \in DOMAIN tbuf /\ tbuf'[t] = <<>>
        /\ \A d \in DOMAIN tbuf \ {t} : tbuf'[d] = tbuf[d]
    BY <1>4, <2>1
  <2>4. Apart(tbuf') /\ Distinct(h) /\ T = T' \cup ToSet(h) /\ T' \cap ToSet(h) = {}
    <3> DEFINE f == tbuf
               g == tbuf'
    <3>1. /\ DOMAIN g = DOMAIN f /\ t \in DOMAIN f /\ g[t] = <<>> /\ Apart(f)
          /\ \A d \in DOMAIN f \ {t} : g[d] = f[d]
      BY <1>2, <2>3
    <3> HIDE DEF f, g
    <3>2. /\ Apart(g) /\ Distinct(f[t]) /\ BytesOf(f) = BytesOf(g) \cup ToSet(f[t])
          /\ BytesOf(g) \cap ToSet(f[t]) = {}
      BY <3>1, Emptied
    <3> QED
      BY <3>2 DEF f, g
  <2> HIDE DEF h, m
  <2>5. ToSet(h) \cap Q = {}
    BY <1>5, <2>4 DEF Parted
  <2>6. /\ Apart(InMessages')
        /\ \/ Q' = Q \cup ToSet(h) /\ lost' = lost
           \/ Q' = Q /\ lost' = lost \cup ToSet(h)
    BY <1>0, <1>2, <2>1, <2>2, <2>4, <2>5, PushBytes
  <2>7. Keeps
    BY <1>2, <2>1, <2>4, <2>6
  <2>8. S' = S /\ B' = B /\ W' = W /\ Given' = Given
    BY <1>7, <2>1
  <2> HIDE DEF S, B, W, Q, T
  <2>9. Parted(S', B', W', Q', T', lost', Given')
    BY <1>5, <2>4, <2>6, <2>8 DEF Parted
  <2> QED
    BY <1>6, <2>7, <2>9 DEF S, B, W, Q, T
<1>17. ASSUME NEW t \in Senders, removePush(t) PROVE ByteInv'
  <2> DEFINE m == [type |-> "REMOVE", buf |-> <<>>]
  <2>1. /\ pushMsgqueue(m)
        /\ UNCHANGED <<sent, sendBuffer, wbuf, tbuf, made>>
    BY <1>17 DEF removePush
  <2>2. m \in Messages /\ m.buf = <<>>
    BY EmptySeq DEF Messages
  <2> HIDE DEF m
  <2>3. ToSet(m.buf) = {} /\ Distinct(m.buf)
    BY <2>2, SetOfEmpty
  <2>4. Apart(InMessages') /\ Q' = Q /\ lost' = lost
    BY <1>0, <1>2, <2>1, <2>2, <2>3, PushBytes
  <2>5. Keeps /\ S' = S /\ B' = B /\ W' = W /\ T' = T /\ Given' = Given
    BY <1>2, <1>7, <2>1, <2>4
  <2> QED
    BY <1>5, <1>6, <2>4, <2>5
<1>18. CASE writeComplete \/ removeHere \/ peerReads \/ UNCHANGED vars
            \/ (\E t \in Senders : removeCheck(t)) \/ \E t \in Writers : lateCall(t)
  <2>1. UNCHANGED <<sent, sendBuffer, wbuf, queue, tbuf, lost, made>>
    BY <1>18 DEF writeComplete, removeHere, peerReads, removeCheck, lateCall, vars
  <2> QED
    BY <1>11, <2>1
<1> QED
  BY <1>8, <1>9, <1>10, <1>12, <1>13, <1>14, <1>15, <1>16, <1>17, <1>18
     DEF Next, loopStep, senderStep

\* Three buffers and three sets in one, as the property counts them.
LEMMA ByteInvMeans == TypeInv /\ ByteInv => EveryByteOnce
<1> SUFFICES ASSUME ByteInv, ~crash PROVE EveryByteOnce
  BY DEF EveryByteOnce
<1> DEFINE S == ToSet(sent)
           B == ToSet(sendBuffer)
           W == ToSet(wbuf)
           Q == BytesOf(InMessages)
           T == BytesOf(tbuf)
           P == BytesOf(InLoop)
<1>1. Distinct(sent) /\ Distinct(sendBuffer) /\ Distinct(wbuf) /\ Apart(InMessages) /\ Apart(tbuf)
  BY DEF ByteInv
<1>2. Parted(S, B, W, Q, T, lost, Given)
  BY DEF ByteInv, InPlace
<1>3. DOMAIN InLoop = {1, 2, 3} /\ InLoop[1] = sent /\ InLoop[2] = sendBuffer /\ InLoop[3] = wbuf
  BY DEF InLoop
<1>4. S \cap B = {} /\ S \cap W = {} /\ B \cap W = {}
  BY <1>2 DEF Parted
<1>5. Apart(InLoop)
  <2>1. \A c \in {1, 2, 3} : Distinct(InLoop[c])
    BY <1>1, <1>3
  <2>2. \A c, d \in {1, 2, 3} : c # d => ToSet(InLoop[c]) \cap ToSet(InLoop[d]) = {}
    BY <1>3, <1>4
  <2> QED
    BY <1>3, <2>1, <2>2, ApartMeans
<1>6. P = S \cup B \cup W
  <2>1. \A b : b \in P <=> \E c \in {1, 2, 3} : b \in ToSet(InLoop[c])
    BY <1>3, BytesOfMember
  <2> QED
    BY <1>3, <2>1
<1> HIDE DEF S, B, W, Q, T, P
<1>7. /\ P \cap Q = {} /\ P \cap T = {} /\ P \cap lost = {}
      /\ Q \cap T = {} /\ Q \cap lost = {} /\ T \cap lost = {}
      /\ P \cup Q \cup T \cup lost = Given
  BY <1>2, <1>6 DEF Parted
<1> DEFINE places == <<P, Q, T, lost>>
<1>8. DOMAIN places = {1, 2, 3, 4} /\ places[1] = P /\ places[2] = Q /\ places[3] = T
      /\ places[4] = lost
  OBVIOUS
<1>9. \A x, y \in DOMAIN places : x # y => places[x] \cap places[y] = {}
  BY <1>7, <1>8
<1>10. UNION ToSet(places) = Given
  <2>1. ToSet(places) = {P, Q, T, lost}
    BY <1>8 DEF ToSet
  <2> QED
    BY <1>7, <2>1
<1> QED
  BY <1>1, <1>5, <1>9, <1>10 DEF EveryByteOnce, P, Q, T
-----------------------------------------------------------------------------
(* The order of the bytes *)

\* In h, every byte of A comes before every byte of C.
AllBefore(h, A, C) == \A a \in A, c \in C : Before(h, a, c)

\* What comes in order does so in a longer sequence.
LEMMA BeforeLonger ==
  ASSUME NEW S, NEW h \in Seq(S), NEW t \in Seq(S), NEW a, NEW b, Before(h, a, b)
  PROVE  Before(h \o t, a, b)
<1>1. PICK k \in DOMAIN h, l \in DOMAIN h : k < l /\ h[k] = a /\ h[l] = b
  BY DEF Before
<1>2. k \in DOMAIN (h \o t) /\ l \in DOMAIN (h \o t) /\ (h \o t)[k] = a /\ (h \o t)[l] = b
  BY <1>1, ConcatElements
<1> QED
  BY <1>1, <1>2 DEF Before

LEMMA InOrderLonger ==
  ASSUME NEW S, NEW h \in Seq(S), NEW t \in Seq(S), NEW s, InOrder(h, s)
  PROVE  InOrder(h \o t, s)
<1> SUFFICES ASSUME NEW i \in DOMAIN s, NEW j \in DOMAIN s, i < j
             PROVE  Before(h \o t, s[i], s[j])
  BY DEF InOrder
<1>1. Before(h, s[i], s[j])
  BY DEF InOrder
<1> QED
  BY <1>1, BeforeLonger

\* What is appended is in order, and after all that was there.
LEMMA AppendedInOrder ==
  ASSUME NEW S, NEW h \in Seq(S), NEW t \in Seq(S)
  PROVE  InOrder(h \o t, t) /\ AllBefore(h \o t, ToSet(h), ToSet(t))
<1> DEFINE u == h \o t
           m == Len(h)
<1>1. m \in Nat /\ DOMAIN h \subseteq 1 .. m /\ DOMAIN t \subseteq Nat \ {0}
  BY LenProperties
<1>2. /\ \A i \in DOMAIN h : i \in DOMAIN u /\ u[i] = h[i]
      /\ \A j \in DOMAIN t : m + j \in DOMAIN u /\ u[m + j] = t[j]
  BY ConcatElements
<1>3. /\ \A b : b \in ToSet(h) <=> \E i \in DOMAIN h : h[i] = b
      /\ \A b : b \in ToSet(t) <=> \E i \in DOMAIN t : t[i] = b
  BY SetOfSeq
<1> HIDE DEF u, m
<1>4. InOrder(u, t)
  <2> SUFFICES ASSUME NEW i \in DOMAIN t, NEW j \in DOMAIN t, i < j PROVE Before(u, t[i], t[j])
    BY DEF InOrder
  <2>1. i \in Nat /\ j \in Nat
    BY <1>1
  <2>2. m + i < m + j
    BY <1>1, <2>1
  <2> QED
    BY <1>2, <2>2 DEF Before
<1>5. AllBefore(u, ToSet(h), ToSet(t))
  <2> SUFFICES ASSUME NEW a \in ToSet(h), NEW c \in ToSet(t) PROVE Before(u, a, c)
    BY DEF AllBefore
  <2>1. PICK i \in DOMAIN h : h[i] = a
    BY <1>3
  <2>2. PICK j \in DOMAIN t : t[j] = c
    BY <1>3
  <2>3. i \in 1 .. m /\ j \in Nat /\ j # 0
    BY <1>1
  <2>4. i < m + j
    BY <1>1, <2>3
  <2> QED
    BY <1>2, <2>1, <2>2, <2>4 DEF Before
<1> QED
  BY <1>4, <1>5 DEF u

\* Two buffers one after the other.
LEMMA OrderConcat ==
  ASSUME NEW h, NEW S, NEW s \in Seq(S), NEW t \in Seq(S)
  PROVE  InOrder(h, s \o t) <=> /\ InOrder(h, s) /\ InOrder(h, t)
                                /\ AllBefore(h, ToSet(s), ToSet(t))
<1> DEFINE u == s \o t
           m == Len(s)
<1>1. m \in Nat /\ DOMAIN s \subseteq 1 .. m /\ DOMAIN t \subseteq Nat \ {0}
  BY LenProperties
<1>2. /\ \A i \in DOMAIN s : i \in DOMAIN u /\ u[i] = s[i]
      /\ \A j \in DOMAIN t : m + j \in DOMAIN u /\ u[m + j] = t[j]
      /\ \A k \in DOMAIN u : k \in DOMAIN s \/ (k - m \in DOMAIN t /\ k = m + (k - m))
  BY ConcatElements
<1>3. /\ \A b : b \in ToSet(s) <=> \E i \in DOMAIN s : s[i] = b
      /\ \A b : b \in ToSet(t) <=> \E i \in DOMAIN t : t[i] = b
  BY SetOfSeq
<1> HIDE DEF u, m
<1>4. ASSUME InOrder(h, u)
      PROVE  InOrder(h, s) /\ InOrder(h, t) /\ AllBefore(h, ToSet(s), ToSet(t))
  <2>1. InOrder(h, s)
    BY <1>2, <1>4 DEF InOrder
  <2>2. InOrder(h, t)
    <3> SUFFICES ASSUME NEW i \in DOMAIN t, NEW j \in DOMAIN t, i < j PROVE Before(h, t[i], t[j])
      BY DEF InOrder
    <3>1. i \in Nat /\ j \in Nat
      BY <1>1
    <3>2. m + i < m + j
      BY <1>1, <3>1
    <3>3. m + i \in DOMAIN u /\ m + j \in DOMAIN u /\ u[m + i] = t[i] /\ u[m + j] = t[j]
      BY <1>2
    <3>4. Before(h, u[m + i], u[m + j])
      BY <1>4, <3>2, <3>3 DEF InOrder
    <3> QED
      BY <3>3, <3>4
  <2>3. ASSUME NEW a \in ToSet(s), NEW c \in ToSet(t) PROVE Before(h, a, c)
    <3>1. PICK i \in DOMAIN s : s[i] = a
      BY <1>3
    <3>2. PICK j \in DOMAIN t : t[j] = c
      BY <1>3
    <3>3. i \in 1 .. m /\ j \in Nat /\ j # 0
      BY <1>1
    <3>4. i < m + j
      BY <1>1, <3>3
    <3>5. i \in DOMAIN u /\ m + j \in DOMAIN u /\ u[i] = a /\ u[m + j] = c
      BY <1>2, <3>1, <3>2
    <3>6. Before(h, u[i], u[m + j])
      BY <1>4, <3>4, <3>5 DEF InOrder
    <3> QED
      BY <3>5, <3>6
  <2> QED
    BY <2>1, <2>2, <2>3 DEF AllBefore
<1>5. ASSUME InOrder(h, s), InOrder(h, t), AllBefore(h, ToSet(s), ToSet(t)) PROVE InOrder(h, u)
  <2> SUFFICES ASSUME NEW i \in DOMAIN u, NEW j \in DOMAIN u, i < j PROVE Before(h, u[i], u[j])
    BY DEF InOrder
  <2>1. CASE i \in DOMAIN s /\ j \in DOMAIN s
    <3>1. Before(h, s[i], s[j])
      BY <1>5, <2>1 DEF InOrder
    <3> QED
      BY <1>2, <2>1, <3>1
  <2>2. CASE i - m \in DOMAIN t /\ i = m + (i - m) /\ j - m \in DOMAIN t /\ j = m + (j - m)
    <3>1. u[i] = t[i - m] /\ u[j] = t[j - m]
      BY <1>2, <2>2
    <3>2. i - m \in Nat /\ j - m \in Nat
      BY <1>1, <2>2
    <3>3. i - m < j - m
      <4> DEFINE x == i - m
                 y == j - m
      <4>1. x \in Nat /\ y \in Nat /\ i = m + x /\ j = m + y
        BY <2>2, <3>2
      <4> HIDE DEF x, y
      <4>2. x < y
        BY <1>1, <4>1
      <4> QED
        BY <4>2 DEF x, y
    <3> QED
      BY <1>5, <2>2, <3>1, <3>3 DEF InOrder
  <2>3. CASE i \in DOMAIN s /\ j - m \in DOMAIN t /\ j = m + (j - m)
    <3>1. u[i] \in ToSet(s) /\ u[j] \in ToSet(t)
      BY <1>2, <1>3, <2>3
    <3> QED
      BY <1>5, <3>1 DEF AllBefore
  <2>4. CASE j \in DOMAIN s /\ i - m \in DOMAIN t /\ i = m + (i - m)
    <3> DEFINE x == i - m
    <3>1. j \in 1 .. m /\ x \in Nat /\ x # 0 /\ i = m + x
      BY <1>1, <2>4
    <3> HIDE DEF x
    <3>2. FALSE
      BY <1>1, <3>1
    <3> QED
      BY <3>2
  <2> QED
    BY <1>2, <2>1, <2>2, <2>3, <2>4
<1> QED
  BY <1>4, <1>5 DEF u

\* What was handed to writeSession is in three parts, each in the order of writing,
\* and what the loop is still writing was handed after all the rest.
OrderInv ==
  ~failed => /\ InOrder(handed, sent) /\ InOrder(handed, sendBuffer) /\ InOrder(handed, wbuf)
             /\ AllBefore(handed, ToSet(sent), ToSet(wbuf))
             /\ AllBefore(handed, ToSet(sendBuffer), ToSet(wbuf))
             /\ Distinct(wbuf)
             /\ ToSet(sent) \cap ToSet(sendBuffer) = {}
             /\ ToSet(sent) \cap ToSet(wbuf) = {}
             /\ ToSet(sendBuffer) \cap ToSet(wbuf) = {}
             /\ ToSet(sent) \cup ToSet(sendBuffer) \cup ToSet(wbuf) = ToSet(handed)

LEMMA InitOrderInv == Init => OrderInv
<1> SUFFICES ASSUME Init PROVE OrderInv
  OBVIOUS
<1>1. sent = <<>> /\ sendBuffer = <<>> /\ wbuf = <<>> /\ handed = <<>>
  BY DEF Init
<1>2. DOMAIN (<<>>) = {}
  OBVIOUS
<1>3. \A h : InOrder(h, <<>>) /\ AllBefore(h, {}, {})
  BY <1>2 DEF InOrder, AllBefore
<1> QED
  BY <1>1, <1>3, SetOfEmpty DEF OrderInv

\* writeSession, given bytes that are new to it.
LEMMA writeSessionOrder ==
  ASSUME OutputTypeOK, OrderInv, NEW buf \in Seq(Bytes), writeSession(buf), wbuf = <<>>,
         Distinct(buf), ToSet(buf) \cap (ToSet(sent) \cup ToSet(sendBuffer)) = {},
         UNCHANGED <<sent, sendBuffer, failed>>
  PROVE  OrderInv'
<1> SUFFICES ASSUME ~failed PROVE OrderInv'
  BY DEF OrderInv
<1>1. handed \in Seq(Bytes)
  BY DEF OutputTypeOK
<1> DEFINE S == ToSet(sent)
           B == ToSet(sendBuffer)
           H == ToSet(handed)
<1>2. /\ InOrder(handed, sent) /\ InOrder(handed, sendBuffer)
      /\ S \cap B = {} /\ S \cup B = H
  BY SetOfEmpty DEF OrderInv
<1>3. CASE state = "connected"
  <2> DEFINE h == handed \o buf
  <2>1. wbuf' = buf /\ handed' = h
    BY <1>3 DEF writeSession
  <2>2. InOrder(h, sent) /\ InOrder(h, sendBuffer)
    BY <1>1, <1>2, InOrderLonger
  <2>3. InOrder(h, buf) /\ AllBefore(h, H, ToSet(buf))
    BY <1>1, AppendedInOrder
  <2>4. ToSet(h) = H \cup ToSet(buf)
    BY <1>1, ConcatSet
  <2> HIDE DEF h
  <2>5. AllBefore(h, S, ToSet(buf)) /\ AllBefore(h, B, ToSet(buf))
    BY <1>2, <2>3 DEF AllBefore
  <2> QED
    BY <1>2, <2>1, <2>2, <2>3, <2>4, <2>5 DEF OrderInv
<1>4. CASE state # "connected"
  <2>1. wbuf' = wbuf /\ handed' = handed
    BY <1>4 DEF writeSession
  <2> QED
    BY <2>1 DEF OrderInv
<1> QED
  BY <1>3, <1>4

LEMMA NextOrderInv == TypeInv /\ ByteInv /\ OrderInv /\ [Next]_vars => OrderInv'
<1> SUFFICES ASSUME TypeInv, ByteInv, OrderInv, [Next]_vars PROVE OrderInv'
  OBVIOUS
<1> USE DEF sessVars, loopVars, history
<1>0. OutputTypeOK /\ EmptyBetween
  BY DEF TypeInv
<1>1. sent \in Seq(Bytes) /\ sendBuffer \in Seq(Bytes) /\ wbuf \in Seq(Bytes)
  BY <1>0 DEF OutputTypeOK
<1> DEFINE S == ToSet(sent)
           B == ToSet(sendBuffer)
           W == ToSet(wbuf)
<1>2. ~failed => /\ InOrder(handed, sent) /\ InOrder(handed, sendBuffer) /\ InOrder(handed, wbuf)
                 /\ AllBefore(handed, S, W) /\ AllBefore(handed, B, W) /\ Distinct(wbuf)
                 /\ S \cap B = {} /\ S \cap W = {} /\ B \cap W = {}
                 /\ S \cup B \cup W = ToSet(handed)
  BY DEF OrderInv
<1>3. CASE sendSome
  <2> SUFFICES ASSUME ~failed PROVE OrderInv'
    BY <1>3 DEF sendSome, OrderInv
  <2>1. PICK n \in 1 .. Len(wbuf) :
          sent' = sent \o SubSeq(wbuf, 1, n) /\ wbuf' = SubSeq(wbuf, n + 1, Len(wbuf))
    BY <1>3 DEF sendSome
  <2> DEFINE a == SubSeq(wbuf, 1, n)
             c == SubSeq(wbuf, n + 1, Len(wbuf))
             A == ToSet(a)
             C == ToSet(c)
  <2>2. UNCHANGED <<sendBuffer, handed, failed>> /\ sent' = sent \o a /\ wbuf' = c
    BY <1>3, <2>1 DEF sendSome
  <2>3. a \in Seq(Bytes) /\ c \in Seq(Bytes) /\ wbuf = a \o c
    BY <1>1, Split
  <2> HIDE DEF a, c
  <2>4. W = A \cup C /\ InOrder(handed, a) /\ InOrder(handed, c) /\ AllBefore(handed, A, C)
    BY <1>2, <2>3, ConcatSet, OrderConcat
  <2>5. A \cap C = {} /\ Distinct(c)
    BY <1>2, <2>3, ConcatDistinct
  <2> HIDE DEF A, C, S, B, W
  <2>6. AllBefore(handed, S, A) /\ AllBefore(handed, S \cup A, C) /\ AllBefore(handed, B, C)
    BY <1>2, <2>4 DEF AllBefore
  <2>7. InOrder(handed, sent \o a)
    BY <1>1, <1>2, <2>3, <2>4, <2>6, OrderConcat DEF S, A
  <2>8. ToSet(sent \o a) = S \cup A
    BY <1>1, <2>3, ConcatSet DEF S, A
  <2>9. /\ (S \cup A) \cap B = {} /\ (S \cup A) \cap C = {} /\ B \cap C = {}
        /\ (S \cup A) \cup B \cup C = ToSet(handed)
    BY <1>2, <2>4, <2>5
  <2> QED
    BY <1>2, <2>2, <2>4, <2>5, <2>6, <2>7, <2>8, <2>9 DEF OrderInv, B, C
<1>4. CASE sendError
  BY <1>4 DEF sendError, OrderInv
<1>5. CASE storeRest
  <2> SUFFICES ASSUME ~failed PROVE OrderInv'
    BY <1>5 DEF storeRest, OrderInv
  <2>1. /\ wbuf' = <<>> /\ sendBuffer' = sendBuffer \o wbuf
        /\ UNCHANGED <<sent, handed, failed>>
    BY <1>5 DEF storeRest
  <2>2. InOrder(handed, sendBuffer \o wbuf) /\ ToSet(sendBuffer \o wbuf) = B \cup W
    BY <1>1, <1>2, OrderConcat, ConcatSet
  <2>3. ToSet(<<>>) = {} /\ Distinct(<<>>) /\ InOrder(handed, <<>>)
    BY SetOfEmpty DEF InOrder
  <2>4. AllBefore(handed, S, {}) /\ AllBefore(handed, B \cup W, {})
    BY DEF AllBefore
  <2> HIDE DEF B, W
  <2> QED
    BY <1>2, <2>1, <2>2, <2>3, <2>4 DEF OrderInv
<1>6. CASE drainSend
  <2> DEFINE b == Head(queue).buf
  <2>1. ~crash /\ wbuf = <<>> /\ queue # <<>> /\ queue' = Tail(queue)
        /\ UNCHANGED <<sent, sendBuffer, failed>>
    BY <1>0, <1>6 DEF drainSend, LoopIdle, EmptyBetween
  <2>2. CASE state = "freed"
    <3>1. UNCHANGED <<wbuf, handed>>
      BY <1>6, <2>2 DEF drainSend
    <3> QED
      BY <2>1, <3>1 DEF OrderInv
  <2>3. CASE state # "freed"
    <3>1. writeSession(b)
      BY <1>6, <2>3 DEF drainSend
    <3>2. b \in Seq(Bytes)
      BY <1>0, <2>1, PopType DEF Messages
    <3>3. Apart(InMessages) /\ InPlace
      BY <2>1 DEF ByteInv
    <3>4. Distinct(b) /\ ToSet(b) \subseteq BytesOf(InMessages)
      BY <1>0, <2>1, <3>3, PopBytes
    <3>5. ToSet(b) \cap (S \cup B) = {}
      BY <3>3, <3>4 DEF InPlace, Parted
    <3> HIDE DEF b
    <3> QED
      BY <1>0, <2>1, <3>1, <3>2, <3>4, <3>5, writeSessionOrder
  <2> QED
    BY <2>2, <2>3
<1>7. ASSUME NEW n \in 1 .. MaxLen, writeHere(n) PROVE OrderInv'
  <2> DEFINE b == NewBuffer(Loop, n)
  <2>1. /\ ~crash /\ wbuf = <<>> /\ Makes(Loop, n) /\ writeSession(b)
        /\ UNCHANGED <<sent, sendBuffer, failed>>
    BY <1>0, <1>7 DEF writeHere, LoopIdle, EmptyBetween
  <2>2. n \in Nat /\ n # 0 /\ Loop \in Writers
    BY SessionOutputAssumption DEF Writers
  <2>3. b \in Seq(Bytes) /\ Distinct(b) /\ ToSet(b) \cap Given = {}
    BY <1>0, <2>1, <2>2, NewBufferIs
  <2>4. S \subseteq Given /\ B \subseteq Given
    BY <2>1 DEF ByteInv, InPlace, Parted
  <2> HIDE DEF b
  <2> QED
    BY <1>0, <2>1, <2>3, <2>4, writeSessionOrder
<1>8. CASE writeComplete \/ drainRemove \/ removeHere \/ peerReads \/ UNCHANGED vars
           \/ (\E t \in Senders : senderStep(t)) \/ \E t \in Writers : lateCall(t)
  <2>1. UNCHANGED <<sent, sendBuffer, wbuf, handed, failed>>
    BY <1>8 DEF writeComplete, drainRemove, removeHere, peerReads, senderStep, sendCheck,
                sendPush, removeCheck, removePush, lateCall, vars
  <2> QED
    BY <2>1 DEF OrderInv
<1> QED
  BY <1>3, <1>4, <1>5, <1>6, <1>7, <1>8 DEF Next, loopStep

\* What is out or on its way out is one stream, what is stored another.
LEMMA OrderInvMeans == TypeInv /\ OrderInv => GapIsSendBuffer
<1> SUFFICES ASSUME TypeInv, OrderInv, ~failed PROVE GapIsSendBuffer
  BY DEF GapIsSendBuffer
<1>1. sent \in Seq(Bytes) /\ wbuf \in Seq(Bytes)
  BY DEF TypeInv, OutputTypeOK
<1>2. InOrder(handed, sent \o wbuf)
  BY <1>1, OrderConcat DEF OrderInv
<1>3. ToSet(sent \o wbuf) = ToSet(sent) \cup ToSet(wbuf)
  BY <1>1, ConcatSet
<1> QED
  BY <1>2, <1>3 DEF OrderInv, GapIsSendBuffer
\* Until a send fails or the socket does not take all of a buffer, what the peer
\* gets, and what the loop is about to send, is the stream as it was written.
StreamWhole == ~failed /\ sendBuffer = <<>> => handed = sent \o wbuf

LEMMA NextStreamWhole == TypeInv /\ StreamWhole /\ [Next]_vars => StreamWhole'
<1> SUFFICES ASSUME TypeInv, StreamWhole, [Next]_vars, ~failed', sendBuffer' = <<>>
             PROVE  handed' = sent' \o wbuf'
  BY DEF StreamWhole
<1> USE DEF sessVars, loopVars, history
<1>1. sent \in Seq(Bytes) /\ sendBuffer \in Seq(Bytes) /\ wbuf \in Seq(Bytes)
      /\ EmptyBetween /\ OutputTypeOK
  BY DEF TypeInv, OutputTypeOK
<1>2. ASSUME UNCHANGED <<failed, sendBuffer>> PROVE handed = sent \o wbuf
  BY <1>2 DEF StreamWhole
<1>3. CASE sendSome
  <2>1. PICK n \in 1 .. Len(wbuf) :
          sent' = sent \o SubSeq(wbuf, 1, n) /\ wbuf' = SubSeq(wbuf, n + 1, Len(wbuf))
    BY <1>3 DEF sendSome
  <2> DEFINE a == SubSeq(wbuf, 1, n)
             c == SubSeq(wbuf, n + 1, Len(wbuf))
  <2>2. UNCHANGED <<sendBuffer, handed, failed>> /\ sent' = sent \o a /\ wbuf' = c
    BY <1>3, <2>1 DEF sendSome
  <2>3. a \in Seq(Bytes) /\ c \in Seq(Bytes) /\ a \o c = wbuf
    BY <1>1, Split
  <2> HIDE DEF a, c
  <2>4. (sent \o a) \o c = sent \o (a \o c)
    <3>1. sent \in Seq(Bytes) /\ a \in Seq(Bytes) /\ c \in Seq(Bytes)
      BY <1>1, <2>3
    <3> QED
      BY <3>1, ConcatAssociative, SMTT(30)
  <2>5. handed = sent \o (a \o c)
    BY <1>2, <2>2, <2>3
  <2> QED
    BY <2>2, <2>4, <2>5, Zenon
<1>4. CASE sendError
  BY <1>4 DEF sendError
<1>5. CASE storeRest
  <2>1. wbuf # <<>> /\ sendBuffer \o wbuf = <<>>
    BY <1>5 DEF storeRest
  <2>2. ToSet(wbuf) = {}
    BY <1>1, <2>1, ConcatSet, SetOfEmpty
  <2>3. DOMAIN wbuf = {}
    BY <2>2 DEF ToSet
  <2>4. Len(wbuf) = 0
    <3>1. Len(wbuf) \in Nat /\ DOMAIN wbuf = 1 .. Len(wbuf)
      BY <1>1, LenProperties
    <3> QED
      BY <2>3, <3>1
  <2> QED
    BY <1>1, <2>1, <2>4, EmptySeq
<1>6. ASSUME NEW b \in Seq(Bytes), writeSession(b), wbuf = <<>>,
             UNCHANGED <<sent, sendBuffer, failed>>
      PROVE  handed' = sent' \o wbuf'
  <2>1. handed = sent
    BY <1>1, <1>2, <1>6, ConcatEmptySeq
  <2>2. CASE state = "connected"
    BY <1>6, <2>1, <2>2 DEF writeSession
  <2>3. CASE state # "connected"
    <3>1. wbuf' = wbuf /\ handed' = handed /\ sent' = sent
      BY <1>6, <2>3 DEF writeSession
    <3> QED
      BY <1>2, <1>6, <3>1
  <2> QED
    BY <2>2, <2>3
<1>7. CASE drainSend
  <2> DEFINE b == Head(queue).buf
  <2>1. wbuf = <<>> /\ queue # <<>> /\ UNCHANGED <<sent, sendBuffer, failed>>
    BY <1>1, <1>7 DEF drainSend, LoopIdle, EmptyBetween
  <2>2. b \in Seq(Bytes)
    BY <1>1, <2>1, PopType DEF Messages
  <2>3. UNCHANGED <<wbuf, handed>> \/ writeSession(b)
    BY <1>7 DEF drainSend
  <2> HIDE DEF b
  <2> QED
    BY <1>2, <1>6, <2>1, <2>2, <2>3
<1>8. ASSUME NEW n \in 1 .. MaxLen, writeHere(n) PROVE handed' = sent' \o wbuf'
  <2> DEFINE b == NewBuffer(Loop, n)
  <2>1. /\ wbuf = <<>> /\ Makes(Loop, n) /\ writeSession(b)
        /\ UNCHANGED <<sent, sendBuffer, failed>>
    BY <1>1, <1>8 DEF writeHere, LoopIdle, EmptyBetween
  <2>2. n \in Nat /\ n # 0 /\ Loop \in Writers
    BY SessionOutputAssumption DEF Writers
  <2>3. b \in Seq(Bytes)
    BY <1>1, <2>1, <2>2, NewBufferIs
  <2> HIDE DEF b
  <2> QED
    BY <1>6, <2>1, <2>3
<1>9. CASE writeComplete \/ drainRemove \/ removeHere \/ peerReads \/ UNCHANGED vars
           \/ (\E t \in Senders : senderStep(t)) \/ \E t \in Writers : lateCall(t)
  <2>1. UNCHANGED <<sent, sendBuffer, wbuf, handed, failed>>
    BY <1>9 DEF writeComplete, drainRemove, removeHere, peerReads, senderStep, sendCheck,
                sendPush, removeCheck, removePush, lateCall, vars
  <2> QED
    BY <1>2, <2>1
<1> QED
  BY <1>3, <1>4, <1>5, <1>7, <1>8, <1>9 DEF Next, loopStep
-----------------------------------------------------------------------------
(* The theorems *)

OutputInv == TypeInv /\ MaskInv /\ RaceInv /\ ByteInv /\ OrderInv

\* The four invariants together are kept by every step of the loop, of the threads
\* that send and of the peer (session.c:73-132, eventLoop.c:37-61, 246-292).
THEOREM OutputInvariant == Spec => []OutputInv
<1>1. Init => OutputInv
  BY InitTypeInv, InitMaskInv, InitRaceInv, InitByteInv, InitOrderInv DEF OutputInv
<1>2. OutputInv /\ [Next]_vars => OutputInv'
  BY NextTypeInv, NextMaskInv, NextRaceInv, NextByteInv, NextOrderInv DEF OutputInv
<1> QED
  BY <1>1, <1>2, PTL DEF Spec

\* Every variable keeps its type; between two writes the loop holds no bytes.
THEOREM OutputTypeCorrect == Spec => []TypeInv
<1>1. OutputInv => TypeInv
  BY DEF OutputInv
<1> QED
  BY <1>1, OutputInvariant, PTL

\* Whatever the number of threads, their interleaving, the sizes of the queue and
\* of the socket's buffer and the parts send takes, no byte given to
\* sendSessionEvent or writeSession is duplicated or forgotten.
THEOREM OutputEveryByteOnce == Spec => []EveryByteOnce
<1>1. OutputInv => EveryByteOnce
  BY ByteInvMeans DEF OutputInv
<1> QED
  BY <1>1, OutputInvariant, PTL

\* What the peer gets keeps the order of writing, and what it misses of it is
\* exactly what is in the send buffer.
THEOREM OutputGapIsSendBuffer == Spec => []GapIsSendBuffer
<1>1. OutputInv => GapIsSendBuffer
  BY OrderInvMeans DEF OutputInv
<1> QED
  BY <1>1, OutputInvariant, PTL

\* Until the first send that fails or takes only a part, the peer gets exactly the
\* stream that was written (session.c:93-121).
THEOREM OutputStreamWhole == Spec => []StreamWhole
<1>1. Init => StreamWhole
  <2> SUFFICES ASSUME Init PROVE handed = sent \o wbuf
    BY DEF StreamWhole
  <2>1. handed = <<>> /\ sent = <<>> /\ wbuf = <<>> /\ <<>> \in Seq(Bytes)
    BY EmptySeq DEF Init
  <2> QED
    BY <2>1, ConcatEmptySeq
<1> QED
  BY <1>1, NextStreamWhole, OutputTypeCorrect, PTL DEF Spec

\* After a partial write no event of the session is asked for: nothing will ever
\* send the rest.
THEOREM OutputStalledUnwatched == Spec => []StalledUnwatched
<1>1. OutputInv => StalledUnwatched
  BY DEF OutputInv, MaskInv
<1> QED
  BY <1>1, OutputInvariant, PTL

\* The loop or a thread uses a freed session only in a call begun after it was
\* freed, or when its removal was concurrent with another call or overtook messages.
THEOREM OutputFreedUseIsLateOrRace == Spec => []FreedUseIsLateOrRace
<1>1. OutputInv => FreedUseIsLateOrRace
  BY DEF OutputInv, RaceInv
<1> QED
  BY <1>1, OutputInvariant, PTL
=============================================================================
