--------------------------- MODULE FileEvents_proofs ---------------------------
(***************************************************************************)
(* Theorems about FileEvents, for any number of descriptors and any size   *)
(* of the table: no helper's descriptor is in nobody's hands unawares, the *)
(* table and epoll agree, and a batch calls live handlers, all of them.    *)
(***************************************************************************)
EXTENDS FileEvents, FiniteSetTheorems, SequenceTheorems, TLAPS

\* What epoll has is in the table; the converse is AskedIsWatched.
EpollInTable == \A f \in DOMAIN epoll : f \in held \cap Slots /\ epoll[f] = mask[f]

TableInv == EventsTypeOK /\ OpenIsHeld /\ MaxfdIsMax /\ EpollInTable /\ AskedIsWatched

Entries == [fd : Slots, mask : SUBSET Events]

\* Entry i of the batch will be asked for event e of f, if the first has not been.
Ahead(i, f, e) ==
  /\ fired[i].fd = f /\ e \in fired[i].mask
  /\ i = 1 => pc = "read" \/ (pc \in {"inRead", "write"} /\ e = "WRITABLE")

\* An event that is due is still registered, and its entry is still ahead.
DueIsAhead ==
  \A f \in Slots : \A e \in due[f] :
    e \in mask[f] /\ \E i \in DOMAIN fired : Ahead(i, f, e)

BatchInv ==
  /\ due \in [Slots -> SUBSET Events]
  /\ fired \in Seq(Entries) /\ (fired = <<>> <=> pc \in {"poll", "timers"})
  /\ DueIsAhead

FilesInv == TableInv /\ BatchInv

LEMMA SlotsAreInts == Slots \subseteq Fds /\ Fds \subseteq Nat /\ -1 \notin Fds
BY AnetAssumption DEF Slots, Fds
-----------------------------------------------------------------------------
(* Handlers *)

\* A helper opens a descriptor that was not open, and its caller or nobody has it.
LEMMA HelperOpens ==
  ASSUME NEW ret,
         \/ \E flag \in {0, 1} : anetTcpGenericConnectEx(ret, flag)
         \/ \E nonblock \in BOOLEAN : anetGenericConnect(nonblock, ret)
         \/ anetServer(ret)
         \/ anetAccept(ret)
  PROVE  \/ ret = ANET_ERR /\ UNCHANGED <<open, lost>>
         \/ ret \in Fds \ open /\ open' = open \cup {ret} /\ UNCHANGED lost
         \/ ret = ANET_ERR /\ \E fd \in Fds \ open : open' = open \cup {fd} /\ lost' = lost \cup {fd}
BY DEF anetTcpGenericConnectEx, anetGenericConnect, anetServer, anetAccept, anetListen,
       anetCreateSocket, Gives, Loses, Fails, Lowest, Free, anetVars

LEMMA OpenKeepsTable ==
  ASSUME TableInv, openFile
  PROVE  TableInv'
<1>1. PICK ret \in Rets :
        /\ \/ ret = ANET_ERR /\ UNCHANGED <<open, lost>>
           \/ ret \in Fds \ open /\ open' = open \cup {ret} /\ UNCHANGED lost
           \/ ret = ANET_ERR /\ \E fd \in Fds \ open : open' = open \cup {fd} /\ lost' = lost \cup {fd}
        /\ held' = held \cup ({ret} \ {ANET_ERR})
  <2>1. PICK ret \in Rets :
          /\ \/ \E flag \in {0, 1} : anetTcpGenericConnectEx(ret, flag)
             \/ \E nonblock \in BOOLEAN : anetGenericConnect(nonblock, ret)
             \/ anetServer(ret)
             \/ anetAccept(ret)
          /\ held' = held \cup ({ret} \ {ANET_ERR})
    BY DEF openFile
  <2> QED
    BY <2>1, HelperOpens
<1>2. UNCHANGED <<asked, mask, same, maxfd, epoll, astray, pc>>
  BY DEF openFile, tableVars, dispatchVars
<1>3. ANET_ERR \notin Fds
  BY SlotsAreInts DEF ANET_ERR
<1>4. /\ open' \subseteq Fds /\ lost' \subseteq open' /\ held' \subseteq open'
      /\ held \subseteq held' /\ open \subseteq open' /\ OpenIsHeld'
  BY <1>1, <1>3 DEF TableInv, EventsTypeOK, OpenIsHeld
<1>5. EventsTypeOK' /\ EpollInTable'
  BY <1>2, <1>4 DEF TableInv, EventsTypeOK, EpollInTable
<1>6. MaxfdIsMax' /\ AskedIsWatched'
  BY <1>2 DEF TableInv, MaxfdIsMax, Registered, AskedIsWatched, Watched
<1> QED
  BY <1>4, <1>5, <1>6 DEF TableInv

LEMMA CreateKeepsTable ==
  ASSUME TableInv, NEW f \in Fds, NEW m \in Masks, aeCreateFileEvent(f, m)
  PROVE  TableInv' /\ \A g \in Slots : mask[g] \subseteq mask'[g]
<1>1. /\ f \in held \cap Slots /\ m \subseteq Events /\ m # {}
      /\ asked' = [asked EXCEPT ![f] = @ \cup m]
      /\ UNCHANGED <<open, lost, held, pc>>
  BY DEF aeCreateFileEvent, anetVars, dispatchVars, Masks
<1>2. \A g \in Slots : asked'[g] = IF g = f THEN asked[f] \cup m ELSE asked[g]
  BY <1>1 DEF TableInv, EventsTypeOK
<1>3. asked' \in [Slots -> SUBSET Events] /\ OpenIsHeld'
  BY <1>1 DEF TableInv, EventsTypeOK, OpenIsHeld
<1>4. CASE /\ aeApiAddEvent(f, m) /\ mask' = [mask EXCEPT ![f] = @ \cup m]
           /\ same' = [same EXCEPT ![f] = m = Events]
           /\ maxfd' = IF f > maxfd THEN f ELSE maxfd
           /\ UNCHANGED astray
  <2>1. \A g \in Slots : mask'[g] = IF g = f THEN mask[f] \cup m ELSE mask[g]
    BY <1>1, <1>4 DEF TableInv, EventsTypeOK
  <2>2. /\ DOMAIN epoll' = {f} \cup DOMAIN epoll
        /\ \A g \in DOMAIN epoll' : epoll'[g] = IF g = f THEN m \cup mask[f] ELSE epoll[g]
        /\ (mask[f] # {} <=> f \in DOMAIN epoll)
    BY <1>4 DEF aeApiAddEvent
  <2>3. mask' \in [Slots -> SUBSET Events] /\ same' \in [Slots -> BOOLEAN]
    BY <1>1, <1>4 DEF TableInv, EventsTypeOK
  <2>4. Registered' = Registered \cup {f}
    BY <1>1, <2>1 DEF Registered
  <2>5. MaxfdIsMax' /\ maxfd' \in Slots \cup {-1}
    <3>1. maxfd \in Slots \cup {-1} /\ MaxfdIsMax /\ f \in Slots
      BY <1>1 DEF TableInv, EventsTypeOK
    <3>2. maxfd \in Int /\ f \in Nat /\ \A g \in Registered : g \in Nat
      BY <3>1, SlotsAreInts DEF Registered
    <3> QED
      BY <1>4, <2>4, <3>1, <3>2 DEF MaxfdIsMax
  <2>6. \A g \in DOMAIN epoll' : g \in held' \cap Slots /\ epoll'[g] = mask'[g] /\ epoll'[g] \in Masks
    BY <1>1, <2>1, <2>2 DEF TableInv, EpollInTable, EventsTypeOK, Masks
  <2>7. EventsTypeOK' /\ EpollInTable'
    BY <1>1, <1>3, <1>4, <2>3, <2>5, <2>6 DEF TableInv, EventsTypeOK, EpollInTable
  <2>8. AskedIsWatched'
    <3> SUFFICES ASSUME NEW g \in Slots, g \notin astray PROVE asked'[g] = mask'[g] /\ Watched(g)' = mask'[g]
      BY <1>4 DEF AskedIsWatched
    <3>1. asked[g] = mask[g] /\ Watched(g) = mask[g]
      BY DEF TableInv, AskedIsWatched
    <3> QED
      BY <1>2, <2>1, <2>2, <3>1 DEF Watched
  <2> QED
    BY <1>3, <2>1, <2>5, <2>7, <2>8 DEF TableInv
<1>5. CASE astray' = astray \cup {f} /\ UNCHANGED <<mask, same, maxfd, epoll>>
  <2>1. EventsTypeOK' /\ EpollInTable' /\ MaxfdIsMax'
    BY <1>1, <1>3, <1>5 DEF TableInv, EventsTypeOK, EpollInTable, MaxfdIsMax, Registered
  <2>2. AskedIsWatched'
    BY <1>2, <1>5 DEF TableInv, AskedIsWatched, Watched
  <2> QED
    BY <1>3, <1>5, <2>1, <2>2 DEF TableInv
<1> QED
  BY <1>4, <1>5 DEF aeCreateFileEvent

LEMMA DeleteKeepsTable ==
  ASSUME TableInv, NEW f \in Fds, NEW m \in Masks, aeDeleteFileEvent(f, m)
  PROVE  /\ TableInv'
         /\ \A g \in Slots : mask'[g] = IF g = f THEN mask[f] \ m ELSE mask[g]
<1>1. /\ f \in held \cap Slots /\ m \subseteq Events
      /\ asked' = [asked EXCEPT ![f] = @ \ m]
      /\ Settle(astray)
      /\ UNCHANGED <<open, lost, held, same, pc>>
  BY DEF aeDeleteFileEvent, anetVars, dispatchVars, Masks
<1>2. \A g \in Slots : asked'[g] = IF g = f THEN asked[f] \ m ELSE asked[g]
  BY <1>1 DEF TableInv, EventsTypeOK
<1>3. asked' \in [Slots -> SUBSET Events] /\ OpenIsHeld'
  BY <1>1 DEF TableInv, EventsTypeOK, OpenIsHeld
<1>4. /\ mask' \in [Slots -> SUBSET Events]
      /\ \A g \in Slots : mask'[g] = IF g = f THEN mask[f] \ m ELSE mask[g]
  <2>1. CASE f \in Registered
    BY <1>1, <2>1 DEF aeDeleteFileEvent, TableInv, EventsTypeOK
  <2>2. CASE f \notin Registered
    BY <1>1, <2>2 DEF aeDeleteFileEvent, TableInv, EventsTypeOK, Registered
  <2> QED
    BY <2>1, <2>2
<1>5. MaxfdIsMax' /\ maxfd' \in Slots \cup {-1}
  <2>1. /\ Registered' \subseteq Registered /\ Registered \ {f} \subseteq Registered'
        /\ Registered' \subseteq Slots
    BY <1>1, <1>4 DEF Registered
  <2>2. maxfd \in Slots \cup {-1} /\ MaxfdIsMax
    BY DEF TableInv, EventsTypeOK
  <2>3. CASE f \in Registered /\ lowerMaxfd(f, Registered')
    <3>1. CASE f = maxfd /\ f \notin Registered'
      BY <2>1, <2>3, <3>1 DEF lowerMaxfd, MaxfdIsMax
    <3>2. CASE ~(f = maxfd /\ f \notin Registered')
      BY <2>1, <2>2, <2>3, <3>2 DEF lowerMaxfd, MaxfdIsMax
    <3> QED
      BY <3>1, <3>2
  <2>4. CASE f \notin Registered /\ UNCHANGED maxfd
    BY <2>1, <2>2, <2>4 DEF MaxfdIsMax
  <2> QED
    BY <2>3, <2>4 DEF aeDeleteFileEvent
<1>6. \A g \in Slots : /\ g \in DOMAIN epoll' <=> g \in DOMAIN epoll /\ mask'[g] # {}
                       /\ g \in DOMAIN epoll' => epoll'[g] = mask'[g]
  <2>1. \A g \in DOMAIN epoll : g \in held \cap Slots /\ epoll[g] = mask[g] /\ epoll[g] # {}
    BY DEF TableInv, EpollInTable, EventsTypeOK, Masks
  <2>2. CASE f \in Registered /\ aeApiDelEvent(f, mask[f] \ m)
    BY <1>4, <2>1, <2>2 DEF aeApiDelEvent, Restrict
  <2>3. CASE f \notin Registered /\ UNCHANGED epoll
    BY <1>1, <1>4, <2>1, <2>3 DEF Registered
  <2> QED
    BY <2>2, <2>3 DEF aeDeleteFileEvent
<1>7. DOMAIN epoll' \subseteq DOMAIN epoll
  BY DEF aeDeleteFileEvent, aeApiDelEvent, Restrict
<1>8. EpollInTable' /\ \A g \in DOMAIN epoll' : epoll'[g] \in Masks
  BY <1>1, <1>4, <1>6, <1>7 DEF TableInv, EpollInTable, Masks
<1>9. astray' \subseteq astray
  BY <1>1 DEF Settle
<1>10. EventsTypeOK'
  BY <1>1, <1>3, <1>4, <1>5, <1>7, <1>8, <1>9 DEF TableInv, EventsTypeOK
<1>11. AskedIsWatched'
  <2> SUFFICES ASSUME NEW g \in Slots, g \notin astray'
               PROVE  asked'[g] = mask'[g] /\ Watched(g)' = mask'[g]
    BY DEF AskedIsWatched
  <2>1. CASE g \in astray
    <3>1. asked'[g] = {} /\ mask'[g] = {}
      BY <1>1, <2>1 DEF Settle
    <3> QED
      BY <1>6, <3>1 DEF Watched
  <2>2. CASE g \notin astray
    <3>1. asked[g] = mask[g] /\ Watched(g) = mask[g]
      BY <2>2 DEF TableInv, AskedIsWatched
    <3>2. asked'[g] = mask'[g]
      BY <1>2, <1>4, <3>1
    <3>3. mask'[g] # {} => g \in DOMAIN epoll
      BY <1>4, <3>1 DEF Watched
    <3> QED
      BY <1>6, <3>2, <3>3 DEF Watched
  <2> QED
    BY <2>1, <2>2
<1> QED
  BY <1>3, <1>4, <1>5, <1>8, <1>10, <1>11 DEF TableInv

LEMMA CloseKeepsTable ==
  ASSUME TableInv, NEW f \in Fds, closeFile(f)
  PROVE  TableInv'
<1>1. /\ f \in held /\ open' = open \ {f} /\ held' = held \ {f}
      /\ epoll' = Restrict(epoll, DOMAIN epoll \ {f})
      /\ UNCHANGED <<lost, mask, same, maxfd, pc>>
  BY DEF closeFile, dispatchVars
<1>2. OpenIsHeld' /\ open' \subseteq Fds /\ lost' \subseteq open' /\ held' \subseteq open'
  BY <1>1 DEF TableInv, EventsTypeOK, OpenIsHeld
<1>3. DOMAIN epoll' = DOMAIN epoll \ {f} /\ \A g \in DOMAIN epoll' : epoll'[g] = epoll[g]
  BY <1>1 DEF Restrict
<1>4. EpollInTable' /\ MaxfdIsMax'
  BY <1>1, <1>3 DEF TableInv, EpollInTable, MaxfdIsMax, Registered
<1>5. CASE f \in Slots /\ asked' = [asked EXCEPT ![f] = {}] /\ Settle(astray \cup {f})
  <2>1. \A g \in Slots : asked'[g] = IF g = f THEN {} ELSE asked[g]
    BY <1>5 DEF TableInv, EventsTypeOK
  <2>2. asked' \in [Slots -> SUBSET Events] /\ astray' \subseteq Slots
    BY <1>5 DEF TableInv, EventsTypeOK, Settle
  <2>3. EventsTypeOK'
    BY <1>1, <1>2, <1>3, <2>2 DEF TableInv, EventsTypeOK
  <2>4. AskedIsWatched'
    <3> SUFFICES ASSUME NEW g \in Slots, g \notin astray'
                 PROVE  asked'[g] = mask'[g] /\ Watched(g)' = mask'[g]
      BY DEF AskedIsWatched
    <3>1. CASE g \in astray \cup {f}
      <4>1. asked'[g] = {} /\ mask'[g] = {}
        BY <1>5, <3>1 DEF Settle
      <4>2. g \notin DOMAIN epoll'
        BY <1>1, <1>3, <4>1 DEF TableInv, EpollInTable, EventsTypeOK, Masks
      <4> QED
        BY <4>1, <4>2 DEF Watched
    <3>2. CASE g \notin astray \cup {f}
      BY <1>1, <1>3, <2>1, <3>2 DEF TableInv, AskedIsWatched, Watched
    <3> QED
      BY <3>1, <3>2
  <2> QED
    BY <1>2, <1>4, <2>3, <2>4 DEF TableInv
<1>6. CASE f \notin Slots /\ UNCHANGED <<asked, astray>>
  <2>1. EventsTypeOK'
    BY <1>1, <1>2, <1>3, <1>6 DEF TableInv, EventsTypeOK
  <2>2. AskedIsWatched'
    BY <1>1, <1>3, <1>6 DEF TableInv, AskedIsWatched, Watched
  <2> QED
    BY <1>2, <1>4, <2>1, <2>2 DEF TableInv
<1> QED
  BY <1>5, <1>6 DEF closeFile
-----------------------------------------------------------------------------
(* The batch *)

\* Each handler leaves the batch alone, and takes what it asks for or deletes off
\* what is due.
LEMMA HandlerKeepsBatch ==
  ASSUME BatchInv, UNCHANGED <<pc, fired>>, due' \in [Slots -> SUBSET Events],
         \A f \in Slots : \A e \in due'[f] : e \in due[f] /\ e \in mask'[f]
  PROVE  BatchInv'
<1>1. \A i, f, e : Ahead(i, f, e) => Ahead(i, f, e)'
  BY DEF Ahead
<1>2. DueIsAhead'
  BY <1>1 DEF BatchInv, DueIsAhead
<1> QED
  BY <1>2 DEF BatchInv

LEMMA HandlerKeeps ==
  ASSUME FilesInv, handlerStep
  PROVE  FilesInv'
<1>0. TableInv /\ BatchInv /\ mask \in [Slots -> SUBSET Events] /\ due \in [Slots -> SUBSET Events]
  BY DEF FilesInv, TableInv, BatchInv, EventsTypeOK
<1>1. CASE openFile
  <2>1. UNCHANGED <<pc, fired, due, mask>>
    BY <1>1 DEF openFile, dispatchVars, tableVars
  <2>2. BatchInv'
    BY <1>0, <2>1, HandlerKeepsBatch DEF BatchInv, DueIsAhead
  <2> QED
    BY <1>0, <1>1, <2>2, OpenKeepsTable DEF FilesInv
<1>2. ASSUME NEW f \in Fds, closeFile(f) PROVE FilesInv'
  <2>1. UNCHANGED <<pc, fired, mask>> /\ due' \in {due, [due EXCEPT ![f] = {}]}
    BY <1>2 DEF closeFile, dispatchVars
  <2>2. due' \in [Slots -> SUBSET Events] /\ \A g \in Slots : due'[g] \subseteq due[g]
    BY <1>0, <2>1
  <2>3. BatchInv'
    BY <1>0, <2>1, <2>2, HandlerKeepsBatch DEF BatchInv, DueIsAhead
  <2> QED
    BY <1>0, <1>2, <2>3, CloseKeepsTable DEF FilesInv
<1>3. ASSUME NEW f \in Fds, NEW m \in Masks, aeCreateFileEvent(f, m) PROVE FilesInv'
  <2>1. UNCHANGED <<pc, fired>> /\ due' \in {due, [due EXCEPT ![f] = @ \ m]}
    BY <1>3 DEF aeCreateFileEvent, dispatchVars
  <2>2. due' \in [Slots -> SUBSET Events] /\ \A g \in Slots : due'[g] \subseteq due[g]
    BY <1>0, <2>1
  <2>3. TableInv' /\ \A g \in Slots : mask[g] \subseteq mask'[g]
    BY <1>0, <1>3, CreateKeepsTable
  <2>4. BatchInv'
    BY <1>0, <2>1, <2>2, <2>3, HandlerKeepsBatch DEF BatchInv, DueIsAhead
  <2> QED
    BY <2>3, <2>4 DEF FilesInv
<1>4. ASSUME NEW f \in Fds, NEW m \in Masks, aeDeleteFileEvent(f, m) PROVE FilesInv'
  <2>1. UNCHANGED <<pc, fired>> /\ f \in Slots
    BY <1>4 DEF aeDeleteFileEvent, dispatchVars
  <2>2. TableInv' /\ \A g \in Slots : mask'[g] = IF g = f THEN mask[f] \ m ELSE mask[g]
    BY <1>0, <1>4, DeleteKeepsTable
  <2>3. /\ due' \in [Slots -> SUBSET Events]
        /\ \A g \in Slots : due'[g] \subseteq IF g = f THEN due[f] \ m ELSE due[g]
    <3>1. CASE f \in Registered /\ due' = [due EXCEPT ![f] = @ \ m]
      BY <1>0, <3>1
    <3>2. CASE f \notin Registered /\ due' = due
      BY <1>0, <2>1, <3>2 DEF BatchInv, DueIsAhead, Registered
    <3> QED
      BY <1>4, <3>1, <3>2 DEF aeDeleteFileEvent
  <2>4. BatchInv'
    BY <1>0, <2>1, <2>2, <2>3, HandlerKeepsBatch DEF BatchInv, DueIsAhead
  <2> QED
    BY <2>2, <2>4 DEF FilesInv
<1> QED
  BY <1>1, <1>2, <1>3, <1>4 DEF handlerStep

\* The next entry is the first of those that are left.
LEMMA NextEntryKeeps ==
  ASSUME BatchInv, pc \in {"write", "inWrite"}, NextEntry, UNCHANGED mask,
         due' \in [Slots -> SUBSET Events],
         \A f \in Slots : due'[f] \subseteq due[f],
         pc = "write" => \A f \in Slots :
           "WRITABLE" \in due'[f] => ~(fired[1].fd = f /\ "WRITABLE" \in fired[1].mask)
  PROVE  BatchInv'
<1>1. /\ fired \in Seq(Entries) /\ fired # <<>> /\ fired' = Tail(fired)
      /\ Len(fired) \in Nat /\ DOMAIN fired = 1 .. Len(fired) /\ Len(fired) > 0
  BY DEF BatchInv, NextEntry
<1>2. /\ fired' \in Seq(Entries) /\ Len(fired') = Len(fired) - 1 /\ DOMAIN fired' = 1 .. Len(fired')
      /\ \A i \in DOMAIN fired' : fired'[i] = fired[i + 1]
  BY <1>1, HeadTailProperties
<1>3. fired' = <<>> <=> pc' \in {"poll", "timers"}
  <2>1. fired' = <<>> <=> Len(fired') = 0
    BY <1>2, EmptySeq
  <2>2. Len(fired') = 0 <=> Len(fired) = 1
    BY <1>1, <1>2
  <2>3. pc' = IF Len(fired) = 1 THEN "timers" ELSE "read"
    BY DEF NextEntry
  <2> QED
    BY <2>1, <2>2, <2>3
<1>4. DueIsAhead'
  <2> SUFFICES ASSUME NEW f \in Slots, NEW e \in due'[f]
               PROVE  e \in mask'[f] /\ \E j \in DOMAIN fired' : Ahead(j, f, e)'
    BY DEF DueIsAhead
  <2>1. e \in mask[f] /\ \E i \in DOMAIN fired : Ahead(i, f, e)
    BY DEF BatchInv, DueIsAhead
  <2>2. PICK i \in DOMAIN fired : Ahead(i, f, e)
    BY <2>1
  <2>3. i # 1
    BY <2>2 DEF Ahead
  <2>4. i - 1 \in DOMAIN fired' /\ fired'[i - 1] = fired[i] /\ pc' = "read"
    BY <1>1, <1>2, <2>2, <2>3 DEF NextEntry
  <2>5. Ahead(i - 1, f, e)'
    BY <2>2, <2>4 DEF Ahead
  <2> QED
    BY <2>1, <2>4, <2>5
<1> QED
  BY <1>2, <1>3, <1>4 DEF BatchInv

\* SetToSeqs lists every element.
LEMMA SeqsCover ==
  ASSUME NEW S, IsFiniteSet(S), NEW s \in SetToSeqs(S)
  PROVE  s \in Seq(S) /\ \A x \in S : \E i \in DOMAIN s : s[i] = x
<1> DEFINE n == Cardinality(S)
<1>1. n \in Nat
  BY FS_CardinalityType
<1>2. s \in [1 .. n -> S] /\ \A i, j \in 1 .. n : i # j => s[i] # s[j]
  BY DEF SetToSeqs
<1>3. s \in Injection(1 .. n, S)
  BY <1>2 DEF Injection, IsInjective
<1>4. IsFiniteSet(1 .. n) /\ Cardinality(1 .. n) = n
  BY <1>1, FS_Interval
<1>5. s \in Surjection(1 .. n, S)
  BY <1>3, <1>4, FS_Injection
<1>6. \A x \in S : \E i \in 1 .. n : s[i] = x
  BY <1>5 DEF Surjection
<1>7. s \in Seq(S)
  BY <1>1, <1>2
<1> QED
  BY <1>2, <1>6, <1>7

LEMMA PollKeeps ==
  ASSUME FilesInv, poll
  PROVE  BatchInv'
<1>1. UNCHANGED mask
  BY DEF poll, tableVars
<1>2. PICK r \in [DOMAIN epoll -> SUBSET (Events \cup {"ERROR"})] :
        /\ \A f \in DOMAIN r : r[f] \subseteq epoll[f] \cup {"ERROR"}
        /\ \E s \in SetToSeqs({f \in DOMAIN r : r[f] # {}}) :
             /\ fired' = [i \in DOMAIN s |-> [fd |-> s[i], mask |-> aeApiPoll(r[s[i]])]]
             /\ pc' = IF s = <<>> THEN "timers" ELSE "read"
        /\ due' = [f \in Slots |-> IF f \in DOMAIN r THEN r[f] \cap Events ELSE {}]
  BY DEF poll
<1> DEFINE Ready == {f \in DOMAIN r : r[f] # {}}
<1>3. PICK s \in SetToSeqs(Ready) :
        /\ fired' = [i \in DOMAIN s |-> [fd |-> s[i], mask |-> aeApiPoll(r[s[i]])]]
        /\ pc' = IF s = <<>> THEN "timers" ELSE "read"
  BY <1>2
<1>4. Ready \subseteq Slots /\ \A f \in Ready : f \in DOMAIN epoll /\ epoll[f] = mask[f]
  BY <1>2 DEF FilesInv, TableInv, EpollInTable
<1>5. IsFiniteSet(Ready)
  <2>1. Slots \subseteq 0 .. NumFds - 1 /\ NumFds \in Nat
    BY AnetAssumption DEF Slots, Fds
  <2>2. IsFiniteSet(0 .. NumFds - 1)
    BY <2>1, FS_Interval
  <2> QED
    BY <1>4, <2>1, <2>2, FS_Subset
<1>6. s \in Seq(Ready) /\ \A x \in Ready : \E i \in DOMAIN s : s[i] = x
  <2> HIDE DEF Ready
  <2> QED
    BY <1>3, <1>5, SeqsCover
<1>7. \A i \in DOMAIN s : s[i] \in Ready
  BY <1>6
<1>8. DOMAIN s = 1 .. Len(s) /\ Len(s) \in Nat /\ (s = <<>> <=> Len(s) = 0)
  BY <1>6, EmptySeq
<1>9. /\ fired' \in Seq(Entries) /\ DOMAIN fired' = DOMAIN s
      /\ (fired' = <<>> <=> pc' \in {"poll", "timers"})
  <2>1. fired' \in [1 .. Len(s) -> Entries]
    BY <1>3, <1>4, <1>7, <1>8 DEF Entries, aeApiPoll
  <2>2. fired' \in Seq(Entries) /\ DOMAIN fired' = 1 .. Len(s) /\ Len(fired') = Len(s)
    BY <1>8, <2>1
  <2>3. fired' = <<>> <=> Len(s) = 0
    BY <2>2, EmptySeq
  <2> QED
    BY <1>3, <1>8, <2>2, <2>3
<1>10. due' \in [Slots -> SUBSET Events]
  BY <1>2
<1>11. DueIsAhead'
  <2> SUFFICES ASSUME NEW f \in Slots, NEW e \in due'[f]
               PROVE  e \in mask'[f] /\ \E i \in DOMAIN fired' : Ahead(i, f, e)'
    BY DEF DueIsAhead
  <2>1. f \in DOMAIN r /\ e \in r[f] \cap Events /\ f \in Ready
    BY <1>2
  <2>2. e \in epoll[f] /\ e \in mask'[f]
    <3>1. e # "ERROR"
      BY <2>1 DEF Events
    <3> QED
      BY <1>1, <1>2, <1>4, <2>1, <3>1
  <2>3. PICK i \in DOMAIN s : s[i] = f
    BY <1>6, <2>1
  <2>4. pc' = "read"
    BY <1>3, <1>8, <2>3
  <2>5. fired'[i].fd = f /\ e \in fired'[i].mask
    BY <1>3, <2>1, <2>3 DEF aeApiPoll
  <2>6. Ahead(i, f, e)'
    BY <2>4, <2>5 DEF Ahead
  <2> QED
    BY <1>9, <2>2, <2>3, <2>6
<1> QED
  BY <1>9, <1>10, <1>11 DEF BatchInv

LEMMA LoopKeepsBatch ==
  ASSUME FilesInv, loopStep
  PROVE  BatchInv'
<1>0. BatchInv /\ due \in [Slots -> SUBSET Events] /\ mask \in [Slots -> SUBSET Events]
  BY DEF FilesInv, TableInv, EventsTypeOK, BatchInv
<1>1. fired # <<>> => /\ Entry = fired[1] /\ Entry \in Entries
                      /\ Entry.fd \in Slots /\ 1 \in DOMAIN fired
  <2> SUFFICES ASSUME fired # <<>>
               PROVE  /\ Entry = fired[1] /\ Entry \in Entries
                      /\ Entry.fd \in Slots /\ 1 \in DOMAIN fired
    OBVIOUS
  <2>1. fired \in Seq(Entries)
    BY <1>0 DEF BatchInv
  <2>2. Len(fired) \in Nat /\ DOMAIN fired = 1 .. Len(fired) /\ Len(fired) # 0
    BY <2>1, EmptySeq
  <2>3. 1 \in DOMAIN fired
    BY <2>2
  <2>4. fired[1] \in Entries
    BY <2>1, <2>3
  <2>5. Entry = fired[1]
    BY <2>1 DEF Entry
  <2> QED
    BY <2>3, <2>4, <2>5 DEF Entries
<1>2. CASE readEvent
  <2>1. pc = "read" /\ fired # <<>> /\ UNCHANGED <<fired, mask>>
    BY <1>0, <1>2 DEF readEvent, BatchInv, tableVars
  <2>2. CASE Valid("READABLE")
    <3>1. pc' = "inRead" /\ due' = [due EXCEPT ![Entry.fd] = @ \ {"READABLE"}]
      BY <1>2, <2>2 DEF readEvent
    <3>2. due' \in [Slots -> SUBSET Events]
      BY <1>0, <3>1
    <3>3. DueIsAhead'
      <4> SUFFICES ASSUME NEW f \in Slots, NEW e \in due'[f]
                   PROVE  e \in mask'[f] /\ \E i \in DOMAIN fired' : Ahead(i, f, e)'
        BY DEF DueIsAhead
      <4>1. e \in due[f] /\ (f = Entry.fd => e # "READABLE") /\ e \in Events
        BY <1>0, <1>1, <2>1, <3>1
      <4>2. e \in mask[f] /\ \E i \in DOMAIN fired : Ahead(i, f, e)
        BY <1>0, <4>1 DEF BatchInv, DueIsAhead
      <4>3. PICK i \in DOMAIN fired : Ahead(i, f, e)
        BY <4>2
      <4>4. i = 1 => e = "WRITABLE"
        BY <1>1, <2>1, <4>1, <4>3 DEF Ahead, Events
      <4>5. Ahead(i, f, e)'
        BY <2>1, <3>1, <4>3, <4>4 DEF Ahead
      <4> QED
        BY <2>1, <4>2, <4>3, <4>5
    <3> QED
      BY <1>0, <2>1, <3>1, <3>2, <3>3 DEF BatchInv
  <2>3. CASE ~Valid("READABLE")
    <3>1. pc' = "write" /\ due' = due
      BY <1>2, <2>3 DEF readEvent
    <3>2. DueIsAhead'
      <4> SUFFICES ASSUME NEW f \in Slots, NEW e \in due[f]
                   PROVE  e \in mask'[f] /\ \E i \in DOMAIN fired' : Ahead(i, f, e)'
        BY <3>1 DEF DueIsAhead
      <4>1. e \in mask[f] /\ e \in Events /\ \E i \in DOMAIN fired : Ahead(i, f, e)
        BY <1>0 DEF BatchInv, DueIsAhead
      <4>2. PICK i \in DOMAIN fired : Ahead(i, f, e)
        BY <4>1
      <4>3. i = 1 => e = "WRITABLE"
        BY <1>1, <2>1, <2>3, <4>1, <4>2 DEF Ahead, Events, Valid
      <4>4. Ahead(i, f, e)'
        BY <2>1, <3>1, <4>2, <4>3 DEF Ahead
      <4> QED
        BY <2>1, <4>1, <4>2, <4>4
    <3> QED
      BY <1>0, <2>1, <3>1, <3>2 DEF BatchInv
  <2> QED
    BY <2>2, <2>3
<1>3. CASE readReturns
  <2>1. pc = "inRead" /\ pc' = "write" /\ UNCHANGED <<fired, mask, due>>
    BY <1>3 DEF readReturns, tableVars
  <2>2. \A i, f, e : Ahead(i, f, e) => Ahead(i, f, e)'
    BY <2>1 DEF Ahead
  <2> QED
    BY <1>0, <2>1, <2>2 DEF BatchInv, DueIsAhead
<1>4. CASE writeEvent
  <2>1. /\ pc = "write" /\ fired # <<>> /\ UNCHANGED mask
        /\ due' = IF Valid("WRITABLE") THEN [due EXCEPT ![Entry.fd] = @ \ {"WRITABLE"}] ELSE due
    BY <1>0, <1>4 DEF writeEvent, BatchInv, tableVars
  <2>2. due' \in [Slots -> SUBSET Events] /\ \A f \in Slots : due'[f] \subseteq due[f]
    BY <1>0, <2>1
  <2>3. \A f \in Slots : "WRITABLE" \in due'[f] => ~(fired[1].fd = f /\ "WRITABLE" \in fired[1].mask)
    <3> SUFFICES ASSUME NEW f \in Slots, "WRITABLE" \in due'[f],
                        fired[1].fd = f, "WRITABLE" \in fired[1].mask
                 PROVE  FALSE
      OBVIOUS
    <3>1. "WRITABLE" \in mask[f]
      BY <1>0, <2>2 DEF BatchInv, DueIsAhead
    <3>2. Valid("WRITABLE")
      BY <1>1, <2>1, <3>1 DEF Valid
    <3> QED
      BY <1>0, <1>1, <2>1, <3>2
  <2>4. CASE NextEntry
    BY <1>0, <2>1, <2>2, <2>3, <2>4, NextEntryKeeps
  <2>5. CASE pc' = "inWrite" /\ UNCHANGED <<fired, rfired>>
    <3>1. DueIsAhead'
      <4> SUFFICES ASSUME NEW f \in Slots, NEW e \in due'[f]
                   PROVE  e \in mask'[f] /\ \E i \in DOMAIN fired' : Ahead(i, f, e)'
        BY DEF DueIsAhead
      <4>1. e \in mask[f] /\ \E i \in DOMAIN fired : Ahead(i, f, e)
        BY <1>0, <2>2 DEF BatchInv, DueIsAhead
      <4>2. PICK i \in DOMAIN fired : Ahead(i, f, e)
        BY <4>1
      <4>3. i # 1
        BY <2>1, <2>3, <4>2 DEF Ahead
      <4>4. Ahead(i, f, e)'
        BY <2>5, <4>2, <4>3 DEF Ahead
      <4> QED
        BY <2>1, <2>5, <4>1, <4>2, <4>4
    <3> QED
      BY <1>0, <2>1, <2>2, <2>5, <3>1 DEF BatchInv
  <2> QED
    BY <1>4, <2>4, <2>5 DEF writeEvent
<1>5. CASE writeReturns
  <2>1. pc = "inWrite" /\ NextEntry /\ UNCHANGED <<mask, due>>
    BY <1>5 DEF writeReturns, tableVars
  <2> QED
    BY <1>0, <2>1, NextEntryKeeps
<1>6. CASE timersReturn
  <2>1. pc = "timers" /\ pc' = "poll" /\ UNCHANGED <<fired, mask, due>>
    BY <1>6 DEF timersReturn, tableVars
  <2>2. fired = <<>>
    BY <1>0, <2>1 DEF BatchInv
  <2> QED
    BY <1>0, <2>1, <2>2 DEF BatchInv, DueIsAhead
<1> QED
  BY <1>2, <1>3, <1>4, <1>5, <1>6, PollKeeps DEF loopStep

LEMMA LoopKeepsTable ==
  ASSUME FilesInv, loopStep
  PROVE  TableInv'
<1>1. UNCHANGED <<open, lost, held, asked, mask, same, maxfd, epoll, astray>>
  BY DEF loopStep, poll, readEvent, readReturns, writeEvent, writeReturns, timersReturn,
         anetVars, tableVars
<1>2. pc' \in {"poll", "read", "write", "inRead", "inWrite", "timers"}
  BY DEF loopStep, poll, readEvent, readReturns, writeEvent, writeReturns, timersReturn, NextEntry
<1>3. EventsTypeOK'
  BY <1>1, <1>2 DEF FilesInv, TableInv, EventsTypeOK
<1> QED
  BY <1>1, <1>3
  DEF FilesInv, TableInv, OpenIsHeld, MaxfdIsMax, Registered, EpollInTable, AskedIsWatched, Watched

LEMMA InitFilesInv == Init => FilesInv
<1> SUFFICES ASSUME Init PROVE FilesInv
  OBVIOUS
<1>1. DOMAIN epoll = {} /\ fired = <<>> /\ fired \in Seq(Entries)
  BY EmptySeq DEF Init
<1>2. TableInv
  BY <1>1 DEF Init, TableInv, EventsTypeOK, OpenIsHeld, MaxfdIsMax, Registered, EpollInTable,
     AskedIsWatched, Watched
<1>3. BatchInv
  BY <1>1 DEF Init, BatchInv, DueIsAhead
<1> QED
  BY <1>2, <1>3 DEF FilesInv

LEMMA NextFilesInv == FilesInv /\ [Next]_vars => FilesInv'
<1> SUFFICES ASSUME FilesInv, [Next]_vars PROVE FilesInv'
  OBVIOUS
<1>1. CASE UNCHANGED vars
  <2>1. UNCHANGED <<open, lost, held, asked, mask, same, maxfd, epoll, astray, pc, fired, due>>
    BY <1>1 DEF vars, anetVars, tableVars, dispatchVars
  <2> QED
    BY <2>1
    DEF FilesInv, TableInv, EventsTypeOK, OpenIsHeld, MaxfdIsMax, Registered, EpollInTable,
        AskedIsWatched, Watched, BatchInv, DueIsAhead, Ahead
<1> QED
  BY <1>1, HandlerKeeps, LoopKeepsTable, LoopKeepsBatch DEF Next, FilesInv
-----------------------------------------------------------------------------
\* The invariant of the table, of epoll and of the batch, for any number of
\* descriptors and whatever the handlers do (ae.c:64-123, 275-356, ae_epoll.c).
THEOREM FilesInvariant == Spec => []FilesInv
<1> QED
  BY InitFilesInv, NextFilesInv, PTL DEF Spec

\* Types hold, and maxfd is the highest descriptor with events (ae.c:102-121).
THEOREM FilesMaxfd == Spec => [](EventsTypeOK /\ MaxfdIsMax)
<1>1. FilesInv => EventsTypeOK /\ MaxfdIsMax
  BY DEF FilesInv, TableInv
<1> QED
  BY <1>1, FilesInvariant, PTL

\* Only what a helper lost when setsockopt or fcntl failed is open and in
\* nobody's hands (anet.c:126-250).
THEOREM FilesOpenIsHeld == Spec => []OpenIsHeld
<1>1. FilesInv => OpenIsHeld
  BY DEF FilesInv, TableInv
<1> QED
  BY <1>1, FilesInvariant, PTL

\* Table, epoll and what was asked for agree, but for descriptors closed with
\* events registered or refused by the kernel (ae.c:86-123, ae_epoll.c:31-66).
THEOREM FilesAskedIsWatched == Spec => []AskedIsWatched
<1>1. FilesInv => AskedIsWatched
  BY DEF FilesInv, TableInv
<1> QED
  BY <1>1, FilesInvariant, PTL

\* A batch serves every event that was ready and is left registered, whatever
\* handlers do to other descriptors (ae.c:327-345, ae_epoll.c:68-89).
THEOREM FilesServedInBatch == Spec => []ServedInBatch
<1>1. FilesInv => ServedInBatch
  <2> SUFFICES ASSUME FilesInv, pc \in {"timers", "poll"}, NEW f \in Slots PROVE due[f] = {}
    BY DEF ServedInBatch
  <2>1. fired = <<>>
    BY DEF FilesInv, BatchInv
  <2> QED
    BY <2>1 DEF FilesInv, BatchInv, DueIsAhead
<1> QED
  BY <1>1, FilesInvariant, PTL

\* Whom a batch calls is open, asked for it and was reported, unless closed with
\* events registered (ae.c:334-345).
THEOREM FilesCalledIsLive == Spec => CalledIsLive
<1>1. ASSUME FilesInv, [Next]_vars, NEW f \in Slots, NEW e \in Events, Calls(f, e)
      PROVE  f \in astray \/ (f \in held /\ e \in asked[f] \cap Entry.mask)
  <2>1. Valid(e) /\ Entry.fd = f
    <3>1. pc' \in {"inRead", "inWrite"} /\ pc # pc' /\ Entry.fd = f
      BY <1>1 DEF Calls
    <3>2. ~handlerStep /\ ~(UNCHANGED vars)
      BY <3>1 DEF handlerStep, openFile, closeFile, aeCreateFileEvent, aeDeleteFileEvent, dispatchVars, vars
    <3>3. loopStep
      BY <1>1, <3>2 DEF Next
    <3>4. \/ pc' = "inRead" /\ Valid("READABLE")
          \/ pc' = "inWrite" /\ Valid("WRITABLE")
      BY <3>1, <3>3
      DEF loopStep, poll, readEvent, readReturns, writeEvent, writeReturns, timersReturn, NextEntry
    <3> QED
      BY <1>1, <3>1, <3>4 DEF Calls, Events
  <2>2. e \in mask[f] /\ e \in Entry.mask
    BY <2>1 DEF Valid
  <2>3. f \notin astray => asked[f] = mask[f] /\ f \in DOMAIN epoll
    BY <1>1, <2>2 DEF FilesInv, TableInv, AskedIsWatched, Watched
  <2> QED
    BY <1>1, <2>2, <2>3 DEF FilesInv, TableInv, EpollInTable
<1>2. FilesInv /\ [Next]_vars =>
        \A f \in Slots, e \in Events :
          Calls(f, e) => f \in astray \/ (f \in held /\ e \in asked[f] \cap Entry.mask)
  BY <1>1
<1> QED
  BY <1>2, FilesInvariant, PTL DEF Spec, CalledIsLive
=============================================================================
