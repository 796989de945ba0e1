---------------------------- MODULE AeTimers_proofs ----------------------------
(***************************************************************************)
(* The timers of AeTimers, for every length of a second, every delay and   *)
(* period, any number of timers and however long handlers take: their      *)
(* times are exact, a walk runs each timer once, except that a slow walk   *)
(* may meet the cron again, and leaves out none that was due, and the loop *)
(* sleeps until the nearest timer, or for less than a second.              *)
(***************************************************************************)
EXTENDS AeTimers, WellFoundedInduction, TLAPS

\* The fields of every timer that ever was, in the list or not.
FieldsInRange == when \in [Ids -> [sec : Nat, ms : 0 .. Second - 1]] /\ due \in [Ids -> Nat]

\* The walk deals with the timers that were there when it began, all of them up
\* to maxId, and takes any time.
WalkScope ==
  pc \in {"walk", "handler"} =>
    /\ walkStart \in 0 .. now
    /\ maxId \in Int /\ maxId < nextId
    /\ \A id \in live : id <= maxId => id \in atStart
    /\ \A id \in atStart : id <= maxId

\* What a walk has run is gone or under way; only the cron is still there, due a
\* period after the walk began or later.
RanIsOver ==
  pc \in {"walk", "handler"} =>
    \A id \in ran : /\ id \in 0 .. nextId - 1
                    /\ id \in live => \/ id = CRON /\ due[id] >= walkStart + Period
                                      \/ pc = "handler" /\ id = te

\* A timer due at the start of the walk has run or is still ahead.
NoneSkipped ==
  /\ pc \in {"walk", "handler"} =>
       \A id \in atStart \cap live : id \in ran \/ due[id] > walkStart \/ id <= te
  /\ pc = "handler" => te \in ran

TimersInv ==
  /\ TimersTypeOK
  /\ FieldsInRange
  /\ WhenIsExact
  /\ WalkScope
  /\ RanIsOver
  /\ NoneSkipped
  /\ WalkIsComplete
  /\ SleepLength
-----------------------------------------------------------------------------
(* Arithmetic, and the first of a set *)

LEMMA NatMin ==
  ASSUME NEW S, S \subseteq Nat, S # {}
  PROVE  \E m \in S : \A o \in S : m <= o
<1> DEFINE R == OpToRel(<, Nat)
<1>1. IsWellFoundedOn(R, Nat)
  BY NatLessThanWellFounded
<1>2. PICK m \in S : \A o \in S : ~(<<o, m>> \in R)
  BY <1>1, WFMin
<1>3. \A a, b \in Nat : a < b => <<a, b>> \in R
  BY DEF OpToRel
<1> HIDE DEF R
<1>4. m \in Nat /\ \A o \in S : o \in Nat
  OBVIOUS
<1>5. \A o \in S : ~(o < m)
  BY <1>2, <1>3, <1>4
<1>6. \A o \in S : m <= o
  BY <1>4, <1>5
<1> QED
  BY <1>6

LEMMA NatMax ==
  ASSUME NEW N \in Nat, NEW S, S \subseteq 0 .. N, S # {}
  PROVE  \E m \in S : \A o \in S : o <= m
<1> DEFINE U == {N - s : s \in S}
<1>1. U \subseteq Nat
  <2> SUFFICES ASSUME NEW s \in S PROVE N - s \in Nat
    OBVIOUS
  <2>1. s \in 0 .. N
    OBVIOUS
  <2> QED
    BY <2>1
<1>2. U # {}
  OBVIOUS
<1>3. PICK u \in U : \A o \in U : u <= o
  BY <1>1, <1>2, NatMin
<1>4. PICK s \in S : u = N - s
  BY <1>3
<1>5. \A o \in S : u <= N - o
  BY <1>3
<1>6. \A o \in S : o \in 0 .. N
  OBVIOUS
<1>7. \A o \in S : o <= s
  BY <1>4, <1>5, <1>6
<1> QED
  BY <1>7

LEMMA OneLess == \A n \in Nat : n - 1 \in Int /\ n - 1 < n
OBVIOUS

LEMMA RangeInRange == \A N \in Nat : \A n \in 0 .. N : \A x \in 0 .. n - 1 : x \in 0 .. N
OBVIOUS

LEMMA RangeBelow == \A n \in Nat : \A x \in 0 .. n - 1 : x \in Nat /\ x <= n - 1 /\ x < n
OBVIOUS

LEMMA DivMod ==
  ASSUME NEW a \in Nat
  PROVE  /\ a \div Second \in Nat /\ a % Second \in 0 .. Second - 1
         /\ a = (a \div Second) * Second + (a % Second)
BY AeTimersAssumption

\* Seconds and then milliseconds compare as times do.
LEMMA FieldOrder ==
  ASSUME NEW q \in Nat, NEW s \in Nat, NEW r \in 0 .. Second - 1, NEW m \in 0 .. Second - 1
  PROVE  (q > s \/ (q = s /\ r >= m)) <=> s * Second + m <= q * Second + r
<1>0. Second \in Nat
  BY AeTimersAssumption
<1>1. CASE q > s
  <2>1. q * Second >= (s + 1) * Second
    BY <1>0, <1>1
  <2> QED
    BY <1>0, <1>1, <2>1
<1>2. CASE q < s
  <2>1. s * Second >= (q + 1) * Second
    BY <1>0, <1>2
  <2> QED
    BY <1>0, <1>2, <2>1
<1>3. CASE q = s
  BY <1>0, <1>3
<1> QED
  BY <1>1, <1>2, <1>3

\* First finds the newest id, and END only in an empty list.
LEMMA FirstIsNewest ==
  ASSUME NEW ids, ids \subseteq 0 .. MaxTimers
  PROVE  /\ First(ids) \in ids \cup {END}
         /\ \A o \in ids : o <= First(ids)
<1>1. CASE ids = {}
  BY <1>1 DEF First
<1>2. CASE ids # {}
  <2>1. \E id \in ids : \A o \in ids : o <= id
    BY <1>2, NatMax, AeTimersAssumption
  <2> QED
    BY <1>2, <2>1 DEF First
<1> QED
  BY <1>1, <1>2

\* A time some delay after now is exact in both fields.
LEMMA AddIsExact ==
  ASSUME now \in Nat, NEW d \in Nat
  PROVE  LET w == aeAddMillisecondsToNow(d)
         IN  /\ w \in [sec : Nat, ms : 0 .. Second - 1]
             /\ w.sec * Second + w.ms = now + d
<1> DEFINE a == now \div Second  b == d \div Second
           r == now % Second     s == d % Second
           carry == IF r + s >= Second THEN 1 ELSE 0
<1>1. /\ a \in Nat /\ b \in Nat /\ r \in 0 .. Second - 1 /\ s \in 0 .. Second - 1
      /\ now = a * Second + r /\ d = b * Second + s
  BY DivMod
<1>2. Second \in Nat \ {0}
  BY AeTimersAssumption
<1>3. aeAddMillisecondsToNow(d) = [sec |-> a + b + carry, ms |-> r + s - carry * Second]
  BY <1>1, <1>2, SMT DEF aeAddMillisecondsToNow
<1> HIDE DEF a, b, r, s
<1>4. /\ a + b + carry \in Nat /\ r + s - carry * Second \in 0 .. Second - 1
      /\ (a + b + carry) * Second + (r + s - carry * Second) = now + d
  <2>1. CASE r + s >= Second
    <3>1. (a + b + 1) * Second = a * Second + b * Second + Second
      BY <1>1, <1>2
    <3> QED
      BY <1>1, <1>2, <2>1, <3>1
  <2>2. CASE ~(r + s >= Second)
    <3>1. (a + b + 0) * Second = a * Second + b * Second
      BY <1>1, <1>2
    <3> QED
      BY <1>1, <1>2, <2>2, <3>1
  <2> QED
    BY <2>1, <2>2
<1> HIDE DEF carry
<1> QED
  BY <1>3, <1>4

\* A listed timer is found due exactly when its time has come.
LEMMA DueIsDue ==
  ASSUME TimersInv, NEW id \in live
  PROVE  IsDue(when[id]) <=> due[id] <= now
<1>1. /\ now \in Nat /\ id \in Ids /\ when[id] \in [sec : Nat, ms : 0 .. Second - 1]
      /\ when[id].sec * Second + when[id].ms = due[id]
  <2>1. live \subseteq Ids
    BY AeTimersAssumption DEF TimersInv, TimersTypeOK, Ids
  <2> QED
    BY <2>1 DEF TimersInv, TimersTypeOK, FieldsInRange, WhenIsExact
<1>2. now \div Second \in Nat /\ now % Second \in 0 .. Second - 1
      /\ now = (now \div Second) * Second + (now % Second)
  BY <1>1, DivMod
<1>3. when[id].sec \in Nat /\ when[id].ms \in 0 .. Second - 1
  BY <1>1
<1> QED
  BY <1>1, <1>2, <1>3, FieldOrder DEF IsDue
-----------------------------------------------------------------------------
(* The list of timers *)

\* The part of the invariant that is about the list alone.
ListInv ==
  /\ nextId \in 0 .. MaxTimers /\ live \subseteq 0 .. nextId - 1
  /\ FieldsInRange
  /\ WhenIsExact

LEMMA ListUnchanged ==
  ASSUME TimersInv, UNCHANGED listVars
  PROVE  ListInv'
BY DEF TimersInv, TimersTypeOK, ListInv, FieldsInRange, WhenIsExact, listVars

\* A new timer leaves the others as they are.
LEMMA CreateKeepsList ==
  ASSUME TimersInv, NEW d \in Delays, aeCreateTimeEvent(d)
  PROVE  /\ ListInv'
         /\ nextId' = nextId + 1 /\ live' = live \cup {nextId}
         /\ \A id \in live : due'[id] = due[id]
<1> DEFINE w == aeAddMillisecondsToNow(d)
<1>1. /\ w \in [sec : Nat, ms : 0 .. Second - 1] /\ w.sec * Second + w.ms = now + d
      /\ now \in Nat /\ d \in Nat
  BY AddIsExact, AeTimersAssumption DEF TimersInv, TimersTypeOK
<1>2. /\ nextId \in Nat /\ nextId < MaxTimers /\ nextId' = nextId + 1
      /\ live' = live \cup {nextId} /\ live \subseteq 0 .. nextId - 1
      /\ when' = [when EXCEPT ![nextId] = w] /\ due' = [due EXCEPT ![nextId] = now + d]
  BY DEF TimersInv, TimersTypeOK, aeCreateTimeEvent
<1>3. Second \in Nat /\ MaxTimers \in Nat
  BY AeTimersAssumption
<1> HIDE DEF w
<1>4. FieldsInRange'
  BY <1>1, <1>2, <1>3 DEF TimersInv, FieldsInRange, Ids
<1>5. \A id \in live : id # nextId /\ id \in Ids /\ when'[id] = when[id] /\ due'[id] = due[id]
  BY <1>2, <1>3 DEF TimersInv, FieldsInRange, Ids
<1>6. nextId \in Ids /\ when'[nextId] = w /\ due'[nextId] = now + d
  BY <1>2, <1>3 DEF TimersInv, FieldsInRange, Ids
<1>7. WhenIsExact'
  <2>1. w.ms < Second
    BY <1>1, <1>3
  <2> QED
    BY <1>1, <1>2, <1>5, <1>6, <2>1 DEF TimersInv, WhenIsExact
<1> QED
  BY <1>2, <1>3, <1>4, <1>5, <1>7 DEF ListInv

\* The types of the list's part follow.
LEMMA ListTypes ==
  ASSUME ListInv
  PROVE  /\ nextId \in 0 .. MaxTimers /\ live \subseteq 0 .. nextId - 1
         /\ live \subseteq Ids /\ live \subseteq 0 .. MaxTimers
         /\ when \in [Ids -> [sec : Nat, ms : Nat]] /\ due \in [Ids -> Nat]
<1>1. 0 .. Second - 1 \subseteq Nat /\ MaxTimers \in Nat
  BY AeTimersAssumption
<1>2. \A id \in Ids : when[id] \in [sec : Nat, ms : Nat]
  BY <1>1 DEF ListInv, FieldsInRange
<1> QED
  BY <1>1, <1>2 DEF ListInv, FieldsInRange, Ids

LEMMA ListTypesAfter ==
  ASSUME ListInv'
  PROVE  /\ nextId' \in 0 .. MaxTimers /\ live' \subseteq 0 .. nextId' - 1
         /\ live' \subseteq 0 .. MaxTimers
         /\ when' \in [Ids -> [sec : Nat, ms : Nat]]
<1>1. 0 .. Second - 1 \subseteq Nat /\ MaxTimers \in Nat
  BY AeTimersAssumption
<1>2. \A id \in Ids : when'[id] \in [sec : Nat, ms : Nat]
  BY <1>1 DEF ListInv, FieldsInRange
<1>3. nextId' \in 0 .. MaxTimers /\ live' \subseteq 0 .. nextId' - 1
  BY DEF ListInv
<1>4. live' \subseteq 0 .. MaxTimers
  <2> SUFFICES ASSUME NEW id \in live' PROVE id \in 0 .. MaxTimers
    OBVIOUS
  <2>1. id \in 0 .. nextId' - 1 /\ nextId' \in 0 .. MaxTimers
    BY <1>3
  <2> QED
    BY <1>1, <2>1, RangeInRange
<1>5. when' \in [Ids -> [sec : Nat, ms : Nat]]
  BY <1>2 DEF ListInv, FieldsInRange
<1> QED
  BY <1>3, <1>4, <1>5

LEMMA TimersInvList == TimersInv => ListInv
BY DEF TimersInv, TimersTypeOK, ListInv

-----------------------------------------------------------------------------
(* The steps *)

LEMMA InitTimersInv == Init => TimersInv
<1> SUFFICES ASSUME Init PROVE TimersInv
  OBVIOUS
<1> USE DEF CRON
<1>1. Second \in Nat \ {0, 1} /\ MaxTimers \in Nat \ {0} /\ MaxNow \in Nat
  BY AeTimersAssumption
<1>2. FieldsInRange /\ when \in [Ids -> [sec : Nat, ms : Nat]]
  <2>1. \A id \in Ids : (IF id = 0 THEN 1 ELSE 0) \in 0 .. Second - 1
    BY <1>1
  <2>2. /\ \A id \in Ids : [sec |-> 0, ms |-> IF id = 0 THEN 1 ELSE 0] \in [sec : Nat, ms : 0 .. Second - 1]
        /\ \A id \in Ids : [sec |-> 0, ms |-> IF id = 0 THEN 1 ELSE 0] \in [sec : Nat, ms : Nat]
    BY <1>1, <2>1
  <2> QED
    BY <2>1, <2>2 DEF Init, FieldsInRange
<1>4. TimersTypeOK
  <2>1. 0 \in 0 .. MaxNow /\ 1 \in 0 .. MaxTimers /\ {0} \subseteq 0 .. 1 - 1
    BY <1>1
  <2>2. now \in 0 .. MaxNow /\ nextId \in 0 .. MaxTimers /\ live \subseteq 0 .. nextId - 1
    BY <2>1 DEF Init
  <2> QED
    BY <1>2, <2>2 DEF Init, TimersTypeOK
<1>3. WhenIsExact
  BY <1>1 DEF Init, WhenIsExact, Ids
<1> QED
  BY <1>2, <1>3, <1>4 DEF Init, TimersInv, WalkScope, RanIsOver, NoneSkipped, WalkIsComplete, SleepLength

\* A walk begins, from whatever list the file events have left.
LEMMA StartWalkKeeps ==
  ASSUME TimersInv, ListInv', startWalk
  PROVE  TimersInv'
<1>1. /\ nextId' \in 0 .. MaxTimers /\ live' \subseteq 0 .. nextId' - 1
      /\ live' \subseteq 0 .. MaxTimers /\ when' \in [Ids -> [sec : Nat, ms : Nat]]
  BY ListTypesAfter
<1>2. te' \in live' \cup {END} /\ \A o \in live' : o <= te'
  BY <1>1, FirstIsNewest DEF startWalk
<1>3. TimersTypeOK'
  BY <1>1, <1>2 DEF TimersInv, TimersTypeOK, startWalk
<1>4. WalkScope'
  <2>1. now \in Nat /\ nextId' \in Nat
    BY <1>1, AeTimersAssumption DEF TimersInv, TimersTypeOK
  <2>2. walkStart' = now /\ now' = now /\ maxId' = nextId' - 1 /\ atStart' = live'
    BY DEF startWalk
  <2>3. walkStart' \in 0 .. now'
    BY <2>1, <2>2
  <2>4. maxId' \in Int /\ maxId' < nextId'
    BY <2>1, <2>2, OneLess
  <2>5. \A id \in live' : id <= maxId' => id \in atStart'
    BY <2>2
  <2>6. \A id \in atStart' : id <= maxId'
    <3> SUFFICES ASSUME NEW id \in live' PROVE id <= nextId' - 1
      BY <2>2
    <3>1. id \in 0 .. nextId' - 1
      BY <1>1
    <3> QED
      BY <2>1, <3>1, RangeBelow
  <2> QED
    BY <2>3, <2>4, <2>5, <2>6 DEF WalkScope
<1>5. RanIsOver' /\ NoneSkipped'
  BY <1>2 DEF RanIsOver, NoneSkipped, startWalk
<1>6. WalkIsComplete' /\ SleepLength'
  BY DEF WalkIsComplete, SleepLength, startWalk
<1> QED
  BY <1>3, <1>4, <1>5, <1>6 DEF TimersInv, ListInv

\* What every step outside the list's operations keeps of the list.
LEMMA Basics ==
  ASSUME TimersInv
  PROVE  /\ now \in Nat /\ MaxNow \in Nat /\ Second \in Nat \ {0, 1} /\ Period \in Nat \ {0}
         /\ nextId \in Nat /\ live \subseteq 0 .. MaxTimers
         /\ \A id \in live : /\ id \in Nat /\ id < nextId /\ id \in Ids
                             /\ due[id] \in Nat
                             /\ when[id].sec \in Nat /\ when[id].ms \in 0 .. Second - 1
                             /\ when[id].sec * Second + when[id].ms = due[id]
<1>1. /\ now \in Nat /\ MaxNow \in Nat /\ Second \in Nat \ {0, 1} /\ Period \in Nat \ {0}
      /\ nextId \in Nat /\ MaxTimers \in Nat
  BY AeTimersAssumption DEF TimersInv, TimersTypeOK
<1>2. live \subseteq 0 .. MaxTimers /\ live \subseteq Ids
  BY TimersInvList, ListTypes
<1>3. ASSUME NEW id \in live
      PROVE  /\ id \in Nat /\ id < nextId
             /\ due[id] \in Nat /\ when[id] \in [sec : Nat, ms : 0 .. Second - 1]
             /\ when[id].sec * Second + when[id].ms = due[id]
  <2>1. id \in 0 .. nextId - 1 /\ id \in Ids
    BY <1>2 DEF TimersInv, TimersTypeOK
  <2>2. id \in Nat /\ id < nextId
    BY <1>1, <2>1, RangeBelow
  <2> QED
    BY <2>1, <2>2 DEF TimersInv, FieldsInRange, WhenIsExact
<1> QED
  BY <1>1, <1>2, <1>3

\* The timer found by aeSearchNearestTimer is the one that is due first.
LEMMA NearestIsSoonest ==
  ASSUME TimersInv, live # {}
  PROVE  aeSearchNearestTimer \in live /\ Soonest = due[aeSearchNearestTimer]
<1>1. \A id \in live : due[id] \in Nat
  BY Basics
<1> DEFINE D == {due[id] : id \in live}
<1>2. PICK t \in D : \A u \in D : t <= u
  <2>1. D \subseteq Nat /\ D # {}
    BY <1>1
  <2> HIDE DEF D
  <2> QED
    BY <2>1, NatMin
<1>3. PICK m \in live : t = due[m]
  BY <1>2
<1>4. \A id \in live : due[m] <= due[id]
  BY <1>2, <1>3
<1>5. \A o, id \in live : Before(when[o], when[id]) <=> ~(due[id] <= due[o])
  <2> SUFFICES ASSUME NEW o \in live, NEW id \in live
               PROVE  Before(when[o], when[id]) <=> ~(due[id] <= due[o])
    OBVIOUS
  <2>1. /\ when[o].sec \in Nat /\ when[o].ms \in 0 .. Second - 1
        /\ when[id].sec \in Nat /\ when[id].ms \in 0 .. Second - 1
        /\ when[o].sec * Second + when[o].ms = due[o]
        /\ when[id].sec * Second + when[id].ms = due[id]
    BY Basics
  <2>2. (when[o].sec > when[id].sec \/ (when[o].sec = when[id].sec /\ when[o].ms >= when[id].ms))
          <=> due[id] <= due[o]
    BY <2>1, FieldOrder
  <2>3. 0 .. Second - 1 \subseteq Nat
    BY Basics
  <2> QED
    BY <2>1, <2>2, <2>3 DEF Before
<1>6. \E id \in live : \A o \in live : ~Before(when[o], when[id])
  BY <1>4, <1>5
<1>7. /\ aeSearchNearestTimer \in live
      /\ \A o \in live : ~Before(when[o], when[aeSearchNearestTimer])
  BY <1>6 DEF aeSearchNearestTimer
<1> DEFINE n == aeSearchNearestTimer
<1>8. \A o \in live : due[n] <= due[o]
  BY <1>5, <1>7
<1> HIDE DEF n
<1>9. n \in live
  BY <1>7 DEF n
<1>10. Soonest \in D /\ \A id \in live : Soonest <= due[id]
  <2>1. \E u \in D : \A id \in live : u <= due[id]
    BY <1>3, <1>4
  <2> QED
    BY <2>1 DEF Soonest
<1>11. PICK k \in live : Soonest = due[k]
  BY <1>10
<1>12. Soonest = due[n]
  BY <1>1, <1>8, <1>9, <1>10, <1>11
<1> QED
  BY <1>9, <1>12 DEF n

\* The timeout ends when the timer is due; an overdue timer's is short of a second.
LEMMA TimeoutLength ==
  ASSUME TimersInv, NEW id \in live
  PROVE  /\ Timeout(when[id]) \in Nat
         /\ \/ now + Timeout(when[id]) = due[id]
            \/ due[id] < now /\ Timeout(when[id]) < Second
<1> DEFINE q == now \div Second  r == now % Second
           s == when[id].sec     m == when[id].ms
           borrow == IF m - r < 0 THEN 1 ELSE 0
           rest == m - r + borrow * Second
           sec == s - q - borrow
<1>1. /\ q \in Nat /\ r \in 0 .. Second - 1 /\ now = q * Second + r
      /\ s \in Nat /\ m \in 0 .. Second - 1 /\ due[id] = s * Second + m
      /\ Second \in Nat \ {0} /\ now \in Nat
  BY Basics, DivMod
<1>2. Timeout(when[id]) = (IF sec < 0 THEN 0 ELSE sec) * Second + rest
  BY <1>1, SMT DEF Timeout
<1> HIDE DEF q, r, s, m
<1>3. rest \in 0 .. Second - 1 /\ borrow \in {0, 1}
  BY <1>1
<1>4. due[id] - now = sec * Second + rest
  <2>1. CASE m - r < 0
    <3>1. (s - q - 1) * Second = s * Second - q * Second - Second
      BY <1>1
    <3> QED
      BY <1>1, <2>1, <3>1
  <2>2. CASE ~(m - r < 0)
    <3>1. (s - q - 0) * Second = s * Second - q * Second
      BY <1>1
    <3> QED
      BY <1>1, <2>2, <3>1
  <2> QED
    BY <2>1, <2>2
<1>5. sec \in Int
  BY <1>1, <1>3
<1>6. due[id] \in Nat
  BY Basics
<1> HIDE DEF rest, sec, borrow
<1>7. CASE sec < 0
  <2>1. Timeout(when[id]) = rest
    BY <1>1, <1>2, <1>3, <1>7
  <2>2. sec * Second <= (-1) * Second
    BY <1>1, <1>5, <1>7
  <2>3. due[id] < now
    BY <1>1, <1>3, <1>4, <1>5, <1>6, <2>2
  <2> QED
    BY <1>1, <1>3, <2>1, <2>3
<1>8. CASE ~(sec < 0)
  <2>1. sec * Second \in Nat
    BY <1>1, <1>5, <1>8
  <2>2. Timeout(when[id]) = sec * Second + rest
    BY <1>2, <1>8
  <2> QED
    BY <1>1, <1>3, <1>4, <1>6, <2>1, <2>2
<1> QED
  BY <1>7, <1>8

\* After finds the next id below te, if there is one.
LEMMA AfterIsNext ==
  ASSUME TimersInv, te # END
  PROVE  /\ After(te) \in live \cup {END}
         /\ \A o \in live : o < te => o <= After(te)
<1>1. {o \in live : o < te} \subseteq 0 .. MaxTimers
  BY Basics
<1> QED
  BY <1>1, FirstIsNewest DEF After

LEMMA PrepareKeeps ==
  ASSUME TimersInv, prepare
  PROVE  TimersInv'
<1>1. ListInv'
  BY ListUnchanged DEF prepare
<1>2. wakeAt' \in Nat \cup {FOREVER} /\ SleepLength'
  <2>1. CASE live = {}
    BY <2>1 DEF prepare, SleepLength, listVars
  <2>2. CASE live # {}
    <3> DEFINE n == aeSearchNearestTimer  t == Timeout(when[n])
    <3>1. n \in live /\ Soonest = due[n]
      BY <2>2, NearestIsSoonest
    <3>2. t \in Nat /\ (now + t = due[n] \/ (due[n] < now /\ t < Second))
      BY <3>1, TimeoutLength
    <3>3. now \in Nat /\ Second \in Nat /\ due[n] \in Nat
      BY <3>1, Basics
    <3>4. wakeAt' = now + t /\ now' = now /\ Soonest' = Soonest
      BY <2>2 DEF prepare, listVars, Soonest
    <3> HIDE DEF n, t
    <3>5. wakeAt' \in Nat /\ wakeAt' >= Soonest' /\ (wakeAt' <= Soonest' \/ wakeAt' < now' + Second)
      BY <3>1, <3>2, <3>3, <3>4
    <3> QED
      BY <3>5 DEF SleepLength
  <2> QED
    BY <2>1, <2>2
<1>3. TimersTypeOK'
  BY <1>2 DEF TimersInv, TimersTypeOK, prepare, listVars, walkVars
<1>4. WalkScope' /\ RanIsOver' /\ NoneSkipped' /\ WalkIsComplete'
  BY DEF prepare, WalkScope, RanIsOver, NoneSkipped, WalkIsComplete
<1> QED
  BY <1>1, <1>2, <1>3, <1>4 DEF TimersInv, ListInv

LEMMA TickKeeps ==
  ASSUME TimersInv, tick
  PROVE  TimersInv'
<1>0. /\ now \in Nat /\ MaxNow \in Nat /\ Second \in Nat
      /\ now < MaxNow /\ now' = now + 1
  BY Basics DEF tick
<1>1. ListInv'
  BY ListUnchanged DEF tick
<1>2. TimersTypeOK'
  BY <1>0 DEF TimersInv, TimersTypeOK, tick, listVars, walkVars
<1>3. WalkScope'
  BY <1>0 DEF TimersInv, WalkScope, tick, listVars, walkVars
<1>4. RanIsOver' /\ NoneSkipped' /\ WalkIsComplete'
  BY DEF TimersInv, RanIsOver, NoneSkipped, WalkIsComplete, tick, listVars, walkVars
<1>5. SleepLength'
  <2> SUFFICES ASSUME pc = "poll", live # {}
               PROVE  wakeAt >= Soonest /\ (wakeAt <= Soonest \/ wakeAt < now + 1 + Second)
    BY <1>0 DEF SleepLength, Soonest, tick, listVars
  <2>1. wakeAt >= Soonest /\ (wakeAt <= Soonest \/ wakeAt < now + Second)
    BY DEF TimersInv, SleepLength
  <2>2. wakeAt \in Int
    BY DEF TimersInv, TimersTypeOK, FOREVER
  <2> QED
    BY <1>0, <2>1, <2>2
<1> QED
  BY <1>1, <1>2, <1>3, <1>4, <1>5 DEF TimersInv, ListInv

LEMMA WalkOnKeeps ==
  ASSUME TimersInv, walkOn
  PROVE  TimersInv'
<1>1. ListInv'
  BY ListUnchanged DEF walkOn
<1>2. /\ pc = "walk" /\ pc' = "walk" /\ te # END /\ te' = After(te) /\ te \in live
      /\ te > maxId \/ ~IsDue(when[te])
  BY DEF walkOn, TimersInv, TimersTypeOK
<1>3. te' \in live \cup {END} /\ \A o \in live : o < te => o <= te'
  BY <1>2, AfterIsNext
<1>4. TimersTypeOK'
  BY <1>2, <1>3 DEF TimersInv, TimersTypeOK, walkOn, listVars
<1>5. WalkScope' /\ RanIsOver'
  BY <1>2 DEF TimersInv, WalkScope, RanIsOver, walkOn, listVars
<1>6. NoneSkipped'
  <2> SUFFICES ASSUME NEW id \in atStart \cap live
               PROVE  id \in ran \/ due[id] > walkStart \/ id <= te'
    BY <1>2 DEF NoneSkipped, walkOn, listVars
  <2>1. id \in ran \/ due[id] > walkStart \/ id <= te
    BY <1>2 DEF TimersInv, NoneSkipped
  <2>2. te \in Nat /\ id \in Nat /\ due[id] \in Nat /\ now \in Nat
    BY <1>2, Basics
  <2>3. walkStart \in 0 .. now /\ maxId \in Int /\ id <= maxId
    BY <1>2 DEF TimersInv, WalkScope
  <2>4. CASE id = te
    <3>1. ~(due[id] <= now)
      BY <1>2, <2>2, <2>3, <2>4, DueIsDue
    <3> QED
      BY <2>2, <2>3, <3>1
  <2>5. CASE id < te
    BY <1>3, <2>5
  <2> QED
    BY <2>1, <2>2, <2>4, <2>5
<1>7. WalkIsComplete' /\ SleepLength'
  BY <1>2 DEF WalkIsComplete, SleepLength
<1> QED
  BY <1>1, <1>4, <1>5, <1>6, <1>7 DEF TimersInv, ListInv

LEMMA CallHandlerKeeps ==
  ASSUME TimersInv, callHandler
  PROVE  TimersInv'
<1>1. ListInv'
  BY ListUnchanged DEF callHandler
<1>2. pc = "walk" /\ pc' = "handler" /\ te \in live /\ te' = te /\ ran' = ran \cup {te}
  BY DEF callHandler, TimersInv, TimersTypeOK
<1>3. TimersTypeOK'
  BY <1>2 DEF TimersInv, TimersTypeOK, callHandler, listVars
<1>4. WalkScope'
  BY <1>2 DEF TimersInv, WalkScope, callHandler, listVars
<1>5. RanIsOver'
  <2>1. te \in 0 .. nextId - 1
    BY <1>2 DEF TimersInv, TimersTypeOK
  <2> QED
    BY <1>2, <2>1 DEF TimersInv, RanIsOver, callHandler, listVars
<1>6. NoneSkipped' /\ WalkIsComplete' /\ SleepLength'
  BY <1>2 DEF TimersInv, NoneSkipped, WalkIsComplete, SleepLength, callHandler, listVars
<1> QED
  BY <1>1, <1>3, <1>4, <1>5, <1>6 DEF TimersInv, ListInv

LEMMA HandlerCreatesKeeps ==
  ASSUME TimersInv, handlerCreates
  PROVE  TimersInv'
<1>1. PICK d \in Delays : aeCreateTimeEvent(d)
  BY DEF handlerCreates
<1>2. /\ ListInv' /\ nextId' = nextId + 1 /\ live' = live \cup {nextId}
      /\ \A id \in live : due'[id] = due[id]
  BY <1>1, CreateKeepsList
<1>3. /\ pc = "handler" /\ pc' = pc /\ te' = te /\ ran' = ran /\ maxId' = maxId /\ now' = now
      /\ walkStart' = walkStart /\ atStart' = atStart /\ stop' = stop /\ wakeAt' = wakeAt
  BY DEF handlerCreates, walkVars
<1>4. TimersTypeOK'
  BY <1>2, <1>3, ListTypesAfter DEF TimersInv, TimersTypeOK
<1>5. nextId \in Nat /\ maxId \in Int /\ maxId < nextId
  BY <1>3, Basics DEF TimersInv, WalkScope
<1>6. WalkScope'
  BY <1>2, <1>3, <1>5 DEF TimersInv, WalkScope
<1>7. RanIsOver'
  <2> SUFFICES ASSUME NEW id \in ran
               PROVE  /\ id \in 0 .. nextId
                      /\ id \in live' => \/ id = CRON /\ due'[id] >= walkStart + Period
                                         \/ id = te
    BY <1>2, <1>3, <1>5 DEF RanIsOver
  <2>1. /\ id \in 0 .. nextId - 1
        /\ id \in live => (id = CRON /\ due[id] >= walkStart + Period) \/ id = te
    BY <1>3 DEF TimersInv, RanIsOver
  <2>2. id # nextId /\ id \in 0 .. nextId
    BY <1>5, <2>1
  <2> QED
    BY <1>2, <2>1, <2>2
<1>8. NoneSkipped'
  <2>1. \A id \in atStart : id # nextId
    BY <1>3, <1>5 DEF TimersInv, WalkScope
  <2> QED
    BY <1>2, <1>3, <2>1 DEF TimersInv, NoneSkipped
<1>9. WalkIsComplete' /\ SleepLength'
  BY <1>3 DEF WalkIsComplete, SleepLength
<1> QED
  BY <1>2, <1>4, <1>6, <1>7, <1>8, <1>9 DEF TimersInv, ListInv

\* A handler ends for good, the cron's or another's.
LEMMA DeleteKeeps ==
  ASSUME TimersInv, pc = "handler", aeDeleteTimeEvent, stop' \in BOOLEAN
  PROVE  TimersInv'
<1>1. /\ pc = "handler" /\ pc' = "walk" /\ live' = live \ {te} /\ te' = First(live')
      /\ UNCHANGED <<now, when, nextId, due, wakeAt, maxId, walkStart, atStart, ran>>
  BY DEF aeDeleteTimeEvent
<1>2. ListInv'
  BY <1>1 DEF TimersInv, TimersTypeOK, ListInv, FieldsInRange, WhenIsExact
<1>3. te' \in live' \cup {END} /\ \A o \in live' : o <= te'
  BY <1>1, <1>2, ListTypesAfter, FirstIsNewest
<1>4. TimersTypeOK'
  BY <1>1, <1>2, <1>3, ListTypesAfter DEF TimersInv, TimersTypeOK
<1>5. WalkScope'
  BY <1>1 DEF TimersInv, WalkScope
<1>6. RanIsOver'
  BY <1>1 DEF TimersInv, RanIsOver
<1>7. NoneSkipped' /\ WalkIsComplete' /\ SleepLength'
  BY <1>1, <1>3 DEF NoneSkipped, WalkIsComplete, SleepLength
<1> QED
  BY <1>2, <1>4, <1>5, <1>6, <1>7 DEF TimersInv, ListInv

\* The cron is due again a period later than the walk began, or later.
LEMMA CronRepeatsKeeps ==
  ASSUME TimersInv, cronRepeats
  PROVE  TimersInv'
<1> DEFINE p == Period
<1>1. /\ when' = [when EXCEPT ![te] = aeAddMillisecondsToNow(p)]
      /\ due' = [due EXCEPT ![te] = now + p]
  BY DEF cronRepeats
<1>2. /\ pc = "handler" /\ pc' = "walk" /\ te \in live /\ te' = First(live) /\ te = CRON
      /\ UNCHANGED <<now, live, nextId, stop, wakeAt, maxId, walkStart, atStart, ran>>
  BY DEF cronRepeats, TimersInv, TimersTypeOK
<1> DEFINE w == aeAddMillisecondsToNow(p)
<1>3. now \in Nat /\ p \in Nat /\ Second \in Nat /\ te \in Ids
  BY <1>2, Basics
<1>4. w \in [sec : Nat, ms : 0 .. Second - 1] /\ w.sec * Second + w.ms = now + p
  BY <1>3, AddIsExact
<1> HIDE DEF w
<1>5. FieldsInRange'
  BY <1>1, <1>3, <1>4 DEF TimersInv, FieldsInRange, w
<1>6. when'[te] = w /\ due'[te] = now + p
  BY <1>1, <1>3 DEF TimersInv, FieldsInRange, w
<1>7. \A id \in live : id # te => when'[id] = when[id] /\ due'[id] = due[id]
  BY <1>1, Basics DEF TimersInv, FieldsInRange
<1>8. WhenIsExact'
  <2>1. w.ms < Second
    BY <1>3, <1>4
  <2> QED
    BY <1>2, <1>4, <1>6, <1>7, <2>1 DEF TimersInv, WhenIsExact
<1>9. ListInv'
  BY <1>2, <1>5, <1>8 DEF TimersInv, TimersTypeOK, ListInv
<1>10. te' \in live \cup {END} /\ \A o \in live : o <= te'
  BY <1>2, Basics, FirstIsNewest
<1>11. TimersTypeOK'
  BY <1>2, <1>9, <1>10, ListTypesAfter DEF TimersInv, TimersTypeOK
<1>12. WalkScope'
  BY <1>2 DEF TimersInv, WalkScope
<1>13. RanIsOver'
  <2>1. due'[te] >= walkStart + Period
    BY <1>2, <1>3, <1>6 DEF TimersInv, WalkScope
  <2>2. \A id \in ran : id \in live /\ id # te => id = CRON /\ due'[id] >= walkStart + Period
    BY <1>2, <1>7 DEF TimersInv, RanIsOver
  <2> QED
    BY <1>2, <2>1, <2>2 DEF TimersInv, RanIsOver
<1>14. NoneSkipped' /\ WalkIsComplete' /\ SleepLength'
  BY <1>2, <1>10 DEF NoneSkipped, WalkIsComplete, SleepLength
<1> QED
  BY <1>9, <1>11, <1>12, <1>13, <1>14 DEF TimersInv, ListInv

LEMMA EndWalkKeeps ==
  ASSUME TimersInv, endWalk
  PROVE  TimersInv'
<1>1. ListInv'
  BY ListUnchanged DEF endWalk
<1>2. pc = "walk" /\ pc' \in {"exited", "prepare"} /\ te = END
  BY DEF endWalk
<1>3. TimersTypeOK'
  BY <1>2 DEF TimersInv, TimersTypeOK, endWalk, listVars, walkVars
<1>4. WalkScope' /\ RanIsOver' /\ NoneSkipped' /\ SleepLength'
  BY <1>2 DEF WalkScope, RanIsOver, NoneSkipped, SleepLength
<1>5. WalkIsComplete'
  <2> SUFFICES ASSUME NEW id \in atStart \cap live
               PROVE  id \in ran \/ due[id] > walkStart
    BY DEF WalkIsComplete, endWalk, listVars, walkVars
  <2>1. id \in ran \/ due[id] > walkStart \/ id <= END
    BY <1>2 DEF TimersInv, NoneSkipped
  <2>2. id \in Nat
    BY Basics
  <2> QED
    BY <2>1, <2>2 DEF END
<1> QED
  BY <1>1, <1>3, <1>4, <1>5 DEF TimersInv, ListInv

LEMMA NextTimersInv == TimersInv /\ [Next]_vars => TimersInv'
<1> SUFFICES ASSUME TimersInv, [Next]_vars PROVE TimersInv'
  OBVIOUS
<1>1. CASE prepare
  BY <1>1, PrepareKeeps
<1>2. CASE timeout
  BY <1>2, ListUnchanged, StartWalkKeeps DEF timeout
<1>3. CASE fileEvent
  <2>1. ListInv'
    BY <1>3, ListUnchanged, CreateKeepsList DEF fileEvent
  <2> QED
    BY <1>3, <2>1, StartWalkKeeps DEF fileEvent
<1>4. CASE walkOn
  BY <1>4, WalkOnKeeps
<1>5. CASE callHandler
  BY <1>5, CallHandlerKeeps
<1>6. CASE handlerCreates
  BY <1>6, HandlerCreatesKeeps
<1>7. CASE cronStops
  BY <1>7, DeleteKeeps DEF cronStops
<1>8. CASE handlerEnds
  BY <1>8, DeleteKeeps DEF handlerEnds, TimersInv, TimersTypeOK
<1>9. CASE cronRepeats
  BY <1>9, CronRepeatsKeeps
<1>10. CASE endWalk
  BY <1>10, EndWalkKeeps
<1>11. CASE tick
  BY <1>11, TickKeeps
<1>12. CASE UNCHANGED vars
  <2>1. ListInv'
    BY <1>12, ListUnchanged DEF vars, listVars
  <2>2. TimersTypeOK' /\ WalkScope' /\ RanIsOver' /\ NoneSkipped'
    BY <1>12 DEF vars, TimersInv, TimersTypeOK, WalkScope, RanIsOver, NoneSkipped
  <2>3. WalkIsComplete' /\ SleepLength'
    BY <1>12 DEF vars, TimersInv, WalkIsComplete, SleepLength, Soonest
  <2> QED
    BY <2>1, <2>2, <2>3 DEF TimersInv, ListInv
<1> QED
  BY <1>1, <1>2, <1>3, <1>4, <1>5, <1>6, <1>7, <1>8, <1>9, <1>10, <1>11, <1>12
     DEF Next, loopStep

\* A handler is called for a timer of the walk.  What the walk has run is gone; the
\* cron is due again only when a period has gone by.
LEMMA CallIsFirst ==
  ASSUME TimersInv, callHandler
  PROVE  te \in atStart /\ (te \in ran => te = CRON /\ now >= walkStart + Period)
<1>1. pc = "walk" /\ te \in live /\ te <= maxId /\ due[te] <= now
  BY DueIsDue DEF callHandler, TimersInv, TimersTypeOK
<1>2. te \in atStart /\ walkStart \in 0 .. now
  BY <1>1 DEF TimersInv, WalkScope
<1>3. te \in ran => te = CRON /\ due[te] >= walkStart + Period
  BY <1>1 DEF TimersInv, RanIsOver
<1>4. due[te] \in Nat /\ now \in Nat /\ Period \in Nat
  BY <1>1, Basics
<1> QED
  BY <1>1, <1>2, <1>3, <1>4
-----------------------------------------------------------------------------
\* The invariant of the list and of the walk, for any timers and any period
\* (ae.c:134-264, 279-327).
THEOREM TimersInvariant == Spec => []TimersInv
<1> QED
  BY InitTimersInv, NextTimersInv, PTL DEF Spec

\* Types hold, the sleep is never negative, and te is in the list or its end.
THEOREM TimersTypeCorrect == Spec => []TimersTypeOK
<1>1. TimersInv => TimersTypeOK
  BY DEF TimersInv
<1> QED
  BY <1>1, TimersInvariant, PTL

\* A timer's seconds and milliseconds are the time asked for (ae.c:134-146).
THEOREM TimersExact == Spec => []WhenIsExact
<1>1. TimersInv => WhenIsExact
  BY DEF TimersInv
<1> QED
  BY <1>1, TimersInvariant, PTL

\* No timer that was due is left out, although the walk starts again from a
\* changed list after every handler (ae.c:221-262).
THEOREM TimersWalkIsComplete == Spec => []WalkIsComplete
<1>1. TimersInv => WalkIsComplete
  BY DEF TimersInv
<1> QED
  BY <1>1, TimersInvariant, PTL

\* The loop sleeps until the nearest timer, or for less than a second when that
\* is overdue (ae.c:296-318).
THEOREM TimersSleepLength == Spec => []SleepLength
<1>1. TimersInv => SleepLength
  BY DEF TimersInv
<1> QED
  BY <1>1, TimersInvariant, PTL

\* However long handlers take, a walk runs only timers that were there when it
\* began, and each of them once; only the cron comes again, and only in a walk that
\* has taken a whole period (ae.c:224-262).
THEOREM TimersOncePerWalk == Spec => OncePerWalk
<1>1. TimersInv /\ [Next]_vars
        => [pc = "walk" /\ pc' = "handler" =>
              te \in atStart /\ (te \in ran => te = CRON /\ now >= walkStart + Period)]_vars
  <2> SUFFICES ASSUME TimersInv, Next, pc = "walk", pc' = "handler"
               PROVE  te \in atStart /\ (te \in ran => te = CRON /\ now >= walkStart + Period)
    OBVIOUS
  <2>1. callHandler
    BY DEF Next, loopStep, prepare, timeout, startWalk, walkOn, handlerEnds, cronStops,
           cronRepeats, aeDeleteTimeEvent, endWalk, fileEvent, handlerCreates, tick
  <2> QED
    BY <2>1, CallIsFirst
<1> QED
  BY <1>1, TimersInvariant, PTL DEF Spec, OncePerWalk
=============================================================================
