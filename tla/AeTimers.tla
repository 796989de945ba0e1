------------------------------- MODULE AeTimers -------------------------------
(***************************************************************************)
(* The time events of one event loop (ae.c:134-264, 279-327, 348-353,      *)
(* 379-386).  Each timer has an absolute time in seconds and milliseconds. *)
(* A turn of the loop sleeps until a file event or the nearest timer,      *)
(* handles the file events, then walks the timers and runs what is due.    *)
(* The first timer is the cron of eventLoop.c, which runs every Period     *)
(* until it stops the loop.  The others are those of interTimeProc: they   *)
(* run once, call back the user, who may create timers and may take any    *)
(* time.  Nobody but the walk deletes a timer.                             *)
(*                                                                         *)
(* New timers are put in front of the list and get the next id, so the     *)
(* list is the set of ids in use, in descending order.  The clock goes on  *)
(* by itself, between any two steps.                                       *)
(***************************************************************************)
EXTENDS Integers

CONSTANTS
  Second,     \* milliseconds in a second (1000)
  Delays,     \* what timers are created with
  Period,     \* what eventLoopCron returns to run again (100)
  MaxTimers,  \* bound of the model: how many timers are ever created
  MaxNow      \* bound of the model: when the clock stops

ASSUME AeTimersAssumption ==
  /\ Second \in Nat \ {0, 1}
  /\ Delays \subseteq Nat /\ Period \in Nat \ {0}
  /\ MaxTimers \in Nat \ {0} /\ MaxNow \in Nat

VARIABLES
  now,      \* the time of day, in milliseconds
  live,     \* the ids in the list
  when,     \* per id: when_sec and when_ms
  nextId,   \* timeEventNextId
  stop,     \* eventLoop->stop
  pc,       \* "prepare", "poll", "walk", "handler" or "exited" (aeMain has returned)
  wakeAt,   \* in "poll": when the timeout given to aeApiPoll ends
  te,       \* processTimeEvents's te: an id in the list or END
  maxId,    \* processTimeEvents's maxId
  walkStart,\* history: when the walk began
  atStart,  \* history: the list when the walk began
  ran,      \* history: the ids whose handler this walk has called
  due       \* history: per id, the time asked for

vars == <<now, live, when, nextId, stop, pc, wakeAt, te, maxId, walkStart, atStart, ran, due>>
walkVars == <<te, maxId, walkStart, atStart, ran>>
listVars == <<live, when, nextId, due>>

Ids == 0 .. MaxTimers - 1
CRON == 0       \* the timer of eventLoopCron, the first that is created
END == -1       \* the end of the list
FOREVER == -1   \* aeApiPoll without a timeout

\* The newest of a set of ids: the first in the list.
First(ids) == IF ids = {} THEN END ELSE CHOOSE id \in ids : \A o \in ids : o <= id
After(id) == First({o \in live : o < id})

\* The carry is forgotten when the milliseconds make exactly a second.
aeAddMillisecondsToNow_LateCarry(d) ==
  LET ms == (now % Second) + (d % Second)
      carry == IF ms > Second THEN 1 ELSE 0
  IN  [sec |-> (now \div Second) + (d \div Second) + carry, ms |-> ms - carry * Second]

aeAddMillisecondsToNow(d) ==
  LET ms == (now % Second) + (d % Second)
      carry == IF ms >= Second THEN 1 ELSE 0
  IN  [sec |-> (now \div Second) + (d \div Second) + carry, ms |-> ms - carry * Second]

\* A timer is created with delay d.
aeCreateTimeEvent(d) ==
  /\ nextId < MaxTimers
  /\ nextId' = nextId + 1
  /\ live' = live \cup {nextId}
  /\ when' = [when EXCEPT ![nextId] = aeAddMillisecondsToNow(d)]
  /\ due' = [due EXCEPT ![nextId] = now + d]

\* The loop as initEventLoop leaves it: the cron timer is to run in a millisecond.
Init ==
  /\ now = 0
  /\ live = {CRON} /\ nextId = 1
  /\ when = [id \in Ids |-> [sec |-> 0, ms |-> IF id = CRON THEN 1 ELSE 0]]
  /\ due = [id \in Ids |-> IF id = CRON THEN 1 ELSE 0]
  /\ stop = FALSE /\ pc = "prepare" /\ wakeAt = FOREVER
  /\ te = END /\ maxId = 0 /\ walkStart = 0 /\ atStart = {} /\ ran = {}
-----------------------------------------------------------------------------
(* aeProcessEvents up to the walk *)

Before(v, w) == v.sec < w.sec \/ (v.sec = w.sec /\ v.ms < w.ms)

aeSearchNearestTimer == CHOOSE id \in live : \A o \in live : ~Before(when[o], when[id])

\* The milliseconds borrow a second that the seconds do not lend.
Timeout_NoBorrow(w) ==
  LET sec == w.sec - now \div Second
      ms == w.ms - (now % Second)
  IN  (IF sec < 0 THEN 0 ELSE sec) * Second + (IF ms < 0 THEN ms + Second ELSE ms)

\* How long until w: seconds and milliseconds are subtracted apart, and the
\* seconds made 0 when negative, the milliseconds left as they are (ae.c:303-313).
Timeout(w) ==
  LET ms == w.ms - (now % Second)
      borrow == IF ms < 0 THEN 1 ELSE 0
      sec == w.sec - now \div Second - borrow
  IN  (IF sec < 0 THEN 0 ELSE sec) * Second + ms + borrow * Second

prepare ==
  /\ pc = "prepare"
  /\ wakeAt' = IF live = {} THEN FOREVER ELSE now + Timeout(when[aeSearchNearestTimer])
  /\ pc' = "poll"
  /\ UNCHANGED <<now, listVars, stop, walkVars>>

\* maxId taken as the next id instead of the last one given.
startWalk_OffByOne ==
  /\ pc' = "walk"
  /\ te' = First(live') /\ maxId' = nextId'
  /\ walkStart' = now /\ atStart' = live' /\ ran' = {}
  /\ UNCHANGED <<now, stop, wakeAt>>

\* The file events are handled; processTimeEvents begins.
startWalk ==
  /\ pc' = "walk"
  /\ te' = First(live') /\ maxId' = nextId' - 1
  /\ walkStart' = now /\ atStart' = live' /\ ran' = {}
  /\ UNCHANGED <<now, stop, wakeAt>>

timeout ==
  /\ pc = "poll" /\ wakeAt # FOREVER /\ now >= wakeAt
  /\ UNCHANGED listVars
  /\ startWalk

\* A file event comes; its handler may create a timer.
fileEvent ==
  /\ pc = "poll"
  /\ UNCHANGED listVars \/ \E d \in Delays : aeCreateTimeEvent(d)
  /\ startWalk
-----------------------------------------------------------------------------
(* processTimeEvents *)

IsDue(w) == now \div Second > w.sec \/ (now \div Second = w.sec /\ now % Second >= w.ms)

\* The walk as if the list were sorted: it ends at the first timer not due.
walkOn_Sorted ==
  /\ pc = "walk" /\ te # END
  /\ te > maxId \/ ~IsDue(when[te])
  /\ te' = IF te > maxId THEN After(te) ELSE END
  /\ UNCHANGED <<now, listVars, stop, pc, wakeAt, maxId, walkStart, atStart, ran>>

\* A timer created during the walk, or one that is not due, is passed over.
walkOn ==
  /\ pc = "walk" /\ te # END
  /\ te > maxId \/ ~IsDue(when[te])
  /\ te' = After(te)
  /\ UNCHANGED <<now, listVars, stop, pc, wakeAt, maxId, walkStart, atStart, ran>>

callHandler ==
  /\ pc = "walk" /\ te # END
  /\ te <= maxId /\ IsDue(when[te])
  /\ pc' = "handler"
  /\ ran' = ran \cup {te}
  /\ UNCHANGED <<now, listVars, stop, wakeAt, te, maxId, walkStart, atStart>>

\* The user's callback creates a timer.
handlerCreates ==
  /\ pc = "handler" /\ te # CRON
  /\ \E d \in Delays : aeCreateTimeEvent(d)
  /\ UNCHANGED <<now, stop, pc, wakeAt, walkVars>>

\* A handler has returned AE_NOMORE: its timer is deleted, the walk starts again.
aeDeleteTimeEvent ==
  /\ live' = live \ {te}
  /\ te' = First(live') /\ pc' = "walk"
  /\ UNCHANGED <<now, when, nextId, due, wakeAt, maxId, walkStart, atStart, ran>>

\* interTimeProc runs once.
handlerEnds ==
  /\ pc = "handler" /\ te # CRON
  /\ aeDeleteTimeEvent
  /\ UNCHANGED stop

\* eventLoopCron finds EVENTLOOP_STOP and calls aeStop.
cronStops ==
  /\ pc = "handler" /\ te = CRON
  /\ aeDeleteTimeEvent
  /\ stop' = TRUE

\* Otherwise it is to run again a period from now, and the walk starts again.
cronRepeats ==
  /\ pc = "handler" /\ te = CRON
  /\ when' = [when EXCEPT ![te] = aeAddMillisecondsToNow(Period)]
  /\ due' = [due EXCEPT ![te] = now + Period]
  /\ te' = First(live) /\ pc' = "walk"
  /\ UNCHANGED <<now, live, nextId, stop, wakeAt, maxId, walkStart, atStart, ran>>

\* aeMain whose loop looks at something else than stop.
endWalk_NoStop ==
  /\ pc = "walk" /\ te = END
  /\ pc' = "prepare"
  /\ UNCHANGED <<now, listVars, stop, wakeAt, walkVars>>

\* The end of aeProcessEvents, and aeMain's test of stop.
endWalk ==
  /\ pc = "walk" /\ te = END
  /\ pc' = IF stop THEN "exited" ELSE "prepare"
  /\ UNCHANGED <<now, listVars, stop, wakeAt, walkVars>>

\* Time goes on whatever the loop does: in a walk, too, whose handlers may block.
tick ==
  /\ now < MaxNow
  /\ now' = now + 1
  /\ UNCHANGED <<listVars, stop, pc, wakeAt, walkVars>>
-----------------------------------------------------------------------------
loopStep == prepare \/ timeout \/ walkOn \/ callHandler \/ handlerEnds \/ cronStops
            \/ cronRepeats \/ endWalk

Next == loopStep \/ fileEvent \/ handlerCreates \/ tick

\* The loop's thread runs and time goes on; file events need not come.
Spec == Init /\ [][Next]_vars /\ WF_vars(loopStep) /\ WF_vars(tick)
-----------------------------------------------------------------------------
TimersTypeOK ==
  /\ now \in 0 .. MaxNow
  /\ nextId \in 0 .. MaxTimers /\ live \subseteq 0 .. nextId - 1
  /\ when \in [Ids -> [sec : Nat, ms : Nat]]
  /\ stop \in BOOLEAN
  /\ pc \in {"prepare", "poll", "walk", "handler", "exited"}
  /\ wakeAt \in Nat \cup {FOREVER}
  /\ te \in live \cup {END}
  /\ pc = "handler" => te \in live

\* The two fields of a timer are the time asked for, with milliseconds below a
\* second, whatever carries there were: comparing them field by field is
\* comparing times (ae.c:134-146, 206-208, 232-233).
WhenIsExact ==
  \A id \in live : /\ when[id].sec * Second + when[id].ms = due[id]
                   /\ when[id].ms < Second

\* A walk calls only timers that were there when it began, and each of them once:
\* what handlers create has to wait for the next walk.  The cron alone may come
\* twice, when other handlers have blocked the walk for a whole period
\* (ae.c:224-262, eventLoop.c:164-178, 316-321).
OncePerWalk ==
  [][pc = "walk" /\ pc' = "handler" =>
       te \in atStart /\ (te \in ran => te = CRON /\ now >= walkStart + Period)]_vars

\* A walk leaves out no timer that was due when it began, although it starts again
\* from a changed list after every handler (ae.c:221-262).
WalkIsComplete ==
  pc \in {"prepare", "exited"} =>
    \A id \in atStart \cap live : id \in ran \/ due[id] > walkStart

\* The nearest time asked for.
Soonest == CHOOSE t \in {due[id] : id \in live} : \A id \in live : t <= due[id]

\* The loop never wakes before a timer is due, and oversleeps by less than a second.
SleepLength ==
  pc = "poll" /\ live # {} =>
    wakeAt >= Soonest /\ (wakeAt <= Soonest \/ wakeAt < now + Second)

\* aeStop ends aeMain, after the walk that is under way: the cron that could come
\* again has deleted itself, and however slow they are, the others run once.
StopEnds == stop ~> pc = "exited"

\* The loop sleeps until the nearest timer and no longer, as the comment of
\* aeProcessEvents says (ae.c:268-269).
SleepsNoLonger == pc = "poll" /\ live # {} => wakeAt <= Soonest \/ wakeAt <= now
=============================================================================
