------------------------------ MODULE FileEvents ------------------------------
(***************************************************************************)
(* The file events of ae (ae.c, ae_epoll.c): the table of what is          *)
(* registered per descriptor, the kernel's epoll set that must agree with  *)
(* it, and the dispatch of one batch of fired events, whose handlers open, *)
(* register, delete and close descriptors, those later in the batch too.   *)
(* Descriptors come from the helpers of anet.c.  One loop, all on its      *)
(* thread.                                                                 *)
(***************************************************************************)
EXTENDS Anet, Sequences, SequencesExt

CONSTANT SetSize   \* AE_SETSIZE: slots of the table (10240)

ASSUME FileEventsAssumption == SetSize \in Nat \ {0}

Events == {"READABLE", "WRITABLE"}
Masks == (SUBSET Events) \ {{}}
Slots == {f \in Fds : f < SetSize}

VARIABLES
  held,     \* the open descriptors the program knows
  asked,    \* history: per slot, the events it was asked to watch; nobody looks at AE_ERR
  mask,     \* per slot: fe->mask
  same,     \* per slot: fe->rfileProc = fe->wfileProc, as onConnecting is
  maxfd,    \* eventLoop->maxfd
  epoll,    \* the kernel's set: descriptor to events
  pc,       \* "poll", "read", "write" (the two tests of an entry), "inRead",
            \* "inWrite" (their handlers), "timers" (in the timers' handlers)
  fired,    \* the entries of the batch that are left
  rfired,   \* the local of the dispatch
  due,      \* history: per slot, the events ready at the poll that wait for their handler
  astray    \* history: the descriptors closed with events registered, or refused by epoll_ctl

tableVars == <<asked, mask, same, maxfd, epoll, astray>>
dispatchVars == <<pc, fired, rfired>>
vars == <<anetVars, held, tableVars, dispatchVars, due>>

Init ==
  /\ open = {} /\ lost = {} /\ held = {}
  /\ asked = [f \in Slots |-> {}] /\ mask = [f \in Slots |-> {}]
  /\ same = [f \in Slots |-> FALSE]
  /\ maxfd = -1 /\ epoll = <<>>
  /\ pc = "poll" /\ fired = <<>> /\ rfired = FALSE
  /\ due = [f \in Slots |-> {}] /\ astray = {}

Registered == {f \in Slots : mask[f] # {}}
Watched(f) == IF f \in DOMAIN epoll THEN epoll[f] ELSE {}

\* What went astray is in order again when nothing is registered or asked for.
Settle(fs) == astray' = {f \in fs : asked'[f] \cup mask'[f] # {}}
-----------------------------------------------------------------------------
(* What handlers call.  They are called by the dispatch and the timers. *)

InHandler == pc \in {"inRead", "inWrite", "timers"}

\* A helper of anet.c is called, by a client or a server.
openFile ==
  /\ InHandler
  /\ \E ret \in Rets :
       /\ \/ \E flag \in {0, 1} : anetTcpGenericConnectEx(ret, flag)
          \/ \E nonblock \in BOOLEAN : anetGenericConnect(nonblock, ret)
          \/ anetServer(ret)
          \/ anetAccept(ret)
       /\ held' = held \cup ({ret} \ {ANET_ERR})
  /\ UNCHANGED <<tableVars, dispatchVars, due>>

\* aeApiAddEvent that does not merge the old events.
aeApiAddEvent_NoMerge(f, m) ==
  /\ mask[f] # {} <=> f \in DOMAIN epoll
  /\ epoll' = [g \in DOMAIN epoll \cup {f} |-> IF g = f THEN m ELSE epoll[g]]

\* It takes EPOLL_CTL_MOD when the table has events for f, EPOLL_CTL_ADD when not.
aeApiAddEvent(f, m) ==
  /\ mask[f] # {} <=> f \in DOMAIN epoll
  /\ epoll' = [g \in DOMAIN epoll \cup {f} |-> IF g = f THEN m \cup mask[f] ELSE epoll[g]]

\* Both events asked for at once have one handler, one alone has its own.  A
\* descriptor without a slot is refused, and nothing changes.
aeCreateFileEvent(f, m) ==
  /\ InHandler /\ f \in held \cap Slots
  /\ asked' = [asked EXCEPT ![f] = @ \cup m]
  /\ \/ /\ aeApiAddEvent(f, m)
        /\ mask' = [mask EXCEPT ![f] = @ \cup m]
        /\ same' = [same EXCEPT ![f] = m = Events]
        /\ maxfd' = IF f > maxfd THEN f ELSE maxfd
        /\ due' = [due EXCEPT ![f] = @ \ m]
        /\ UNCHANGED astray
     \/ /\ astray' = astray \cup {f}    \* epoll_ctl fails: no such entry, or no memory
        /\ UNCHANGED <<mask, same, maxfd, epoll, due>>
  /\ UNCHANGED <<anetVars, held, dispatchVars>>

\* The kernel's entry that is left when the slot's mask becomes m; a failure of
\* epoll_ctl is ignored.
aeApiDelEvent(f, m) ==
  epoll' = IF f \notin DOMAIN epoll THEN epoll
           ELSE IF m = {} THEN Restrict(epoll, DOMAIN epoll \ {f})
           ELSE [epoll EXCEPT ![f] = m]

\* When the events of maxfd go, a walk down the table to the next slot in use.
lowerMaxfd(f, rest) ==
  IF f = maxfd /\ f \notin rest
  THEN maxfd' \in {g \in rest \cup {-1} : \A h \in rest : h <= g}
  ELSE UNCHANGED maxfd

aeDeleteFileEvent(f, m) ==
  /\ InHandler /\ f \in held \cap Slots
  /\ asked' = [asked EXCEPT ![f] = @ \ m]
  /\ IF f \in Registered
     THEN /\ mask' = [mask EXCEPT ![f] = @ \ m]
          /\ lowerMaxfd(f, Registered')
          /\ aeApiDelEvent(f, mask[f] \ m)
          /\ due' = [due EXCEPT ![f] = @ \ m]
     ELSE UNCHANGED <<mask, maxfd, epoll, due>>
  /\ Settle(astray)
  /\ UNCHANGED <<anetVars, held, same, dispatchVars>>

\* close: the kernel forgets the entry, the table does not.
closeFile(f) ==
  /\ InHandler /\ f \in held
  /\ open' = open \ {f} /\ held' = held \ {f}
  /\ epoll' = Restrict(epoll, DOMAIN epoll \ {f})
  /\ UNCHANGED <<lost, mask, same, maxfd, dispatchVars>>
  /\ IF f \in Slots
     THEN /\ asked' = [asked EXCEPT ![f] = {}]
          /\ due' = [due EXCEPT ![f] = {}]
          /\ Settle(astray \cup {f})
     ELSE UNCHANGED <<asked, due, astray>>
-----------------------------------------------------------------------------
(* aeProcessEvents *)

\* aeApiPoll that knows EPOLLIN alone.
aeApiPoll_ReadOnly(events) == events \cap {"READABLE"}

\* What aeApiPoll makes of the events epoll_wait reports for a descriptor: errors and
\* hang-ups are dropped, and the entry that is left may be empty.
aeApiPoll(events) == events \cap Events

\* epoll_wait returns the descriptors that are ready, r, in any order; or none, at
\* a timer's time.  Being level-triggered it depends on the moment only.  Errors it
\* reports without being asked.
poll ==
  /\ pc = "poll"
  /\ \E r \in [DOMAIN epoll -> SUBSET (Events \cup {"ERROR"})] :
       /\ \A f \in DOMAIN r : r[f] \subseteq epoll[f] \cup {"ERROR"}
       /\ \E s \in SetToSeqs({f \in DOMAIN r : r[f] # {}}) :
            /\ fired' = [i \in DOMAIN s |-> [fd |-> s[i], mask |-> aeApiPoll(r[s[i]])]]
            /\ pc' = IF s = <<>> THEN "timers" ELSE "read"
       /\ due' = [f \in Slots |-> IF f \in DOMAIN r THEN r[f] \cap Events ELSE {}]
  /\ rfired' = FALSE
  /\ UNCHANGED <<anetVars, held, tableVars>>

Entry == Head(fired)

\* The dispatch that trusts the batch.
Valid_Trusting(e) == e \in Entry.mask

\* fe->mask & mask: an earlier handler may have deleted the event.
Valid(e) == e \in Entry.mask /\ e \in mask[Entry.fd]

readEvent ==
  /\ pc = "read"
  /\ IF Valid("READABLE")
     THEN pc' = "inRead" /\ due' = [due EXCEPT ![Entry.fd] = @ \ {"READABLE"}]
     ELSE pc' = "write" /\ UNCHANGED due
  /\ UNCHANGED <<anetVars, held, tableVars, fired, rfired>>

readReturns ==
  /\ pc = "inRead"
  /\ pc' = "write" /\ rfired' = TRUE
  /\ UNCHANGED <<anetVars, held, tableVars, fired, due>>

NextEntry ==
  /\ fired' = Tail(fired) /\ rfired' = FALSE
  /\ pc' = IF Len(fired) = 1 THEN "timers" ELSE "read"

\* One handler for both events is called once, for both.
CalledForBoth == rfired /\ same[Entry.fd]

writeEvent ==
  /\ pc = "write"
  /\ IF Valid("WRITABLE") /\ ~CalledForBoth
     THEN pc' = "inWrite" /\ UNCHANGED <<fired, rfired>>
     ELSE NextEntry
  /\ due' = IF Valid("WRITABLE") THEN [due EXCEPT ![Entry.fd] = @ \ {"WRITABLE"}] ELSE due
  /\ UNCHANGED <<anetVars, held, tableVars>>

writeReturns ==
  /\ pc = "inWrite"
  /\ NextEntry
  /\ UNCHANGED <<anetVars, held, tableVars, due>>

\* processTimeEvents is over, and aeMain goes round.
timersReturn ==
  /\ pc = "timers"
  /\ pc' = "poll"
  /\ UNCHANGED <<anetVars, held, tableVars, fired, rfired, due>>
-----------------------------------------------------------------------------
loopStep == poll \/ readEvent \/ readReturns \/ writeEvent \/ writeReturns \/ timersReturn

handlerStep ==
  \/ openFile
  \/ \E f \in Fds : \/ closeFile(f)
                    \/ \E m \in Masks : aeCreateFileEvent(f, m) \/ aeDeleteFileEvent(f, m)

Next == loopStep \/ handlerStep

Spec == Init /\ [][Next]_vars
-----------------------------------------------------------------------------
EventsTypeOK ==
  /\ open \subseteq Fds /\ lost \subseteq open /\ held \subseteq open
  /\ asked \in [Slots -> SUBSET Events] /\ mask \in [Slots -> SUBSET Events]
  /\ same \in [Slots -> BOOLEAN]
  /\ maxfd \in Slots \cup {-1}
  /\ DOMAIN epoll \subseteq open /\ \A f \in DOMAIN epoll : epoll[f] \in Masks
  /\ pc \in {"poll", "read", "write", "inRead", "inWrite", "timers"}
  /\ astray \subseteq Slots

\* Every open descriptor is known to the program, but for those a helper lost
\* when setsockopt or fcntl failed (anet.c:126-140, 163-166, 200-203, 245-248).
OpenIsHeld == held \cap lost = {} /\ open = held \cup lost

\* What was asked for, what the table has and what the kernel watches are one,
\* for every descriptor with a slot that was not closed with events registered
\* nor refused by the kernel; and deleting its events puts such a one right
\* (ae.c:86-123, ae_epoll.c:31-66).
AskedIsWatched ==
  \A f \in Slots \ astray : asked[f] = mask[f] /\ Watched(f) = mask[f]

\* maxfd is the highest descriptor with events, or -1, whatever the order of
\* deletions (ae.c:102-103, 114-121).
MaxfdIsMax == maxfd \in Registered \cup {-1} /\ \A f \in Registered : f <= maxfd

Calls(f, e) ==
  /\ fired # <<>> /\ Entry.fd = f
  /\ pc' = IF e = "READABLE" THEN "inRead" ELSE "inWrite"
  /\ pc # pc'

\* A handler called from a batch has an open descriptor for which its event is
\* asked, is registered and was reported, although handlers before it closed and
\* deleted at will; the exception is a number closed with events registered, which
\* epoll has forgotten and the table has not.  (A number closed and opened again in
\* the batch is called for what was reported of the old one, ae.c:334-345.)
CalledIsLive ==
  [][\A f \in Slots, e \in Events :
       Calls(f, e) => f \in astray \/ (f \in held /\ e \in asked[f] \cap Entry.mask)]_vars

\* An event ready at the poll whose registration is left as it is gets its handler
\* called before the batch is over, whatever handlers do to the other descriptors
\* (ae.c:327-345, ae_epoll.c:68-89).
ServedInBatch == pc \in {"timers", "poll"} => \A f \in Slots : due[f] = {}
===============================================================================
