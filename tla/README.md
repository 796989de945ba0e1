# A TLA+ model of c-net

c-net is a small C library for TCP servers and clients in the style of muduo, on top of
Redis's `ae` event loop: one event loop per thread, sessions dealt out to worker threads,
messages between threads through a locked ring with a wake-up socket. This directory
models it in TLA+, checks the models with TLC, and proves the safety properties with TLAPS
for every value of the constants.

File names below are relative to `src/src/net/` unless they start with `test.c`
(`src/src/test/test.c`, the only program of the repository). The repository has no
documentation beyond a one-line README; what it says of itself are comments and assertions.

1. [The system](#1-the-system)
2. [Modules](#2-modules)
3. [Runs](#3-runs)
4. [Fairness](#4-fairness)
5. [Proofs](#5-proofs)
6. [Deviations](#6-deviations)
7. [Not modelled](#7-not-modelled)
8. [Plan](#8-plan)

## 1. The system

| component | state it keeps | operations | what makes it correct |
|---|---|---|---|
| circqueue (`event_msgqueue.c:8-119`) | `maxEntries`, `elems`, `head`, `tail`, `count`, `size` | init, push at the tail (growing by two when it has no bound), pop at the head | a first-in first-out queue, of at most `maxEntries` elements when bounded |
| eventMsgqueue (`event_msgqueue.c:121-229`) | a circqueue, a mutex, a socket pair | `pushMsgqueue` by any thread, `popMsgqueue` as the loop's read handler | every accepted message reaches the callback once, in order; a message never waits without a wake-up |
| fastArray | `arrayItem`, `tail`, `capacity`; `arrayIndex` in each item | push, erase, look up | an item's index names its slot |
| session | socket, state, mask, two buffers, callbacks | init, destroy, read until `EAGAIN`, write at once or by message | freed once, not used afterwards; what is written arrives, in order and once |
| buffer | `data`, `size`, `writeIndex`, `readIndex` | append, prepend, expand, make space, move indices | bytes come out as they went in, nothing written outside the allocation |
| eventLoop | state, pid, ae loop, message queue | add, remove, send, connect (directly on its own thread, by message from another), cron, start, stop | the handlers run on the loop's thread only |
| ae, ae_epoll | table of file events per descriptor, `maxfd`, the kernel's epoll set, the batch that fired, list of timers, `stop` | create and delete events, process a turn, run and stop | table and epoll agree; a handler is called for what is registered now, and for all of it; timers run when due and once per turn |
| eventLoopThread, eventLoopThreadPool | thread, its loop, mutex and condition variable; `nextId` | start, stop and join, next loop in turn | nobody sees a thread without its loop; the next loop is in range |
| tcpServer | listening socket, session array with its lock, pool | accept, disconnect, stop | each session has one owner who frees it; stopping ends |
| tcpClient | state, session, retry and its delay | start, stop, destroy, retry | one connection at a time, no leak, a lost connection is retried |
| anet | none but the descriptors it opens | create, connect, listen, accept | whatever fails, the caller has the descriptor or it is closed |
| zmalloc | `used_memory`, a size in front of each block | allocate, change size, free; a mutex for the count | the count is what the live blocks take |
| mylog | a log file | write a line | see [Not modelled](#7-not-modelled) |

How they interact. A *main thread* runs a base loop; its accept handler creates a session,
puts it in the server's array (under `sessionArrayLock`) and posts ADDSESSION to the next
worker's queue. A *worker thread* runs `aeMain`: it sleeps in epoll, calls the read handler
of each descriptor that fired - a session's `onReadSession`, or `popMsgqueue`, which runs
`eventCallBack` on each message - and then the timers, one of which, `eventLoopCron`, looks
every 100 ms whether the loop is to stop. A worker that sees a connection end erases the
session from the array (same lock), deletes its event and frees it. On SIGINT the base loop
ends, and main erases every session that is left, posts REMOVESESSION to the workers, asks
each worker to stop and joins it. A client lives on one loop: its connect handler, retry
timer and read handler run there; its user may call from another thread.

What is hard here: pushes while a drain is under way and the wake byte that is sent only for
an empty ring; a blocking send with the mutex held; descriptors closed and reused inside one
batch of events; ae's table, epoll's set and a session's mask, which must agree and do not
after a partial write; sends of several threads and a removal on one session; stop against
disconnect; the start handshake with a condition variable, and the destruction of loops
that threads and a signal handler still name; helpers of which each system call may fail;
a counter without a lock; retry timers that nobody can cancel; index arithmetic (ring, buffer, seconds and
milliseconds). `PROJECT.json` lists each hazard at its line.

## 2. Modules

| module | models | state and actions |
|---|---|---|
| `BoundedFifo` | abstract: what a ring promises | a sequence and the last result |
| `CircQueue` | circqueue | the C fields as variables, the array as a function on slots; `pushTailCircqueue` with `growCircqueue`, `popHeadCircqueue`; `FifoSpec` is the refinement of `BoundedFifo` |
| `MsgChannel` | abstract: what a message queue promises | sequences of accepted and delivered messages, set of refused ones |
| `MsgQueue` | pushMsgqueue, popMsgqueue | EXTENDS `CircQueue`; one action per step between two lock, unlock, send, recv or callback; `ChannelSpec` is the refinement of `MsgChannel` |
| `FastArray` | fastArray | the C fields and each item's `arrayIndex`; `crash = "index"` is the failed assertion |
| `TcpServer`, `MC_TcpServer` | tcpServer, session, eventLoop and ae of a running server | EXTENDS `FastArray` for the session array; per worker a program counter, message queue, ae table, epoll set and fired batch |
| `SessionOutput`, `MC_SessionOutput` | writeSession, sendSessionEvent, removeSessionEvent and the messages they queue | one session, its mask, send buffer and registered events; per thread a program counter between the test of the state and the push; bytes with a name each |
| `Anet` | the helpers of anet.c | the open descriptors; one operator per helper, with the outcomes of its system calls |
| `FileEvents` | ae's file events and ae_epoll | EXTENDS `Anet`; table, `maxfd`, epoll set and batch; handlers that open, register, delete and close whatever they like, also what is still in the batch |
| `LoopThread` | the pool's start, stop and destruction, eventLoopCron, SIGINT | program counters, mutex, condition variable and loop state per thread, the loops that are freed |
| `Zmalloc` | zmalloc | per caller the updates a call has still to make, each a load and a store |
| `PoolMemory` | the threads of a pool that allocate | composition of `LoopThread` and `Zmalloc`: a thread inside zmalloc takes no other step; `PoolSpec` |
| `Buffer`, `MC_Buffer` | buffer, and the read and write paths of session on it | the C fields and the contents of the allocation |
| `AeTimers` | time events, the poll timeout, aeMain's stop | the clock goes on by itself; a timer's two fields as in C |
| `TcpClient`, `MC_TcpClient` | tcpClient with its loop and a user on another thread | the client's fields, its sessions, what ae has registered per socket, the message queue; a program counter for the loop inside realConnect and onClose and one for the user's calls |
| `MsgQueue_proofs` (`CircQueue` and `MsgQueue`), `TcpServer_proofs` (`FastArray` and `TcpServer`), `PoolMemory_proofs` (`LoopThread`, `Zmalloc` and `PoolMemory`), `SessionOutput_proofs`, `AeTimers_proofs`, `FileEvents_proofs`, `Buffer_proofs`, `TcpClient_proofs` | theorems | see [Proofs](#5-proofs) |

Conventions. A definition has the name of the C function it stands for where there is one;
a name with an underscore and a suffix (`growCircqueue_NoTailChunk`) is a plausible bug in
the definition after it, which no action uses: the runs find each of them through the
property it is paired with in `PROJECT.json`. A failed `myAssert` or a use of freed memory
sets `crash` and ends the behaviour. History variables say so where they are declared.

Abstractions, and why they are sound:

- A thread's steps between two synchronisations on the same data are one step. Where a lock
  is held (`sessionArrayLock`, the queue's mutex), the steps inside are separate wherever
  another thread can see an intermediate state.
- In `TcpServer`, `TcpClient` and `SessionOutput` a message queue is an atomic bounded FIFO. `MsgQueue`, its
  runs and its proofs are what allows that. Its wake byte is not kept: a worker finds the
  queue's socket readable when the queue is not empty. A worker woken by a byte whose
  message an earlier drain has fetched already finds the ring empty and goes back to sleep.
- The bytes of a connection are one bit in `TcpServer` (unread data or not); `Buffer` has
  those that are read, `SessionOutput` those that are written.
- `TcpServer` knows read events only and has its own, smaller picture of ae's table and
  epoll; `FileEvents` has both directions, `maxfd`, errors and refusals of epoll, and makes the
  handlers arbitrary. That ae may refuse a new session's descriptor (`ae.c:89-96`) is the constant
  `Refusals` of `TcpServer`; `TcpClient` always lets it.
- In `TcpClient`, realConnect is three steps: lines 60-70, which set the session up and register it, then the client's
  state (71) and the session's (72), so that a stop by the other thread comes in between, and what it
  leaves in `tcpClient->session` is what line 72 finds. That lines 60-70 reread the pointer too is merged; a
  stop among them makes the behaviour `raced`, as one after them does. onClose is onReConnect (34), the pointer (35)
  and then removeSessionEvent.
- In `Zmalloc` the values of the counter are not followed past an overlap of two updates
  without the mutex: what follows depends on the bits that are lost.
- In `TcpClient` a retry timer may fire at any time after it was created, so the delay matters
  for `ClientTypeOK`'s bound on it only. (The code passes a thousandth of it, see [section 6](#6-deviations).)
- `dataCallBack` answers, closes or does neither, nondeterministically; so the uninitialised
  `ret` of `eventLoop.c:145`, when there is no callback, is covered.

## 3. Runs

| run | module, cfg | instance | shows |
|---|---|---|---|
| `circ_grow` | `CircQueue`, `MC_CircGrow` | no bound, 2 slots growing to 8, two elements | the ring is a FIFO through wrap and growth from every head position |
| `msgqueue` | `MsgQueue`, `MC_MsgQueue` | 2 producers, 4 messages, 2 slots, 2-byte socket read a byte at a time | no lost wake-up, how many wake bytes pile up; a push returns, and the queue is the channel with its liveness, unless pusher and loop block each other |
| `fastarray_assert` | `FastArray`, `MC_FastArrayAssert` | 3 items | violation: the assertion of `fastArray.c:59` |
| `server` | `MC_TcpServer` | 3 sessions, 2 descriptors, 2 workers, queues of 2, failing accepts, partial writes, refused registrations | ownership and registrations; when an assertion can fail or freed memory be used |
| `server_live` | `MC_TcpServer`, `MC_TcpServerLive` | 2 sessions, 2 descriptors, 2 workers | stop terminates; a closed connection is freed |
| `threads` | `PoolMemory`, `MC_PoolMemory` | 2 workers, spurious wake-ups; main and a worker make 2 calls of zmalloc with 2 blocks | the start handshake, SIGINT, destruction; the count of memory |
| `files` | `FileEvents`, `MC_FileEvents` | 2 descriptors, a table of 2 | table and epoll agree, a batch calls what is live, no descriptor is lost but where a helper loses it |
| `send` | `MC_SessionOutput` | the loop and 2 threads, 2 bytes each, a socket of 2, a queue of 2 | where each byte is, what the peer misses, when a send uses a freed session |
| `buffer` | `MC_Buffer` | 2 prepend bytes, sizes 0 to 8, strings of up to 7 bytes | content, exactly which calls overrun |
| `timers` | `AeTimers`, `MC_AeTimers` | the cron with a period of 2 ms and 2 timers of users, a second of 3 ms, clock to 7 ms | who is called twice in a walk and when, no due timer left out, sleep within bounds, stop ends |
| `timers_sleep` | `AeTimers`, `MC_AeTimersSleep` | 1 timer | violation: an overdue timer makes the loop sleep on |
| `client` | `MC_TcpClient` | 2 sockets, 2 sessions, queue of 2, 2 timers, delays 3 to 8, refused registrations | retries neither stop nor multiply, which sockets are forgotten, when freed memory is used |

Why the bounds are enough. In the ring, head and tail depend on each other only modulo the
size, so two growths from every position of a two-slot ring meet every shape of wrapped copy;
and the theorems hold for all sizes. In the message queue, two producers give a pusher that
finds the ring empty while another is about to send, and three or more messages make the drain loop
run through a push; read a byte at a time, the wake bytes pile up. A socket of two is full
in the middle of a drain of three messages, and send blocks. In the server, a third session on
two descriptors forces a descriptor to be reused; two workers make stop and disconnect,
and the disconnects of different workers, race; queues of two fill up. A capacity of 2 makes the session array grow once. In
the client, the second session and socket let a retry overlap with the end of the first
connection; a run of failed attempts takes the delay through its limit.
With two descriptors a handler can delete,
close and reopen the one that is next in its batch as well as its own. In the output of a session,
a socket of 2 takes all, a part or nothing of a buffer; a queue of 2 is full when a send and
a removal wait in it; two threads let a removal overlap with a send. Two calls of zmalloc are
two updates at once, or a block that is allocated and then changed or freed; a third would start from a state that
two calls reach too, as long as `UsedIsSum` holds.
Buffers as short as the prepend area make the unsigned subtraction wrap. A second of 3 ms
makes every carry and borrow happen within two seconds. The clock goes on inside a walk too, and seven milliseconds
let a handler block until the cron is due again in the same walk, more than once.

Every bound that is not in the code is a constant named as such: `MaxElements`,
`MaxTimers`, `MaxNow`, `MaxSize`, `MaxLen`, `MaxBytes`, `MaxCalls`, `NumFds`, and the sets of
elements, messages, sessions, sockets and `Pointers`. Sessions and messages are used at
most once each, since they stand for allocations; descriptors, sockets and blocks are used again.

Symmetry, over sessions and descriptors in `server`, sockets and sessions in `client` and threads in `send`, is used in
runs without liveness only, and no definition tells the members of those sets apart.

`CHECK_DEADLOCK FALSE` stands where the system may stop: every message has been sent, the
program has ended or crashed, the buffer or the set of sessions is used up, the clock has
reached `MaxNow`. `circ_grow` and `files` have no such state and do check deadlock.

### The properties in a sentence each

*Ring and queue.* `FifoSpec`, `ChannelSpec`: the refinements; the liveness of the second one, that an accepted message is
delivered, holds unless the queue ends up `Wedged`: a pusher blocks in send with the mutex that the drain waits for. `NoLostWakeup`: a message in the
ring has a byte, a sender or a drain behind it. `WakeBytesBounded`: at most as many wake bytes are unread as
messages were popped since the socket was last read empty, and one more; so a send blocks,
mutex held, only in a drain of that length. `PushReturns`: every push returns, or the queue is wedged,
and then as many messages as the socket takes bytes were popped since it was
last read empty (13 in [section 6](#6-deviations)). Both outcomes occur in the run.

*Array and server.* `ConsistentUntilMove`: indices are right
until an erase fills a hole. `SingleOwner`: each live session is in exactly one
place from which it is freed. `NoUseAfterFree`, `RegistrationsCurrent`:
unless an erase has filled a hole or a write was partial, no freed session is used, ae's
table names live sessions only, and each live session is watched or its ADD is waiting, or was refused by the queue or by ae.
`AbortOnlyAtStop`: with right indices, only stop against disconnect fails the assertion.
`NoSpuriousRead`: a stale event of a batch never reaches the session that got the descriptor.
`StopTerminates`: main, the workers and the array's lock never wait for each other for ever.
`PeerCloseFrees`: a connection that its peer closes is noticed and freed.

*Threads and memory.* `StartedIsReady`, `RunUntilStopped`, `StartReturns`: the handshake loses no
signal, lets nobody past early, and a thread's initialisation never overwrites its RUN.
`SigintWhileRunning`: SIGINT during the base loop ends the program. `LoopsOutliveUse`: no
thread's loop is destroyed before the thread is out of it, and only a late SIGINT writes to a destroyed one.
`UsedIsSum`: between calls, and as long as no two updates without the mutex have overlapped,
`used_memory` is the sum of what the live blocks take (`Taken`: each its size and prefix, rounded up to a
long), modulo the width of `size_t`, through any sequence of allocations, changes of size and frees.

*File events.* `OpenIsHeld`: a descriptor that is open is known to the program, but for those a
helper loses (14). `AskedIsWatched`: what was asked for, the table and epoll are one, but for descriptors closed
with events registered, or refused by epoll (15). `CalledIsLive`: who is called from a batch is open, registered and was
reported. `ServedInBatch`: every event that was ready at the poll and stays registered has its handler
called before the batch is over, be it a handler of its own or one for both events.

*Output.* `EveryByteOnce`: a byte given to a session is in one place, once: a message, a buffer, the socket, or
among those refused. `GapIsSendBuffer`: what is sent or on its way, and what is in the send buffer, are two parts of
what was written, each in the order of writing; so what the peer misses is the send buffer. `StalledUnwatched`: what is in the send buffer stays there. `FreedUseIsLateOrRace`: a freed session is used only if somebody
begins a call with it after it was freed, or if its removal overlapped a call of another thread or left messages behind.

*Buffer.* `ReadableIsStream`: growth and compaction keep the bytes. `SafeUses`,
`OverrunOnlyBeyondDoubling`: only an append longer than one doubling can make room for, or a
prepend, writes outside.

*Timers.* `SleepLength`: carries and borrows. `OncePerWalk`: a walk calls only timers that were there when it began, each at most
once, but for the cron, which it calls again when it has lasted a whole period. `WalkIsComplete`: the
restarted walk leaves no due timer out. `StopEnds`: aeMain ends after aeStop, however slow handlers are.

*Client.* `RetryNeverStuck`: something is always pending for a retrying client, unless ae has refused an attempt
(`Abandoned`), and a connected one has its session.
`AtMostOneActivity`, `NoOrphanSocket`, `NoUseAfterFree`: for an `Orderly` user there is one
connection at a time, every socket but the abandoned ones belongs to somebody, and nothing freed is used. `Orderly`
spells out what the code leaves to its user; no check in the code enforces it.
`OpenIsWatched`: whatever the user does, the sockets that are open and not watched are exactly those that ae refused. `QuietStaysQuiet`: when a stop is final.

The type invariants, and invariants that hold by themselves but matter to proofs (`RingShape`,
`ExactlyOnceInOrder`, `WhenIsExact`, `IndicesInOrder`, `TailCounts`, `MaxfdIsMax`), are not in
the runs: they are theorems.

## 4. Fairness

Only steps of threads that can run are fair, and each assumption is the weakest that serves.

- `MsgQueue`: weak fairness of each producer's steps inside `pushMsgqueue` and of the loop.
  Nobody is made to push. Weak fairness suffices since the messages are finite, so that no
  thread can take the mutex for ever.
- `TcpServer`: weak fairness of main and the workers; strong fairness of a worker's
  `cronStep`, since the timer is due again every 100 ms and a turn of the loop always ends
  with the timers. Peers, accepts and SIGINT are not fair.
- `PoolMemory`: as `LoopThread`, weak fairness of main and the threads, strong fairness of a
  thread's lock of the start mutex, which main may take and give up in its wait again and
  again; and strong fairness of an update of the counter, whose mutex other callers may take
  in between. Nobody is made to allocate, and SIGINT need not come.
- `FileEvents`, `SessionOutput`: none; their properties are safety.
- `AeTimers`: weak fairness of the loop and of the clock; file events need not come.

`StopEnds` needs no assumption on how long handlers take. All timers but the cron run once, so the walk that is under way can go
on only by calling the cron again, and the cron that has called aeStop deletes itself. Before the stop, handlers that block for
a period (a retry timer in `gethostbyname`, `anet.c:195`) make the walk call the cron again (`ae.c:258`). Its period counts from
when it returns, so a slow cron is not due again by itself, and the walk goes on for as long as other
handlers, each of which runs once, take.

## 5. Proofs

Checked by `tlapm` with Z3, Zenon and LS4, for all values of the constants that satisfy the
named assumptions (`CircAssumption`, `MsgQueueAssumption`, `FastArrayAssumption`, `TcpServerAssumption`,
`LoopThreadAssumption`, `PoolMemoryAssumption`, `ZmallocAssumption`, `AeTimersAssumption`, `AnetAssumption`,
`FileEventsAssumption`, `BufferAssumption`, `TcpClientAssumption`, `SessionOutputAssumption`), which TLC evaluates in the runs.

`MsgQueue_proofs`, its first part, about `CircQueue`. The inductive invariant `CircInv` puts types and shape together: `head` and
`tail` are slots, `tail` is `head + count` modulo the size, the slots from `head` on that are
in use hold elements, and a bounded ring never has more than its bound. Types alone are not inductive: that a
popped value is an element needs the shape, and that `tail` stays in range through growth needs the count.
From it follow `CircTypeCorrect`, `CircRingShape`, and `CircImplementsFifo`: the sequence
`Contents` read from `head` behaves as the queue of `BoundedFifo`. Its lemmas say what a push, a
growth and a pop do to `Contents`; the one on growth is that copying two chunks, at whatever
head, leaves the sequence as it was.

Its second part, about `MsgQueue`. `MsgQueueInv` is `CircInv`, the types, `MutualExclusion`, `SenderSeesItsMessage`,
`NoLostWakeup`, `WakeBytesBounded` and `ExactlyOnceInOrder`. No smaller set is inductive:
`NoLostWakeup` survives a drain's last look because only the mutex's holder changes
the ring; a sender's byte accounts for the message only because that message is still there,
which `SenderSeesItsMessage` says. The theorems are one per conjunct and
`MsgQueueImplementsChannel`: each step is a step of `MsgChannel` or leaves it unchanged, for any number of threads.
This is what entitles `TcpServer` and `TcpClient` to treat a queue as an atomic FIFO.
`MsgQueueWedged` is about the case in which the channel's liveness fails: once `Wedged`, always so, because the pusher in send has the mutex,
and the loop, with its callback at most left to run, does not get to the recv that would empty the socket.

`TcpServer_proofs`, its first part, about `FastArray`. `ArrayInv` is the types and `ArrayShape`: the slots in use hold items (an erase
from the last slot takes that item's index), the capacity is at least 2 (growth doubles
`tail`, which must not be 0), `ConsistentUntilMove` and `TailCounts`. `ArrayShape` is stated without the
types so that the second part can use it for the array that is shared between threads.
`ConsistentUntilMove` holds until an erase fills a hole, so
an assertion that fails had one before it, `AbortOnlyAfterMove`; `TailCounts`, that `tail` is the number of items pushed and
not erased, also holds afterwards, when erases hit the wrong slots.

Its second part, about `TcpServer`. `ServerInv` says how the array, the sessions, the queues, ae's tables and epoll
fit together. No property of the run is inductive without the others:

- A session that is live has a descriptor to itself (`LiveFds`), since accept returns a free one. ae's
  tables name sessions of their own loop, on their own descriptors, live or not (`TableKnown`), and epoll watches live
  ones only (`EpollKnown`), because closing takes a descriptor out of epoll without telling ae.
- The session a worker is reading is live and on its loop, and its descriptor is no longer in the batch (`WorkerHolds`). That is
  why a worker's own removal cannot be followed by another call for it.
- What the queues hold: a session whose ADD is waiting is live and not yet known to ae or epoll (`AddPending`);
  a REMOVE is sent once, after the ADD, for a session that is disconnecting (`RemovePending`); and whoever
  is disconnecting is with main, in a queue, or refused by it (`RemoveSent`). These give the order ADD, reads,
  REMOVE, free, in which `NoUseAfterFree` holds.
- While the server runs, what is in a batch is watched, and what is in a batch and registered
  has something to read (`FiredWatched`, `FiredReadable`): a descriptor that a handler closed is out of epoll,
  its number can come back only with a session whose ADD this worker has not drained. `NoSpuriousRead` rests on this.
- Until an erase fills a hole, a connected session is in the array or with the one thread that has just
  erased it (`ConnectedOwned`). `SingleOwner` and `AbortOnlyAtStop` follow.
- Until a partial write clears a mask, ae's table names live sessions that epoll watches, and a live session is in it
  or its ADD is waiting or refused, by the queue or by ae (`RegisteredLive`). `RegistrationsCurrent` follows.
- main stops the workers in turn, and not before it has been through the array (`StopsInTurn`).

The conditions `~moved` and `~MaskCleared` are in the conjuncts that need them and nowhere else, so the rest
holds also after the array's indices or the masks have gone wrong.

`PoolMemory_proofs`, its first part, about `LoopThread`. `LoopInv` is the types, `RunUntilStopped` and facts about the order of things:
a loop is ready once its thread is past `initEventLoop` (`ReadyMeansInit`), main starts the threads in
turn (`StartsInTurn`: those before the one it is at are in their loops, those after it do not
exist), and all are in their loops when main begins to stop them (`AllLooping`). The last two are what keeps a
thread's initialisation from coming after main's RUN. `StartedIsReady` is an action property and follows from
`ReadyMeansInit`. That main destroys loops in turn and only after it has joined every thread gives `LoopsOutliveUse`.
`PoolIsLoopThread` shows that each step of `PoolSpec` is a step of `LoopThread` or leaves it alone; through it the
theorems hold of the composition, `PoolLoopsSafe`. `LoopSignalNotLost` is the safety that `StartReturns` rests on: whoever is
between lock and unlock has the mutex, and when main waits without having been signalled, its thread has yet to signal.

Its second part, about `Zmalloc` in that composition. `UsedIsSum` speaks of states in which no call is under way;
`MemoryInv` says what holds in between. `CountedOrOwed`: the counter, and what the calls under way have still to add
or take off (`Owed`), are together the sum of `Taken`, but for whole turns of the counter. It is kept by an update because
of `OneAtATime`: until two have overlapped, at most one is between its load and its store, so what it
loaded is still the count; the mutex gives that to callers who lock, and `overlap` is the history of those who do not. That
`zfree` takes off what `zmalloc` put on, although `zrealloc` rounds sizes without their prefix, is lemma
`RoundedPrefix`, which rests on the assumption that the prefix is a whole number of longs; it is `sizeof(size_t)` or, on
Solaris, `sizeof(long long)` (`zmalloc.c:37-45`). No two blocks and no two callers
need be told apart, and there may be any number of both. The sum is `SumFunction` of the community modules, a fold over a
finite set, and that it changes by the difference when one value changes (`SumAdd`, `SumChange`) takes an induction. The library's
induction theorems cannot be instantiated with a predicate here, so the lemmas argue from the least number in a set (`LeastNumber`,
from `WFMin`), with a set of numbers where the predicate would stand.
`PoolMutexIsEnough`, an action property, says what `zmalloc_enable_thread_safeness` would buy: called while no update
is half done, it keeps the count right for ever.

`SessionOutput_proofs`. `OutputInv` has five parts.

- `TypeInv`: the types, and what is empty when: between two writes the loop holds no bytes, nor does a thread that is not
  about to queue some, nor a message that removes the session (`EmptyBetween`).
- `MaskInv`: the mask never asks for write events. `StalledUnwatched` alone is not inductive, since it says nothing
  of the mask while the send buffer is empty.
- `RaceInv`: unless `raced`, no thread is in a call once the session is being removed, a REMOVE waits only then, is the last
  message, and none waits when the session is freed. `FreedUseIsLateOrRace` follows, whatever the size of the queue: calls
  that came before the removal are safe, those begun later are `late`.
- `ByteInv`: the bytes sent, in the send buffer, in hand, in messages, with threads and lost are six disjoint sets and
  together all that was given (`Parted`), and none holds a byte twice. Each step moves a buffer from one set to another; lemmas say
  what filling, emptying or taking away one of several buffers does to their union (`Filled`, `Emptied`, `Taken`). It is
  stated of states without a use after free, where the model ends.
- `OrderInv`: until a send fails, the three parts of what writeSession was handed are each in the order of writing, and
  what is still in hand comes after all the rest. The last is what lets sent bytes, and stored ones, be followed by those in hand without
  breaking their order; that new bytes differ from those there comes from `ByteInv`. `Before` and `InOrder` are stated
  by positions in `handed`, so one lemma on concatenation (`OrderConcat`) serves every step.

`OutputStreamWhole` adds, by an invariant of its own, that up to the first send that fails or takes only a part the peer gets
exactly what was written.

`AeTimers_proofs`. `TimersInv` is the types, milliseconds below a second (`FieldsInRange`; without it a
carry of one second is not enough), `WhenIsExact`, `SleepLength`, and four facts about the walk: timers above
`maxId` were created during it (`WalkScope`), those it has called are deleted, or being called, or the cron, which is
due a period after the walk began or later (`RanIsOver`), those
behind its position that were there when it began are not due (`NoneSkipped`), and `WalkIsComplete`. `OncePerWalk` is an action
property and follows from `WalkScope` and `RanIsOver`. Nothing is assumed of the time a walk takes.

`FileEvents_proofs`. `FilesInv` has two parts. `TableInv` is the types, `OpenIsHeld`, `MaxfdIsMax`, `AskedIsWatched` and
`EpollInTable`: what epoll watches is open, has a slot, and is in the table with the same events. `AskedIsWatched` alone says
nothing of a descriptor that went astray; `EpollInTable` does, and it is what makes a closed
number never fire. It survives the handlers because ADD or MOD is chosen by the table and refused
when epoll disagrees. `BatchInv` is about the dispatch: an event that is due is still registered, and its entry is still
ahead or being worked on (`DueIsAhead`). It holds after a poll because the batch lists every ready descriptor,
whatever the order; it is kept by handlers because they change only the registration of the events they change; and when the
batch is empty nothing can be due, which is `ServedInBatch`. `CalledIsLive` is an action property and follows from
`TableInv` and the test of `fe->mask & mask`.

`Buffer_proofs`. `BufInv` adds to the four properties the length of the allocation (`Allocated`: with or without the
prepend bytes), that a message buffer that is yet to be filled is as `createBuffer` left it (`TempIsFresh`), and that
reading ends inside the allocation (`ReadableInside`). The unsigned subtractions are handled by one lemma, that
they do not wrap for indices in order; growth and compaction by one lemma each, that what they
return is a session's buffer again (`SessionLike`), so that the write after them need not be looked at three times.
`MaxSize` below half a word, the bound on growth of the model, is an assumption of these theorems: what
happens when doubling wraps is not covered.

`TcpClient_proofs`. `ClientInv` is the types, with what a handler holds in hand (`InHand`), and facts that do not ask for an
orderly user: ae names sessions that were made (`EntriesKnown`), a live session has its socket to itself (`LiveOwnsSocket`),
`OpenIsWatched`, a connecting client has a timer or an attempt or was refused one (`ConnectingPends`), unless
`raced` a connected client has its session (`ConnectedHasSession`), and the user's other thread is in no call while the loop is in realConnect
or onClose (`AloneInCallback`), which is what a stop in their middle breaks. `LiveOwnsSocket` is why removing one session
cannot take another's attempt away, and so why `RetryNeverStuck` holds. A socket whose mask a partial write has cleared leaves a
`STALE` entry in ae's table when it is closed; the next one of that number is refused, and so in `unheard`, which is what
lets `OpenIsWatched` say exactly which sockets are not watched.

The theorems for an orderly user have an invariant of their own on top of it, `OrderInv`: as long as the
user has been `Orderly`, `Order` holds.

- `OneAttempt`: of retry timer, attempt under way, CONNECT message and session there is one kind, and one of it. It gives
  `AtMostOneActivity`, by the cardinalities of the sets involved, and is kept since every step that
  begins one of them ends another, or needs a user who starts only a client of which nothing is left.
- `EventsLive`, `ConnectedHeld`: the sessions that ae's table names live, and a connected session is the client's or
  in the hands of the loop that frees it. An open socket is watched or refused (`OpenIsWatched`), and one that was
  refused is a live session's or `Abandoned`. Together they are `NoOrphanSocket`.
- `Closing`, `NamedIsHeld`, `StopIsLast`: while the loop is in realConnect or onClose it has the client's session to itself, and nobody knows
  the one it frees; the session that the user's other
  thread has read is the client's until that call is over; who stops does nothing else before that is over. The race
  that `Orderly` excludes would break `Closing` first.
- `QueueInOrder`: a CONNECT is alone in the queue, a REMOVE is its last message, and the session of a SEND lives; so draining in order
  uses nothing that is freed.
- `NothingLeft`: a client is destroyed only when no timer, attempt, message or session of it is left.

Only model-checked: liveness (`ChannelSpec`'s fairness part, `PushReturns`, `StopTerminates`,
`PeerCloseFrees`, `StartReturns`, `SigintWhileRunning`, `StopEnds`), which is beyond the
prover, as is anything with ENABLED. Every safety property of the runs is a theorem.

## 6. Deviations

What the code does against its own assertions, comments or evident purpose. The first two are
the violation runs.

1. `fastArray.c:44-45`: `erase` does not tell the item it moves its new index. Two sessions
   that end in the order they came abort the server at `fastArray.c:59`, or erase each
   other's slot (`fastarray_assert`). All server properties that fall with it say `~moved`.
2. `ae.c:312`: for an overdue timer the seconds are clamped to 0 but the borrowed microseconds stay;
   the loop sleeps for up to a second, against `ae.c:268-269` (`timers_sleep`).
3. `tcpServer.c:141-145` erases a session that its worker may be about to erase: the worker
   fails the same assertion (`AbortOnlyAtStop`; `crash = "index"` at stop).
4. `tcpServer.c:50, 73`: an accept that fails aborts the server.
5. `tcpServer.c:56`, `eventLoop.c:126`: server sessions start as kConnected, so
   `connectionCallBack` is never called for them.
6. `session.c:120` sets the mask to NONE after a partial write: the rest is never sent, and
   removal leaves ae's table with a pointer to the freed session; the next socket with that number is
   never watched. `MaskCleared` in `TcpServer` and `STALE` in `TcpClient` stand for this.
7. `eventLoop.c:241, 266, 289, 312`: refused messages are ignored; a refused ADD leaves a connection
   unheard, a refused REMOVE a session open for ever. For a client the latter means that
   each event on the old socket starts another retry.
8. `eventLoop.c:210`: a SIGINT before `startEventLoop` is forgotten (`test.c:55-66`).
9. `eventLoop.c:37-39` asserts on a field that CONNECT messages do not set.
10. `tcpClient.c:25` passes `retryDelayMs / 1000.0` where milliseconds are expected;
    line 26 lets the delay exceed its maximum by less than a factor of two.
11. `tcpClient.c:38-56` does not look at the client's state: a client stopped during an attempt
    connects all the same, or goes on retrying.
12. `buffer.c:85` refuses the prepends that fit; `buffer.c:64` doubles once, whatever is asked for.
13. `event_msgqueue.c:207`: if a drain is long enough for as many wake bytes as the socket
    holds, the sender blocks with the mutex that the drain needs. The bytes are unread
    until the drain is over, so neither thread goes on. With the usual socket buffers this takes some hundreds
    of alternations of empty and non-empty within one drain; `WakeBytesBounded` gives the condition, `PushReturns` says that
   nothing else keeps a push from returning, and `MsgQueueWedged` that there is no way out.
14. `anet.c:135, 166, 203, 247`: when setsockopt or fcntl fails, the helpers return `ANET_ERR` and
    leave the socket open, with nobody to close it; the other error paths close it. `lost` stands for these.
15. `ae_epoll.c:36` chooses between ADD and MOD by ae's table, but closing a descriptor takes it out of epoll
    only. After a close with events registered, the next registration of that number is refused; the result
    of `aeCreateFileEvent` is looked at by nobody (20). `astray` stands for such descriptors; 6 is how c-net gets one.
16. `session.c:93-121`: while bytes wait in the send buffer, later writes go to the socket at once and overtake
    them (`GapIsSendBuffer`).
17. `eventLoop.c:246-292`: the state of the session is tested before the message is queued, and the message keeps
    a pointer. A removal by one thread and a call by another may end in a use of the freed session, and so does a call that
    begins after it was freed: a caller has no way to tell (lines 249 and 273 read the state in the freed memory). `FreedUseIsLateOrRace`
    says that there are no other ways.
18. `test.c:47-53`: SIGINT's handler stays installed after the base loop is destroyed, and writes to it.
19. `zmalloc.c:65, 78`: `used_memory` is updated without the mutex unless `zmalloc_enable_thread_safeness` has been
    called, which nothing calls. `zmalloc.c:146-147`: `zrealloc` accounts for the size without its prefix; the
    two calls agree on leaving it out, so the sum is right, since the prefix is a whole number of longs (part of `ZmallocAssumption`).
20. `tcpClient.c:101`, `eventLoop.c:52-57` and `232-235` ignore that `aeCreateFileEvent` may fail, for a descriptor past the table or
    when epoll refuses it (`ae.c:89-96`, and 15). The socket stays open and nobody listens: a server's connection is never
    heard of again, a retrying client stays kConnecting for ever. `unheard` and `Abandoned` stand for these sockets in
    `TcpClient`, the ADDs in `lost` in `TcpServer`.
21. `tcpClient.c:94-95` asserts that connecting never fails at once: a client aborts, also one that would retry, when the
    network is unreachable, the name cannot be resolved or no descriptor is left (`crash = "connect"`), while
    a connect that fails later is retried.
22. `tcpClient.c:72`: a stop by another thread while the loop is in realConnect clears `tcpClient->session`, and the
    loop writes through a null pointer (`crash = "null"`); a stop while it is in onClose may remove the session twice. `raced` stands for these.
23. `ae.c:254-258`: a handler that blocks for as long as the cron's period makes the walk call the cron again (`OncePerWalk`).

## 7. Not modelled

- `mylog.c`: writes lines to a file; no other part reads its state.
- `ae_kqueue.c`, `ae_select.c`: not compiled on Linux (`ae.c:42` includes `ae_epoll.c`).
- `onWriteSession` and `closeWriteStateSession` (`session.c`, `eventLoop.c`): no write event is ever registered for a
  session; `StalledUnwatched` is the check of that. `deleteTimeEvent` is empty, and `createTimeEvent` does
  nothing on another thread (`eventLoop.c:340-347`).
- `aeWait`, `aeSetBeforeSleepProc`, `aeGetApiName`, `anetRead`, `anetWrite`, `anetTcpKeepAlive` and the like: nothing in the library calls them. `anetTcpNoDelay` is called, its result ignored, and opens or closes nothing.
- Descriptors beyond the table (`AE_SETSIZE`) are refused in `FileEvents`, and covered by its theorems;
  its run has a slot for each. In `TcpServer` and `TcpClient` they are among the registrations that ae may refuse.
- `zmalloc`: the counts per size and the resident size, which nothing reads; allocation that fails, since `zmalloc_oom` aborts.
- `nextpow2` (`event_msgqueue.c:19`): the library calls it for 128 only; `InitialElements` is its result.
- A pool without threads, and two pools in one process (they share `nextId`): the one program of the repository does neither.
- Memory ordering: variables that threads share without a lock (`eventLoop->state`,
  `session->state`, `tcpClient->session`) are read and written in single steps of any order of
  threads, reread or not where the C code names them twice, but not torn or delayed.

## 8. Plan

The order was that of how much rests on each part: messages between threads first, then the
sessions and their owners, then the loop's parts, then the client, then what they all stand on (descriptors,
memory). All of it is done.

What could still be added:

1. `TcpServer` over `FileEvents` instead of its own picture of ae: the state space of the two is out of TLC's
   reach, a refinement between them may be proved.
2. A second pool, and a pool without threads (`eventLoopThreadPool.c:56-71`).
3. `nextpow2` on 32 bits, for queues of other sizes than 128.
