-------------------------------- MODULE Zmalloc --------------------------------
(***************************************************************************)
(* zmalloc.c: malloc with the size kept in a prefix, and the sum of what   *)
(* is allocated in used_memory.  Every thread of the process calls it.     *)
(* The counter is updated under a mutex only after                         *)
(* zmalloc_enable_thread_safeness, which nothing in the repository calls.  *)
(*                                                                         *)
(* An update is a load and a store: two without the mutex may overlap, and *)
(* then one is lost, or worse; the model says so (overlap) and begins no   *)
(* call after it.  malloc never fails: zmalloc_oom aborts.  The counts per *)
(* size, zmalloc_allocations, are updated beside used_memory, are read by  *)
(* nobody, and are left out.                                               *)
(***************************************************************************)
EXTENDS Naturals, Sequences, FiniteSets, FiniteSetsExt

CONSTANTS
  Callers,      \* the threads
  NoCaller,
  AllocSizes,   \* the sizes asked for
  PREFIX_SIZE,  \* sizeof(size_t)
  LongSize,     \* sizeof(long)
  SizeRange,    \* 2^w, for the w bits of size_t
  Pointers,     \* bound of the model: the blocks
  MaxCalls      \* bound of the model: calls in all

ASSUME ZmallocAssumption ==
  /\ NoCaller \notin Callers
  /\ AllocSizes \subseteq Nat
  /\ PREFIX_SIZE \in Nat \ {0} /\ LongSize \in Nat \ {0} /\ SizeRange \in Nat \ {0}
  /\ PREFIX_SIZE % LongSize = 0   \* a size_t is as long as a long, where this runs
  /\ MaxCalls \in Nat

VARIABLES
  used_memory, zmalloc_thread_safe,
  used_memory_mutex,  \* who holds it
  size,               \* the prefixes: live block to size
  todo,               \* per caller: the updates its call has still to make
  loaded,             \* per caller: is it between the load and the store of one
  register,           \* per caller: the value it loaded
  locks,              \* per caller: what zmalloc_thread_safe was at the load
  calls,              \* how many calls have begun
  overlap             \* history: an update without the mutex overlapped another

zmallocVars == <<used_memory, zmalloc_thread_safe, used_memory_mutex, size, todo, loaded,
                 register, locks, calls, overlap>>

ZmallocInit ==
  /\ used_memory = 0 /\ zmalloc_thread_safe = FALSE /\ used_memory_mutex = NoCaller
  /\ size = <<>>
  /\ todo = [c \in Callers |-> <<>>]
  /\ loaded = [c \in Callers |-> FALSE]
  /\ register = [c \in Callers |-> 0]
  /\ locks = [c \in Callers |-> FALSE]
  /\ calls = 0
  /\ overlap = FALSE

InZmalloc(c) == todo[c] # <<>>

\* n rounded up to a multiple of sizeof(long).
Rounded(n) == LongSize * ((n + LongSize - 1) \div LongSize)

Add(p, n) == [up |-> TRUE, n |-> Rounded(n), ptr |-> p]
Subtract(p, n) == [up |-> FALSE, n |-> Rounded(n), ptr |-> p]

\* No call about block p is under way: its caller has the result, or has let go.
Quiet(p) == \A c \in Callers : InZmalloc(c) => Head(todo[c]).ptr # p

Begin(c, updates) ==
  /\ ~InZmalloc(c) /\ calls < MaxCalls /\ ~overlap
  /\ calls' = calls + 1
  /\ todo' = [todo EXCEPT ![c] = updates]
  /\ UNCHANGED <<used_memory, zmalloc_thread_safe, used_memory_mutex, loaded, register,
                 locks, overlap>>

\* zmalloc, zcalloc and zstrdup; zrealloc of NULL.
zmalloc(c) ==
  \E p \in Pointers \ DOMAIN size, n \in AllocSizes :
    /\ Quiet(p) /\ Begin(c, <<Add(p, n + PREFIX_SIZE)>>)
    /\ size' = [q \in DOMAIN size \cup {p} |-> IF q = p THEN n ELSE size[q]]

\* The two updates leave the prefix out: it stays counted.
zrealloc(c) ==
  \E p \in DOMAIN size, n \in AllocSizes :
    /\ Quiet(p) /\ Begin(c, <<Subtract(p, size[p]), Add(p, n)>>)
    /\ size' = [size EXCEPT ![p] = n]

\* zfree that leaves the prefix counted.
zfree_NoPrefix(c) ==
  \E p \in DOMAIN size :
    /\ Quiet(p) /\ Begin(c, <<Subtract(p, size[p])>>)
    /\ size' = [q \in DOMAIN size \ {p} |-> size[q]]

zfree(c) ==
  \E p \in DOMAIN size :
    /\ Quiet(p) /\ Begin(c, <<Subtract(p, size[p] + PREFIX_SIZE)>>)
    /\ size' = [q \in DOMAIN size \ {p} |-> size[q]]

zmalloc_enable_thread_safeness ==
  /\ ~zmalloc_thread_safe
  /\ zmalloc_thread_safe' = TRUE
  /\ UNCHANGED <<used_memory, used_memory_mutex, size, todo, loaded, register, locks, calls,
                 overlap>>

\* used_memory += n or -= n, first half, with the lock or without.
loadUsed(c) ==
  /\ InZmalloc(c) /\ ~loaded[c]
  /\ zmalloc_thread_safe => used_memory_mutex = NoCaller
  /\ used_memory_mutex' = IF zmalloc_thread_safe THEN c ELSE used_memory_mutex
  /\ locks' = [locks EXCEPT ![c] = zmalloc_thread_safe]
  /\ register' = [register EXCEPT ![c] = used_memory]
  /\ loaded' = [loaded EXCEPT ![c] = TRUE]
  /\ overlap' = (overlap \/ \E d \in Callers \ {c} :
                              loaded[d] /\ ~(zmalloc_thread_safe /\ locks[d]))
  /\ UNCHANGED <<used_memory, zmalloc_thread_safe, size, todo, calls>>

\* The second half, and the unlock.
storeUsed(c) ==
  /\ loaded[c]
  /\ LET u == Head(todo[c])
     IN  used_memory' = (IF u.up THEN register[c] + u.n ELSE register[c] + SizeRange - u.n)
                        % SizeRange
  /\ used_memory_mutex' = IF locks[c] THEN NoCaller ELSE used_memory_mutex
  /\ loaded' = [loaded EXCEPT ![c] = FALSE]
  /\ register' = [register EXCEPT ![c] = 0]
  /\ todo' = [todo EXCEPT ![c] = Tail(@)]
  /\ UNCHANGED <<zmalloc_thread_safe, size, locks, calls, overlap>>

updateStep(c) == loadUsed(c) \/ storeUsed(c)
callStep(c) == zmalloc(c) \/ zrealloc(c) \/ zfree(c) \/ updateStep(c)
-----------------------------------------------------------------------------
\* What each live block takes: its size and its prefix, rounded up to a long.
Taken == [p \in DOMAIN size |-> Rounded(size[p] + PREFIX_SIZE)]

\* As long as no two updates without the mutex overlapped, used_memory is, between
\* calls, what the live blocks take.  zfree takes off what zmalloc put on, across any
\* zrealloc in between, and the mutex keeps the updates of several threads apart
\* (zmalloc.c:55-81, 94-168).
UsedIsSum ==
  (\A c \in Callers : ~InZmalloc(c)) /\ ~overlap =>
     used_memory = SumFunction(Taken) % SizeRange
===============================================================================
