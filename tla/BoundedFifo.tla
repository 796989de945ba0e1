----------------------------- MODULE BoundedFifo -----------------------------
(***************************************************************************)
(* What the circular queue of event_msgqueue.c promises its two callers,   *)
(* pushMsgqueue and popMsgqueue: a first-in first-out queue that, when it  *)
(* was created with a size, refuses an element once it holds that many.    *)
(* ret is what the last call returned.                                     *)
(***************************************************************************)
EXTENDS Naturals, Sequences

CONSTANTS
  Elems,   \* the elements (message pointers)
  Bound,   \* how many elements fit; 0 means no bound
  NULL     \* the null pointer

VARIABLES queue, ret

Init == queue = <<>> /\ ret = NULL

HasRoom == Bound = 0 \/ Len(queue) < Bound

PushAccepted(e) ==
  /\ HasRoom
  /\ queue' = Append(queue, e)
  /\ ret' = "ok"

PushRefused ==
  /\ ~HasRoom
  /\ ret' = "full"
  /\ UNCHANGED queue

PopElement ==
  /\ queue # <<>>
  /\ ret' = Head(queue)
  /\ queue' = Tail(queue)

PopNothing ==
  /\ queue = <<>>
  /\ ret' = NULL
  /\ UNCHANGED queue

Next ==
  \/ \E e \in Elems : PushAccepted(e)
  \/ PushRefused
  \/ PopElement
  \/ PopNothing

Spec == Init /\ [][Next]_<<queue, ret>>
=============================================================================
