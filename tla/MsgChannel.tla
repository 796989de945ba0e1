------------------------------ MODULE MsgChannel ------------------------------
(***************************************************************************)
(* What a message queue between threads promises its users: a message that *)
(* was accepted is handed to the loop's callback exactly once, in the      *)
(* order of acceptance; one is refused only when the queue is full.        *)
(***************************************************************************)
EXTENDS Naturals, Sequences

CONSTANTS
  Messages,  \* the messages (each is one msgEvent, posted at most once)
  Bound      \* how many messages the queue holds

VARIABLES
  accepted,   \* the messages accepted, in order
  delivered,  \* the messages given to the callback, in order
  dropped     \* the messages refused

vars == <<accepted, delivered, dropped>>

Init == accepted = <<>> /\ delivered = <<>> /\ dropped = {}

\* Accepted and not yet through the callback; one may be in the callback.
Pending == Len(accepted) - Len(delivered)

Post(m) ==
  /\ Pending <= Bound
  /\ accepted' = Append(accepted, m)
  /\ UNCHANGED <<delivered, dropped>>

Refuse(m) ==
  /\ Pending >= Bound
  /\ dropped' = dropped \cup {m}
  /\ UNCHANGED <<accepted, delivered>>

Deliver ==
  /\ Len(delivered) < Len(accepted)
  /\ delivered' = Append(delivered, accepted[Len(delivered) + 1])
  /\ UNCHANGED <<accepted, dropped>>

Next == (\E m \in Messages : Post(m) \/ Refuse(m)) \/ Deliver

SafeSpec == Init /\ [][Next]_vars

\* An accepted message does not wait for ever.
Delivers == WF_vars(Deliver)
=============================================================================
