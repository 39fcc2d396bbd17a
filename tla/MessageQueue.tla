---------------------------- MODULE MessageQueue ----------------------------
(***************************************************************************)
(* What the users of crisp::util::SharedQueue may rely on: a closable FIFO *)
(* queue.  Each receiver asks for an item and is handed the oldest one,    *)
(* nothing is handed out once the queue has been closed, and items can be  *)
(* discarded only from the front.  Blocking, condition variables and the   *)
(* waiter count do not appear here; SharedQueue implements this module.    *)
(***************************************************************************)
EXTENDS Sequences

CONSTANTS
  Messages,   \* the items that may be queued
  Receivers,  \* the threads that fetch items
  NoMessage   \* what a receiver holds while it has been handed nothing

VARIABLES
  items,   \* the queued items, oldest first
  closed,  \* whether the queue was closed
  holds    \* the item each receiver was handed by its latest request

vars == <<items, closed, holds>>

Init ==
  /\ items = <<>>
  /\ closed = FALSE
  /\ holds = [r \in Receivers |-> NoMessage]

Put(m) ==
  /\ items' = Append(items, m)
  /\ UNCHANGED <<closed, holds>>

Request(r) ==
  /\ holds' = [holds EXCEPT ![r] = NoMessage]
  /\ UNCHANGED <<items, closed>>

Deliver(r) ==
  /\ ~closed
  /\ items # <<>>
  /\ holds[r] = NoMessage
  /\ holds' = [holds EXCEPT ![r] = Head(items)]
  /\ items' = Tail(items)
  /\ UNCHANGED closed

Discard ==
  /\ items # <<>>
  /\ items' = Tail(items)
  /\ UNCHANGED <<closed, holds>>

Close ==
  /\ closed' = TRUE
  /\ UNCHANGED <<items, holds>>

Next ==
  \/ \E m \in Messages : Put(m)
  \/ \E r \in Receivers : Request(r) \/ Deliver(r)
  \/ Discard
  \/ Close

Spec == Init /\ [][Next]_vars
=============================================================================
