---------------------------- MODULE SharedQueue -----------------------------
(***************************************************************************)
(* crisp::util::SharedQueue (include/crisp/util/SharedQueue.hh): a queue   *)
(* guarded by one mutex, with a condition variable on which `next` blocks  *)
(* and a one-way m_aborted flag set by `wake_all`.                         *)
(*                                                                         *)
(* Every critical section is one action, because nothing but cv.wait gives *)
(* the mutex up inside it.  What runs outside the mutex is an action of    *)
(* its own: the first test of m_aborted in `next`, and the way from being  *)
(* notified to owning the mutex again.                                     *)
(***************************************************************************)
EXTENDS Naturals, Sequences, FiniteSets

CONSTANTS
  Messages,       \* the items that may be queued
  Consumers,      \* the threads that call next()
  NoMessage,      \* a default-constructed item, what next() returns on abort
  WaiterModulus,  \* 2^w for the w-bit counter m_num_waiters
  MaxPushes       \* bound: how many items are ever pushed

ASSUME ConsumersAssumption == IsFiniteSet(Consumers)
ASSUME NoMessageAssumption == NoMessage \notin Messages
ASSUME BoundsAssumption ==
  /\ WaiterModulus \in Nat \ {0}
  /\ MaxPushes \in Nat

VARIABLES
  queue,          \* the contents of the underlying std::queue
  m_aborted,
  m_num_waiters,
  pc,             \* where each consumer is inside next()
  checked,        \* whether the consumer passed a non-null `aborted` pointer
  out,            \* the local `out` of the consumer's latest call
  aborted,        \* what that call stored through `aborted`
  pushed,         \* history: every item pushed, in order
  removed         \* history: every item removed, in order

vars == <<queue, m_aborted, m_num_waiters, pc, checked, out, aborted,
          pushed, removed>>

\* idle: not in next(); lock: past the unlocked test, about to take the mutex;
\* waiting: blocked in cv.wait; woken: left cv.wait, about to retake the mutex.
Locations == {"idle", "lock", "waiting", "woken"}

Waiting == {c \in Consumers : pc[c] = "waiting"}
Woken == {c \in Consumers : pc[c] = "woken"}

TypeOK ==
  /\ queue \in Seq(Messages)
  /\ m_aborted \in BOOLEAN
  /\ m_num_waiters \in 0 .. WaiterModulus - 1
  /\ pc \in [Consumers -> Locations]
  /\ checked \in [Consumers -> BOOLEAN]
  /\ out \in [Consumers -> Messages \cup {NoMessage}]
  /\ aborted \in [Consumers -> BOOLEAN]
  /\ pushed \in Seq(Messages)
  /\ removed \in Seq(Messages)

\* No constructor gives m_num_waiters a value, so it starts with whatever the
\* memory held.
Init ==
  /\ queue = <<>>
  /\ m_aborted = FALSE
  /\ m_num_waiters \in 0 .. WaiterModulus - 1
  /\ pc = [c \in Consumers |-> "idle"]
  /\ checked = [c \in Consumers |-> FALSE]
  /\ out = [c \in Consumers |-> NoMessage]
  /\ aborted = [c \in Consumers |-> FALSE]
  /\ pushed = <<>>
  /\ removed = <<>>

-----------------------------------------------------------------------------
(* Steps of the condition variable and the counter. *)

\* Mutated form: push notifies nobody.
NotifyNobody == UNCHANGED pc

\* Mutated form: notify only when the queue goes from empty to non-empty.
NotifyWhenEmpty ==
  IF Waiting = {} \/ queue # <<>>
    THEN UNCHANGED pc
    ELSE \E c \in Waiting : pc' = [pc EXCEPT ![c] = "woken"]

\* m_cv.notify_one(): one blocked consumer, if there is one, is released.
NotifyOne ==
  IF Waiting = {}
    THEN UNCHANGED pc
    ELSE \E c \in Waiting : pc' = [pc EXCEPT ![c] = "woken"]

\* m_cv.notify_all(): every blocked consumer is released.
NotifyAll ==
  pc' = [c \in Consumers |-> IF pc[c] = "waiting" THEN "woken" ELSE pc[c]]

\* Mutated form: the counter does not wrap.
CountDownBelowZero(n) == n - 1

\* ++m_num_waiters and --m_num_waiters wrap around like any std::size_t.
CountUp(n) == (n + 1) % WaiterModulus
CountDown(n) == (n + WaiterModulus - 1) % WaiterModulus

\* next() gives up: nothing is removed, `out` stays default-constructed.
ReturnAborted(c) ==
  /\ aborted' = [aborted EXCEPT ![c] = checked[c]]
  /\ pc' = [pc EXCEPT ![c] = "idle"]
  /\ UNCHANGED <<queue, out, removed>>

\* Mutated form: the front is copied out and left in the queue.
ReturnFrontWithoutPop(c) ==
  /\ out' = [out EXCEPT ![c] = Head(queue)]
  /\ removed' = Append(removed, Head(queue))
  /\ pc' = [pc EXCEPT ![c] = "idle"]
  /\ UNCHANGED <<queue, aborted>>

\* next() hands out the front of the queue.
ReturnFront(c) ==
  /\ out' = [out EXCEPT ![c] = Head(queue)]
  /\ queue' = Tail(queue)
  /\ removed' = Append(removed, Head(queue))
  /\ pc' = [pc EXCEPT ![c] = "idle"]
  /\ UNCHANGED aborted

\* Mutated form: items go before the abort.
FinishItemsFirst(c) == IF queue # <<>> THEN ReturnFront(c) ELSE ReturnAborted(c)

\* The tail of the critical section of next(), once it need not wait.
Finish(c) == IF m_aborted THEN ReturnAborted(c) ELSE ReturnFront(c)

-----------------------------------------------------------------------------
(* Operations. *)

\* push(), both overloads, and emplace().
Push(m) ==
  /\ Len(pushed) < MaxPushes
  /\ queue' = Append(queue, m)
  /\ pushed' = Append(pushed, m)
  /\ NotifyOne
  /\ UNCHANGED <<m_aborted, m_num_waiters, checked, out, aborted, removed>>

\* pop(); calling it on an empty queue is outside its contract.
Pop ==
  /\ queue # <<>>
  /\ queue' = Tail(queue)
  /\ removed' = Append(removed, Head(queue))
  /\ UNCHANGED <<m_aborted, m_num_waiters, pc, checked, out, aborted, pushed>>

WakeAll ==
  /\ m_aborted' = TRUE
  /\ NotifyAll
  /\ UNCHANGED <<queue, m_num_waiters, checked, out, aborted, pushed, removed>>

\* The start of next(): m_aborted is tested before the mutex is taken, and
\* only a caller that passed a pointer returns at once.
CallNext(c, ptr) ==
  /\ pc[c] = "idle"
  /\ checked' = [checked EXCEPT ![c] = ptr]
  /\ out' = [out EXCEPT ![c] = NoMessage]
  /\ aborted' = [aborted EXCEPT ![c] = m_aborted /\ ptr]
  /\ pc' = [pc EXCEPT ![c] = IF m_aborted /\ ptr THEN "idle" ELSE "lock"]
  /\ UNCHANGED <<queue, m_aborted, m_num_waiters, pushed, removed>>

\* Mutated form: the wait loop tests for emptiness only.
StartWaitingIgnoringAbort(c) ==
  /\ pc[c] = "lock"
  /\ queue = <<>>
  /\ m_num_waiters' = CountUp(m_num_waiters)
  /\ pc' = [pc EXCEPT ![c] = "waiting"]
  /\ UNCHANGED <<queue, m_aborted, checked, out, aborted, pushed, removed>>

\* next() has the mutex and finds the queue empty: it counts itself and blocks.
StartWaiting(c) ==
  /\ pc[c] = "lock"
  /\ queue = <<>> /\ ~m_aborted
  /\ m_num_waiters' = CountUp(m_num_waiters)
  /\ pc' = [pc EXCEPT ![c] = "waiting"]
  /\ UNCHANGED <<queue, m_aborted, checked, out, aborted, pushed, removed>>

\* next() has the mutex and need not block; the counter goes up and down again
\* within the critical section when the queue is empty but already aborted.
FinishAtOnce(c) ==
  /\ pc[c] = "lock"
  /\ queue # <<>> \/ m_aborted
  /\ Finish(c)
  /\ UNCHANGED <<m_aborted, m_num_waiters, checked, pushed>>

\* A condition variable may wake a thread for no reason.
SpuriousWake(c) ==
  /\ pc[c] = "waiting"
  /\ pc' = [pc EXCEPT ![c] = "woken"]
  /\ UNCHANGED <<queue, m_aborted, m_num_waiters, checked, out, aborted,
                 pushed, removed>>

\* A woken consumer has the mutex again, but somebody else took the item.
WaitAgain(c) ==
  /\ pc[c] = "woken"
  /\ queue = <<>> /\ ~m_aborted
  /\ pc' = [pc EXCEPT ![c] = "waiting"]
  /\ UNCHANGED <<queue, m_aborted, m_num_waiters, checked, out, aborted,
                 pushed, removed>>

\* A woken consumer has the mutex again and its loop condition is false.
FinishWaiting(c) ==
  /\ pc[c] = "woken"
  /\ queue # <<>> \/ m_aborted
  /\ m_num_waiters' = CountDown(m_num_waiters)
  /\ Finish(c)
  /\ UNCHANGED <<m_aborted, checked, pushed>>

-----------------------------------------------------------------------------
\* The steps a consumer inside next() takes by itself.
Proceed(c) ==
  \/ StartWaiting(c)
  \/ FinishAtOnce(c)
  \/ WaitAgain(c)
  \/ FinishWaiting(c)

Next ==
  \/ \E m \in Messages : Push(m)
  \/ Pop
  \/ WakeAll
  \/ \E c \in Consumers : \E ptr \in BOOLEAN : CallNext(c, ptr)
  \/ \E c \in Consumers : Proceed(c)
  \/ \E c \in Consumers : SpuriousWake(c)

Spec == Init /\ [][Next]_vars

\* A thread that can run does run, and gets the mutex when it is free; nobody
\* is obliged to push, to pop, to abort or to call next().
Fairness == \A c \in Consumers : WF_vars(Proceed(c))

FairSpec == Spec /\ Fairness

-----------------------------------------------------------------------------
(* Safety. *)

\* Nothing is lost, duplicated or reordered, whatever the interleaving of
\* push, pop, next and wake_all (SharedQueue.hh:98-176): what was pushed is
\* what was removed followed by what is still queued.
Conservation == pushed = removed \o queue

\* A consumer blocks in cv.wait (line 161) only while at least as many others
\* are on their way to the mutex as there are items: notify_one is never
\* wasted on a thread that had no need of it.
NoLostWakeup == Waiting # {} => Len(queue) <= Cardinality(Woken)

\* Once wake_all has set m_aborted (line 85) no consumer is, or ever will be,
\* blocked: the flag and the wait condition change under the same mutex.
AbortReleasesAll == m_aborted => Waiting = {}

-----------------------------------------------------------------------------
(* Liveness, under FairSpec. *)

\* After wake_all every call of next comes back (what BasicNode::halt relies on).
AbortEndsCalls ==
  \A c \in Consumers : m_aborted /\ pc[c] # "idle" ~> pc[c] = "idle"

\* While an item is queued and some thread is inside next(), an item is
\* removed eventually, unless the queue is aborted.
CallsMakeProgress ==
  \A n \in 0 .. MaxPushes :
    (/\ Len(removed) = n
     /\ queue # <<>>
     /\ \E c \in Consumers : pc[c] # "idle")
    ~> (Len(removed) > n \/ m_aborted)

-----------------------------------------------------------------------------
\* The queue implements the abstract one: an item is held by the consumer
\* whose call returned it, and closing is m_aborted.
Abstract == INSTANCE MessageQueue
              WITH Receivers <- Consumers, items <- queue,
                   closed <- m_aborted, holds <- out

\* Every behaviour of the queue is a behaviour of the closable FIFO queue that
\* MessageQueue describes.
ImplementsMessageQueue == Abstract!Spec
=============================================================================
