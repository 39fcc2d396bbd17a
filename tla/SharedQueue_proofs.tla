------------------------- MODULE SharedQueue_proofs -------------------------
(***************************************************************************)
(* Proofs about SharedQueue for any set of messages, any finite set of     *)
(* consumers, any counter width and any number of pushes.                  *)
(***************************************************************************)
EXTENDS SharedQueue, FiniteSetTheorems, SequenceTheorems, TLAPS

\* A consumer inside next() has not been handed anything by that call yet: the
\* local `out` is default-constructed at line 143 and assigned at line 168.
HoldsNothingInCall == \A c \in Consumers : pc[c] # "idle" => out[c] = NoMessage

\* The inductive invariant.  TypeOK carries the sorts.  Each of the other
\* conjuncts is inductive given TypeOK, except NoLostWakeup, which needs
\* AbortReleasesAll for the consumers that leave without taking an item.
IInv ==
  /\ TypeOK
  /\ Conservation
  /\ NoLostWakeup
  /\ AbortReleasesAll
  /\ HoldsNothingInCall

-----------------------------------------------------------------------------
(* Lemmas about the data. *)

\* The wrapping counter stays within its width.
LEMMA CounterInRange ==
  ASSUME NEW n \in 0 .. WaiterModulus - 1
  PROVE  /\ CountUp(n) \in 0 .. WaiterModulus - 1
         /\ CountDown(n) \in 0 .. WaiterModulus - 1
  BY BoundsAssumption DEF CountUp, CountDown

\* Moving the front of a queue to the end of the removed items leaves the
\* concatenation of the two as it was.
LEMMA MoveFront ==
  ASSUME NEW r \in Seq(Messages), NEW q \in Seq(Messages), q # <<>>
  PROVE  Append(r, Head(q)) \o Tail(q) = r \o q
  BY HeadTailProperties, ConcatProperties, AppendProperties, SeqEqual, LenProperties

\* Appending to a queue appends to the concatenation.
LEMMA AppendToConcat ==
  ASSUME NEW r \in Seq(Messages), NEW q \in Seq(Messages), NEW m \in Messages
  PROVE  Append(r \o q, m) = r \o Append(q, m)
<1>1. Append(r \o q, m) = (r \o q) \o <<m>>
  BY ConcatProperties, AppendIsConcat
<1>2. Append(q, m) = q \o <<m>>
  BY AppendIsConcat
<1>3. <<m>> \in Seq(Messages)
  OBVIOUS
<1>4. QED
  BY <1>1, <1>2, <1>3, ConcatAssociative

\* The woken consumers are a finite set, so their number is a natural number.
LEMMA WokenFinite ==
  /\ IsFiniteSet(Woken)
  /\ Cardinality(Woken) \in Nat
<1>1. Woken \subseteq Consumers
  BY DEF Woken
<1>2. QED
  BY <1>1, ConsumersAssumption, FS_Subset, FS_CardinalityType

-----------------------------------------------------------------------------
(* Type correctness. *)

\* The types are right at first.
LEMMA TypeInit == Init => TypeOK
  BY EmptySeq DEF Init, TypeOK, Locations

\* Every step keeps the types.
LEMMA TypeNext == TypeOK /\ [Next]_vars => TypeOK'
<1> SUFFICES ASSUME TypeOK, [Next]_vars
             PROVE  TypeOK'
  OBVIOUS
<1> USE DEF TypeOK, Locations
<1>1. ASSUME NEW c \in Consumers, queue # <<>> \/ m_aborted, Finish(c)
      PROVE  /\ queue' \in Seq(Messages)
             /\ removed' \in Seq(Messages)
             /\ pc' \in [Consumers -> Locations]
             /\ out' \in [Consumers -> Messages \cup {NoMessage}]
             /\ aborted' \in [Consumers -> BOOLEAN]
  <2>1. CASE m_aborted
    BY <1>1, <2>1 DEF Finish, ReturnAborted
  <2>2. CASE ~m_aborted
    <3>1. /\ Head(queue) \in Messages
          /\ Tail(queue) \in Seq(Messages)
      BY <1>1, <2>2, HeadTailProperties
    <3>2. Append(removed, Head(queue)) \in Seq(Messages)
      BY <3>1, AppendProperties
    <3>3. ReturnFront(c)
      BY <1>1, <2>2 DEF Finish
    <3>4. QED
      BY <3>1, <3>2, <3>3 DEF ReturnFront
  <2>3. QED
    BY <2>1, <2>2
<1>2. ASSUME NEW m \in Messages, Push(m)
      PROVE  TypeOK'
  BY <1>2, AppendProperties DEF Push, NotifyOne, Waiting
<1>3. CASE Pop
  BY <1>3, HeadTailProperties, AppendProperties DEF Pop
<1>4. CASE WakeAll
  BY <1>4 DEF WakeAll, NotifyAll
<1>5. ASSUME NEW c \in Consumers, NEW ptr \in BOOLEAN, CallNext(c, ptr)
      PROVE  TypeOK'
  BY <1>5 DEF CallNext
<1>6. ASSUME NEW c \in Consumers, StartWaiting(c)
      PROVE  TypeOK'
  BY <1>6, CounterInRange DEF StartWaiting
<1>7. ASSUME NEW c \in Consumers, FinishAtOnce(c)
      PROVE  TypeOK'
  BY <1>1, <1>7 DEF FinishAtOnce
<1>8. ASSUME NEW c \in Consumers, WaitAgain(c)
      PROVE  TypeOK'
  BY <1>8 DEF WaitAgain
<1>9. ASSUME NEW c \in Consumers, FinishWaiting(c)
      PROVE  TypeOK'
  BY <1>1, <1>9, CounterInRange DEF FinishWaiting
<1>10. ASSUME NEW c \in Consumers, SpuriousWake(c)
       PROVE  TypeOK'
  BY <1>10 DEF SpuriousWake
<1>11. CASE UNCHANGED vars
  BY <1>11 DEF vars
<1>12. QED
  BY <1>2, <1>3, <1>4, <1>5, <1>6, <1>7, <1>8, <1>9, <1>10, <1>11
     DEF Next, Proceed

\* Every variable keeps its type (the counter its width, the queue its items).
THEOREM TypeCorrect == Spec => []TypeOK
<1>1. Init => TypeOK
  BY TypeInit
<1>2. TypeOK /\ [Next]_vars => TypeOK'
  BY TypeNext
<1>3. QED
  BY <1>1, <1>2, PTL DEF Spec

-----------------------------------------------------------------------------
(* The other conjuncts of the inductive invariant, one lemma each. *)

\* Pushing extends both sides of Conservation, removing moves the front.
LEMMA ConservationNext ==
  ASSUME TypeOK, Conservation, [Next]_vars
  PROVE  Conservation'
<1> USE DEF TypeOK, Conservation
<1>1. ASSUME NEW m \in Messages, Push(m)
      PROVE  Conservation'
  <2>1. Append(removed \o queue, m) = removed \o Append(queue, m)
    BY AppendToConcat
  <2>2. QED
    BY <1>1, <2>1 DEF Push
<1>2. CASE Pop
  BY <1>2, MoveFront DEF Pop
<1>3. ASSUME NEW c \in Consumers, queue # <<>> \/ m_aborted, Finish(c),
             UNCHANGED pushed
      PROVE  Conservation'
  BY <1>3, MoveFront DEF Finish, ReturnAborted, ReturnFront
<1>4. CASE UNCHANGED <<queue, pushed, removed>>
  BY <1>4
<1>5. QED
  BY <1>1, <1>2, <1>3, <1>4
     DEF Next, Proceed, WakeAll, CallNext, StartWaiting, FinishAtOnce,
         SpuriousWake, WaitAgain, FinishWaiting, vars

\* A consumer starts to wait, or waits again, only while m_aborted is false.
LEMMA AbortReleasesAllNext ==
  ASSUME TypeOK, AbortReleasesAll, [Next]_vars
  PROVE  AbortReleasesAll'
<1> USE DEF TypeOK, AbortReleasesAll, Waiting
<1>1. ASSUME NEW m \in Messages, Push(m)
      PROVE  AbortReleasesAll'
  BY <1>1 DEF Push, NotifyOne
<1>2. CASE WakeAll
  BY <1>2 DEF WakeAll, NotifyAll
<1>3. ASSUME NEW c \in Consumers, NEW ptr \in BOOLEAN, CallNext(c, ptr)
      PROVE  AbortReleasesAll'
  BY <1>3 DEF CallNext
<1>4. ASSUME NEW c \in Consumers, Finish(c), UNCHANGED m_aborted
      PROVE  AbortReleasesAll'
  BY <1>4 DEF Finish, ReturnAborted, ReturnFront
<1>5. ASSUME NEW c \in Consumers,
             StartWaiting(c) \/ WaitAgain(c) \/ SpuriousWake(c)
      PROVE  AbortReleasesAll'
  BY <1>5 DEF StartWaiting, WaitAgain, SpuriousWake
<1>6. CASE UNCHANGED <<m_aborted, pc>>
  BY <1>6
<1>7. QED
  BY <1>1, <1>2, <1>3, <1>4, <1>5, <1>6
     DEF Next, Proceed, Pop, FinishAtOnce, FinishWaiting, vars

\* `out` is reset when a call starts and assigned only as the call returns.
LEMMA HoldsNothingInCallNext ==
  ASSUME TypeOK, HoldsNothingInCall, [Next]_vars
  PROVE  HoldsNothingInCall'
<1> USE DEF TypeOK, HoldsNothingInCall
<1>1. ASSUME NEW m \in Messages, Push(m)
      PROVE  HoldsNothingInCall'
  BY <1>1 DEF Push, NotifyOne, Waiting
<1>2. CASE WakeAll
  BY <1>2 DEF WakeAll, NotifyAll
<1>3. ASSUME NEW c \in Consumers, NEW ptr \in BOOLEAN, CallNext(c, ptr)
      PROVE  HoldsNothingInCall'
  BY <1>3 DEF CallNext
<1>4. ASSUME NEW c \in Consumers, Finish(c)
      PROVE  HoldsNothingInCall'
  BY <1>4 DEF Finish, ReturnAborted, ReturnFront
<1>5. ASSUME NEW c \in Consumers,
             StartWaiting(c) \/ WaitAgain(c) \/ SpuriousWake(c)
      PROVE  HoldsNothingInCall'
  BY <1>5 DEF StartWaiting, WaitAgain, SpuriousWake
<1>6. CASE UNCHANGED <<pc, out>>
  BY <1>6
<1>7. QED
  BY <1>1, <1>2, <1>3, <1>4, <1>5, <1>6
     DEF Next, Proceed, Pop, FinishAtOnce, FinishWaiting, vars

-----------------------------------------------------------------------------
(* No wakeup is lost. *)

\* Releasing a blocked consumer adds one to the woken ones and blocks nobody.
LEMMA ReleaseOne ==
  ASSUME TypeOK, NEW c \in Waiting, pc' = [pc EXCEPT ![c] = "woken"]
  PROVE  Cardinality(Woken') = Cardinality(Woken) + 1
<1>1. Woken' = Woken \cup {c} /\ c \notin Woken
  BY DEF TypeOK, Waiting, Woken
<1>2. QED
  BY <1>1, WokenFinite, FS_AddElement

\* A consumer that leaves next() takes at most one from the woken ones, and
\* if it was not woken it takes none.
LEMMA LeaveCall ==
  ASSUME TypeOK, NEW c \in Consumers, pc[c] \in {"lock", "woken"},
         pc' = [pc EXCEPT ![c] = "idle"]
  PROVE  /\ Waiting' = Waiting
         /\ Cardinality(Woken') >= Cardinality(Woken) - 1
         /\ Cardinality(Woken') \in Nat
<1>1. Waiting' = Waiting /\ Woken' = Woken \ {c}
  BY DEF TypeOK, Waiting, Woken
<1>2. /\ IsFiniteSet(Woken \ {c})
      /\ Cardinality(Woken \ {c}) =
           IF c \in Woken THEN Cardinality(Woken) - 1 ELSE Cardinality(Woken)
  BY WokenFinite, FS_RemoveElement
<1>3. Cardinality(Woken \ {c}) \in Nat
  BY <1>2, FS_CardinalityType
<1>4. QED
  BY <1>1, <1>2, <1>3, WokenFinite

\* Every step keeps a waiting caller from being forgotten.
LEMMA NoLostWakeupNext ==
  ASSUME TypeOK, NoLostWakeup, AbortReleasesAll, [Next]_vars
  PROVE  NoLostWakeup'
<1>0. Len(queue) \in Nat
  BY LenProperties DEF TypeOK
<1>1. ASSUME NEW m \in Messages, Push(m)
      PROVE  NoLostWakeup'
  <2>1. Len(queue') = Len(queue) + 1
    BY <1>1, AppendProperties DEF Push, TypeOK
  <2>2. CASE Waiting = {}
    BY <1>1, <2>2 DEF Push, NotifyOne, NoLostWakeup, Waiting
  <2>3. CASE Waiting # {}
    <3>1. PICK c \in Waiting : pc' = [pc EXCEPT ![c] = "woken"]
      BY <1>1, <2>3 DEF Push, NotifyOne
    <3>2. Cardinality(Woken') = Cardinality(Woken) + 1
      BY <3>1, ReleaseOne
    <3>3. QED
      BY <1>0, <2>1, <2>3, <3>2, WokenFinite DEF NoLostWakeup
  <2>4. QED
    BY <2>2, <2>3
<1>2. CASE Pop
  <2>1. Len(queue') = Len(queue) - 1
    BY <1>2, HeadTailProperties DEF Pop, TypeOK
  <2>2. Waiting' = Waiting /\ Woken' = Woken
    BY <1>2 DEF Pop, Waiting, Woken
  <2>3. QED
    BY <1>0, <2>1, <2>2, WokenFinite DEF NoLostWakeup
<1>3. CASE WakeAll
  <2>1. Waiting' = {}
    BY <1>3 DEF WakeAll, NotifyAll, Waiting
  <2>2. QED
    BY <2>1 DEF NoLostWakeup
<1>4. ASSUME NEW c \in Consumers, NEW ptr \in BOOLEAN, CallNext(c, ptr)
      PROVE  NoLostWakeup'
  <2>1. Waiting' = Waiting /\ Woken' = Woken /\ queue' = queue
    BY <1>4 DEF CallNext, Waiting, Woken, TypeOK
  <2>2. QED
    BY <2>1 DEF NoLostWakeup
<1>5. ASSUME NEW c \in Consumers, pc[c] \in {"lock", "woken"},
             queue # <<>> \/ m_aborted, Finish(c)
      PROVE  NoLostWakeup'
  <2>1. pc' = [pc EXCEPT ![c] = "idle"]
    BY <1>5 DEF Finish, ReturnAborted, ReturnFront
  <2>2. CASE m_aborted
    <3>1. Waiting' = {}
      BY <1>5, <2>1, <2>2, LeaveCall DEF AbortReleasesAll
    <3>2. QED
      BY <3>1 DEF NoLostWakeup
  <2>3. CASE ~m_aborted
    <3>1. Len(queue') = Len(queue) - 1
      BY <1>5, <2>3, HeadTailProperties DEF Finish, ReturnFront, TypeOK
    <3>2. /\ Waiting' = Waiting
          /\ Cardinality(Woken') >= Cardinality(Woken) - 1
          /\ Cardinality(Woken') \in Nat
      BY <1>5, <2>1, LeaveCall
    <3>3. QED
      BY <1>0, <3>1, <3>2, WokenFinite DEF NoLostWakeup
  <2>4. QED
    BY <2>2, <2>3 DEF TypeOK
<1>6. ASSUME NEW c \in Consumers, StartWaiting(c) \/ WaitAgain(c)
      PROVE  NoLostWakeup'
  <2>1. queue' = <<>>
    BY <1>6 DEF StartWaiting, WaitAgain
  <2>2. Woken' \subseteq Consumers
    BY DEF Woken
  <2>3. Cardinality(Woken') \in Nat
    BY <2>2, ConsumersAssumption, FS_Subset, FS_CardinalityType
  <2>4. Len(queue') = 0
    BY <2>1
  <2>5. QED
    BY <2>3, <2>4 DEF NoLostWakeup
<1>7. ASSUME NEW c \in Consumers, SpuriousWake(c)
      PROVE  NoLostWakeup'
  <2>1. c \in Waiting /\ pc' = [pc EXCEPT ![c] = "woken"] /\ queue' = queue
    BY <1>7 DEF SpuriousWake, Waiting
  <2>2. Cardinality(Woken') = Cardinality(Woken) + 1
    BY <2>1, ReleaseOne
  <2>3. QED
    BY <1>0, <2>1, <2>2, WokenFinite DEF NoLostWakeup
<1>8. CASE UNCHANGED vars
  BY <1>8 DEF vars, NoLostWakeup, Waiting, Woken
<1>9. QED
  BY <1>1, <1>2, <1>3, <1>4, <1>5, <1>6, <1>7, <1>8
     DEF Next, Proceed, FinishAtOnce, FinishWaiting

-----------------------------------------------------------------------------
(* The inductive invariant and what follows from it. *)

\* The invariant holds of every behaviour.
LEMMA Inductive == Spec => []IInv
<1>1. Init => IInv
  <2> SUFFICES ASSUME Init PROVE IInv
    OBVIOUS
  <2>1. Waiting = {}
    BY DEF Init, Waiting
  <2>2. Conservation
    BY EmptySeq, ConcatEmptySeq DEF Init, Conservation
  <2>3. QED
    BY <2>1, <2>2, TypeInit
       DEF Init, IInv, NoLostWakeup, AbortReleasesAll, HoldsNothingInCall
<1>2. IInv /\ [Next]_vars => IInv'
  BY TypeNext, ConservationNext, AbortReleasesAllNext, NoLostWakeupNext,
     HoldsNothingInCallNext
     DEF IInv
<1>3. QED
  BY <1>1, <1>2, PTL DEF Spec

\* Whatever the interleaving of push, pop, next and wake_all
\* (SharedQueue.hh:80-176), no item is lost, duplicated or reordered.
THEOREM ConservationHolds == Spec => []Conservation
<1>1. IInv => Conservation
  BY DEF IInv
<1>2. QED
  BY <1>1, Inductive, PTL

\* A blocked consumer never sleeps through an item that nobody else is on the
\* way to take: the notify_one calls of push and emplace (lines 103, 113, 124)
\* are enough for the wait loop of next (lines 160-161).
THEOREM NoWakeupIsLost == Spec => []NoLostWakeup
<1>1. IInv => NoLostWakeup
  BY DEF IInv
<1>2. QED
  BY <1>1, Inductive, PTL

\* After wake_all (lines 80-87) nobody is blocked, now or later.
THEOREM AbortIsFinal == Spec => []AbortReleasesAll
<1>1. IInv => AbortReleasesAll
  BY DEF IInv
<1>2. QED
  BY <1>1, Inductive, PTL

-----------------------------------------------------------------------------
(* Refinement. *)

\* A step of the concrete queue is a step of the abstract one, or none.
LEMMA StepRefines ==
  ASSUME IInv, [Next]_vars
  PROVE  [Abstract!Next]_(Abstract!vars)
<1> USE DEF Abstract!Next, Abstract!vars
<1>1. ASSUME NEW m \in Messages, Push(m)
      PROVE  Abstract!Put(m)
  BY <1>1 DEF Push, Abstract!Put
<1>2. CASE Pop
  BY <1>2 DEF Pop, Abstract!Discard
<1>3. CASE WakeAll
  BY <1>3 DEF WakeAll, Abstract!Close
<1>4. ASSUME NEW c \in Consumers, NEW ptr \in BOOLEAN, CallNext(c, ptr)
      PROVE  Abstract!Request(c)
  BY <1>4 DEF CallNext, Abstract!Request
<1>5. ASSUME NEW c \in Consumers, pc[c] # "idle", queue # <<>> \/ m_aborted,
             Finish(c), UNCHANGED m_aborted
      PROVE  Abstract!Deliver(c) \/ UNCHANGED <<queue, m_aborted, out>>
  <2>1. out[c] = NoMessage
    BY <1>5 DEF IInv, HoldsNothingInCall
  <2>2. QED
    BY <1>5, <2>1
       DEF Finish, ReturnAborted, ReturnFront, Abstract!Deliver
<1>6. ASSUME NEW c \in Consumers,
             StartWaiting(c) \/ WaitAgain(c) \/ SpuriousWake(c)
      PROVE  UNCHANGED <<queue, m_aborted, out>>
  BY <1>6 DEF StartWaiting, WaitAgain, SpuriousWake
<1>7. CASE UNCHANGED vars
  BY <1>7 DEF vars
<1>8. QED
  BY <1>1, <1>2, <1>3, <1>4, <1>5, <1>6, <1>7
     DEF Next, Proceed, FinishAtOnce, FinishWaiting

\* SharedQueue is a closable FIFO queue: deliveries come from the front, one
\* item per call of next, and none after wake_all.
THEOREM Refinement == Spec => ImplementsMessageQueue
<1>1. Init => Abstract!Init
  BY DEF Init, Abstract!Init
<1>2. IInv /\ [Next]_vars => [Abstract!Next]_(Abstract!vars)
  BY StepRefines
<1>3. QED
  BY <1>1, <1>2, Inductive, PTL
     DEF Spec, ImplementsMessageQueue, Abstract!Spec
=============================================================================
