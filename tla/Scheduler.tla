----------------------------- MODULE Scheduler -----------------------------
(***************************************************************************)
(* util::Scheduler with the periodic actions of its slots and the one-shot *)
(* ScheduledActions, on an io_service run by several workers.  A timer     *)
(* moves its pending waits to the service's queue of handlers when it      *)
(* expires (ok) or is cancelled (not ok); a worker runs the handlers in    *)
(* that order, several workers at a time.  Handlers hold raw pointers to   *)
(* the action they are for, removals hold weak ones.                       *)
(*                                                                         *)
(* A thread is a stack of frames: what it still has to do, innermost       *)
(* first.  The functions of Schedule, cancel and reset are called by user  *)
(* threads and from within the user's callbacks.                           *)
(***************************************************************************)
EXTENDS Naturals, Sequences, FiniteSets

CONSTANTS Actions, Timers, Slots,    \* PeriodicAction, ScheduledAction, slots
          Workers, Users, NoThread,  \* threads, and the owner of a free mutex
          MaxCancels,                \* removals asked for, per periodic action
          MaxResets                  \* resets of a timer after set_timer

ASSUME ThreadsAssumption ==
  /\ Workers \cap Users = {} /\ NoThread \notin Workers \cup Users
  /\ Actions \cap Timers = {} /\ Actions \cap Slots = {} /\ Timers \cap Slots = {}
  /\ IsFiniteSet(Workers) /\ MaxCancels \in Nat /\ MaxResets \in Nat

VARIABLES
  life,      \* of an action or a timer: "none", "live" or "destroyed"
  active,    \* PeriodicAction::active
  list,      \* m_actions of each slot
  due,       \* the expiry of a one-shot timer lies in the past
  inserted,  \* the timers in Scheduler::m_actions
  waits,     \* waits pending on the timer of a slot or of a ScheduledAction
  posted,    \* the io_service's queue of handlers
  stack,     \* per thread, its frames
  holder,    \* who holds m_data_mutex
  cancels, resets,  \* what the bounds count
  stopped,   \* one-shot timers cancelled before they expired, not reset since
  fault      \* undefined behaviour reached: nothing is said of what follows

vars == <<life, active, list, due, inserted, waits, posted, stack, holder,
          cancels, resets, stopped, fault>>

Threads == Workers \cup Users
Objects == Actions \cup Timers
NoFault == "none"
Frame(at, of) == [at |-> at, of |-> of, todo |-> <<>>]
Handler(kind, of) == [kind |-> kind, of |-> of, ok |-> TRUE]
Aborted(ws) == [i \in DOMAIN ws |-> [ws[i] EXCEPT !.ok = FALSE]]

Init ==
  /\ life = [o \in Objects |-> "none"]
  /\ active = [a \in Actions |-> FALSE]
  /\ list = [s \in Slots |-> <<>>]
  /\ due = [k \in Timers |-> FALSE]
  /\ inserted = {}
  /\ waits = [o \in Slots \cup Timers |-> <<>>]
  /\ posted = <<>>
  /\ stack = [t \in Threads |-> <<>>]
  /\ holder = NoThread
  /\ cancels = [a \in Actions |-> 0]
  /\ resets = [k \in Timers |-> 0]
  /\ stopped = {}
  /\ fault = NoFault

At(t, at) == stack[t] # <<>> /\ Head(stack[t]).at = at
Push(t, frames) == stack' = [stack EXCEPT ![t] = frames \o @]
Become(t, frames) == stack' = [stack EXCEPT ![t] = frames \o Tail(@)]
Pop(t) == Become(t, <<>>)

\* The library may be called by a user thread, or inside a callback.
MayCall(t) == \/ t \in Users /\ stack[t] = <<>>
              \/ At(t, "call")

(* boost::asio::steady_timer: cancelling or moving the expiry aborts what  *)
(* is pending; expiring completes it.                                      *)
CancelWaits(o) ==
  /\ posted' = posted \o Aborted(waits[o])
  /\ waits' = [waits EXCEPT ![o] = <<>>]

Expire(o) ==
  /\ waits[o] # <<>> \/ (o \in Timers /\ life[o] = "live" /\ ~due[o])
  /\ posted' = posted \o waits[o]
  /\ waits' = [waits EXCEPT ![o] = <<>>]
  /\ due' = IF o \in Timers THEN [due EXCEPT ![o] = TRUE] ELSE due
  /\ UNCHANGED <<life, active, list, inserted, stack, holder, cancels, resets,
                 stopped, fault>>

(* A handler or a frame touches an object that is gone: what it reads is   *)
(* either harmless, or the behaviour ends here.                            *)
Dangling(what) == fault' \in {NoFault, what}

-----------------------------------------------------------------------------
(* Periodic actions *)

\* Scheduler::schedule with PeriodicScheduleSlot::emplace, under the mutex
\* until the slot's timer is set.
Emplace(t, a, s, setsTimer) ==
  /\ MayCall(t) /\ holder = NoThread /\ life[a] = "none"
  /\ life' = [life EXCEPT ![a] = "live"]
  /\ active' = [active EXCEPT ![a] = TRUE]
  /\ list' = [list EXCEPT ![s] = <<a>> \o @]
  /\ IF setsTimer
     THEN /\ holder' = t
          /\ Push(t, <<Frame("reset", s), Frame("unlock", s)>>)
     ELSE UNCHANGED <<holder, stack>>
  /\ UNCHANGED <<due, inserted, waits, posted, cancels, resets, stopped, fault>>

\* A slip in emplace: the timer is set when there was something already.
ScheduleWhenBusy(t, a, s) == Emplace(t, a, s, list[s] # <<>>)

Schedule(t, a, s) == Emplace(t, a, s, list[s] = <<>>)

\* reset_timer, first statement: expires_from_now.
ResetSlot(t) ==
  /\ At(t, "reset")
  /\ LET s == Head(stack[t]).of IN
     /\ CancelWaits(s)
     /\ Become(t, <<[at |-> "arm", of |-> s, todo |-> list[s]]>>)
  /\ UNCHANGED <<life, active, list, due, inserted, holder, cancels, resets,
                 stopped, fault>>

\* reset_timer: one wait for each active action, with no lock ...
ArmAction(t) ==
  /\ At(t, "arm") /\ Head(stack[t]).todo # <<>>
  /\ LET f == Head(stack[t])
         a == Head(f.todo)
     IN /\ IF life[a] = "destroyed" THEN Dangling("list") ELSE fault' = fault
        /\ waits' = IF life[a] = "live" /\ active[a]
                    THEN [waits EXCEPT ![f.of] = Append(@, Handler("action", a))]
                    ELSE waits
        /\ Become(t, <<[f EXCEPT !.todo = Tail(@)]>>)
  /\ UNCHANGED <<life, active, list, due, inserted, posted, holder, cancels,
                 resets, stopped>>

\* ... and one for the slot itself, to come round again.
ArmSlot(t) ==
  /\ At(t, "arm") /\ Head(stack[t]).todo = <<>>
  /\ LET s == Head(stack[t]).of IN
     waits' = [waits EXCEPT ![s] = Append(@, Handler("slot", s))]
  /\ Pop(t)
  /\ UNCHANGED <<life, active, list, due, inserted, posted, holder, cancels,
                 resets, stopped, fault>>

Unlock(t) ==
  /\ At(t, "unlock") /\ holder' = NoThread /\ Pop(t)
  /\ UNCHANGED <<life, active, list, due, inserted, waits, posted, cancels,
                 resets, stopped, fault>>

\* A slip in PeriodicAction::cancel: only the flag is changed.
CancelFlagOnly(t, a) ==
  /\ MayCall(t) /\ life[a] = "live" /\ cancels[a] < MaxCancels
  /\ active' = [active EXCEPT ![a] = FALSE]
  /\ cancels' = [cancels EXCEPT ![a] = @ + 1]
  /\ UNCHANGED <<life, list, due, inserted, waits, posted, stack, holder,
                 resets, stopped, fault>>

\* A slip: cancel() calls a pause() that asks for the removal as well.
CancelTwice(t, a) ==
  /\ MayCall(t) /\ life[a] = "live" /\ cancels[a] < MaxCancels
  /\ active' = [active EXCEPT ![a] = FALSE]
  /\ posted' = posted \o <<Handler("remove", a), Handler("remove", a)>>
  /\ cancels' = [cancels EXCEPT ![a] = @ + 1]
  /\ UNCHANGED <<life, list, due, inserted, waits, stack, holder, resets,
                 stopped, fault>>

\* PeriodicAction::cancel: the removal is left to a worker.
Cancel(t, a) ==
  /\ MayCall(t) /\ life[a] = "live" /\ cancels[a] < MaxCancels
  /\ active' = [active EXCEPT ![a] = FALSE]
  /\ posted' = Append(posted, Handler("remove", a))
  /\ cancels' = [cancels EXCEPT ![a] = @ + 1]
  /\ UNCHANGED <<life, list, due, inserted, waits, stack, holder, resets,
                 stopped, fault>>

\* PeriodicAction::pause and unpause.
Pause(t, a) ==
  /\ MayCall(t) /\ life[a] = "live"
  /\ \E b \in BOOLEAN : b # active[a] /\ active' = [active EXCEPT ![a] = b]
  /\ UNCHANGED <<life, list, due, inserted, waits, posted, stack, holder,
                 cancels, resets, stopped, fault>>

\* std::forward_list::remove, of an action that is in the list once.
Without(actions, i) ==
  SubSeq(actions, 1, i - 1) \o SubSeq(actions, i + 1, Len(actions))

\* Scheduler::remove once it has the mutex: the pointer it found valid is
\* taken again, and used; an emptied slot cancels its timer.
RemoveThen(t, alwaysCancels) ==
  /\ At(t, "lock") /\ holder = NoThread
  /\ LET a == Head(stack[t]).of IN
     /\ a \in Actions
     /\ IF life[a] = "destroyed"
        THEN fault' = "null" /\ UNCHANGED <<life, list, waits, posted>>
        ELSE \E s \in Slots : \E i \in DOMAIN list[s] :
               /\ list[s][i] = a
               /\ list' = [list EXCEPT ![s] = Without(@, i)]
               /\ life' = [life EXCEPT ![a] = "destroyed"]
               /\ IF alwaysCancels \/ Without(list[s], i) = <<>>
                  THEN CancelWaits(s) ELSE UNCHANGED <<waits, posted>>
               /\ fault' = fault
  /\ Pop(t)
  /\ UNCHANGED <<active, due, inserted, holder, cancels, resets, stopped>>

\* A slip in PeriodicScheduleSlot::remove: whatever is left in the slot.
RemoveActionAlways(t) == RemoveThen(t, TRUE)

RemoveAction(t) == RemoveThen(t, FALSE)

-----------------------------------------------------------------------------
(* One-shot actions *)

\* set_timer returns the pointer after the insertion; a callback is given its
\* own action.
Known(t, k) == \/ k \in inserted
               \/ At(t, "call") /\ Head(stack[t]).of = k /\ life[k] = "live"

\* ScheduledAction::reset, first statement; the wait follows in Rearm.
MoveExpiry(t, k, frames) ==
  /\ CancelWaits(k)
  /\ due' = [due EXCEPT ![k] = FALSE]
  /\ stopped' = stopped \ {k}
  /\ Push(t, <<Frame("rearm", k)>> \o frames)

\* Scheduler::set_timer: the timer runs before the action is inserted.
SetTimer(t, k) ==
  /\ MayCall(t) /\ life[k] = "none"
  /\ life' = [life EXCEPT ![k] = "live"]
  /\ MoveExpiry(t, k, <<Frame("insert", k)>>)
  /\ UNCHANGED <<active, list, inserted, holder, cancels, resets, fault>>

Reset(t, k) ==
  /\ MayCall(t) /\ Known(t, k) /\ resets[k] < MaxResets
  /\ resets' = [resets EXCEPT ![k] = @ + 1]
  /\ MoveExpiry(t, k, <<>>)
  /\ UNCHANGED <<life, active, list, inserted, holder, cancels, fault>>

\* A user's thread has locked its weak pointer and outlives a removal: letting
\* go of it then aborts the wait.  A callback only has a reference.
Rearm(t) ==
  /\ At(t, "rearm")
  /\ LET k == Head(stack[t]).of IN
     \/ /\ life[k] = "live" /\ fault' = fault
        /\ waits' = [waits EXCEPT ![k] = Append(@, Handler("timer", k))]
        /\ posted' = posted
     \/ /\ life[k] = "destroyed" /\ t \in Users /\ fault' = fault
        /\ posted' = posted \o Aborted(<<Handler("timer", k)>>)
        /\ waits' = waits
     \/ /\ life[k] = "destroyed" /\ t \in Workers /\ Dangling("timer")
        /\ UNCHANGED <<waits, posted>>
  /\ Pop(t)
  /\ UNCHANGED <<life, active, list, due, inserted, holder, cancels, resets,
                 stopped>>

Insert(t) ==
  /\ At(t, "insert") /\ holder = NoThread
  /\ LET k == Head(stack[t]).of IN
     inserted' = inserted \cup {k} /\ Become(t, <<Frame("result", k)>>)
  /\ UNCHANGED <<life, active, list, due, waits, posted, holder, cancels,
                 resets, stopped, fault>>

\* set_timer follows its iterator when it has let go of the mutex: the action
\* may have been erased by then.
Result(t) ==
  /\ At(t, "result") /\ Pop(t)
  /\ IF life[Head(stack[t]).of] = "destroyed" THEN Dangling("iterator")
                                              ELSE fault' = fault
  /\ UNCHANGED <<life, active, list, due, inserted, waits, posted, holder,
                 cancels, resets, stopped>>

\* ScheduledAction::cancel.
PostRemoval(k) ==
  /\ posted' = posted \o Aborted(waits[k]) \o <<Handler("remove", k)>>
  /\ waits' = [waits EXCEPT ![k] = <<>>]

\* A call is already on its way, or a wait is about to be added.
Underway(k) ==
  \/ \E i \in DOMAIN posted : posted[i] = Handler("timer", k)
  \/ \E t \in Threads : \E i \in DOMAIN stack[t] : stack[t][i] = Frame("rearm", k)

CancelTimer(t, k) ==
  /\ MayCall(t) /\ Known(t, k)
  /\ \A i \in DOMAIN posted : posted[i] # Handler("remove", k)
  /\ PostRemoval(k)
  /\ stopped' = IF due[k] \/ Underway(k) THEN stopped ELSE stopped \cup {k}
  /\ UNCHANGED <<life, active, list, due, inserted, stack, holder, cancels,
                 resets, fault>>

\* The rest of ScheduledAction::timer_expiry_handler, after the callback.
Check(t) ==
  /\ At(t, "check")
  /\ LET k == Head(stack[t]).of IN
     \/ /\ life[k] = "destroyed" /\ Dangling("timer") /\ UNCHANGED <<waits, posted>>
     \/ /\ life[k] = "live" /\ fault' = fault
        /\ IF due[k] THEN PostRemoval(k) ELSE UNCHANGED <<waits, posted>>
  /\ Pop(t)
  /\ UNCHANGED <<life, active, list, due, inserted, holder, cancels, resets,
                 stopped>>

\* Scheduler::remove erases the action; its destructor aborts its waits.
RemoveTimer(t) ==
  /\ At(t, "lock") /\ holder = NoThread
  /\ LET k == Head(stack[t]).of IN
     /\ k \in Timers
     /\ inserted' = inserted \ {k}
     /\ IF k \in inserted
        THEN life' = [life EXCEPT ![k] = "destroyed"] /\ CancelWaits(k)
        ELSE UNCHANGED <<life, waits, posted>>
  /\ Pop(t)
  /\ UNCHANGED <<active, list, due, holder, cancels, resets, stopped, fault>>

-----------------------------------------------------------------------------
(* io_service::run: a worker with nothing to do takes the next handler. *)

\* What each handler begins with; for a removal, the test of expired().
CallsFor(h, heedsError) ==
  CASE h.kind = "action" -> IF h.ok /\ active[h.of] THEN <<Frame("call", h.of)>>
                                                    ELSE <<>>
    [] h.kind = "slot"   -> IF h.ok THEN <<Frame("reset", h.of)>> ELSE <<>>
    [] h.kind = "timer"  -> IF h.ok \/ ~heedsError
                            THEN <<Frame("call", h.of), Frame("check", h.of)>>
                            ELSE <<>>
    [] h.kind = "remove" -> IF life[h.of] = "live" THEN <<Frame("lock", h.of)>>
                                                    ELSE <<>>

\* A slip: ScheduledAction's handler without its test of the error code.
CallsAborted(h) == CallsFor(h, FALSE)

Calls(h) == CallsFor(h, TRUE)

Take(w) ==
  /\ w \in Workers /\ stack[w] = <<>> /\ posted # <<>>
  /\ posted' = Tail(posted)
  /\ LET h == Head(posted) IN
     IF h.kind \in {"action", "timer"} /\ life[h.of] = "destroyed"
     THEN Dangling("handler") /\ stack' = stack
     ELSE Push(w, Calls(h)) /\ fault' = fault
  /\ UNCHANGED <<life, active, list, due, inserted, waits, holder, cancels,
                 resets, stopped>>

\* The user's callback returns; the function object it runs in is gone when
\* its action is.
Return(t) ==
  /\ At(t, "call") /\ Pop(t)
  /\ IF life[Head(stack[t]).of] = "destroyed" THEN Dangling("callback")
                                              ELSE fault' = fault
  /\ UNCHANGED <<life, active, list, due, inserted, waits, posted, holder,
                 cancels, resets, stopped>>

\* What a thread does once begun, and what it is asked to do.
Continue(t) ==
  \/ ResetSlot(t) \/ ArmAction(t) \/ ArmSlot(t) \/ Unlock(t) \/ RemoveAction(t)
  \/ RemoveTimer(t) \/ Rearm(t) \/ Insert(t) \/ Result(t) \/ Check(t) \/ Take(t)
  \/ Return(t)

Ask(t) ==
  \/ \E a \in Actions : \/ \E s \in Slots : Schedule(t, a, s)
                        \/ Cancel(t, a) \/ Pause(t, a)
  \/ \E k \in Timers : SetTimer(t, k) \/ Reset(t, k) \/ CancelTimer(t, k)

Next ==
  /\ fault = NoFault
  /\ \/ \E t \in Threads : Continue(t) \/ Ask(t)
     \/ \E o \in Slots \cup Timers : Expire(o)

\* Threads are run, callbacks return and timers expire; nobody has to ask for
\* anything.  The mutex is only held across steps by Schedule, which is called
\* a bounded number of times.
Fairness ==
  /\ \A t \in Threads : WF_vars(fault = NoFault /\ Continue(t))
  /\ \A o \in Slots \cup Timers : WF_vars(fault = NoFault /\ Expire(o))

Spec == Init /\ [][Next]_vars /\ Fairness

-----------------------------------------------------------------------------
(* Properties *)

\* A slot that has actions keeps coming round: its own wait is pending, or has
\* completed and is in the queue, or a thread is about to set the timer again.
\* reset_timer takes no lock, so schedule and remove on other threads abort and
\* re-arm the same timer between its statements (PeriodicScheduleSlot.cc:90).
SlotStaysArmed ==
  fault = NoFault => \A s \in Slots : list[s] # <<>> =>
    \/ \E i \in DOMAIN waits[s] : waits[s][i] = Handler("slot", s)
    \/ \E i \in DOMAIN posted : posted[i] = Handler("slot", s)
    \/ \E t \in Threads : \E i \in DOMAIN stack[t] :
         stack[t][i].at \in {"reset", "arm"} /\ stack[t][i].of = s

\* An action that cancel() is called for once is removed without following a
\* null pointer, however many workers there are: the pointer that remove() found
\* valid is taken again under the mutex, and only another removal of the same
\* action can have made it null (Scheduler.cc:81-84).
NullNeedsTwoCancels == fault = "null" => \E a \in Actions : cancels[a] > 1

\* The mutex orders the removals, as its comment has it (Scheduler.hh): none
\* finds that another worker has destroyed the action it has just seen alive.
RemovalsAreOrdered == fault # "null"

\* An action that was cancelled before its timer expired, and not reset since,
\* is not called (ScheduledAction::cancel); a handler that a reset found in the
\* queue already counts as expired: the aborted wait is still run as a
\* handler, after whatever else was queued.
CancelPreventsCall ==
  [][\A t \in Threads, k \in Timers :
       stack[t] = <<>> /\ stack'[t] # <<>> /\ Head(stack'[t]) = Frame("call", k)
         => k \notin stopped]_vars

\* A cancelled periodic action is destroyed in the end, unless the behaviour
\* ends in a fault: the removal is posted, not done, by cancel().
CancelledIsRemoved ==
  \A a \in Actions : cancels[a] > 0 ~> (life[a] = "destroyed" \/ fault # NoFault)

\* An action that stays scheduled and active is called again and again, on any
\* number of workers, though every other call of reset_timer on the slot aborts
\* its waits (PeriodicScheduleSlot.cc:90): two threads may be setting the same
\* timer, and two chains of its waits may come round.  What it takes is that in
\* the end the timer no longer expires while a thread is still setting it: that
\* setting a timer takes less time than its interval.
SetInTime(s) == \A t \in Threads : \A i \in DOMAIN stack[t] :
                  ~(stack[t][i].at = "arm" /\ stack[t][i].of = s)
ActiveIsServed ==
  (<>[][\A s \in Slots : Expire(s) => SetInTime(s)]_vars)
    => \A a \in Actions :
         []<>(\/ life[a] # "live" \/ ~active[a] \/ fault # NoFault
              \/ \E t \in Threads : At(t, "call") /\ Head(stack[t]).of = a)

\* A cancelled one-shot action is destroyed by its scheduler, as the
\* postcondition of ScheduledAction::cancel has it (ScheduledAction.hh).
CancelledTimerIsDestroyed ==
  \A k \in Timers : (\E i \in DOMAIN posted : posted[i] = Handler("remove", k))
                      ~> (life[k] = "destroyed" \/ fault # NoFault)
=============================================================================
