-------------------------- MODULE Scheduler_proofs --------------------------
(***************************************************************************)
(* What util::Scheduler keeps whatever the number of workers, actions and  *)
(* timers: its slots come round, a timer stopped in time calls nobody, and *)
(* an action cancelled once is removed without a null pointer.             *)
(***************************************************************************)
EXTENDS Scheduler, SequenceTheorems, FiniteSetTheorems, TLAPS

Handlers ==
       [kind : {"action"}, of : Actions, ok : BOOLEAN]
  \cup [kind : {"slot"}, of : Slots, ok : BOOLEAN]
  \cup [kind : {"timer"}, of : Timers, ok : BOOLEAN]
  \cup [kind : {"remove"}, of : Objects, ok : BOOLEAN]

Frames ==
       [at : {"reset", "arm", "unlock"}, of : Slots, todo : Seq(Actions)]
  \cup [at : {"rearm", "insert", "result", "check"}, of : Timers, todo : {<<>>}]
  \cup [at : {"call", "lock"}, of : Objects, todo : Seq(Actions)]

\* What may wait on the timer of a slot or of a one-shot action.
WaitsOf(o) ==
  IF o \in Timers THEN {Handler("timer", o)}
  ELSE {Handler("slot", o)} \cup {Handler("action", a) : a \in Actions}

Faults == {NoFault, "list", "null", "timer", "handler", "callback", "iterator"}

TypeOK ==
  /\ life \in [Objects -> {"none", "live", "destroyed"}]
  /\ active \in [Actions -> BOOLEAN]
  /\ list \in [Slots -> Seq(Actions)]
  /\ due \in [Timers -> BOOLEAN]
  /\ inserted \in SUBSET Timers
  /\ waits \in [Slots \cup Timers -> Seq(Handlers)]
  /\ \A o \in Slots \cup Timers : waits[o] \in Seq(WaitsOf(o))
  /\ posted \in Seq(Handlers)
  /\ stack \in [Threads -> Seq(Frames)]
  /\ holder \in Threads \cup {NoThread}
  /\ cancels \in [Actions -> Nat] /\ resets \in [Timers -> Nat]
  /\ stopped \in SUBSET Timers
  /\ fault \in Faults

-----------------------------------------------------------------------------
(* Sequences: what is in them. *)

In(x, s) == \E i \in DOMAIN s : s[i] = x

\* What is in the short sequences the code pushes.
LEMMA InShort ==
  ASSUME NEW x
  PROVE  /\ ~In(x, <<>>)
         /\ \A y : In(x, <<y>>) <=> x = y
         /\ \A y, z : In(x, <<y, z>>) <=> x = y \/ x = z
<1>1. ~In(x, <<>>)
  BY DEF In
<1>2. ASSUME NEW y PROVE In(x, <<y>>) <=> x = y
  BY DEF In
<1>3. ASSUME NEW y, NEW z PROVE In(x, <<y, z>>) <=> x = y \/ x = z
  <2>1. DOMAIN <<y, z>> = 1 .. 2 /\ <<y, z>>[1] = y /\ <<y, z>>[2] = z
    OBVIOUS
  <2> QED BY <2>1 DEF In
<1> QED BY <1>1, <1>2, <1>3

\* What is in a queue that is added to at its end, or a stack pushed onto.
LEMMA InConcat ==
  ASSUME NEW S, NEW s \in Seq(S), NEW t \in Seq(S), NEW x
  PROVE  In(x, s \o t) <=> In(x, s) \/ In(x, t)
<1>1. /\ Len(s) \in Nat /\ Len(t) \in Nat /\ DOMAIN s = 1 .. Len(s) /\ DOMAIN t = 1 .. Len(t)
      /\ DOMAIN (s \o t) = 1 .. (Len(s) + Len(t))
      /\ \A i \in 1 .. Len(s) : (s \o t)[i] = s[i]
      /\ \A i \in 1 .. Len(t) : (s \o t)[Len(s) + i] = t[i]
  OBVIOUS
<1>2. ASSUME NEW i \in 1 .. (Len(s) + Len(t)), (s \o t)[i] = x PROVE In(x, s) \/ In(x, t)
  <2>1. CASE i \in 1 .. Len(s)
    BY <1>1, <1>2, <2>1 DEF In
  <2>2. CASE i \notin 1 .. Len(s)
    <3>1. i - Len(s) \in 1 .. Len(t) /\ Len(s) + (i - Len(s)) = i
      BY <1>1, <2>2
    <3> QED BY <1>1, <1>2, <3>1 DEF In
  <2> QED BY <2>1, <2>2
<1>3. ASSUME In(x, s) \/ In(x, t) PROVE In(x, s \o t)
  <2>1. CASE In(x, s)
    BY <1>1, <2>1 DEF In
  <2>2. CASE In(x, t)
    <3>1. PICK i \in 1 .. Len(t) : t[i] = x
      BY <1>1, <2>2 DEF In
    <3>2. Len(s) + i \in DOMAIN (s \o t) /\ (s \o t)[Len(s) + i] = x
      BY <1>1, <3>1
    <3> QED BY <3>2 DEF In
  <2> QED BY <1>3, <2>1, <2>2
<1> QED BY <1>1, <1>2, <1>3 DEF In

\* What is in a queue is its head or stays when that is taken.
LEMMA InTail ==
  ASSUME NEW S, NEW s \in Seq(S), s # <<>>, NEW x
  PROVE  In(x, s) <=> x = Head(s) \/ In(x, Tail(s))
<1>1. /\ Len(s) \in Nat \ {0} /\ DOMAIN s = 1 .. Len(s)
      /\ DOMAIN Tail(s) = 1 .. (Len(s) - 1) /\ Head(s) = s[1]
      /\ \A i \in 1 .. (Len(s) - 1) : Tail(s)[i] = s[i + 1]
  OBVIOUS
<1>2. ASSUME NEW i \in 1 .. Len(s), s[i] = x PROVE x = Head(s) \/ In(x, Tail(s))
  <2>1. CASE i = 1
    BY <1>1, <1>2, <2>1
  <2>2. CASE i # 1
    <3>1. i - 1 \in DOMAIN Tail(s) /\ Tail(s)[i - 1] = x
      BY <1>1, <1>2, <2>2
    <3> QED BY <3>1 DEF In
  <2> QED BY <2>1, <2>2
<1>3. ASSUME In(x, Tail(s)) PROVE In(x, s)
  <2>1. PICK i \in 1 .. (Len(s) - 1) : Tail(s)[i] = x
    BY <1>1, <1>3 DEF In
  <2>2. i + 1 \in DOMAIN s /\ s[i + 1] = x
    BY <1>1, <2>1
  <2> QED BY <2>2 DEF In
<1>4. In(Head(s), s)
  BY <1>1 DEF In
<1> QED BY <1>1, <1>2, <1>3, <1>4 DEF In

\* Only members of its set are in a sequence.
LEMMA InMember == \A S : \A s \in Seq(S) : \A x : In(x, s) => x \in S
BY DEF In

-----------------------------------------------------------------------------
(* The inductive invariant. *)

\* A slot that has actions comes round again.
Armed(s) ==
  \/ In(Handler("slot", s), waits[s])
  \/ In(Handler("slot", s), posted)
  \/ \E t \in Threads : \E f : In(f, stack[t]) /\ f.at \in {"reset", "arm"} /\ f.of = s
SlotsArmed == \A s \in Slots : list[s] # <<>> => Armed(s)

\* A timer stopped in time has nothing under way that would call its function.
StoppedQuiet ==
  \A k \in stopped :
    /\ waits[k] = <<>>
    /\ ~In(Handler("timer", k), posted)
    /\ \A t \in Threads : \A f : In(f, stack[t]) => ~(f.at = "rearm" /\ f.of = k)

\* A removal runs on a worker that does nothing else.
LocksAlone ==
  \A t \in Threads : \A f : In(f, stack[t]) /\ f.at = "lock" =>
    t \in Workers /\ Tail(stack[t]) = <<>>

\* Something is in a sequence at most once.
Once(x, s) == \A i, j \in DOMAIN s : s[i] = x /\ s[j] = x => i = j

\* A thread has found an action alive and is about to remove it.
Removes(t, a) == \E f : In(f, stack[t]) /\ f.at = "lock" /\ f.of = a

\* An action has been cancelled at most once: then at most one removal of it is
\* in the queue or on a worker, and until that is done the action is there.
RemovedOnce(a) ==
  /\ Once(Handler("remove", a), posted)
  /\ \A t, u \in Threads : Removes(t, a) /\ Removes(u, a) => t = u
  /\ In(Handler("remove", a), posted) => /\ \A t \in Threads : ~Removes(t, a)
                                        /\ cancels[a] = 1 /\ life[a] = "live"
  /\ \A t \in Threads : Removes(t, a) => cancels[a] = 1 /\ life[a] = "live"
RemovalsMatch ==
  /\ \A a \in Actions : cancels[a] > 1 \/ RemovedOnce(a)
  /\ fault = "null" => \E a \in Actions : cancels[a] > 1
  /\ \A h : In(h, posted) /\ h.kind = "remove" => h.ok

\* An action is in one list once, and there if and only if it is live.
ListedOnce ==
  /\ \A s, p \in Slots : \A i \in DOMAIN list[s], j \in DOMAIN list[p] :
       list[s][i] = list[p][j] => s = p /\ i = j
  /\ \A a \in Actions :
       life[a] = "live" <=> \E s \in Slots : \E i \in DOMAIN list[s] : list[s][i] = a

IInv == TypeOK /\ ListedOnce /\ SlotsArmed /\ StoppedQuiet /\ LocksAlone /\ RemovalsMatch

-----------------------------------------------------------------------------
(* What the steps are made of. *)

\* The handlers the code posts or binds to a timer.
LEMMA NewHandlers ==
  /\ \A a \in Actions : Handler("action", a) \in Handlers
  /\ \A s \in Slots : Handler("slot", s) \in Handlers
  /\ \A k \in Timers : Handler("timer", k) \in Handlers
  /\ \A o \in Objects : Handler("remove", o) \in Handlers
BY DEF Handler, Handlers

\* What the code has a thread do next.
LEMMA NewFrames ==
  /\ \A s \in Slots : \A at \in {"reset", "arm", "unlock"} : Frame(at, s) \in Frames
  /\ \A k \in Timers : \A at \in {"rearm", "insert", "result", "check"} : Frame(at, k) \in Frames
  /\ \A o \in Objects : \A at \in {"call", "lock"} : Frame(at, o) \in Frames
<1>1. <<>> \in Seq(Actions)
  OBVIOUS
<1> QED BY <1>1 DEF Frame, Frames

\* An aborted wait is a handler that is not ok.
LEMMA Aborting ==
  ASSUME NEW ws \in Seq(Handlers)
  PROVE  /\ Aborted(ws) \in Seq(Handlers)
         /\ \A h : In(h, Aborted(ws)) => h.ok = FALSE
<1>1. \A h \in Handlers : [h EXCEPT !.ok = FALSE] \in Handlers /\ [h EXCEPT !.ok = FALSE].ok = FALSE
  BY DEF Handlers
<1>2. Len(ws) \in Nat /\ DOMAIN ws = 1 .. Len(ws) /\ \A i \in 1 .. Len(ws) : ws[i] \in Handlers
  OBVIOUS
<1>3. Aborted(ws) = [i \in 1 .. Len(ws) |-> [ws[i] EXCEPT !.ok = FALSE]]
  BY <1>2 DEF Aborted
<1>4. Aborted(ws) \in [1 .. Len(ws) -> Handlers]
  BY <1>1, <1>2, <1>3
<1>5. Aborted(ws) \in Seq(Handlers)
  BY <1>2, <1>4
<1>6. ASSUME NEW h, In(h, Aborted(ws)) PROVE h.ok = FALSE
  <2>1. PICK i \in DOMAIN Aborted(ws) : Aborted(ws)[i] = h
    BY <1>6 DEF In
  <2>2. i \in 1 .. Len(ws) /\ h = [ws[i] EXCEPT !.ok = FALSE]
    BY <1>3, <2>1
  <2> QED BY <1>1, <1>2, <2>2
<1> QED BY <1>5, <1>6

\* The frames of a thread after a push ...
LEMMA Pushing ==
  ASSUME TypeOK, NEW t \in Threads, NEW frames \in Seq(Frames), Push(t, frames)
  PROVE  /\ stack' \in [Threads -> Seq(Frames)]
         /\ stack'[t] = frames \o stack[t]
         /\ \A u \in Threads : u # t => stack'[u] = stack[u]
         /\ \A f : In(f, stack'[t]) <=> In(f, frames) \/ In(f, stack[t])
<1>1. stack[t] \in Seq(Frames)
  BY DEF TypeOK
<1>2. frames \o stack[t] \in Seq(Frames)
  BY <1>1
<1> QED BY <1>1, <1>2, InConcat DEF Push, TypeOK

\* ... and after its innermost frame gave way to others.
LEMMA Becoming ==
  ASSUME TypeOK, NEW t \in Threads, NEW frames \in Seq(Frames), Become(t, frames),
         stack[t] # <<>>
  PROVE  /\ stack' \in [Threads -> Seq(Frames)]
         /\ stack'[t] = frames \o Tail(stack[t])
         /\ \A u \in Threads : u # t => stack'[u] = stack[u]
         /\ \A f : In(f, stack'[t]) <=> In(f, frames) \/ In(f, Tail(stack[t]))
         /\ \A f : In(f, stack[t]) <=> f = Head(stack[t]) \/ In(f, Tail(stack[t]))
         /\ Head(stack[t]) \in Frames /\ Tail(stack[t]) \in Seq(Frames)
<1>1. stack[t] \in Seq(Frames)
  BY DEF TypeOK
<1>2. Head(stack[t]) \in Frames /\ Tail(stack[t]) \in Seq(Frames)
  BY <1>1
<1>3. frames \o Tail(stack[t]) \in Seq(Frames)
  BY <1>2
<1> QED BY <1>1, <1>2, <1>3, InConcat, InTail DEF Become, TypeOK

\* A thread that is done with its innermost frame.
LEMMA Popping ==
  ASSUME TypeOK, NEW t \in Threads, Pop(t), stack[t] # <<>>
  PROVE  /\ stack' \in [Threads -> Seq(Frames)]
         /\ stack'[t] = Tail(stack[t])
         /\ \A u \in Threads : u # t => stack'[u] = stack[u]
         /\ \A f : In(f, stack[t]) <=> f = Head(stack[t]) \/ In(f, stack'[t])
         /\ Head(stack[t]) \in Frames
<1>1. stack[t] \in Seq(Frames)
  BY DEF TypeOK
<1>2. Head(stack[t]) \in Frames /\ Tail(stack[t]) \in Seq(Frames)
  BY <1>1
<1>3. <<>> \o Tail(stack[t]) = Tail(stack[t])
  BY <1>2
<1> QED BY <1>1, <1>2, <1>3, InTail DEF Pop, Become, TypeOK

\* Pending waits of an object that move to the queue as aborted handlers.
LEMMA Cancelling ==
  ASSUME TypeOK, NEW o \in Slots \cup Timers, CancelWaits(o)
  PROVE  /\ posted' \in Seq(Handlers)
         /\ \A h : In(h, posted) => In(h, posted')
         /\ \A h : In(h, posted') => In(h, posted) \/ h.ok = FALSE
         /\ waits' \in [Slots \cup Timers -> Seq(Handlers)]
         /\ \A p \in Slots \cup Timers : waits'[p] \in Seq(WaitsOf(p))
         /\ waits'[o] = <<>> /\ \A p \in Slots \cup Timers : p # o => waits'[p] = waits[p]
<1>1. posted \in Seq(Handlers) /\ waits[o] \in Seq(Handlers)
  BY DEF TypeOK
<1>2. Aborted(waits[o]) \in Seq(Handlers) /\ \A h : In(h, Aborted(waits[o])) => h.ok = FALSE
  BY <1>1, Aborting
<1>3. <<>> \in Seq(Handlers) /\ \A p : <<>> \in Seq(WaitsOf(p))
  OBVIOUS
<1>4. posted' = posted \o Aborted(waits[o])
  BY DEF CancelWaits
<1>5. posted' \in Seq(Handlers)
  BY <1>1, <1>2, <1>4
<1>6. \A h : In(h, posted') <=> In(h, posted) \/ In(h, Aborted(waits[o]))
  BY <1>1, <1>2, <1>4, InConcat
<1>7. waits' = [waits EXCEPT ![o] = <<>>]
  BY DEF CancelWaits
<1> QED BY <1>2, <1>3, <1>5, <1>6, <1>7 DEF TypeOK

\* A wait that is added to those of an object.
LEMMA Waiting ==
  ASSUME TypeOK, NEW o \in Slots \cup Timers, NEW h \in WaitsOf(o),
         waits' = [waits EXCEPT ![o] = Append(@, h)]
  PROVE  /\ waits' \in [Slots \cup Timers -> Seq(Handlers)]
         /\ \A p \in Slots \cup Timers : waits'[p] \in Seq(WaitsOf(p))
         /\ waits'[o] = Append(waits[o], h)
         /\ \A g : In(g, waits'[o]) <=> In(g, waits[o]) \/ g = h
         /\ \A p \in Slots \cup Timers : p # o => waits'[p] = waits[p]
<1>1. h \in Handlers
  BY NewHandlers DEF WaitsOf
<1>2. /\ waits[o] \in Seq(Handlers) /\ waits[o] \in Seq(WaitsOf(o))
      /\ waits'[o] = Append(waits[o], h)
  BY DEF TypeOK
<1>3. Append(waits[o], h) \in Seq(Handlers) /\ Append(waits[o], h) \in Seq(WaitsOf(o))
  BY <1>1, <1>2
<1>4. Append(waits[o], h) = waits[o] \o <<h>> /\ <<h>> \in Seq(Handlers)
  BY <1>1, <1>2
<1>5. \A g : In(g, waits[o] \o <<h>>) <=> In(g, waits[o]) \/ In(g, <<h>>)
  BY <1>2, <1>4, InConcat
<1>6. \A g : In(g, waits'[o]) <=> In(g, waits[o]) \/ g = h
  <2>1. waits'[o] = waits[o] \o <<h>>
    BY <1>2, <1>4
  <2>2. \A g : In(g, <<h>>) <=> g = h
    BY InShort
  <2> QED BY <1>5, <2>1, <2>2
<1> QED BY <1>2, <1>3, <1>6 DEF TypeOK

\* Handlers that join the queue of the io_service.
LEMMA Queueing ==
  ASSUME TypeOK, NEW hs \in Seq(Handlers), posted' = posted \o hs
  PROVE  /\ posted' \in Seq(Handlers)
         /\ \A h : In(h, posted') <=> In(h, posted) \/ In(h, hs)
<1>1. posted \in Seq(Handlers)
  BY DEF TypeOK
<1> QED BY <1>1, InConcat

\* A list without one of its actions: the others stay, in their order.
LEMMA WithoutOne ==
  ASSUME NEW q \in Seq(Actions), NEW i \in DOMAIN q
  PROVE  /\ Without(q, i) \in Seq(Actions)
         /\ DOMAIN Without(q, i) = 1 .. Len(q) - 1
         /\ \A j \in 1 .. Len(q) - 1 :
              Without(q, i)[j] = q[IF j < i THEN j ELSE j + 1]
<1>1. Len(q) \in Nat /\ i \in 1 .. Len(q) /\ i \in Nat
  OBVIOUS
<1>2. /\ SubSeq(q, 1, i - 1) \in Seq(Actions) /\ Len(SubSeq(q, 1, i - 1)) = i - 1
      /\ \A j \in 1 .. i - 1 : SubSeq(q, 1, i - 1)[j] = q[j]
  BY <1>1
<1>3. /\ SubSeq(q, i + 1, Len(q)) \in Seq(Actions)
      /\ Len(SubSeq(q, i + 1, Len(q))) = Len(q) - i
      /\ \A j \in 1 .. Len(q) - i : SubSeq(q, i + 1, Len(q))[j] = q[i + j]
  BY <1>1
<1> DEFINE front == SubSeq(q, 1, i - 1)
           back == SubSeq(q, i + 1, Len(q))
<1>4. Without(q, i) = front \o back
  BY DEF Without
<1>5. /\ front \in Seq(Actions) /\ Len(front) = i - 1
      /\ \A j \in 1 .. i - 1 : front[j] = q[j]
  BY <1>2
<1>6. /\ back \in Seq(Actions) /\ Len(back) = Len(q) - i
      /\ \A j \in 1 .. Len(q) - i : back[j] = q[i + j]
  BY <1>3
<1> HIDE DEF front, back
<1>7. /\ front \o back \in Seq(Actions)
      /\ Len(front \o back) = Len(front) + Len(back)
      /\ DOMAIN (front \o back) = 1 .. Len(front \o back)
  BY <1>5, <1>6, ConcatProperties
<1>8. \A j \in 1 .. Len(front) + Len(back) :
        (front \o back)[j] = IF j <= Len(front) THEN front[j] ELSE back[j - Len(front)]
  BY <1>5, <1>6, ConcatProperties
<1>9. ASSUME NEW j \in 1 .. Len(q) - 1
      PROVE  (front \o back)[j] = q[IF j < i THEN j ELSE j + 1]
  <2>1. j \in 1 .. Len(front) + Len(back)
    BY <1>1, <1>5, <1>6
  <2>2. CASE j < i
    BY <1>1, <1>5, <1>8, <2>1, <2>2
  <2>3. CASE ~(j < i)
    <3>1. j - Len(front) \in 1 .. Len(q) - i /\ i + (j - Len(front)) = j + 1
      BY <1>1, <1>5, <2>3
    <3>2. (front \o back)[j] = back[j - Len(front)]
      BY <1>1, <1>5, <1>8, <2>1, <2>3
    <3>3. back[j - Len(front)] = q[j + 1]
      BY <1>6, <3>1
    <3> QED BY <2>3, <3>2, <3>3
  <2> QED BY <2>2, <2>3
<1>10. DOMAIN (front \o back) = 1 .. Len(q) - 1
  BY <1>1, <1>5, <1>6, <1>7
<1> QED BY <1>4, <1>7, <1>9, <1>10

\* The frames it pushes, one or two at a time.
LEMMA ShortFrames ==
  ASSUME NEW f \in Frames, NEW g \in Frames
  PROVE  <<>> \in Seq(Frames) /\ <<f>> \in Seq(Frames) /\ <<f, g>> \in Seq(Frames)
OBVIOUS

\* What is asked of a worker by the handler it takes.
LEMMA CallsTyped ==
  ASSUME TypeOK, NEW h \in Handlers
  PROVE  /\ Calls(h) \in Seq(Frames)
         /\ \A f : In(f, Calls(h)) =>
              \/ h.kind = "action" /\ f = Frame("call", h.of)
              \/ h.kind = "slot" /\ h.ok /\ f = Frame("reset", h.of)
              \/ h.kind = "timer" /\ h.ok /\ f \in {Frame("call", h.of), Frame("check", h.of)}
              \/ h.kind = "remove" /\ life[h.of] = "live" /\ f = Frame("lock", h.of)
         /\ h.kind = "remove" => Calls(h) \in {<<>>, <<Frame("lock", h.of)>>}
         /\ h.kind = "slot" /\ h.ok => In(Frame("reset", h.of), Calls(h))
<1>1. /\ h.kind \in {"action", "slot", "timer", "remove"}
      /\ h.ok \in BOOLEAN
      /\ h.kind = "action" => h.of \in Objects
      /\ h.kind = "slot" => h.of \in Slots
      /\ h.kind = "timer" => h.of \in Timers /\ h.of \in Objects
      /\ h.kind = "remove" => h.of \in Objects
  BY DEF Handlers, Objects
<1>2. CASE h.kind = "action"
  <2>1. Calls(h) = <<>> \/ Calls(h) = <<Frame("call", h.of)>>
    BY <1>2 DEF Calls, CallsFor
  <2>2. Frame("call", h.of) \in Frames
    BY <1>1, <1>2, NewFrames
  <2>3. Calls(h) \in Seq(Frames)
    BY <2>1, <2>2, ShortFrames
  <2> QED BY <1>2, <2>1, <2>3, InShort
<1>3. CASE h.kind = "slot"
  <2>1. Calls(h) = <<>> \/ Calls(h) = <<Frame("reset", h.of)>>
    BY <1>1, <1>3 DEF Calls, CallsFor
  <2>2. /\ h.ok => Calls(h) = <<Frame("reset", h.of)>>
        /\ ~h.ok => Calls(h) = <<>>
    BY <1>1, <1>3 DEF Calls, CallsFor
  <2>3. Frame("reset", h.of) \in Frames
    BY <1>1, <1>3, NewFrames
  <2>4. Calls(h) \in Seq(Frames)
    BY <2>1, <2>3, ShortFrames
  <2>5. CASE h.ok
    <3>1. \A f : In(f, Calls(h)) <=> f = Frame("reset", h.of)
      BY <2>2, <2>5, InShort
    <3> QED BY <1>3, <2>4, <2>5, <3>1
  <2>6. CASE ~h.ok
    BY <1>3, <2>2, <2>4, <2>6, InShort
  <2> QED BY <2>5, <2>6
<1>4. CASE h.kind = "timer"
  <2>2. /\ h.ok => Calls(h) = <<Frame("call", h.of), Frame("check", h.of)>>
        /\ ~h.ok => Calls(h) = <<>>
    BY <1>1, <1>4 DEF Calls, CallsFor
  <2>3. Frame("call", h.of) \in Frames /\ Frame("check", h.of) \in Frames
    BY <1>1, <1>4, NewFrames
  <2>4. Calls(h) \in Seq(Frames)
    BY <2>2, <2>3, ShortFrames
  <2>5. CASE h.ok
    <3>1. \A f : In(f, Calls(h)) => f \in {Frame("call", h.of), Frame("check", h.of)}
      BY <2>2, <2>5, InShort
    <3> QED BY <1>4, <2>4, <2>5, <3>1
  <2>6. CASE ~h.ok
    BY <1>4, <2>2, <2>4, <2>6, InShort
  <2> QED BY <2>5, <2>6
<1>5. CASE h.kind = "remove"
  <2>1. Calls(h) = <<>> \/ (life[h.of] = "live" /\ Calls(h) = <<Frame("lock", h.of)>>)
    BY <1>5 DEF Calls, CallsFor
  <2>2. Frame("lock", h.of) \in Frames
    BY <1>1, <1>5, NewFrames
  <2>3. Calls(h) \in Seq(Frames)
    BY <2>1, <2>2, ShortFrames
  <2> QED BY <1>5, <2>1, <2>3, InShort
<1> QED BY <1>1, <1>2, <1>3, <1>4, <1>5

-----------------------------------------------------------------------------
(* Every action keeps the types. *)

\* PeriodicAction and the slots.
LEMMA TypesOfPeriodic ==
  ASSUME TypeOK, NEW t \in Threads,
         \/ \E a \in Actions, s \in Slots : Schedule(t, a, s)
         \/ \E a \in Actions : Cancel(t, a) \/ Pause(t, a)
         \/ ResetSlot(t) \/ ArmAction(t) \/ ArmSlot(t) \/ Unlock(t)
  PROVE  TypeOK'
<1>1. ASSUME NEW a \in Actions, NEW s \in Slots, Schedule(t, a, s) PROVE TypeOK'
  <2>1. list' \in [Slots -> Seq(Actions)]
    <3>1. list[s] \in Seq(Actions) /\ list' = [list EXCEPT ![s] = <<a>> \o @]
      BY <1>1 DEF Schedule, Emplace, TypeOK
    <3>2. <<a>> \o list[s] \in Seq(Actions)
      BY <3>1
    <3> QED BY <3>1, <3>2 DEF TypeOK
  <2>2. stack' \in [Threads -> Seq(Frames)]
    <3>1. Frame("reset", s) \in Frames /\ Frame("unlock", s) \in Frames
      BY NewFrames
    <3>2. <<Frame("reset", s), Frame("unlock", s)>> \in Seq(Frames)
      BY <3>1, ShortFrames
    <3> QED BY <1>1, <3>2, Pushing DEF Schedule, Emplace, TypeOK
  <2>3. holder' \in Threads \cup {NoThread}
    BY <1>1 DEF Schedule, Emplace, TypeOK
  <2> QED BY <1>1, <2>1, <2>2, <2>3 DEF Schedule, Emplace, TypeOK
<1>2. ASSUME NEW a \in Actions, Cancel(t, a) PROVE TypeOK'
  <2>1. posted' \in Seq(Handlers)
    <3>1. Handler("remove", a) \in Handlers
      BY NewHandlers DEF Objects
    <3> QED BY <1>2, <3>1 DEF Cancel, TypeOK
  <2> QED BY <1>2, <2>1 DEF Cancel, TypeOK
<1>3. ASSUME NEW a \in Actions, Pause(t, a) PROVE TypeOK'
  <2>1. active' \in [Actions -> BOOLEAN]
    BY <1>3 DEF Pause, TypeOK
  <2> QED BY <1>3, <2>1 DEF Pause, TypeOK
<1>4. ASSUME ResetSlot(t) PROVE TypeOK'
  <2> DEFINE s == Head(stack[t]).of
             f == [at |-> "arm", of |-> s, todo |-> list[s]]
  <2>1. s \in Slots
    <3>1. stack[t] \in Seq(Frames) /\ stack[t] # <<>> /\ Head(stack[t]).at = "reset"
      BY <1>4 DEF ResetSlot, At, TypeOK
    <3>2. Head(stack[t]) \in Frames
      BY <3>1
    <3> QED BY <3>1, <3>2 DEF Frames
  <2>2. f \in Frames
    BY <2>1 DEF Frames, TypeOK
  <2>3. <<f>> \in Seq(Frames)
    BY <2>2, ShortFrames
  <2>4. CancelWaits(s) /\ Become(t, <<f>>) /\ stack[t] # <<>>
    BY <1>4 DEF ResetSlot, At
  <2> HIDE DEF s, f
  <2>5. stack' \in [Threads -> Seq(Frames)]
    BY <2>3, <2>4, Becoming
  <2>6. /\ posted' \in Seq(Handlers) /\ waits' \in [Slots \cup Timers -> Seq(Handlers)]
        /\ \A p \in Slots \cup Timers : waits'[p] \in Seq(WaitsOf(p))
    BY <2>1, <2>4, Cancelling
  <2> QED BY <1>4, <2>5, <2>6 DEF ResetSlot, TypeOK
<1>5. ASSUME ArmAction(t) PROVE TypeOK'
  <2> DEFINE f == Head(stack[t])
             a == Head(f.todo)
  <2>1. /\ stack[t] \in Seq(Frames) /\ stack[t] # <<>> /\ f.at = "arm" /\ f.todo # <<>>
        /\ f \in Frames
    <3>1. stack[t] \in Seq(Frames) /\ stack[t] # <<>> /\ f.at = "arm" /\ f.todo # <<>>
      BY <1>5 DEF ArmAction, At, TypeOK
    <3> QED BY <3>1
  <2>2. f.of \in Slots /\ f.todo \in Seq(Actions)
    BY <2>1 DEF Frames
  <2>3. a \in Actions /\ Tail(f.todo) \in Seq(Actions)
    BY <2>1, <2>2
  <2>4. [f EXCEPT !.todo = Tail(@)] \in Frames
    <3>1. f \in [at : {"reset", "arm", "unlock"}, of : Slots, todo : Seq(Actions)]
      BY <2>1 DEF Frames
    <3> HIDE DEF f
    <3>2. [f EXCEPT !.todo = Tail(@)] \in
            [at : {"reset", "arm", "unlock"}, of : Slots, todo : Seq(Actions)]
      BY <2>3, <3>1
    <3> QED BY <3>2 DEF Frames
  <2>5. /\ Become(t, <<[f EXCEPT !.todo = Tail(@)]>>)
        /\ waits' = waits \/ waits' = [waits EXCEPT ![f.of] = Append(@, Handler("action", a))]
        /\ fault' \in {fault, NoFault, "list"}
    BY <1>5 DEF ArmAction, Dangling
  <2>6. f.of \notin Timers
    BY <2>2, ThreadsAssumption
  <2> HIDE DEF f, a
  <2>7. stack' \in [Threads -> Seq(Frames)]
    BY <2>1, <2>4, <2>5, ShortFrames, Becoming
  <2>8. Handler("action", a) \in WaitsOf(f.of)
    BY <2>3, <2>6 DEF WaitsOf
  <2>9. /\ waits' \in [Slots \cup Timers -> Seq(Handlers)]
        /\ \A p \in Slots \cup Timers : waits'[p] \in Seq(WaitsOf(p))
    <3>1. CASE waits' = waits
      BY <3>1 DEF TypeOK
    <3>2. CASE waits' = [waits EXCEPT ![f.of] = Append(@, Handler("action", a))]
      BY <2>2, <2>8, <3>2, Waiting
    <3> QED BY <2>5, <3>1, <3>2
  <2>10. fault' \in Faults
    BY <2>5 DEF TypeOK, Faults
  <2> QED BY <1>5, <2>7, <2>9, <2>10 DEF ArmAction, TypeOK
<1>6. ASSUME ArmSlot(t) PROVE TypeOK'
  <2> DEFINE s == Head(stack[t]).of
  <2>1. s \in Slots /\ s \notin Timers
    <3>1. stack[t] \in Seq(Frames) /\ stack[t] # <<>> /\ Head(stack[t]).at = "arm"
      BY <1>6 DEF ArmSlot, At, TypeOK
    <3>2. Head(stack[t]) \in Frames
      BY <3>1
    <3> QED BY <3>1, <3>2, ThreadsAssumption DEF Frames
  <2>2. /\ waits' = [waits EXCEPT ![s] = Append(@, Handler("slot", s))]
        /\ Pop(t) /\ stack[t] # <<>>
    BY <1>6 DEF ArmSlot, At
  <2> HIDE DEF s
  <2>3. stack' \in [Threads -> Seq(Frames)]
    BY <2>2, Popping
  <2>4. Handler("slot", s) \in WaitsOf(s)
    BY <2>1 DEF WaitsOf
  <2>5. /\ waits' \in [Slots \cup Timers -> Seq(Handlers)]
        /\ \A p \in Slots \cup Timers : waits'[p] \in Seq(WaitsOf(p))
    BY <2>1, <2>2, <2>4, Waiting
  <2> QED BY <1>6, <2>3, <2>5 DEF ArmSlot, TypeOK
<1>7. ASSUME Unlock(t) PROVE TypeOK'
  <2>1. Pop(t) /\ stack[t] # <<>>
    BY <1>7 DEF Unlock, At
  <2>2. stack' \in [Threads -> Seq(Frames)]
    BY <2>1, Popping
  <2> QED BY <1>7, <2>2 DEF Unlock, TypeOK
<1> QED BY <1>1, <1>2, <1>3, <1>4, <1>5, <1>6, <1>7

\* What a removal takes out of a slot.
LEMMA TypesOfRemoval ==
  ASSUME TypeOK, NEW t \in Threads, RemoveAction(t) \/ RemoveTimer(t)
  PROVE  TypeOK'
<1> DEFINE o == Head(stack[t]).of
<1>1. stack[t] # <<>> /\ Pop(t)
  BY DEF RemoveAction, RemoveThen, RemoveTimer, At
<1>2. stack' \in [Threads -> Seq(Frames)]
  BY <1>1, Popping
<1>3. ASSUME RemoveAction(t), life[o] # "destroyed" PROVE TypeOK'
  <2>1. PICK s \in Slots : \E i \in DOMAIN list[s] :
          /\ list' = [list EXCEPT ![s] = Without(@, i)]
          /\ life' = [life EXCEPT ![o] = "destroyed"]
          /\ CancelWaits(s) \/ UNCHANGED <<waits, posted>>
          /\ fault' = fault
    BY <1>3 DEF RemoveAction, RemoveThen
  <2>2. PICK i \in DOMAIN list[s] : list' = [list EXCEPT ![s] = Without(@, i)]
    BY <2>1
  <2>3. list[s] \in Seq(Actions) /\ i \in DOMAIN list[s]
    BY DEF TypeOK
  <2>4. Without(list[s], i) \in Seq(Actions)
    BY <2>3, WithoutOne
  <2>5. list' \in [Slots -> Seq(Actions)]
    BY <2>2, <2>4 DEF TypeOK
  <2>6. /\ posted' \in Seq(Handlers) /\ waits' \in [Slots \cup Timers -> Seq(Handlers)]
        /\ \A p \in Slots \cup Timers : waits'[p] \in Seq(WaitsOf(p))
    <3>1. CASE CancelWaits(s)
      BY <3>1, Cancelling
    <3>2. CASE UNCHANGED <<waits, posted>>
      BY <3>2 DEF TypeOK
    <3> QED BY <2>1, <3>1, <3>2
  <2>7. life' \in [Objects -> {"none", "live", "destroyed"}]
    BY <2>1 DEF TypeOK
  <2> QED BY <1>2, <1>3, <2>1, <2>5, <2>6, <2>7 DEF RemoveAction, RemoveThen, TypeOK
<1>4. ASSUME RemoveAction(t), life[o] = "destroyed" PROVE TypeOK'
  <2>1. UNCHANGED <<life, active, list, due, inserted, waits, posted, holder, cancels,
                    resets, stopped>> /\ fault' \in Faults
    BY <1>4 DEF RemoveAction, RemoveThen, Faults
  <2> QED BY <1>2, <2>1 DEF TypeOK
<1>5. ASSUME RemoveTimer(t) PROVE TypeOK'
  <2>1. o \in Timers /\ inserted' = inserted \ {o}
    BY <1>5 DEF RemoveTimer
  <2>2. CASE o \in inserted
    <3>1. life' = [life EXCEPT ![o] = "destroyed"] /\ CancelWaits(o)
      BY <1>5, <2>2 DEF RemoveTimer
    <3>2. /\ posted' \in Seq(Handlers) /\ waits' \in [Slots \cup Timers -> Seq(Handlers)]
          /\ \A p \in Slots \cup Timers : waits'[p] \in Seq(WaitsOf(p))
      BY <2>1, <3>1, Cancelling
    <3>3. life' \in [Objects -> {"none", "live", "destroyed"}]
      BY <3>1 DEF TypeOK
    <3> QED BY <1>2, <1>5, <2>1, <3>2, <3>3 DEF RemoveTimer, TypeOK
  <2>3. CASE o \notin inserted
    <3>1. UNCHANGED <<life, waits, posted>>
      BY <1>5, <2>3 DEF RemoveTimer
    <3> QED BY <1>2, <1>5, <2>1, <3>1 DEF RemoveTimer, TypeOK
  <2> QED BY <2>2, <2>3
<1> QED BY <1>3, <1>4, <1>5

\* ScheduledAction and set_timer.
LEMMA TypesOfOneShot ==
  ASSUME TypeOK, NEW t \in Threads,
         \/ \E k \in Timers : SetTimer(t, k) \/ Reset(t, k) \/ CancelTimer(t, k)
         \/ Rearm(t) \/ Insert(t) \/ Result(t) \/ Check(t)
  PROVE  TypeOK'
<1>1. ASSUME NEW k \in Timers, NEW frames \in Seq(Frames), MoveExpiry(t, k, frames)
      PROVE  /\ posted' \in Seq(Handlers) /\ waits' \in [Slots \cup Timers -> Seq(Handlers)]
             /\ \A p \in Slots \cup Timers : waits'[p] \in Seq(WaitsOf(p))
             /\ stack' \in [Threads -> Seq(Frames)]
             /\ due' \in [Timers -> BOOLEAN] /\ stopped' \in SUBSET Timers
  <2>1. Frame("rearm", k) \in Frames
    BY NewFrames
  <2>2. <<Frame("rearm", k)>> \in Seq(Frames)
    BY <2>1, ShortFrames
  <2>3. <<Frame("rearm", k)>> \o frames \in Seq(Frames)
    BY <2>2, ConcatProperties
  <2>4. stack' \in [Threads -> Seq(Frames)]
    BY <1>1, <2>3, Pushing DEF MoveExpiry
  <2>5. /\ posted' \in Seq(Handlers) /\ waits' \in [Slots \cup Timers -> Seq(Handlers)]
        /\ \A p \in Slots \cup Timers : waits'[p] \in Seq(WaitsOf(p))
    BY <1>1, Cancelling DEF MoveExpiry
  <2> QED BY <1>1, <2>4, <2>5 DEF MoveExpiry, TypeOK
<1>2. ASSUME NEW k \in Timers, PostRemoval(k)
      PROVE  /\ posted' \in Seq(Handlers) /\ waits' \in [Slots \cup Timers -> Seq(Handlers)]
             /\ \A p \in Slots \cup Timers : waits'[p] \in Seq(WaitsOf(p))
  <2>1. posted \in Seq(Handlers) /\ Aborted(waits[k]) \in Seq(Handlers)
    BY Aborting DEF TypeOK
  <2>2. Handler("remove", k) \in Handlers
    BY NewHandlers DEF Objects
  <2>3. posted' \in Seq(Handlers)
    BY <1>2, <2>1, <2>2 DEF PostRemoval
  <2>4. <<>> \in Seq(Handlers) /\ \A p : <<>> \in Seq(WaitsOf(p))
    OBVIOUS
  <2> QED BY <1>2, <2>3, <2>4 DEF PostRemoval, TypeOK
<1>3. ASSUME NEW k \in Timers, SetTimer(t, k) PROVE TypeOK'
  <2>1. Frame("insert", k) \in Frames
    BY NewFrames
  <2>2. <<Frame("insert", k)>> \in Seq(Frames)
    BY <2>1, ShortFrames
  <2>3. MoveExpiry(t, k, <<Frame("insert", k)>>)
    BY <1>3 DEF SetTimer
  <2>4. life' \in [Objects -> {"none", "live", "destroyed"}]
    BY <1>3 DEF SetTimer, TypeOK
  <2>5. /\ posted' \in Seq(Handlers) /\ waits' \in [Slots \cup Timers -> Seq(Handlers)]
        /\ \A p \in Slots \cup Timers : waits'[p] \in Seq(WaitsOf(p))
        /\ stack' \in [Threads -> Seq(Frames)]
        /\ due' \in [Timers -> BOOLEAN] /\ stopped' \in SUBSET Timers
    BY <1>1, <2>2, <2>3
  <2> QED BY <1>3, <2>4, <2>5 DEF SetTimer, TypeOK
<1>4. ASSUME NEW k \in Timers, Reset(t, k) PROVE TypeOK'
  <2>1. <<>> \in Seq(Frames) /\ MoveExpiry(t, k, <<>>)
    BY <1>4 DEF Reset
  <2>2. resets' \in [Timers -> Nat]
    BY <1>4 DEF Reset, TypeOK
  <2>3. /\ posted' \in Seq(Handlers) /\ waits' \in [Slots \cup Timers -> Seq(Handlers)]
        /\ \A p \in Slots \cup Timers : waits'[p] \in Seq(WaitsOf(p))
        /\ stack' \in [Threads -> Seq(Frames)]
        /\ due' \in [Timers -> BOOLEAN] /\ stopped' \in SUBSET Timers
    BY <1>1, <2>1
  <2> QED BY <1>4, <2>2, <2>3 DEF Reset, TypeOK
<1>5. ASSUME NEW k \in Timers, CancelTimer(t, k) PROVE TypeOK'
  <2>1. stopped' \in SUBSET Timers
    BY <1>5 DEF CancelTimer, TypeOK
  <2>2. PostRemoval(k)
    BY <1>5 DEF CancelTimer
  <2>3. /\ posted' \in Seq(Handlers) /\ waits' \in [Slots \cup Timers -> Seq(Handlers)]
        /\ \A p \in Slots \cup Timers : waits'[p] \in Seq(WaitsOf(p))
    BY <1>2, <2>2
  <2> QED BY <1>5, <2>1, <2>3 DEF CancelTimer, TypeOK
<1>6. ASSUME Rearm(t) PROVE TypeOK'
  <2> DEFINE k == Head(stack[t]).of
  <2>1. k \in Timers
    <3>1. stack[t] \in Seq(Frames) /\ stack[t] # <<>> /\ Head(stack[t]).at = "rearm"
      BY <1>6 DEF Rearm, At, TypeOK
    <3>2. Head(stack[t]) \in Frames
      BY <3>1
    <3> QED BY <3>1, <3>2 DEF Frames
  <2>2. /\ Pop(t) /\ stack[t] # <<>>
        /\ \/ waits' = [waits EXCEPT ![k] = Append(@, Handler("timer", k))] /\ posted' = posted
           \/ waits' = waits /\ posted' = posted \o Aborted(<<Handler("timer", k)>>)
           \/ UNCHANGED <<waits, posted>>
        /\ fault' \in {fault, NoFault, "timer"}
    BY <1>6 DEF Rearm, At, Dangling
  <2> HIDE DEF k
  <2>3. stack' \in [Threads -> Seq(Frames)]
    BY <2>2, Popping
  <2>4. /\ Handler("timer", k) \in WaitsOf(k) /\ Handler("timer", k) \in Handlers
        /\ <<Handler("timer", k)>> \in Seq(Handlers)
    <3>1. Handler("timer", k) \in WaitsOf(k) /\ Handler("timer", k) \in Handlers
      BY <2>1, NewHandlers DEF WaitsOf
    <3> QED BY <3>1
  <2>5. /\ posted' \in Seq(Handlers) /\ waits' \in [Slots \cup Timers -> Seq(Handlers)]
        /\ \A p \in Slots \cup Timers : waits'[p] \in Seq(WaitsOf(p))
    <3>1. CASE waits' = [waits EXCEPT ![k] = Append(@, Handler("timer", k))] /\ posted' = posted
      BY <2>1, <2>4, <3>1, Waiting DEF TypeOK
    <3>2. CASE waits' = waits /\ posted' = posted \o Aborted(<<Handler("timer", k)>>)
      BY <2>4, <3>2, Aborting, Queueing DEF TypeOK
    <3>3. CASE UNCHANGED <<waits, posted>>
      BY <3>3 DEF TypeOK
    <3> QED BY <2>2, <3>1, <3>2, <3>3
  <2>6. fault' \in Faults
    BY <2>2 DEF TypeOK, Faults
  <2> QED BY <1>6, <2>3, <2>5, <2>6 DEF Rearm, TypeOK
<1>7. ASSUME Insert(t) PROVE TypeOK'
  <2>1. Head(stack[t]).of \in Timers
    <3>1. stack[t] \in Seq(Frames) /\ stack[t] # <<>> /\ Head(stack[t]).at = "insert"
      BY <1>7 DEF Insert, At, TypeOK
    <3>2. Head(stack[t]) \in Frames
      BY <3>1
    <3> QED BY <3>1, <3>2 DEF Frames
  <2>2. stack' \in [Threads -> Seq(Frames)]
    <3> DEFINE k == Head(stack[t]).of
    <3>1. Become(t, <<Frame("result", k)>>) /\ stack[t] # <<>>
      BY <1>7 DEF Insert, At
    <3>2. Frame("result", k) \in Frames
      BY <2>1, NewFrames
    <3> HIDE DEF k
    <3>3. <<Frame("result", k)>> \in Seq(Frames)
      BY <3>2, ShortFrames
    <3> QED BY <3>1, <3>3, Becoming
  <2>3. inserted' \in SUBSET Timers
    BY <1>7, <2>1 DEF Insert, TypeOK
  <2> QED BY <1>7, <2>2, <2>3 DEF Insert, TypeOK
<1>8. ASSUME Check(t) PROVE TypeOK'
  <2> DEFINE k == Head(stack[t]).of
  <2>1. k \in Timers
    <3>1. stack[t] \in Seq(Frames) /\ stack[t] # <<>> /\ Head(stack[t]).at = "check"
      BY <1>8 DEF Check, At, TypeOK
    <3>2. Head(stack[t]) \in Frames
      BY <3>1
    <3> QED BY <3>1, <3>2 DEF Frames
  <2>2. /\ Pop(t) /\ stack[t] # <<>>
        /\ PostRemoval(k) \/ UNCHANGED <<waits, posted>>
        /\ fault' \in {fault, NoFault, "timer"}
    BY <1>8 DEF Check, At, Dangling
  <2> HIDE DEF k
  <2>3. stack' \in [Threads -> Seq(Frames)]
    BY <2>2, Popping
  <2>4. /\ posted' \in Seq(Handlers) /\ waits' \in [Slots \cup Timers -> Seq(Handlers)]
        /\ \A p \in Slots \cup Timers : waits'[p] \in Seq(WaitsOf(p))
    <3>1. CASE PostRemoval(k)
      BY <1>2, <2>1, <3>1
    <3>2. CASE UNCHANGED <<waits, posted>>
      BY <3>2 DEF TypeOK
    <3> QED BY <2>2, <3>1, <3>2
  <2>5. fault' \in Faults
    BY <2>2 DEF TypeOK, Faults
  <2> QED BY <1>8, <2>3, <2>4, <2>5 DEF Check, TypeOK
<1>9. ASSUME Result(t) PROVE TypeOK'
  <2>1. stack' \in [Threads -> Seq(Frames)]
    BY <1>9, Popping DEF Result, At
  <2>2. fault' \in Faults
    BY <1>9 DEF Result, Dangling, TypeOK, Faults
  <2> QED BY <1>9, <2>1, <2>2 DEF Result, TypeOK
<1> QED BY <1>3, <1>4, <1>5, <1>6, <1>7, <1>8, <1>9

\* The io_service and the timers.
LEMMA TypesOfService ==
  ASSUME TypeOK,
         \/ \E t \in Threads : Take(t) \/ Return(t)
         \/ \E o \in Slots \cup Timers : Expire(o)
  PROVE  TypeOK'
<1>1. ASSUME NEW t \in Threads, Take(t) PROVE TypeOK'
  <2> DEFINE h == Head(posted)
  <2>1. h \in Handlers /\ posted' \in Seq(Handlers)
    <3>1. posted \in Seq(Handlers) /\ posted # <<>> /\ posted' = Tail(posted)
      BY <1>1 DEF Take, TypeOK
    <3> QED BY <3>1
  <2>2. stack' = stack \/ Push(t, Calls(h))
    BY <1>1 DEF Take
  <2>3. fault' \in {fault, NoFault, "handler"}
    BY <1>1 DEF Take, Dangling
  <2> HIDE DEF h
  <2>4. stack' \in [Threads -> Seq(Frames)]
    <3>1. Calls(h) \in Seq(Frames)
      BY <2>1, CallsTyped
    <3>2. CASE stack' = stack
      BY <3>2 DEF TypeOK
    <3>3. CASE Push(t, Calls(h))
      BY <3>1, <3>3, Pushing
    <3> QED BY <2>2, <3>2, <3>3
  <2>5. fault' \in Faults
    BY <2>3 DEF TypeOK, Faults
  <2> QED BY <1>1, <2>1, <2>4, <2>5 DEF Take, TypeOK
<1>2. ASSUME NEW t \in Threads, Return(t) PROVE TypeOK'
  <2>1. stack' \in [Threads -> Seq(Frames)]
    BY <1>2, Popping DEF Return, At
  <2>2. fault' \in Faults
    BY <1>2 DEF Return, Dangling, TypeOK, Faults
  <2> QED BY <1>2, <2>1, <2>2 DEF Return, TypeOK
<1>3. ASSUME NEW o \in Slots \cup Timers, Expire(o) PROVE TypeOK'
  <2>1. posted \in Seq(Handlers) /\ waits[o] \in Seq(Handlers)
    BY DEF TypeOK
  <2>2. posted' \in Seq(Handlers)
    BY <1>3, <2>1 DEF Expire
  <2>3. <<>> \in Seq(Handlers) /\ \A p : <<>> \in Seq(WaitsOf(p))
    OBVIOUS
  <2>4. /\ waits' \in [Slots \cup Timers -> Seq(Handlers)]
        /\ \A p \in Slots \cup Timers : waits'[p] \in Seq(WaitsOf(p))
    BY <1>3, <2>3 DEF Expire, TypeOK
  <2>5. due' \in [Timers -> BOOLEAN]
    BY <1>3 DEF Expire, TypeOK
  <2> QED BY <1>3, <2>2, <2>4, <2>5 DEF Expire, TypeOK
<1> QED BY <1>1, <1>2, <1>3

\* All steps keep the types.
LEMMA TypeStep == TypeOK /\ [Next]_vars => TypeOK'
<1> SUFFICES ASSUME TypeOK, [Next]_vars PROVE TypeOK'
  OBVIOUS
<1>1. CASE UNCHANGED vars
  BY <1>1 DEF vars, TypeOK
<1>2. CASE Next
  <2>1. ASSUME NEW t \in Threads, Continue(t) PROVE TypeOK'
    BY <2>1, TypesOfPeriodic, TypesOfRemoval, TypesOfOneShot, TypesOfService DEF Continue
  <2>2. ASSUME NEW t \in Threads, Ask(t) PROVE TypeOK'
    BY <2>2, TypesOfPeriodic, TypesOfOneShot DEF Ask
  <2>3. ASSUME NEW o \in Slots \cup Timers, Expire(o) PROVE TypeOK'
    BY <2>3, TypesOfService
  <2> QED BY <1>2, <2>1, <2>2, <2>3 DEF Next
<1> QED BY <1>1, <1>2

\* The initial state has them.
LEMMA TypeInit == Init => TypeOK
<1> SUFFICES ASSUME Init PROVE TypeOK
  OBVIOUS
<1>1. /\ <<>> \in Seq(Handlers) /\ <<>> \in Seq(Frames) /\ <<>> \in Seq(Actions)
      /\ \A o : <<>> \in Seq(WaitsOf(o))
  OBVIOUS
<1> QED BY <1>1 DEF Init, TypeOK, Faults, NoFault

-----------------------------------------------------------------------------
(* What every action does to the frames. *)

\* Thread t moves: a frame at `at` may go, those in `new` may come.
Moves(t, at, new) ==
  /\ \A u \in Threads : u # t => stack'[u] = stack[u]
  /\ \A f : In(f, stack'[t]) => In(f, stack[t]) \/ f \in new
  /\ \A f : In(f, stack[t]) => In(f, stack'[t]) \/ f.at = at

\* The fields of a frame.
LEMMA FrameFields ==
  \A at, of : Frame(at, of).at = at /\ Frame(at, of).of = of
BY DEF Frame

\* A frame that is at its end.
LEMMA Ending ==
  ASSUME TypeOK, NEW t \in Threads, NEW at, At(t, at), Pop(t)
  PROVE  /\ Moves(t, at, {})
         /\ In(Head(stack[t]), stack[t]) /\ Head(stack[t]) \in Frames
         /\ stack'[t] = Tail(stack[t])
<1>1. /\ stack[t] # <<>> /\ Head(stack[t]).at = at
  BY DEF At
<1>2. /\ stack'[t] = Tail(stack[t])
      /\ \A u \in Threads : u # t => stack'[u] = stack[u]
      /\ \A f : In(f, stack[t]) <=> f = Head(stack[t]) \/ In(f, stack'[t])
      /\ Head(stack[t]) \in Frames
  BY <1>1, Popping
<1> QED BY <1>1, <1>2 DEF Moves

\* A step that leaves the stacks alone.
LEMMA Standing ==
  ASSUME UNCHANGED stack, NEW t
  PROVE  \A new : Moves(t, "", new)
BY DEF Moves

\* A step that only pushes.
LEMMA Calling ==
  ASSUME TypeOK, NEW t \in Threads, NEW frames \in Seq(Frames), Push(t, frames),
         NEW new, \A f : In(f, frames) => f \in new
  PROVE  Moves(t, "", new)
BY Pushing DEF Moves

\* Scheduling pushes the setting of the timer if the slot was empty.
LEMMA ScheduleMoves ==
  ASSUME TypeOK, NEW t \in Threads, NEW a \in Actions, NEW s \in Slots, Schedule(t, a, s)
  PROVE  /\ Moves(t, "", {Frame("reset", s), Frame("unlock", s)})
         /\ list[s] = <<>> => In(Frame("reset", s), stack'[t])
<1> DEFINE frames == <<Frame("reset", s), Frame("unlock", s)>>
<1>1. Frame("reset", s) \in Frames /\ Frame("unlock", s) \in Frames
  BY NewFrames
<1>2. frames \in Seq(Frames)
  BY <1>1, ShortFrames
<1>3. \A f : In(f, frames) <=> f \in {Frame("reset", s), Frame("unlock", s)}
  BY InShort
<1>4. /\ list[s] = <<>> => Push(t, frames)
      /\ list[s] # <<>> => stack' = stack
  BY DEF Schedule, Emplace
<1> HIDE DEF frames
<1>5. CASE list[s] = <<>>
  <2>1. In(Frame("reset", s), frames)
    BY <1>3
  <2> QED BY <1>2, <1>3, <1>4, <1>5, <2>1, Calling, Pushing
<1>6. CASE list[s] # <<>>
  BY <1>4, <1>6, Standing
<1> QED BY <1>5, <1>6

\* reset_timer goes from its first statement to its loop ...
LEMMA ResetSlotMoves ==
  ASSUME TypeOK, NEW t \in Threads, ResetSlot(t)
  PROVE  \E f \in Frames : \E s \in Slots :
           /\ f.at = "arm" /\ f.of = s /\ s = Head(stack[t]).of
           /\ Moves(t, "reset", {f}) /\ In(f, stack'[t])
           /\ \A g : In(g, stack[t]) => In(g, stack'[t]) \/ g.of = s
<1> DEFINE s == Head(stack[t]).of
           f == [at |-> "arm", of |-> s, todo |-> list[s]]
<1>1. stack[t] \in Seq(Frames) /\ stack[t] # <<>> /\ Head(stack[t]).at = "reset"
  BY DEF ResetSlot, At, TypeOK
<1>2. s \in Slots
  <2>1. Head(stack[t]) \in Frames
    BY <1>1
  <2> QED BY <1>1, <2>1 DEF Frames
<1>3. f \in Frames
  BY <1>2 DEF Frames, TypeOK
<1>4. <<f>> \in Seq(Frames) /\ Become(t, <<f>>)
  BY <1>3, ShortFrames DEF ResetSlot
<1>5. f.at = "arm" /\ f.of = s /\ s = Head(stack[t]).of
  OBVIOUS
<1> HIDE DEF s, f
<1>6. /\ \A u \in Threads : u # t => stack'[u] = stack[u]
      /\ \A g : In(g, stack'[t]) <=> In(g, <<f>>) \/ In(g, Tail(stack[t]))
      /\ \A g : In(g, stack[t]) <=> g = Head(stack[t]) \/ In(g, Tail(stack[t]))
  BY <1>1, <1>4, Becoming
<1>7. \A g : In(g, <<f>>) <=> g = f
  BY InShort
<1>8. Moves(t, "reset", {f})
  BY <1>1, <1>6, <1>7 DEF Moves
<1> QED BY <1>2, <1>3, <1>5, <1>6, <1>7, <1>8

\* ... and once round its loop.
LEMMA ArmActionMoves ==
  ASSUME TypeOK, NEW t \in Threads, ArmAction(t)
  PROVE  \E f \in Frames : \E s \in Slots : \E a \in Actions :
           /\ f.at = "arm" /\ f.of = s
           /\ Moves(t, "arm", {f}) /\ In(f, stack'[t])
           /\ \A g : In(g, stack[t]) => In(g, stack'[t]) \/ g.of = s
           /\ waits' = waits \/ waits' = [waits EXCEPT ![s] = Append(@, Handler("action", a))]
<1> DEFINE g == Head(stack[t])
           f == [g EXCEPT !.todo = Tail(@)]
           a == Head(g.todo)
<1>1. stack[t] \in Seq(Frames) /\ stack[t] # <<>> /\ g.at = "arm" /\ g.todo # <<>>
  BY DEF ArmAction, At, TypeOK
<1>2. g \in [at : {"reset", "arm", "unlock"}, of : Slots, todo : Seq(Actions)]
  <2>1. g \in Frames
    BY <1>1
  <2> QED BY <1>1, <2>1 DEF Frames
<1>3. /\ Become(t, <<f>>)
      /\ waits' = waits \/ waits' = [waits EXCEPT ![g.of] = Append(@, Handler("action", a))]
  BY DEF ArmAction
<1>4. a \in Actions
  BY <1>1, <1>2
<1>5. /\ f \in [at : {"reset", "arm", "unlock"}, of : Slots, todo : Seq(Actions)]
      /\ f.at = "arm" /\ f.of = g.of /\ g.of \in Slots
  <2> HIDE DEF g
  <2>1. Tail(g.todo) \in Seq(Actions)
    BY <1>1, <1>2
  <2> QED BY <1>1, <1>2, <2>1
<1> HIDE DEF f, a
<1>6. f \in Frames /\ <<f>> \in Seq(Frames)
  BY <1>5, ShortFrames DEF Frames
<1>7. /\ \A u \in Threads : u # t => stack'[u] = stack[u]
      /\ \A h : In(h, stack'[t]) <=> In(h, <<f>>) \/ In(h, Tail(stack[t]))
      /\ \A h : In(h, stack[t]) <=> h = Head(stack[t]) \/ In(h, Tail(stack[t]))
  BY <1>1, <1>3, <1>6, Becoming
<1>8. \A h : In(h, <<f>>) <=> h = f
  BY InShort
<1>9. Moves(t, "arm", {f})
  BY <1>1, <1>7, <1>8 DEF Moves
<1>10. \A h : In(h, stack[t]) => In(h, stack'[t]) \/ h.of = g.of
  BY <1>7
<1>11. In(f, stack'[t])
  BY <1>7, <1>8
<1> HIDE DEF g
<1>12. /\ f \in Frames /\ g.of \in Slots /\ a \in Actions
       /\ f.at = "arm" /\ f.of = g.of
       /\ waits' = waits \/ waits' = [waits EXCEPT ![g.of] = Append(@, Handler("action", a))]
  BY <1>3, <1>4, <1>5, <1>6
<1> QED BY <1>9, <1>10, <1>11, <1>12

\* set_timer and reset move the expiry.
LEMMA ExpiryMoves ==
  ASSUME TypeOK, NEW t \in Threads, NEW k \in Timers, SetTimer(t, k) \/ Reset(t, k)
  PROVE  /\ Moves(t, "", {Frame("rearm", k), Frame("insert", k)})
         /\ CancelWaits(k) /\ stopped' = stopped \ {k}
<1>1. /\ Frame("rearm", k) \in Frames /\ Frame("insert", k) \in Frames
      /\ <<Frame("rearm", k)>> \in Seq(Frames)
      /\ <<Frame("insert", k)>> \in Seq(Frames) /\ <<>> \in Seq(Frames)
  BY NewFrames, ShortFrames
<1>2. /\ CancelWaits(k) /\ stopped' = stopped \ {k}
      /\ \/ Push(t, <<Frame("rearm", k)>> \o <<Frame("insert", k)>>)
         \/ Push(t, <<Frame("rearm", k)>> \o <<>>)
  BY DEF SetTimer, Reset, MoveExpiry
<1>3. ASSUME NEW frames \in {<<>>, <<Frame("insert", k)>>},
             Push(t, <<Frame("rearm", k)>> \o frames)
      PROVE  Moves(t, "", {Frame("rearm", k), Frame("insert", k)})
  <2>1. frames \in Seq(Frames)
    BY <1>1
  <2>2. \A f : In(f, <<Frame("rearm", k)>> \o frames) <=>
                 In(f, <<Frame("rearm", k)>>) \/ In(f, frames)
    BY <1>1, <2>1, InConcat
  <2>3. \A f : In(f, <<Frame("rearm", k)>> \o frames) =>
                 f \in {Frame("rearm", k), Frame("insert", k)}
    BY <2>2, InShort
  <2>4. <<Frame("rearm", k)>> \o frames \in Seq(Frames)
    BY <1>1, <2>1, ConcatProperties
  <2> QED BY <1>3, <2>3, <2>4, Calling
<1> QED BY <1>2, <1>3

\* set_timer has inserted the action, and has its result to make.
LEMMA InsertMoves ==
  ASSUME TypeOK, NEW t \in Threads, Insert(t)
  PROVE  \E f \in Frames : f.at = "result" /\ Moves(t, "insert", {f})
<1> DEFINE f == Frame("result", Head(stack[t]).of)
<1>1. stack[t] \in Seq(Frames) /\ stack[t] # <<>> /\ Head(stack[t]).at = "insert"
  BY DEF Insert, At, TypeOK
<1>2. Head(stack[t]).of \in Timers
  <2>1. Head(stack[t]) \in Frames
    BY <1>1
  <2> QED BY <1>1, <2>1 DEF Frames
<1>3. f \in Frames /\ f.at = "result" /\ Become(t, <<f>>)
  BY <1>2, NewFrames, FrameFields DEF Insert
<1> HIDE DEF f
<1>4. <<f>> \in Seq(Frames)
  BY <1>3, ShortFrames
<1>5. /\ \A u \in Threads : u # t => stack'[u] = stack[u]
      /\ \A g : In(g, stack'[t]) <=> In(g, <<f>>) \/ In(g, Tail(stack[t]))
      /\ \A g : In(g, stack[t]) <=> g = Head(stack[t]) \/ In(g, Tail(stack[t]))
  BY <1>1, <1>3, <1>4, Becoming
<1>6. \A g : In(g, <<f>>) <=> g = f
  BY InShort
<1>7. Moves(t, "insert", {f})
  BY <1>1, <1>5, <1>6 DEF Moves
<1> QED BY <1>3, <1>7

\* A worker takes the first handler in the queue.
LEMMA TakeMoves ==
  ASSUME TypeOK, NEW t \in Threads, Take(t)
  PROVE  LET h == Head(posted)
         IN  /\ h \in Handlers /\ posted' = Tail(posted) /\ t \in Workers
             /\ stack[t] = <<>>
             /\ \A g : In(g, posted) <=> g = h \/ In(g, posted')
             /\ Moves(t, "", {f \in Frames : In(f, Calls(h))})
             /\ h.kind \notin {"action", "timer"} => stack'[t] = Calls(h)
             /\ stack'[t] = <<>> \/ stack'[t] = Calls(h)
<1> DEFINE h == Head(posted)
<1>1. posted \in Seq(Handlers) /\ posted # <<>> /\ posted' = Tail(posted) /\ t \in Workers
  BY DEF Take, TypeOK
<1>2. h \in Handlers
  BY <1>1
<1>3. Calls(h) \in Seq(Frames) /\ stack[t] = <<>>
  BY <1>2, CallsTyped DEF Take
<1>4. /\ stack' = stack \/ Push(t, Calls(h))
      /\ h.kind \notin {"action", "timer"} => Push(t, Calls(h))
  BY DEF Take
<1>5. \A g : In(g, posted) <=> g = h \/ In(g, posted')
  BY <1>1, InTail
<1> HIDE DEF h
<1>6. \A f : In(f, Calls(h)) => f \in {g \in Frames : In(g, Calls(h))}
  BY <1>3, InMember
<1>7. Moves(t, "", {f \in Frames : In(f, Calls(h))})
  BY <1>3, <1>4, <1>6, Standing, Calling
<1>8. Push(t, Calls(h)) => stack'[t] = Calls(h)
  <2>1. Calls(h) \o <<>> = Calls(h)
    BY <1>3, ConcatEmptySeq
  <2> QED BY <1>3, <2>1, Pushing
<1>9. /\ h.kind \notin {"action", "timer"} => stack'[t] = Calls(h)
      /\ stack'[t] = <<>> \/ stack'[t] = Calls(h)
  BY <1>3, <1>4, <1>8
<1> QED BY <1>1, <1>2, <1>3, <1>5, <1>7, <1>9 DEF h

\* What a removal posted by ScheduledAction does to the waits and the queue.
LEMMA Removing ==
  ASSUME TypeOK, NEW k \in Timers, PostRemoval(k)
  PROVE  /\ \A h : In(h, posted) => In(h, posted')
         /\ \A h : In(h, posted') => In(h, posted) \/ h.ok = FALSE \/ h = Handler("remove", k)
         /\ waits'[k] = <<>> /\ \A p \in Slots \cup Timers : p # k => waits'[p] = waits[p]
<1>1. waits[k] \in Seq(Handlers) /\ Handler("remove", k) \in Handlers /\ posted \in Seq(Handlers)
  BY NewHandlers DEF TypeOK, Objects
<1>2. /\ Aborted(waits[k]) \in Seq(Handlers)
      /\ \A h : In(h, Aborted(waits[k])) => h.ok = FALSE
  BY <1>1, Aborting
<1>3. <<Handler("remove", k)>> \in Seq(Handlers)
  BY <1>1
<1>4. posted \o Aborted(waits[k]) \in Seq(Handlers)
  BY <1>1, <1>2, ConcatProperties
<1>5. /\ \A h : In(h, posted \o Aborted(waits[k])) <=> In(h, posted) \/ In(h, Aborted(waits[k]))
      /\ \A h : In(h, (posted \o Aborted(waits[k])) \o <<Handler("remove", k)>>) <=>
                  In(h, posted \o Aborted(waits[k])) \/ In(h, <<Handler("remove", k)>>)
  BY <1>1, <1>2, <1>3, <1>4, InConcat
<1>6. posted' = (posted \o Aborted(waits[k])) \o <<Handler("remove", k)>>
  BY DEF PostRemoval
<1>7. \A h : In(h, <<Handler("remove", k)>>) <=> h = Handler("remove", k)
  BY InShort
<1>8. \A h : In(h, posted') <=>
               In(h, posted) \/ In(h, Aborted(waits[k])) \/ h = Handler("remove", k)
  BY <1>5, <1>6, <1>7
<1> QED BY <1>2, <1>8 DEF PostRemoval, TypeOK

\* What a removal posted by PeriodicAction does to the queue.
LEMMA Asking ==
  ASSUME TypeOK, NEW t, NEW a \in Actions, Cancel(t, a)
  PROVE  \A h : In(h, posted') <=> In(h, posted) \/ h = Handler("remove", a)
<1>1. posted \in Seq(Handlers) /\ Handler("remove", a) \in Handlers
  BY NewHandlers DEF TypeOK, Objects
<1>2. posted' = posted \o <<Handler("remove", a)>> /\ <<Handler("remove", a)>> \in Seq(Handlers)
  BY <1>1 DEF Cancel
<1>3. \A h : In(h, posted') <=> In(h, posted) \/ In(h, <<Handler("remove", a)>>)
  BY <1>2, Queueing
<1> QED BY <1>3, InShort

\* What an expiry does to the waits and the queue.
LEMMA Expiring ==
  ASSUME TypeOK, NEW o \in Slots \cup Timers, Expire(o)
  PROVE  /\ \A h : In(h, posted') <=> In(h, posted) \/ In(h, waits[o])
         /\ waits'[o] = <<>> /\ \A p \in Slots \cup Timers : p # o => waits'[p] = waits[p]
<1>1. waits[o] \in Seq(Handlers) /\ posted' = posted \o waits[o]
  BY DEF Expire, TypeOK
<1> QED BY <1>1, Queueing DEF Expire, TypeOK

\* What Rearm does, by the fate of the action.
LEMMA Rearming ==
  ASSUME TypeOK, NEW t \in Threads, Rearm(t)
  PROVE  \E k \in Timers :
           /\ Head(stack[t]).of = k /\ Head(stack[t]).at = "rearm"
           /\ \A h : In(h, posted) => In(h, posted')
           /\ \A h : In(h, posted') => In(h, posted) \/ h.ok = FALSE
           /\ \A p \in Slots \cup Timers : p # k => waits'[p] = waits[p]
<1> DEFINE k == Head(stack[t]).of
<1>1. Head(stack[t]).at = "rearm" /\ Head(stack[t]) \in Frames
  BY Ending DEF Rearm, At
<1>2. k \in Timers
  BY <1>1 DEF Frames
<1>3. \/ waits' = [waits EXCEPT ![k] = Append(@, Handler("timer", k))] /\ posted' = posted
      \/ waits' = waits /\ posted' = posted \o Aborted(<<Handler("timer", k)>>)
      \/ UNCHANGED <<waits, posted>>
  BY DEF Rearm
<1> HIDE DEF k
<1>4. <<Handler("timer", k)>> \in Seq(Handlers)
  <2>1. Handler("timer", k) \in Handlers
    BY <1>2, NewHandlers
  <2> QED BY <2>1
<1>5. /\ \A h : In(h, posted) => In(h, posted')
      /\ \A h : In(h, posted') => In(h, posted) \/ h.ok = FALSE
  <2>1. CASE posted' = posted
    BY <2>1
  <2>2. CASE posted' = posted \o Aborted(<<Handler("timer", k)>>)
    BY <1>4, <2>2, Aborting, Queueing
  <2> QED BY <1>3, <2>1, <2>2
<1>6. \A p \in Slots \cup Timers : p # k => waits'[p] = waits[p]
  BY <1>3 DEF TypeOK
<1> QED BY <1>1, <1>2, <1>5, <1>6 DEF k

-----------------------------------------------------------------------------
(* A slot that has actions comes round. *)

\* What keeps a slot armed, while only thread t moves.
LEMMA ArmedStays ==
  ASSUME NEW s \in Slots, Armed(s), NEW t \in Threads,
         \A u \in Threads : u # t => stack'[u] = stack[u],
         \A f : In(f, stack[t]) /\ f.at \in {"reset", "arm"} /\ f.of = s => In(f, stack'[t]),
         In(Handler("slot", s), waits[s]) =>
           In(Handler("slot", s), waits'[s]) \/ In(Handler("slot", s), posted'),
         In(Handler("slot", s), posted) => In(Handler("slot", s), posted')
  PROVE  Armed(s)'
<1>1. CASE In(Handler("slot", s), waits[s]) \/ In(Handler("slot", s), posted)
  BY <1>1 DEF Armed
<1>2. ASSUME NEW u \in Threads, NEW f, In(f, stack[u]), f.at \in {"reset", "arm"}, f.of = s
      PROVE  Armed(s)'
  <2>1. In(f, stack'[u])
    BY <1>2
  <2> QED BY <1>2, <2>1 DEF Armed
<1> QED BY <1>1, <1>2 DEF Armed

\* Steps that leave the slots, their waits and the frames that set them alone.
LEMMA ArmedQuietly ==
  ASSUME SlotsArmed, UNCHANGED list, NEW t \in Threads, NEW at, NEW new, Moves(t, at, new),
         at \notin {"reset", "arm"},
         \A s \in Slots : waits'[s] = waits[s],
         \A h : In(h, posted) => In(h, posted')
  PROVE  SlotsArmed'
<1> SUFFICES ASSUME NEW s \in Slots, list[s] # <<>> PROVE Armed(s)'
  BY DEF SlotsArmed
<1>1. Armed(s)
  BY DEF SlotsArmed
<1> QED BY <1>1, ArmedStays DEF Moves

\* No step of anybody disarms a slot that has actions.
LEMMA ArmedStep == TypeOK /\ SlotsArmed /\ [Next]_vars => SlotsArmed'
<1> SUFFICES ASSUME TypeOK, SlotsArmed, [Next]_vars PROVE SlotsArmed'
  OBVIOUS
<1>0. \A s \in Slots, k \in Timers : s # k /\ s \in Slots \cup Timers
  BY ThreadsAssumption
<1>1. ASSUME NEW t \in Threads, NEW a \in Actions, NEW s \in Slots, Schedule(t, a, s)
      PROVE  SlotsArmed'
  <2> SUFFICES ASSUME NEW p \in Slots, list'[p] # <<>> PROVE Armed(p)'
    BY DEF SlotsArmed
  <2>1. UNCHANGED <<waits, posted>> /\ list' = [list EXCEPT ![s] = <<a>> \o @]
    BY <1>1 DEF Schedule, Emplace
  <2>2. CASE p = s /\ list[s] = <<>>
    <3>1. In(Frame("reset", s), stack'[t])
      BY <1>1, <2>2, ScheduleMoves
    <3> QED BY <2>2, <3>1, FrameFields DEF Armed
  <2>3. CASE ~(p = s /\ list[s] = <<>>)
    <3>1. Armed(p)
      BY <2>1, <2>3 DEF SlotsArmed, TypeOK
    <3>2. Moves(t, "", {Frame("reset", s), Frame("unlock", s)})
      BY <1>1, ScheduleMoves
    <3> QED BY <2>1, <3>1, <3>2, ArmedStays DEF Moves
  <2> QED BY <2>2, <2>3
<1>2. ASSUME NEW t \in Threads, NEW a \in Actions, Cancel(t, a) PROVE SlotsArmed'
  BY <1>2, Standing, Asking, ArmedQuietly DEF Cancel
<1>3. ASSUME NEW t \in Threads, NEW a \in Actions, Pause(t, a) PROVE SlotsArmed'
  BY <1>3, Standing, ArmedQuietly DEF Pause
<1>4. ASSUME NEW t \in Threads, ResetSlot(t) PROVE SlotsArmed'
  <2>1. PICK f \in Frames, p \in Slots :
          /\ f.at = "arm" /\ f.of = p /\ p = Head(stack[t]).of
          /\ Moves(t, "reset", {f}) /\ In(f, stack'[t])
          /\ \A g : In(g, stack[t]) => In(g, stack'[t]) \/ g.of = p
    BY <1>4, ResetSlotMoves
  <2>2. CancelWaits(p) /\ UNCHANGED list
    BY <1>4, <2>1 DEF ResetSlot
  <2>3. /\ \A h : In(h, posted) => In(h, posted')
        /\ \A q \in Slots : q # p => waits'[q] = waits[q]
    <3>1. p \in Slots \cup Timers
      OBVIOUS
    <3> QED BY <2>2, <3>1, Cancelling
  <2>4. ASSUME NEW s \in Slots, list[s] # <<>> PROVE Armed(s)'
    <3>1. CASE s = p
      BY <2>1, <3>1 DEF Armed
    <3>2. CASE s # p
      <4>1. Armed(s)
        BY <2>4 DEF SlotsArmed
      <4> QED BY <2>1, <2>3, <3>2, <4>1, ArmedStays DEF Moves
    <3> QED BY <3>1, <3>2
  <2> QED BY <2>2, <2>4 DEF SlotsArmed
<1>5. ASSUME NEW t \in Threads, ArmAction(t) PROVE SlotsArmed'
  <2>1. PICK f \in Frames, p \in Slots, a \in Actions :
          /\ f.at = "arm" /\ f.of = p
          /\ Moves(t, "arm", {f}) /\ In(f, stack'[t])
          /\ \A g : In(g, stack[t]) => In(g, stack'[t]) \/ g.of = p
          /\ waits' = waits \/ waits' = [waits EXCEPT ![p] = Append(@, Handler("action", a))]
    BY <1>5, ArmActionMoves
  <2>2. UNCHANGED <<list, posted>>
    BY <1>5 DEF ArmAction
  <2>3. \A q \in Slots : q # p => waits'[q] = waits[q]
    BY <2>1 DEF TypeOK
  <2>4. ASSUME NEW s \in Slots, list[s] # <<>> PROVE Armed(s)'
    <3>1. CASE s = p
      BY <2>1, <3>1 DEF Armed
    <3>2. CASE s # p
      <4>1. Armed(s)
        BY <2>4 DEF SlotsArmed
      <4> QED BY <2>1, <2>2, <2>3, <3>2, <4>1, ArmedStays DEF Moves
    <3> QED BY <3>1, <3>2
  <2> QED BY <2>2, <2>4 DEF SlotsArmed
<1>6. ASSUME NEW t \in Threads, ArmSlot(t) PROVE SlotsArmed'
  <2> DEFINE p == Head(stack[t]).of
  <2>1. /\ Head(stack[t]).at = "arm" /\ Head(stack[t]) \in Frames /\ stack[t] # <<>>
        /\ Pop(t) /\ UNCHANGED <<list, posted>>
        /\ waits' = [waits EXCEPT ![p] = Append(@, Handler("slot", p))]
    BY <1>6, Ending DEF ArmSlot, At
  <2>2. p \in Slots /\ p \notin Timers
    BY <1>0, <2>1 DEF Frames
  <2>3. /\ \A u \in Threads : u # t => stack'[u] = stack[u]
        /\ \A g : In(g, stack[t]) => In(g, stack'[t]) \/ g.of = p
    BY <2>1, Popping
  <2> HIDE DEF p
  <2>4. Handler("slot", p) \in WaitsOf(p)
    BY <2>2 DEF WaitsOf
  <2>5. /\ In(Handler("slot", p), waits'[p])
        /\ \A q \in Slots \cup Timers : q # p => waits'[q] = waits[q]
    BY <2>1, <2>2, <2>4, Waiting
  <2>6. ASSUME NEW s \in Slots, list[s] # <<>> PROVE Armed(s)'
    <3>1. CASE s = p
      BY <2>5, <3>1 DEF Armed
    <3>2. CASE s # p
      <4>1. Armed(s)
        BY <2>6 DEF SlotsArmed
      <4> QED BY <2>1, <2>3, <2>5, <3>2, <4>1, ArmedStays
    <3> QED BY <3>1, <3>2
  <2> QED BY <2>1, <2>6 DEF SlotsArmed
<1>7. ASSUME NEW t \in Threads, Unlock(t) PROVE SlotsArmed'
  <2>1. Moves(t, "unlock", {})
    BY <1>7, Ending DEF Unlock
  <2> QED BY <1>7, <2>1, ArmedQuietly DEF Unlock
<1>8. ASSUME NEW t \in Threads, RemoveAction(t) PROVE SlotsArmed'
  <2> DEFINE o == Head(stack[t]).of
  <2>1. Moves(t, "lock", {})
    BY <1>8, Ending DEF RemoveAction, RemoveThen
  <2>2. CASE life[o] = "destroyed"
    BY <1>8, <2>1, <2>2, ArmedQuietly DEF RemoveAction, RemoveThen
  <2>3. CASE life[o] # "destroyed"
    <3>0. PICK p \in Slots : \E i \in DOMAIN list[p] :
            /\ list' = [list EXCEPT ![p] = Without(@, i)]
            /\ IF Without(list[p], i) = <<>> THEN CancelWaits(p)
                                             ELSE UNCHANGED <<waits, posted>>
      BY <1>8, <2>3 DEF RemoveAction, RemoveThen
    <3>1. PICK i \in DOMAIN list[p] :
            /\ list' = [list EXCEPT ![p] = Without(@, i)]
            /\ IF Without(list[p], i) = <<>> THEN CancelWaits(p)
                                             ELSE UNCHANGED <<waits, posted>>
      BY <3>0
    <3> SUFFICES ASSUME NEW s \in Slots, list'[s] # <<>> PROVE Armed(s)'
      BY DEF SlotsArmed
    <3>2. list[s] # <<>>
      <4>1. DOMAIN <<>> = {}
        OBVIOUS
      <4> QED BY <3>1, <4>1 DEF TypeOK
    <3>3. Armed(s)
      BY <3>2 DEF SlotsArmed
    <3>4. CASE Without(list[p], i) = <<>>
      <4>1. s # p
        BY <3>1, <3>4 DEF TypeOK
      <4>2. waits'[s] = waits[s] /\ \A h : In(h, posted) => In(h, posted')
        <5>1. p \in Slots \cup Timers /\ s \in Slots \cup Timers
          OBVIOUS
        <5> QED BY <3>1, <3>4, <4>1, <5>1, Cancelling
      <4> QED BY <2>1, <3>3, <4>2, ArmedStays DEF Moves
    <3>5. CASE Without(list[p], i) # <<>>
      BY <2>1, <3>1, <3>3, <3>5, ArmedStays DEF Moves
    <3> QED BY <3>4, <3>5
  <2> QED BY <2>2, <2>3
<1>9. ASSUME NEW t \in Threads, RemoveTimer(t) PROVE SlotsArmed'
  <2> DEFINE k == Head(stack[t]).of
  <2>1. Moves(t, "lock", {})
    BY <1>9, Ending DEF RemoveTimer
  <2>2. k \in Timers /\ (CancelWaits(k) \/ UNCHANGED <<waits, posted>>) /\ UNCHANGED list
    BY <1>9 DEF RemoveTimer
  <2>3. (\A s \in Slots : waits'[s] = waits[s]) /\ \A h : In(h, posted) => In(h, posted')
    <3>1. CASE CancelWaits(k)
      BY <1>0, <2>2, <3>1, Cancelling
    <3> QED BY <2>2, <3>1
  <2> QED BY <2>1, <2>2, <2>3, ArmedQuietly
<1>10. ASSUME NEW t \in Threads, NEW k \in Timers, SetTimer(t, k) \/ Reset(t, k)
       PROVE  SlotsArmed'
  <2>1. PICK new : Moves(t, "", new) /\ CancelWaits(k) /\ UNCHANGED list
    BY <1>10, ExpiryMoves DEF SetTimer, Reset
  <2>2. (\A s \in Slots : waits'[s] = waits[s]) /\ \A h : In(h, posted) => In(h, posted')
    BY <1>0, <2>1, Cancelling
  <2> QED BY <2>1, <2>2, ArmedQuietly
<1>11. ASSUME NEW t \in Threads, NEW k \in Timers, CancelTimer(t, k) PROVE SlotsArmed'
  <2>1. PostRemoval(k) /\ UNCHANGED list /\ UNCHANGED stack
    BY <1>11 DEF CancelTimer
  <2>2. (\A s \in Slots : waits'[s] = waits[s]) /\ \A h : In(h, posted) => In(h, posted')
    BY <1>0, <2>1, Removing
  <2>3. Moves(t, "", {})
    BY <2>1, Standing
  <2> QED BY <2>1, <2>2, <2>3, ArmedQuietly
<1>12. ASSUME NEW t \in Threads, Rearm(t) PROVE SlotsArmed'
  <2>1. Moves(t, "rearm", {}) /\ UNCHANGED list
    BY <1>12, Ending DEF Rearm
  <2>2. (\A s \in Slots : waits'[s] = waits[s]) /\ \A h : In(h, posted) => In(h, posted')
    BY <1>0, <1>12, Rearming
  <2> QED BY <2>1, <2>2, ArmedQuietly
<1>13. ASSUME NEW t \in Threads, Insert(t) PROVE SlotsArmed'
  <2>1. \E new : Moves(t, "insert", new)
    BY <1>13, InsertMoves
  <2> QED BY <1>13, <2>1, ArmedQuietly DEF Insert
<1>19. ASSUME NEW t \in Threads, Result(t) PROVE SlotsArmed'
  <2>1. Moves(t, "result", {})
    BY <1>19, Ending DEF Result
  <2> QED BY <1>19, <2>1, ArmedQuietly DEF Result
<1>14. ASSUME NEW t \in Threads, Check(t) PROVE SlotsArmed'
  <2> DEFINE k == Head(stack[t]).of
  <2>1. Moves(t, "check", {}) /\ Head(stack[t]) \in Frames /\ Head(stack[t]).at = "check"
    BY <1>14, Ending DEF Check, At
  <2>2. /\ k \in Timers /\ UNCHANGED list
        /\ PostRemoval(k) \/ UNCHANGED <<waits, posted>>
    BY <1>14, <2>1 DEF Check, Frames
  <2>3. (\A s \in Slots : waits'[s] = waits[s]) /\ \A h : In(h, posted) => In(h, posted')
    <3>1. CASE PostRemoval(k)
      BY <1>0, <2>2, <3>1, Removing
    <3> QED BY <2>2, <3>1
  <2> QED BY <2>1, <2>2, <2>3, ArmedQuietly
<1>15. ASSUME NEW t \in Threads, Take(t) PROVE SlotsArmed'
  <2> DEFINE h == Head(posted)
  <2>1. /\ h \in Handlers
        /\ \A g : In(g, posted) <=> g = h \/ In(g, posted')
        /\ Moves(t, "", {f \in Frames : In(f, Calls(h))})
        /\ h.kind \notin {"action", "timer"} => stack'[t] = Calls(h)
    BY <1>15, TakeMoves
  <2>2. UNCHANGED <<list, waits>>
    BY <1>15 DEF Take
  <2> HIDE DEF h
  <2>3. ASSUME NEW s \in Slots, list[s] # <<>> PROVE Armed(s)'
    <3>1. CASE h = Handler("slot", s)
      <4>1. h.kind = "slot" /\ h.ok /\ h.of = s
        BY <3>1 DEF Handler
      <4>2. In(Frame("reset", s), stack'[t])
        BY <2>1, <4>1, CallsTyped
      <4> QED BY <4>2, FrameFields DEF Armed
    <3>2. CASE h # Handler("slot", s)
      <4>1. Armed(s)
        BY <2>3 DEF SlotsArmed
      <4>2. \A f : In(f, stack[t]) /\ f.at \in {"reset", "arm"} => In(f, stack'[t])
        BY <2>1 DEF Moves
      <4> QED BY <2>1, <2>2, <3>2, <4>1, <4>2, ArmedStays DEF Moves
    <3> QED BY <3>1, <3>2
  <2> QED BY <2>2, <2>3 DEF SlotsArmed
<1>16. ASSUME NEW t \in Threads, Return(t) PROVE SlotsArmed'
  <2>1. Moves(t, "call", {})
    BY <1>16, Ending DEF Return
  <2> QED BY <1>16, <2>1, ArmedQuietly DEF Return
<1>17. ASSUME NEW o \in Slots \cup Timers, Expire(o) PROVE SlotsArmed'
  <2>1. UNCHANGED <<list, stack>>
    BY <1>17 DEF Expire
  <2>2. /\ \A h : In(h, posted') <=> In(h, posted) \/ In(h, waits[o])
        /\ \A p \in Slots \cup Timers : p # o => waits'[p] = waits[p]
    BY <1>17, Expiring
  <2>3. ASSUME NEW s \in Slots, Armed(s) PROVE Armed(s)'
    BY <2>1, <2>2, <2>3 DEF Armed
  <2> QED BY <2>1, <2>3 DEF SlotsArmed
<1>18. CASE UNCHANGED vars
  BY <1>18 DEF vars, SlotsArmed, Armed
<1> QED
  BY <1>1, <1>2, <1>3, <1>4, <1>5, <1>6, <1>7, <1>8, <1>9, <1>10, <1>11, <1>12, <1>13,
     <1>14, <1>15, <1>16, <1>17, <1>18, <1>19
  DEF Next, Continue, Ask

-----------------------------------------------------------------------------
(* A timer stopped in time calls nobody. *)

\* A handler that will call a one-shot function is no removal, and ok.
LEMMA HandlersDiffer ==
  \A k : /\ \A o : Handler("timer", k) # Handler("remove", o)
         /\ Handler("timer", k).ok = TRUE
BY DEF Handler

\* Steps that bring nothing under way for a stopped timer.
LEMMA StoppedQuietly ==
  ASSUME StoppedQuiet, NEW t \in Threads, NEW at, NEW new, Moves(t, at, new),
         stopped' \subseteq stopped,
         \A k \in stopped' :
           /\ \A f \in new : ~(f.at = "rearm" /\ f.of = k)
           /\ waits[k] = <<>> => waits'[k] = <<>>
           /\ In(Handler("timer", k), posted') => In(Handler("timer", k), posted)
  PROVE  StoppedQuiet'
<1> SUFFICES ASSUME NEW k \in stopped'
             PROVE  /\ waits'[k] = <<>> /\ ~In(Handler("timer", k), posted')
                    /\ \A u \in Threads : \A f : In(f, stack'[u]) => ~(f.at = "rearm" /\ f.of = k)
  BY DEF StoppedQuiet
<1>1. /\ waits[k] = <<>> /\ ~In(Handler("timer", k), posted)
      /\ \A u \in Threads : \A f : In(f, stack[u]) => ~(f.at = "rearm" /\ f.of = k)
  BY DEF StoppedQuiet
<1>2. ASSUME NEW u \in Threads, NEW f, In(f, stack'[u]) PROVE ~(f.at = "rearm" /\ f.of = k)
  <2>1. CASE u = t
    BY <1>1, <1>2, <2>1 DEF Moves
  <2>2. CASE u # t
    BY <1>1, <1>2, <2>2 DEF Moves
  <2> QED BY <2>1, <2>2
<1> QED BY <1>1, <1>2

\* In particular steps that end a frame.
LEMMA StoppedEnding ==
  ASSUME StoppedQuiet, NEW t \in Threads, NEW at, Moves(t, at, {}), UNCHANGED stopped,
         \A k \in stopped :
           /\ waits[k] = <<>> => waits'[k] = <<>>
           /\ In(Handler("timer", k), posted') => In(Handler("timer", k), posted)
  PROVE  StoppedQuiet'
<1>1. \A f \in {} : \A k : ~(f.at = "rearm" /\ f.of = k)
  OBVIOUS
<1>2. stopped' \subseteq stopped
  OBVIOUS
<1> DEFINE new == {}
<1>3. Moves(t, at, new) /\ \A f \in new : \A k : ~(f.at = "rearm" /\ f.of = k)
  BY <1>1
<1> HIDE DEF new
<1> QED BY <1>2, <1>3, StoppedQuietly

\* No step brings anything under way for a timer that stays stopped.
LEMMA StoppedStep == TypeOK /\ StoppedQuiet /\ [Next]_vars => StoppedQuiet'
<1> SUFFICES ASSUME TypeOK, StoppedQuiet, [Next]_vars PROVE StoppedQuiet'
  OBVIOUS
<1>0. /\ \A s \in Slots, k \in Timers : s # k
      /\ \A k \in stopped : k \in Timers /\ k \in Slots \cup Timers
      /\ \A s \in Slots : s \in Slots \cup Timers
  BY ThreadsAssumption DEF TypeOK
<1>1. ASSUME NEW t \in Threads, NEW a \in Actions, NEW s \in Slots, Schedule(t, a, s)
      PROVE  StoppedQuiet'
  <2> DEFINE new == {Frame("reset", s), Frame("unlock", s)}
  <2>1. Moves(t, "", new) /\ UNCHANGED waits /\ UNCHANGED posted /\ UNCHANGED stopped
    BY <1>1, ScheduleMoves DEF Schedule, Emplace
  <2>2. \A f \in new : f.at # "rearm"
    BY FrameFields
  <2> HIDE DEF new
  <2> QED BY <2>1, <2>2, StoppedQuietly
<1>2. ASSUME NEW t \in Threads, NEW a \in Actions, Cancel(t, a) PROVE StoppedQuiet'
  <2>1. Moves(t, "", {}) /\ UNCHANGED waits /\ UNCHANGED stopped
    BY <1>2, Standing DEF Cancel
  <2>2. \A k : In(Handler("timer", k), posted') => In(Handler("timer", k), posted)
    BY <1>2, Asking, HandlersDiffer
  <2> QED BY <2>1, <2>2, StoppedEnding
<1>3. ASSUME NEW t \in Threads, NEW a \in Actions, Pause(t, a) PROVE StoppedQuiet'
  BY <1>3 DEF Pause, StoppedQuiet
<1>4. ASSUME NEW t \in Threads, ResetSlot(t) PROVE StoppedQuiet'
  <2>1. PICK f \in Frames, p \in Slots :
          f.at = "arm" /\ p = Head(stack[t]).of /\ Moves(t, "reset", {f})
    BY <1>4, ResetSlotMoves
  <2>2. CancelWaits(p) /\ UNCHANGED stopped
    BY <1>4, <2>1 DEF ResetSlot
  <2>3. /\ \A h : In(h, posted') => In(h, posted) \/ h.ok = FALSE
        /\ \A q \in Slots \cup Timers : q # p => waits'[q] = waits[q]
    BY <1>0, <2>2, Cancelling
  <2>4. \A k : In(Handler("timer", k), posted') => In(Handler("timer", k), posted)
    BY <2>3, HandlersDiffer
  <2>5. \A k \in stopped : waits'[k] = waits[k]
    BY <1>0, <2>3
  <2>6. \A g \in {f} : g.at # "rearm"
    BY <2>1
  <2>7. Moves(t, "reset", {f}) /\ UNCHANGED stopped
    BY <2>1, <2>2
  <2> QED BY <2>4, <2>5, <2>6, <2>7, StoppedQuietly
<1>5. ASSUME NEW t \in Threads, ArmAction(t) PROVE StoppedQuiet'
  <2>1. PICK f \in Frames, p \in Slots, a \in Actions :
          /\ f.at = "arm" /\ f.of = p
          /\ Moves(t, "arm", {f}) /\ In(f, stack'[t])
          /\ \A g : In(g, stack[t]) => In(g, stack'[t]) \/ g.of = p
          /\ waits' = waits \/ waits' = [waits EXCEPT ![p] = Append(@, Handler("action", a))]
    BY <1>5, ArmActionMoves
  <2>2. UNCHANGED posted /\ UNCHANGED stopped
    BY <1>5 DEF ArmAction
  <2>3. \A k \in stopped : waits'[k] = waits[k]
    BY <1>0, <2>1 DEF TypeOK
  <2>4. \A g \in {f} : g.at # "rearm"
    BY <2>1
  <2>5. Moves(t, "arm", {f})
    BY <2>1
  <2> QED BY <2>2, <2>3, <2>4, <2>5, StoppedQuietly
<1>6. ASSUME NEW t \in Threads, ArmSlot(t) PROVE StoppedQuiet'
  <2> DEFINE p == Head(stack[t]).of
  <2>1. /\ Moves(t, "arm", {}) /\ Head(stack[t]).at = "arm" /\ Head(stack[t]) \in Frames
        /\ UNCHANGED posted /\ UNCHANGED stopped
        /\ waits' = [waits EXCEPT ![p] = Append(@, Handler("slot", p))]
    BY <1>6, Ending DEF ArmSlot, At
  <2>2. p \in Slots
    BY <2>1 DEF Frames
  <2>3. \A k \in stopped : waits'[k] = waits[k]
    BY <1>0, <2>1, <2>2 DEF TypeOK
  <2> QED BY <2>1, <2>3, StoppedEnding
<1>7. ASSUME NEW t \in Threads, Unlock(t) \/ Result(t) \/ Return(t) PROVE StoppedQuiet'
  <2>1. PICK at : Moves(t, at, {})
    BY <1>7, Ending DEF Unlock, Result, Return
  <2>2. UNCHANGED waits /\ UNCHANGED posted /\ UNCHANGED stopped
    BY <1>7 DEF Unlock, Result, Return
  <2> QED BY <2>1, <2>2, StoppedQuietly
<1>16. ASSUME NEW t \in Threads, Insert(t) PROVE StoppedQuiet'
  <2>1. PICK f \in Frames : f.at = "result" /\ Moves(t, "insert", {f})
    BY <1>16, InsertMoves
  <2>2. UNCHANGED waits /\ UNCHANGED posted /\ UNCHANGED stopped
    BY <1>16 DEF Insert
  <2>3. \A g \in {f} : g.at # "rearm"
    BY <2>1
  <2> QED BY <2>1, <2>2, <2>3, StoppedQuietly
<1>8. ASSUME NEW t \in Threads, RemoveAction(t) \/ RemoveTimer(t) PROVE StoppedQuiet'
  <2>1. Moves(t, "lock", {})
    BY <1>8, Ending DEF RemoveAction, RemoveThen, RemoveTimer
  <2>2. /\ UNCHANGED <<waits, posted>> \/ \E o \in Slots \cup Timers : CancelWaits(o)
        /\ UNCHANGED stopped
    BY <1>8 DEF RemoveAction, RemoveThen, RemoveTimer
  <2>3. ASSUME NEW k \in stopped
        PROVE  /\ waits[k] = <<>> => waits'[k] = <<>>
               /\ In(Handler("timer", k), posted') => In(Handler("timer", k), posted)
    <3>1. ASSUME NEW o \in Slots \cup Timers, CancelWaits(o)
          PROVE  /\ waits[k] = <<>> => waits'[k] = <<>>
                 /\ In(Handler("timer", k), posted') => In(Handler("timer", k), posted)
      BY <1>0, <3>1, Cancelling, HandlersDiffer
    <3> QED BY <2>2, <3>1
  <2> QED BY <2>1, <2>2, <2>3, StoppedQuietly
<1>9. ASSUME NEW t \in Threads, NEW k \in Timers, SetTimer(t, k) \/ Reset(t, k)
      PROVE  StoppedQuiet'
  <2> DEFINE new == {Frame("rearm", k), Frame("insert", k)}
  <2>1. Moves(t, "", new) /\ CancelWaits(k) /\ stopped' = stopped \ {k}
    BY <1>9, ExpiryMoves
  <2>2. \A f \in new : f.of = k
    BY FrameFields
  <2>3. /\ \A h : In(h, posted') => In(h, posted) \/ h.ok = FALSE
        /\ \A q \in Slots \cup Timers : q # k => waits'[q] = waits[q]
    BY <2>1, Cancelling
  <2>4. \A j : In(Handler("timer", j), posted') => In(Handler("timer", j), posted)
    BY <2>3, HandlersDiffer
  <2> HIDE DEF new
  <2> QED BY <1>0, <2>1, <2>2, <2>3, <2>4, StoppedQuietly
<1>10. ASSUME NEW t \in Threads, NEW k \in Timers, CancelTimer(t, k) PROVE StoppedQuiet'
  <2>1. /\ PostRemoval(k) /\ stack' = stack
        /\ stopped' = IF due[k] \/ Underway(k) THEN stopped ELSE stopped \cup {k}
    BY <1>10 DEF CancelTimer
  <2>2. /\ \A j : In(Handler("timer", j), posted') => In(Handler("timer", j), posted)
        /\ waits'[k] = <<>> /\ \A p \in Slots \cup Timers : p # k => waits'[p] = waits[p]
    BY <2>1, Removing, HandlersDiffer
  <2>3. ASSUME ~Underway(k)
        PROVE  /\ ~In(Handler("timer", k), posted)
               /\ \A u \in Threads : \A f : In(f, stack[u]) => ~(f.at = "rearm" /\ f.of = k)
    <3>1. ~In(Handler("timer", k), posted)
      BY <2>3 DEF Underway, In
    <3>2. ASSUME NEW u \in Threads, NEW f, In(f, stack[u]), f.at = "rearm", f.of = k
          PROVE  FALSE
      <4>1. f \in Frames
        BY <3>2, InMember DEF TypeOK
      <4>2. f = Frame("rearm", k)
        BY <3>2, <4>1 DEF Frames, Frame
      <4> QED BY <2>3, <3>2, <4>2 DEF Underway, In
    <3> QED BY <3>1, <3>2
  <2>4. ASSUME NEW j \in stopped'
        PROVE  /\ waits'[j] = <<>> /\ ~In(Handler("timer", j), posted')
               /\ \A u \in Threads : \A f : In(f, stack'[u]) => ~(f.at = "rearm" /\ f.of = j)
    <3>1. CASE j \in stopped
      BY <1>0, <2>1, <2>2, <3>1 DEF StoppedQuiet
    <3>2. CASE j \notin stopped
      <4>1. j = k /\ ~Underway(k)
        BY <2>1, <3>2
      <4> QED BY <2>1, <2>2, <2>3, <4>1
    <3> QED BY <3>1, <3>2
  <2> QED BY <2>4 DEF StoppedQuiet
<1>11. ASSUME NEW t \in Threads, Rearm(t) PROVE StoppedQuiet'
  <2>1. PICK k \in Timers :
          /\ Head(stack[t]).of = k /\ Head(stack[t]).at = "rearm"
          /\ \A h : In(h, posted') => In(h, posted) \/ h.ok = FALSE
          /\ \A p \in Slots \cup Timers : p # k => waits'[p] = waits[p]
    BY <1>11, Rearming
  <2>2. Moves(t, "rearm", {}) /\ In(Head(stack[t]), stack[t]) /\ UNCHANGED stopped
    BY <1>11, Ending DEF Rearm
  <2>3. k \notin stopped
    BY <2>1, <2>2 DEF StoppedQuiet
  <2>4. \A j : In(Handler("timer", j), posted') => In(Handler("timer", j), posted)
    BY <2>1, HandlersDiffer
  <2>5. \A j \in stopped : waits'[j] = waits[j]
    BY <1>0, <2>1, <2>3
  <2> QED BY <2>2, <2>4, <2>5, StoppedQuietly
<1>12. ASSUME NEW t \in Threads, Check(t) PROVE StoppedQuiet'
  <2> DEFINE k == Head(stack[t]).of
  <2>1. Moves(t, "check", {}) /\ Head(stack[t]) \in Frames /\ Head(stack[t]).at = "check"
    BY <1>12, Ending DEF Check, At
  <2>2. /\ k \in Timers /\ UNCHANGED stopped
        /\ PostRemoval(k) \/ UNCHANGED <<waits, posted>>
    BY <1>12, <2>1 DEF Check, Frames
  <2>3. ASSUME NEW j \in stopped
        PROVE  /\ waits[j] = <<>> => waits'[j] = <<>>
               /\ In(Handler("timer", j), posted') => In(Handler("timer", j), posted)
    <3>1. CASE PostRemoval(k)
      BY <1>0, <2>2, <3>1, Removing, HandlersDiffer
    <3> QED BY <2>2, <3>1
  <2> QED BY <2>1, <2>2, <2>3, StoppedQuietly
<1>13. ASSUME NEW t \in Threads, Take(t) PROVE StoppedQuiet'
  <2> DEFINE h == Head(posted)
             new == {f \in Frames : In(f, Calls(h))}
  <2>1. /\ h \in Handlers
        /\ \A g : In(g, posted) <=> g = h \/ In(g, posted')
        /\ Moves(t, "", new)
    BY <1>13, TakeMoves
  <2>2. UNCHANGED waits /\ UNCHANGED stopped
    BY <1>13 DEF Take
  <2>3. \A f \in new : f.at # "rearm"
    <3>1. ASSUME NEW f \in new
          PROVE  \E at \in {"call", "reset", "check", "lock"} : f = Frame(at, h.of)
      BY <2>1, CallsTyped
    <3> QED BY <3>1, FrameFields
  <2> HIDE DEF h, new
  <2> QED BY <2>1, <2>2, <2>3, StoppedQuietly
<1>14. ASSUME NEW o \in Slots \cup Timers, Expire(o) PROVE StoppedQuiet'
  <2>1. UNCHANGED stack /\ UNCHANGED stopped
    BY <1>14 DEF Expire
  <2>2. /\ \A h : In(h, posted') <=> In(h, posted) \/ In(h, waits[o])
        /\ waits'[o] = <<>> /\ \A p \in Slots \cup Timers : p # o => waits'[p] = waits[p]
    BY <1>14, Expiring
  <2>3. ASSUME NEW k \in stopped, In(Handler("timer", k), waits[o]) PROVE FALSE
    <3>1. Handler("timer", k) \in WaitsOf(o)
      BY <2>3, InMember DEF TypeOK
    <3>2. k = o
      BY <3>1 DEF WaitsOf, Handler
    <3>3. waits[o] = <<>>
      BY <3>2 DEF StoppedQuiet
    <3> QED BY <2>3, <3>3, InShort
  <2> QED BY <1>0, <2>1, <2>2, <2>3 DEF StoppedQuiet
<1>15. CASE UNCHANGED vars
  BY <1>15 DEF vars, StoppedQuiet
<1> QED
  BY <1>1, <1>2, <1>3, <1>4, <1>5, <1>6, <1>7, <1>8, <1>9, <1>10, <1>11, <1>12, <1>13,
     <1>14, <1>15, <1>16
  DEF Next, Continue, Ask

-----------------------------------------------------------------------------
(* Only a worker that takes a handler begins a call or a removal. *)

Begun == {"reset", "unlock", "arm", "rearm", "insert", "result"}

\* Without a handler taken, no frame of a call or of a removal comes.
LEMMA Movement ==
  ASSUME TypeOK, NEW t \in Threads, Continue(t) \/ Ask(t), ~Take(t)
  PROVE  \E at, new : Moves(t, at, new) /\ \A f \in new : f.at \in Begun
<1>1. ASSUME NEW at, Moves(t, at, {})
      PROVE  \E x, new : Moves(t, x, new) /\ \A f \in new : f.at \in Begun
  <2>1. \A f \in {} : f.at \in Begun
    OBVIOUS
  <2> QED BY <1>1, <2>1
<1>2. ASSUME NEW a \in Actions, NEW s \in Slots, Schedule(t, a, s)
      PROVE  \E at, new : Moves(t, at, new) /\ \A f \in new : f.at \in Begun
  <2> DEFINE new == {Frame("reset", s), Frame("unlock", s)}
  <2>1. Moves(t, "", new)
    BY <1>2, ScheduleMoves
  <2>2. \A f \in new : f.at \in Begun
    BY FrameFields DEF Begun
  <2> HIDE DEF new
  <2> QED BY <2>1, <2>2
<1>3. ASSUME NEW k \in Timers, SetTimer(t, k) \/ Reset(t, k)
      PROVE  \E at, new : Moves(t, at, new) /\ \A f \in new : f.at \in Begun
  <2> DEFINE new == {Frame("rearm", k), Frame("insert", k)}
  <2>1. Moves(t, "", new)
    BY <1>3, ExpiryMoves
  <2>2. \A f \in new : f.at \in Begun
    BY FrameFields DEF Begun
  <2> HIDE DEF new
  <2> QED BY <2>1, <2>2
<1>4. ASSUME ResetSlot(t) \/ ArmAction(t) \/ Insert(t)
      PROVE  \E at, new : Moves(t, at, new) /\ \A f \in new : f.at \in Begun
  <2>1. PICK f, at : f.at \in {"arm", "result"} /\ Moves(t, at, {f})
    <3>1. CASE ResetSlot(t)
      <4>1. PICK f : f.at = "arm" /\ Moves(t, "reset", {f})
        BY <3>1, ResetSlotMoves
      <4> QED BY <4>1
    <3>2. CASE ArmAction(t)
      <4>1. PICK f : f.at = "arm" /\ Moves(t, "arm", {f})
        BY <3>2, ArmActionMoves
      <4> QED BY <4>1
    <3>3. CASE Insert(t)
      <4>1. PICK f : f.at = "result" /\ Moves(t, "insert", {f})
        BY <3>3, InsertMoves
      <4> QED BY <4>1
    <3> QED BY <1>4, <3>1, <3>2, <3>3
  <2>2. \A g \in {f} : g.at \in Begun
    BY <2>1 DEF Begun
  <2>3. Moves(t, at, {f})
    BY <2>1
  <2> QED BY <2>2, <2>3
<1>5. CASE \/ \E a \in Actions : Cancel(t, a) \/ Pause(t, a)
           \/ \E k \in Timers : CancelTimer(t, k)
  <2>1. stack' = stack
    BY <1>5 DEF Cancel, Pause, CancelTimer
  <2>2. Moves(t, "", {})
    BY <2>1, Standing
  <2> QED BY <1>1, <2>2
<1>6. CASE \/ ArmSlot(t) \/ Unlock(t) \/ RemoveAction(t) \/ RemoveTimer(t) \/ Rearm(t)
           \/ Result(t) \/ Check(t) \/ Return(t)
  <2>1. PICK at : At(t, at) /\ Pop(t)
    BY <1>6 DEF ArmSlot, Unlock, RemoveAction, RemoveThen, RemoveTimer, Rearm, Result,
                Check, Return
  <2>2. Moves(t, at, {})
    BY <2>1, Ending
  <2> QED BY <1>1, <2>2
<1> QED BY <1>2, <1>3, <1>4, <1>5, <1>6 DEF Continue, Ask

\* An action that cancels a timer in time will not see it call its function.
LEMMA CallStep ==
  ASSUME TypeOK, StoppedQuiet, Next, NEW t \in Threads, NEW k \in Timers,
         stack[t] = <<>>, stack'[t] # <<>>, Head(stack'[t]) = Frame("call", k)
  PROVE  k \notin stopped
<1>0. TypeOK'
  BY TypeStep
<1>1. In(Frame("call", k), stack'[t]) /\ ~In(Frame("call", k), stack[t])
  <2>1. stack'[t] \in Seq(Frames)
    BY <1>0 DEF TypeOK
  <2> QED BY <2>1, InTail, InShort
<1>2. ASSUME NEW u \in Threads, Continue(u) \/ Ask(u), ~Take(u) PROVE FALSE
  <2>1. PICK at, new : Moves(u, at, new) /\ \A f \in new : f.at \in Begun
    BY <1>2, Movement
  <2>2. Frame("call", k).at \notin Begun
    BY FrameFields DEF Begun
  <2> QED BY <1>1, <2>1, <2>2 DEF Moves
<1>3. ASSUME NEW u \in Threads, Take(u) PROVE k \notin stopped
  <2> DEFINE h == Head(posted)
             new == {f \in Frames : In(f, Calls(h))}
  <2>1. /\ h \in Handlers
        /\ \A g : In(g, posted) <=> g = h \/ In(g, posted')
        /\ Moves(u, "", new)
    BY <1>3, TakeMoves
  <2>2. In(Frame("call", k), Calls(h))
    BY <1>1, <2>1 DEF Moves
  <2> HIDE DEF h
  <2>3. \/ h.kind = "action" /\ Frame("call", k) = Frame("call", h.of)
        \/ h.kind = "slot" /\ Frame("call", k) = Frame("reset", h.of)
        \/ h.kind = "timer" /\ h.ok /\ Frame("call", k) = Frame("call", h.of)
        \/ h.kind = "timer" /\ Frame("call", k) = Frame("check", h.of)
        \/ h.kind = "remove" /\ Frame("call", k) = Frame("lock", h.of)
    BY <2>1, <2>2, CallsTyped
  <2>4. h.of = k /\ (h.kind = "action" \/ (h.kind = "timer" /\ h.ok))
    BY <2>3 DEF Frame
  <2>5. h.kind = "action" => h.of \in Actions
    BY <2>1 DEF Handlers
  <2>6. h.kind = "timer" /\ h.ok
    BY <2>4, <2>5, ThreadsAssumption
  <2>7. h = Handler("timer", k)
    BY <2>1, <2>4, <2>6 DEF Handlers, Handler
  <2> QED BY <2>1, <2>7 DEF StoppedQuiet
<1>4. ASSUME NEW o, Expire(o) PROVE FALSE
  BY <1>1, <1>4 DEF Expire
<1> QED BY <1>2, <1>3, <1>4 DEF Next

-----------------------------------------------------------------------------
(* Removals. *)

\* A thread about to remove something is doing nothing else.
LEMMA NoOtherLocks ==
  ASSUME TypeOK, LocksAlone, NEW t \in Threads,
         stack[t] = <<>> \/ Head(stack[t]).at # "lock"
  PROVE  \A f : In(f, stack[t]) => f.at # "lock"
<1> SUFFICES ASSUME NEW f, In(f, stack[t]), f.at = "lock" PROVE FALSE
  OBVIOUS
<1>1. Tail(stack[t]) = <<>> /\ stack[t] \in Seq(Frames)
  BY DEF LocksAlone, TypeOK
<1>2. stack[t] # <<>>
  BY InShort
<1>3. f = Head(stack[t]) \/ In(f, Tail(stack[t]))
  BY <1>1, <1>2, InTail
<1>4. ~In(f, Tail(stack[t]))
  <2>1. \A x : ~In(x, <<>>)
    BY InShort
  <2> QED BY <1>1, <2>1, Zenon
<1> QED BY <1>2, <1>3, <1>4

\* Whoever does not remove is not about to.
LEMMA NotAtLock ==
  ASSUME NEW t \in Threads, Continue(t) \/ Ask(t), ~RemoveAction(t), ~RemoveTimer(t)
  PROVE  stack[t] = <<>> \/ Head(stack[t]).at # "lock"
<1>1. ASSUME NEW at, At(t, at), at # "lock" PROVE Head(stack[t]).at # "lock"
  BY <1>1 DEF At
<1>2. CASE Take(t)
  BY <1>2 DEF Take
<1>3. CASE \/ ResetSlot(t) \/ ArmAction(t) \/ ArmSlot(t) \/ Unlock(t)
           \/ Rearm(t) \/ Insert(t) \/ Result(t) \/ Check(t) \/ Return(t)
  <2>1. \E at \in {"reset", "arm", "unlock", "rearm", "insert", "result", "check", "call"} :
          At(t, at)
    BY <1>3 DEF ResetSlot, ArmAction, ArmSlot, Unlock, Rearm, Insert, Result, Check, Return
  <2> QED BY <1>1, <2>1
<1>4. CASE Ask(t)
  <2>1. MayCall(t)
    BY <1>4 DEF Ask, Schedule, Emplace, Cancel, Pause, SetTimer, Reset, CancelTimer
  <2> QED BY <1>1, <2>1 DEF MayCall
<1> QED BY <1>2, <1>3, <1>4 DEF Continue

\* Only RemoveAction destroys a periodic action, and only Schedule makes one.
LEMMA LivesStay ==
  ASSUME TypeOK,
         \/ \E t \in Threads : (Continue(t) \/ Ask(t)) /\ ~RemoveAction(t)
         \/ \E o \in Slots \cup Timers : Expire(o)
  PROVE  /\ \A a \in Actions : life[a] = "live" => life'[a] = "live"
         /\ fault # "null" => fault' # "null"
<1>0. \A a \in Actions, k \in Timers : a # k
  BY ThreadsAssumption
<1>1. ASSUME NEW t \in Threads, Continue(t), ~RemoveAction(t)
      PROVE  /\ \A a \in Actions : life[a] = "live" => life'[a] = "live"
             /\ fault # "null" => fault' # "null"
  <2>1. CASE \/ ResetSlot(t) \/ ArmAction(t) \/ ArmSlot(t) \/ Unlock(t) \/ Rearm(t)
             \/ Insert(t) \/ Result(t) \/ Check(t) \/ Take(t) \/ Return(t)
    <3>1. UNCHANGED life
      BY <2>1 DEF ResetSlot, ArmAction, ArmSlot, Unlock, Rearm, Insert, Result, Check, Take,
                  Return
    <3>2. fault' \in {fault, NoFault, "list", "timer", "handler", "callback",
                       "iterator"}
      BY <2>1 DEF ResetSlot, ArmAction, ArmSlot, Unlock, Rearm, Insert, Result, Check, Take,
                  Return, Dangling
    <3> QED BY <3>1, <3>2 DEF NoFault
  <2>2. CASE RemoveTimer(t)
    <3>1. PICK k \in Timers : life' = life \/ life' = [life EXCEPT ![k] = "destroyed"]
      BY <2>2 DEF RemoveTimer
    <3>2. \A a \in Actions : life'[a] = life[a]
      BY <1>0, <3>1 DEF TypeOK, Objects
    <3>3. fault' = fault
      BY <2>2 DEF RemoveTimer
    <3> QED BY <3>2, <3>3
  <2> QED BY <1>1, <2>1, <2>2 DEF Continue
<1>2. ASSUME NEW t \in Threads, Ask(t)
      PROVE  /\ \A a \in Actions : life[a] = "live" => life'[a] = "live"
             /\ fault # "null" => fault' # "null"
  <2>1. ASSUME NEW a \in Actions, NEW s \in Slots, Schedule(t, a, s)
        PROVE  (\A b \in Actions : life[b] = "live" => life'[b] = "live") /\ fault' = fault
    BY <2>1 DEF Schedule, Emplace, TypeOK, Objects
  <2>2. ASSUME NEW a \in Actions, Cancel(t, a) \/ Pause(t, a)
        PROVE  life' = life /\ fault' = fault
    BY <2>2 DEF Cancel, Pause
  <2>3. ASSUME NEW k \in Timers, SetTimer(t, k) \/ Reset(t, k) \/ CancelTimer(t, k)
        PROVE  (\A b \in Actions : life[b] = "live" => life'[b] = "live") /\ fault' = fault
    BY <1>0, <2>3 DEF SetTimer, Reset, CancelTimer, TypeOK, Objects
  <2> QED BY <1>2, <2>1, <2>2, <2>3 DEF Ask
<1>3. ASSUME NEW o \in Slots \cup Timers, Expire(o)
      PROVE  life' = life /\ fault' = fault
  BY <1>3 DEF Expire
<1> QED BY <1>1, <1>2, <1>3

\* A thread that removes something is done with it, and has nothing else to do.
LEMMA RemovalMoves ==
  ASSUME TypeOK, LocksAlone, NEW t \in Threads, RemoveAction(t) \/ RemoveTimer(t)
  PROVE  /\ In(Head(stack[t]), stack[t]) /\ Head(stack[t]).at = "lock"
         /\ \A g : ~In(g, stack'[t])
         /\ \A u \in Threads : u # t => stack'[u] = stack[u]
<1> DEFINE f == Head(stack[t])
<1>1. /\ In(f, stack[t]) /\ f.at = "lock" /\ stack'[t] = Tail(stack[t])
      /\ \A u \in Threads : u # t => stack'[u] = stack[u]
  BY Ending DEF RemoveAction, RemoveThen, RemoveTimer, At, Moves
<1>2. stack'[t] = <<>>
  BY <1>1 DEF LocksAlone
<1>3. \A g : ~In(g, stack'[t])
  BY <1>2, InShort
<1> QED BY <1>1, <1>3

\* Removals stay alone on their workers.
LEMMA LocksStep == TypeOK /\ LocksAlone /\ [Next]_vars => LocksAlone'
<1> SUFFICES ASSUME TypeOK, LocksAlone, [Next]_vars PROVE LocksAlone'
  OBVIOUS
<1>1. ASSUME NEW t \in Threads,
             \A u \in Threads : u # t => stack'[u] = stack[u],
             \A f : In(f, stack'[t]) => f.at # "lock"
      PROVE  LocksAlone'
  BY <1>1 DEF LocksAlone
<1>2. ASSUME NEW t \in Threads, Continue(t) \/ Ask(t), ~RemoveAction(t), ~RemoveTimer(t), ~Take(t)
      PROVE  LocksAlone'
  <2>1. PICK at, new : Moves(t, at, new) /\ \A f \in new : f.at \in Begun
    BY <1>2, Movement
  <2>2. \A f : In(f, stack[t]) => f.at # "lock"
    BY <1>2, NotAtLock, NoOtherLocks
  <2>3. \A f : In(f, stack'[t]) => f.at # "lock"
    BY <2>1, <2>2 DEF Moves, Begun
  <2> QED BY <1>1, <2>1, <2>3 DEF Moves
<1>3. ASSUME NEW t \in Threads, Take(t) PROVE LocksAlone'
  <2> DEFINE h == Head(posted)
  <2>1. /\ h \in Handlers /\ t \in Workers
        /\ stack'[t] = <<>> \/ stack'[t] = Calls(h)
        /\ \A u \in Threads : u # t => stack'[u] = stack[u]
    BY <1>3, TakeMoves DEF Moves
  <2> HIDE DEF h
  <2>2. ASSUME NEW f, In(f, stack'[t]), f.at = "lock" PROVE Tail(stack'[t]) = <<>>
    <3>1. In(f, Calls(h)) /\ stack'[t] = Calls(h)
      BY <2>1, <2>2, InShort
    <3>2. h.kind = "remove"
      BY <2>1, <2>2, <3>1, CallsTyped, FrameFields
    <3>3. Calls(h) = <<Frame("lock", h.of)>>
      BY <2>1, <3>1, <3>2, CallsTyped, InShort
    <3>4. Tail(<<Frame("lock", h.of)>>) = <<>>
      OBVIOUS
    <3> QED BY <3>1, <3>3, <3>4
  <2> QED BY <2>1, <2>2 DEF LocksAlone
<1>4. ASSUME NEW t \in Threads, RemoveAction(t) \/ RemoveTimer(t) PROVE LocksAlone'
  <2>1. /\ \A u \in Threads : u # t => stack'[u] = stack[u]
        /\ \A g : ~In(g, stack'[t])
    BY <1>4, RemovalMoves
  <2> QED BY <1>1, <2>1
<1>5. ASSUME NEW o \in Slots \cup Timers, Expire(o) PROVE LocksAlone'
  BY <1>5 DEF Expire, LocksAlone
<1>6. CASE UNCHANGED vars
  BY <1>6 DEF vars, LocksAlone
<1> QED BY <1>2, <1>3, <1>4, <1>5, <1>6 DEF Next

\* What joins the queue of the io_service is not the removal of an action.
Queued(hs) ==
  /\ hs \in Seq(Handlers) /\ posted' = posted \o hs
  /\ \A a \in Actions : ~In(Handler("remove", a), hs)
  /\ \A h : In(h, hs) /\ h.kind = "remove" => h.ok

\* A removal is ok, and of an action no timer's.
LEMMA RemovalsDiffer ==
  \A a \in Actions :
    /\ Handler("remove", a).ok = TRUE /\ Handler("remove", a).kind = "remove"
    /\ \A k \in Timers : Handler("remove", a) # Handler("remove", k)
BY ThreadsAssumption DEF Handler

\* An aborted wait is for what the wait was for.
LEMMA AbortedWaits ==
  ASSUME NEW o, NEW ws \in Seq(WaitsOf(o))
  PROVE  \A h : In(h, Aborted(ws)) => h.kind # "remove"
<1> SUFFICES ASSUME NEW h, In(h, Aborted(ws)) PROVE h.kind # "remove"
  OBVIOUS
<1>1. PICK i \in DOMAIN ws : h = [ws[i] EXCEPT !.ok = FALSE]
  BY DEF In, Aborted
<1>2. ws[i] \in WaitsOf(o)
  BY <1>1
<1> QED BY <1>1, <1>2 DEF WaitsOf, Handler

\* Aborted waits are no removals ...
LEMMA QueuedAborted ==
  ASSUME TypeOK, NEW o, NEW ws \in Seq(Handlers), ws \in Seq(WaitsOf(o)),
         posted' = posted \o Aborted(ws)
  PROVE  \E hs : Queued(hs)
<1>1. /\ Aborted(ws) \in Seq(Handlers)
      /\ \A h : In(h, Aborted(ws)) => h.ok = FALSE /\ h.kind # "remove"
  BY Aborting, AbortedWaits
<1>2. \A a \in Actions : ~In(Handler("remove", a), Aborted(ws))
  BY <1>1, RemovalsDiffer
<1> QED BY <1>1, <1>2 DEF Queued

\* ... nor is what ScheduledAction::cancel adds to the queue ...
LEMMA QueuedRemoval ==
  ASSUME TypeOK, NEW k \in Timers, PostRemoval(k)
  PROVE  \E hs : Queued(hs)
<1>1. waits[k] \in Seq(Handlers) /\ Handler("remove", k) \in Handlers /\ posted \in Seq(Handlers)
  BY NewHandlers DEF TypeOK, Objects
<1>2. /\ Aborted(waits[k]) \in Seq(Handlers)
      /\ \A h : In(h, Aborted(waits[k])) => h.ok = FALSE /\ h.kind # "remove"
  <2>1. waits[k] \in Seq(WaitsOf(k))
    BY DEF TypeOK
  <2> QED BY <1>1, <2>1, Aborting, AbortedWaits
<1>3. <<Handler("remove", k)>> \in Seq(Handlers)
  BY <1>1
<1> DEFINE ws == Aborted(waits[k])
           r == <<Handler("remove", k)>>
<1>4. posted' = (posted \o ws) \o r
  BY DEF PostRemoval
<1>5. \A h : In(h, r) <=> h = Handler("remove", k)
  BY InShort
<1>6. ws \in Seq(Handlers) /\ r \in Seq(Handlers)
      /\ \A h : In(h, ws) => h.ok = FALSE /\ h.kind # "remove"
  BY <1>2, <1>3
<1> HIDE DEF ws, r
<1>7. posted' = posted \o (ws \o r) /\ ws \o r \in Seq(Handlers)
  BY <1>1, <1>4, <1>6, ConcatAssociative, ConcatProperties
<1>8. \A h : In(h, ws \o r) <=> In(h, ws) \/ In(h, r)
  BY <1>6, InConcat
<1>9. \A a \in Actions : ~In(Handler("remove", a), ws \o r)
  BY <1>5, <1>6, <1>8, RemovalsDiffer
<1>10. Handler("remove", k).ok
  BY DEF Handler
<1>11. \A h : In(h, ws \o r) /\ h.kind = "remove" => h.ok
  BY <1>5, <1>6, <1>8, <1>10
<1> QED BY <1>7, <1>9, <1>11 DEF Queued

\* ... nor what waits on a timer.
LEMMA QueuedWaits ==
  ASSUME TypeOK, NEW o \in Slots \cup Timers, Expire(o)
  PROVE  \E hs : Queued(hs)
<1>1. waits[o] \in Seq(Handlers) /\ waits[o] \in Seq(WaitsOf(o)) /\ posted' = posted \o waits[o]
  BY DEF Expire, TypeOK
<1>2. \A h \in WaitsOf(o) : h.kind # "remove"
  BY DEF WaitsOf, Handler
<1>3. \A h : In(h, waits[o]) => h \in WaitsOf(o)
  BY <1>1, InMember
<1> QED BY <1>1, <1>2, <1>3, RemovalsDiffer DEF Queued

\* Nothing at all may join it.
LEMMA QueuedNothing ==
  ASSUME TypeOK, UNCHANGED posted
  PROVE  \E hs : Queued(hs)
<1>1. posted \in Seq(Handlers) /\ <<>> \in Seq(Handlers)
  BY DEF TypeOK
<1>2. posted' = posted \o <<>>
  BY <1>1, ConcatEmptySeq
<1>3. \A h : ~In(h, <<>>)
  BY InShort
<1> QED BY <1>1, <1>2, <1>3 DEF Queued

\* Only Cancel puts the removal of an action into the queue, only Take takes one.
LEMMA QueueStep ==
  ASSUME TypeOK,
         \/ \E t \in Threads : /\ Continue(t) \/ Ask(t)
                               /\ ~Take(t) /\ \A a \in Actions : ~Cancel(t, a)
         \/ \E o \in Slots \cup Timers : Expire(o)
  PROVE  cancels' = cancels /\ \E hs : Queued(hs)
<1>1. ASSUME NEW o \in Slots \cup Timers, CancelWaits(o) PROVE \E hs : Queued(hs)
  <2>1. /\ waits[o] \in Seq(Handlers) /\ waits[o] \in Seq(WaitsOf(o))
        /\ posted' = posted \o Aborted(waits[o])
    BY <1>1 DEF CancelWaits, TypeOK
  <2> QED BY <2>1, QueuedAborted
<1>2. ASSUME NEW t \in Threads, Continue(t), ~Take(t)
      PROVE  cancels' = cancels /\ \E hs : Queued(hs)
  <2>1. CASE ArmAction(t) \/ ArmSlot(t) \/ Unlock(t) \/ Insert(t) \/ Result(t) \/ Return(t)
    <3>1. UNCHANGED posted /\ cancels' = cancels
      BY <2>1 DEF ArmAction, ArmSlot, Unlock, Insert, Result, Return
    <3> QED BY <3>1, QueuedNothing
  <2>2. CASE ResetSlot(t)
    <3>1. CancelWaits(Head(stack[t]).of) /\ cancels' = cancels
      BY <2>2 DEF ResetSlot
    <3>2. Head(stack[t]).of \in Slots
      BY <2>2, ResetSlotMoves
    <3> QED BY <1>1, <3>1, <3>2
  <2>3. CASE RemoveAction(t) \/ RemoveTimer(t)
    <3>1. /\ UNCHANGED posted \/ \E o \in Slots \cup Timers : CancelWaits(o)
          /\ cancels' = cancels
      BY <2>3 DEF RemoveAction, RemoveThen, RemoveTimer
    <3> QED BY <1>1, <3>1, QueuedNothing
  <2>4. CASE Rearm(t)
    <3> DEFINE k == Head(stack[t]).of
    <3>1. /\ UNCHANGED posted \/ posted' = posted \o Aborted(<<Handler("timer", k)>>)
          /\ cancels' = cancels
      BY <2>4 DEF Rearm
    <3>2. k \in Timers
      BY <2>4, Rearming
    <3> HIDE DEF k
    <3>3. Handler("timer", k) \in Handlers
      BY <3>2, NewHandlers
    <3>4. Handler("timer", k) \in WaitsOf(k)
      BY <3>2 DEF WaitsOf
    <3> DEFINE ws == <<Handler("timer", k)>>
    <3>5. ws \in Seq(Handlers) /\ ws \in Seq(WaitsOf(k))
      BY <3>3, <3>4
    <3>6. UNCHANGED posted \/ posted' = posted \o Aborted(ws)
      BY <3>1
    <3> HIDE DEF ws
    <3>7. ASSUME posted' = posted \o Aborted(ws) PROVE \E hs : Queued(hs)
      BY <3>5, <3>7, QueuedAborted
    <3>8. \E hs : Queued(hs)
      BY <3>6, <3>7, QueuedNothing
    <3>9. cancels' = cancels
      BY <2>4 DEF Rearm
    <3> QED BY <3>8, <3>9
  <2>5. CASE Check(t)
    <3> DEFINE k == Head(stack[t]).of
    <3>1. Head(stack[t]).at = "check" /\ Head(stack[t]) \in Frames
      BY <2>5, Ending DEF Check, At
    <3>2. k \in Timers
      BY <3>1 DEF Frames
    <3>3. (PostRemoval(k) \/ UNCHANGED posted) /\ cancels' = cancels
      BY <2>5 DEF Check
    <3> QED BY <3>2, <3>3, QueuedRemoval, QueuedNothing
  <2> QED BY <1>2, <2>1, <2>2, <2>3, <2>4, <2>5 DEF Continue
<1>3. ASSUME NEW t \in Threads, Ask(t), \A a \in Actions : ~Cancel(t, a)
      PROVE  cancels' = cancels /\ \E hs : Queued(hs)
  <2>1. ASSUME NEW a \in Actions, NEW s \in Slots, Schedule(t, a, s)
        PROVE  UNCHANGED posted /\ cancels' = cancels
    BY <2>1 DEF Schedule, Emplace
  <2>2. ASSUME NEW a \in Actions, Pause(t, a) PROVE UNCHANGED posted /\ cancels' = cancels
    BY <2>2 DEF Pause
  <2>3. ASSUME NEW k \in Timers, SetTimer(t, k) \/ Reset(t, k)
        PROVE  CancelWaits(k) /\ cancels' = cancels
    BY <2>3 DEF SetTimer, Reset, MoveExpiry
  <2>4. ASSUME NEW k \in Timers, CancelTimer(t, k) PROVE PostRemoval(k) /\ cancels' = cancels
    BY <2>4 DEF CancelTimer
  <2> QED BY <1>1, <1>3, <2>1, <2>2, <2>3, <2>4, QueuedRemoval, QueuedNothing DEF Ask
<1>4. ASSUME NEW o \in Slots \cup Timers, Expire(o)
      PROVE  cancels' = cancels /\ \E hs : Queued(hs)
  BY <1>4, QueuedWaits DEF Expire
<1> QED BY <1>2, <1>3, <1>4

\* A queue to which other handlers were added has a removal once if it had.
LEMMA OnceConcat ==
  ASSUME NEW S, NEW s \in Seq(S), NEW q \in Seq(S), NEW x, ~In(x, q), Once(x, s)
  PROVE  Once(x, s \o q)
<1>1. /\ Len(s) \in Nat /\ Len(q) \in Nat /\ DOMAIN s = 1 .. Len(s) /\ DOMAIN q = 1 .. Len(q)
      /\ DOMAIN (s \o q) = 1 .. (Len(s) + Len(q))
      /\ \A i \in 1 .. Len(s) : (s \o q)[i] = s[i]
      /\ \A i \in 1 .. Len(q) : (s \o q)[Len(s) + i] = q[i]
  OBVIOUS
<1>2. ASSUME NEW i \in DOMAIN (s \o q), (s \o q)[i] = x
      PROVE  i \in DOMAIN s /\ s[i] = x
  <2>1. CASE i \in 1 .. Len(s)
    BY <1>1, <1>2, <2>1
  <2>2. CASE i \notin 1 .. Len(s)
    <3>1. i - Len(s) \in 1 .. Len(q) /\ Len(s) + (i - Len(s)) = i
      BY <1>1, <2>2
    <3> QED BY <1>1, <1>2, <3>1 DEF In
  <2> QED BY <2>1, <2>2
<1> QED BY <1>2 DEF Once

\* A queue that did not have it has what is added to it once.
LEMMA OnceAppend ==
  ASSUME NEW S, NEW s \in Seq(S), NEW x \in S, ~In(x, s)
  PROVE  Once(x, s \o <<x>>)
<1>1. /\ Len(s) \in Nat /\ DOMAIN s = 1 .. Len(s) /\ DOMAIN (s \o <<x>>) = 1 .. (Len(s) + 1)
      /\ \A i \in 1 .. Len(s) : (s \o <<x>>)[i] = s[i]
  OBVIOUS
<1>2. ASSUME NEW i \in DOMAIN (s \o <<x>>), (s \o <<x>>)[i] = x PROVE i = Len(s) + 1
  BY <1>1, <1>2 DEF In
<1> QED BY <1>2 DEF Once

\* What is in a queue once is there no more when it was the first to be taken.
LEMMA OnceTail ==
  ASSUME NEW S, NEW s \in Seq(S), s # <<>>, NEW x, Once(x, s)
  PROVE  Once(x, Tail(s)) /\ (Head(s) = x => ~In(x, Tail(s)))
<1>1. /\ Len(s) \in Nat \ {0} /\ DOMAIN s = 1 .. Len(s)
      /\ DOMAIN Tail(s) = 1 .. (Len(s) - 1) /\ Head(s) = s[1]
      /\ \A i \in 1 .. (Len(s) - 1) : Tail(s)[i] = s[i + 1]
  OBVIOUS
<1>2. ASSUME NEW i \in DOMAIN Tail(s), Tail(s)[i] = x
      PROVE  i \in Nat /\ i + 1 \in DOMAIN s /\ s[i + 1] = x /\ i + 1 # 1
  BY <1>1, <1>2
<1>3. Once(x, Tail(s))
  <2> SUFFICES ASSUME NEW i \in DOMAIN Tail(s), NEW j \in DOMAIN Tail(s),
                      Tail(s)[i] = x, Tail(s)[j] = x
               PROVE  i = j
    BY DEF Once
  <2>1. i \in Nat /\ j \in Nat /\ i + 1 = j + 1
    BY <1>2 DEF Once
  <2> QED BY <2>1
<1>4. ASSUME Head(s) = x, In(x, Tail(s)) PROVE FALSE
  <2>1. PICK i \in DOMAIN Tail(s) : Tail(s)[i] = x
    BY <1>4 DEF In
  <2>2. 1 \in DOMAIN s /\ s[1] = x
    BY <1>1, <1>4
  <2> QED BY <1>2, <2>1, <2>2 DEF Once
<1> QED BY <1>3, <1>4

\* All removals in the queue are ok if those were that it had.
LEMMA QueuedOk ==
  ASSUME TypeOK, NEW hs, Queued(hs), \A h : In(h, posted) /\ h.kind = "remove" => h.ok
  PROVE  \A h : In(h, posted') /\ h.kind = "remove" => h.ok
<1>1. \A h : In(h, posted') <=> In(h, posted) \/ In(h, hs)
  BY Queueing DEF Queued
<1> QED BY <1>1 DEF Queued

\* Steps that neither ask for a removal nor begin or end one.
LEMMA RemovedQuietly ==
  ASSUME TypeOK, NEW a \in Actions, RemovedOnce(a), cancels'[a] = cancels[a],
         life[a] = "live" => life'[a] = "live",
         \A t \in Threads : Removes(t, a)' => Removes(t, a),
         NEW hs, Queued(hs)
  PROVE  RemovedOnce(a)'
<1> DEFINE r == Handler("remove", a)
<1>1. /\ posted \in Seq(Handlers) /\ hs \in Seq(Handlers) /\ posted' = posted \o hs
      /\ ~In(r, hs)
  BY DEF Queued, TypeOK
<1>2. Once(r, posted)
  BY DEF RemovedOnce
<1> HIDE DEF r
<1>3. Once(r, posted') /\ (In(r, posted') => In(r, posted))
  BY <1>1, <1>2, OnceConcat, InConcat
<1> QED BY <1>3 DEF r, RemovedOnce

\* Removals match the calls of cancel().
LEMMA RemovalsStep ==
  TypeOK /\ LocksAlone /\ RemovalsMatch /\ [Next]_vars => RemovalsMatch'
<1> SUFFICES ASSUME TypeOK, LocksAlone, RemovalsMatch, [Next]_vars PROVE RemovalsMatch'
  OBVIOUS
<1>0. \A a \in Actions : cancels[a] \in Nat
  BY DEF TypeOK
<1>1. ASSUME NEW t \in Threads, NEW a \in Actions, ~Removes(t, a)',
             \A u \in Threads : u # t => stack'[u] = stack[u]
      PROVE  \A u \in Threads : Removes(u, a)' => Removes(u, a)
  BY <1>1 DEF Removes
<1>2. ASSUME NEW t \in Threads, Continue(t) \/ Ask(t), ~RemoveAction(t), ~Take(t),
             \A a \in Actions : ~Cancel(t, a)
      PROVE  RemovalsMatch'
  <2>1. cancels' = cancels /\ \E hs : Queued(hs)
    BY <1>2, QueueStep
  <2>2. /\ \A a \in Actions : life[a] = "live" => life'[a] = "live"
        /\ fault # "null" => fault' # "null"
    BY <1>2, LivesStay
  <2>3. PICK at, new : Moves(t, at, new) /\ \A f \in new : f.at \in Begun
    BY <1>2, Movement
  <2>4. \A a \in Actions, u \in Threads : Removes(u, a)' => Removes(u, a)
    <3> SUFFICES ASSUME NEW a \in Actions, NEW u \in Threads, NEW f,
                        In(f, stack'[u]), f.at = "lock", f.of = a
                 PROVE  In(f, stack[u])
      BY DEF Removes
    <3> QED BY <2>3 DEF Moves, Begun
  <2> QED BY <2>1, <2>2, <2>4, RemovedQuietly, QueuedOk DEF RemovalsMatch
<1>3. ASSUME NEW t \in Threads, NEW a \in Actions, Cancel(t, a) PROVE RemovalsMatch'
  <2> DEFINE r == Handler("remove", a)
  <2>1. /\ posted' = posted \o <<r>> /\ life[a] = "live" /\ UNCHANGED <<life, stack, fault>>
        /\ cancels' = [cancels EXCEPT ![a] = @ + 1] /\ posted \in Seq(Handlers)
        /\ r \in Handlers /\ <<r>> \in Seq(Handlers)
    BY <1>3, NewHandlers DEF Cancel, TypeOK, Objects
  <2>2. /\ cancels'[a] = cancels[a] + 1 /\ \A b \in Actions : b # a => cancels'[b] = cancels[b]
    BY <2>1 DEF TypeOK
  <2>3. \A b \in Actions, u \in Threads : Removes(u, b)' <=> Removes(u, b)
    BY <2>1 DEF Removes
  <2>4. \A b \in Actions : b # a => ~In(Handler("remove", b), <<r>>)
    <3>1. \A b \in Actions : b # a => Handler("remove", b) # r
      BY DEF Handler
    <3>2. \A y : In(y, <<r>>) <=> r = y
      BY InShort
    <3> QED BY <3>1, <3>2
  <2>5. ASSUME cancels'[a] <= 1 PROVE RemovedOnce(a)'
    <3>1. cancels[a] = 0 /\ cancels'[a] = 1
      BY <1>0, <2>2, <2>5
    <3>2. ~In(r, posted) /\ \A u \in Threads : ~Removes(u, a)
      BY <3>1 DEF RemovalsMatch, RemovedOnce
    <3> HIDE DEF r
    <3>3. Once(r, posted')
      BY <2>1, <3>2, OnceAppend
    <3>4. life'[a] = "live" /\ \A u \in Threads : ~Removes(u, a)'
      BY <2>1, <2>3, <3>2
    <3> QED BY <3>1, <3>3, <3>4 DEF r, RemovedOnce
  <2>6. ASSUME NEW b \in Actions, b # a PROVE cancels'[b] > 1 \/ RemovedOnce(b)'
    <3> DEFINE q == Handler("remove", b)
    <3>1. ~In(q, <<r>>) /\ (cancels[b] > 1 \/ RemovedOnce(b))
      BY <2>4, <2>6 DEF RemovalsMatch
    <3> HIDE DEF q, r
    <3>2. ASSUME RemovedOnce(b) PROVE RemovedOnce(b)'
      <4>1. Once(q, posted)
        BY <3>2 DEF RemovedOnce, q
      <4>2. Once(q, posted') /\ (In(q, posted') => In(q, posted))
        BY <2>1, <3>1, <4>1, OnceConcat, InConcat
      <4> QED BY <2>1, <2>2, <2>3, <2>6, <3>2, <4>2 DEF q, RemovedOnce
    <3> QED BY <2>2, <2>6, <3>1, <3>2
  <2>7. fault' = "null" => \E b \in Actions : cancels'[b] > 1
    BY <1>0, <2>1, <2>2 DEF RemovalsMatch
  <2>8. cancels'[a] > 1 \/ cancels'[a] <= 1
    BY <1>0, <2>2
  <2>9. \A h : In(h, posted') /\ h.kind = "remove" => h.ok
    <3>1. \A h : In(h, posted') <=> In(h, posted) \/ h = r
      BY <1>3, Asking
    <3>2. r.ok
      BY DEF Handler
    <3> QED BY <3>1, <3>2 DEF RemovalsMatch
  <2> QED BY <2>5, <2>6, <2>7, <2>8, <2>9 DEF RemovalsMatch
<1>4. ASSUME NEW t \in Threads, Take(t) PROVE RemovalsMatch'
  <2> DEFINE h == Head(posted)
  <2>1. /\ h \in Handlers /\ posted' = Tail(posted)
        /\ \A g : In(g, posted) <=> g = h \/ In(g, posted')
        /\ stack[t] = <<>> /\ (stack'[t] = <<>> \/ stack'[t] = Calls(h))
        /\ \A u \in Threads : u # t => stack'[u] = stack[u]
    BY <1>4, TakeMoves DEF Moves
  <2>2. posted \in Seq(Handlers) /\ posted # <<>>
    BY <1>4 DEF Take, TypeOK
  <2>3. life' = life /\ cancels' = cancels /\ (fault # "null" => fault' # "null")
    BY <1>4 DEF Take, Dangling, NoFault
  <2>4. ASSUME NEW a \in Actions, RemovedOnce(a) PROVE RemovedOnce(a)'
    <3> DEFINE r == Handler("remove", a)
    <3>1. Once(r, posted) /\ In(h, posted)
      BY <2>1, <2>4 DEF RemovedOnce
    <3> HIDE DEF r, h
    <3>2. Once(r, posted') /\ (h = r => ~In(r, posted')) /\ (In(r, posted') => In(r, posted))
      BY <2>1, <2>2, <3>1, OnceTail DEF h
    <3>3. Removes(t, a)' => h = r
      <4> SUFFICES ASSUME NEW f, In(f, stack'[t]), f.at = "lock", f.of = a PROVE h = r
        BY DEF Removes
      <4>1. In(f, Calls(h))
        BY <2>1, InShort
      <4>2. h.kind = "remove" /\ f = Frame("lock", h.of)
        BY <2>1, <4>1, CallsTyped, FrameFields
      <4>3. h.of = a
        BY <4>2, FrameFields
      <4>4. h.ok = TRUE
        BY <2>1, <3>1, <4>2 DEF RemovalsMatch, Handlers
      <4> QED BY <2>1, <4>2, <4>3, <4>4 DEF Handlers, Handler, r
    <3>4. \A u \in Threads : u # t => (Removes(u, a)' <=> Removes(u, a))
      BY <2>1 DEF Removes
    <3>5. CASE h = r
      <4>1. cancels[a] = 1 /\ life[a] = "live" /\ \A u \in Threads : ~Removes(u, a)
        BY <2>4, <3>1, <3>5 DEF RemovedOnce, r
      <4>2. \A u \in Threads : Removes(u, a)' => u = t
        BY <3>4, <4>1
      <4> QED BY <2>3, <3>2, <3>5, <4>1, <4>2 DEF RemovedOnce, r
    <3>6. CASE h # r
      <4>1. \A u \in Threads : Removes(u, a)' => Removes(u, a)
        BY <3>3, <3>4, <3>6
      <4> QED BY <2>3, <2>4, <3>2, <4>1 DEF RemovedOnce, r
    <3> QED BY <3>5, <3>6
  <2>5. \A g : In(g, posted') /\ g.kind = "remove" => g.ok
    BY <2>1 DEF RemovalsMatch
  <2> QED BY <2>3, <2>4, <2>5 DEF RemovalsMatch
<1>5. ASSUME NEW t \in Threads, RemoveAction(t) PROVE RemovalsMatch'
  <2> DEFINE f == Head(stack[t])
  <2>1. /\ In(f, stack[t]) /\ f.at = "lock" /\ \A g : ~In(g, stack'[t])
        /\ \A u \in Threads : u # t => stack'[u] = stack[u]
    BY <1>5, RemovalMoves
  <2>2. PICK a \in Actions :
          /\ f.of = a
          /\ fault' = fault \/ life[a] = "destroyed"
          /\ \A b \in Actions : life'[b] = life[b] \/ b = a
    <3>1. PICK a \in Actions : /\ f.of = a
                               /\ life' = life \/ \E b \in Actions : life' = [life EXCEPT ![b] = "destroyed"] /\ b = a
                               /\ fault' = fault \/ life[a] = "destroyed"
      BY <1>5 DEF RemoveAction, RemoveThen
    <3> QED BY <3>1 DEF TypeOK, Objects
  <2>3. cancels' = cancels /\ \E hs : Queued(hs)
    <3>1. ~Take(t) /\ \A b \in Actions : ~Cancel(t, b)
      BY <1>5 DEF RemoveAction, RemoveThen, At, Take, Cancel, MayCall
    <3> QED BY <1>5, <3>1, QueueStep DEF Continue
  <2>4. Removes(t, a)
    BY <2>1, <2>2 DEF Removes
  <2>5. \A b \in Actions, u \in Threads : Removes(u, b)' => u # t /\ Removes(u, b)
    BY <2>1 DEF Removes
  <2>6. ASSUME NEW b \in Actions, b # a, RemovedOnce(b) PROVE RemovedOnce(b)'
    BY <2>2, <2>3, <2>5, <2>6, RemovedQuietly
  <2>7. ASSUME RemovedOnce(a) PROVE RemovedOnce(a)' /\ fault' = fault
    <3> DEFINE r == Handler("remove", a)
    <3>1. life[a] = "live" /\ cancels[a] = 1 /\ ~In(r, posted) /\ Once(r, posted)
          /\ \A u \in Threads : Removes(u, a) => u = t
      BY <2>4, <2>7 DEF RemovedOnce
    <3>2. \A u \in Threads : ~Removes(u, a)'
      BY <2>5, <3>1
    <3> HIDE DEF r
    <3>3. PICK hs : hs \in Seq(Handlers) /\ posted' = posted \o hs /\ ~In(r, hs)
      BY <2>3 DEF Queued, r
    <3>4. posted \in Seq(Handlers)
      BY DEF TypeOK
    <3>5. Once(r, posted') /\ ~In(r, posted')
      BY <3>1, <3>3, <3>4, OnceConcat, InConcat
    <3>6. RemovedOnce(a)'
      BY <3>2, <3>5 DEF RemovedOnce, r
    <3>7. fault' = fault
      BY <2>2, <3>1
    <3> QED BY <3>6, <3>7
  <2>8. cancels[a] > 1 \/ RemovedOnce(a)
    BY DEF RemovalsMatch
  <2>9. \A h : In(h, posted') /\ h.kind = "remove" => h.ok
    BY <2>3, QueuedOk DEF RemovalsMatch
  <2> QED BY <2>3, <2>6, <2>7, <2>8, <2>9 DEF RemovalsMatch
<1>6. ASSUME NEW o \in Slots \cup Timers, Expire(o) PROVE RemovalsMatch'
  <2>1. cancels' = cancels /\ \E hs : Queued(hs)
    BY <1>6, QueueStep
  <2>2. UNCHANGED <<life, stack, fault>>
    BY <1>6 DEF Expire
  <2>3. \A a \in Actions, u \in Threads : Removes(u, a)' => Removes(u, a)
    BY <2>2 DEF Removes
  <2> QED BY <2>1, <2>2, <2>3, RemovedQuietly, QueuedOk DEF RemovalsMatch
<1>7. CASE UNCHANGED vars
  BY <1>7 DEF vars, RemovalsMatch, RemovedOnce, Removes
<1>8. ASSUME NEW t \in Threads, Continue(t) \/ Ask(t)
      PROVE  RemovalsMatch'
  BY <1>2, <1>3, <1>4, <1>5, <1>8
<1> QED BY <1>6, <1>7, <1>8 DEF Next

-----------------------------------------------------------------------------
(* An action is in one list, once: there it stands for its shared pointer. *)

\* Steps that leave the lists and the lives alone.
LEMMA ListedStays ==
  ASSUME ListedOnce, UNCHANGED list, \A a \in Actions : life'[a] = "live" <=> life[a] = "live"
  PROVE  ListedOnce'
BY DEF ListedOnce

\* emplace puts a new action into one list; remove takes it out and destroys it.
LEMMA ListedStep == TypeOK /\ ListedOnce /\ [Next]_vars => ListedOnce'
<1> SUFFICES ASSUME TypeOK, ListedOnce, [Next]_vars PROVE ListedOnce'
  OBVIOUS
<1>0. \A a \in Actions, k \in Timers : a # k
  BY ThreadsAssumption
<1>1. ASSUME NEW t \in Threads, NEW a \in Actions, NEW s \in Slots, Schedule(t, a, s)
      PROVE  ListedOnce'
  <2>1. /\ list[s] \in Seq(Actions) /\ list' = [list EXCEPT ![s] = <<a>> \o @]
        /\ life[a] = "none" /\ life' = [life EXCEPT ![a] = "live"]
    BY <1>1 DEF Schedule, Emplace, TypeOK
  <2> DEFINE q == <<a>> \o list[s]
  <2>2. /\ Len(list[s]) \in Nat /\ DOMAIN list[s] = 1 .. Len(list[s])
        /\ DOMAIN q = 1 .. Len(list[s]) + 1 /\ q[1] = a
        /\ \A i \in 1 .. Len(list[s]) : q[i + 1] = list[s][i]
    BY <2>1
  <2>3. list'[s] = q /\ \A p \in Slots : p # s => list'[p] = list[p]
    BY <2>1 DEF TypeOK
  <2>4. \A p \in Slots : \A i \in DOMAIN list[p] : list[p][i] # a
    BY <2>1 DEF ListedOnce
  <2> HIDE DEF q
  <2>5. \A i \in DOMAIN q : i = 1 \/ (i - 1 \in DOMAIN list[s] /\ q[i] = list[s][i - 1])
    <3> SUFFICES ASSUME NEW i \in DOMAIN q, i # 1
                 PROVE  i - 1 \in DOMAIN list[s] /\ q[i] = list[s][i - 1]
      OBVIOUS
    <3>1. i \in Nat /\ i - 1 \in 1 .. Len(list[s]) /\ (i - 1) + 1 = i
      BY <2>2
    <3> QED BY <2>2, <3>1
  <2>6. ASSUME NEW p \in Slots, NEW r \in Slots,
               NEW i \in DOMAIN list'[p], NEW j \in DOMAIN list'[r], list'[p][i] = list'[r][j]
        PROVE  p = r /\ i = j
    <3>1. CASE p = s /\ r = s
      <4>1. i \in DOMAIN q /\ j \in DOMAIN q /\ q[i] = q[j]
        BY <2>3, <2>6, <3>1
      <4>2. i = 1 <=> j = 1
        BY <2>2, <2>4, <2>5, <4>1
      <4>3. ASSUME i # 1, j # 1 PROVE i = j
        <5>1. i - 1 = j - 1
          BY <2>5, <4>1, <4>3 DEF ListedOnce
        <5>2. i \in Nat /\ j \in Nat
          BY <2>2, <4>1
        <5> QED BY <5>1, <5>2
      <4> QED BY <3>1, <4>2, <4>3
    <3>2. CASE p = s /\ r # s
      <4>1. i \in DOMAIN q /\ j \in DOMAIN list[r] /\ q[i] = list[r][j]
        BY <2>3, <2>6, <3>2
      <4>2. i # 1
        BY <2>2, <2>4, <4>1
      <4> QED BY <2>5, <3>2, <4>1, <4>2 DEF ListedOnce
    <3>3. CASE p # s /\ r = s
      <4>1. i \in DOMAIN list[p] /\ j \in DOMAIN q /\ list[p][i] = q[j]
        BY <2>3, <2>6, <3>3
      <4>2. j # 1
        BY <2>2, <2>4, <4>1
      <4> QED BY <2>5, <3>3, <4>1, <4>2 DEF ListedOnce
    <3>4. CASE p # s /\ r # s
      BY <2>3, <2>6, <3>4 DEF ListedOnce
    <3> QED BY <3>1, <3>2, <3>3, <3>4
  <2>7. ASSUME NEW b \in Actions
        PROVE  life'[b] = "live" <=> \E p \in Slots : \E i \in DOMAIN list'[p] : list'[p][i] = b
    <3>1. CASE b = a
      <4>1. life'[b] = "live"
        BY <2>1, <3>1 DEF TypeOK, Objects
      <4>2. 1 \in DOMAIN list'[s] /\ list'[s][1] = b
        BY <2>2, <2>3, <3>1
      <4> QED BY <4>1, <4>2
    <3>2. CASE b # a
      <4>1. life'[b] = life[b]
        BY <2>1, <3>2 DEF TypeOK
      <4>2. ASSUME NEW p \in Slots, NEW i \in DOMAIN list'[p], list'[p][i] = b
            PROVE  \E j \in DOMAIN list[p] : list[p][j] = b
        <5>1. CASE p = s
          <6>1. i \in DOMAIN q /\ q[i] = b /\ i # 1
            BY <2>2, <2>3, <3>2, <4>2, <5>1
          <6> QED BY <2>5, <5>1, <6>1
        <5>2. CASE p # s
          BY <2>3, <4>2, <5>2
        <5> QED BY <5>1, <5>2
      <4>3. ASSUME NEW p \in Slots, NEW j \in DOMAIN list[p], list[p][j] = b
            PROVE  \E i \in DOMAIN list'[p] : list'[p][i] = b
        <5>1. CASE p = s
          <6>1. j + 1 \in DOMAIN q /\ q[j + 1] = b
            BY <2>2, <4>3, <5>1
          <6> QED BY <2>3, <5>1, <6>1
        <5>2. CASE p # s
          BY <2>3, <4>3, <5>2
        <5> QED BY <5>1, <5>2
      <4> QED BY <4>1, <4>2, <4>3 DEF ListedOnce
    <3> QED BY <3>1, <3>2
  <2> QED BY <2>6, <2>7 DEF ListedOnce
<1>2. ASSUME NEW t \in Threads, RemoveAction(t) PROVE ListedOnce'
  <2> DEFINE a == Head(stack[t]).of
  <2>1. CASE life[a] = "destroyed"
    BY <1>2, <2>1, ListedStays DEF RemoveAction, RemoveThen
  <2>2. CASE life[a] # "destroyed"
    <3>1. a \in Actions
      BY <1>2 DEF RemoveAction, RemoveThen
    <3>2. PICK s \in Slots : \E i \in DOMAIN list[s] :
            /\ list[s][i] = a /\ list' = [list EXCEPT ![s] = Without(@, i)]
            /\ life' = [life EXCEPT ![a] = "destroyed"]
      BY <1>2, <2>2 DEF RemoveAction, RemoveThen
    <3>3. PICK k \in DOMAIN list[s] :
            /\ list[s][k] = a /\ list' = [list EXCEPT ![s] = Without(@, k)]
            /\ life' = [life EXCEPT ![a] = "destroyed"]
      BY <3>2
    <3> DEFINE q == Without(list[s], k)
    <3>4. list[s] \in Seq(Actions) /\ k \in 1 .. Len(list[s]) /\ Len(list[s]) \in Nat
          /\ DOMAIN list[s] = 1 .. Len(list[s])
      BY DEF TypeOK
    <3>5. /\ DOMAIN q = 1 .. Len(list[s]) - 1
          /\ \A j \in 1 .. Len(list[s]) - 1 : q[j] = list[s][IF j < k THEN j ELSE j + 1]
      BY <3>4, WithoutOne
    <3>6. list'[s] = q /\ \A p \in Slots : p # s => list'[p] = list[p]
      BY <3>3 DEF TypeOK
    <3> HIDE DEF a, q
    <3> DEFINE at(j) == IF j < k THEN j ELSE j + 1
    <3>7. \A j \in DOMAIN q : at(j) \in DOMAIN list[s] /\ at(j) # k /\ q[j] = list[s][at(j)]
      BY <3>4, <3>5
    <3>8. \A i, j \in DOMAIN q : at(i) = at(j) => i = j
      BY <3>4, <3>5
    <3>9. \A i \in DOMAIN list[s] : i # k => \E j \in DOMAIN q : at(j) = i
      <4> SUFFICES ASSUME NEW i \in DOMAIN list[s], i # k PROVE \E j \in DOMAIN q : at(j) = i
        OBVIOUS
      <4>1. CASE i < k
        BY <3>4, <3>5, <4>1
      <4>2. CASE ~(i < k)
        <5>1. i - 1 \in DOMAIN q /\ ~(i - 1 < k) /\ (i - 1) + 1 = i
          BY <3>4, <3>5, <4>2
        <5> QED BY <5>1
      <4> QED BY <4>1, <4>2
    <3> HIDE DEF at
    <3>10. ASSUME NEW p \in Slots, NEW r \in Slots,
                  NEW i \in DOMAIN list'[p], NEW j \in DOMAIN list'[r], list'[p][i] = list'[r][j]
           PROVE  p = r /\ i = j
      <4>1. CASE p = s /\ r = s
        <5>1. i \in DOMAIN q /\ j \in DOMAIN q /\ q[i] = q[j]
          BY <3>6, <3>10, <4>1
        <5>2. at(i) = at(j)
          BY <3>7, <5>1 DEF ListedOnce
        <5> QED BY <3>8, <4>1, <5>1, <5>2
      <4>2. CASE p = s /\ r # s
        <5>1. i \in DOMAIN q /\ j \in DOMAIN list[r] /\ q[i] = list[r][j]
          BY <3>6, <3>10, <4>2
        <5> QED BY <3>7, <4>2, <5>1 DEF ListedOnce
      <4>3. CASE p # s /\ r = s
        <5>1. i \in DOMAIN list[p] /\ j \in DOMAIN q /\ list[p][i] = q[j]
          BY <3>6, <3>10, <4>3
        <5> QED BY <3>7, <4>3, <5>1 DEF ListedOnce
      <4>4. CASE p # s /\ r # s
        BY <3>6, <3>10, <4>4 DEF ListedOnce
      <4> QED BY <4>1, <4>2, <4>3, <4>4
    <3>11. ASSUME NEW b \in Actions
           PROVE  life'[b] = "live" <=> \E p \in Slots : \E i \in DOMAIN list'[p] : list'[p][i] = b
      <4>1. life'[b] = "live" <=> b # a /\ life[b] = "live"
        BY <3>3 DEF TypeOK, Objects
      <4>2. ASSUME NEW p \in Slots, NEW i \in DOMAIN list'[p], list'[p][i] = b
            PROVE  b # a /\ \E j \in DOMAIN list[p] : list[p][j] = b
        <5>1. CASE p = s
          <6>1. i \in DOMAIN q /\ q[i] = b
            BY <3>6, <4>2, <5>1
          <6> QED BY <3>3, <3>7, <5>1, <6>1 DEF ListedOnce
        <5>2. CASE p # s
          BY <3>3, <3>6, <4>2, <5>2 DEF ListedOnce
        <5> QED BY <5>1, <5>2
      <4>3. ASSUME b # a, NEW p \in Slots, NEW j \in DOMAIN list[p], list[p][j] = b
            PROVE  \E i \in DOMAIN list'[p] : list'[p][i] = b
        <5>1. CASE p = s
          <6>1. j # k
            BY <3>3, <4>3, <5>1
          <6>2. PICK i \in DOMAIN q : at(i) = j
            BY <3>9, <5>1, <6>1
          <6> QED BY <3>6, <3>7, <4>3, <5>1, <6>2
        <5>2. CASE p # s
          BY <3>6, <4>3, <5>2
        <5> QED BY <5>1, <5>2
      <4> QED BY <4>1, <4>2, <4>3 DEF ListedOnce
    <3> QED BY <3>10, <3>11 DEF ListedOnce
  <2> QED BY <2>1, <2>2
<1>3. ASSUME NEW t \in Threads, Continue(t), ~RemoveAction(t) PROVE ListedOnce'
  <2>1. CASE \/ ResetSlot(t) \/ ArmAction(t) \/ ArmSlot(t) \/ Unlock(t) \/ Rearm(t)
             \/ Insert(t) \/ Result(t) \/ Check(t) \/ Take(t) \/ Return(t)
    <3>1. UNCHANGED life /\ UNCHANGED list
      BY <2>1 DEF ResetSlot, ArmAction, ArmSlot, Unlock, Rearm, Insert, Result, Check, Take,
                  Return
    <3> QED BY <3>1, ListedStays
  <2>2. CASE RemoveTimer(t)
    <3>1. PICK k \in Timers : life' = life \/ life' = [life EXCEPT ![k] = "destroyed"]
      BY <2>2 DEF RemoveTimer
    <3>2. \A a \in Actions : life'[a] = life[a]
      BY <1>0, <3>1 DEF TypeOK, Objects
    <3>3. UNCHANGED list
      BY <2>2 DEF RemoveTimer
    <3> QED BY <3>2, <3>3, ListedStays
  <2> QED BY <1>3, <2>1, <2>2 DEF Continue
<1>4. ASSUME NEW t \in Threads, NEW a \in Actions, Cancel(t, a) \/ Pause(t, a) PROVE ListedOnce'
  BY <1>4, ListedStays DEF Cancel, Pause
<1>5. ASSUME NEW t \in Threads, NEW k \in Timers, SetTimer(t, k) \/ Reset(t, k) \/ CancelTimer(t, k)
      PROVE  ListedOnce'
  <2>1. (life' = life \/ life' = [life EXCEPT ![k] = "live"]) /\ UNCHANGED list
    BY <1>5 DEF SetTimer, Reset, CancelTimer
  <2>2. \A a \in Actions : life'[a] = life[a]
    BY <1>0, <2>1 DEF TypeOK, Objects
  <2> QED BY <2>1, <2>2, ListedStays
<1>6. ASSUME NEW o, Expire(o) PROVE ListedOnce'
  BY <1>6, ListedStays DEF Expire
<1>7. CASE UNCHANGED vars
  BY <1>7, ListedStays DEF vars
<1> QED BY <1>1, <1>2, <1>3, <1>4, <1>5, <1>6, <1>7 DEF Next, Ask

-----------------------------------------------------------------------------
\* Nothing is scheduled at first.
LEMMA InitInv == Init => IInv
<1> SUFFICES ASSUME Init PROVE IInv
  OBVIOUS
<1>1. TypeOK
  BY TypeInit
<1>2. /\ \A s \in Slots : list[s] = <<>>
      /\ \A a \in Actions : life[a] = "none"
      /\ \A t \in Threads : stack[t] = <<>>
      /\ stopped = {} /\ fault = "none" /\ DOMAIN <<>> = {}
  BY DEF Init, Objects, NoFault
<1>3. ListedOnce
  <2>1. \A s \in Slots : DOMAIN list[s] = {}
    BY <1>2
  <2>2. SUFFICES ASSUME NEW a \in Actions PROVE life[a] # "live"
    BY <2>1 DEF ListedOnce
  <2>3. life[a] = "none"
    BY <1>2
  <2> QED BY ONLY <2>3
<1>4. SlotsArmed /\ StoppedQuiet
  BY <1>2 DEF SlotsArmed, StoppedQuiet
<1>5. LocksAlone /\ RemovalsMatch
  <2>1. \A t \in Threads : \A f : ~In(f, stack[t])
    BY <1>2, InShort
  <2>2. posted = <<>> /\ \A h : ~In(h, posted)
    BY InShort DEF Init
  <2>3. \A a \in Actions : RemovedOnce(a)
    BY <1>2, <2>1, <2>2 DEF RemovedOnce, Once, Removes
  <2> QED BY <1>2, <2>1, <2>2, <2>3 DEF LocksAlone, RemovalsMatch
<1> QED BY <1>1, <1>3, <1>4, <1>5 DEF IInv

\* The invariant holds in every state.
LEMMA Inductive == Spec => []IInv
<1>1. IInv /\ [Next]_vars => IInv'
  BY TypeStep, ListedStep, ArmedStep, StoppedStep, LocksStep, RemovalsStep DEF IInv
<1> QED BY InitInv, <1>1, PTL DEF Spec

\* Every state of the scheduler is well formed: what waits on a timer, what is in
\* the queue of the io_service and what a thread is doing are of the kinds that
\* Scheduler, PeriodicScheduleSlot and ScheduledAction give them.
THEOREM TypeCorrect == Spec => []TypeOK
<1>1. IInv => TypeOK
  BY DEF IInv
<1> QED BY <1>1, Inductive, PTL

\* A slot that has actions keeps coming round, however many threads set and
\* cancel its timer between the statements of reset_timer
\* (PeriodicScheduleSlot.cc:90-107).
THEOREM SlotKeepsComingRound == Spec => []SlotStaysArmed
<1>1. IInv => SlotStaysArmed
  <2> SUFFICES ASSUME IInv, NEW s \in Slots, list[s] # <<>>
               PROVE  \/ \E i \in DOMAIN waits[s] : waits[s][i] = Handler("slot", s)
                      \/ \E i \in DOMAIN posted : posted[i] = Handler("slot", s)
                      \/ \E t \in Threads : \E i \in DOMAIN stack[t] :
                           stack[t][i].at \in {"reset", "arm"} /\ stack[t][i].of = s
    BY DEF SlotStaysArmed
  <2>1. Armed(s)
    BY DEF IInv, SlotsArmed
  <2> QED BY <2>1 DEF Armed, In
<1> QED BY <1>1, Inductive, PTL

\* However many workers there are and whatever else calls the scheduler, the
\* pointer that remove() takes from its weak pointer is not null unless cancel()
\* was called twice for an action (Scheduler.cc:78-86).
THEOREM CancelledOnceIsSafe == Spec => []NullNeedsTwoCancels
<1>1. IInv => NullNeedsTwoCancels
  BY DEF IInv, RemovalsMatch, NullNeedsTwoCancels
<1> QED BY <1>1, Inductive, PTL

\* A one-shot action cancelled before it expired is not called afterwards, unless
\* it is reset (ScheduledAction.cc:54-80).
THEOREM CancelStopsCall == Spec => CancelPreventsCall
<1> DEFINE A == \A t \in Threads, k \in Timers :
                  stack[t] = <<>> /\ stack'[t] # <<>> /\ Head(stack'[t]) = Frame("call", k)
                    => k \notin stopped
<1>1. IInv /\ Next => A
  BY CallStep DEF IInv
<1>2. IInv /\ [Next]_vars => [A]_vars
  BY <1>1
<1> HIDE DEF A
<1>3. Spec => [][A]_vars
  BY <1>2, Inductive, PTL DEF Spec
<1> QED BY <1>3 DEF A, CancelPreventsCall

\* A scheduled action is in exactly one slot's list until it is removed, and no
\* list holds one that is gone (PeriodicScheduleSlot.tcc:10-21).
THEOREM ActionsAreListedOnce == Spec => []ListedOnce
<1>1. IInv => ListedOnce
  BY DEF IInv
<1> QED BY <1>1, Inductive, PTL
=============================================================================
