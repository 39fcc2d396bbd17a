-------------------------- MODULE BasicNode_proofs --------------------------
(***************************************************************************)
(* One node, with any number of workers and callers: halt() has one owner  *)
(* at a time and succeeds once, and the messages handed to send() are      *)
(* written or kept.  The node's queue is a SharedQueue, and what is proved *)
(* there is used here.                                                     *)
(***************************************************************************)
EXTENDS BasicNode, SequenceTheorems, FiniteSetTheorems, TLAPS

QP == INSTANCE SharedQueue_proofs WITH Consumers <- {SendLoop}, pc <- next_pc

SendPlaces == {"unborn", "top", "next", "got", "writing", "written", "exit", "done"}
ReceivePlaces == {"unborn", "top", "reading", "read", "resync", "resynced", "exit", "done"}

TypeOK ==
  /\ m_stopped \in BOOLEAN /\ m_halting \in BOOLEAN /\ m_disconnect_emitted \in BOOLEAN
  /\ halt_mutex \in Threads \cup {NoThread}
  /\ stack \in [Threads -> Seq(Frames)]
  /\ pool \in {"off", "running", "joined"}
  /\ ready \in Seq(Handlers)
  /\ socket \in {"open", "closed"} /\ peer \in {"up", "down"}
  /\ timer \in {"off", "armed", "fired", "cancelled"} /\ m_halt_action \in BOOLEAN
  /\ sync \in {"off", "active", "cancelled"}
  /\ send_pc \in SendPlaces /\ receive_pc \in ReceivePlaces
  /\ result \in [write : {"none", "ok", "error", "try_again"},
                 read : {"none", "ack", "nack", "other", "corrupt", "error"}]
  /\ received \in Nat /\ sends \in Nat /\ disconnects \in Nat /\ full_halts \in Nat

-----------------------------------------------------------------------------
(* Halting. *)

\* The frames of halt() from the test of m_halting to the end, the poll left
\* out: there both flags are taken back already.
Guarded == HaltFrames \ {"halt:poll"}

\* A halt outside the pool neither undoes nor polls.
OutsideHalt == HaltFrames \ {"halt:undo", "halt:poll"}

\* What a thread may be executing: handlers are run from poll() only, so on a
\* worker's stack all but the innermost frame are polls.
WorkerStack(w) ==
  stack[w] # <<>> =>
    /\ Head(stack[w]) \in {"halt:lock", "halt:undo", "halt:poll", "send", "receive"}
    /\ Tail(stack[w]) \in Seq({"halt:poll"})
CallerStack(c) == stack[c] # <<>> => Head(stack[c]) \in OutsideHalt /\ Tail(stack[c]) = <<>>
LauncherStack ==
  /\ stack[Launcher] # <<>>
  /\ \/ Head(stack[Launcher]) \in LaunchFrames \cup RunFrames /\ Tail(stack[Launcher]) = <<>>
     \/ Head(stack[Launcher]) \in OutsideHalt /\ Tail(stack[Launcher]) = <<"returned">>

Stacks ==
  /\ \A w \in Workers : WorkerStack(w)
  /\ \A c \in Callers : CallerStack(c)
  /\ LauncherStack

\* HaltingHasOneOwner by the innermost frames.
OneHalter ==
  /\ m_stopped => m_halting
  /\ m_halting <=> (full_halts > 0 \/ \E t \in Threads : Top(t) \in Guarded)
  /\ \A t, u \in Threads : Top(t) \in Guarded /\ Top(u) \in Guarded => t = u
  /\ full_halts > 0 => \A t \in Threads : Top(t) \notin Guarded

\* How far a halt has come; `done` once one has succeeded.
Halted(frames) == full_halts > 0 \/ \E t \in Threads : Top(t) \in frames

HaltProgress ==
  /\ Halted(Guarded \ {"halt:lock"}) => m_stopped
  /\ Halted({"halt:emit", "halt:cancel", "halt:join", "halt:notify"}) => socket = "closed"
  /\ Halted({"halt:cancel", "halt:join", "halt:notify"}) => m_disconnect_emitted
  /\ Halted({"halt:notify"}) => pool = "joined"
  /\ disconnects = (IF m_disconnect_emitted THEN 1 ELSE 0)
  /\ full_halts \in {0, 1}
  /\ (full_halts > 0 \/ \E c \in Callers : stack[c] # <<>>) => Top(Launcher) \notin LaunchFrames

HaltInv == TypeOK /\ Stacks /\ OneHalter /\ HaltProgress

-----------------------------------------------------------------------------
(* Messages. *)

\* The message the send loop has in its hands.
Held == IF send_pc \in {"next", "got", "writing", "written"} /\ out[SendLoop] # NoMessage
          THEN <<out[SendLoop]>> ELSE <<>>

\* Where launch() is before the send loop exists.
BeforeLoop == {"launch:send", "launch:pool", "launch:receive", "launch:loop"}

\* What the send loop knows about the queue's answer, and that it is started once.
LoopState ==
  /\ send_pc = "next" => checked[SendLoop]
  /\ send_pc = "next" /\ next_pc[SendLoop] = "idle" /\ ~aborted[SendLoop]
       => out[SendLoop] # NoMessage
  /\ send_pc \in {"got", "writing", "written"} => out[SendLoop] # NoMessage
  /\ send_pc = "written" => result.write # "none"
  /\ Top(Launcher) \in BeforeLoop => send_pc = "unborn"

LoopInv == HaltInv /\ QP!TypeOK /\ wire \in Seq(Messages) /\ LoopState

Contents ==
  send_pc \notin {"exit", "done"} =>
    /\ Len(wire) + Len(Held) + Len(queue) = sends
    /\ Range(wire) \cup Range(Held) \cup Range(queue) = 1 .. sends

\* Nothing was queued twice so far.
NoRetry == Len(pushed) = sends

InOrder ==
  /\ Len(pushed) >= sends
  /\ NoRetry =>
       /\ \A i \in DOMAIN pushed : pushed[i] = i
       /\ \A i \in DOMAIN wire : wire[i] = i
       /\ send_pc \notin {"exit", "done"} =>
            /\ Len(removed) = Len(wire) + Len(Held)
            /\ Held # <<>> => out[SendLoop] = Len(removed)

MessageInv == LoopInv /\ QP!IInv /\ Contents /\ InOrder

-----------------------------------------------------------------------------
(* Stacks. *)

\* A frame put on top of a sequence of frames.
LEMMA PushOn ==
  ASSUME NEW S, NEW f \in S, NEW s \in Seq(S)
  PROVE  /\ <<f>> \o s \in Seq(S) /\ <<f>> \o s # <<>>
         /\ Head(<<f>> \o s) = f /\ Tail(<<f>> \o s) = s
<1>1. <<f>> \in Seq(S) /\ Len(<<f>>) = 1 /\ <<f>>[1] = f
  OBVIOUS
<1>2. /\ <<f>> \o s \in Seq(S) /\ Len(<<f>> \o s) = 1 + Len(s)
      /\ \A i \in 1 .. 1 + Len(s) : (<<f>> \o s)[i] = IF i <= 1 THEN f ELSE s[i - 1]
  BY <1>1, ConcatProperties
<1>3. Len(s) \in Nat
  BY LenProperties
<1>4. <<f>> \o s # <<>>
  BY <1>2, <1>3, EmptySeq, LenProperties
<1>5. Head(<<f>> \o s) = f
  BY <1>2, <1>3, <1>4
<1>6. Tail(<<f>> \o s) = s
  <2>1. /\ Tail(<<f>> \o s) \in Seq(S) /\ Len(Tail(<<f>> \o s)) = Len(s)
        /\ \A i \in 1 .. Len(s) : Tail(<<f>> \o s)[i] = (<<f>> \o s)[i + 1]
    BY <1>2, <1>3, <1>4, HeadTailProperties
  <2>2. \A i \in 1 .. Len(s) : Tail(<<f>> \o s)[i] = s[i]
    BY <1>2, <1>3, <2>1
  <2> QED BY <2>1, <2>2, SeqEqual
<1> QED BY <1>2, <1>4, <1>5, <1>6

\* The stack of one thread changes, those of the others do not.
LEMMA StackOf ==
  ASSUME TypeOK, NEW t \in Threads, NEW s \in Seq(Frames),
         stack' = [stack EXCEPT ![t] = s]
  PROVE  /\ stack' \in [Threads -> Seq(Frames)] /\ stack'[t] = s
         /\ \A u \in Threads : u # t => stack'[u] = stack[u]
  BY DEF TypeOK

\* What calling, going on and returning do to a stack.
LEMMA CallEffect ==
  ASSUME TypeOK, NEW t \in Threads, NEW f \in Frames, Call(t, f)
  PROVE  /\ stack' \in [Threads -> Seq(Frames)]
         /\ stack'[t] # <<>> /\ Head(stack'[t]) = f /\ Tail(stack'[t]) = stack[t]
         /\ \A u \in Threads : u # t => stack'[u] = stack[u]
<1>1. stack[t] \in Seq(Frames)
  BY DEF TypeOK
<1>2. /\ <<f>> \o stack[t] \in Seq(Frames) /\ <<f>> \o stack[t] # <<>>
      /\ Head(<<f>> \o stack[t]) = f /\ Tail(<<f>> \o stack[t]) = stack[t]
  BY <1>1, PushOn
<1>3. stack' = [stack EXCEPT ![t] = <<f>> \o stack[t]]
  BY DEF Call
<1> QED BY <1>2, <1>3, StackOf

\* What Goto leaves of a stack.
LEMMA GotoEffect ==
  ASSUME TypeOK, NEW t \in Threads, NEW f \in Frames, stack[t] # <<>>, Goto(t, f)
  PROVE  /\ stack' \in [Threads -> Seq(Frames)]
         /\ stack'[t] # <<>> /\ Head(stack'[t]) = f /\ Tail(stack'[t]) = Tail(stack[t])
         /\ \A u \in Threads : u # t => stack'[u] = stack[u]
<1>1. Tail(stack[t]) \in Seq(Frames)
  BY HeadTailProperties DEF TypeOK
<1>2. /\ <<f>> \o Tail(stack[t]) \in Seq(Frames) /\ <<f>> \o Tail(stack[t]) # <<>>
      /\ Head(<<f>> \o Tail(stack[t])) = f /\ Tail(<<f>> \o Tail(stack[t])) = Tail(stack[t])
  BY <1>1, PushOn
<1>3. stack' = [stack EXCEPT ![t] = <<f>> \o Tail(stack[t])]
  BY DEF Goto
<1> QED BY <1>2, <1>3, StackOf

\* What Return leaves of a stack.
LEMMA ReturnEffect ==
  ASSUME TypeOK, NEW t \in Threads, stack[t] # <<>>, Return(t)
  PROVE  /\ stack' \in [Threads -> Seq(Frames)] /\ stack'[t] = Tail(stack[t])
         /\ \A u \in Threads : u # t => stack'[u] = stack[u]
<1>1. Tail(stack[t]) \in Seq(Frames)
  BY HeadTailProperties DEF TypeOK
<1> QED BY <1>1, StackOf DEF Return

\* The end of a halt takes the waiting owner along.
LEMMA UnlockEffect ==
  ASSUME TypeOK, NEW t \in Threads, stack[t] # <<>>, Unlock(t)
  PROVE  /\ stack' \in [Threads -> Seq(Frames)] /\ stack'[t] = Tail(stack[t])
         /\ \A u \in Threads : u # t =>
              stack'[u] = IF Top(u) = "run:waiting" THEN <<"run:woken">> ELSE stack[u]
<1>1. Tail(stack[t]) \in Seq(Frames) /\ <<"run:woken">> \in Seq(Frames)
  BY HeadTailProperties DEF TypeOK, Frames, RunFrames
<1> QED BY <1>1 DEF Unlock, TypeOK

\* A call of halt() on top of `rest`.
LEMMA EnterEffect ==
  ASSUME TypeOK, NEW t \in Threads, NEW rest \in Seq(Frames), EnterHalt(t, rest)
  PROVE  /\ stack' \in [Threads -> Seq(Frames)] /\ m_halting' = TRUE
         /\ \A u \in Threads : u # t => stack'[u] = stack[u]
         /\ m_halting => stack'[t] = rest
         /\ ~m_halting => /\ stack'[t] # <<>> /\ Head(stack'[t]) = "halt:lock"
                          /\ Tail(stack'[t]) = rest
<1>1. "halt:lock" \in Frames
  BY DEF Frames, HaltFrames
<1>2. CASE m_halting
  BY <1>2, StackOf DEF EnterHalt, TypeOK
<1>3. CASE ~m_halting
  <2>1. stack' = [stack EXCEPT ![t] = <<"halt:lock">> \o rest] /\ m_halting' = TRUE
    BY <1>3 DEF EnterHalt
  <2>2. <<"halt:lock">> \o rest \in Seq(Frames)
    BY <1>1, PushOn
  <2>3. /\ <<"halt:lock">> \o rest # <<>> /\ Head(<<"halt:lock">> \o rest) = "halt:lock"
        /\ Tail(<<"halt:lock">> \o rest) = rest
    BY <1>1, PushOn
  <2> QED BY <1>3, <2>1, <2>2, <2>3, StackOf
<1> QED BY <1>2, <1>3 DEF TypeOK

\* What is on top of a stack.
LEMMA TopIs ==
  ASSUME TypeOK, NEW t \in Threads, Top(t) # "none"
  PROVE  stack[t] # <<>> /\ Top(t) = Head(stack[t]) /\ Top(t) \in Frames
<1>1. stack[t] \in Seq(Frames) /\ stack[t] # <<>>
  BY DEF TypeOK, Top
<1> QED BY <1>1, HeadTailProperties DEF Top

-----------------------------------------------------------------------------
(* Types. *)

\* The frames the steps of launch, run and halt put on a stack.
LEMMA FramesAre ==
  /\ {"launch:pool", "launch:receive", "launch:loop", "launch:timer", "launch:store",
      "run:wait", "returned", "run:waiting", "run:woken", "run:check", "halt:undo",
      "halt:wake", "halt:poll", "halt:close", "halt:emit", "halt:cancel", "halt:join",
      "halt:notify", "send", "receive"} \subseteq Frames
  /\ "none" \notin Frames
  /\ <<>> \in Seq(Frames) /\ <<"returned">> \in Seq(Frames)
BY DEF Frames, HaltFrames, Locked, LaunchFrames, RunFrames


\* Types after the steps of the launching thread ...
LEMMA LaunchTypes == ASSUME TypeOK, LauncherStep \/ RunSpuriousWake PROVE TypeOK'
<1> USE FramesAre
<1>0. Launcher \in Threads
  BY DEF Threads
<1>2. CASE LaunchSend
  <2>1. stack' \in [Threads -> Seq(Frames)]
    BY <1>0, <1>2, TopIs, GotoEffect DEF LaunchSend
  <2> QED BY <1>2, <2>1 DEF LaunchSend, Send, TypeOK, flags, io, timers, loops
<1>3. CASE LaunchPool
  <2>1. stack' \in [Threads -> Seq(Frames)]
    BY <1>0, <1>3, TopIs, GotoEffect DEF LaunchPool
  <2> QED BY <1>3, <2>1 DEF LaunchPool, TypeOK, flags, io, timers, loops, history
<1>4. CASE LaunchReceive
  <2>1. stack' \in [Threads -> Seq(Frames)]
    BY <1>0, <1>4, TopIs, GotoEffect DEF LaunchReceive
  <2>2. ready' \in Seq(Handlers)
    BY <1>4, AppendProperties DEF LaunchReceive, TypeOK, Handlers
  <2> QED BY <1>4, <2>1, <2>2 DEF LaunchReceive, TypeOK, flags, io, timers, history, ReceivePlaces
<1>5. CASE LaunchLoop
  <2>1. stack' \in [Threads -> Seq(Frames)]
    BY <1>0, <1>5, TopIs, GotoEffect DEF LaunchLoop
  <2>2. ready' \in Seq(Handlers)
    BY <1>5, AppendProperties DEF LaunchLoop, TypeOK, Handlers
  <2> QED BY <1>5, <2>1, <2>2 DEF LaunchLoop, TypeOK, flags, io, timers, history, SendPlaces
<1>6. CASE LaunchTimer
  <2>1. stack' \in [Threads -> Seq(Frames)]
    BY <1>0, <1>6, TopIs, GotoEffect DEF LaunchTimer
  <2> QED BY <1>6, <2>1 DEF LaunchTimer, TypeOK, flags, io, loops, history
<1>7. CASE LaunchStore
  <2>1. stack' \in [Threads -> Seq(Frames)]
    BY <1>0, <1>7, TopIs, GotoEffect DEF LaunchStore
  <2> QED BY <1>7, <2>1 DEF LaunchStore, TypeOK, flags, io, loops, history
<1>8. CASE RunWait \/ RunSpuriousWake \/ RunWoken
  <2>1. stack' \in [Threads -> Seq(Frames)]
    BY <1>0, <1>8, TopIs, GotoEffect DEF RunWait, RunSpuriousWake, RunWoken
  <2> QED BY <1>8, <2>1 DEF RunWait, RunSpuriousWake, RunWoken, TypeOK, flags, io, timers,
                            loops, history
<1>9. CASE RunCheck
  <2>1. stack' \in [Threads -> Seq(Frames)] /\ m_halting' \in BOOLEAN
    <3>1. CASE m_stopped
      BY <1>0, <1>9, <3>1, TopIs, GotoEffect DEF RunCheck, TypeOK
    <3>2. CASE ~m_stopped
      BY <1>0, <1>9, <3>2, EnterEffect DEF RunCheck, TypeOK
    <3> QED BY <3>1, <3>2
  <2> QED BY <1>9, <2>1 DEF RunCheck, TypeOK, io, timers, loops, history
<1> QED BY <1>2, <1>3, <1>4, <1>5, <1>6, <1>7, <1>8, <1>9 DEF LauncherStep, Launch

\* ... of halt() ...
LEMMA HaltTypes == ASSUME TypeOK, NEW t \in Threads, Halt(t) PROVE TypeOK'
<1> USE FramesAre
<1>1. CASE HaltPolled(t) \/ HaltReturn(t)
  <2>1. stack' \in [Threads -> Seq(Frames)]
    BY <1>1, TopIs, UnlockEffect DEF HaltPolled, HaltReturn
  <2> QED BY <1>1, <2>1 DEF HaltPolled, HaltReturn, Unlock, TypeOK, flags, io, timers, loops, history
<1>2. CASE HaltLock(t)
  <2>1. stack' \in [Threads -> Seq(Frames)]
    BY <1>2, TopIs, GotoEffect DEF HaltLock
  <2>2. m_stopped' \in BOOLEAN /\ halt_mutex' \in Threads \cup {NoThread}
    BY <1>2 DEF HaltLock
  <2>3. UNCHANGED <<m_halting, m_disconnect_emitted, pool, ready, io, timers, loops, history>>
    BY <1>2 DEF HaltLock
  <2> QED BY <2>1, <2>2, <2>3 DEF TypeOK, io, timers, loops, history
<1>3. CASE HaltUndo(t)
  <2>1. stack' \in [Threads -> Seq(Frames)]
    BY <1>3, TopIs, GotoEffect DEF HaltUndo
  <2>2. m_stopped' \in BOOLEAN /\ m_halting' \in BOOLEAN
    BY <1>3 DEF HaltUndo
  <2>3. UNCHANGED <<m_disconnect_emitted, halt_mutex, pool, ready, io, timers, loops, history>>
    BY <1>3 DEF HaltUndo
  <2> QED BY <2>1, <2>2, <2>3 DEF TypeOK, io, timers, loops, history
<1>4. CASE HaltWake(t)
  <2>1. stack' \in [Threads -> Seq(Frames)]
    BY <1>4, TopIs, GotoEffect DEF HaltWake
  <2> QED BY <1>4, <2>1 DEF HaltWake, TypeOK, flags, io, timers, loops, history
<1>5. CASE HaltClose(t)
  <2>1. stack' \in [Threads -> Seq(Frames)]
    BY <1>5, TopIs, GotoEffect DEF HaltClose
  <2> QED BY <1>5, <2>1 DEF HaltClose, TypeOK, flags, timers, loops, history
<1>6. CASE HaltEmit(t)
  <2>1. stack' \in [Threads -> Seq(Frames)]
    BY <1>6, TopIs, GotoEffect DEF HaltEmit
  <2>2. m_disconnect_emitted' \in BOOLEAN /\ disconnects' \in Nat
    BY <1>6 DEF HaltEmit, TypeOK
  <2>3. UNCHANGED <<m_stopped, m_halting, halt_mutex, pool, ready, io, timers, loops, sends,
                    full_halts>>
    BY <1>6 DEF HaltEmit
  <2> QED BY <2>1, <2>2, <2>3 DEF TypeOK, io, timers, loops
<1>7. CASE HaltCancel(t)
  <2>1. stack' \in [Threads -> Seq(Frames)]
    BY <1>7, TopIs, GotoEffect DEF HaltCancel
  <2>2. timer' \in {"off", "armed", "fired", "cancelled"} /\ sync' \in {"off", "active", "cancelled"}
    BY <1>7 DEF HaltCancel, CancelTimer, TypeOK
  <2>3. m_halt_action' \in BOOLEAN
    BY <1>7 DEF HaltCancel
  <2>4. UNCHANGED <<flags, halt_mutex, pool, ready, io, loops, history>>
    BY <1>7 DEF HaltCancel
  <2> QED BY <2>1, <2>2, <2>3, <2>4 DEF TypeOK, flags, io, loops, history
<1>8. CASE HaltJoin(t)
  <2>1. stack' \in [Threads -> Seq(Frames)]
    BY <1>8, TopIs, GotoEffect DEF HaltJoin
  <2> QED BY <1>8, <2>1 DEF HaltJoin, TypeOK, flags, io, timers, loops, history
<1> QED BY <1>1, <1>2, <1>3, <1>4, <1>5, <1>6, <1>7, <1>8 DEF Halt

\* The io_service's queue stays a queue of handlers.
LEMMA TailOfReady == ASSUME TypeOK, ready # <<>> PROVE Tail(ready) \in Seq(Handlers)
BY HeadTailProperties DEF TypeOK

\* Another handler at its end.
LEMMA ReadyPlus ==
  ASSUME TypeOK, NEW h \in Handlers
  PROVE  Append(ready, h) \in Seq(Handlers)
BY AppendProperties DEF TypeOK

\* The handlers the steps append.
LEMMA HandlersAre == {"send", "receive", "halt", "timer", "nack", "ack"} \subseteq Handlers
BY DEF Handlers

\* ... of a worker that takes a handler ...
LEMMA RunTypes ==
  ASSUME TypeOK, NEW w \in Workers, RunHalt(w) \/ RunAck(w) \/ RunCoroutine(w)
  PROVE  TypeOK'
<1>0. w \in Threads
  BY DEF Threads
<1>1. CASE RunHalt(w)
  <2>1. stack' \in [Threads -> Seq(Frames)] /\ m_halting' \in BOOLEAN
    <3>1. stack[w] \in Seq(Frames)
      BY <1>0 DEF TypeOK
    <3> QED BY <1>0, <1>1, <3>1, EnterEffect DEF RunHalt
  <2>2. ready' \in Seq(Handlers)
    BY <1>1, TailOfReady DEF RunHalt
  <2>3. UNCHANGED <<m_stopped, m_disconnect_emitted, halt_mutex, pool, io, timers, loops, history>>
    BY <1>1 DEF RunHalt
  <2> QED BY <2>1, <2>2, <2>3 DEF TypeOK, io, timers, loops, history
<1>2. CASE RunAck(w)
  <2>1. timer' \in {"off", "armed", "fired", "cancelled"} /\ sync' = "active" /\ m_halt_action' \in BOOLEAN
    BY <1>2 DEF RunAck, CancelTimer, TypeOK
  <2>2. ready' \in Seq(Handlers)
    BY <1>2, TailOfReady DEF RunAck
  <2>3. UNCHANGED <<flags, halt_mutex, stack, pool, io, loops, history>>
    BY <1>2 DEF RunAck
  <2> QED BY <2>1, <2>2, <2>3 DEF TypeOK, flags, io, loops, history
<1>3. CASE RunCoroutine(w)
  <2>1. stack' \in [Threads -> Seq(Frames)]
    <3>1. Head(ready) \in Frames
      BY <1>3, FramesAre DEF RunCoroutine
    <3> QED BY <1>0, <1>3, <3>1, CallEffect DEF RunCoroutine
  <2>2. ready' \in Seq(Handlers)
    BY <1>3, TailOfReady DEF RunCoroutine
  <2>3. UNCHANGED <<flags, halt_mutex, pool, io, timers, loops, history>>
    BY <1>3 DEF RunCoroutine
  <2> QED BY <2>1, <2>2, <2>3 DEF TypeOK, flags, io, timers, loops, history
<1> QED BY <1>1, <1>2, <1>3

\* ... of the send loop ...
LEMMA SendTypes == ASSUME TypeOK, NEW w \in Workers, SendStep(w) PROVE TypeOK'
<1>0. w \in Threads
  BY DEF Threads
<1>1. CASE SendTop(w)
  <2>1. send_pc' \in SendPlaces
    BY <1>1 DEF SendTop, SendPlaces
  <2>2. UNCHANGED <<sendUnchanged, stack, ready, io>>
    BY <1>1 DEF SendTop
  <2> QED BY <2>1, <2>2 DEF TypeOK, sendUnchanged, flags, io, timers
<1>2. CASE SendInNext(w)
  <2>1. UNCHANGED <<sendUnchanged, stack, ready, io, send_pc>>
    BY <1>2 DEF SendInNext
  <2> QED BY <2>1 DEF TypeOK, sendUnchanged, flags, io, timers
<1>3. CASE SendFetched(w)
  <2>1. send_pc' \in SendPlaces
    BY <1>3 DEF SendFetched, SendPlaces
  <2>2. UNCHANGED <<sendUnchanged, stack, ready, io>>
    BY <1>3 DEF SendFetched
  <2> QED BY <2>1, <2>2 DEF TypeOK, sendUnchanged, flags, io, timers
<1>4. CASE SendWrite(w)
  <2>1. send_pc' \in SendPlaces
    BY <1>4 DEF SendWrite, SendPlaces
  <2>2. stack' \in [Threads -> Seq(Frames)]
    BY <1>0, <1>4, TopIs, ReturnEffect DEF SendWrite
  <2>3. UNCHANGED <<sendUnchanged, ready, io>>
    BY <1>4 DEF SendWrite
  <2> QED BY <2>1, <2>2, <2>3 DEF TypeOK, sendUnchanged, flags, io, timers
<1>5. CASE SendWritten(w)
  <2>1. send_pc' \in SendPlaces
    BY <1>5 DEF SendWritten, SendPlaces
  <2>2. result' \in [write : {"none", "ok", "error", "try_again"},
                     read : {"none", "ack", "nack", "other", "corrupt", "error"}]
    BY <1>5 DEF SendWritten, TypeOK
  <2>3. UNCHANGED <<sendUnchanged, stack, ready, socket, peer, received>>
    BY <1>5 DEF SendWritten
  <2> QED BY <2>1, <2>2, <2>3 DEF TypeOK, sendUnchanged, flags, timers
<1>6. CASE SendExit(w)
  <2>1. send_pc' \in SendPlaces
    BY <1>6 DEF SendExit, SendPlaces
  <2>2. stack' \in [Threads -> Seq(Frames)]
    BY <1>0, <1>6, TopIs, ReturnEffect DEF SendExit, ExitLoop
  <2>3. ready' \in Seq(Handlers)
    BY <1>6, ReadyPlus, HandlersAre DEF SendExit, ExitLoop, TypeOK
  <2>4. UNCHANGED <<flags, halt_mutex, pool, io, timers, history, receive_pc>>
    BY <1>6 DEF SendExit, ExitLoop
  <2> QED BY <2>1, <2>2, <2>3, <2>4 DEF TypeOK, flags, io, timers, history
<1> QED BY <1>1, <1>2, <1>3, <1>4, <1>5, <1>6 DEF SendStep

\* ... of the receive loop ...
LEMMA ReceiveTypes == ASSUME TypeOK, NEW w \in Workers, ReceiveStep(w) PROVE TypeOK'
<1>0. w \in Threads
  BY DEF Threads
<1>1. CASE ReceiveTop(w)
  <2>1. receive_pc' \in ReceivePlaces
    BY <1>1 DEF ReceiveTop, ReceivePlaces
  <2>2. stack' \in [Threads -> Seq(Frames)]
    BY <1>0, <1>1, TopIs, ReturnEffect DEF ReceiveTop, TypeOK
  <2>3. UNCHANGED <<flags, halt_mutex, pool, ready, io, timers, send_pc, history>>
    BY <1>1 DEF ReceiveTop
  <2> QED BY <2>1, <2>2, <2>3 DEF TypeOK, flags, io, timers, history
<1>2. CASE ReceiveRead(w)
  <2>1. receive_pc' \in ReceivePlaces
    BY <1>2 DEF ReceiveRead, ReceivePlaces
  <2>2. stack' \in [Threads -> Seq(Frames)]
    BY <1>0, <1>2, TopIs, ReturnEffect DEF ReceiveRead, TypeOK
  <2>3. ready' \in Seq(Handlers)
    BY <1>2, ReadyPlus, HandlersAre DEF ReceiveRead, TypeOK
  <2>4. result' \in [write : {"none", "ok", "error", "try_again"},
                     read : {"none", "ack", "nack", "other", "corrupt", "error"}]
    BY <1>2 DEF ReceiveRead, TypeOK
  <2>5. UNCHANGED <<flags, halt_mutex, pool, socket, peer, received, timers, send_pc, history>>
    BY <1>2 DEF ReceiveRead
  <2> QED BY <2>1, <2>2, <2>3, <2>4, <2>5 DEF TypeOK, flags, timers, history
<1>3. CASE ReceiveResynced(w)
  <2>1. receive_pc' \in ReceivePlaces
    BY <1>3 DEF ReceiveResynced, ReceivePlaces
  <2>2. result' \in [write : {"none", "ok", "error", "try_again"},
                     read : {"none", "ack", "nack", "other", "corrupt", "error"}]
    BY <1>3 DEF ReceiveResynced, TypeOK
  <2>3. UNCHANGED <<flags, halt_mutex, stack, pool, ready, socket, peer, received, timers, send_pc, history>>
    BY <1>3 DEF ReceiveResynced
  <2> QED BY <2>1, <2>2, <2>3 DEF TypeOK, flags, timers, history
<1>4. CASE ReceiveExit(w)
  <2>1. receive_pc' \in ReceivePlaces
    BY <1>4 DEF ReceiveExit, ReceivePlaces
  <2>2. stack' \in [Threads -> Seq(Frames)]
    BY <1>0, <1>4, TopIs, ReturnEffect DEF ReceiveExit, ExitLoop
  <2>3. ready' \in Seq(Handlers)
    BY <1>4, ReadyPlus, HandlersAre DEF ReceiveExit, ExitLoop, TypeOK
  <2>4. UNCHANGED <<flags, halt_mutex, pool, io, timers, history, send_pc>>
    BY <1>4 DEF ReceiveExit, ExitLoop
  <2> QED BY <2>1, <2>2, <2>3, <2>4 DEF TypeOK, flags, io, timers, history
<1> QED BY <1>1, <1>2, <1>3, <1>4 DEF ReceiveStep

\* The io_service, the network, the clock, and the calls of other threads.
Environment ==
  \/ \E w \in Workers : SyncTick(w)
  \/ \E c \in Callers : CallHalt(c)
  \/ UserSend \/ SendSpuriousWake
  \/ WriteCompletes \/ ReadCompletes \/ ReadFails \/ PeerCloses \/ TimerExpires

\* ... and of everything else.
LEMMA EnvironmentTypes == ASSUME TypeOK, Environment PROVE TypeOK'
<1>1. ASSUME NEW w \in Workers, SyncTick(w) PROVE TypeOK'
  BY <1>1 DEF SyncTick, Send, TypeOK, flags, io, timers, loops
<1>2. CASE UserSend
  BY <1>2 DEF UserSend, Send, TypeOK, flags, io, timers, loops
<1>3. CASE SendSpuriousWake
  BY <1>3 DEF SendSpuriousWake, TypeOK, sendUnchanged, flags, io, timers
<1>4. ASSUME NEW c \in Callers, CallHalt(c) PROVE TypeOK'
  <2>1. stack' \in [Threads -> Seq(Frames)] /\ m_halting' \in BOOLEAN
    BY <1>4, EnterEffect, FramesAre DEF CallHalt, Threads
  <2>2. UNCHANGED <<m_stopped, m_disconnect_emitted, halt_mutex, pool, ready, io, timers, loops, history>>
    BY <1>4 DEF CallHalt
  <2> QED BY <2>1, <2>2 DEF TypeOK, io, timers, loops, history
<1>5. CASE WriteCompletes
  <2>1. ready' \in Seq(Handlers) /\ send_pc' \in SendPlaces
    BY <1>5, ReadyPlus, HandlersAre DEF WriteCompletes, SendPlaces
  <2>2. result' \in [write : {"none", "ok", "error", "try_again"},
                     read : {"none", "ack", "nack", "other", "corrupt", "error"}]
    BY <1>5, NodeBoundsAssumption DEF WriteCompletes, TypeOK
  <2>3. UNCHANGED <<ioUnchanged, socket, peer, received, receive_pc>>
    BY <1>5 DEF WriteCompletes
  <2> QED BY <2>1, <2>2, <2>3 DEF TypeOK, ioUnchanged, flags, timers, history
<1>6. ASSUME NEW r \in {"ack", "nack", "other", "corrupt", "error"}, ReadDone(r), received' \in Nat
      PROVE  TypeOK'
  <2>1. ready' \in Seq(Handlers) /\ receive_pc' \in ReceivePlaces
    BY <1>6, ReadyPlus, HandlersAre DEF ReadDone, ReceivePlaces
  <2>2. result' \in [write : {"none", "ok", "error", "try_again"},
                     read : {"none", "ack", "nack", "other", "corrupt", "error"}]
    BY <1>6 DEF ReadDone, TypeOK
  <2>3. UNCHANGED <<ioUnchanged, socket, peer, send_pc>>
    BY <1>6 DEF ReadDone
  <2> QED BY <1>6, <2>1, <2>2, <2>3 DEF TypeOK, ioUnchanged, flags, timers, history
<1>7. CASE ReadCompletes
  BY <1>6, <1>7 DEF ReadCompletes, TypeOK
<1>8. CASE ReadFails
  BY <1>6, <1>8 DEF ReadFails, TypeOK
<1>9. CASE PeerCloses
  BY <1>9 DEF PeerCloses, TypeOK, ioUnchanged, flags, timers, history, loops
<1>10. CASE TimerExpires
  <2>1. ready' \in Seq(Handlers) /\ timer' = "fired"
    BY <1>10, ReadyPlus, HandlersAre DEF TimerExpires
  <2>2. UNCHANGED <<flags, halt_mutex, stack, pool, io, m_halt_action, sync, loops, history>>
    BY <1>10 DEF TimerExpires
  <2> QED BY <2>1, <2>2 DEF TypeOK, flags, io, loops, history
<1> QED BY <1>1, <1>2, <1>3, <1>4, <1>5, <1>7, <1>8, <1>9, <1>10 DEF Environment

\* The steps, regrouped.
LEMMA NextIs ==
  Next <=> \/ \E t \in Threads : Halt(t)
           \/ \E w \in Workers : WorkerStep(w)
           \/ LauncherStep \/ RunSpuriousWake
           \/ Environment
BY Zenon DEF Next, Environment

\* Every step keeps the types ...
LEMMA TypeNext == TypeOK /\ [Next]_vars => TypeOK'
<1>1. CASE UNCHANGED vars
  BY <1>1 DEF vars, flags, io, timers, loops, history, TypeOK
<1>2. ASSUME TypeOK, NEW w \in Workers, WorkerStep(w) PROVE TypeOK'
  BY <1>2, RunTypes, SendTypes, ReceiveTypes DEF WorkerStep
<1> QED BY <1>1, <1>2, NextIs, LaunchTypes, HaltTypes, EnvironmentTypes

\* ... the node starts with.
LEMMA TypeInit == Init => TypeOK
<1> SUFFICES ASSUME Init PROVE TypeOK
  OBVIOUS
<1>1. stack \in [Threads -> Seq(Frames)]
  <2>1. <<"launch:send">> \in Seq(Frames) /\ <<>> \in Seq(Frames)
    BY DEF Frames, LaunchFrames
  <2> QED BY <2>1 DEF Init
<1>2. ready \in Seq(Handlers)
  BY DEF Init
<1>3. result \in [write : {"none", "ok", "error", "try_again"},
                 read : {"none", "ack", "nack", "other", "corrupt", "error"}]
  BY DEF Init
<1> QED BY <1>1, <1>2, <1>3 DEF Init, TypeOK, SendPlaces, ReceivePlaces

\* Every variable of the node keeps its type: the flags, the mutex's owner, the
\* threads' stacks of calls, the io_service's handlers and the loops' positions.
THEOREM TypeCorrect == Spec => []TypeOK
BY TypeInit, TypeNext, PTL DEF Spec

-----------------------------------------------------------------------------
(* What the threads may be executing. *)

\* A step of one thread leaves the stacks well formed if it does so for that
\* thread's own.
LEMMA OneStackChanges ==
  ASSUME Stacks, NEW t \in Threads, \A u \in Threads : u # t => stack'[u] = stack[u],
         t \in Workers => WorkerStack(t)',
         t \in Callers => CallerStack(t)',
         t = Launcher => LauncherStack'
  PROVE  Stacks'
<1>1. ASSUME NEW w \in Workers PROVE WorkerStack(w)'
  <2>1. CASE w = t
    BY <2>1
  <2>2. CASE w # t
    BY <2>2 DEF Stacks, WorkerStack, Threads
  <2> QED BY <2>1, <2>2
<1>2. ASSUME NEW c \in Callers PROVE CallerStack(c)'
  <2>1. CASE c = t
    BY <2>1
  <2>2. CASE c # t
    BY <2>2 DEF Stacks, CallerStack, Threads
  <2> QED BY <2>1, <2>2
<1>3. LauncherStack'
  <2>1. CASE t = Launcher
    BY <2>1
  <2>2. CASE t # Launcher
    BY <2>2 DEF Stacks, LauncherStack, Threads
  <2> QED BY <2>1, <2>2
<1> QED BY <1>1, <1>2, <1>3 DEF Stacks

\* Where a frame can be innermost.
LEMMA TopOfThread ==
  ASSUME TypeOK, Stacks, NEW t \in Threads, Top(t) # "none"
  PROVE  /\ stack[t] # <<>> /\ Top(t) = Head(stack[t])
         /\ t \in Workers =>
              /\ Top(t) \in {"halt:lock", "halt:undo", "halt:poll", "send", "receive"}
              /\ Tail(stack[t]) \in Seq({"halt:poll"})
         /\ t \in Callers => Top(t) \in OutsideHalt /\ Tail(stack[t]) = <<>>
         /\ t = Launcher =>
              \/ Top(t) \in LaunchFrames \cup RunFrames /\ Tail(stack[t]) = <<>>
              \/ Top(t) \in OutsideHalt /\ Tail(stack[t]) = <<"returned">>
<1>1. stack[t] # <<>> /\ Top(t) = Head(stack[t])
  BY TopIs
<1> QED BY <1>1 DEF Stacks, WorkerStack, CallerStack, LauncherStack

\* halt() going on from one of its frames to another.
LEMMA HaltStacks ==
  ASSUME TypeOK, Stacks, NEW t \in Threads, Top(t) \in HaltFrames, NEW g \in HaltFrames, Goto(t, g),
         t \in Workers => g \in {"halt:undo", "halt:poll"},
         t \notin Workers => g \in OutsideHalt
  PROVE  Stacks'
<1>1. Top(t) # "none" /\ g \in Frames
  BY DEF HaltFrames, Locked, Frames
<1>2. stack[t] # <<>>
  BY <1>1, TopIs
<1>3. /\ stack'[t] # <<>> /\ Head(stack'[t]) = g /\ Tail(stack'[t]) = Tail(stack[t])
      /\ \A u \in Threads : u # t => stack'[u] = stack[u]
  BY <1>1, <1>2, GotoEffect
<1>4. t \in Workers => WorkerStack(t)'
  BY <1>1, <1>3, TopOfThread DEF WorkerStack
<1>5. t \in Callers => CallerStack(t)'
  BY <1>1, <1>3, TopOfThread, ThreadsAssumption DEF CallerStack, Outsiders
<1>6. t = Launcher => LauncherStack'
  <2>1. Top(t) \notin LaunchFrames \cup RunFrames
    BY DEF HaltFrames, Locked, LaunchFrames, RunFrames
  <2> QED BY <1>1, <1>3, <2>1, TopOfThread, ThreadsAssumption DEF LauncherStack, Outsiders
<1> QED BY <1>3, <1>4, <1>5, <1>6, OneStackChanges

\* The tail of a stack of polls.
LEMMA PollsBelow ==
  ASSUME NEW s \in Seq({"halt:poll"}), s # <<>>
  PROVE  Head(s) = "halt:poll" /\ Tail(s) \in Seq({"halt:poll"})
BY HeadTailProperties

\* The end of halt(), which takes a waiting run() along.
LEMMA UnlockStacks ==
  ASSUME TypeOK, Stacks, NEW t \in Threads, Top(t) \in {"halt:poll", "halt:notify"}, Unlock(t)
  PROVE  /\ Stacks' /\ stack'[t] = Tail(stack[t])
         /\ \A u \in Threads : u # t =>
              \/ stack'[u] = stack[u]
              \/ u = Launcher /\ Top(u) = "run:waiting" /\ stack'[u] = <<"run:woken">>
<1>1. Top(t) # "none"
  OBVIOUS
<1>2. /\ stack'[t] = Tail(stack[t])
      /\ \A u \in Threads : u # t =>
              stack'[u] = IF Top(u) = "run:waiting" THEN <<"run:woken">> ELSE stack[u]
  BY <1>1, TopIs, UnlockEffect
<1>3. ASSUME NEW u \in Threads, Top(u) = "run:waiting" PROVE u = Launcher
  BY <1>3, TopOfThread DEF Threads, OutsideHalt, HaltFrames, Locked
<1>4. ASSUME NEW w \in Workers PROVE WorkerStack(w)'
  <2>0. w \in Threads /\ w # Launcher
    BY ThreadsAssumption DEF Threads, Outsiders
  <2>1. CASE w = t
    BY <1>1, <1>2, <2>1, TopOfThread, PollsBelow DEF WorkerStack
  <2>2. CASE w # t
    BY <1>2, <1>3, <2>0, <2>2 DEF Stacks, WorkerStack
  <2> QED BY <2>1, <2>2
<1>5. ASSUME NEW c \in Callers PROVE CallerStack(c)'
  <2>0. c \in Threads /\ c # Launcher
    BY ThreadsAssumption DEF Threads, Outsiders
  <2>1. CASE c = t
    BY <1>1, <1>2, <2>1, TopOfThread DEF CallerStack
  <2>2. CASE c # t
    BY <1>2, <1>3, <2>0, <2>2 DEF Stacks, CallerStack
  <2> QED BY <2>1, <2>2
<1>6. LauncherStack'
  <2>0. Launcher \in Threads
    BY DEF Threads
  <2>1. CASE t = Launcher
    <3>1. Tail(stack[t]) = <<"returned">>
      BY <1>1, <2>1, TopOfThread DEF LaunchFrames, RunFrames
    <3>2. /\ <<"returned">> # <<>> /\ Head(<<"returned">>) = "returned"
          /\ Tail(<<"returned">>) = <<>> /\ "returned" \in RunFrames
      BY DEF RunFrames
    <3> QED BY <1>2, <2>1, <3>1, <3>2 DEF LauncherStack
  <2>2. CASE t # Launcher /\ Top(Launcher) = "run:waiting"
    <3>1. stack'[Launcher] = <<"run:woken">>
      BY <1>2, <2>0, <2>2
    <3>2. /\ <<"run:woken">> # <<>> /\ Head(<<"run:woken">>) = "run:woken"
          /\ Tail(<<"run:woken">>) = <<>> /\ "run:woken" \in RunFrames
      BY DEF RunFrames
    <3> QED BY <3>1, <3>2 DEF LauncherStack
  <2>3. CASE t # Launcher /\ Top(Launcher) # "run:waiting"
    BY <1>2, <2>0, <2>3 DEF Stacks, LauncherStack
  <2> QED BY <2>1, <2>2, <2>3
<1>7. Stacks'
  BY <1>4, <1>5, <1>6 DEF Stacks
<1> QED BY <1>2, <1>3, <1>7

\* Launcher going on within launch() and run().
LEMMA LauncherStacks ==
  ASSUME TypeOK, Stacks, Top(Launcher) \in LaunchFrames \cup RunFrames,
         NEW g \in LaunchFrames \cup RunFrames, Goto(Launcher, g)
  PROVE  Stacks' /\ Top(Launcher)' = g /\ \A u \in Threads : u # Launcher => stack'[u] = stack[u]
<1>0. Launcher \in Threads /\ Launcher \notin Workers /\ Launcher \notin Callers
  BY ThreadsAssumption DEF Threads, Outsiders
<1>1. Top(Launcher) # "none" /\ g \in Frames /\ Top(Launcher) \notin OutsideHalt
  BY DEF Frames, LaunchFrames, RunFrames, OutsideHalt, HaltFrames, Locked
<1>2. stack[Launcher] # <<>> /\ Tail(stack[Launcher]) = <<>>
  BY <1>0, <1>1, TopOfThread
<1>3. /\ stack'[Launcher] # <<>> /\ Head(stack'[Launcher]) = g
      /\ Tail(stack'[Launcher]) = Tail(stack[Launcher])
      /\ \A u \in Threads : u # Launcher => stack'[u] = stack[u]
  BY <1>0, <1>1, <1>2, GotoEffect
<1>4. LauncherStack'
  BY <1>2, <1>3 DEF LauncherStack
<1> QED BY <1>0, <1>3, <1>4, OneStackChanges DEF Top

-----------------------------------------------------------------------------
(* One owner at a time. *)

\* The innermost frame tells who is inside the guarded part of halt().
LEMMA HalterIsOnTop ==
  ASSUME TypeOK, Stacks, NEW t \in Threads
  PROVE  Halter(t) <=> Top(t) \in Guarded
<1>1. ASSUME Top(t) \in Guarded PROVE Halter(t)
  <2>1. stack[t] \in Seq(Frames) /\ stack[t] # <<>> /\ Top(t) = Head(stack[t])
    BY <1>1, TopIs DEF TypeOK, Guarded, HaltFrames, Locked
  <2>2. 1 \in DOMAIN stack[t] /\ stack[t][1] = Head(stack[t])
    BY <2>1, EmptySeq, LenProperties
  <2> QED BY <1>1, <2>1, <2>2 DEF Halter, Guarded
<1>2. ASSUME Halter(t) PROVE Top(t) \in Guarded
  <2>1. PICK i \in DOMAIN stack[t] : stack[t][i] \in Guarded
    BY <1>2 DEF Halter, Guarded
  <2>2. stack[t] \in Seq(Frames) /\ stack[t] # <<>> /\ i \in 1 .. Len(stack[t]) /\ Len(stack[t]) \in Nat
    BY <2>1, LenProperties DEF TypeOK
  <2>3. Top(t) = Head(stack[t])
    BY <2>2 DEF Top
  <2>4. CASE i = 1
    BY <2>1, <2>2, <2>3, <2>4
  <2>5. CASE i # 1
    <3>1. /\ i - 1 \in 1 .. Len(Tail(stack[t])) /\ stack[t][i] = Tail(stack[t])[i - 1]
          /\ Tail(stack[t]) # <<>>
      <4>1. /\ Len(Tail(stack[t])) = Len(stack[t]) - 1
            /\ \A j \in 1 .. Len(Tail(stack[t])) : Tail(stack[t])[j] = stack[t][j + 1]
        BY <2>2, HeadTailProperties
      <4>2. i - 1 \in 1 .. Len(Tail(stack[t])) /\ (i - 1) + 1 = i
        BY <2>2, <2>5, <4>1
      <4> QED BY <4>1, <4>2, EmptySeq
    <3>2. Top(t) # "none"
      BY <2>2, <2>3, HeadTailProperties, FramesAre
    <3>3. ASSUME t \in Workers PROVE FALSE
      <4>1. Tail(stack[t]) \in Seq({"halt:poll"})
        BY <3>2, <3>3, TopOfThread
      <4>2. stack[t][i] = "halt:poll"
        BY <3>1, <4>1, ElementOfSeq
      <4> QED BY <2>1, <4>2 DEF Guarded
    <3>4. ASSUME t \in Callers PROVE FALSE
      BY <3>1, <3>2, <3>4, TopOfThread
    <3>5. ASSUME t = Launcher PROVE FALSE
      <4>1. Tail(stack[t]) = <<"returned">>
        BY <3>1, <3>2, <3>5, TopOfThread
      <4>2. Len(<<"returned">>) = 1 /\ <<"returned">>[1] = "returned"
        OBVIOUS
      <4>3. i - 1 = 1
        BY <2>2, <3>1, <4>1, <4>2
      <4>4. stack[t][i] = "returned"
        BY <3>1, <4>1, <4>2, <4>3
      <4> QED BY <2>1, <4>4 DEF Guarded, HaltFrames, Locked
    <3> QED BY <3>3, <3>4, <3>5 DEF Threads
  <2> QED BY <2>4, <2>5
<1> QED BY <1>1, <1>2

\* Steps that concern no guarded frame keep what is known of halting.
LEMMA Quiet ==
  ASSUME HaltInv,
         \A t \in Threads : \/ Top(t)' = Top(t)
                            \/ Top(t) \notin Guarded /\ Top(t)' \notin Guarded,
         UNCHANGED <<flags, full_halts, disconnects, socket>>,
         full_halts > 0 \/ (\E t \in Threads : Top(t) = "halt:notify") => pool' = pool,
         \/ \A c \in Callers : stack'[c] = stack[c]
         \/ Top(Launcher)' \notin LaunchFrames,
         Top(Launcher)' \in LaunchFrames => Top(Launcher) \in LaunchFrames
  PROVE  OneHalter' /\ HaltProgress'
<1>1. OneHalter /\ HaltProgress
  BY DEF HaltInv
<1>2. \A t \in Threads : (Top(t)' \in Guarded <=> Top(t) \in Guarded)
                         /\ (Top(t)' \in Guarded => Top(t)' = Top(t))
  OBVIOUS
<1>3. OneHalter'
  BY <1>1, <1>2 DEF OneHalter, flags
<1>4. \A frames \in SUBSET Guarded : Halted(frames)' <=> Halted(frames)
  BY <1>2 DEF Halted
<1>5. /\ Guarded \ {"halt:lock"} \in SUBSET Guarded
      /\ {"halt:emit", "halt:cancel", "halt:join", "halt:notify"} \in SUBSET Guarded
      /\ {"halt:cancel", "halt:join", "halt:notify"} \in SUBSET Guarded
      /\ {"halt:notify"} \in SUBSET Guarded
  BY DEF Guarded, HaltFrames, Locked
<1>6. Halted({"halt:notify"})' => pool' = "joined"
  BY <1>1, <1>4, <1>5 DEF HaltProgress, Halted
<1>7. (full_halts' > 0 \/ \E c \in Callers : stack'[c] # <<>>) => Top(Launcher)' \notin LaunchFrames
  BY <1>1 DEF HaltProgress
<1> QED BY <1>1, <1>3, <1>4, <1>5, <1>6, <1>7 DEF HaltProgress, flags

\* A thread inside the guarded part of halt() is the only one there, and no
\* halt has succeeded.
LEMMA Alone ==
  ASSUME HaltInv, NEW t \in Threads, Top(t) \in Guarded
  PROVE  /\ full_halts = 0 /\ m_halting
         /\ \A u \in Threads : Top(u) \in Guarded => u = t
BY DEF HaltInv, OneHalter, HaltProgress

\* halt() going on from a guarded frame.
LEMMA HaltGoesOn ==
  ASSUME HaltInv, NEW t \in Threads, Top(t) \in Guarded, NEW g \in HaltFrames, Goto(t, g),
         t \in Workers => g \in {"halt:undo", "halt:poll"},
         t \notin Workers => g \in OutsideHalt
  PROVE  /\ Stacks' /\ Top(t)' = g
         /\ \A u \in Threads : u # t => Top(u)' = Top(u)
         /\ (\E c \in Callers : stack'[c] # <<>>) => Top(Launcher)' \notin LaunchFrames
<1>0. TypeOK /\ Stacks /\ Top(t) \in HaltFrames /\ g \in Frames /\ Top(t) # "none"
  BY DEF HaltInv, Guarded, Frames, HaltFrames, Locked
<1>1. Stacks'
  BY <1>0, HaltStacks
<1>2. stack[t] # <<>>
  BY <1>0, TopIs
<1>3. Top(t)' = g /\ \A u \in Threads : u # t => stack'[u] = stack[u] /\ Top(u)' = Top(u)
  BY <1>0, <1>2, GotoEffect DEF Top
<1>4. ASSUME NEW c \in Callers, stack'[c] # <<>> PROVE Top(Launcher)' \notin LaunchFrames
  <2>1. stack[c] # <<>>
    BY <1>2, <1>3, <1>4 DEF Threads
  <2>2. Top(Launcher) \notin LaunchFrames
    BY <2>1 DEF HaltInv, HaltProgress
  <2> QED BY <1>3, <2>2 DEF Threads, LaunchFrames, HaltFrames, Locked
<1> QED BY <1>1, <1>3, <1>4

\* When it stays in the guarded part it stays the owner.
LEMMA StaysOwner ==
  ASSUME HaltInv, NEW t \in Threads, Top(t) \in Guarded, Top(t)' \in Guarded,
         \A u \in Threads : u # t => Top(u)' = Top(u),
         m_halting', UNCHANGED full_halts
  PROVE  /\ OneHalter' /\ full_halts = 0
         /\ \A frames \in SUBSET Guarded : /\ Halted(frames)' <=> Top(t)' \in frames
                                           /\ Halted(frames) <=> Top(t) \in frames
<1>1. full_halts = 0 /\ \A u \in Threads : Top(u) \in Guarded => u = t
  BY Alone
<1>2. \A u \in Threads : Top(u)' \in Guarded => u = t
  BY <1>1
<1>3. OneHalter'
  BY <1>1, <1>2 DEF OneHalter
<1>4. ASSUME NEW frames \in SUBSET Guarded
      PROVE  /\ Halted(frames)' <=> Top(t)' \in frames
             /\ Halted(frames) <=> Top(t) \in frames
  BY <1>1, <1>2 DEF Halted
<1> QED BY <1>1, <1>3, <1>4

\* The sets of frames that HaltProgress names.
LEMMA GuardedSets ==
  /\ Guarded \ {"halt:lock"} \in SUBSET Guarded
  /\ {"halt:emit", "halt:cancel", "halt:join", "halt:notify"} \in SUBSET Guarded
  /\ {"halt:cancel", "halt:join", "halt:notify"} \in SUBSET Guarded
  /\ {"halt:notify"} \in SUBSET Guarded
  /\ Guarded = {"halt:lock", "halt:undo", "halt:wake", "halt:close", "halt:emit", "halt:cancel",
                "halt:join", "halt:notify"}
  /\ Guarded \subseteq HaltFrames
  /\ OutsideHalt = Guarded \ {"halt:undo"}
BY DEF Guarded, OutsideHalt, HaltFrames, Locked

\* The steps of halt() keep the invariant of halting ...
LEMMA HaltStepInv == ASSUME HaltInv, NEW t \in Threads, Halt(t) PROVE HaltInv'
<1>0. TypeOK /\ Stacks /\ OneHalter /\ HaltProgress /\ TypeOK'
  BY HaltTypes DEF HaltInv
<1> USE DEF HaltInv
<1>1. CASE HaltLock(t)
  <2> DEFINE g == IF t \in Workers THEN "halt:undo" ELSE "halt:wake"
  <2>1. Top(t) = "halt:lock" /\ Goto(t, g) /\ m_stopped'
    BY <1>1 DEF HaltLock
  <2>2. UNCHANGED <<m_halting, m_disconnect_emitted, pool, io, history>>
    BY <1>1 DEF HaltLock
  <2>3. Top(t) \in Guarded /\ g \in Guarded /\ g \in HaltFrames
    BY <2>1, GuardedSets
  <2> HIDE DEF g
  <2>4. /\ Stacks' /\ Top(t)' = g
        /\ \A u \in Threads : u # t => Top(u)' = Top(u)
        /\ (\E c \in Callers : stack'[c] # <<>>) => Top(Launcher)' \notin LaunchFrames
    BY <2>1, <2>3, HaltGoesOn, GuardedSets DEF g
  <2>5. m_halting' /\ full_halts' = full_halts
    BY <2>2, <2>3, Alone DEF history
  <2>6. /\ OneHalter' /\ full_halts = 0
        /\ \A frames \in SUBSET Guarded : /\ Halted(frames)' <=> g \in frames
                                          /\ Halted(frames) <=> Top(t) \in frames
    BY <2>3, <2>4, <2>5, StaysOwner
  <2>7. g \notin {"halt:emit", "halt:cancel", "halt:join", "halt:notify"}
    BY DEF g
  <2> QED BY <1>0, <2>1, <2>2, <2>4, <2>5, <2>6, <2>7, GuardedSets
             DEF HaltProgress, history
<1>2. CASE HaltUndo(t)
  <2>1. Top(t) = "halt:undo" /\ Goto(t, "halt:poll") /\ ~m_stopped' /\ ~m_halting'
    BY <1>2 DEF HaltUndo
  <2>2. UNCHANGED <<m_disconnect_emitted, pool, io, history>>
    BY <1>2 DEF HaltUndo
  <2>3. Top(t) \in Guarded /\ "halt:poll" \in HaltFrames /\ "halt:poll" \notin Guarded
    BY <2>1, GuardedSets DEF HaltFrames, Locked
  <2>4. t \in Workers
    BY <1>0, <2>1, TopOfThread, GuardedSets DEF Threads, LaunchFrames, RunFrames
  <2>5. /\ Stacks' /\ Top(t)' = "halt:poll"
        /\ \A u \in Threads : u # t => Top(u)' = Top(u)
        /\ (\E c \in Callers : stack'[c] # <<>>) => Top(Launcher)' \notin LaunchFrames
    BY <2>1, <2>3, <2>4, HaltGoesOn
  <2>6. full_halts' = 0 /\ \A u \in Threads : Top(u)' \notin Guarded
    BY <2>2, <2>3, <2>5, Alone DEF history
  <2>7. \A frames \in SUBSET Guarded : ~Halted(frames)'
    BY <2>6 DEF Halted
  <2>8. OneHalter'
    BY <2>1, <2>6 DEF OneHalter
  <2> QED BY <1>0, <2>2, <2>5, <2>6, <2>7, <2>8, GuardedSets DEF HaltProgress, history
<1>3. CASE HaltPolled(t)
  <2>1. Top(t) = "halt:poll" /\ Unlock(t) /\ UNCHANGED <<flags, pool, io, history>>
    BY <1>3 DEF HaltPolled
  <2>2. /\ Stacks' /\ stack'[t] = Tail(stack[t])
        /\ \A u \in Threads : u # t =>
             \/ stack'[u] = stack[u]
             \/ u = Launcher /\ Top(u) = "run:waiting" /\ stack'[u] = <<"run:woken">>
    BY <1>0, <2>1, UnlockStacks
  <2>3. t \in Workers /\ t \notin Callers /\ t # Launcher
    BY <1>0, <2>1, TopOfThread, GuardedSets, ThreadsAssumption
       DEF Threads, Outsiders, LaunchFrames, RunFrames
  <2>4. Top(t)' \in {"none", "halt:poll"}
    BY <1>0, <2>1, <2>2, <2>3, TopOfThread, PollsBelow DEF Top
  <2>5. \A u \in Threads : u # t => \/ Top(u)' = Top(u)
                                    \/ Top(u) = "run:waiting" /\ Top(u)' = "run:woken"
    BY <2>2 DEF Top
  <2>6. \A u \in Threads : \/ Top(u)' = Top(u)
                           \/ Top(u) \notin Guarded /\ Top(u)' \notin Guarded
    BY <2>1, <2>4, <2>5, GuardedSets
  <2>7. Top(Launcher)' \in LaunchFrames => Top(Launcher) \in LaunchFrames
    BY <2>3, <2>5 DEF LaunchFrames, Threads
  <2>8. \A c \in Callers : stack'[c] = stack[c]
    BY <2>2, <2>3, ThreadsAssumption DEF Threads
  <2>9. UNCHANGED <<flags, full_halts, disconnects, socket, pool>>
    BY <2>1 DEF history, io
  <2>10. OneHalter' /\ HaltProgress'
    BY <2>6, <2>7, <2>8, <2>9, Quiet
  <2> QED BY <1>0, <2>2, <2>10
<1>4. CASE HaltReturn(t)
  <2>1. Top(t) = "halt:notify" /\ Unlock(t) /\ full_halts' = full_halts + 1
    BY <1>4 DEF HaltReturn
  <2>2. UNCHANGED <<flags, pool, io, disconnects>>
    BY <1>4 DEF HaltReturn
  <2>3. /\ Stacks' /\ stack'[t] = Tail(stack[t])
        /\ \A u \in Threads : u # t =>
             \/ stack'[u] = stack[u]
             \/ u = Launcher /\ Top(u) = "run:waiting" /\ stack'[u] = <<"run:woken">>
    BY <1>0, <2>1, UnlockStacks
  <2>4. /\ full_halts = 0 /\ m_halting /\ Top(t) \in Guarded
        /\ \A u \in Threads : Top(u) \in Guarded => u = t
    BY <2>1, Alone, GuardedSets
  <2>5. /\ t \in Callers => Top(t)' = "none"
        /\ t = Launcher => Top(t)' = "returned"
        /\ t \notin Workers
    <3>1. t \notin Workers
      BY <1>0, <2>1, TopOfThread
    <3>2. ASSUME t \in Callers PROVE Top(t)' = "none"
      BY <1>0, <2>1, <2>3, <3>2, TopOfThread DEF Top
    <3>3. ASSUME t = Launcher PROVE Top(t)' = "returned"
      <4>1. stack'[t] = <<"returned">>
        BY <1>0, <2>1, <2>3, <3>3, TopOfThread DEF LaunchFrames, RunFrames
      <4>2. <<"returned">> # <<>> /\ Head(<<"returned">>) = "returned"
        OBVIOUS
      <4> QED BY <4>1, <4>2 DEF Top
    <3> QED BY <3>1, <3>2, <3>3
  <2>6. \A u \in Threads : u # t => \/ Top(u)' = Top(u)
                                    \/ Top(u) = "run:waiting" /\ Top(u)' = "run:woken"
    BY <2>3 DEF Top
  <2>7. \A u \in Threads : Top(u)' \notin Guarded
    BY <2>4, <2>5, <2>6, GuardedSets DEF Threads
  <2>8. Top(Launcher)' \notin LaunchFrames
    <3>1. CASE t = Launcher
      BY <2>5, <3>1 DEF LaunchFrames
    <3>2. CASE t # Launcher
      <4>1. t \in Callers /\ stack[t] # <<>>
        BY <2>1, <2>5, <3>2, TopIs, <1>0 DEF Threads
      <4>2. Top(Launcher) \notin LaunchFrames
        BY <1>0, <4>1 DEF HaltProgress
      <4> QED BY <2>6, <3>2, <4>2 DEF LaunchFrames, Threads
    <3> QED BY <3>1, <3>2
  <2>9. /\ m_stopped /\ socket = "closed" /\ m_disconnect_emitted /\ pool = "joined"
        /\ disconnects = 1
    BY <1>0, <2>1, GuardedSets DEF HaltProgress, Halted
  <2>10. UNCHANGED <<m_stopped, m_halting, m_disconnect_emitted, pool, socket, disconnects>>
    BY <2>2 DEF flags, io
  <2>11. OneHalter'
    BY <2>1, <2>4, <2>7, <2>10 DEF OneHalter
  <2>12. HaltProgress'
    BY <2>1, <2>4, <2>8, <2>9, <2>10 DEF HaltProgress, Halted
  <2> QED BY <1>0, <2>3, <2>11, <2>12
<1>5. ASSUME NEW f \in {"halt:wake", "halt:close", "halt:emit", "halt:cancel", "halt:join"},
             NEW g \in {"halt:close", "halt:emit", "halt:cancel", "halt:join", "halt:notify"},
             Top(t) = f, Goto(t, g), UNCHANGED <<m_stopped, m_halting, full_halts>>
      PROVE  /\ Stacks' /\ Top(t)' = g /\ OneHalter' /\ full_halts = 0 /\ m_stopped
             /\ \A frames \in SUBSET Guarded : /\ Halted(frames)' <=> g \in frames
                                               /\ Halted(frames) <=> f \in frames
             /\ (\E c \in Callers : stack'[c] # <<>>) => Top(Launcher)' \notin LaunchFrames
  <2>1. f \in Guarded /\ g \in Guarded /\ g \in HaltFrames /\ g \in OutsideHalt
    BY GuardedSets
  <2>2. t \notin Workers
    BY <1>0, <1>5, TopOfThread
  <2>3. /\ Stacks' /\ Top(t)' = g
        /\ \A u \in Threads : u # t => Top(u)' = Top(u)
        /\ (\E c \in Callers : stack'[c] # <<>>) => Top(Launcher)' \notin LaunchFrames
    BY <1>5, <2>1, <2>2, HaltGoesOn
  <2>4. m_halting'
    BY <1>5, <2>1, Alone
  <2>5. /\ OneHalter' /\ full_halts = 0
        /\ \A frames \in SUBSET Guarded : /\ Halted(frames)' <=> g \in frames
                                          /\ Halted(frames) <=> f \in frames
    BY <1>5, <2>1, <2>3, <2>4, StaysOwner
  <2>6. m_stopped
    BY <1>0, <2>1, <2>5, GuardedSets DEF HaltProgress
  <2> QED BY <2>3, <2>5, <2>6
<1>6. CASE HaltWake(t)
  <2>1. Top(t) = "halt:wake" /\ Goto(t, "halt:close") /\ UNCHANGED <<flags, pool, io, history>>
    BY <1>6 DEF HaltWake
  <2> QED BY <1>0, <1>5, <2>1, GuardedSets DEF HaltProgress, flags, io, history
<1>7. CASE HaltClose(t)
  <2>1. Top(t) = "halt:close" /\ Goto(t, "halt:emit") /\ socket' = "closed"
        /\ UNCHANGED <<flags, pool, history>>
    BY <1>7 DEF HaltClose
  <2> QED BY <1>0, <1>5, <2>1, GuardedSets DEF HaltProgress, flags, history
<1>8. CASE HaltEmit(t)
  <2>1. Top(t) = "halt:emit" /\ Goto(t, "halt:cancel") /\ m_disconnect_emitted'
        /\ disconnects' = (IF m_disconnect_emitted THEN disconnects ELSE disconnects + 1)
        /\ UNCHANGED <<m_stopped, m_halting, pool, io, full_halts>>
    BY <1>8 DEF HaltEmit
  <2> QED BY <1>0, <1>5, <2>1, GuardedSets DEF HaltProgress, io
<1>9. CASE HaltCancel(t)
  <2>1. Top(t) = "halt:cancel" /\ Goto(t, "halt:join") /\ UNCHANGED <<flags, pool, io, history>>
    BY <1>9 DEF HaltCancel
  <2> QED BY <1>0, <1>5, <2>1, GuardedSets DEF HaltProgress, flags, io, history
<1>10. CASE HaltJoin(t)
  <2>1. Top(t) = "halt:join" /\ Goto(t, "halt:notify") /\ pool' = "joined"
        /\ UNCHANGED <<flags, io, history>>
    BY <1>10 DEF HaltJoin
  <2> QED BY <1>0, <1>5, <2>1, GuardedSets DEF HaltProgress, flags, io, history
<1> QED BY <1>1, <1>2, <1>3, <1>4, <1>6, <1>7, <1>8, <1>9, <1>10 DEF Halt

\* Launcher going on within launch() and run().
LEMMA LauncherGoesOn ==
  ASSUME HaltInv, Top(Launcher) \in LaunchFrames \cup RunFrames,
         NEW g \in LaunchFrames \cup RunFrames, Goto(Launcher, g),
         g \in LaunchFrames => Top(Launcher) \in LaunchFrames,
         UNCHANGED <<flags, full_halts, disconnects, socket>>,
         pool' = pool \/ Top(Launcher) \in LaunchFrames
  PROVE  Stacks' /\ OneHalter' /\ HaltProgress'
<1>0. /\ TypeOK /\ Stacks /\ OneHalter /\ HaltProgress
      /\ Launcher \in Threads /\ \A c \in Callers : c \in Threads /\ c # Launcher
  BY ThreadsAssumption DEF HaltInv, Threads
<1>1. /\ Stacks' /\ Top(Launcher)' = g
      /\ \A u \in Threads : u # Launcher => stack'[u] = stack[u]
  BY <1>0, LauncherStacks
<1>2. Top(Launcher) \notin Guarded /\ g \notin Guarded
  BY GuardedSets DEF LaunchFrames, RunFrames
<1>3. \A t \in Threads : \/ Top(t)' = Top(t)
                         \/ Top(t) \notin Guarded /\ Top(t)' \notin Guarded
  <2> TAKE t \in Threads
  <2>1. CASE t = Launcher
    BY <1>1, <1>2, <2>1
  <2>2. CASE t # Launcher
    BY <1>1, <2>2 DEF Top
  <2> QED BY <2>1, <2>2
<1>4. ASSUME full_halts > 0 \/ (\E t \in Threads : Top(t) = "halt:notify") PROVE pool' = pool
  <2>1. CASE full_halts > 0
    BY <1>0, <2>1 DEF HaltProgress
  <2>2. ASSUME NEW t \in Threads, Top(t) = "halt:notify" PROVE pool' = pool
    <3>1. t # Launcher
      BY <1>2, <2>2, GuardedSets
    <3>2. t \notin Workers
      BY <1>0, <2>2, TopOfThread
    <3>3. t \in Callers /\ stack[t] # <<>>
      BY <1>0, <2>2, <3>1, <3>2, TopIs DEF Threads
    <3> QED BY <1>0, <3>3 DEF HaltProgress
  <2> QED BY <1>4, <2>1, <2>2
<1>5. OneHalter' /\ HaltProgress'
  BY <1>0, <1>1, <1>3, <1>4, Quiet
<1> QED BY <1>1, <1>5

\* A first call of halt().
LEMMA Enters ==
  ASSUME HaltInv, NEW t \in Threads, ~m_halting, m_halting', Top(t)' = "halt:lock",
         \A u \in Threads : u # t => Top(u)' = Top(u),
         UNCHANGED <<m_stopped, m_disconnect_emitted, full_halts, disconnects, socket, pool>>,
         (\E c \in Callers : stack'[c] # <<>>) => Top(Launcher)' \notin LaunchFrames
  PROVE  OneHalter' /\ HaltProgress'
<1>1. /\ ~m_stopped /\ full_halts = 0 /\ \A u \in Threads : Top(u) \notin Guarded
      /\ disconnects = (IF m_disconnect_emitted THEN 1 ELSE 0)
  BY DEF HaltInv, OneHalter, HaltProgress
<1>2. \A u \in Threads : Top(u)' \in Guarded <=> u = t
  BY <1>1, GuardedSets
<1>3. OneHalter'
  BY <1>1, <1>2 DEF OneHalter
<1>4. \A frames \in SUBSET Guarded : Halted(frames)' <=> "halt:lock" \in frames
  BY <1>1, <1>2 DEF Halted
<1> QED BY <1>1, <1>3, <1>4, GuardedSets DEF HaltProgress

\* ... so do those of launch() and run() ...
LEMMA LauncherInv == ASSUME HaltInv, LauncherStep \/ RunSpuriousWake PROVE HaltInv'
<1>0. /\ TypeOK /\ Stacks /\ OneHalter /\ HaltProgress /\ TypeOK' /\ Launcher \in Threads
  BY LaunchTypes DEF HaltInv, Threads
<1> USE DEF HaltInv, LaunchFrames, RunFrames, flags, io, history
<1>1. CASE LaunchSend
  BY <1>0, <1>1, LauncherGoesOn DEF LaunchSend
<1>2. CASE LaunchPool
  BY <1>0, <1>2, LauncherGoesOn DEF LaunchPool
<1>3. CASE LaunchReceive
  BY <1>0, <1>3, LauncherGoesOn DEF LaunchReceive
<1>4. CASE LaunchLoop
  BY <1>0, <1>4, LauncherGoesOn DEF LaunchLoop
<1>5. CASE LaunchTimer
  BY <1>0, <1>5, LauncherGoesOn DEF LaunchTimer
<1>6. CASE LaunchStore
  <2>1. ASSUME NEW g \in {"run:wait", "returned"}, Goto(Launcher, g) PROVE HaltInv'
    BY <1>0, <1>6, <2>1, LauncherGoesOn DEF LaunchStore
  <2> QED BY <1>6, <2>1 DEF LaunchStore
<1>7. CASE RunWait
  BY <1>0, <1>7, LauncherGoesOn DEF RunWait
<1>8. CASE RunSpuriousWake
  BY <1>0, <1>8, LauncherGoesOn DEF RunSpuriousWake
<1>9. CASE RunWoken
  BY <1>0, <1>9, LauncherGoesOn DEF RunWoken
<1>10. CASE RunCheck
  <2>1. CASE m_stopped
    BY <1>0, <1>10, <2>1, LauncherGoesOn DEF RunCheck
  <2>2. CASE ~m_stopped
    <3>1. /\ Top(Launcher) = "run:check" /\ EnterHalt(Launcher, <<"returned">>)
          /\ UNCHANGED <<m_stopped, m_disconnect_emitted, full_halts, disconnects, socket, pool>>
      BY <1>10, <2>2 DEF RunCheck
    <3>2. <<"returned">> \in Seq(Frames)
      BY FramesAre
    <3>3. /\ m_halting'
          /\ \A u \in Threads : u # Launcher => stack'[u] = stack[u]
          /\ m_halting => stack'[Launcher] = <<"returned">>
          /\ ~m_halting => /\ stack'[Launcher] # <<>> /\ Head(stack'[Launcher]) = "halt:lock"
                           /\ Tail(stack'[Launcher]) = <<"returned">>
      BY <1>0, <3>1, <3>2, EnterEffect
    <3>4. /\ <<"returned">> # <<>> /\ Head(<<"returned">>) = "returned"
          /\ Tail(<<"returned">>) = <<>>
      OBVIOUS
    <3>5. \A u \in Threads : u # Launcher => Top(u)' = Top(u)
      BY <3>3 DEF Top
    <3>6. LauncherStack'
      BY <3>3, <3>4, GuardedSets DEF LauncherStack
    <3>7. Stacks'
      BY <1>0, <3>3, <3>6, OneStackChanges, ThreadsAssumption DEF Outsiders
    <3>8. Top(Launcher)' \notin LaunchFrames
      BY <3>3, <3>4 DEF Top
    <3>9. CASE m_halting
      <4>1. \A u \in Threads : \/ Top(u)' = Top(u)
                               \/ Top(u) \notin Guarded /\ Top(u)' \notin Guarded
        BY <3>1, <3>3, <3>4, <3>5, <3>9, GuardedSets DEF Top
      <4>2. OneHalter' /\ HaltProgress'
        <5>1. UNCHANGED <<flags, full_halts, disconnects, socket>> /\ pool' = pool
          BY <3>1, <3>3, <3>9, <1>0 DEF TypeOK
        <5> QED BY <3>8, <4>1, <5>1, Quiet
      <4> QED BY <1>0, <3>7, <4>2
    <3>10. CASE ~m_halting
      <4>1. Top(Launcher)' = "halt:lock"
        BY <3>3, <3>10 DEF Top
      <4>2. OneHalter' /\ HaltProgress'
        BY <1>0, <3>1, <3>3, <3>5, <3>8, <3>10, <4>1, Enters
      <4> QED BY <1>0, <3>7, <4>2
    <3> QED BY <3>9, <3>10
  <2> QED BY <2>1, <2>2
<1> QED BY <1>1, <1>2, <1>3, <1>4, <1>5, <1>6, <1>7, <1>8, <1>9, <1>10 DEF LauncherStep, Launch

\* A stack with a poll on top of polls, and the stack of a free worker.
LEMMA PollsOnly ==
  ASSUME NEW s \in Seq(Frames),
         s # <<>> => Head(s) = "halt:poll" /\ Tail(s) \in Seq({"halt:poll"})
  PROVE  s \in Seq({"halt:poll"})
<1>1. CASE s = <<>>
  BY <1>1
<1>2. CASE s # <<>>
  <2>1. /\ Len(s) \in Nat /\ Len(s) # 0 /\ s \in [1 .. Len(s) -> Frames] /\ Head(s) = s[1]
        /\ Len(Tail(s)) = Len(s) - 1
        /\ \A i \in 1 .. Len(Tail(s)) : Tail(s)[i] = s[i + 1]
    BY <1>2, LenProperties, EmptySeq, HeadTailProperties
  <2>2. ASSUME NEW i \in 1 .. Len(s) PROVE s[i] \in {"halt:poll"}
    <3>1. CASE i = 1
      BY <1>2, <2>1, <3>1
    <3>2. CASE i # 1
      <4>1. i - 1 \in 1 .. Len(Tail(s)) /\ (i - 1) + 1 = i
        BY <2>1, <3>2
      <4>2. Tail(s)[i - 1] \in {"halt:poll"}
        BY <1>2, <4>1, ElementOfSeq
      <4> QED BY <2>1, <4>1, <4>2
    <3> QED BY <3>1, <3>2
  <2>3. s \in [1 .. Len(s) -> {"halt:poll"}]
    BY <2>1, <2>2
  <2> QED BY <2>1, <2>3, SeqDef
<1> QED BY <1>1, <1>2

\* A worker that may take a handler is executing polls only.
LEMMA FreeWorker ==
  ASSUME TypeOK, Stacks, NEW w \in Workers, Top(w) \in {"none", "halt:poll"}
  PROVE  stack[w] \in Seq({"halt:poll"}) /\ stack[w] \in Seq(Frames)
<1>1. w \in Threads /\ stack[w] \in Seq(Frames)
  BY DEF Threads, TypeOK
<1>2. ASSUME stack[w] # <<>> PROVE Top(w) # "none"
  BY <1>1, <1>2, HeadTailProperties, FramesAre DEF Top
<1>3. stack[w] # <<>> => Head(stack[w]) = "halt:poll" /\ Tail(stack[w]) \in Seq({"halt:poll"})
  BY <1>1, <1>2, TopOfThread
<1> QED BY <1>1, <1>3, PollsOnly

\* A worker that enters or leaves a handler.
LEMMA WorkerQuiet ==
  ASSUME HaltInv, NEW w \in Workers, \A u \in Threads : u # w => stack'[u] = stack[u],
         WorkerStack(w)', Top(w) \notin Guarded, Top(w)' \notin Guarded,
         UNCHANGED <<flags, full_halts, disconnects, socket, pool>>
  PROVE  Stacks' /\ OneHalter' /\ HaltProgress'
<1>0. TypeOK /\ Stacks /\ OneHalter /\ HaltProgress
  BY DEF HaltInv
<1>1. /\ w \in Threads /\ w \notin Callers /\ w # Launcher /\ Launcher \in Threads
      /\ \A c \in Callers : c \in Threads
  BY ThreadsAssumption DEF Threads, Outsiders
<1>2. Stacks'
  BY <1>0, <1>1, OneStackChanges
<1>3. \A u \in Threads : u # w => Top(u)' = Top(u)
  BY DEF Top
<1>4. \A c \in Callers : stack'[c] = stack[c]
  BY <1>1
<1>5. OneHalter' /\ HaltProgress'
  BY <1>1, <1>3, <1>4, Quiet
<1> QED BY <1>2, <1>5

\* Leaving a handler, what was below it is polls.
LEMMA HandlerLeft ==
  ASSUME HaltInv, NEW w \in Workers, Top(w) \in {"send", "receive"}, Return(w)
  PROVE  /\ \A u \in Threads : u # w => stack'[u] = stack[u]
         /\ WorkerStack(w)' /\ Top(w)' \notin Guarded
<1>0. TypeOK /\ Stacks /\ w \in Threads /\ Top(w) # "none"
  BY DEF HaltInv, Threads
<1>1. stack[w] # <<>> /\ Tail(stack[w]) \in Seq({"halt:poll"})
  BY <1>0, TopOfThread
<1>2. stack'[w] = Tail(stack[w]) /\ \A u \in Threads : u # w => stack'[u] = stack[u]
  BY <1>0, <1>1, ReturnEffect
<1>3. stack'[w] # <<>> => Head(stack'[w]) = "halt:poll" /\ Tail(stack'[w]) \in Seq({"halt:poll"})
  BY <1>1, <1>2, PollsBelow
<1> QED BY <1>2, <1>3, GuardedSets DEF WorkerStack, Top

\* A step that touches neither the stacks nor what is known of halting.
LEMMA Untouched ==
  ASSUME HaltInv, UNCHANGED <<flags, stack, full_halts, disconnects, socket, pool>>
  PROVE  Stacks' /\ OneHalter' /\ HaltProgress'
BY DEF HaltInv, Stacks, WorkerStack, CallerStack, LauncherStack, OneHalter, HaltProgress, Halted,
       Top, flags

\* ... those of the workers ...
LEMMA WorkerInv == ASSUME HaltInv, NEW w \in Workers, WorkerStep(w) PROVE HaltInv'
<1>0. /\ TypeOK /\ Stacks /\ OneHalter /\ HaltProgress /\ w \in Threads
      /\ w \notin Callers /\ w # Launcher /\ Launcher \in Threads
  BY ThreadsAssumption DEF HaltInv, Threads, Outsiders
<1>00. TypeOK'
  BY <1>0, RunTypes, SendTypes, ReceiveTypes DEF WorkerStep
<1>1. CASE RunHalt(w)
  <2>1. /\ Top(w) \in {"none", "halt:poll"} /\ EnterHalt(w, stack[w])
        /\ UNCHANGED <<m_stopped, m_disconnect_emitted, full_halts, disconnects, socket, pool>>
    BY <1>1 DEF RunHalt, MayRun, io, history
  <2>2. stack[w] \in Seq({"halt:poll"}) /\ stack[w] \in Seq(Frames)
    BY <1>0, <2>1, FreeWorker
  <2>3. /\ m_halting'
        /\ \A u \in Threads : u # w => stack'[u] = stack[u]
        /\ m_halting => stack'[w] = stack[w]
        /\ ~m_halting => /\ stack'[w] # <<>> /\ Head(stack'[w]) = "halt:lock"
                         /\ Tail(stack'[w]) = stack[w]
    BY <1>0, <2>1, <2>2, EnterEffect
  <2>4. CASE m_halting
    <3>1. WorkerStack(w)' /\ Top(w) \notin Guarded /\ Top(w)' \notin Guarded
      BY <1>0, <2>1, <2>3, <2>4, GuardedSets DEF Stacks, WorkerStack, Top
    <3>2. UNCHANGED <<flags, full_halts, disconnects, socket, pool>>
      BY <1>0, <2>1, <2>3, <2>4 DEF flags, TypeOK
    <3>3. Stacks' /\ OneHalter' /\ HaltProgress'
      BY <2>3, <3>1, <3>2, WorkerQuiet
    <3> QED BY <1>00, <3>3 DEF HaltInv
  <2>5. CASE ~m_halting
    <3>1. WorkerStack(w)'
      BY <2>2, <2>3, <2>5 DEF WorkerStack
    <3>2. Stacks'
      BY <1>0, <2>3, <3>1, OneStackChanges
    <3>3. Top(w)' = "halt:lock" /\ \A u \in Threads : u # w => Top(u)' = Top(u)
      BY <2>3, <2>5 DEF Top
    <3>4. (\E c \in Callers : stack'[c] # <<>>) => Top(Launcher)' \notin LaunchFrames
      <4>1. \A c \in Callers : stack'[c] = stack[c]
        BY <1>0, <2>3 DEF Threads
      <4> QED BY <1>0, <3>3, <4>1 DEF HaltProgress
    <3>5. OneHalter' /\ HaltProgress'
      BY <1>0, <2>1, <2>3, <2>5, <3>3, <3>4, Enters
    <3> QED BY <1>00, <3>2, <3>5 DEF HaltInv
  <2> QED BY <2>4, <2>5
<1>2. CASE RunAck(w)
  BY <1>00, <1>2, Untouched DEF RunAck, HaltInv, io, history
<1>3. CASE RunCoroutine(w)
  <2>1. /\ Top(w) \in {"none", "halt:poll"} /\ Call(w, Head(ready))
        /\ Head(ready) \in {"send", "receive"}
        /\ UNCHANGED <<flags, full_halts, disconnects, socket, pool>>
    BY <1>3 DEF RunCoroutine, MayRun, io, history
  <2>2. stack[w] \in Seq({"halt:poll"})
    BY <1>0, <2>1, FreeWorker
  <2>3. /\ stack'[w] # <<>> /\ Head(stack'[w]) = Head(ready) /\ Tail(stack'[w]) = stack[w]
        /\ \A u \in Threads : u # w => stack'[u] = stack[u]
    BY <1>0, <2>1, FramesAre, CallEffect
  <2>4. WorkerStack(w)' /\ Top(w) \notin Guarded /\ Top(w)' \notin Guarded
    BY <2>1, <2>2, <2>3, GuardedSets DEF WorkerStack, Top
  <2>5. Stacks' /\ OneHalter' /\ HaltProgress'
    BY <2>1, <2>3, <2>4, WorkerQuiet
  <2> QED BY <1>00, <2>5 DEF HaltInv
<1>4. ASSUME Top(w) \in {"send", "receive"}, Return(w) \/ UNCHANGED stack,
             UNCHANGED <<flags, full_halts, disconnects, socket, pool>>
      PROVE  HaltInv'
  <2>1. CASE UNCHANGED stack
    BY <1>4, <1>00, <2>1, Untouched DEF HaltInv
  <2>2. CASE Return(w)
    <3>1. Stacks' /\ OneHalter' /\ HaltProgress'
      BY <1>4, <2>2, HandlerLeft, WorkerQuiet, GuardedSets
    <3> QED BY <1>00, <3>1 DEF HaltInv
  <2> QED BY <1>4, <2>1, <2>2
<1>5. CASE SendStep(w)
  <2> USE DEF sendUnchanged, io, history
  <2>1. CASE SendTop(w) \/ SendInNext(w) \/ SendFetched(w)
    BY <1>4, <2>1 DEF SendTop, SendInNext, SendFetched
  <2>2. CASE SendWrite(w) \/ SendWritten(w)
    BY <1>4, <2>2 DEF SendWrite, SendWritten
  <2>3. CASE SendExit(w)
    BY <1>4, <2>3 DEF SendExit, ExitLoop
  <2> QED BY <1>5, <2>1, <2>2, <2>3 DEF SendStep
<1>6. CASE ReceiveStep(w)
  <2> USE DEF io, history
  <2>1. CASE ReceiveTop(w)
    BY <1>4, <2>1 DEF ReceiveTop
  <2>2. CASE ReceiveRead(w)
    BY <1>4, <2>2 DEF ReceiveRead
  <2>3. CASE ReceiveResynced(w)
    BY <1>4, <2>3 DEF ReceiveResynced
  <2>4. CASE ReceiveExit(w)
    BY <1>4, <2>4 DEF ReceiveExit, ExitLoop
  <2> QED BY <1>6, <2>1, <2>2, <2>3, <2>4 DEF ReceiveStep
<1> QED BY <1>1, <1>2, <1>3, <1>5, <1>6 DEF WorkerStep

\* ... and everything else.
LEMMA EnvironmentInv == ASSUME HaltInv, Environment PROVE HaltInv'
<1>0. TypeOK /\ Stacks /\ OneHalter /\ HaltProgress /\ Launcher \in Threads
  BY DEF HaltInv, Threads
<1>00. TypeOK'
  BY <1>0, EnvironmentTypes
<1>1. ASSUME NEW c \in Callers, CallHalt(c) PROVE HaltInv'
  <2>0. c \in Threads /\ c \notin Workers /\ c # Launcher
    BY ThreadsAssumption DEF Threads, Outsiders
  <2>1. /\ Top(Launcher) \notin LaunchFrames /\ stack[c] = <<>> /\ EnterHalt(c, <<>>)
        /\ UNCHANGED <<m_stopped, m_disconnect_emitted, full_halts, disconnects, socket, pool>>
    BY <1>1 DEF CallHalt, io, history
  <2>2. /\ m_halting'
        /\ \A u \in Threads : u # c => stack'[u] = stack[u]
        /\ m_halting => stack'[c] = stack[c]
        /\ ~m_halting => /\ stack'[c] # <<>> /\ Head(stack'[c]) = "halt:lock"
                         /\ Tail(stack'[c]) = <<>>
    BY <1>0, <2>0, <2>1, EnterEffect, FramesAre
  <2>3. \A u \in Threads : u # c => Top(u)' = Top(u)
    BY <2>2 DEF Top
  <2>4. Top(Launcher)' \notin LaunchFrames
    BY <1>0, <2>0, <2>1, <2>3
  <2>5. CallerStack(c)' /\ Stacks'
    <3>1. CallerStack(c)'
      BY <2>1, <2>2, GuardedSets DEF CallerStack
    <3> QED BY <1>0, <2>0, <2>2, <3>1, OneStackChanges
  <2>6. CASE m_halting
    <3>1. \A u \in Threads : Top(u)' = Top(u)
      BY <2>2, <2>6 DEF Top
    <3>2. UNCHANGED <<flags, full_halts, disconnects, socket, pool>>
      BY <1>0, <2>1, <2>2, <2>6 DEF flags, TypeOK
    <3>3. OneHalter' /\ HaltProgress'
      BY <2>4, <3>1, <3>2, Quiet
    <3> QED BY <1>00, <2>5, <3>3 DEF HaltInv
  <2>7. CASE ~m_halting
    <3>1. Top(c)' = "halt:lock"
      BY <2>2, <2>7 DEF Top
    <3>2. OneHalter' /\ HaltProgress'
      BY <2>0, <2>1, <2>2, <2>3, <2>4, <2>7, <3>1, Enters
    <3> QED BY <1>00, <2>5, <3>2 DEF HaltInv
  <2> QED BY <2>6, <2>7
<1>2. CASE UNCHANGED <<flags, stack, full_halts, disconnects, socket, pool>>
  BY <1>00, <1>2, Untouched DEF HaltInv
<1>3. ASSUME NEW w \in Workers, SyncTick(w) PROVE HaltInv'
  BY <1>2, <1>3 DEF SyncTick, io
<1>4. CASE UserSend \/ SendSpuriousWake
  BY <1>2, <1>4 DEF UserSend, SendSpuriousWake, sendUnchanged, io
<1>5. CASE WriteCompletes \/ PeerCloses
  BY <1>2, <1>5 DEF WriteCompletes, PeerCloses, ioUnchanged, history
<1>6. CASE ReadCompletes \/ ReadFails
  BY <1>2, <1>6 DEF ReadCompletes, ReadFails, ReadDone, ioUnchanged, history
<1>7. CASE TimerExpires
  BY <1>2, <1>7 DEF TimerExpires, io, history
<1> QED BY <1>1, <1>3, <1>4, <1>5, <1>6, <1>7 DEF Environment

\* The invariant of halting holds at first ...
LEMMA HaltInit == Init => HaltInv
<1> SUFFICES ASSUME Init PROVE HaltInv
  OBVIOUS
<1>1. TypeOK
  BY TypeInit
<1>2. \A t \in Threads : stack[t] = IF t = Launcher THEN <<"launch:send">> ELSE <<>>
  BY DEF Init
<1>3. /\ <<"launch:send">> # <<>> /\ Head(<<"launch:send">>) = "launch:send"
      /\ Tail(<<"launch:send">>) = <<>>
  OBVIOUS
<1>4. Stacks
  BY <1>2, <1>3, ThreadsAssumption
     DEF Stacks, WorkerStack, CallerStack, LauncherStack, Threads, Outsiders, LaunchFrames
<1>5. \A t \in Threads : Top(t) \notin Guarded
  BY <1>2, <1>3, GuardedSets DEF Top
<1>6. \A c \in Callers : stack[c] = <<>>
  BY <1>2, ThreadsAssumption DEF Threads, Outsiders
<1>7. OneHalter
  BY <1>5 DEF OneHalter, Init
<1>8. HaltProgress
  BY <1>5, <1>6, GuardedSets DEF HaltProgress, Halted, Init
<1> QED BY <1>1, <1>4, <1>7, <1>8 DEF HaltInv

\* ... and always.
LEMMA HaltInductive == Spec => []HaltInv
<1>1. HaltInv /\ [Next]_vars => HaltInv'
  <2> SUFFICES ASSUME HaltInv, [Next]_vars PROVE HaltInv'
    OBVIOUS
  <2>1. CASE UNCHANGED vars
    <3>1. TypeOK'
      BY <2>1, TypeNext DEF HaltInv
    <3> QED BY <2>1, <3>1, Untouched DEF HaltInv, vars, io, history
  <2> QED BY <2>1, NextIs, HaltStepInv, WorkerInv, LauncherInv, EnvironmentInv
<1> QED BY <1>1, HaltInit, PTL DEF Spec

\* However many threads call halt(), however often, and with the handlers that
\* call it run from the poll() of another: m_halting is set exactly while one of
\* them is in the guarded part, and for ever after a success (BasicNode.tcc:110-183).
THEOREM HaltHasOneOwner == Spec => []HaltingHasOneOwner
<1>1. HaltInv => HaltingHasOneOwner
  BY HalterIsOnTop DEF HaltInv, OneHalter, HaltingHasOneOwner
<1> QED BY <1>1, HaltInductive, PTL

\* A halt() that returned true is the only one, and the node is stopped, its
\* socket closed, its workers joined and the signal emitted once
\* (BasicNode.hh:82-84, 136-143).
THEOREM HaltCompletes == Spec => []HaltIsOnceAndComplete
<1>1. HaltInv => HaltIsOnceAndComplete
  BY DEF HaltInv, HaltProgress, Halted, HaltIsOnceAndComplete
<1> QED BY <1>1, HaltInductive, PTL

-----------------------------------------------------------------------------
(* The outgoing queue is a SharedQueue. *)

\* What SharedQueue assumes of its constants holds of the node's.
LEMMA QueueAssumptions ==
  /\ QP!IsFiniteSet({SendLoop})
  /\ NoMessage \notin Messages
  /\ WaiterModulus \in Nat \ {0} /\ MaxPushes \in Nat
<1>1. QP!IsFiniteSet({SendLoop})
  <2>1. <<SendLoop>> \in Seq({SendLoop}) /\ 1 \in 1 .. Len(<<SendLoop>>) /\ <<SendLoop>>[1] = SendLoop
    OBVIOUS
  <2>2. \A s \in {SendLoop} : \E n \in 1 .. Len(<<SendLoop>>) : <<SendLoop>>[n] = s
    BY <2>1
  <2> QED BY <2>1, <2>2, Zenon DEF QP!IsFiniteSet
<1> QED BY <1>1, NodeBoundsAssumption DEF NoMessage, Messages

\* The two instances of the queue, Q of SharedQueue and QP of the module with its
\* proofs, take the same steps.
LEMMA SameNotify == (Q!NotifyOne <=> QP!NotifyOne) /\ (Q!NotifyAll <=> QP!NotifyAll)
BY DEF Q!NotifyOne, QP!NotifyOne, Q!NotifyAll, QP!NotifyAll, Q!Waiting, QP!Waiting

\* The end of next() in both.
LEMMA SameFinish == \A c : Q!Finish(c) <=> QP!Finish(c)
BY DEF Q!Finish, QP!Finish, Q!ReturnFront, QP!ReturnFront, Q!ReturnAborted, QP!ReturnAborted

\* push in both.
LEMMA SamePush == \A m : Q!Push(m) <=> QP!Push(m)
BY SameNotify DEF Q!Push, QP!Push

\* The rest of next() in both.
LEMMA SameProceed == \A c : Q!Proceed(c) <=> QP!Proceed(c)
BY SameFinish, Zenon
   DEF Q!Proceed, QP!Proceed, Q!StartWaiting, QP!StartWaiting, Q!FinishAtOnce, QP!FinishAtOnce,
       Q!WaitAgain, QP!WaitAgain, Q!FinishWaiting, QP!FinishWaiting, Q!CountUp, QP!CountUp,
       Q!CountDown, QP!CountDown

\* The initial states, the steps and the variables of both.
LEMMA SameQueue ==
  /\ Q!Init <=> QP!Init
  /\ Q!Next <=> QP!Next
  /\ queue_vars = QP!vars
<1>1. Q!Next <=> QP!Next
  BY SamePush, SameProceed, SameNotify, Zenon
     DEF Q!Next, QP!Next, Q!Pop, QP!Pop, Q!WakeAll, QP!WakeAll, Q!CallNext, QP!CallNext,
         Q!SpuriousWake, QP!SpuriousWake
<1> QED BY <1>1 DEF Q!Init, QP!Init, queue_vars, QP!vars

\* What push does to the items.
LEMMA PushEffect ==
  ASSUME NEW m, Q!Push(m)
  PROVE  /\ queue' = Append(queue, m) /\ pushed' = Append(pushed, m)
         /\ UNCHANGED <<m_aborted, checked, out, aborted, removed>>
BY DEF Q!Push

\* What the start of next() does, called with a pointer.
LEMMA CallNextEffect ==
  ASSUME QP!TypeOK, Q!CallNext(SendLoop, TRUE)
  PROVE  /\ checked'[SendLoop] /\ out'[SendLoop] = NoMessage
         /\ next_pc'[SendLoop] = "idle" => aborted'[SendLoop]
         /\ UNCHANGED <<queue, pushed, removed>>
BY DEF Q!CallNext, QP!TypeOK

\* What the rest of next() does: it waits, it gives up, or it hands out the front.
LEMMA ProceedEffect ==
  ASSUME QP!TypeOK, Q!Proceed(SendLoop)
  PROVE  /\ UNCHANGED <<pushed, checked>>
         /\ \/ next_pc'[SendLoop] # "idle" /\ UNCHANGED <<queue, out, aborted, removed>>
            \/ /\ next_pc'[SendLoop] = "idle" /\ aborted'[SendLoop] = checked[SendLoop]
               /\ UNCHANGED <<queue, out, removed>>
            \/ /\ queue # <<>> /\ next_pc'[SendLoop] = "idle"
               /\ out'[SendLoop] = Head(queue) /\ queue' = Tail(queue)
               /\ removed' = Append(removed, Head(queue))
<1>1. CASE Q!StartWaiting(SendLoop) \/ Q!WaitAgain(SendLoop)
  BY <1>1 DEF Q!StartWaiting, Q!WaitAgain, QP!TypeOK
<1>2. ASSUME queue # <<>> \/ m_aborted, Q!Finish(SendLoop)
      PROVE  \/ /\ next_pc'[SendLoop] = "idle" /\ aborted'[SendLoop] = checked[SendLoop]
                /\ UNCHANGED <<queue, out, removed>>
             \/ /\ queue # <<>> /\ next_pc'[SendLoop] = "idle"
                /\ out'[SendLoop] = Head(queue) /\ queue' = Tail(queue)
                /\ removed' = Append(removed, Head(queue))
  <2>1. CASE m_aborted
    BY <1>2, <2>1 DEF Q!Finish, Q!ReturnAborted, QP!TypeOK
  <2>2. CASE ~m_aborted
    BY <1>2, <2>2 DEF Q!Finish, Q!ReturnFront, QP!TypeOK
  <2> QED BY <2>1, <2>2
<1>3. CASE Q!FinishAtOnce(SendLoop)
  BY <1>2, <1>3 DEF Q!FinishAtOnce
<1>4. CASE Q!FinishWaiting(SendLoop)
  BY <1>2, <1>4 DEF Q!FinishWaiting
<1> QED BY <1>1, <1>3, <1>4 DEF Q!Proceed

\* A message in the send loop's hands is a message.
LEMMA OutIsMessage ==
  ASSUME QP!TypeOK, out[SendLoop] # NoMessage
  PROVE  out[SendLoop] \in Messages
BY DEF QP!TypeOK

\* A step of the node is a step of its queue, or leaves it alone.
LEMMA QueueStep ==
  ASSUME LoopInv, [Next]_vars
  PROVE  [QP!Next]_(QP!vars)
<1>1. ASSUME Send PROVE Q!Next
  <2>1. sends + 1 \in Messages /\ Q!Push(sends + 1)
    BY <1>1, NodeBoundsAssumption DEF LoopInv, HaltInv, TypeOK, Send, Messages
  <2> QED BY <2>1 DEF Q!Next
<1>2. CASE UNCHANGED queue_vars
  BY <1>2 DEF queue_vars, QP!vars
<1>3. CASE UNCHANGED vars
  BY <1>2, <1>3 DEF vars
<1>4. ASSUME NEW t \in Threads, Halt(t) PROVE Q!Next \/ UNCHANGED queue_vars
  BY <1>4 DEF Halt, HaltLock, HaltUndo, HaltPolled, HaltWake, HaltClose, HaltEmit, HaltCancel,
              HaltJoin, HaltReturn, Q!Next
<1>5. ASSUME LauncherStep \/ RunSpuriousWake PROVE Q!Next \/ UNCHANGED queue_vars
  BY <1>1, <1>5 DEF LauncherStep, Launch, LaunchSend, LaunchPool, LaunchReceive, LaunchLoop,
                    LaunchTimer, LaunchStore, RunWait, RunWoken, RunCheck, RunSpuriousWake
<1>6. ASSUME NEW w \in Workers, SendStep(w) PROVE Q!Next \/ UNCHANGED queue_vars
  <2>1. CASE SendTop(w)
    BY <2>1 DEF SendTop, Q!Next
  <2>2. CASE SendInNext(w)
    BY <2>2 DEF SendInNext, Q!Next
  <2>3. CASE SendFetched(w) \/ SendWrite(w) \/ SendExit(w)
    BY <2>3 DEF SendFetched, SendWrite, SendExit, ExitLoop
  <2>4. CASE SendWritten(w)
    <3>1. out[SendLoop] \in Messages
      BY <2>4, OutIsMessage DEF SendWritten, LoopInv, LoopState
    <3> QED BY <2>4, <3>1 DEF SendWritten, Q!Next
  <2> QED BY <1>6, <2>1, <2>2, <2>3, <2>4 DEF SendStep
<1>7. ASSUME NEW w \in Workers, WorkerStep(w) PROVE Q!Next \/ UNCHANGED queue_vars
  BY <1>6, <1>7 DEF WorkerStep, RunHalt, RunAck, RunCoroutine, ReceiveStep, ReceiveTop,
                    ReceiveRead, ReceiveResynced, ReceiveExit, ExitLoop
<1>8. ASSUME Environment PROVE Q!Next \/ UNCHANGED queue_vars
  BY <1>1, <1>8 DEF Environment, SyncTick, CallHalt, UserSend, SendSpuriousWake, WriteCompletes,
                    ReadCompletes, ReadFails, ReadDone, PeerCloses, TimerExpires, ioUnchanged,
                    Q!Next
<1> QED BY <1>2, <1>3, <1>4, <1>5, <1>7, <1>8, NextIs, SameQueue

-----------------------------------------------------------------------------
(* The send loop. *)

\* Whether the send loop is inside next() is not changed by waking it up.
LEMMA WakingIsNotReturning ==
  ASSUME QP!TypeOK, Q!NotifyOne \/ Q!NotifyAll \/ Q!SpuriousWake(SendLoop)
  PROVE  (next_pc'[SendLoop] = "idle") <=> (next_pc[SendLoop] = "idle")
BY DEF Q!NotifyOne, Q!NotifyAll, Q!SpuriousWake, Q!Waiting, QP!TypeOK

\* A step that leaves the messages where they are.
Still ==
  /\ UNCHANGED <<send_pc, wire, sends, queue, pushed, removed, out, checked, aborted>>
  /\ result'.write = result.write
  /\ (next_pc'[SendLoop] = "idle") <=> (next_pc[SendLoop] = "idle")

\* No step of halt() moves a message.
LEMMA StillInHalt == ASSUME LoopInv, NEW t \in Threads, Halt(t) PROVE Still
<1>1. CASE HaltWake(t)
  <2>1. CASE m_num_waiters > 0
    <3>1. Q!WakeAll /\ UNCHANGED <<loops, io, history>>
      BY <1>1, <2>1 DEF HaltWake
    <3>2. (next_pc'[SendLoop] = "idle") <=> (next_pc[SendLoop] = "idle")
      BY <3>1, WakingIsNotReturning DEF Q!WakeAll, LoopInv
    <3> QED BY <3>1, <3>2 DEF Still, Q!WakeAll, loops, io, history
  <2>2. CASE ~(m_num_waiters > 0)
    BY <1>1, <2>2 DEF HaltWake, Still, queue_vars, loops, io, history
  <2> QED BY <2>1, <2>2
<1>2. CASE HaltClose(t)
  BY <1>2 DEF HaltClose, Still, queue_vars, loops, history
<1>3. CASE HaltLock(t) \/ HaltUndo(t) \/ HaltPolled(t)
  BY <1>3 DEF HaltLock, HaltUndo, HaltPolled, Still, queue_vars, loops, io, history
<1>4. CASE HaltEmit(t) \/ HaltCancel(t)
  BY <1>4 DEF HaltEmit, HaltCancel, Still, queue_vars, loops, io, history
<1>5. CASE HaltJoin(t) \/ HaltReturn(t)
  BY <1>5 DEF HaltJoin, HaltReturn, Still, queue_vars, loops, io, history
<1> QED BY <1>1, <1>2, <1>3, <1>4, <1>5 DEF Halt

\* The steps that do move one, and the two that only let the loop go on.
LEMMA MessageSteps ==
  ASSUME LoopInv, [Next]_vars
  PROVE  \/ Still
         \/ Send /\ UNCHANGED <<send_pc, result, wire>>
         \/ LaunchLoop
         \/ \E w \in Workers : SendStep(w)
         \/ WriteCompletes
<1> USE DEF queue_vars, loops, io, history
<1>1. CASE UNCHANGED vars
  BY <1>1 DEF vars, Still
<1>2. ASSUME LauncherStep \/ RunSpuriousWake
      PROVE  Still \/ (Send /\ UNCHANGED <<send_pc, result, wire>>) \/ LaunchLoop
  <2>1. CASE LaunchSend
    BY <2>1 DEF LaunchSend
  <2>2. CASE LaunchPool \/ LaunchReceive \/ LaunchTimer \/ LaunchStore
    BY <2>2 DEF LaunchPool, LaunchReceive, LaunchTimer, LaunchStore, Still
  <2>3. CASE RunWait \/ RunSpuriousWake \/ RunWoken \/ RunCheck
    BY <2>3 DEF RunWait, RunSpuriousWake, RunWoken, RunCheck, Still
  <2> QED BY <1>2, <2>1, <2>2, <2>3 DEF LauncherStep, Launch
<1>3. ASSUME NEW w \in Workers, WorkerStep(w) PROVE Still \/ SendStep(w)
  <2>1. CASE RunHalt(w) \/ RunAck(w) \/ RunCoroutine(w)
    BY <2>1 DEF RunHalt, RunAck, RunCoroutine, Still
  <2>2. CASE ReceiveTop(w) \/ ReceiveExit(w)
    BY <2>2 DEF ReceiveTop, ReceiveExit, ExitLoop, Still
  <2>3. ASSUME UNCHANGED <<history, queue_vars, send_pc>>, result' = [result EXCEPT !.read = "none"]
        PROVE  Still
    BY <2>3 DEF Still, LoopInv, HaltInv, TypeOK
  <2>4. CASE ReceiveRead(w)
    BY <2>3, <2>4 DEF ReceiveRead
  <2>5. CASE ReceiveResynced(w)
    BY <2>3, <2>5 DEF ReceiveResynced
  <2> QED BY <1>3, <2>1, <2>2, <2>4, <2>5 DEF WorkerStep, ReceiveStep
<1>4. ASSUME Environment
      PROVE  Still \/ (Send /\ UNCHANGED <<send_pc, result, wire>>) \/ WriteCompletes
  <2>1. ASSUME NEW w \in Workers, SyncTick(w) PROVE Send /\ UNCHANGED <<send_pc, result, wire>>
    BY <2>1 DEF SyncTick
  <2>2. CASE UserSend
    BY <2>2 DEF UserSend
  <2>3. CASE SendSpuriousWake
    <3>1. (next_pc'[SendLoop] = "idle") <=> (next_pc[SendLoop] = "idle")
      BY <2>3, WakingIsNotReturning DEF SendSpuriousWake, LoopInv
    <3> QED BY <2>3, <3>1 DEF SendSpuriousWake, sendUnchanged, Q!SpuriousWake, Still
  <2>4. ASSUME NEW c \in Callers, CallHalt(c) PROVE Still
    BY <2>4 DEF CallHalt, Still
  <2>5. CASE PeerCloses \/ TimerExpires
    BY <2>5 DEF PeerCloses, TimerExpires, ioUnchanged, Still
  <2>6. ASSUME NEW r, ReadDone(r) PROVE Still
    BY <2>6 DEF ReadDone, ioUnchanged, Still, LoopInv, HaltInv, TypeOK
  <2>7. CASE ReadCompletes \/ ReadFails
    BY <2>6, <2>7 DEF ReadCompletes, ReadFails
  <2> QED BY <1>4, <2>1, <2>2, <2>3, <2>4, <2>5, <2>7 DEF Environment
<1> QED BY <1>1, <1>2, <1>3, <1>4, NextIs, StillInHalt

\* Threads outside the launching thread leave its stack alone.
LEMMA WorkersOwnStack ==
  ASSUME TypeOK, NEW w \in Workers, WorkerStep(w)
  PROVE  stack'[Launcher] = stack[Launcher]
<1>0. Launcher \in Threads /\ Launcher # w /\ w \in Threads
  BY ThreadsAssumption DEF Threads, Outsiders
<1>1. ASSUME Return(w) \/ UNCHANGED stack PROVE stack'[Launcher] = stack[Launcher]
  BY <1>0, <1>1 DEF Return, TypeOK
<1>2. CASE RunHalt(w)
  BY <1>0, <1>2 DEF RunHalt, EnterHalt, TypeOK
<1>3. CASE RunCoroutine(w)
  BY <1>0, <1>3 DEF RunCoroutine, Call, TypeOK
<1>4. CASE RunAck(w) \/ SendStep(w) \/ ReceiveStep(w)
  BY <1>1, <1>4 DEF RunAck, SendStep, SendTop, SendInNext, SendFetched, SendWrite, SendWritten,
                    SendExit, ExitLoop, ReceiveStep, ReceiveTop, ReceiveRead, ReceiveResynced,
                    ReceiveExit
<1> QED BY <1>2, <1>3, <1>4 DEF WorkerStep

\* launch() goes through its steps in order and once, whoever halts meanwhile.
LEMMA LaunchInOrder ==
  ASSUME TypeOK, Stacks, [Next]_vars, Top(Launcher)' \in BeforeLoop
  PROVE  Top(Launcher) \in BeforeLoop /\ ~LaunchLoop
<1>0. Launcher \in Threads
  BY DEF Threads
<1>1. \A g \in HaltFrames \cup RunFrames \cup {"none", "launch:timer", "launch:store"} : g \notin BeforeLoop
  BY DEF HaltFrames, Locked, RunFrames, BeforeLoop
<1>2. ASSUME stack'[Launcher] = stack[Launcher] PROVE Top(Launcher) \in BeforeLoop
  BY <1>2 DEF Top
<1>3. ASSUME NEW t \in Threads, NEW g \in HaltFrames, Top(t) \in HaltFrames, Goto(t, g)
      PROVE  Top(Launcher) \in BeforeLoop
  <2>1. Top(t) # "none" /\ g \in Frames
    BY <1>3 DEF HaltFrames, Locked, Frames
  <2>2. /\ stack'[t] # <<>> /\ Head(stack'[t]) = g
        /\ \A u \in Threads : u # t => stack'[u] = stack[u]
    BY <1>3, <2>1, TopIs, GotoEffect
  <2>3. t # Launcher
    BY <1>1, <2>2 DEF Top
  <2> QED BY <1>0, <1>2, <2>2, <2>3
<1>4. ASSUME NEW t \in Threads, Top(t) \in {"halt:poll", "halt:notify"}, Unlock(t)
      PROVE  Top(Launcher) \in BeforeLoop
  <2>1. /\ stack'[t] = Tail(stack[t])
        /\ \A u \in Threads : u # t =>
             \/ stack'[u] = stack[u]
             \/ u = Launcher /\ Top(u) = "run:waiting" /\ stack'[u] = <<"run:woken">>
    BY <1>4, UnlockStacks
  <2>2. <<"run:woken">> # <<>> /\ Head(<<"run:woken">>) = "run:woken" /\ "run:woken" \in RunFrames
        /\ <<"returned">> # <<>> /\ Head(<<"returned">>) = "returned" /\ "returned" \in RunFrames
    BY DEF RunFrames
  <2>3. t # Launcher
    <3>1. ASSUME t = Launcher PROVE FALSE
      <4>1. Tail(stack[t]) = <<"returned">>
        BY <1>4, <3>1, TopOfThread DEF LaunchFrames, RunFrames
      <4> QED BY <1>1, <2>1, <2>2, <3>1, <4>1 DEF Top
    <3> QED BY <3>1
  <2> QED BY <1>0, <1>1, <1>2, <2>1, <2>2, <2>3 DEF Top
<1>5. ASSUME NEW g \in RunFrames \cup {"launch:timer", "launch:store"}, Top(Launcher) # "none",
             Goto(Launcher, g)
      PROVE  FALSE
  <2>1. g \in Frames
    BY FramesAre, <1>5 DEF Frames
  <2>2. stack'[Launcher] # <<>> /\ Head(stack'[Launcher]) = g
    BY <1>0, <1>5, <2>1, TopIs, GotoEffect
  <2> QED BY <1>1, <1>5, <2>2 DEF Top
<1>6. ~LaunchLoop
  BY <1>5 DEF LaunchLoop
<1>7. ASSUME NEW t \in Threads, Halt(t) PROVE Top(Launcher) \in BeforeLoop
  <2> USE DEF HaltFrames, Locked
  <2>1. CASE HaltPolled(t) \/ HaltReturn(t)
    BY <1>4, <2>1 DEF HaltPolled, HaltReturn
  <2>2. CASE HaltLock(t)
    BY <1>3, <2>2 DEF HaltLock
  <2>3. CASE HaltUndo(t) \/ HaltWake(t) \/ HaltClose(t)
    BY <1>3, <2>3 DEF HaltUndo, HaltWake, HaltClose
  <2>4. CASE HaltEmit(t) \/ HaltCancel(t) \/ HaltJoin(t)
    BY <1>3, <2>4 DEF HaltEmit, HaltCancel, HaltJoin
  <2> QED BY <1>7, <2>1, <2>2, <2>3, <2>4 DEF Halt
<1>8. ASSUME LauncherStep \/ RunSpuriousWake PROVE Top(Launcher) \in BeforeLoop
  <2>1. CASE LaunchSend \/ LaunchPool \/ LaunchReceive \/ LaunchLoop
    BY <2>1 DEF LaunchSend, LaunchPool, LaunchReceive, LaunchLoop, BeforeLoop
  <2>2. CASE LaunchTimer \/ LaunchStore
    BY <1>5, <2>2 DEF LaunchTimer, LaunchStore, RunFrames
  <2>3. CASE RunWait \/ RunSpuriousWake \/ RunWoken
    BY <1>5, <2>3 DEF RunWait, RunSpuriousWake, RunWoken, RunFrames
  <2>4. CASE RunCheck
    <3>1. CASE m_stopped
      BY <1>5, <2>4, <3>1 DEF RunCheck, RunFrames
    <3>2. CASE ~m_stopped
      <4>1. EnterHalt(Launcher, <<"returned">>)
        BY <2>4, <3>2 DEF RunCheck
      <4>2. /\ m_halting => stack'[Launcher] = <<"returned">>
            /\ ~m_halting => stack'[Launcher] # <<>> /\ Head(stack'[Launcher]) = "halt:lock"
        BY <1>0, <4>1, FramesAre, EnterEffect
      <4>3. <<"returned">> # <<>> /\ Head(<<"returned">>) = "returned"
        OBVIOUS
      <4> QED BY <4>2, <4>3 DEF Top, BeforeLoop, TypeOK
    <3> QED BY <3>1, <3>2
  <2> QED BY <1>8, <2>1, <2>2, <2>3, <2>4 DEF LauncherStep, Launch
<1>9. ASSUME Environment PROVE Top(Launcher) \in BeforeLoop
  <2>1. ASSUME NEW c \in Callers, CallHalt(c) PROVE stack'[Launcher] = stack[Launcher]
    BY <1>0, <2>1, ThreadsAssumption DEF CallHalt, EnterHalt, TypeOK
  <2> QED BY <1>2, <1>9, <2>1
          DEF Environment, SyncTick, UserSend, SendSpuriousWake, WriteCompletes, ReadCompletes,
              ReadFails, ReadDone, PeerCloses, TimerExpires, ioUnchanged
<1>10. ASSUME UNCHANGED vars PROVE Top(Launcher) \in BeforeLoop
  BY <1>2, <1>10 DEF vars
<1>11. ASSUME NEW w \in Workers, WorkerStep(w) PROVE Top(Launcher) \in BeforeLoop
  BY <1>2, <1>11, WorkersOwnStack
<1> QED BY <1>6, <1>7, <1>8, <1>9, <1>10, <1>11, NextIs

\* So the send loop is started once.
LEMMA LoopStartsOnce ==
  ASSUME LoopInv, [Next]_vars, Top(Launcher)' \in BeforeLoop
  PROVE  send_pc' = "unborn"
<1>2. Top(Launcher) \in BeforeLoop /\ ~LaunchLoop
  BY LaunchInOrder DEF LoopInv, HaltInv
<1>3. send_pc = "unborn"
  BY <1>2 DEF LoopInv, LoopState
<1>4. CASE \E w \in Workers : SendStep(w)
  BY <1>3, <1>4 DEF SendStep, SendTop, SendInNext, SendFetched, SendWrite, SendWritten, SendExit
<1> QED BY <1>2, <1>3, <1>4, MessageSteps DEF Still, WriteCompletes

\* The send loop's part of the invariant.
LEMMA LoopStateNext ==
  ASSUME LoopInv, [Next]_vars
  PROVE  LoopState' /\ wire' \in Seq(Messages)
<1>0. QP!TypeOK /\ wire \in Seq(Messages) /\ LoopState /\ TypeOK
  BY DEF LoopInv, HaltInv
<1>1. Top(Launcher)' \in BeforeLoop => send_pc' = "unborn"
  BY LoopStartsOnce
<1>2. CASE Still
  BY <1>0, <1>1, <1>2 DEF Still, LoopState
<1>3. CASE Send /\ UNCHANGED <<send_pc, result, wire>>
  <2>1. UNCHANGED <<checked, out, aborted>>
    BY <1>3 DEF Send, Q!Push
  <2>2. (next_pc'[SendLoop] = "idle") <=> (next_pc[SendLoop] = "idle")
    BY <1>0, <1>3, WakingIsNotReturning DEF Send, Q!Push
  <2> QED BY <1>0, <1>1, <1>3, <2>1, <2>2 DEF LoopState
<1>4. CASE LaunchLoop
  BY <1>0, <1>1, <1>4 DEF LaunchLoop, LoopState, history
<1>5. CASE WriteCompletes
  <2>1. /\ send_pc = "writing" /\ send_pc' = "written" /\ result'.write # "none"
        /\ UNCHANGED <<wire, out>>
    BY <1>0, <1>5, NodeBoundsAssumption
       DEF WriteCompletes, ioUnchanged, history, queue_vars, TypeOK
  <2> QED BY <1>0, <1>1, <2>1 DEF LoopState
<1>6. ASSUME NEW w \in Workers, SendStep(w) PROVE LoopState' /\ wire' \in Seq(Messages)
  <2>1. CASE SendTop(w)
    <3>1. CASE m_stopped
      BY <1>0, <1>1, <2>1, <3>1 DEF SendTop, LoopState
    <3>2. CASE ~m_stopped
      BY <1>0, <1>1, <2>1, <3>2, CallNextEffect DEF SendTop, LoopState
    <3> QED BY <3>1, <3>2
  <2>2. CASE SendInNext(w)
    <3>1. /\ Q!Proceed(SendLoop) /\ send_pc = "next" /\ UNCHANGED <<send_pc, wire>>
      BY <2>2 DEF SendInNext
    <3>2. queue # <<>> => Head(queue) # NoMessage
      BY <1>0, HeadTailProperties, QueueAssumptions DEF QP!TypeOK
    <3> QED BY <1>0, <1>1, <3>1, <3>2, ProceedEffect DEF LoopState
  <2>3. CASE SendFetched(w)
    BY <1>0, <1>1, <2>3 DEF SendFetched, LoopState, queue_vars
  <2>4. CASE SendWrite(w) \/ SendExit(w)
    BY <1>0, <1>1, <2>4 DEF SendWrite, SendExit, ExitLoop, LoopState, queue_vars, history
  <2>5. CASE SendWritten(w)
    <3>1. out[SendLoop] \in Messages
      BY <1>0, <2>5, OutIsMessage DEF SendWritten, LoopState
    <3>2. wire' \in Seq(Messages) /\ send_pc' \in {"exit", "top"}
      BY <1>0, <2>5, <3>1, AppendProperties DEF SendWritten
    <3> QED BY <1>1, <3>2 DEF LoopState
  <2> QED BY <1>6, <2>1, <2>2, <2>3, <2>4, <2>5 DEF SendStep
<1> QED BY <1>2, <1>3, <1>4, <1>5, <1>6, MessageSteps

\* The invariant that makes a step of the node a step of its queue.
LEMMA LoopInductive == Spec => []LoopInv
<1>1. Init => LoopInv
  <2> SUFFICES ASSUME Init PROVE LoopInv
    OBVIOUS
  <2>1. QP!TypeOK
    BY QP!TypeInit, QueueAssumptions, SameQueue DEF Init
  <2> QED BY <2>1, HaltInit DEF Init, LoopInv, LoopState
<1>2. LoopInv /\ HaltInv' /\ [Next]_vars => LoopInv'
  <2> SUFFICES ASSUME LoopInv, HaltInv', [Next]_vars PROVE LoopInv'
    OBVIOUS
  <2>1. QP!TypeOK'
    BY QueueStep, QP!TypeNext, QueueAssumptions DEF LoopInv
  <2> QED BY <2>1, LoopStateNext DEF LoopInv
<1> QED BY <1>1, <1>2, HaltInductive, PTL DEF Spec

\* The node uses its queue as SharedQueue says, so what holds of SharedQueue
\* holds of the node's queue.
THEOREM NodeQueue == Spec => QP!Spec
<1>1. Init => QP!Init
  BY SameQueue DEF Init
<1>2. LoopInv /\ [Next]_vars => [QP!Next]_(QP!vars)
  BY QueueStep
<1> QED BY <1>1, <1>2, LoopInductive, PTL DEF Spec, QP!Spec

\* The queue's own invariant.
LEMMA QueueInductive == Spec => []QP!IInv
BY NodeQueue, QP!Inductive, QueueAssumptions, PTL

-----------------------------------------------------------------------------
(* Where the messages are. *)

\* The elements and the length of the sequences a step builds.
LEMMA ItemsAppended ==
  ASSUME NEW S, NEW s \in Seq(S), NEW m \in S
  PROVE  /\ Append(s, m) \in Seq(S) /\ Len(Append(s, m)) = Len(s) + 1
         /\ Range(Append(s, m)) = Range(s) \cup {m}
         /\ Append(s, m)[Len(s) + 1] = m
         /\ \A i \in DOMAIN s : Append(s, m)[i] = s[i]
         /\ DOMAIN Append(s, m) = DOMAIN s \cup {Len(s) + 1}
<1>1. /\ Append(s, m) \in Seq(S) /\ Len(Append(s, m)) = Len(s) + 1
      /\ \A i \in 1 .. Len(s) : Append(s, m)[i] = s[i]
      /\ Append(s, m)[Len(s) + 1] = m
  BY AppendProperties
<1>2. /\ Len(s) \in Nat /\ DOMAIN s = 1 .. Len(s)
      /\ DOMAIN Append(s, m) = 1 .. Len(s) + 1
  BY <1>1, LenProperties
<1>3. DOMAIN Append(s, m) = DOMAIN s \cup {Len(s) + 1}
  BY <1>2
<1>4. Range(Append(s, m)) = Range(s) \cup {m}
  BY <1>1, <1>2, <1>3 DEF Range
<1> QED BY <1>1, <1>2, <1>3, <1>4

\* The front and the rest.
LEMMA ItemsWithoutFront ==
  ASSUME NEW S, NEW s \in Seq(S), s # <<>>
  PROVE  /\ Head(s) \in S /\ Tail(s) \in Seq(S) /\ Len(s) = 1 + Len(Tail(s))
         /\ Range(s) = {Head(s)} \cup Range(Tail(s))
<1>1. /\ Head(s) \in S /\ Tail(s) \in Seq(S) /\ Len(Tail(s)) = Len(s) - 1
      /\ \A i \in 1 .. Len(Tail(s)) : Tail(s)[i] = s[i + 1]
  BY HeadTailProperties
<1>2. /\ Len(s) \in Nat \ {0} /\ DOMAIN s = 1 .. Len(s)
      /\ DOMAIN Tail(s) = 1 .. Len(s) - 1 /\ Head(s) = s[1]
  BY <1>1, LenProperties, EmptySeq
<1>3. \A i \in DOMAIN s : s[i] = Head(s) \/ \E j \in DOMAIN Tail(s) : s[i] = Tail(s)[j]
  <2> TAKE i \in DOMAIN s
  <2>1. CASE i = 1
    BY <1>2, <2>1
  <2>2. CASE i # 1
    <3>1. i - 1 \in 1 .. Len(s) - 1 /\ (i - 1) + 1 = i
      BY <1>2, <2>2
    <3> QED BY <1>1, <1>2, <3>1
  <2> QED BY <2>1, <2>2
<1>4. \A j \in DOMAIN Tail(s) : j + 1 \in DOMAIN s /\ Tail(s)[j] = s[j + 1]
  BY <1>1, <1>2
<1>5. Range(s) \subseteq {Head(s)} \cup Range(Tail(s))
  BY <1>3, Zenon DEF Range
<1>6. Head(s) \in Range(s)
  <2>1. 1 \in DOMAIN s /\ s[1] = Head(s)
    BY <1>2
  <2> QED BY <2>1, Zenon DEF Range
<1>7. Range(Tail(s)) \subseteq Range(s)
  BY <1>4, Zenon DEF Range
<1> QED BY <1>1, <1>2, <1>5, <1>6, <1>7

\* No elements.
LEMMA ItemsOfNone == Len(<<>>) = 0 /\ Range(<<>>) = {}
BY DEF Range

\* One element.
LEMMA ItemsOfOne == \A m : Len(<<m>>) = 1 /\ Range(<<m>>) = {m} /\ <<m>> # <<>>
BY DEF Range

\* The message handed to send() is one more.
LEMMA OneMore ==
  ASSUME NEW n \in Nat
  PROVE  1 .. (n + 1) = (1 .. n) \cup {n + 1}
OBVIOUS

\* The cases of Held.
LEMMA HeldIs ==
  /\ send_pc \notin {"next", "got", "writing", "written"} \/ out[SendLoop] = NoMessage
       => Held = <<>>
  /\ send_pc \in {"next", "got", "writing", "written"} /\ out[SendLoop] # NoMessage
       => Held = <<out[SendLoop]>>
BY DEF Held

\* What a step of the send loop does to the messages.
LEMMA SendLoopMoves ==
  ASSUME LoopInv, LoopInv', QP!IInv, NEW w \in Workers, SendStep(w)
  PROVE  /\ sends' = sends
         /\ \/ send_pc' \in {"exit", "done"} /\ wire' = wire /\ UNCHANGED <<queue, pushed, removed>>
            \/ /\ send_pc \notin {"exit", "done"} /\ send_pc' \notin {"exit", "done"}
               /\ Held' = Held /\ UNCHANGED <<wire, queue, pushed, removed>>
               /\ Held # <<>> => out'[SendLoop] = out[SendLoop]
            \/ /\ send_pc = "next" /\ send_pc' = "next"
               /\ Held = <<>> /\ queue # <<>> /\ Held' = <<Head(queue)>> /\ queue' = Tail(queue)
               /\ removed' = Append(removed, Head(queue)) /\ out'[SendLoop] = Head(queue)
               /\ UNCHANGED <<wire, pushed>>
            \/ /\ send_pc = "written" /\ send_pc' = "top"
               /\ Held = <<out[SendLoop]>> /\ Held' = <<>> /\ wire' = Append(wire, out[SendLoop])
               /\ out[SendLoop] \in Messages
               /\ UNCHANGED <<queue, pushed, removed>>
            \/ /\ send_pc = "written" /\ send_pc' = "top"
               /\ Held = <<out[SendLoop]>> /\ Held' = <<>> /\ wire' = wire
               /\ queue' = Append(queue, out[SendLoop]) /\ pushed' = Append(pushed, out[SendLoop])
               /\ out[SendLoop] \in Messages
               /\ UNCHANGED removed
<1>0. /\ LoopState /\ LoopState' /\ QP!TypeOK /\ TypeOK
      /\ next_pc[SendLoop] # "idle" => out[SendLoop] = NoMessage
  BY DEF LoopInv, HaltInv, QP!IInv, QP!HoldsNothingInCall
<1>1. CASE SendTop(w)
  <2>1. CASE m_stopped
    BY <1>1, <2>1 DEF SendTop, sendUnchanged, queue_vars
  <2>2. CASE ~m_stopped
    <3>1. /\ send_pc = "top" /\ send_pc' = "next" /\ out'[SendLoop] = NoMessage
          /\ UNCHANGED <<sends, wire, queue, pushed, removed>>
      BY <1>0, <1>1, <2>2, CallNextEffect DEF SendTop, sendUnchanged
    <3> QED BY <3>1 DEF Held
  <2> QED BY <2>1, <2>2
<1>2. CASE SendInNext(w)
  <2>1. /\ send_pc = "next" /\ send_pc' = "next" /\ Q!Proceed(SendLoop) /\ UNCHANGED <<sends, wire>>
        /\ out[SendLoop] = NoMessage /\ Held = <<>>
    BY <1>0, <1>2 DEF SendInNext, sendUnchanged, Held
  <2>2. CASE UNCHANGED <<queue, out, removed>>
    BY <1>0, <2>1, <2>2, ProceedEffect DEF Held
  <2>3. CASE /\ queue # <<>> /\ out'[SendLoop] = Head(queue) /\ queue' = Tail(queue)
             /\ removed' = Append(removed, Head(queue))
    <3>1. Head(queue) # NoMessage
      BY <1>0, <2>3, HeadTailProperties, QueueAssumptions DEF QP!TypeOK
    <3>2. Held' = <<Head(queue)>>
      BY <2>1, <2>3, <3>1 DEF Held
    <3>3. UNCHANGED pushed
      BY <1>0, <2>1, ProceedEffect
    <3> QED BY <2>1, <2>3, <3>2, <3>3
  <2> QED BY <1>0, <2>1, <2>2, <2>3, ProceedEffect
<1>3. CASE SendFetched(w)
  BY <1>3 DEF SendFetched, sendUnchanged, queue_vars, Held
<1>4. CASE SendWrite(w)
  BY <1>4 DEF SendWrite, sendUnchanged, queue_vars, Held
<1>5. CASE SendWritten(w)
  <2>1. /\ send_pc = "written" /\ out[SendLoop] # NoMessage /\ out[SendLoop] \in Messages
        /\ Held = <<out[SendLoop]>> /\ result.write \in {"ok", "error", "try_again"} /\ sends' = sends
    BY <1>0, <1>5, OutIsMessage DEF SendWritten, sendUnchanged, LoopState, Held, TypeOK
  <2>2. CASE result.write = "ok"
    BY <1>5, <2>1, <2>2 DEF SendWritten, queue_vars, Held
  <2>3. CASE result.write = "try_again"
    BY <1>5, <2>1, <2>3, PushEffect DEF SendWritten, Held
  <2>4. CASE result.write = "error"
    BY <1>5, <2>1, <2>4 DEF SendWritten, queue_vars
  <2> QED BY <2>1, <2>2, <2>3, <2>4
<1>6. CASE SendExit(w)
  BY <1>6 DEF SendExit, ExitLoop, history, queue_vars
<1> QED BY <1>1, <1>2, <1>3, <1>4, <1>5, <1>6 DEF SendStep

\* send() hands over the next message.
LEMMA SendAdds ==
  ASSUME LoopInv, Send, UNCHANGED <<send_pc, wire>>
  PROVE  /\ sends' = sends + 1 /\ sends \in Nat /\ sends + 1 \in Messages
         /\ queue' = Append(queue, sends + 1) /\ pushed' = Append(pushed, sends + 1)
         /\ Held' = Held /\ UNCHANGED <<removed, wire, out>>
BY PushEffect, NodeBoundsAssumption DEF Send, LoopInv, HaltInv, TypeOK, Messages, Held

\* Every other step leaves them where they are.
LEMMA OthersKeep ==
  ASSUME LoopInv, Still \/ LaunchLoop \/ WriteCompletes
  PROVE  /\ UNCHANGED <<sends, wire, queue, pushed, removed, out>> /\ Held' = Held
         /\ send_pc' \notin {"exit", "done"} => send_pc \notin {"exit", "done"}
<1>1. CASE Still
  BY <1>1 DEF Still, Held
<1>2. CASE LaunchLoop
  <2>1. send_pc = "unborn"
    BY <1>2 DEF LaunchLoop, LoopInv, LoopState, BeforeLoop
  <2> QED BY <1>2, <2>1 DEF LaunchLoop, history, queue_vars, Held
<1>3. CASE WriteCompletes
  BY <1>3 DEF WriteCompletes, ioUnchanged, history, queue_vars, Held
<1> QED BY <1>1, <1>2, <1>3

\* Every message stays in one place.
LEMMA ContentsNext ==
  ASSUME LoopInv, LoopInv', QP!IInv, Contents, [Next]_vars
  PROVE  Contents'
<1>0. /\ wire \in Seq(Messages) /\ queue \in Seq(Messages)
      /\ Len(wire) \in Nat /\ Len(queue) \in Nat
  <2>1. wire \in Seq(Messages) /\ queue \in Seq(Messages)
    BY DEF LoopInv, QP!TypeOK
  <2> QED BY <2>1, LenProperties
<1>1. Len(Held) \in Nat
  BY ItemsOfNone, ItemsOfOne DEF Held
<1>2. CASE Still \/ LaunchLoop \/ WriteCompletes
  BY <1>2, OthersKeep DEF Contents
<1>3. CASE Send /\ UNCHANGED <<send_pc, result, wire>>
  <2>1. /\ sends' = sends + 1 /\ sends \in Nat /\ sends + 1 \in Messages
        /\ queue' = Append(queue, sends + 1) /\ Held' = Held /\ wire' = wire /\ send_pc' = send_pc
    BY <1>3, SendAdds
  <2>2. Len(queue') = Len(queue) + 1 /\ Range(queue') = Range(queue) \cup {sends + 1}
    BY <1>0, <2>1, ItemsAppended
  <2>3. 1 .. sends' = (1 .. sends) \cup {sends + 1}
    BY <2>1, OneMore
  <2>4. SUFFICES ASSUME send_pc \notin {"exit", "done"}
                 PROVE  /\ Len(wire') + Len(Held') + Len(queue') = sends'
                        /\ Range(wire') \cup Range(Held') \cup Range(queue') = 1 .. sends'
    BY <2>1 DEF Contents
  <2>5. /\ Len(wire) + Len(Held) + Len(queue) = sends
        /\ Range(wire) \cup Range(Held) \cup Range(queue) = 1 .. sends
    BY <2>4 DEF Contents
  <2>6. Len(wire') = Len(wire) /\ Len(Held') = Len(Held) /\ Range(wire') = Range(wire) /\ Range(Held') = Range(Held)
    BY <2>1
  <2>7. Len(wire') + Len(Held') + Len(queue') = sends'
    <3>1. \A a, b, c \in Nat : a + b + (c + 1) = (a + b + c) + 1
      OBVIOUS
    <3>2. Len(wire) + Len(Held) + (Len(queue) + 1) = sends + 1
      BY <1>0, <1>1, <2>5, <3>1, Zenon
    <3> QED BY <2>1, <2>2, <2>6, <3>2, Zenon
  <2>8. Range(wire') \cup Range(Held') \cup Range(queue') = 1 .. sends'
    BY <2>2, <2>3, <2>5, <2>6
  <2> QED BY <2>7, <2>8
<1>4. ASSUME NEW w \in Workers, SendStep(w) PROVE Contents'
  <2>1. CASE send_pc' \in {"exit", "done"}
    BY <2>1 DEF Contents
  <2>2. CASE /\ send_pc \notin {"exit", "done"}
             /\ Held' = Held /\ UNCHANGED <<sends, wire, queue>>
    BY <2>2 DEF Contents
  <2>3. CASE /\ send_pc = "next" /\ Held = <<>> /\ queue # <<>> /\ Held' = <<Head(queue)>>
             /\ queue' = Tail(queue) /\ UNCHANGED <<sends, wire>>
    <3>1. /\ Len(queue) = 1 + Len(queue') /\ Len(queue') \in Nat
          /\ Range(queue) = {Head(queue)} \cup Range(queue')
      BY <1>0, <2>3, ItemsWithoutFront, LenProperties
    <3> QED BY <1>0, <2>3, <3>1, ItemsOfNone, ItemsOfOne DEF Contents
  <2>4. CASE /\ send_pc = "written" /\ Held = <<out[SendLoop]>> /\ Held' = <<>>
             /\ wire' = Append(wire, out[SendLoop]) /\ out[SendLoop] \in Messages
             /\ UNCHANGED <<sends, queue>>
    <3>1. Len(wire') = Len(wire) + 1 /\ Range(wire') = Range(wire) \cup {out[SendLoop]}
      BY <1>0, <2>4, ItemsAppended
    <3> QED BY <1>0, <2>4, <3>1, ItemsOfNone, ItemsOfOne DEF Contents
  <2>5. CASE /\ send_pc = "written" /\ Held = <<out[SendLoop]>> /\ Held' = <<>>
             /\ queue' = Append(queue, out[SendLoop]) /\ out[SendLoop] \in Messages
             /\ UNCHANGED <<sends, wire>>
    <3>1. Len(queue') = Len(queue) + 1 /\ Range(queue') = Range(queue) \cup {out[SendLoop]}
      BY <1>0, <2>5, ItemsAppended
    <3> QED BY <1>0, <2>5, <3>1, ItemsOfNone, ItemsOfOne DEF Contents
  <2> QED BY <1>4, <2>1, <2>2, <2>3, <2>4, <2>5, SendLoopMoves
<1> QED BY <1>2, <1>3, <1>4, MessageSteps

\* What is taken from the queue is the next message, and the next to be written.
LEMMA InOrderNext ==
  ASSUME LoopInv, LoopInv', QP!IInv, QP!IInv', Contents, InOrder, [Next]_vars
  PROVE  InOrder'
<1>0. /\ wire \in Seq(Messages) /\ pushed \in Seq(Messages) /\ removed \in Seq(Messages)
      /\ queue \in Seq(Messages) /\ pushed = removed \o queue /\ sends \in Nat
      /\ Len(wire) \in Nat /\ Len(removed) \in Nat /\ Len(pushed) \in Nat
  <2>1. /\ wire \in Seq(Messages) /\ pushed \in Seq(Messages) /\ removed \in Seq(Messages)
        /\ queue \in Seq(Messages) /\ pushed = removed \o queue /\ sends \in Nat
    BY DEF LoopInv, HaltInv, TypeOK, QP!IInv, QP!TypeOK, QP!Conservation
  <2> QED BY <2>1, LenProperties
<1>00. pushed \in Seq(Messages) /\ sends \in Nat /\ Len(pushed) \in Nat
  BY <1>0
<1>1. Len(Held) \in Nat
  BY ItemsOfNone, ItemsOfOne DEF Held
<1>2. CASE Still \/ LaunchLoop \/ WriteCompletes
  BY <1>2, OthersKeep DEF InOrder, NoRetry
<1>3. CASE Send /\ UNCHANGED <<send_pc, result, wire>>
  <2>1. /\ sends' = sends + 1 /\ sends + 1 \in Messages
        /\ pushed' = Append(pushed, sends + 1) /\ Held' = Held
        /\ UNCHANGED <<wire, send_pc, removed, out>>
    BY <1>3, SendAdds
  <2>2. /\ Len(pushed') = Len(pushed) + 1 /\ pushed'[Len(pushed) + 1] = sends + 1
        /\ \A i \in DOMAIN pushed : pushed'[i] = pushed[i]
        /\ DOMAIN pushed' = DOMAIN pushed \cup {Len(pushed) + 1}
    BY <1>00, <2>1, ItemsAppended
  <2>3. NoRetry' => NoRetry
    <3>1. Len(pushed') = Len(pushed) + 1 /\ sends' = sends + 1
      BY <2>1, <2>2
    <3> QED BY <1>00, <3>1 DEF NoRetry
  <2>4. ASSUME NoRetry' PROVE \A i \in DOMAIN pushed' : pushed'[i] = i
    BY <2>2, <2>3, <2>4 DEF InOrder, NoRetry
  <2> QED BY <1>0, <2>1, <2>2, <2>3, <2>4 DEF InOrder
<1>4. ASSUME NEW w \in Workers, SendStep(w) PROVE InOrder'
  <2>0. sends' = sends
    BY <1>4, SendLoopMoves
  <2>1. CASE send_pc' \in {"exit", "done"} /\ UNCHANGED <<wire, pushed, removed>>
    BY <2>0, <2>1 DEF InOrder, NoRetry
  <2>2. CASE /\ send_pc \notin {"exit", "done"} /\ Held' = Held /\ UNCHANGED <<wire, pushed, removed>>
             /\ Held # <<>> => out'[SendLoop] = out[SendLoop]
    BY <2>0, <2>2 DEF InOrder, NoRetry
  <2>3. CASE /\ send_pc = "next" /\ Held = <<>> /\ queue # <<>> /\ Held' = <<Head(queue)>>
             /\ removed' = Append(removed, Head(queue)) /\ out'[SendLoop] = Head(queue)
             /\ UNCHANGED <<wire, pushed>>
    <3>1. Head(queue) \in Messages /\ Len(removed') = Len(removed) + 1
      BY <1>0, <2>3, ItemsWithoutFront, ItemsAppended
    <3>2. /\ Len(queue) \in Nat \ {0} /\ Head(queue) = queue[1]
      BY <1>0, <2>3, EmptySeq
    <3>3. /\ DOMAIN pushed = 1 .. Len(removed) + Len(queue)
          /\ pushed[Len(removed) + 1] = Head(queue)
      BY <1>0, <3>2, ConcatProperties, LenProperties
    <3>4. NoRetry => Head(queue) = Len(removed) + 1
      <4>1. Len(removed) + 1 \in DOMAIN pushed
        BY <1>0, <3>2, <3>3
      <4> QED BY <3>3, <4>1 DEF InOrder
    <3>5. NoRetry' <=> NoRetry
      BY <2>0, <2>3 DEF NoRetry
    <3> QED BY <1>0, <2>0, <2>3, <3>1, <3>4, <3>5, ItemsOfNone, ItemsOfOne DEF InOrder
  <2>4. CASE /\ send_pc = "written" /\ Held = <<out[SendLoop]>> /\ Held' = <<>>
             /\ wire' = Append(wire, out[SendLoop]) /\ out[SendLoop] \in Messages
             /\ UNCHANGED <<pushed, removed>>
    <3>1. /\ Len(wire') = Len(wire) + 1 /\ wire'[Len(wire) + 1] = out[SendLoop]
          /\ \A i \in DOMAIN wire : wire'[i] = wire[i]
          /\ DOMAIN wire' = DOMAIN wire \cup {Len(wire) + 1}
      BY <1>0, <2>4, ItemsAppended
    <3>2. NoRetry' <=> NoRetry
      BY <2>0, <2>4 DEF NoRetry
    <3>3. NoRetry => Len(removed) = Len(wire) + 1 /\ out[SendLoop] = Len(wire) + 1
      BY <1>0, <2>4, ItemsOfOne DEF InOrder
    <3>4. NoRetry => \A i \in DOMAIN wire' : wire'[i] = i
      BY <3>1, <3>3 DEF InOrder
    <3> QED BY <1>0, <2>0, <2>4, <3>1, <3>2, <3>3, <3>4, ItemsOfNone DEF InOrder
  <2>5. CASE /\ pushed' = Append(pushed, out[SendLoop]) /\ out[SendLoop] \in Messages
    <3>1. Len(pushed') = Len(pushed) + 1
      BY <1>0, <2>5, ItemsAppended
    <3> QED BY <1>0, <2>0, <3>1 DEF InOrder, NoRetry
  <2> QED BY <1>4, <2>1, <2>2, <2>3, <2>4, <2>5, SendLoopMoves
<1> QED BY <1>2, <1>3, <1>4, MessageSteps

\* The elements of two sequences in a row.
LEMMA ItemsOfBoth ==
  ASSUME NEW S, NEW s \in Seq(S), NEW u \in Seq(S)
  PROVE  /\ s \o u \in Seq(S) /\ Len(s \o u) = Len(s) + Len(u)
         /\ Range(s \o u) = Range(s) \cup Range(u)
<1>1. /\ s \o u \in Seq(S) /\ Len(s \o u) = Len(s) + Len(u)
      /\ \A i \in 1 .. Len(s) + Len(u) : (s \o u)[i] = IF i <= Len(s) THEN s[i] ELSE u[i - Len(s)]
  BY ConcatProperties
<1>2. /\ Len(s) \in Nat /\ Len(u) \in Nat /\ DOMAIN s = 1 .. Len(s) /\ DOMAIN u = 1 .. Len(u)
      /\ DOMAIN (s \o u) = 1 .. Len(s) + Len(u)
  BY <1>1, LenProperties
<1>3. ASSUME NEW i \in DOMAIN (s \o u)
      PROVE  (s \o u)[i] \in Range(s) \cup Range(u)
  <2>1. CASE i <= Len(s)
    <3>1. i \in DOMAIN s /\ (s \o u)[i] = s[i]
      BY <1>1, <1>2, <2>1
    <3> QED BY <3>1, Zenon DEF Range
  <2>2. CASE ~(i <= Len(s))
    <3>1. i - Len(s) \in DOMAIN u /\ (s \o u)[i] = u[i - Len(s)]
      BY <1>1, <1>2, <2>2
    <3> QED BY <3>1, Zenon DEF Range
  <2> QED BY <2>1, <2>2
<1>4. ASSUME NEW i \in DOMAIN s PROVE s[i] \in Range(s \o u)
  <2>1. i \in DOMAIN (s \o u) /\ (s \o u)[i] = s[i]
    BY <1>1, <1>2
  <2> QED BY <2>1, Zenon DEF Range
<1>5. ASSUME NEW i \in DOMAIN u PROVE u[i] \in Range(s \o u)
  <2>1. i + Len(s) \in DOMAIN (s \o u) /\ (s \o u)[i + Len(s)] = u[i]
    BY <1>1, <1>2
  <2> QED BY <2>1, Zenon DEF Range
<1>6. Range(s \o u) \subseteq Range(s) \cup Range(u)
  BY <1>3, Zenon DEF Range
<1>7. Range(s) \cup Range(u) \subseteq Range(s \o u)
  BY <1>4, <1>5, Zenon DEF Range
<1> QED BY <1>1, <1>6, <1>7

\* The inductive invariant of the messages.
LEMMA MessageInductive == Spec => []MessageInv
<1>1. Init => Contents /\ InOrder
  <2> SUFFICES ASSUME Init PROVE Contents /\ InOrder
    OBVIOUS
  <2>1. /\ wire = <<>> /\ queue = <<>> /\ pushed = <<>> /\ removed = <<>> /\ sends = 0 /\ Held = <<>>
    BY DEF Init, Q!Init, Held
  <2>2. 1 .. 0 = {} /\ DOMAIN <<>> = {}
    OBVIOUS
  <2> QED BY <2>1, <2>2, ItemsOfNone DEF Contents, InOrder, NoRetry
<1>2. /\ LoopInv /\ LoopInv' /\ QP!IInv /\ QP!IInv' /\ Contents /\ InOrder /\ [Next]_vars
      => Contents' /\ InOrder'
  BY ContentsNext, InOrderNext
<1>3. LoopInv /\ QP!IInv /\ Contents /\ InOrder => MessageInv
  BY DEF MessageInv
<1> QED BY <1>1, <1>2, <1>3, LoopInductive, QueueInductive, PTL DEF Spec

\* While the send loop runs, every message handed to send() is on the wire, in
\* the loop's hands or queued, and in one of these places only, although send()
\* may be called by any thread and a write may have to be tried again
\* (BasicNode.tcc:205-250).
THEOREM MessagesAreKept == Spec => []NoMessageLost
<1>1. MessageInv => NoMessageLost
  <2> SUFFICES ASSUME MessageInv PROVE NoMessageLost
    OBVIOUS
  <2>1. /\ wire \in Seq(Messages) /\ queue \in Seq(Messages) /\ Contents /\ QP!TypeOK
    BY DEF MessageInv, LoopInv, QP!TypeOK
  <2>2. Held \in Seq(Messages)
    <3>1. CASE out[SendLoop] = NoMessage
      BY <3>1 DEF Held
    <3>2. CASE out[SendLoop] # NoMessage
      BY <2>1, <3>2, OutIsMessage DEF Held
    <3> QED BY <3>1, <3>2
  <2> DEFINE all == wire \o Held \o queue
  <2>3. /\ wire \o Held \in Seq(Messages) /\ Len(wire \o Held) = Len(wire) + Len(Held)
        /\ Range(wire \o Held) = Range(wire) \cup Range(Held)
    BY <2>1, <2>2, ItemsOfBoth
  <2>4. /\ Len(all) = Len(wire) + Len(Held) + Len(queue)
        /\ Range(all) = Range(wire) \cup Range(Held) \cup Range(queue)
    <3> DEFINE s == wire \o Held
    <3>1. s \in Seq(Messages) /\ Len(s) = Len(wire) + Len(Held)
          /\ Range(s) = Range(wire) \cup Range(Held)
      BY <2>3
    <3>2. all = s \o queue
      OBVIOUS
    <3> HIDE DEF s, all
    <3>3. Len(s \o queue) = Len(s) + Len(queue) /\ Range(s \o queue) = Range(s) \cup Range(queue)
      BY <2>1, <3>1, ItemsOfBoth
    <3> QED BY <3>1, <3>2, <3>3
  <2>5. send_pc \notin {"exit", "done"} => Len(all) = sends /\ Range(all) = 1 .. sends
    BY <2>1, <2>4 DEF Contents
  <2>6. Range(all) = {all[i] : i \in DOMAIN all}
    BY DEF Range
  <2> QED BY <2>5, <2>6 DEF NoMessageLost, Held
<1> QED BY <1>1, MessageInductive, PTL

\* Messages are written in the order of the calls of send(), none of them
\* skipped, as long as no write had to be tried again (BasicNode.hh:148-149).
THEOREM MessagesAreInOrder == Spec => []SentInOrder
<1>1. MessageInv => SentInOrder
  BY DEF MessageInv, InOrder, NoRetry, SentInOrder
<1> QED BY <1>1, MessageInductive, PTL

\* Once halt() has aborted the queue (BasicNode.tcc:130-135) the send loop is
\* not, and will never be, blocked in SharedQueue::next.
THEOREM AbortReleasesSendLoop == Spec => [](m_aborted => next_pc[SendLoop] # "waiting")
<1>1. QP!IInv => (m_aborted => next_pc[SendLoop] # "waiting")
  BY DEF QP!IInv, QP!AbortReleasesAll, QP!Waiting
<1> QED BY <1>1, QueueInductive, PTL
=============================================================================
