----------------------------- MODULE BasicNode ------------------------------
(***************************************************************************)
(* The life of one crisp::comms::BasicNode (comms/bits/BasicNode.tcc):     *)
(* run, launch, halt, the send loop and the receive loop, with the worker  *)
(* threads of WorkerObject and the io_service they all run.                *)
(*                                                                         *)
(* The two loops are coroutines.  A coroutine that awaits the socket       *)
(* leaves its worker; the send loop awaiting a message does not: it blocks *)
(* the worker inside SharedQueue::next.  A thread's stack holds what it is *)
(* executing, because io_service::poll, called by halt, runs handlers on   *)
(* top of the call that is still in progress.                              *)
(*                                                                         *)
(* The outgoing queue is an instance of SharedQueue with one consumer.     *)
(* Messages are numbered in the order of the calls of send.                *)
(***************************************************************************)
EXTENDS Naturals, Sequences, FiniteSets

CONSTANTS
  Workers,        \* the threads of the node's pool
  Launcher,       \* the thread that calls run() or launch()
  Callers,        \* other threads, which may call halt() after launch()
  NoThread,       \* the owner of a free mutex
  UsesRun,        \* whether Launcher calls run() or only launch()
  WriteErrors,    \* what a write may fail with while the connection is up
  MaxSends,       \* bound: calls of send()
  MaxPushes,      \* bound: pushes, the re-queued messages included
  MaxReceives,    \* bound: messages the peer sends
  WaiterModulus   \* see SharedQueue

Threads == Workers \cup Callers \cup {Launcher}
Outsiders == Callers \cup {Launcher}

ASSUME ThreadsAssumption ==
  /\ Workers \cap Outsiders = {}
  /\ Launcher \notin Callers
  /\ NoThread \notin Threads
ASSUME NodeBoundsAssumption ==
  /\ MaxSends \in Nat /\ MaxPushes \in Nat /\ MaxReceives \in Nat
  /\ WaiterModulus \in Nat \ {0}
  /\ UsesRun \in BOOLEAN
  /\ WriteErrors \subseteq {"error", "try_again"}

VARIABLES
  m_stopped, m_halting, m_disconnect_emitted,
  halt_mutex,     \* the owner of m_halt_mutex
  stack,          \* per thread: what it is executing, innermost first
  pool,           \* the worker threads: off, running or joined
  ready,          \* the io_service's queue of handlers that may run
  socket,         \* open or closed, at this end
  peer,           \* up, or down once the connection has ended
  timer,          \* the handshake timer: off, armed, fired or cancelled
  m_halt_action,  \* whether the handle of that timer has been stored
  sync,           \* the 1 Hz action: off, active or cancelled
  send_pc,        \* where the send loop is
  receive_pc,     \* where the receive loop is
  result,         \* the outcomes of a write and of a read, until looked at
  received,       \* how many messages the peer has sent
  sends,          \* how many times send() was called
  wire,           \* history: the messages written, in order
  disconnects,    \* history: emissions of the disconnect signal
  full_halts,     \* history: calls of halt() that returned true
  \* the outgoing queue
  queue, m_aborted, m_num_waiters, next_pc, checked, out, aborted,
  pushed, removed

flags == <<m_stopped, m_halting, m_disconnect_emitted>>
queue_vars == <<queue, m_aborted, m_num_waiters, next_pc, checked, out,
                aborted, pushed, removed>>
io == <<socket, peer, received, result>>
timers == <<timer, m_halt_action, sync>>
loops == <<send_pc, receive_pc>>
history == <<sends, wire, disconnects, full_halts>>
vars == <<flags, halt_mutex, stack, pool, ready, io, timers, loops, history,
          queue_vars>>

SendLoop == "send_loop"
NoMessage == 0
Messages == 1 .. MaxSends

Q == INSTANCE SharedQueue WITH Consumers <- {SendLoop}, pc <- next_pc

\* Frames.  The ones of halt() that hold m_halt_mutex are Locked.
Locked == {"halt:undo", "halt:poll", "halt:wake", "halt:close", "halt:emit",
           "halt:cancel", "halt:join", "halt:notify"}
HaltFrames == Locked \cup {"halt:lock"}
LaunchFrames == {"launch:send", "launch:pool", "launch:receive", "launch:loop",
                 "launch:timer", "launch:store"}
RunFrames == {"run:wait", "run:waiting", "run:woken", "run:check", "returned"}
Frames == HaltFrames \cup LaunchFrames \cup RunFrames \cup {"send", "receive"}
Handlers == {"send", "receive", "halt", "timer", "nack", "ack"}

Top(t) == IF stack[t] = <<>> THEN "none" ELSE Head(stack[t])
Call(t, frame) == stack' = [stack EXCEPT ![t] = <<frame>> \o @]
Goto(t, frame) == stack' = [stack EXCEPT ![t] = <<frame>> \o Tail(@)]
Return(t) == stack' = [stack EXCEPT ![t] = Tail(@)]

Init ==
  /\ m_stopped = FALSE /\ m_halting = FALSE /\ m_disconnect_emitted = FALSE
  /\ halt_mutex = NoThread
  /\ stack = [t \in Threads |-> IF t = Launcher THEN <<"launch:send">> ELSE <<>>]
  /\ pool = "off" /\ ready = <<>>
  /\ socket = "open" /\ peer = "up" /\ received = 0
  /\ result = [write |-> "none", read |-> "none"]
  /\ timer = "off" /\ m_halt_action = FALSE /\ sync = "off"
  /\ send_pc = "unborn" /\ receive_pc = "unborn"
  /\ sends = 0 /\ wire = <<>> /\ disconnects = 0 /\ full_halts = 0
  /\ Q!Init

-----------------------------------------------------------------------------
(* send *)

\* send(), both overloads: the message goes to the end of the outgoing queue.
Send ==
  /\ sends < MaxSends
  /\ sends' = sends + 1
  /\ Q!Push(sends + 1)


\* Any other thread may call send(), here once the handshake is queued.
UserSend ==
  /\ sends >= 1
  /\ Send
  /\ UNCHANGED <<flags, halt_mutex, stack, pool, ready, io, timers, loops,
                 wire, disconnects, full_halts>>

-----------------------------------------------------------------------------
(* launch and run, executed by Launcher. *)

\* The handshake is queued first.  A launch() of a running or stopped node
\* does nothing; Launcher makes one call, before any halt.
LaunchSend ==
  /\ Top(Launcher) = "launch:send"
  /\ pool # "running" /\ ~m_stopped
  /\ Send
  /\ Goto(Launcher, "launch:pool")
  /\ UNCHANGED <<flags, halt_mutex, pool, ready, io, timers, loops, wire,
                 disconnects, full_halts>>

\* WorkerObject::launch starts the worker threads.
LaunchPool ==
  /\ Top(Launcher) = "launch:pool"
  /\ pool' = "running"
  /\ Goto(Launcher, "launch:receive")
  /\ UNCHANGED <<flags, halt_mutex, ready, io, timers, loops, history, queue_vars>>

\* boost::asio::spawn posts the start of each coroutine.
LaunchReceive ==
  /\ Top(Launcher) = "launch:receive"
  /\ receive_pc' = "top"
  /\ ready' = Append(ready, "receive")
  /\ Goto(Launcher, "launch:loop")
  /\ UNCHANGED <<flags, halt_mutex, pool, io, timers, send_pc, history, queue_vars>>

LaunchLoop ==
  /\ Top(Launcher) = "launch:loop"
  /\ send_pc' = "top"
  /\ ready' = Append(ready, "send")
  /\ Goto(Launcher, "launch:timer")
  /\ UNCHANGED <<flags, halt_mutex, pool, io, timers, receive_pc, history, queue_vars>>

\* scheduler.set_timer arms the handshake timer ...
LaunchTimer ==
  /\ Top(Launcher) = "launch:timer"
  /\ timer' = "armed"
  /\ Goto(Launcher, "launch:store")
  /\ UNCHANGED <<flags, halt_mutex, pool, ready, io, m_halt_action, sync, loops,
                 history, queue_vars>>

\* ... and its handle is stored a step later.
LaunchStore ==
  /\ Top(Launcher) = "launch:store"
  /\ m_halt_action' = TRUE
  /\ Goto(Launcher, IF UsesRun THEN "run:wait" ELSE "returned")
  /\ UNCHANGED <<flags, halt_mutex, pool, ready, io, timer, sync, loops, history,
                 queue_vars>>

\* run() takes m_halt_mutex and waits, with no condition to test first.
RunWait ==
  /\ Top(Launcher) = "run:wait"
  /\ halt_mutex = NoThread
  /\ Goto(Launcher, "run:waiting")
  /\ UNCHANGED <<flags, halt_mutex, pool, ready, io, timers, loops, history,
                 queue_vars>>

RunSpuriousWake ==
  /\ Top(Launcher) = "run:waiting"
  /\ Goto(Launcher, "run:woken")
  /\ UNCHANGED <<flags, halt_mutex, pool, ready, io, timers, loops, history,
                 queue_vars>>

\* The mutex is taken again to leave wait() and given up at the end of the block.
RunWoken ==
  /\ Top(Launcher) = "run:woken"
  /\ halt_mutex = NoThread
  /\ Goto(Launcher, "run:check")
  /\ UNCHANGED <<flags, halt_mutex, pool, ready, io, timers, loops, history,
                 queue_vars>>

Launch ==
  \/ LaunchSend \/ LaunchPool \/ LaunchReceive \/ LaunchLoop
  \/ LaunchTimer \/ LaunchStore

-----------------------------------------------------------------------------
(* halt *)

\* Mutated form: no test of m_halting.
EnterHaltUntested(t, rest) ==
  /\ stack' = [stack EXCEPT ![t] = <<"halt:lock">> \o rest]
  /\ m_halting' = TRUE

\* halt() on top of the frames `rest`: m_halting is tested and set, and a
\* caller that finds it set returns at once.
EnterHalt(t, rest) ==
  IF m_halting
    THEN /\ stack' = [stack EXCEPT ![t] = rest]
         /\ UNCHANGED m_halting
    ELSE /\ stack' = [stack EXCEPT ![t] = <<"halt:lock">> \o rest]
         /\ m_halting' = TRUE

\* A thread outside the pool calls halt(), once launch() has returned.
CallHalt(t) ==
  /\ t \in Callers
  /\ Top(Launcher) \notin LaunchFrames
  /\ stack[t] = <<>>
  /\ EnterHalt(t, <<>>)
  /\ UNCHANGED <<m_stopped, m_disconnect_emitted, halt_mutex, pool, ready, io,
                 timers, loops, history, queue_vars>>

\* run() calls halt() itself unless the node is stopped already.
RunCheck ==
  /\ Top(Launcher) = "run:check"
  /\ IF m_stopped
       THEN Goto(Launcher, "returned") /\ UNCHANGED m_halting
       ELSE EnterHalt(Launcher, <<"returned">>)
  /\ UNCHANGED <<m_stopped, m_disconnect_emitted, halt_mutex, pool, ready, io,
                 timers, loops, history, queue_vars>>

\* can_halt(): a worker must not join its own pool.
HaltLock(t) ==
  /\ Top(t) = "halt:lock"
  /\ halt_mutex = NoThread
  /\ halt_mutex' = t
  /\ m_stopped' = TRUE
  /\ Goto(t, IF t \in Workers THEN "halt:undo" ELSE "halt:wake")
  /\ UNCHANGED <<m_halting, m_disconnect_emitted, pool, ready, io, timers, loops,
                 history, queue_vars>>

\* Mutated form: one of the two flags stays set.
HaltUndoKeepingHalting(t) ==
  /\ Top(t) = "halt:undo"
  /\ m_stopped' = FALSE
  /\ Goto(t, "halt:poll")
  /\ UNCHANGED <<m_halting, m_disconnect_emitted, halt_mutex, pool, ready, io,
                 timers, loops, history, queue_vars>>

\* On a worker the two flags are taken back ...
HaltUndo(t) ==
  /\ Top(t) = "halt:undo"
  /\ m_stopped' = FALSE
  /\ m_halting' = FALSE
  /\ Goto(t, "halt:poll")
  /\ UNCHANGED <<m_disconnect_emitted, halt_mutex, pool, ready, io, timers, loops,
                 history, queue_vars>>

\* notify_all and the end of the lock's scope.
Unlock(t) ==
  /\ halt_mutex' = NoThread
  /\ stack' = [u \in Threads |->
                 IF u = t THEN Tail(stack[u])
                 ELSE IF Top(u) = "run:waiting" THEN <<"run:woken">>
                 ELSE stack[u]]

\* ... and io_service::poll runs handlers (see RunHandler) until none is ready.
HaltPolled(t) ==
  /\ Top(t) = "halt:poll"
  /\ ready = <<>>
  /\ Unlock(t)
  /\ UNCHANGED <<flags, pool, ready, io, timers, loops, history, queue_vars>>

\* Only a queue that reports waiters is woken; the count is read without
\* the queue's mutex.
HaltWake(t) ==
  /\ Top(t) = "halt:wake"
  /\ IF m_num_waiters > 0 THEN Q!WakeAll ELSE UNCHANGED queue_vars
  /\ Goto(t, "halt:close")
  /\ UNCHANGED <<flags, halt_mutex, pool, ready, io, timers, loops, history>>

HaltClose(t) ==
  /\ Top(t) = "halt:close"
  /\ socket' = "closed"
  /\ Goto(t, "halt:emit")
  /\ UNCHANGED <<flags, halt_mutex, pool, ready, peer, received, result, timers,
                 loops, history, queue_vars>>

HaltEmit(t) ==
  /\ Top(t) = "halt:emit"
  /\ m_disconnect_emitted' = TRUE
  /\ disconnects' = IF m_disconnect_emitted THEN disconnects ELSE disconnects + 1
  /\ Goto(t, "halt:cancel")
  /\ UNCHANGED <<m_stopped, m_halting, halt_mutex, pool, ready, io, timers, loops,
                 sends, wire, full_halts, queue_vars>>

\* Cancelling has no effect on a timer whose handler is queued already.
CancelTimer == IF timer = "armed" THEN "cancelled" ELSE timer

HaltCancel(t) ==
  /\ Top(t) = "halt:cancel"
  /\ sync' = IF sync = "active" THEN "cancelled" ELSE sync
  /\ timer' = IF m_halt_action THEN CancelTimer ELSE timer
  /\ m_halt_action' = FALSE
  /\ Goto(t, "halt:join")
  /\ UNCHANGED <<flags, halt_mutex, pool, ready, io, loops, history, queue_vars>>

\* The io_service has work while a handler is ready or an operation is pending.
OutOfWork ==
  /\ ready = <<>>
  /\ timer # "armed" /\ sync # "active"
  /\ send_pc # "writing" /\ receive_pc \notin {"reading", "resync"}

\* WorkerObject::halt: the workers leave io_service::run, and can be joined,
\* when it runs out of work and none of them is inside a handler.
HaltJoin(t) ==
  /\ Top(t) = "halt:join"
  /\ \A w \in Workers : stack[w] = <<>>
  /\ OutOfWork
  /\ pool' = "joined"
  /\ Goto(t, "halt:notify")
  /\ UNCHANGED <<flags, halt_mutex, ready, io, timers, loops, history, queue_vars>>

HaltReturn(t) ==
  /\ Top(t) = "halt:notify"
  /\ full_halts' = full_halts + 1
  /\ Unlock(t)
  /\ UNCHANGED <<flags, pool, ready, io, timers, loops, sends, wire, disconnects,
                 queue_vars>>

Halt(t) ==
  \/ HaltLock(t) \/ HaltUndo(t) \/ HaltPolled(t) \/ HaltWake(t) \/ HaltClose(t)
  \/ HaltEmit(t) \/ HaltCancel(t) \/ HaltJoin(t) \/ HaltReturn(t)

-----------------------------------------------------------------------------
(* Workers run the handlers of the io_service. *)

\* A worker takes the next handler from run(), or from the poll() in halt().
MayRun(w) == pool = "running" /\ Top(w) \in {"none", "halt:poll"}

\* Handlers that call halt(false): the loops' last act, the expired handshake
\* timer, and the reception of a negative handshake response.
RunHalt(w) ==
  /\ MayRun(w)
  /\ ready # <<>> /\ Head(ready) \in {"halt", "timer", "nack"}
  /\ ready' = Tail(ready)
  /\ EnterHalt(w, stack[w])
  /\ UNCHANGED <<m_stopped, m_disconnect_emitted, halt_mutex, pool, io, timers,
                 loops, history, queue_vars>>

\* The default handler of a positive handshake response: the handshake timer
\* is cancelled through its handle, and SYNC messages are scheduled.
RunAck(w) ==
  /\ MayRun(w)
  /\ ready # <<>> /\ Head(ready) = "ack"
  /\ ready' = Tail(ready)
  /\ timer' = IF m_halt_action THEN CancelTimer ELSE timer
  /\ m_halt_action' = FALSE
  /\ sync' = "active"
  /\ UNCHANGED <<flags, halt_mutex, stack, pool, io, loops, history, queue_vars>>

\* A coroutine is resumed on the worker that took its handler.
RunCoroutine(w) ==
  /\ MayRun(w)
  /\ ready # <<>> /\ Head(ready) \in {"send", "receive"}
  /\ ready' = Tail(ready)
  /\ Call(w, Head(ready))
  /\ UNCHANGED <<flags, halt_mutex, pool, io, timers, loops, history, queue_vars>>

\* A loop that ends while the node is not stopped posts halt(false).
ExitLoop(w) ==
  /\ ready' = IF m_stopped THEN ready ELSE Append(ready, "halt")
  /\ Return(w)
  /\ UNCHANGED <<flags, halt_mutex, pool, io, timers, history, queue_vars>>

-----------------------------------------------------------------------------
(* send_loop *)

sendUnchanged == <<flags, halt_mutex, pool, timers, receive_pc, sends,
                   disconnects, full_halts>>

SendTop(w) ==
  /\ Top(w) = "send" /\ send_pc = "top"
  /\ IF m_stopped
       THEN send_pc' = "exit" /\ UNCHANGED queue_vars
       ELSE send_pc' = "next" /\ Q!CallNext(SendLoop, TRUE)
  /\ UNCHANGED <<sendUnchanged, stack, ready, io, wire>>

\* Inside SharedQueue::next, the worker blocked there with it.
SendInNext(w) ==
  /\ Top(w) = "send" /\ send_pc = "next"
  /\ next_pc[SendLoop] # "idle"
  /\ Q!Proceed(SendLoop)
  /\ UNCHANGED <<sendUnchanged, send_pc, stack, ready, io, wire>>

SendSpuriousWake ==
  /\ Q!SpuriousWake(SendLoop)
  /\ UNCHANGED <<sendUnchanged, send_pc, stack, ready, io, wire>>

SendFetched(w) ==
  /\ Top(w) = "send" /\ send_pc = "next"
  /\ next_pc[SendLoop] = "idle"
  /\ send_pc' = IF aborted[SendLoop] \/ m_stopped THEN "exit" ELSE "got"
  /\ UNCHANGED <<sendUnchanged, stack, ready, io, wire, queue_vars>>

\* async_write is started and the coroutine leaves the worker.
SendWrite(w) ==
  /\ Top(w) = "send" /\ send_pc = "got"
  /\ send_pc' = "writing"
  /\ Return(w)
  /\ UNCHANGED <<sendUnchanged, ready, io, wire, queue_vars>>

\* Mutated forms: the loop goes on after an error; a message to try again is
\* forgotten.
SendWrittenAfterError(w) ==
  /\ Top(w) = "send" /\ send_pc = "written"
  /\ send_pc' = "top"
  /\ IF result.write = "try_again"
       THEN Q!Push(out[SendLoop])
       ELSE UNCHANGED queue_vars
  /\ wire' = IF result.write = "ok" THEN Append(wire, out[SendLoop]) ELSE wire
  /\ result' = [result EXCEPT !.write = "none"]
  /\ UNCHANGED <<sendUnchanged, stack, ready, socket, peer, received>>

SendWrittenNoRetry(w) ==
  /\ Top(w) = "send" /\ send_pc = "written"
  /\ send_pc' = IF result.write = "error" THEN "exit" ELSE "top"
  /\ wire' = IF result.write = "ok" THEN Append(wire, out[SendLoop]) ELSE wire
  /\ result' = [result EXCEPT !.write = "none"]
  /\ UNCHANGED <<sendUnchanged, stack, ready, socket, peer, received, queue_vars>>

\* A successful write is dispatched; one that should be tried again goes to
\* the end of the queue; any other error ends the loop.
SendWritten(w) ==
  /\ Top(w) = "send" /\ send_pc = "written"
  /\ send_pc' = IF result.write = "error" THEN "exit" ELSE "top"
  /\ IF result.write = "try_again"
       THEN Q!Push(out[SendLoop])
       ELSE UNCHANGED queue_vars
  /\ wire' = IF result.write = "ok" THEN Append(wire, out[SendLoop]) ELSE wire
  /\ result' = [result EXCEPT !.write = "none"]
  /\ UNCHANGED <<sendUnchanged, stack, ready, socket, peer, received>>

SendExit(w) ==
  /\ Top(w) = "send" /\ send_pc = "exit"
  /\ send_pc' = "done"
  /\ ExitLoop(w)
  /\ UNCHANGED receive_pc

SendStep(w) ==
  \/ SendTop(w) \/ SendInNext(w) \/ SendFetched(w) \/ SendWrite(w)
  \/ SendWritten(w) \/ SendExit(w)

-----------------------------------------------------------------------------
(* receive_loop.  The reads of a header and of a body are one read. *)

ReceiveTop(w) ==
  /\ Top(w) = "receive" /\ receive_pc = "top"
  /\ IF m_stopped
       THEN receive_pc' = "exit" /\ UNCHANGED stack
       ELSE receive_pc' = "reading" /\ Return(w)
  /\ UNCHANGED <<flags, halt_mutex, pool, ready, io, timers, send_pc, history,
                 queue_vars>>

\* Mutated form: a failed read does not end the loop.
ReceiveReadAfterError(w) ==
  /\ Top(w) = "receive" /\ receive_pc = "read"
  /\ receive_pc' = IF m_stopped THEN "exit" ELSE "top"
  /\ result' = [result EXCEPT !.read = "none"]
  /\ UNCHANGED <<flags, halt_mutex, stack, pool, ready, socket, peer, received,
                 timers, send_pc, history, queue_vars>>

\* m_stopped is tested after the read; a bad checksum leads to resync, which
\* waits for the socket; any other message is dispatched, and the handlers of
\* the handshake response are posted.
ReceiveRead(w) ==
  /\ Top(w) = "receive" /\ receive_pc = "read"
  /\ LET stop == result.read = "error" \/ m_stopped
     IN  /\ receive_pc' = IF stop THEN "exit"
                          ELSE IF result.read = "corrupt" THEN "resync" ELSE "top"
         /\ ready' = IF ~stop /\ result.read \in {"ack", "nack"}
                       THEN Append(ready, result.read) ELSE ready
         /\ IF ~stop /\ result.read = "corrupt" THEN Return(w) ELSE UNCHANGED stack
  /\ result' = [result EXCEPT !.read = "none"]
  /\ UNCHANGED <<flags, halt_mutex, pool, socket, peer, received, timers, send_pc,
                 history, queue_vars>>

ReceiveResynced(w) ==
  /\ Top(w) = "receive" /\ receive_pc = "resynced"
  /\ receive_pc' = IF result.read = "error" THEN "exit" ELSE "top"
  /\ result' = [result EXCEPT !.read = "none"]
  /\ UNCHANGED <<flags, halt_mutex, stack, pool, ready, socket, peer, received,
                 timers, send_pc, history, queue_vars>>

ReceiveExit(w) ==
  /\ Top(w) = "receive" /\ receive_pc = "exit"
  /\ receive_pc' = "done"
  /\ ExitLoop(w)
  /\ UNCHANGED send_pc

ReceiveStep(w) ==
  ReceiveTop(w) \/ ReceiveRead(w) \/ ReceiveResynced(w) \/ ReceiveExit(w)

-----------------------------------------------------------------------------
(* The io_service, the network and the clock. *)

ioUnchanged == <<flags, halt_mutex, stack, pool, timers, history, queue_vars>>

\* A pending write completes and the send loop can be resumed.
WriteCompletes ==
  /\ send_pc = "writing"
  /\ send_pc' = "written"
  /\ ready' = Append(ready, "send")
  /\ \E r \in IF socket = "open" /\ peer = "up"
                THEN {"ok"} \cup WriteErrors ELSE {"error"} :
       result' = [result EXCEPT !.write = r]
  /\ UNCHANGED <<ioUnchanged, socket, peer, received, receive_pc>>

\* A pending read completes, and so does the wait for a sync message.
ReadDone(r) ==
  /\ receive_pc \in {"reading", "resync"}
  /\ receive_pc' = IF receive_pc = "reading" THEN "read" ELSE "resynced"
  /\ ready' = Append(ready, "receive")
  /\ result' = [result EXCEPT !.read = r]
  /\ UNCHANGED <<ioUnchanged, socket, peer, send_pc>>

\* The peer may send a message or none; it responds to a handshake that has
\* left this end.
ReadCompletes ==
  /\ socket = "open" /\ peer = "up"
  /\ received < MaxReceives
  /\ received' = received + 1
  /\ \E r \in {"ack", "nack", "other", "corrupt"} :
       /\ r \in {"ack", "nack"} => send_pc = "writing" \/ wire # <<>>
       /\ ReadDone(r)

\* Once the connection is closed at either end a read fails.
ReadFails ==
  /\ socket = "closed" \/ peer = "down"
  /\ ReadDone("error")
  /\ UNCHANGED received

\* The connection ends, for whatever reason outside this node.
PeerCloses ==
  /\ peer = "up"
  /\ peer' = "down"
  /\ UNCHANGED <<ioUnchanged, ready, socket, received, result, loops>>

TimerExpires ==
  /\ timer = "armed"
  /\ timer' = "fired"
  /\ ready' = Append(ready, "timer")
  /\ UNCHANGED <<flags, halt_mutex, stack, pool, io, m_halt_action, sync, loops,
                 history, queue_vars>>

\* The 1 Hz action, run by an idle worker: a SYNC message is sent.
SyncTick(w) ==
  /\ pool = "running" /\ stack[w] = <<>>
  /\ sync = "active"
  /\ Send
  /\ UNCHANGED <<flags, halt_mutex, stack, pool, ready, io, timers, loops, wire,
                 disconnects, full_halts>>

-----------------------------------------------------------------------------
WorkerStep(w) ==
  RunHalt(w) \/ RunAck(w) \/ RunCoroutine(w) \/ SendStep(w) \/ ReceiveStep(w)

LauncherStep == Launch \/ RunWait \/ RunWoken \/ RunCheck

Next ==
  \/ \E t \in Threads : Halt(t)
  \/ \E w \in Workers : WorkerStep(w) \/ SyncTick(w)
  \/ LauncherStep \/ RunSpuriousWake
  \/ \E t \in Callers : CallHalt(t)
  \/ UserSend
  \/ SendSpuriousWake
  \/ WriteCompletes \/ ReadCompletes \/ ReadFails \/ PeerCloses \/ TimerExpires

Spec == Init /\ [][Next]_vars

\* Threads that can run do run, a pending operation on a dead connection
\* fails, and the clock advances.  Nobody has to call halt() or send(), the
\* connection need not end, and the peer need not say anything.
Fairness ==
  /\ \A t \in Threads : WF_vars(Halt(t))
  /\ \A w \in Workers : WF_vars(WorkerStep(w))
  /\ WF_vars(LauncherStep)
  /\ WF_vars(WriteCompletes) /\ WF_vars(ReadFails) /\ WF_vars(TimerExpires)

FairSpec == Spec /\ Fairness

-----------------------------------------------------------------------------
(* Safety. *)

\* The thread that set m_halting and has neither cleared it nor finished.
Halter(t) == \E i \in DOMAIN stack[t] : stack[t][i] \in HaltFrames \ {"halt:poll"}

\* m_halting is set exactly while one thread is inside the guarded part of
\* halt(), and for ever after a halt that succeeded (BasicNode.tcc:110-183): a
\* flag left set by a call that gave up would make the node impossible to halt.
\* m_stopped is set meanwhile only (BasicNode.hh:87): both are taken back.
HaltingHasOneOwner ==
  /\ m_stopped => m_halting
  /\ m_halting <=> (full_halts > 0 \/ \E t \in Threads : Halter(t))
  /\ \A t, u \in Threads : Halter(t) /\ Halter(u) => t = u

\* A halt() that returned true is the only one, and left the node stopped, the
\* socket closed, the workers joined and the signal emitted once, although the
\* loops, the timer, a negative response and the users all ask for it
\* (BasicNode.hh:82-84, 136-143).
HaltIsOnceAndComplete ==
  full_halts > 0 =>
    /\ full_halts = 1 /\ disconnects = 1
    /\ m_stopped /\ socket = "closed" /\ pool = "joined"

\* While the send loop runs, every message handed to send() is in exactly one
\* place: on the wire, with the loop, or queued, a write that has to be tried
\* again included (BasicNode.tcc:205-250).
NoMessageLost ==
  LET held == IF send_pc \in {"next", "got", "writing", "written"}
                   /\ out[SendLoop] # NoMessage
                THEN <<out[SendLoop]>> ELSE <<>>
      all == wire \o held \o queue
  IN  send_pc \notin {"exit", "done"} =>
        /\ Len(all) = sends
        /\ {all[i] : i \in DOMAIN all} = 1 .. sends

\* As long as no write had to be tried again messages reach the wire in the
\* order of the calls of send, none of them skipped (BasicNode.hh:148-149).
SentInOrder == Len(pushed) = sends => \A i \in DOMAIN wire : wire[i] = i

\* "The message will be sent once all previously-queued outgoing messages have
\* been sent" (BasicNode.hh:148-149), a message to be tried again included.
SentAfterEarlier == \A i, j \in DOMAIN wire : i < j => wire[i] < wire[j]

\* halt() never waits for m_halt_mutex on a thread that holds it already.
NoSelfDeadlock == \A t \in Threads : Top(t) = "halt:lock" => halt_mutex # t

-----------------------------------------------------------------------------
(* Liveness, under FairSpec. *)

\* wake_all ends the send loop (lines 130-135, 210-213).
WokenSendLoopEnds == m_aborted /\ send_pc # "unborn" ~> send_pc = "done"

\* When the connection ends the receive loop ends (lines 288-298).
ReceiveLoopEnds == peer = "down" /\ receive_pc # "unborn" ~> receive_pc = "done"

\* halt() called from outside the pool comes back (BasicNode.hh:136-143).
HaltReturns == \A t \in Outsiders : Top(t) \in HaltFrames ~> Top(t) \notin HaltFrames

\* run() "blocks until another thread calls `halt`" (BasicNode.hh:123-124), and
\* no longer: it returns when the node was halted.
RunReturns == full_halts > 0 ~> Top(Launcher) = "returned"

\* Once both loops have ended nothing keeps halt() from "waiting for its worker
\* threads to finish" (BasicNode.hh:136): it cancelled the timers before the join.
JoinEnds ==
  \A t \in Outsiders :
    Top(t) = "halt:join" /\ send_pc = "done" /\ receive_pc = "done" ~> Top(t) # "halt:join"
=============================================================================
