# A verification project for CRISP

CRISP ("robocrisp") is a C++11 library for remote control of robots over a
network connection: nodes that exchange messages over TCP, a scheduler of timed
actions, signals, controller input, and a set of Ruby tools that bootstrap
programs on remote machines.  This directory holds TLA+ modules that model parts of it,
TLC configurations that check the models on small instances, and theorems whose
proofs TLAPS checks.  Paths below are relative to the repository.

## 1. Inventory

| Part | State | Operations | Hard behaviour |
|---|---|---|---|
| `util::SharedQueue` | queue, mutex, condition variable, `m_aborted`, `m_num_waiters` | push, emplace, pop, next, wake_all, num_waiters | lost wakeups, an abort racing a call of next, an uninitialised counter |
| `comms::BasicNode` | socket, outgoing queue, `m_halting`, `m_stopped`, halt mutex and condition variable, disconnect signal, handshake timer, SYNC action, two coroutines | run, launch, halt, send, send_loop, receive_loop, resync | halts from five places at once, handlers run inside a halt by `poll`, a coroutine that blocks its thread, a transient flag |
| `util::WorkerObject` | worker threads, `io_service::work` | launch, running, can_halt, halt | joining threads while other work keeps the service busy |
| `comms::MessageDispatcher`, `Handshake` | one signal pair per message type, the target node | dispatch, set_target, set_default_callbacks, assignment | posted callbacks run in any order, two ends decide separately |
| `comms::NodeServer` | acceptor, set of nodes, mutex and condition variable, connection counts | launch, run, halt, server_main, the disconnect callback | limits, waits whose condition is tested without the lock, a captured loop variable |
| `util::Scheduler`, `ScheduledAction`, `PeriodicScheduleSlot`, `PeriodicAction` | lists of actions, one timer per slot | set_timer, schedule, remove, cancel, reset, expiry handlers | expiry racing cancellation and destruction |
| `util::Signal` | set of listeners, mutex, optional io_service | connect, remove, clear, emit, assignment | emission to a snapshot, posted calls that outlive a disconnection |
| `comms::Configuration`, `Module`, `ModuleInput`, `Sensor`, `DataDeclaration` | the interface of a robot; the identifiers that come next | add_module, add_input, add_sensor, conversions, encode, decode | identifiers and sizes after a decode |
| `comms::ModuleControl`, `DataValue` | values with a presence mask | set, get, value_for, reset, clear, encode, decode | a bit with two meanings, values read in an order they were not set in, two configurations that differ |
| `comms::Message`, transcoding, `util::checksum` | header, body, checksum | encode, decode, checksum, resync | sizes computed apart from what is written, framing after a corrupt message |
| `util::SArray`, `Buffer`, `RefCountedObject` | size, capacity, storage, ownership, reference counts | push, emplace, clear, resize, copies and moves | moved-from states, memory borrowed and owned |
| `input::*` | axis ranges and coefficients, controller threads | map, post, run, stop | boundaries of the mapping, emulation of the other reporting style, detached threads |
| `comms::APIElement`, `DataField`, `DataStructure` | | | no build file compiles them |
| `tools/` | configuration, transports, a server process and a client | prepare, run, remote execution | a timeout thread racing an answer |

How they interact: a node's owner calls `launch` or `run` and perhaps `halt`.
`launch` queues a handshake, starts a `WorkerObject` pool of six threads on the
socket's io_service, posts two coroutines and arms a timer through the
`Scheduler`.  The send loop takes messages from the `SharedQueue`; the receive
loop hands each message to the `MessageDispatcher`, whose signals post the
callbacks to the same pool.  The callbacks call `send` and `halt`; the loops
post `halt` when they end.  `NodeServer` creates nodes for accepted connections,
all on one io_service.

What makes each correct: the queue is a FIFO that loses nothing, strands nobody
and can be closed; a node is halted once, completely, by whichever of its
threads asks first, and every call of `halt` and `run` returns; messages are
written once and in order; two ends send SYNC only if they fit, and otherwise
learn of it in time; a server keeps its limit and forgets closed nodes; an action
runs at its times and never after it was removed; a listener is not called after
it was removed; what is decoded is what was encoded.

## 2. Modules

| Module | Models | Status |
|---|---|---|
| `MessageQueue` | what a closable FIFO queue promises (abstract) | done |
| `SharedQueue`, `MCSharedQueue`, `SharedQueue_proofs` | `util::SharedQueue` | done, proved |
| `BasicNode`, `MCBasicNode`, `BasicNode_proofs` | one node with its pool, timer and both loops; instantiates `SharedQueue`, and its proofs those of the queue | done, proved |
| `Handshake`, `MCHandshake`, `Handshake_proofs` | two nodes' default handshake callbacks | done, proved |
| `Interface` | interfaces as data: declarations, inputs, sensors, modules, configurations, their encoders and decoders | done, proved through `ControlLink` |
| `ControlLink`, `MCControlLink`, `ControlLink_proofs` | a master, a slave and the connection: queries, configurations, module controls; extends `Interface` | done, proved |
| `Scheduler`, `MCScheduler`, `Scheduler_proofs` | the scheduler, its slots and both kinds of action | done, proved |
| `Storage`, `MCStorage`, `Storage_proofs` | `SArray`, `Buffer`, `RefCountedObject` on a heap | done, proved |
| `Axis`, `Input`, `MCInput`, `Input_proofs` | the mapping of axes; devices, their loops and the multiplexer | done, proved |
| `FoldLemmas` | no code: what a fold over a sequence computes, for any operator; instantiated by the proofs of the three modules above that fold | done, proved |

"Proved" is said of the safety properties; the liveness properties are checked (section 4).

### SharedQueue

Every critical section is one action, as only `cv.wait` gives the mutex up
inside it; what happens outside the mutex is a step of its own: the first test
of `m_aborted` in `next` (`CallNext`), and the time between being notified and
owning the mutex again (`"woken"`).  Notification is a choice of any blocked consumer, and a
consumer may wake for no reason (`SpuriousWake`).  `m_num_waiters` starts with any value,
because no constructor sets it, and is counted modulo `WaiterModulus` (2^w for
w bits).  `pushed` and `removed` are history variables.  `pop` is called on a
non-empty queue only, the contract of `std::queue`.  `MessageQueue` is the
abstract queue: send, ask, deliver, discard and close; `ImplementsMessageQueue`
maps `queue`, `m_aborted` and `out` onto it.

### BasicNode

`stack[t]` is what thread `t` executes, innermost first: the frames of `run`,
`launch`, `halt` and of a resumed coroutine.  A stack is needed because
`io_service::poll` in `halt` runs handlers on top of the halt that is still
holding `m_halt_mutex`.  `ready` is the io_service's FIFO of handlers; `RunHalt`,
`RunAck` and `RunCoroutine` let a worker take its head, from `run` or from `poll`.
A coroutine's place is `send_pc` or `receive_pc`; while it awaits the socket it has
no thread, while it awaits a message in `next` it keeps the thread (`SendInNext`).
The steps of `halt` are separate actions in the order of the code.
Abstractions and assumptions:

- the Launcher calls `launch` (or `run`) once, other threads call `halt` only after
  `launch` has returned;
- the reads of a header and of a body are one read, with the test of `m_stopped`
  after it; encoding errors are left out;
- `WorkerObject::halt`'s helper threads post empty handlers that let idle workers
  notice `should_halt`; the join is modelled by its condition: the service has
  no ready handler and no pending operation, and no worker is inside a handler;
- a halt that gives up takes both of its flags back in one step (`HaltUndo`), `m_stopped` and `m_halting`, two
  statements of the code: a loop that reads `m_stopped` between them sees what it would after both, and a halt called
  between them finds `m_halting` set, as it would before both;
- the listeners of the disconnect signal are outside the node and are only counted;
- a SYNC is sent by an idle worker; that handler is not also run from `poll`;
- a write fails or asks to be tried again only as `WriteErrors` allows while the
  connection is up, and always fails once it is down;
- the destructor's `halt(true)` is not modelled.

### Handshake

`hello[n]` is the handshake node `n` sends: its protocol and version are those of its
build, the role that of its constructor.  `launch` is three steps, because the loops run as soon as they are spawned:
`Launch` queues the handshake and starts them, `ArmTimer` arms the timer, `StoreHandle` stores its handle in
`m_halt_action`, where a response looks for it.  `channel[n]` joins its queue, its send loop and the connection.
`SentInOrder` and the FIFO of TCP justify that as long as no write has to be tried again, which this module leaves
out (`Requeued.cfg` shows what it does to the order).  `Receive` posts the callback, and
`OnHandshake`, `OnAck` and `OnNack` are the default callbacks, run in any order.
A `halt` on a pool thread cannot succeed (see `BasicNode`): `HaltOnPool` notifies a
waiting `run`, and lets either loop end, with or without a posted halt of its own
(`HaltCall`), because `m_stopped` is set for a moment and a loop may read it then.
A send loop that ended sends nothing more: what is queued is lost, and later messages go nowhere.
A loop also ends with an error once the peer has closed the connection (`ReceiveFails`, `SendFails`).
`Halt` is a halt that succeeds, from outside the pool; it may or may not happen, and drops any
suffix of what the node had under way.

### Interface and ControlLink

`Interface` has no state.  A buffer is the sequence of the writes made to it, each with its size in
bytes; a header is a record.  `TailSize`, `InputSize`, `ModuleSize` are the code's `get_encoded_size`
functions, apart from the `Encode` operators as in the code.  The loops that decode items one after the
other are folds (`Places`, `DecodeNext`), as are the sums, so that the proofs can follow them; `Sorted` is `std::sort` by
its result.  A limit that is not given is `Absent`
(the largest integer, or a NaN); `GenericFloat` copies the neutral value where the minimum is meant,
as the code does.  `SelectInSeq` finds an input by name, 0 being the null pointer.

`ControlLink` joins two nodes.  `slave` and `master` are the configurations of their nodes (for the
master, what it received last); `control` is the `ModuleControl` its user builds, with the set of bits
for `input_ids` and a position for the pointer `module`; `asked` follows the user's calls and is what
the applied control is compared with.  Assumptions: the user gives up a control when a new
configuration arrives, because the pointers in it would dangle (ModuleControl.hh:187); modules get at
most `MAX_INPUTS` inputs, different names, and no arrays; one message may be damaged, and the
receiver then stops, as resync is not modelled.  The checksum is taken to tell messages apart.

`asked` is what the user's calls say, and not what the code makes of them: of two calls for an input the later
counts, looking at a value asks for nothing (`read` only notes that it happened), and `clears` says that some input
is to be cleared.  The code does more than that.  Looking at a value adds a zero, a value set beside a `clear` clears
its input, and `reset(module)` leaves `module_id` at 0.  Each of these contradicts a comment and has a configuration of its own, which shows it
(`ControlRead.cfg`, `ControlClearSet.cfg`, `ControlReset.cfg`).  `AppliedAsAsked` says what remains true: every value set and
every input cleared reaches the slave's decoder, and beyond them only zeros of inputs that were looked at or, in a control that
clears, clears of inputs that were looked at or set.  `AppliedAsAsked` and `ControlsDecodable` except controls after a `reset`.
That modules get at most `MAX_INPUTS` inputs with different names is assumed of the user: `add_input`
(Module.hh:108-117) tests neither.

### Scheduler

`waits` are the waits pending on a timer, `posted` the io_service's queue of handlers with their
error code (`ok`), `stack` what each thread still has to do.  `reset_timer` is three kinds of step
(`ResetSlot`, `ArmAction`, `ArmSlot`) because it takes no lock on a worker; `schedule` holds the
mutex across them.  `set_timer` is four: the expiry, the wait, the insertion, and `Result`, which follows the
iterator of the insertion after the mutex was given up (Scheduler.cc:34) and is a fault if the action was
removed meanwhile.  A removal is the test of `expired()` (`Take`) and the rest under the mutex (`RemoveAction`, `RemoveTimer`).
Handlers hold raw pointers: a handler of an action that was destroyed either does no harm or ends the
behaviour as a fault (`Dangling`), the two outcomes of the undefined behaviour.  Callbacks call the
library as users do.

A slot whose actions are all gone, with an expiry already in the queue, arms its timer again and keeps
coming round empty (PeriodicScheduleSlot.cc:84); that costs time and breaks none of the properties.
`ActiveIsServed` has a premise, `SetInTime`: from some time on a timer does not expire while a thread is still in
the middle of setting it.  Without it two workers can starve an action for ever: a slot that was emptied and filled again while
an expiry was in the queue has two chains of waits, and each `reset_timer` of one aborts the wait of the
other.  An interval is milliseconds at the least and `reset_timer` a few statements, so a run of the program meets the premise
unless its threads are held up again and again at the same place.

### Storage

Blocks are addresses with the elements constructed in them.  `NewArray`, `CopyArray`, `MoveArray` and
the others are the special members of `SArray`; `Borrow`, `NewBuffer`, `MoveBuffer`, `ResetBuffer` and
the others those of `Buffer` with its factories.  Memory a null pointer is used for, read too far or
freed twice ends the behaviour as a `fault`.  Destroying a buffer follows the order of the destructors: the memory is freed
first (Buffer.cc:58), and only then is the count looked at (RefCountedObject.cc:12), whose exception in a destructor ends
the program: the fault `"held"`.  `Resize` may be to the same length, which makes a borrower an owner.
`spoiled` names the objects after which little is promised: those that something was moved out of, that
were assigned to themselves, or that were resized while they borrowed.  The properties say that nothing goes wrong without one of them.  `SArray` moves
its elements with `realloc`, which is sound for the types the library stores in it.

### Axis and Input

`Axis` has the mapping as functions over integers; a mapped value is a fraction, so that no rounding
enters.  `Input` has one axis per device, of which the kernel tells the range, and the loop of each
`EvDevController`; `select` is the state `"blocked"`, which only an event ends.  `MultiplexController`
spawns a detached thread for each controller but the last; when its loop ends, the thread calls `stop`,
which closes one descriptor after another (`CloseNext`).  `Fail` is an error of `select` or `read` on an open device (it was
unplugged, a signal came), which ends its loop; it may happen at any time and need not.  Buttons keep no state.  The exception that
`map` throws on a detached thread, and the use of a multiplexer that is gone, end the behaviour.
A symmetric range whose neutral value is its maximum divides by zero (Axis.cc:131), to a NaN at that value; integers have
none, and `LinearPart` counts it with the ranges for which `map` throws.

## 3. Runs

| Run | Instance | Shows |
|---|---|---|
| `shared_queue` | 2 consumers, 2 items, 3 pushes, a counter modulo 4 | types; `Conservation`; `NoLostWakeup`; `AbortReleasesAll`; calls end after an abort and make progress; refinement of `MessageQueue` |
| `node_halt` | 2 workers, an owner in `run`, 2 messages, 3 pushes, failing and repeated writes, 1 message from the peer | one owner of `m_halting`, and `m_stopped` only with it; no message is lost or repeated; order without retries |
| `node_loops` | 3 workers, an owner that only launched, a user who halts | a successful halt is unique and complete; `wake_all` ends the send loop; the end of the connection ends the receive loop |
| `handshake` | a fixed left node against 2 protocols, 2 versions and 2 roles of the right one (8 initial states), one owner in `run` | the verdicts agree, SYNC needs agreement and is scheduled once, at least one end of a misfit hears of it through the responses alone, no node that has finished `launch` is left undecided without its timer armed |
| `control_link` | 2 modules, one with 2 inputs and a sensor of two types and widths, a mask of 3 bits, 2 values, 1 message each way | `SizesExact`; `IdsArePositions`; `MasterIsPrefix`; `PairsMatchMask`; `ControlsDecodable` at both ends; `AppliedAsAsked` |
| `scheduler_slots` | 2 periodic actions in a slot, 2 workers, a user | `SlotStaysArmed` through every interleaving of schedule, cancel and reset_timer; `CancelledIsRemoved`; `ActiveIsServed` |
| `scheduler_timers` | a periodic and a one-shot action, 2 workers, a user, 2 cancels, a reset | `CancelPreventsCall`; `NullNeedsTwoCancels` |
| `storage` | 2 arrays, 2 buffers, 3 blocks, sizes up to 2, 2 references | `OwnedOnce`; `NothingLeaks`; `ValueSemantics`; `OnlySpoiledFault`; `BuffersAreReadable` |
| `input` | 2 devices with absolute and relative axes of four ranges, 2 events, a polynomial of degree 2, loops that fail | `EmulatedPositionIsTotal`; `EmulatedMovesAddUp`; `LinearInRange`; `PolynomialAsWritten`; `StoppedLoopsEnd` |

Runs that find a disagreement between the code and its documentation (each checks one property):

| Run | What the code does |
|---|---|
| `node_self_lock` | a halt on a worker polls with `m_halt_mutex` held and `m_halting` cleared; a second posted halt locks it again on the same thread |
| `node_halt_returns` | `halt` skips `wake_all` when nobody waits yet; the send loop may then block unwoken, and a halt from outside the pool joins its thread for ever |
| `timer_outlives` | a one-shot action that expires before `set_timer` inserted it is never removed |

Ten more configurations reproduce smaller disagreements, each a counterexample that TLC finds to one property.
They are kept beside the runs, to be tried by hand (`tlc -config LateSync.cfg MCBasicNode`), and should fail until
the code is changed:

| Configuration, module | Property | What the code does |
|---|---|---|
| `LateSync.cfg`, `MCBasicNode` | `JoinEnds` | a positive response handled after `halt` looked for the SYNC action schedules it, and its timer keeps the service busy: the join never ends although both loops have |
| `RunMissesHalt.cfg`, `MCBasicNode` | `RunReturns` | `run` waits without a condition (BasicNode.tcc:66) and misses the notification of a halt that was done before |
| `Requeued.cfg`, `MCBasicNode` | `SentAfterEarlier` | a message that has to be tried again goes behind newer ones |
| `LateTimer.cfg`, `MCHandshake` | `SuccessCancelsTimer` | a positive response handled before `m_halt_action` is assigned (BasicNode.tcc:96) leaves the timer armed, and an accepted node halts |
| `NullRemoval.cfg`, `MCScheduler` | `RemovalsAreOrdered` | a second removal of one action has tested its pointer before the first erased it, and follows a null pointer |
| `ControlRead.cfg`, `MCControlLink` | `ReadsSetNothing` | looking at a value that was not set sends a zero (ModuleControl.hh:75 promises NULL) |
| `ControlClearSet.cfg`, `MCControlLink` | `SetIsApplied` | a value set beside a `clear` is not sent, and its input is cleared |
| `ControlReset.cfg`, `MCControlLink` | `ResetAimsAtModule` | after `reset` the control addresses the first module, whichever was given (ModuleControl.cc:59) |
| `BufferFree.cfg`, `MCStorage` | `DestructorFrees` | a buffer resized while it borrowed owns memory without a function to free it, and its destructor calls it |
| `AxisRange.cfg`, `MCInput` | `StaysInUnitRange` | a symmetric range with a neutral value other than zero is mapped outside [-1, 1] (Axis.cc:131, against Axis.hh:149) |

Other disagreements, which need no interleaving to see and have no run:

- `num_waiters()` starts from an indeterminate value: no constructor sets it (SharedQueue.hh:53);
- a node that was only launched never reports the end of its connection (BasicNode.tcc:115);
- `clear` with an unknown name makes a control that clears nothing (ModuleControl.cc:108);
- the minimum of a floating-point declaration is lost (DataDeclarationBase.hh:593), and a limit that
  equals the type's largest value counts as none (DataDeclarationBase.hh:444-449);
- a decoded configuration hands out identifiers in use (Configuration.cc:104);
- a range that is centred elsewhere throws (Axis.cc:141), and a symmetric one whose neutral value is its maximum divides by zero (Axis.cc:131);
- an array value is written without the count its decoder reads (DataValue.cc:23, 59).

Bounds.  Two consumers and two items show a notification taken by the wrong
consumer, an abort between test and wait, and an item left beside a sleeper; a third
adds no new pairing.  Workers: the send loop may block one and a nested halt another, so
three is where a pool can still make progress with both; two suffice where no
progress is asked for.  The real pool of six is these plus idle threads.  One message sent is enough for
the questions of `node_loops`, two for order; three pushes are two messages
and one that is tried again.  `WaiterModulus` is 2 for a node: it has one
consumer, so the counter is zero or not.  `MaxSyncs` bounds the SYNC messages in
a channel; they carry no data.  The left node's handshake is fixed because the
code only compares values for equality: the eight right nodes are every pattern
of agreement (the theorems quantify over all of them).  Workers are symmetric and `node_halt` uses it (safety only).
For `control_link`, two modules and inputs of two widths are the least with which an identifier, a size or
an order can be mistaken for another; the mask of 3 bits has two for inputs and one for clearing, as the code's
16 have fifteen and one.  One message in each direction is enough for an answer that is old when it arrives,
because the slave may change at any time; a control is built or on its way, one at a time (`MayBegin`).
For `scheduler_slots`, two workers and a user are the least number of threads that can be in reset_timer,
remove and schedule at once, and two actions the least for a removal that leaves one.  `scheduler_timers`
has the two kinds of action and the two cancellations that a race of removals needs, on the two workers it takes.
`storage` bounds sizes by 2 and capacities by 4, past the first growth of an array of either start; arrays and
buffers share nothing but the heap and are not alive at the same time (`MCOneKind`), and both are symmetric,
which the invariants and the step property do not tell apart.  `input` has ranges that are symmetric, that rest at an
end, off centre, and centred elsewhere (where `map` throws); two events are the least for a sum and a difference.

Deadlock checking is off where the system stops by itself: a halted node, a slave that has met a damaged message,
a scheduler without actions, devices without events, a behaviour that ended in a fault.

Fairness.  Threads that can run do run (the operating system schedules them and
the mutexes are not held for ever by a running thread), pending operations on a
closed connection fail (Asio cancels them), an armed timer expires, callbacks of the scheduler return;
`ActiveIsServed` assumes `SetInTime` besides (section 2).  Nobody has
to send, halt, launch, schedule or stop; the peer and the devices need not say anything; a halt need not succeed.
In `Handshake` the timer need not expire: `ConflictIsHeard` does without it.  It
promises that one end of a misfit hears of it, and not both: the end that hears
first may end its send loop by its own attempt to halt, before its own response is
written, and its peer then has only its timer (or the end of the connection) left.
`DeadlineStands` says that this timer is there, from the end of `ArmTimer` on.  Devices need not fail: `Fail` has no fairness.

## 4. Theorems

Every safety property of the passing runs is a theorem, for all values of the constants: any number
of threads, items, modules, inputs, arrays or devices, and any widths and bounds.  `PROJECT.json` lists
them.  What follows says from which assumptions, and along which argument.

`SharedQueue_proofs` (`ConsumersAssumption`, `NoMessageAssumption`, `BoundsAssumption`): `TypeCorrect`,
`ConservationHolds`, `NoWakeupIsLost`, `AbortIsFinal`, `Refinement`.  The inductive invariant joins the type
invariant with the three safety invariants.  `NoLostWakeup` is the interesting one: a push wakes one
more consumer whenever one is blocked, so as long as somebody is blocked there
are at least as many woken consumers as items; removing an item
is by a woken consumer, or by one that leaves the counts on the safe side.
`Refinement` shows that each step is a step of the abstract queue or a stutter.

`BasicNode_proofs` (`ThreadsAssumption`, `NodeBoundsAssumption`; the modulus of the counter is at least 1):
- `HaltHasOneOwner`, `HaltCompletes`.  A thread is the halter from the moment it sets `m_halting` to the moment it
  takes it back.  `Stacks` says what may lie on a stack: handlers are run from `poll` only, so every frame but the
  innermost is a poll, where both flags are taken back already.  `OneHalter` and `HaltProgress` then follow: with
  `m_halting` unset nobody is in the guarded part; with it set exactly one is, or a halt has succeeded, and how
  far it has come is what has been stopped, closed, joined and emitted.
- `NodeQueue`: every step of the node is a step of `SharedQueue` with one consumer, or leaves its variables.
  Its theorems are cited through the instance: `MessagesAreKept`, `MessagesAreInOrder` and `AbortReleasesSendLoop` rest
  on the conservation of the queue, and on what the send loop has in its hands at each of its places (`Held`).

`Handshake_proofs` (`NodesAssumption`): `TypeCorrect`, `SyncNeedsAgreement`, `VerdictsAgree`, `DeadlineHolds`,
`SyncIsScheduledOnce`.  The first two safety properties are not inductive: one must know what is under way.
`GenuineChannels` and `GenuineCalls` say that every handshake under way is its
sender's own and that every response under way is positive exactly if the two
ends fit.  That SYNC is scheduled once needs that there is one handshake of each end, in its channel, posted or
answered, and so one response to it.

`Scheduler_proofs` (`ThreadsAssumption`; the workers are finitely many):
- `SlotKeepsComingRound`: a slot with actions has a wait, or an expiry in the queue, or a thread
  between the statements that lead to the next wait (`Armed`).
- `CancelStopsCall`, an action property, from `StoppedQuiet`: a timer that was stopped in time has no wait, no
  handler with `ok` and no frame of a call.
- `CancelledOnceIsSafe`, for any number of workers, from `RemovalsMatch`: an action that was cancelled at most once has at most one
  removal, in the queue or on one worker, and is live until that is done, so that the pointer tested without the mutex
  still stands when it is followed.  `LocksAlone` is what it rests on: a worker in a removal has nothing else on its stack.
- `ActionsAreListedOnce`: no list holds an action twice, or one that is gone.

`Storage_proofs` (`StorageAssumption`): the invariant is `Exclusive` (an object that owns a block owns it alone and it
is allocated), `UserKept` (the caller's memory is never owned) and `Sound` (an object that was not spoiled has
memory for what it can hold and holds what it should), with `HeldIsAlive`: a buffer that references are held to exists.
`Good` is what each of the operations is shown to do for the
objects it is about; `Hands` lists the four things that may happen to an object's block.  `MemoryHasOneOwner`, `ArraysHaveValues`,
`FaultsNeedSpoiled`, `BuffersCanBeRead` follow, and `NoMemoryLost`, an action property, from `Hands`.

`Input_proofs` (`InputAssumption`; the devices are a sequence, the coefficients integers): `PositionIsTotal` and `MovesAddUp`
from `Remembers`, what an axis remembers of its history; `LinearStaysInRange` by cases of the range;
`PolynomialsAreAsWritten` from the lemma `PolynomialIsHorner`: for any degree, the sum that `map` computes over the
reversed coefficients is what Horner's rule makes of the user's list.

`ControlLink_proofs` (`AbsentAssumption`, `ControlLinkAssumption`):
- The encodings, from the inside out: for every declaration, name, input, sensor, module and configuration, what is
  decoded is what was encoded, wherever in a buffer it lies, and the sizes of the writes add up to `get_encoded_size`.
  `ConfigurationRoundTrip` is the last of these; the identifiers have to be positions (`Numbered`), because `decode`
  computes the next one from the last.
- The inductive invariant `IInv` (`LinkInvariant`).  `EndsAgree`: identifiers are positions at both ends, and the master's
  configuration is one the slave had `Before`.  `AnswersInOrder`: so is each answer on its way, and they are in the order
  of their growth; without that order a late answer could take away what the master knows.  `ControlReflects` and
  the type of `down`: the control being built, and each on its way, `Serves` what was asked.  It says something (`Reflects`: its pairs
  are values of inputs of its module, in order, and its mask says the same), and what it says `Does` what the user's calls
  ask for, no value left out and nothing added but what `AppliedAsAsked` lists; the lemmas `DoesSet`, `DoesRead` and `DoesClear` show
  that of each call.  `ReflectsLater`: that stays true of every
  later configuration, which is why a control made with an old interface is still understood.
- `SizesAreExact`, `PositionsAreIds`, `MasterStaysPrefix`, `PairsFollowMask`, `ControlsCanBeDecoded`,
  `SlaveAppliesWhatIsAsked` follow.  The last two need that the rank of a bit in the mask is the position of its pair
  (`RankIs`) and that a control is decoded to the pairs it was made from (`ControlApplies`): `SlaveAppliesWhatIsAsked` is then
  `Does` carried from what the control says to what the slave decodes (`DecodesToWhatServes`).

Folds.  The prover has no induction rule that an operator can be given to, but a set of naturals that is not
empty has a least element, and a least counterexample is an induction.  `FoldLemmas` shows so that
`FoldLeft` applies its operator to one element after the other (`FoldLeftSteps`), for an operator that is a
constant of the module, and each use instantiates it.  It writes `FoldLeft` out by `MapThenFoldSet`, because an
instance of the whole of `SequencesExt` for each operator is more than the provers can carry.

Changes of the models for the proofs, none of which changes a behaviour: loops are folds with an operator that has a name
(`NextPlace`, `DecodeNext`, `FillNext`, `HornerStep`, `push`), `Sorted` is stated by its result, `Without` removes an
element by position, and two records that were built by overriding are written out.

Only model-checked: the liveness properties (`AbortEndsCalls`, `CallsMakeProgress`, `WokenSendLoopEnds`, `ReceiveLoopEnds`,
`ConflictIsHeard`, `CancelledIsRemoved`, `ActiveIsServed`, `StoppedLoopsEnd`), because fairness and ENABLED are
outside the proof system.

## 5. Not modelled

- `NodeServer`.  Its constructor drops the limit on simultaneous connections (NodeServer.tcc:29), and the first
  disconnect leaves defined behaviour: the callback reads the loop's variable `node` through a reference after its scope
  has ended (line 165), and deletes a node whose `halt` has posted the callback and is still running.  All nodes share one
  io_service with the acceptor, so a halt that joins waits for the accept as well (WorkerObject.cc:173).  What is defined
  before that is one coroutine that accepts and counts.
- `Signal` with listeners that come and go during an emission, and the copying of dispatchers.
- `WorkerObject` with several objects on one service; the destructor of a node and `halt(true)`.
- `resync` on the bytes of a stream: its marker is a C string that ends after its first byte (BasicNode.tcc:266).
- The byte layout of messages, the CRC's arithmetic, formatting and logging: data.
- Who owns the names of modules, inputs and sensors when they are copied and moved.
- libevdev, file descriptors, option parsing and the process transports of `tools/`: I/O.
- `APIElement`, `DataField`, `DataStructure`: no build file compiles them.

## 6. Plan

1. `SharedQueue`, `BasicNode`, `Handshake`, `Interface` with `ControlLink`, `Scheduler`, `Storage`, `Axis` with `Input`: done,
   with theorems for the safety properties of each.
2. Next theorems: what the two ends of a link conclude from the queue and the order of messages, which `Handshake`
   and `ControlLink` assume of the channel (`BasicNode`'s `SentInOrder` shows it of one end); the functional laws of
   `Interface` that no run needs, such as the equality of modules being an equivalence.
3. If the code's `NodeServer` is repaired: its limit, its wait loops, and a bounded set of live nodes as the
   abstract specification.
