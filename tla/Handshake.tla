------------------------------ MODULE Handshake -----------------------------
(***************************************************************************)
(* Two nodes agree on protocol, roles and version: the default callbacks   *)
(* of MessageDispatcher (comms/bits/MessageDispatcher.tcc) at the two ends *)
(* of one connection, with launch(), run() and the handshake timer of      *)
(* BasicNode as far as they bear on it.                                    *)
(*                                                                         *)
(* A node's queue, its send loop and the connection are one FIFO channel   *)
(* (see BasicNode).  The receive loop posts a call of the callback for     *)
(* each message; a pool of threads runs them, so posted calls are a set.   *)
(* On the pool halt() only notifies run(), but it sets m_stopped for a     *)
(* moment, in which either loop may find it set and end (see BasicNode).   *)
(***************************************************************************)
EXTENDS Naturals, Sequences

CONSTANTS
  Left, Right,    \* the two nodes
  Protocols,      \* values of PROTOCOL_NAME
  Versions,       \* values of PROTOCOL_VERSION
  Running,        \* the nodes whose owner calls run(), not only launch()
  MaxSyncs        \* bound: SYNC messages in a channel

Nodes == {Left, Right}
Peer(n) == IF n = Left THEN Right ELSE Left

ASSUME NodesAssumption == Left # Right /\ Running \subseteq Nodes
ASSUME MaxSyncsAssumption == MaxSyncs \in Nat

VARIABLES
  hello,          \* per node: the handshake it sends
  main,           \* where its owner is in launch() or run()
  channel,        \* the messages it sent that its peer has not received
  posted,         \* the calls posted for received messages and not yet run
  loops,          \* which of its loops run
  timer,          \* its handshake timer
  syncs,          \* how many periodic SYNC actions it has scheduled
  asked           \* history: whether something in it has asked for a halt

vars == <<hello, main, channel, posted, loops, timer, syncs, asked>>

Roles == {"MASTER", "SLAVE"}
Opposite(role) == IF role = "MASTER" THEN "SLAVE" ELSE "MASTER"
Acknowledges == {"ACK", "NACK_UNKNOWN_PROTOCOL", "NACK_ROLE_CONFLICT",
                 "NACK_VERSION_CONFLICT"}
Handshakes == [type : {"HANDSHAKE"}, protocol : Protocols, version : Versions,
               role : Roles]
HandshakeResponses ==
  [type : {"HANDSHAKE_RESPONSE"}, acknowledge : Acknowledges, role : Roles]
Sync == [type |-> "SYNC"]
Messages == Handshakes \cup HandshakeResponses \cup {Sync}

Loops == {"send", "receive"}
HaltCall(loop) == [type |-> "halt", loop |-> loop]
Calls == Handshakes \cup HandshakeResponses \cup {HaltCall(l) : l \in Loops}

TypeOK ==
  /\ hello \in [Nodes -> Handshakes]
  /\ main \in [Nodes -> {"new", "starting", "launching", "entering", "waiting",
                         "notified", "launched", "halted"}]
  /\ channel \in [Nodes -> Seq(Messages)]
  /\ posted \in [Nodes -> SUBSET Calls]
  /\ loops \in [Nodes -> SUBSET Loops]
  /\ timer \in [Nodes -> {"off", "armed", "cancelled", "fired"}]
  /\ syncs \in [Nodes -> Nat]
  /\ asked \in [Nodes -> BOOLEAN]

Init ==
  /\ hello \in [Nodes -> Handshakes]
  /\ main = [n \in Nodes |-> "new"]
  /\ channel = [n \in Nodes |-> <<>>]
  /\ posted = [n \in Nodes |-> {}]
  /\ loops = [n \in Nodes |-> {}]
  /\ timer = [n \in Nodes |-> "off"]
  /\ syncs = [n \in Nodes |-> 0]
  /\ asked = [n \in Nodes |-> FALSE]

-----------------------------------------------------------------------------
\* Mutated form: a message is queued twice.
SendTwice(n, m) ==
  channel' = IF "send" \notin loops[n] THEN channel
             ELSE [channel EXCEPT ![n] = @ \o <<m, m>>]

\* A message is queued, and goes nowhere if the send loop has ended.
Send(n, m) ==
  channel' = IF "send" \notin loops[n] THEN channel
             ELSE [channel EXCEPT ![n] = Append(@, m)]

\* What is queued is lost, and so may be what is in flight.
LoseSuffix(n) ==
  \E k \in 0 .. Len(channel[n]) :
    channel' = [channel EXCEPT ![n] = SubSeq(@, 1, k)]

\* halt() on a worker, in a call that leaves `calls` posted: the owner is
\* notified if it is waiting, and the loops may end, each with or without posting
\* a halt of its own.  A node that is halted already is left alone.
HaltOnPool(n, calls) ==
  /\ asked' = [asked EXCEPT ![n] = TRUE]
  /\ main' = IF main[n] = "waiting" THEN [main EXCEPT ![n] = "notified"] ELSE main
  /\ \E ends \in SUBSET loops[n] : \E told \in SUBSET ends :
       /\ loops' = [loops EXCEPT ![n] = @ \ ends]
       /\ posted' = [posted EXCEPT ![n] = calls \cup {HaltCall(l) : l \in told}]
       /\ IF "send" \in ends THEN LoseSuffix(n) ELSE UNCHANGED channel

-----------------------------------------------------------------------------
(* The owner of a node. *)

\* launch() queues the handshake and starts the loops: from here on messages are
\* sent, received and answered ...
Launch(n) ==
  /\ main[n] = "new"
  /\ main' = [main EXCEPT ![n] = "starting"]
  /\ channel' = [channel EXCEPT ![n] = Append(@, hello[n])]
  /\ loops' = [loops EXCEPT ![n] = Loops]
  /\ UNCHANGED <<hello, posted, timer, syncs, asked>>

\* ... it arms the timer, whatever has come by now ...
ArmTimer(n) ==
  /\ main[n] = "starting"
  /\ main' = [main EXCEPT ![n] = "launching"]
  /\ timer' = [timer EXCEPT ![n] = "armed"]
  /\ UNCHANGED <<hello, channel, posted, loops, syncs, asked>>

\* ... and stores the handle to it afterwards.
StoreHandle(n) ==
  /\ main[n] = "launching"
  /\ main' = [main EXCEPT ![n] = IF n \in Running THEN "entering" ELSE "launched"]
  /\ UNCHANGED <<hello, channel, posted, loops, timer, syncs, asked>>

\* run() begins to wait for a notification.
Wait(n) ==
  /\ main[n] = "entering"
  /\ main' = [main EXCEPT ![n] = "waiting"]
  /\ UNCHANGED <<hello, channel, posted, loops, timer, syncs, asked>>

\* The node is halted: by run() once it was notified, or by anybody outside
\* the pool, who need not know how far launch() has come.  Both loops end, both
\* timed actions are cancelled, and nobody is left to run a timer armed later.
Halt(n) ==
  /\ main[n] \notin {"new", "halted"}
  /\ main' = [main EXCEPT ![n] = "halted"]
  /\ loops' = [loops EXCEPT ![n] = {}]
  /\ LoseSuffix(n)
  /\ timer' = [timer EXCEPT ![n] = IF @ = "armed" THEN "cancelled" ELSE @]
  /\ UNCHANGED <<hello, posted, syncs, asked>>

-----------------------------------------------------------------------------
(* The node's pool of threads. *)

\* Mutated form: a SYNC is posted like the messages with a body.
ReceivePostingSync(n) ==
  /\ "receive" \in loops[n]
  /\ channel[Peer(n)] # <<>>
  /\ posted' = [posted EXCEPT ![n] = @ \cup {Head(channel[Peer(n)])}]
  /\ channel' = [channel EXCEPT ![Peer(n)] = Tail(@)]
  /\ UNCHANGED <<hello, main, loops, timer, syncs, asked>>

\* The receive loop dispatches the next message.
Receive(n) ==
  /\ "receive" \in loops[n]
  /\ channel[Peer(n)] # <<>>
  /\ LET m == Head(channel[Peer(n)])
     IN  posted' = [posted EXCEPT ![n] = @ \cup ({m} \ {Sync})]
  /\ channel' = [channel EXCEPT ![Peer(n)] = Tail(@)]
  /\ UNCHANGED <<hello, main, loops, timer, syncs, asked>>

\* A loop ends with an error and posts a halt.
EndLoop(n, loop) ==
  /\ loop \in loops[n]
  /\ main[Peer(n)] = "halted"
  /\ loops' = [loops EXCEPT ![n] = @ \ {loop}]
  /\ posted' = [posted EXCEPT ![n] = @ \cup {HaltCall(loop)}]
  /\ UNCHANGED <<hello, main, timer, syncs, asked>>

\* Once the peer has closed the connection and everything is read, a read fails ...
ReceiveFails(n) ==
  /\ channel[Peer(n)] = <<>>
  /\ EndLoop(n, "receive")
  /\ UNCHANGED channel

\* ... and so does a write.
SendFails(n) ==
  /\ channel[n] # <<>>
  /\ EndLoop(n, "send")
  /\ channel' = [channel EXCEPT ![n] = <<>>]

\* halt() posted by a loop.
OnHaltCall(n, c) ==
  /\ c \in posted[n] /\ c.type = "halt"
  /\ HaltOnPool(n, posted[n] \ {c})
  /\ UNCHANGED <<hello, timer, syncs>>

\* Mutated forms: equal roles are accepted; an older version is accepted.
AnswerIgnoringRole(n, hs) ==
  IF hs.protocol # hello[n].protocol THEN "NACK_UNKNOWN_PROTOCOL"
  ELSE IF hs.version # hello[n].version THEN "NACK_VERSION_CONFLICT"
  ELSE "ACK"

AnswerAcceptingOlder(n, hs) ==
  IF hs.protocol # hello[n].protocol THEN "NACK_UNKNOWN_PROTOCOL"
  ELSE IF hs.role = hello[n].role THEN "NACK_ROLE_CONFLICT"
  ELSE IF hs.version > hello[n].version THEN "NACK_VERSION_CONFLICT"
  ELSE "ACK"

\* Which answer a handshake deserves.
Answer(n, hs) ==
  IF hs.protocol # hello[n].protocol THEN "NACK_UNKNOWN_PROTOCOL"
  ELSE IF hs.role = hello[n].role THEN "NACK_ROLE_CONFLICT"
  ELSE IF hs.version # hello[n].version THEN "NACK_VERSION_CONFLICT"
  ELSE "ACK"

\* handshake.received
OnHandshake(n, hs) ==
  /\ hs \in posted[n] /\ hs.type = "HANDSHAKE"
  /\ posted' = [posted EXCEPT ![n] = @ \ {hs}]
  /\ Send(n, [type |-> "HANDSHAKE_RESPONSE", acknowledge |-> Answer(n, hs),
              role |-> Opposite(hs.role)])
  /\ UNCHANGED <<hello, main, loops, timer, syncs, asked>>

\* handshake_response.received, for a positive response: the timer is
\* cancelled if its handle is stored, and SYNC messages are scheduled.
OnAck(n, r) ==
  /\ r \in posted[n] /\ r.type = "HANDSHAKE_RESPONSE" /\ r.acknowledge = "ACK"
  /\ posted' = [posted EXCEPT ![n] = @ \ {r}]
  /\ timer' = [timer EXCEPT ![n] =
                 IF @ = "armed" /\ main[n] # "launching" THEN "cancelled" ELSE @]
  /\ syncs' = [syncs EXCEPT ![n] = @ + 1]
  /\ UNCHANGED <<hello, main, channel, loops, asked>>

\* Mutated form: a negative response is only reported.
OnNackReported(n, r) ==
  /\ r \in posted[n] /\ r.type = "HANDSHAKE_RESPONSE" /\ r.acknowledge # "ACK"
  /\ posted' = [posted EXCEPT ![n] = @ \ {r}]
  /\ UNCHANGED <<hello, main, channel, loops, timer, syncs, asked>>

\* handshake_response.received, for a negative response.
OnNack(n, r) ==
  /\ r \in posted[n] /\ r.type = "HANDSHAKE_RESPONSE" /\ r.acknowledge # "ACK"
  /\ HaltOnPool(n, posted[n] \ {r})
  /\ UNCHANGED <<hello, timer, syncs>>

\* Mutated form: the timer asks for nothing.
TimerExpiresSilently(n) ==
  /\ timer[n] = "armed"
  /\ timer' = [timer EXCEPT ![n] = "fired"]
  /\ UNCHANGED <<hello, main, channel, posted, loops, syncs, asked>>

\* The handshake timer asks for a halt.
TimerExpires(n) ==
  /\ timer[n] = "armed"
  /\ timer' = [timer EXCEPT ![n] = "fired"]
  /\ HaltOnPool(n, posted[n])
  /\ UNCHANGED <<hello, syncs>>

\* The 1 Hz action sends SYNC.
SyncTick(n) ==
  /\ syncs[n] > 0 /\ "send" \in loops[n]
  /\ Len(channel[n]) < MaxSyncs
  /\ Send(n, Sync)
  /\ UNCHANGED <<hello, main, posted, loops, timer, syncs, asked>>

-----------------------------------------------------------------------------
Callback(n) ==
  \E m \in posted[n] :
    OnHandshake(n, m) \/ OnAck(n, m) \/ OnNack(n, m) \/ OnHaltCall(n, m)

Pool(n) == Receive(n) \/ ReceiveFails(n) \/ SendFails(n) \/ Callback(n)

Next ==
  \E n \in Nodes :
    \/ Launch(n) \/ ArmTimer(n) \/ StoreHandle(n) \/ Wait(n) \/ Halt(n)
    \/ Pool(n) \/ TimerExpires(n) \/ SyncTick(n)

Spec == Init /\ [][Next]_vars

\* The pool runs and launch() goes on once begun.  Nobody has to launch a node,
\* a halt need not succeed, and the 5 s of the timer may be too long for anybody
\* to see them end.
Fairness ==
  \A n \in Nodes :
    /\ WF_vars(Receive(n)) /\ WF_vars(ReceiveFails(n)) /\ WF_vars(Callback(n))
    /\ WF_vars(ArmTimer(n) \/ StoreHandle(n) \/ Wait(n))

FairSpec == Spec /\ Fairness

-----------------------------------------------------------------------------
(* Safety. *)

\* What the two builds and the two requested roles must satisfy.
Compatible ==
  /\ hello[Left].protocol = hello[Right].protocol
  /\ hello[Left].version = hello[Right].version
  /\ hello[Left].role # hello[Right].role

\* A node keeps its connection alive with SYNC messages only when the two ends
\* run the same protocol and version in opposite roles, whichever of them
\* answered first (MessageDispatcher.tcc:173-183, 203-212).
OnlyCompatibleSync == \A n \in Nodes : syncs[n] > 0 => Compatible

\* The ends never disagree: while one end accepts the other, or has acted upon
\* such a response, neither of them rejects (MessageDispatcher.tcc:173-186).
Responses(n) ==
  {m \in {channel[n][i] : i \in DOMAIN channel[n]} \cup posted[Peer(n)] :
     m.type = "HANDSHAKE_RESPONSE"}
Accepts(n) == \E r \in Responses(n) : r.acknowledge = "ACK"
Rejects(n) == \E r \in Responses(n) : r.acknowledge # "ACK"
SameVerdict ==
  (\E n \in Nodes : syncs[n] > 0 \/ Accepts(n)) => ~\E n \in Nodes : Rejects(n)

\* One connection schedules the periodic SYNC once (MessageDispatcher.tcc:210).
ScheduledOnce == \A n \in Nodes : syncs[n] <= 1

\* Once launch() has come past set_timer the node is never left undecided: until
\* it is accepted, has asked for a halt or is halted its timer stays armed, even if
\* the peer never launches, its response is lost or a loop has ended, and whatever
\* came before there was a timer (BasicNode.tcc:85-101).
DeadlineStands ==
  \A n \in Nodes :
    main[n] \notin {"new", "starting"} =>
      timer[n] = "armed" \/ syncs[n] > 0 \/ asked[n] \/ main[n] = "halted"

\* "The default `handshake_response.received` handler will cancel this action on
\* successful handshake sequence" (BasicNode.tcc:94-95): once launch() has returned,
\* the timer of a node that was accepted does not ask for a halt.  (It may, when the
\* response was handled before the handle was stored: LateTimer.cfg shows it.)
SuccessCancelsTimer ==
  [][\A n \in Nodes :
       syncs[n] > 0 /\ main[n] \notin {"starting", "launching"} /\ timer'[n] = "fired" =>
         timer[n] = "fired"]_vars

-----------------------------------------------------------------------------
(* Liveness, under FairSpec. *)

\* When two launched nodes do not fit, one of them at least asks for a halt
\* without any help from the timers (MessageDispatcher.tcc:177-186, 213-214).
\* The other may not hear of it: the loop that should have sent its response
\* may have ended while m_stopped was set.
ConflictIsHeard ==
  ~Compatible /\ loops = [n \in Nodes |-> Loops] ~>
    \E n \in Nodes : asked[n] \/ main[n] = "halted"

=============================================================================
