-------------------------- MODULE Handshake_proofs --------------------------
(***************************************************************************)
(* Two nodes of any two builds never disagree about their handshake.  What *)
(* makes it inductive: every handshake under way is the sender's own, and  *)
(* every response under way is positive exactly if the two ends fit.       *)
(***************************************************************************)
EXTENDS Handshake, SequenceTheorems, TLAPS

\* What a message from node n to its peer is.
Genuine(n, m) ==
  /\ m.type = "HANDSHAKE" => m = hello[n]
  /\ m.type = "HANDSHAKE_RESPONSE" => (m.acknowledge = "ACK" <=> Compatible)

GenuineChannels ==
  \A n \in Nodes : \A i \in DOMAIN channel[n] : Genuine(n, channel[n][i])
GenuineCalls == \A n \in Nodes : \A m \in posted[n] : Genuine(Peer(n), m)

IInv ==
  TypeOK /\ GenuineChannels /\ GenuineCalls /\ OnlyCompatibleSync /\ DeadlineStands

-----------------------------------------------------------------------------
\* The peer of a node is the other node.
LEMMA PeerIsOther ==
  \A n \in Nodes : /\ Peer(n) \in Nodes /\ Peer(n) # n /\ Peer(Peer(n)) = n
                   /\ \A k \in Nodes : k = n \/ k = Peer(n)
  BY NodesAssumption DEF Nodes, Peer

\* Compatible does not depend on the end from which the two are compared.
LEMMA CompatibleFrom ==
  \A n \in Nodes :
    Compatible <=> /\ hello[n].protocol = hello[Peer(n)].protocol
                   /\ hello[n].version = hello[Peer(n)].version
                   /\ hello[n].role # hello[Peer(n)].role
  BY NodesAssumption DEF Nodes, Peer, Compatible

\* What is received and has a callback is a call to post.
LEMMA MessagesAreCalls == \A m \in Messages : m # Sync => m \in Calls
  BY DEF Messages, Calls

\* The answer to the peer's own handshake is positive exactly if the two fit.
LEMMA AnswerIsVerdict ==
  ASSUME TypeOK, NEW n \in Nodes
  PROVE  /\ Answer(n, hello[Peer(n)]) \in Acknowledges
         /\ Answer(n, hello[Peer(n)]) = "ACK" <=> Compatible
  <1>1. hello[n] \in Handshakes /\ hello[Peer(n)] \in Handshakes
    BY PeerIsOther DEF TypeOK
  <1>2. CASE Compatible
    BY <1>2, CompatibleFrom DEF Answer, Acknowledges
  <1>3. CASE ~Compatible
    BY <1>3, CompatibleFrom DEF Answer, Acknowledges
  <1> QED BY <1>2, <1>3

-----------------------------------------------------------------------------
\* The invariant holds at first.
LEMMA InitInv == Init => IInv
  <1> SUFFICES ASSUME Init PROVE IInv
    OBVIOUS
  <1>1. TypeOK
    BY DEF Init, TypeOK
  <1>2. GenuineChannels /\ GenuineCalls /\ OnlyCompatibleSync /\ DeadlineStands
    BY DEF Init, GenuineChannels, GenuineCalls, OnlyCompatibleSync, DeadlineStands
  <1> QED BY <1>1, <1>2 DEF IInv

\* What is queued is added to what is under way.
LEMMA Queueing ==
  ASSUME IInv, NEW n \in Nodes, NEW msg \in Messages, Genuine(n, msg),
         channel' = [channel EXCEPT ![n] = Append(@, msg)]
  PROVE  /\ channel' \in [Nodes -> Seq(Messages)]
         /\ \A k \in Nodes : \A i \in DOMAIN channel'[k] : Genuine(k, channel'[k][i])
  <1>1. channel \in [Nodes -> Seq(Messages)]
    BY DEF IInv, TypeOK
  <1>2. channel' \in [Nodes -> Seq(Messages)]
    BY <1>1
  <1>3. ASSUME NEW k \in Nodes, NEW i \in DOMAIN channel'[k]
        PROVE  Genuine(k, channel'[k][i])
    <2>1. CASE k = n
      <3>1. channel'[k] = Append(channel[n], msg)
        BY <1>1, <2>1
      <3>2. channel'[k][i] = msg \/ (i \in DOMAIN channel[n] /\ channel'[k][i] = channel[n][i])
        BY <1>1, <3>1
      <3> QED BY <2>1, <3>2 DEF IInv, GenuineChannels
    <2>2. CASE k # n
      BY <1>1, <2>2 DEF IInv, GenuineChannels
    <2> QED BY <2>1, <2>2
  <1> QED BY <1>2, <1>3

\* The same for a message that may go nowhere.
LEMMA Sending ==
  ASSUME IInv, NEW n \in Nodes, NEW msg \in Messages, Genuine(n, msg), Send(n, msg)
  PROVE  /\ channel' \in [Nodes -> Seq(Messages)]
         /\ \A k \in Nodes : \A i \in DOMAIN channel'[k] : Genuine(k, channel'[k][i])
  <1>1. CASE channel' = channel
    BY <1>1 DEF IInv, TypeOK, GenuineChannels
  <1>2. CASE channel' = [channel EXCEPT ![n] = Append(@, msg)]
    BY <1>2, Queueing
  <1> QED BY <1>1, <1>2 DEF Send

\* What is lost leaves the rest as it was.
LEMMA Losing ==
  ASSUME IInv, NEW n \in Nodes, LoseSuffix(n)
  PROVE  /\ channel' \in [Nodes -> Seq(Messages)]
         /\ \A k \in Nodes : \A i \in DOMAIN channel'[k] : Genuine(k, channel'[k][i])
  <1>1. PICK k \in 0 .. Len(channel[n]) :
          channel' = [channel EXCEPT ![n] = SubSeq(@, 1, k)]
    BY DEF LoseSuffix
  <1>2. channel[n] \in Seq(Messages)
    BY DEF IInv, TypeOK
  <1>3. /\ SubSeq(channel[n], 1, k) \in Seq(Messages)
        /\ \A i \in DOMAIN SubSeq(channel[n], 1, k) :
             i \in DOMAIN channel[n] /\ SubSeq(channel[n], 1, k)[i] = channel[n][i]
    BY <1>2
  <1> QED BY <1>1, <1>3 DEF IInv, TypeOK, GenuineChannels

\* A step that leaves `hello` alone changes no verdict.
LEMMA VerdictsStay ==
  ASSUME UNCHANGED hello
  PROVE  /\ Compatible' <=> Compatible
         /\ \A n, m : Genuine(n, m)' <=> Genuine(n, m)
  BY DEF Compatible, Genuine

\* A halt on the pool that leaves some of the posted calls disturbs none of this.
LEMMA HaltingOnPool ==
  ASSUME IInv, NEW n \in Nodes, NEW calls \in SUBSET posted[n],
         HaltOnPool(n, calls), UNCHANGED <<hello, syncs>>,
         timer' \in [Nodes -> {"off", "armed", "cancelled", "fired"}],
         \A k \in Nodes : k # n => timer'[k] = timer[k]
  PROVE  IInv'
  <1>1. PICK ends \in SUBSET loops[n] : \E told \in SUBSET ends :
          /\ loops' = [loops EXCEPT ![n] = @ \ ends]
          /\ posted' = [posted EXCEPT ![n] = calls \cup {HaltCall(l) : l \in told}]
          /\ IF "send" \in ends THEN LoseSuffix(n) ELSE UNCHANGED channel
    BY DEF HaltOnPool
  <1>2. PICK told \in SUBSET ends :
          /\ loops' = [loops EXCEPT ![n] = @ \ ends]
          /\ posted' = [posted EXCEPT ![n] = calls \cup {HaltCall(l) : l \in told}]
          /\ IF "send" \in ends THEN LoseSuffix(n) ELSE UNCHANGED channel
    BY <1>1
  <1>3. told \subseteq Loops
    BY <1>1, <1>2 DEF IInv, TypeOK
  <1>4. calls \cup {HaltCall(l) : l \in told} \subseteq Calls
    BY <1>3 DEF IInv, TypeOK, Calls
  <1>5. posted' \in [Nodes -> SUBSET Calls]
    BY <1>2, <1>4 DEF IInv, TypeOK
  <1>6. /\ channel' \in [Nodes -> Seq(Messages)]
        /\ \A k \in Nodes : \A i \in DOMAIN channel'[k] : Genuine(k, channel'[k][i])
    BY <1>2, Losing DEF IInv, TypeOK, GenuineChannels
  <1>7. loops' \in [Nodes -> SUBSET Loops]
    BY <1>2 DEF IInv, TypeOK
  <1>8. TypeOK'
    BY <1>5, <1>6, <1>7 DEF HaltOnPool, IInv, TypeOK
  <1>9. GenuineChannels'
    BY <1>6, VerdictsStay DEF GenuineChannels
  <1>10. GenuineCalls'
    <2> SUFFICES ASSUME NEW k \in Nodes, NEW m \in posted'[k] PROVE Genuine(Peer(k), m)
      BY VerdictsStay DEF GenuineCalls
    <2>1. CASE m \in posted[k]
      BY <2>1 DEF IInv, GenuineCalls
    <2>2. CASE m \notin posted[k]
      <3>1. PICK l \in told : m = HaltCall(l)
        BY <1>2, <2>2 DEF IInv, TypeOK
      <3> QED BY <3>1 DEF HaltCall, Genuine
    <2> QED BY <2>1, <2>2
  <1>11. OnlyCompatibleSync'
    BY VerdictsStay DEF IInv, OnlyCompatibleSync
  <1>12. DeadlineStands'
    BY DEF HaltOnPool, IInv, TypeOK, DeadlineStands
  <1> QED BY <1>8, <1>9, <1>10, <1>11, <1>12 DEF IInv

\* Every step keeps the invariant.
LEMMA StepInv == IInv /\ [Next]_vars => IInv'
  <1> SUFFICES ASSUME IInv, [Next]_vars PROVE IInv'
    OBVIOUS
  <1>0. UNCHANGED hello
    BY DEF Next, vars, Pool, Callback, Launch, ArmTimer, StoreHandle, Wait, Halt, Receive,
       ReceiveFails, SendFails, EndLoop, OnHandshake, OnAck, OnNack, OnHaltCall,
       TimerExpires, SyncTick
  <1> USE VerdictsStay, <1>0
  <1>1. ASSUME NEW n \in Nodes, Launch(n) PROVE IInv'
    <2>1. hello[n] \in Messages /\ Genuine(n, hello[n])
      BY DEF IInv, TypeOK, Genuine, Messages, Handshakes
    <2>2. channel' \in [Nodes -> Seq(Messages)] /\ GenuineChannels'
      BY <1>1, <2>1, Queueing DEF Launch, GenuineChannels
    <2>3. TypeOK'
      BY <1>1, <2>2 DEF Launch, IInv, TypeOK
    <2>4. DeadlineStands'
      BY <1>1 DEF Launch, IInv, TypeOK, DeadlineStands
    <2> QED BY <1>1, <2>2, <2>3, <2>4 DEF Launch, IInv, GenuineCalls, OnlyCompatibleSync
  <1>2. ASSUME NEW n \in Nodes, ArmTimer(n) \/ StoreHandle(n) \/ Wait(n) PROVE IInv'
    <2>1. TypeOK'
      BY <1>2 DEF ArmTimer, StoreHandle, Wait, IInv, TypeOK
    <2>2. DeadlineStands'
      BY <1>2 DEF ArmTimer, StoreHandle, Wait, IInv, TypeOK, DeadlineStands
    <2> QED BY <1>2, <2>1, <2>2 DEF ArmTimer, StoreHandle, Wait, IInv, GenuineChannels,
                                    GenuineCalls, OnlyCompatibleSync
  <1>3. ASSUME NEW n \in Nodes, Halt(n) PROVE IInv'
    <2>1. channel' \in [Nodes -> Seq(Messages)] /\ GenuineChannels'
      BY <1>3, Losing DEF Halt, GenuineChannels
    <2>2. TypeOK'
      BY <1>3, <2>1 DEF Halt, IInv, TypeOK
    <2>3. DeadlineStands'
      BY <1>3 DEF Halt, IInv, TypeOK, DeadlineStands
    <2> QED BY <1>3, <2>1, <2>2, <2>3 DEF Halt, IInv, GenuineCalls, OnlyCompatibleSync
  <1>4. ASSUME NEW n \in Nodes, Receive(n) PROVE IInv'
    <2> DEFINE m == Head(channel[Peer(n)])
    <2>1. Peer(n) \in Nodes /\ channel[Peer(n)] \in Seq(Messages) /\ channel[Peer(n)] # <<>>
      BY <1>4, PeerIsOther DEF Receive, IInv, TypeOK
    <2>2. m \in Messages /\ Genuine(Peer(n), m)
      BY <2>1 DEF IInv, GenuineChannels
    <2>3. posted' = [posted EXCEPT ![n] = @ \cup ({m} \ {Sync})]
      BY <1>4 DEF Receive
    <2>4. {m} \ {Sync} \subseteq Calls
      BY <2>2, MessagesAreCalls
    <2>5. posted' \in [Nodes -> SUBSET Calls]
      BY <2>3, <2>4 DEF IInv, TypeOK
    <2>6. channel' = [channel EXCEPT ![Peer(n)] = Tail(@)]
      BY <1>4 DEF Receive
    <2>7. /\ Tail(channel[Peer(n)]) \in Seq(Messages)
          /\ \A i \in DOMAIN Tail(channel[Peer(n)]) :
               /\ i + 1 \in DOMAIN channel[Peer(n)]
               /\ Tail(channel[Peer(n)])[i] = channel[Peer(n)][i + 1]
      BY <2>1
    <2>8. channel' \in [Nodes -> Seq(Messages)] /\ GenuineChannels'
      BY <2>1, <2>6, <2>7 DEF IInv, TypeOK, GenuineChannels
    <2>9. GenuineCalls'
      BY <2>2, <2>3 DEF IInv, TypeOK, GenuineCalls
    <2>10. TypeOK'
      BY <1>4, <2>5, <2>8 DEF Receive, IInv, TypeOK
    <2> QED BY <1>4, <2>8, <2>9, <2>10 DEF Receive, IInv, OnlyCompatibleSync, DeadlineStands
  <1>5. ASSUME NEW n \in Nodes, ReceiveFails(n) \/ SendFails(n) PROVE IInv'
    <2>1. PICK loop \in Loops : EndLoop(n, loop)
      BY <1>5 DEF ReceiveFails, SendFails, Loops
    <2>2. channel' = channel \/ channel' = [channel EXCEPT ![n] = <<>>]
      BY <1>5 DEF ReceiveFails, SendFails
    <2>3. channel' \in [Nodes -> Seq(Messages)] /\ GenuineChannels'
      <3>1. CASE channel' = channel
        BY <3>1 DEF IInv, TypeOK, GenuineChannels, Genuine, Compatible
      <3>2. CASE channel' = [channel EXCEPT ![n] = <<>>]
        <4>1. <<>> \in Seq(Messages) /\ DOMAIN <<>> = {}
          OBVIOUS
        <4>2. channel' \in [Nodes -> Seq(Messages)]
          BY <3>2, <4>1 DEF IInv, TypeOK
        <4>3. hello' = hello
          BY <2>1 DEF EndLoop
        <4>4. \A k \in Nodes : channel'[k] = channel[k] \/ channel'[k] = <<>>
          BY <3>2 DEF IInv, TypeOK
        <4> QED BY <4>1, <4>2, <4>3, <4>4 DEF IInv, GenuineChannels, Genuine, Compatible
      <3> QED BY <2>2, <3>1, <3>2
    <2>4. HaltCall(loop) \in Calls
      BY DEF Calls
    <2>5. TypeOK'
      BY <2>1, <2>3, <2>4 DEF EndLoop, IInv, TypeOK
    <2>6. Genuine(Peer(n), HaltCall(loop))
      BY DEF Genuine, HaltCall
    <2>7. GenuineCalls'
      BY <2>1, <2>6 DEF EndLoop, IInv, TypeOK, GenuineCalls
    <2> QED BY <2>1, <2>3, <2>5, <2>7 DEF EndLoop, IInv, OnlyCompatibleSync, DeadlineStands
  <1>6. ASSUME NEW n \in Nodes, NEW hs \in posted[n], OnHandshake(n, hs) PROVE IInv'
    <2> DEFINE r == [type |-> "HANDSHAKE_RESPONSE", acknowledge |-> Answer(n, hs),
                     role |-> Opposite(hs.role)]
    <2>1. hs = hello[Peer(n)]
      BY <1>6, PeerIsOther DEF OnHandshake, IInv, GenuineCalls, Genuine
    <2>2. Answer(n, hs) \in Acknowledges /\ (Answer(n, hs) = "ACK" <=> Compatible)
      BY <2>1, AnswerIsVerdict DEF IInv
    <2>3. r \in HandshakeResponses
      BY <2>2 DEF HandshakeResponses, Opposite, Roles
    <2>4. r \in Messages /\ Genuine(n, r)
      BY <2>2, <2>3 DEF Genuine, Messages
    <2>5. channel' \in [Nodes -> Seq(Messages)] /\ GenuineChannels'
      BY <1>6, <2>4, Sending DEF OnHandshake, GenuineChannels
    <2>6. TypeOK' /\ GenuineCalls'
      BY <1>6, <2>5 DEF OnHandshake, IInv, TypeOK, GenuineCalls
    <2> QED BY <1>6, <2>5, <2>6 DEF OnHandshake, IInv, OnlyCompatibleSync, DeadlineStands
  <1>7. ASSUME NEW n \in Nodes, NEW r \in posted[n], OnAck(n, r) PROVE IInv'
    <2>1. Compatible
      BY <1>7 DEF OnAck, IInv, GenuineCalls, Genuine
    <2>2. TypeOK' /\ GenuineCalls'
      BY <1>7 DEF OnAck, IInv, TypeOK, GenuineCalls
    <2>3. DeadlineStands'
      BY <1>7 DEF OnAck, IInv, TypeOK, DeadlineStands
    <2> QED BY <1>7, <2>1, <2>2, <2>3 DEF OnAck, IInv, GenuineChannels, OnlyCompatibleSync
  <1>8. ASSUME NEW n \in Nodes, NEW c \in posted[n], OnNack(n, c) \/ OnHaltCall(n, c)
        PROVE  IInv'
    <2>1. /\ HaltOnPool(n, posted[n] \ {c})
          /\ UNCHANGED <<hello, timer, syncs>>
      BY <1>8 DEF OnNack, OnHaltCall
    <2>2. posted[n] \ {c} \in SUBSET posted[n]
      OBVIOUS
    <2> QED BY <2>1, <2>2, HaltingOnPool DEF IInv, TypeOK
  <1>9. ASSUME NEW n \in Nodes, TimerExpires(n) PROVE IInv'
    <2>1. HaltOnPool(n, posted[n]) /\ UNCHANGED <<hello, syncs>>
      BY <1>9 DEF TimerExpires
    <2>2. /\ timer' \in [Nodes -> {"off", "armed", "cancelled", "fired"}]
          /\ \A k \in Nodes : k # n => timer'[k] = timer[k]
      BY <1>9 DEF TimerExpires, IInv, TypeOK
    <2> QED BY <2>1, <2>2, HaltingOnPool
  <1>10. ASSUME NEW n \in Nodes, SyncTick(n) PROVE IInv'
    <2>1. Sync \in Messages /\ Genuine(n, Sync)
      BY DEF Genuine, Messages, Sync
    <2>2. channel' \in [Nodes -> Seq(Messages)] /\ GenuineChannels'
      BY <1>10, <2>1, Sending DEF SyncTick, GenuineChannels
    <2>3. TypeOK'
      BY <1>10, <2>2 DEF SyncTick, IInv, TypeOK
    <2> QED BY <1>10, <2>2, <2>3 DEF SyncTick, IInv, GenuineCalls, OnlyCompatibleSync,
                                     DeadlineStands
  <1>11. CASE UNCHANGED vars
    BY <1>11 DEF vars, IInv, TypeOK, GenuineChannels, GenuineCalls, OnlyCompatibleSync,
                 DeadlineStands
  <1> QED
    BY <1>1, <1>2, <1>3, <1>4, <1>5, <1>6, <1>7, <1>8, <1>9, <1>10, <1>11
    DEF Next, Pool, Callback

\* The invariant holds of every behaviour.
LEMMA Inductive == Spec => []IInv
  BY InitInv, StepInv, PTL DEF Spec

-----------------------------------------------------------------------------
\* Every state of the handshake is well formed, SYNC and bodies told apart.
THEOREM TypeCorrect == Spec => []TypeOK
  <1>1. IInv => TypeOK
    BY DEF IInv
  <1> QED BY <1>1, Inductive, PTL

\* Whatever the builds and however the callbacks interleave, SYNC is scheduled
\* only between ends that fit (MessageDispatcher.tcc:173-183, 203-212).
THEOREM SyncNeedsAgreement == Spec => []OnlyCompatibleSync
  <1>1. IInv => OnlyCompatibleSync
    BY DEF IInv
  <1> QED BY <1>1, Inductive, PTL

\* The two ends never give, or act on, different verdicts.
THEOREM VerdictsAgree == Spec => []SameVerdict
  <1>1. ASSUME IInv, NEW n \in Nodes, NEW r \in Responses(n)
        PROVE  r.acknowledge = "ACK" <=> Compatible
    <2>1. r.type = "HANDSHAKE_RESPONSE" /\ Peer(n) \in Nodes /\ Peer(Peer(n)) = n
      BY PeerIsOther DEF Responses
    <2>2. Genuine(n, r)
      BY <1>1, <2>1 DEF Responses, IInv, GenuineChannels, GenuineCalls
    <2> QED BY <2>1, <2>2 DEF Genuine
  <1>2. IInv => SameVerdict
    <2> SUFFICES ASSUME IInv, NEW n \in Nodes, syncs[n] > 0 \/ Accepts(n)
                 PROVE  ~\E k \in Nodes : Rejects(k)
      BY DEF SameVerdict
    <2>1. Compatible
      BY <1>1 DEF IInv, OnlyCompatibleSync, Accepts
    <2> QED BY <1>1, <2>1 DEF Rejects
  <1> QED BY <1>2, Inductive, PTL

\* A launched node is accepted, asks for a halt, is halted or still has its
\* deadline before it (BasicNode.tcc:94-101).
THEOREM DeadlineHolds == Spec => []DeadlineStands
  <1>1. IInv => DeadlineStands
    BY DEF IInv
  <1> QED BY <1>1, Inductive, PTL

-----------------------------------------------------------------------------
(* SYNC is scheduled once: the handshake of a node is queued, received and *)
(* answered once, and its answer received and acted on once.               *)

Has(s, ty) == \E i \in DOMAIN s : s[i].type = ty
Single(s, ty) == \A i, j \in DOMAIN s : s[i].type = ty /\ s[j].type = ty => i = j
Posted(n, ty) == \E m \in posted[n] : m.type = ty

\* How far the handshake of a node has come: not sent, sent, received by the
\* peer, answered, the answer received, accepted.
Stage(n, p) ==
  /\ main[n] = "new" => p = 0
  /\ Has(channel[n], "HANDSHAKE") => p = 1
  /\ Posted(Peer(n), "HANDSHAKE") => p = 2
  /\ Has(channel[Peer(n)], "HANDSHAKE_RESPONSE") => p = 3
  /\ Posted(n, "HANDSHAKE_RESPONSE") => p = 4
  /\ syncs[n] > 0 => p = 5

\* It is at one stage, and there once.
Ticket(n) ==
  /\ \E p \in 0 .. 5 : Stage(n, p)
  /\ Single(channel[n], "HANDSHAKE")
  /\ Single(channel[Peer(n)], "HANDSHAKE_RESPONSE")
  /\ \A r, s \in posted[n] :
       r.type = "HANDSHAKE_RESPONSE" /\ s.type = "HANDSHAKE_RESPONSE" => r = s
  /\ syncs[n] <= 1

OneTicket == \A n \in Nodes : Ticket(n)

Kinds == {"HANDSHAKE", "HANDSHAKE_RESPONSE"}

\* Of a sequence and what is left of it: no more messages of a kind.
LeftOf(s, rest) ==
  \A ty \in Kinds : /\ Has(rest, ty) => Has(s, ty)
                    /\ Single(s, ty) => Single(rest, ty)

\* What a queued message adds to the kinds that are in a channel.
LEMMA AppendKinds ==
  ASSUME NEW s \in Seq(Messages), NEW msg \in Messages, NEW ty
  PROVE  /\ Has(Append(s, msg), ty) <=> Has(s, ty) \/ msg.type = ty
         /\ Single(s, ty) /\ (msg.type = ty => ~Has(s, ty)) => Single(Append(s, msg), ty)
<1>1. /\ Len(s) \in Nat /\ DOMAIN s = 1 .. Len(s)
      /\ DOMAIN Append(s, msg) = 1 .. Len(s) + 1
      /\ \A i \in 1 .. Len(s) : Append(s, msg)[i] = s[i]
      /\ Append(s, msg)[Len(s) + 1] = msg
  BY AppendProperties, LenProperties
<1>2. Has(Append(s, msg), ty) <=> Has(s, ty) \/ msg.type = ty
  BY <1>1 DEF Has
<1>3. ASSUME Single(s, ty), msg.type = ty => ~Has(s, ty) PROVE Single(Append(s, msg), ty)
  BY <1>1, <1>3 DEF Single, Has
<1> QED BY <1>2, <1>3

\* What a received message takes from them.
LEMMA TailKinds ==
  ASSUME NEW s \in Seq(Messages), s # <<>>
  PROVE  /\ LeftOf(s, Tail(s)) /\ Head(s) \in Messages
         /\ \A ty : /\ Head(s).type = ty => Has(s, ty)
                    /\ Single(s, ty) /\ Head(s).type = ty => ~Has(Tail(s), ty)
<1>1. /\ Len(s) \in Nat \ {0} /\ DOMAIN s = 1 .. Len(s) /\ Head(s) = s[1]
      /\ DOMAIN Tail(s) = 1 .. Len(s) - 1
      /\ \A i \in 1 .. Len(s) - 1 : Tail(s)[i] = s[i + 1]
      /\ Head(s) \in Messages
  BY HeadTailProperties, LenProperties, EmptySeq
<1>2. \A i \in DOMAIN Tail(s) : i \in Nat /\ i + 1 \in DOMAIN s /\ i + 1 # 1 /\ Tail(s)[i] = s[i + 1]
  BY <1>1
<1>3. 1 \in DOMAIN s
  BY <1>1
<1>4. LeftOf(s, Tail(s))
  <2>1. ASSUME NEW ty, Has(Tail(s), ty) PROVE Has(s, ty)
    BY <1>2, <2>1 DEF Has
  <2>2. ASSUME NEW ty, Single(s, ty) PROVE Single(Tail(s), ty)
    <3> SUFFICES ASSUME NEW i \in DOMAIN Tail(s), NEW j \in DOMAIN Tail(s),
                        Tail(s)[i].type = ty, Tail(s)[j].type = ty
                 PROVE  i = j
      BY DEF Single
    <3>1. i + 1 = j + 1
      BY <1>2, <2>2 DEF Single
    <3> QED BY <1>2, <3>1
  <2> QED BY <2>1, <2>2 DEF LeftOf
<1>5. ASSUME NEW ty, Head(s).type = ty PROVE Has(s, ty)
  BY <1>1, <1>3, <1>5 DEF Has
<1>6. ASSUME NEW ty, Single(s, ty), Head(s).type = ty, Has(Tail(s), ty) PROVE FALSE
  <2>1. PICK i \in DOMAIN Tail(s) : Tail(s)[i].type = ty
    BY <1>6 DEF Has
  <2>2. i + 1 = 1
    BY <1>1, <1>2, <1>3, <1>6, <2>1 DEF Single
  <2> QED BY <1>2, <2>1, <2>2
<1> QED BY <1>1, <1>4, <1>5, <1>6

\* What a closed connection takes from them.
LEMMA PrefixKinds ==
  ASSUME NEW s \in Seq(Messages), NEW k \in 0 .. Len(s)
  PROVE  LeftOf(s, SubSeq(s, 1, k))
<1>1. \A i \in DOMAIN SubSeq(s, 1, k) : i \in DOMAIN s /\ SubSeq(s, 1, k)[i] = s[i]
  OBVIOUS
<1> QED BY <1>1 DEF LeftOf, Has, Single

\* A ticket stays where it is in a step that adds nothing to what it looks at.
LEMMA TicketStays ==
  ASSUME NEW n \in Nodes, Ticket(n),
         main'[n] = "new" => main[n] = "new",
         Has(channel'[n], "HANDSHAKE") => Has(channel[n], "HANDSHAKE"),
         Single(channel[n], "HANDSHAKE") => Single(channel'[n], "HANDSHAKE"),
         Has(channel'[Peer(n)], "HANDSHAKE_RESPONSE") =>
           Has(channel[Peer(n)], "HANDSHAKE_RESPONSE"),
         Single(channel[Peer(n)], "HANDSHAKE_RESPONSE") =>
           Single(channel'[Peer(n)], "HANDSHAKE_RESPONSE"),
         \A m \in posted'[Peer(n)] : m.type = "HANDSHAKE" => m \in posted[Peer(n)],
         \A m \in posted'[n] : m.type = "HANDSHAKE_RESPONSE" => m \in posted[n],
         syncs'[n] = syncs[n]
  PROVE  Ticket(n)'
<1>1. PICK p \in 0 .. 5 : Stage(n, p)
  BY DEF Ticket
<1>2. Stage(n, p)'
  BY <1>1 DEF Stage, Posted
<1> QED BY <1>2 DEF Ticket

\* In particular in a step by which messages only disappear.
LEMMA Disappearing ==
  ASSUME OneTicket,
         \A n \in Nodes : /\ main'[n] = "new" => main[n] = "new"
                          /\ LeftOf(channel[n], channel'[n])
                          /\ \A m \in posted'[n] : m.type \in Kinds => m \in posted[n],
         UNCHANGED syncs
  PROVE  OneTicket'
<1> SUFFICES ASSUME NEW n \in Nodes PROVE Ticket(n)'
  BY DEF OneTicket
<1>1. Ticket(n) /\ Peer(n) \in Nodes
  BY PeerIsOther DEF OneTicket
<1> QED BY <1>1, TicketStays DEF LeftOf, Kinds

\* Nothing gone is no more left.
LEMMA SameLeft == \A s : LeftOf(s, s)
BY DEF LeftOf

\* What is lost only disappears.
LEMMA LosingLeaves ==
  ASSUME TypeOK, NEW n \in Nodes, LoseSuffix(n)
  PROVE  \A k \in Nodes : LeftOf(channel[k], channel'[k])
<1>1. PICK j \in 0 .. Len(channel[n]) :
        channel' = [channel EXCEPT ![n] = SubSeq(channel[n], 1, j)]
  BY DEF LoseSuffix
<1>2. channel[n] \in Seq(Messages)
  BY DEF TypeOK
<1>3. LeftOf(channel[n], SubSeq(channel[n], 1, j))
  BY <1>2, PrefixKinds
<1> QED BY <1>1, <1>3, SameLeft DEF TypeOK

\* A halt on the pool adds no handshake and no response to those under way.
LEMMA HaltingLeaves ==
  ASSUME TypeOK, OneTicket, NEW n \in Nodes, NEW calls \in SUBSET posted[n],
         HaltOnPool(n, calls), UNCHANGED syncs
  PROVE  OneTicket'
<1>1. PICK ends \in SUBSET loops[n] : \E told \in SUBSET ends :
        /\ loops' = [loops EXCEPT ![n] = @ \ ends]
        /\ posted' = [posted EXCEPT ![n] = calls \cup {HaltCall(l) : l \in told}]
        /\ IF "send" \in ends THEN LoseSuffix(n) ELSE UNCHANGED channel
  BY DEF HaltOnPool
<1>2. PICK told \in SUBSET ends :
        /\ posted' = [posted EXCEPT ![n] = calls \cup {HaltCall(l) : l \in told}]
        /\ IF "send" \in ends THEN LoseSuffix(n) ELSE UNCHANGED channel
  BY <1>1
<1>3. \A k \in Nodes : LeftOf(channel[k], channel'[k])
  BY <1>2, LosingLeaves, SameLeft
<1>4. ASSUME NEW k \in Nodes, NEW m \in posted'[k], m.type \in Kinds PROVE m \in posted[k]
  BY <1>2, <1>4 DEF TypeOK, HaltCall, Kinds
<1>5. \A k \in Nodes : main'[k] = "new" => main[k] = "new"
  BY DEF HaltOnPool, TypeOK
<1> QED BY <1>3, <1>4, <1>5, Disappearing

\* A ticket that is in one place is in no other.
LEMMA StageOnly ==
  ASSUME NEW n \in Nodes, Ticket(n)
  PROVE  /\ main[n] = "new" =>
              /\ ~Has(channel[n], "HANDSHAKE") /\ ~Posted(Peer(n), "HANDSHAKE")
              /\ ~Has(channel[Peer(n)], "HANDSHAKE_RESPONSE")
              /\ ~Posted(n, "HANDSHAKE_RESPONSE") /\ ~(syncs[n] > 0)
         /\ Has(channel[n], "HANDSHAKE") =>
              /\ main[n] # "new" /\ ~Posted(Peer(n), "HANDSHAKE")
              /\ ~Has(channel[Peer(n)], "HANDSHAKE_RESPONSE")
              /\ ~Posted(n, "HANDSHAKE_RESPONSE") /\ ~(syncs[n] > 0)
         /\ Posted(Peer(n), "HANDSHAKE") =>
              /\ main[n] # "new" /\ ~Has(channel[n], "HANDSHAKE")
              /\ ~Has(channel[Peer(n)], "HANDSHAKE_RESPONSE")
              /\ ~Posted(n, "HANDSHAKE_RESPONSE") /\ ~(syncs[n] > 0)
         /\ Has(channel[Peer(n)], "HANDSHAKE_RESPONSE") =>
              /\ main[n] # "new" /\ ~Has(channel[n], "HANDSHAKE")
              /\ ~Posted(Peer(n), "HANDSHAKE")
              /\ ~Posted(n, "HANDSHAKE_RESPONSE") /\ ~(syncs[n] > 0)
         /\ Posted(n, "HANDSHAKE_RESPONSE") =>
              /\ main[n] # "new" /\ ~Has(channel[n], "HANDSHAKE")
              /\ ~Posted(Peer(n), "HANDSHAKE")
              /\ ~Has(channel[Peer(n)], "HANDSHAKE_RESPONSE") /\ ~(syncs[n] > 0)
<1>1. PICK p \in 0 .. 5 : Stage(n, p)
  BY DEF Ticket
<1> QED BY <1>1 DEF Stage

\* A step leaves a ticket where it is, moves it one stage on or loses it.
LEMMA TicketStep == IInv /\ OneTicket /\ [Next]_vars => OneTicket'
<1> SUFFICES ASSUME IInv, OneTicket, [Next]_vars PROVE OneTicket'
  OBVIOUS
<1>0. TypeOK /\ \A n \in Nodes : channel[n] \in Seq(Messages) /\ syncs[n] \in Nat
  BY DEF IInv, TypeOK
<1>1. ASSUME NEW n \in Nodes, Launch(n) PROVE OneTicket'
  <2>1. hello[n] \in Messages /\ hello[n].type = "HANDSHAKE"
    BY <1>0 DEF TypeOK, Messages, Handshakes
  <2>2. /\ channel'[n] = Append(channel[n], hello[n])
        /\ channel'[Peer(n)] = channel[Peer(n)]
        /\ main'[n] = "starting" /\ main'[Peer(n)] = main[Peer(n)]
        /\ UNCHANGED <<posted, syncs>> /\ main[n] = "new"
    BY <1>0, <1>1, PeerIsOther DEF Launch, TypeOK
  <2>3. Ticket(n) /\ Ticket(Peer(n)) /\ Peer(n) \in Nodes
    BY PeerIsOther DEF OneTicket
  <2>4. /\ ~Has(channel[n], "HANDSHAKE") /\ ~Posted(Peer(n), "HANDSHAKE")
        /\ ~Has(channel[Peer(n)], "HANDSHAKE_RESPONSE")
        /\ ~Posted(n, "HANDSHAKE_RESPONSE") /\ ~(syncs[n] > 0)
    BY <2>2, <2>3, StageOnly
  <2>5. /\ Single(channel'[n], "HANDSHAKE")
        /\ Has(channel'[n], "HANDSHAKE_RESPONSE") => Has(channel[n], "HANDSHAKE_RESPONSE")
        /\ Single(channel[n], "HANDSHAKE_RESPONSE") =>
             Single(channel'[n], "HANDSHAKE_RESPONSE")
    <3>1. "HANDSHAKE" # "HANDSHAKE_RESPONSE" /\ channel[n] \in Seq(Messages)
      BY <1>0
    <3> QED BY <2>1, <2>2, <2>3, <2>4, <3>1, AppendKinds DEF Ticket
  <2>6. Ticket(n)'
    <3>1. Stage(n, 1)'
      BY <2>2, <2>4 DEF Stage, Posted
    <3> QED BY <2>2, <2>3, <2>5, <3>1 DEF Ticket
  <2>7. Ticket(Peer(n))'
    <3>1. Peer(Peer(n)) = n
      BY PeerIsOther
    <3> QED BY <2>2, <2>3, <2>5, <3>1, TicketStays
  <2> QED BY <2>6, <2>7, PeerIsOther DEF OneTicket
<1>2. ASSUME NEW n \in Nodes, ArmTimer(n) \/ StoreHandle(n) \/ Wait(n) PROVE OneTicket'
  BY <1>0, <1>2, Disappearing, SameLeft DEF ArmTimer, StoreHandle, Wait, TypeOK
<1>3. ASSUME NEW n \in Nodes, Halt(n) PROVE OneTicket'
  <2>1. \A k \in Nodes : LeftOf(channel[k], channel'[k])
    BY <1>0, <1>3, LosingLeaves DEF Halt
  <2>2. \A k \in Nodes : main'[k] = "new" => main[k] = "new"
    BY <1>0, <1>3 DEF Halt, TypeOK
  <2> QED BY <1>3, <2>1, <2>2, Disappearing DEF Halt
<1>4. ASSUME NEW n \in Nodes, Receive(n) PROVE OneTicket'
  <2> DEFINE m == Head(channel[Peer(n)])
  <2>0. Peer(n) \in Nodes /\ Peer(n) # n /\ Peer(Peer(n)) = n
    BY PeerIsOther
  <2>1. channel[Peer(n)] \in Seq(Messages) /\ channel[Peer(n)] # <<>>
    BY <1>0, <1>4, <2>0 DEF Receive
  <2>2. /\ channel'[n] = channel[n] /\ channel'[Peer(n)] = Tail(channel[Peer(n)])
        /\ posted'[n] = posted[n] \cup ({m} \ {Sync}) /\ posted'[Peer(n)] = posted[Peer(n)]
        /\ UNCHANGED <<main, syncs>>
    BY <1>0, <1>4, <2>0 DEF Receive, TypeOK
  <2>3. /\ LeftOf(channel[Peer(n)], Tail(channel[Peer(n)]))
        /\ \A ty : /\ m.type = ty => Has(channel[Peer(n)], ty)
                   /\ Single(channel[Peer(n)], ty) /\ m.type = ty =>
                        ~Has(Tail(channel[Peer(n)]), ty)
    BY <2>1, TailKinds
  <2>4. Ticket(n) /\ Ticket(Peer(n))
    BY <2>0 DEF OneTicket
  <2> HIDE DEF m
  <2>5. Ticket(Peer(n))'
    <3>1. CASE m.type = "HANDSHAKE"
      <4>1. Has(channel[Peer(n)], "HANDSHAKE")
        BY <2>3, <3>1
      <4>2. ~Has(Tail(channel[Peer(n)]), "HANDSHAKE")
        BY <2>3, <2>4, <3>1 DEF Ticket
      <4>3. /\ main[Peer(n)] # "new"
            /\ ~Has(channel[n], "HANDSHAKE_RESPONSE")
            /\ ~Posted(Peer(n), "HANDSHAKE_RESPONSE") /\ ~(syncs[Peer(n)] > 0)
        BY <2>0, <2>4, <4>1, StageOnly
      <4>4. Stage(Peer(n), 2)'
        BY <2>0, <2>2, <4>2, <4>3 DEF Stage, Posted
      <4>5. Single(channel'[Peer(n)], "HANDSHAKE")
        BY <2>2, <4>2 DEF Single, Has
      <4> QED BY <2>0, <2>2, <2>4, <4>4, <4>5 DEF Ticket
    <3>2. CASE m.type # "HANDSHAKE"
      <4>1. \A x \in posted'[n] : x.type = "HANDSHAKE" => x \in posted[n]
        BY <2>2, <3>2
      <4>2. /\ Has(channel'[Peer(n)], "HANDSHAKE") => Has(channel[Peer(n)], "HANDSHAKE")
            /\ Single(channel[Peer(n)], "HANDSHAKE") => Single(channel'[Peer(n)], "HANDSHAKE")
        BY <2>2, <2>3 DEF LeftOf, Kinds
      <4> QED BY <2>0, <2>2, <2>4, <4>1, <4>2, TicketStays
    <3> QED BY <3>1, <3>2
  <2>6. Ticket(n)'
    <3>1. CASE m.type = "HANDSHAKE_RESPONSE"
      <4>1. Has(channel[Peer(n)], "HANDSHAKE_RESPONSE")
        BY <2>3, <3>1
      <4>2. ~Has(Tail(channel[Peer(n)]), "HANDSHAKE_RESPONSE")
        BY <2>3, <2>4, <3>1 DEF Ticket
      <4>3. /\ main[n] # "new" /\ ~Has(channel[n], "HANDSHAKE")
            /\ ~Posted(Peer(n), "HANDSHAKE")
            /\ ~Posted(n, "HANDSHAKE_RESPONSE") /\ ~(syncs[n] > 0)
        BY <2>0, <2>4, <4>1, StageOnly
      <4>4. Stage(n, 4)'
        BY <2>0, <2>2, <4>2, <4>3 DEF Stage, Posted
      <4>5. Single(channel'[Peer(n)], "HANDSHAKE_RESPONSE")
        BY <2>2, <4>2 DEF Single, Has
      <4>6. \A r, s \in posted'[n] :
              r.type = "HANDSHAKE_RESPONSE" /\ s.type = "HANDSHAKE_RESPONSE" => r = s
        BY <2>2, <4>3 DEF Posted
      <4> QED BY <2>0, <2>2, <2>4, <4>4, <4>5, <4>6 DEF Ticket
    <3>2. CASE m.type # "HANDSHAKE_RESPONSE"
      <4>1. \A x \in posted'[n] : x.type = "HANDSHAKE_RESPONSE" => x \in posted[n]
        BY <2>2, <3>2
      <4>2. /\ Has(channel'[Peer(n)], "HANDSHAKE_RESPONSE") =>
                  Has(channel[Peer(n)], "HANDSHAKE_RESPONSE")
            /\ Single(channel[Peer(n)], "HANDSHAKE_RESPONSE") =>
                 Single(channel'[Peer(n)], "HANDSHAKE_RESPONSE")
        BY <2>2, <2>3 DEF LeftOf, Kinds
      <4> QED BY <2>0, <2>2, <2>4, <4>1, <4>2, TicketStays
    <3> QED BY <3>1, <3>2
  <2> QED BY <2>5, <2>6, PeerIsOther DEF OneTicket
<1>5. ASSUME NEW n \in Nodes, ReceiveFails(n) \/ SendFails(n) PROVE OneTicket'
  <2>1. PICK loop \in Loops : EndLoop(n, loop)
    BY <1>5 DEF ReceiveFails, SendFails, Loops
  <2>2. \A s : LeftOf(s, <<>>)
    <3>1. DOMAIN <<>> = {}
      OBVIOUS
    <3> QED BY <3>1 DEF LeftOf, Has, Single
  <2>3. \A k \in Nodes : LeftOf(channel[k], channel'[k])
    BY <1>0, <1>5, <2>2, SameLeft DEF ReceiveFails, SendFails, TypeOK
  <2>4. ASSUME NEW k \in Nodes, NEW x \in posted'[k], x.type \in Kinds PROVE x \in posted[k]
    BY <1>0, <2>1, <2>4 DEF EndLoop, HaltCall, Kinds, TypeOK
  <2> QED BY <2>1, <2>3, <2>4, Disappearing DEF EndLoop
<1>6. ASSUME NEW n \in Nodes, NEW hs \in posted[n], OnHandshake(n, hs) PROVE OneTicket'
  <2> DEFINE r == [type |-> "HANDSHAKE_RESPONSE", acknowledge |-> Answer(n, hs),
                   role |-> Opposite(hs.role)]
  <2>0. Peer(n) \in Nodes /\ Peer(n) # n /\ Peer(Peer(n)) = n
    BY PeerIsOther
  <2>1. /\ hs = hello[Peer(n)] /\ hs.type = "HANDSHAKE"
        /\ \A x \in posted[n] : x.type = "HANDSHAKE" => x = hs
    BY <1>6, <2>0 DEF OnHandshake, IInv, GenuineCalls, Genuine
  <2>2. r \in Messages /\ r.type = "HANDSHAKE_RESPONSE"
    <3>1. Answer(n, hs) \in Acknowledges
      BY <1>0, <2>1, AnswerIsVerdict
    <3> QED BY <3>1 DEF Messages, HandshakeResponses, Opposite, Roles
  <2>3. /\ posted'[n] = posted[n] \ {hs} /\ posted'[Peer(n)] = posted[Peer(n)]
        /\ channel'[n] = channel[n] \/ channel'[n] = Append(channel[n], r)
        /\ channel'[Peer(n)] = channel[Peer(n)]
        /\ UNCHANGED <<main, syncs>>
    BY <1>0, <1>6, <2>0 DEF OnHandshake, Send, TypeOK
  <2> HIDE DEF r
  <2>4. Ticket(n) /\ Ticket(Peer(n)) /\ channel[n] \in Seq(Messages)
    BY <1>0, <2>0 DEF OneTicket
  <2>5. Posted(n, "HANDSHAKE") /\ ~Posted(n, "HANDSHAKE")'
    BY <2>1, <2>3 DEF Posted
  <2>6. /\ main[Peer(n)] # "new" /\ ~Has(channel[Peer(n)], "HANDSHAKE")
        /\ ~Has(channel[n], "HANDSHAKE_RESPONSE")
        /\ ~Posted(Peer(n), "HANDSHAKE_RESPONSE") /\ ~(syncs[Peer(n)] > 0)
    BY <2>0, <2>4, <2>5, StageOnly
  <2>7. /\ Has(channel'[n], "HANDSHAKE") => Has(channel[n], "HANDSHAKE")
        /\ Single(channel[n], "HANDSHAKE") => Single(channel'[n], "HANDSHAKE")
        /\ Single(channel'[n], "HANDSHAKE_RESPONSE")
    <3>1. Single(channel[n], "HANDSHAKE_RESPONSE")
      BY <2>0, <2>4 DEF Ticket
    <3>2. CASE channel'[n] = channel[n]
      BY <3>1, <3>2
    <3>3. CASE channel'[n] = Append(channel[n], r)
      <4>1. "HANDSHAKE" # "HANDSHAKE_RESPONSE"
        OBVIOUS
      <4> QED BY <2>2, <2>4, <2>6, <3>1, <3>3, <4>1, AppendKinds
    <3> QED BY <2>3, <3>2, <3>3
  <2>8. Ticket(Peer(n))'
    <3>1. Stage(Peer(n), 3)'
      BY <2>0, <2>3, <2>5, <2>6 DEF Stage, Posted
    <3> QED BY <2>0, <2>3, <2>4, <2>7, <3>1 DEF Ticket
  <2>9. Ticket(n)'
    BY <2>3, <2>4, <2>7, TicketStays
  <2> QED BY <2>8, <2>9, PeerIsOther DEF OneTicket
<1>7. ASSUME NEW n \in Nodes, NEW r \in posted[n], OnAck(n, r) PROVE OneTicket'
  <2>0. Peer(n) \in Nodes /\ Peer(n) # n /\ Peer(Peer(n)) = n
    BY PeerIsOther
  <2>1. /\ posted'[n] = posted[n] \ {r} /\ posted'[Peer(n)] = posted[Peer(n)]
        /\ syncs'[n] = syncs[n] + 1 /\ syncs'[Peer(n)] = syncs[Peer(n)]
        /\ UNCHANGED <<main, channel>> /\ r.type = "HANDSHAKE_RESPONSE"
    BY <1>0, <1>7, <2>0 DEF OnAck, TypeOK
  <2>2. Ticket(n) /\ Ticket(Peer(n))
    BY <2>0 DEF OneTicket
  <2>3. /\ main[n] # "new" /\ ~Has(channel[n], "HANDSHAKE")
        /\ ~Posted(Peer(n), "HANDSHAKE")
        /\ ~Has(channel[Peer(n)], "HANDSHAKE_RESPONSE") /\ ~(syncs[n] > 0)
    <3>1. Posted(n, "HANDSHAKE_RESPONSE")
      BY <2>1 DEF Posted
    <3> QED BY <2>2, <3>1, StageOnly
  <2>4. ~Posted(n, "HANDSHAKE_RESPONSE")'
    BY <2>1, <2>2 DEF Ticket, Posted
  <2>5. Ticket(n)'
    <3>1. Stage(n, 5)'
      BY <2>1, <2>3, <2>4 DEF Stage, Posted
    <3>2. syncs'[n] <= 1
      BY <1>0, <2>1, <2>3
    <3> QED BY <2>1, <2>2, <3>1, <3>2 DEF Ticket
  <2>6. Ticket(Peer(n))'
    BY <2>0, <2>1, <2>2, TicketStays
  <2> QED BY <2>5, <2>6, PeerIsOther DEF OneTicket
<1>8. ASSUME NEW n \in Nodes, NEW c \in posted[n], OnNack(n, c) \/ OnHaltCall(n, c)
      PROVE  OneTicket'
  <2>1. HaltOnPool(n, posted[n] \ {c}) /\ UNCHANGED syncs
    BY <1>8 DEF OnNack, OnHaltCall
  <2>2. posted[n] \ {c} \in SUBSET posted[n]
    OBVIOUS
  <2> QED BY <1>0, <2>1, <2>2, HaltingLeaves
<1>9. ASSUME NEW n \in Nodes, TimerExpires(n) PROVE OneTicket'
  BY <1>0, <1>9, HaltingLeaves DEF TimerExpires
<1>10. ASSUME NEW n \in Nodes, SyncTick(n) PROVE OneTicket'
  <2>1. Sync \in Messages /\ Sync.type \notin Kinds
    BY DEF Messages, Sync, Kinds
  <2>2. \A k \in Nodes : channel'[k] = channel[k] \/ channel'[k] = Append(channel[k], Sync)
    BY <1>0, <1>10 DEF SyncTick, Send, TypeOK
  <2>3. \A k \in Nodes : LeftOf(channel[k], channel'[k])
    <3> SUFFICES ASSUME NEW k \in Nodes PROVE LeftOf(channel[k], channel'[k])
      OBVIOUS
    <3>1. CASE channel'[k] = channel[k]
      BY <3>1, SameLeft
    <3>2. CASE channel'[k] = Append(channel[k], Sync)
      <4>1. ASSUME NEW ty \in Kinds
            PROVE  /\ Has(channel'[k], ty) => Has(channel[k], ty)
                   /\ Single(channel[k], ty) => Single(channel'[k], ty)
        BY <1>0, <2>1, <3>2, AppendKinds
      <4> QED BY <4>1 DEF LeftOf
    <3> QED BY <2>2, <3>1, <3>2
  <2> QED BY <1>10, <2>3, Disappearing DEF SyncTick
<1>11. CASE UNCHANGED vars
  BY <1>11, Disappearing, SameLeft DEF vars
<1> QED
  BY <1>1, <1>2, <1>3, <1>4, <1>5, <1>6, <1>7, <1>8, <1>9, <1>10, <1>11
  DEF Next, Pool, Callback

\* However a node's handshake and its answer are delayed, lost or overtaken by a
\* halt, the node schedules its periodic SYNC once (MessageDispatcher.tcc:210).
THEOREM SyncIsScheduledOnce == Spec => []ScheduledOnce
<1>1. Init => OneTicket
  <2> SUFFICES ASSUME Init, NEW n \in Nodes PROVE Ticket(n)
    BY DEF OneTicket
  <2>1. Peer(n) \in Nodes
    BY PeerIsOther
  <2>2. /\ \A k \in Nodes : channel[k] = <<>> /\ posted[k] = {} /\ syncs[k] = 0
        /\ DOMAIN <<>> = {}
    BY DEF Init
  <2>3. Stage(n, 0)
    BY <2>1, <2>2 DEF Stage, Has, Posted
  <2> QED BY <2>1, <2>2, <2>3 DEF Ticket, Single
<1>2. OneTicket => ScheduledOnce
  BY DEF OneTicket, Ticket, ScheduledOnce
<1> QED BY <1>1, <1>2, TicketStep, Inductive, PTL DEF Spec
=============================================================================
