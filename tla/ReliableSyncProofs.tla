-------------------------- MODULE ReliableSyncProofs --------------------------
(***************************************************************************)
(* Theorems about the reliable-sync protocol, for any two hosts, whichever *)
(* of them write, however many epochs, spans and faults of every kind.     *)
(* The hosts enqueue deltas: an enqueued snapshot that is replayed moves   *)
(* the receiver's cursor back.                                             *)
(***************************************************************************)
EXTENDS ReliableSync, SequenceTheorems, WellFoundedInduction, TLAPS

(***************************************************************************)
(* The inductive invariant.                                                *)
(***************************************************************************)
IsFrame(m) == m.kind \in {"delta", "snapshot"}

\* What a host has yet to send, or to send again, is a delta of its own past,
\* and what is staged is newer than what is retained.
Sending ==
  \A p \in Peer :
    /\ \A f \in outbox[p] \cup Staged(p) \cup driver[p].replaying :
         f.kind = "delta" /\ f.epoch <= version[p]
    /\ \A i, j \in DOMAIN driver[p].pending :
         i < j => driver[p].pending[i].epoch < driver[p].pending[j].epoch
    /\ \A f \in outbox[p], g \in Staged(p) : f.epoch < g.epoch

\* Everything past the ack cursor is retained or staged.
Retained ==
  restarted = {} =>
    \A p \in Peer, e \in Epoch : acked[p] < e /\ e <= version[p] =>
      \E f \in outbox[p] \cup Staged(p) : f.base < e /\ e <= f.epoch

\* A snapshot in flight covers the receiver's cursor and every frame before it.
Arriving(s, last, top) ==
  \A i \in DOMAIN s : IsFrame(s[i]) =>
    /\ s[i].epoch <= top
    /\ s[i].kind = "snapshot" =>
         /\ last <= s[i].epoch
         /\ \A j \in DOMAIN s : j < i /\ IsFrame(s[j]) => s[j].epoch <= s[i].epoch

Receivable ==
  \A p \in Peer :
    /\ driver[p].lastEpoch <= version[Other(p)] /\ saved[p].epoch <= version[Other(p)]
    /\ Arriving(chan[p], driver[p].lastEpoch, version[Other(p)])

\* A host is told no more than what its peer applied.
Answering(s, last) == \A i \in DOMAIN s : s[i].kind = "ack" => s[i].epoch <= last

Answered ==
  \A p \in Peer : Other(p) \notin restarted =>
    acked[p] <= driver[Other(p)].lastEpoch /\ Answering(chan[p], driver[Other(p)].lastEpoch)

\* The projection that goes with a cursor.
Projected ==
  \A p \in Peer \ raised :
    /\ saved[p].folded = 1..saved[p].epoch
    /\ (IF Idle(p) THEN folded[p] ELSE driver[p].applied) = 1..driver[p].lastEpoch

IInv == TypeOK /\ Sending /\ Retained /\ Receivable /\ Answered /\ Projected

(***************************************************************************)
(* The two hosts, the oldest frame of a set, and sequences of messages.    *)
(***************************************************************************)
LEMMA TwoHosts ==
  ASSUME NEW p \in Peer
  PROVE  /\ Other(p) \in Peer /\ Other(p) # p /\ Other(Other(p)) = p
         /\ \A q \in Peer : q = p \/ q = Other(p)
<1>1. PICK x \in Peer, y \in Peer : x # y /\ Peer = {x, y}
  BY PeerAssumption
<1>2. ASSUME NEW q \in Peer PROVE Other(q) \in Peer /\ Other(q) # q
  BY <1>1 DEF Other
<1> QED  BY <1>1, <1>2

LEMMA SmallestNat ==
  ASSUME NEW S, S \subseteq Nat, S # {}
  PROVE  \E x \in S : \A y \in S : x <= y
<1> DEFINE R == {pair \in Nat \X Nat : pair[1] < pair[2]}
<1>1. R = OpToRel(<, Nat)
  BY DEF OpToRel
<1>2. IsWellFoundedOn(R, Nat)
  BY <1>1, NatLessThanWellFounded
<1> HIDE DEF R
<1>3. PICK x \in S : \A y \in S : ~(<<y, x>> \in R)
  BY <1>2, WFMin
<1>4. \A y \in S : ~(y < x)
  BY <1>3 DEF R
<1> QED  BY <1>4

LEMMA OldestIsOne ==
  ASSUME NEW F, F \subseteq Frame, F # {}
  PROVE  Oldest(F) \in F
<1> DEFINE E == {f.epoch : f \in F}
<1>1. E \subseteq Nat /\ E # {}
  BY BoundsAssumption DEF Frame, Epoch
<1>2. PICK e \in E : \A d \in E : e <= d
  BY <1>1, SmallestNat
<1>3. \E f \in F : \A g \in F : f.epoch <= g.epoch
  BY <1>2
<1> QED  BY <1>3 DEF Oldest

\* The last and the other members of a sequence that was appended to.
LEMMA Appended ==
  ASSUME NEW S, NEW s \in Seq(S), NEW m \in S
  PROVE  /\ Append(s, m) \in Seq(S)
         /\ DOMAIN s = 1..Len(s) /\ DOMAIN Append(s, m) = 1 .. Len(s) + 1 /\ Len(s) \in Nat
         /\ \A i \in DOMAIN s : s[i] \in S /\ Append(s, m)[i] = s[i]
         /\ Append(s, m)[Len(s) + 1] = m
<1>1. Append(s, m) \in Seq(S) /\ Len(Append(s, m)) = Len(s) + 1
  BY AppendProperties
<1> QED  BY <1>1, AppendProperties, LenProperties, ElementOfSeq

LEMMA Shortened ==
  ASSUME NEW S, NEW s \in Seq(S), s # <<>>
  PROVE  /\ Tail(s) \in Seq(S) /\ Head(s) \in S /\ Head(s) = s[1] /\ 1 \in DOMAIN s
         /\ DOMAIN s = 1..Len(s) /\ DOMAIN Tail(s) = 1 .. Len(s) - 1 /\ Len(s) \in Nat
         /\ \A i \in DOMAIN Tail(s) : i + 1 \in DOMAIN s /\ Tail(s)[i] = s[i + 1]
<1>1. /\ Head(s) \in S /\ Tail(s) \in Seq(S) /\ Len(Tail(s)) = Len(s) - 1
      /\ \A i \in 1..Len(Tail(s)) : Tail(s)[i] = s[i + 1]
      /\ Len(s) \in Nat \ {0}
  BY HeadTailProperties, EmptySeq
<1> QED  BY <1>1, LenProperties

(***************************************************************************)
(* Types.                                                                  *)
(***************************************************************************)
Driver ==
  [pending : Seq(Frame), lastEpoch : Epoch, resyncing : BOOLEAN, peerAcked : Epoch,
   ackOwed : BOOLEAN, replayPending : BOOLEAN, stalled : BOOLEAN,
   ticking : BOOLEAN, replaying : SUBSET Frame, applied : SUBSET Epoch]

LEMMA MessageKinds ==
  ASSUME NEW m \in Message
  PROVE  /\ m.epoch \in Epoch /\ m.epoch \in Nat
         /\ m \in Frame <=> IsFrame(m)
         /\ IsFrame(m) => m.base \in Epoch /\ m.kind # "ack"
  BY BoundsAssumption DEF Message, Frame, Control, IsFrame, Epoch

LEMMA MessagesMade ==
  ASSUME NEW e \in Epoch, NEW b \in Epoch
  PROVE  /\ Snapshot(e) \in Message /\ ResyncRequest(e) \in Message /\ OutboxAck(e) \in Message
         /\ Delta(b, e) \in Frame /\ Snapshot(e) \in Frame /\ Larger(b, e) \in Epoch
<1>1. e \in Nat /\ b \in Nat /\ 0 \in Epoch
  BY BoundsAssumption DEF Epoch
<1>2. Snapshot(e) \in Frame /\ Delta(b, e) \in Frame
  BY <1>1 DEF Snapshot, Delta, Frame
<1>3. ResyncRequest(e) \in Control /\ OutboxAck(e) \in Control
  BY DEF ResyncRequest, OutboxAck, Control
<1> QED  BY <1>2, <1>3 DEF Message, Larger

LEMMA NewDriverType ==
  ASSUME NEW e \in Epoch, NEW S \in SUBSET Epoch
  PROVE  NewDriver(e, S) \in Driver /\ Resume(e, S) \in [epoch : Epoch, folded : SUBSET Epoch]
<1>1. 0 \in Epoch /\ <<>> \in Seq(Frame)
  BY BoundsAssumption, EmptySeq DEF Epoch
<1> QED  BY <1>1 DEF NewDriver, Driver, Resume

\* A driver whose pending frames are replaced.
LEMMA Replaced ==
  ASSUME NEW d \in Driver, NEW s \in Seq(Frame)
  PROVE  [d EXCEPT !.pending = s] \in Driver
  BY DEF Driver

\* A driver whose other fields are assigned, as the steps assign them.
LEMMA Flagged ==
  ASSUME NEW d \in Driver, NEW b \in BOOLEAN
  PROVE  /\ [d EXCEPT !.replayPending = b] \in Driver /\ [d EXCEPT !.ackOwed = b] \in Driver
         /\ [d EXCEPT !.stalled = b] \in Driver /\ [d EXCEPT !.ticking = b] \in Driver
         /\ [d EXCEPT !.resyncing = b] \in Driver
<1>1. [d EXCEPT !.replayPending = b] \in Driver
  BY DEF Driver
<1>2. [d EXCEPT !.ackOwed = b] \in Driver
  BY DEF Driver
<1>3. [d EXCEPT !.stalled = b] \in Driver
  BY DEF Driver
<1>4. [d EXCEPT !.ticking = b] \in Driver
  BY DEF Driver
<1>5. [d EXCEPT !.resyncing = b] \in Driver
  BY DEF Driver
<1> QED  BY <1>1, <1>2, <1>3, <1>4, <1>5

LEMMA Advanced ==
  ASSUME NEW d \in Driver, NEW e \in Epoch, NEW S \in SUBSET Frame, NEW A \in SUBSET Epoch
  PROVE  /\ [d EXCEPT !.lastEpoch = e] \in Driver /\ [d EXCEPT !.peerAcked = e] \in Driver
         /\ [d EXCEPT !.replaying = S] \in Driver /\ [d EXCEPT !.applied = A] \in Driver
<1>1. [d EXCEPT !.lastEpoch = e] \in Driver
  BY DEF Driver
<1>2. [d EXCEPT !.peerAcked = e] \in Driver
  BY DEF Driver
<1>3. [d EXCEPT !.replaying = S] \in Driver
  BY DEF Driver
<1>4. [d EXCEPT !.applied = A] \in Driver
  BY DEF Driver
<1> QED  BY <1>1, <1>2, <1>3, <1>4

LEMMA TypeInit == Init => TypeOK
<1> SUFFICES ASSUME Init PROVE TypeOK
  OBVIOUS
<1>1. 0 \in Epoch /\ <<>> \in Seq(Message) /\ 0 \in 0..MaxFaults
  BY BoundsAssumption, EmptySeq DEF Epoch
<1>2. NewDriver(0, {}) \in Driver /\ Resume(0, {}) \in [epoch : Epoch, folded : SUBSET Epoch]
  BY <1>1, NewDriverType
<1>3. driver \in [Peer -> Driver] /\ saved \in [Peer -> [epoch : Epoch, folded : SUBSET Epoch]]
  BY <1>2 DEF Init
<1> QED  BY <1>1, <1>3 DEF Init, TypeOK, Driver

\* Adding a message to a channel, and taking one from it.
LEMMA ChannelTypes ==
  ASSUME TypeOK, NEW p \in Peer, NEW m \in Message
  PROVE  /\ Sent(p, m) => chan' \in [Peer -> Seq(Message)]
         /\ chan[p] # <<>> => Rest(p) \in [Peer -> Seq(Message)] /\ Head(chan[p]) \in Message
         /\ chan[p] # <<>> /\ Replied(p, m) => chan' \in [Peer -> Seq(Message)]
<1>1. chan \in [Peer -> Seq(Message)] /\ Other(p) \in Peer
  BY TwoHosts DEF TypeOK
<1>2. ASSUME NEW s \in Seq(Message) PROVE Append(s, m) \in Seq(Message)
  BY AppendProperties
<1>3. ASSUME chan[p] # <<>> PROVE Rest(p) \in [Peer -> Seq(Message)] /\ Head(chan[p]) \in Message
  BY <1>1, <1>3, HeadTailProperties DEF Rest
<1>4. Sent(p, m) => chan' \in [Peer -> Seq(Message)]
  BY <1>1, <1>2 DEF Sent
<1>5. ASSUME chan[p] # <<>>, Replied(p, m) PROVE chan' \in [Peer -> Seq(Message)]
  <2>1. [Rest(p) EXCEPT ![Other(p)] = Append(@, m)] \in [Peer -> Seq(Message)]
    BY <1>1, <1>2, <1>3, <1>5
  <2> QED  BY <1>3, <1>5, <2>1 DEF Replied
<1> QED  BY <1>3, <1>4, <1>5

\* What TypeOK says of the variables, by name.
LEMMA TypeFacts ==
  ASSUME TypeOK
  PROVE  /\ driver \in [Peer -> Driver] /\ chan \in [Peer -> Seq(Message)]
         /\ version \in [Peer -> Epoch] /\ acked \in [Peer -> Epoch]
         /\ outbox \in [Peer -> SUBSET Frame] /\ folded \in [Peer -> SUBSET Epoch]
         /\ saved \in [Peer -> [epoch : Epoch, folded : SUBSET Epoch]]
  BY DEF TypeOK, Driver

LEMMA FramesTyped ==
  ASSUME TypeOK, NEW p \in Peer
  PROVE  outbox[p] \cup Staged(p) \subseteq Frame
<1>1. \A i \in DOMAIN driver[p].pending : driver[p].pending[i] \in Frame
  BY TypeFacts, ElementOfSeq, LenProperties DEF Driver
<1> QED  BY <1>1, TypeFacts DEF Staged

LEMMA TypeOfHost ==
  ASSUME TypeOK, NEW p \in Peer, Enqueue(p) \/ OnReconnect(p)
  PROVE  TypeOK'
<1> USE TypeFacts
<1>1. CASE Enqueue(p)
  <2>0. PICK e \in version[p] + 1 .. version[p] + MaxSpan :
          /\ e <= MaxEpoch /\ version' = [version EXCEPT ![p] = e]
          /\ \E f \in {Delta(version[p], e), Snapshot(e)} :
               driver' = [driver EXCEPT ![p].pending = Append(@, f)]
    BY <1>1 DEF Enqueue
  <2>1. PICK f \in {Delta(version[p], e), Snapshot(e)} :
          driver' = [driver EXCEPT ![p].pending = Append(@, f)]
    BY <2>0
  <2>2. version[p] \in Epoch /\ e \in Epoch
    BY <2>0, BoundsAssumption DEF Epoch
  <2>3. f \in Frame
    BY <2>1, <2>2, MessagesMade
  <2>4. Append(driver[p].pending, f) \in Seq(Frame) /\ driver[p] \in Driver
    BY <2>3, AppendProperties DEF Driver
  <2>5. [driver[p] EXCEPT !.pending = Append(driver[p].pending, f)] \in Driver
    BY <2>4, Replaced
  <2>6. driver' \in [Peer -> Driver] /\ version' \in [Peer -> Epoch]
    BY <2>0, <2>1, <2>2, <2>5
  <2> QED  BY <1>1, <2>6 DEF Enqueue, TypeOK, Driver, outboxVars, link, faultVars
<1>2. CASE OnReconnect(p)
  <2>0. [driver[p] EXCEPT !.replayPending = TRUE, !.ackOwed = TRUE, !.stalled = FALSE] \in Driver
    BY Flagged
  <2>1. driver' \in [Peer -> Driver]
    BY <1>2, <2>0 DEF OnReconnect
  <2> QED  BY <1>2, <2>1 DEF OnReconnect, TypeOK, Driver, outboxVars, hostVars, faultVars
<1> QED  BY <1>1, <1>2

LEMMA TypeOfSending ==
  ASSUME TypeOK, NEW p \in Peer, TickBegin(p) \/ Replay(p) \/ Drain(p)
  PROVE  TypeOK'
<1> USE TypeFacts
<1>1. CASE TickBegin(p)
  <2>1. Unacked(p, driver[p].peerAcked) \in SUBSET Frame
    BY DEF Unacked
  <2>2. [driver[p] EXCEPT !.ticking = TRUE, !.replayPending = FALSE, !.applied = folded[p],
           !.replaying = IF driver[p].replayPending THEN Unacked(p, driver[p].peerAcked) ELSE {}] \in Driver
    BY <2>1, Flagged, Advanced
  <2>3. driver' \in [Peer -> Driver]
    BY <1>1, <2>2 DEF TickBegin
  <2> QED  BY <1>1, <2>3 DEF TickBegin, TypeOK, Driver, hostVars, outboxVars, link, faultVars
<1>2. CASE Replay(p)
  <2> DEFINE f == Oldest(driver[p].replaying)
  <2>1. f \in Frame
    BY <1>2, OldestIsOne DEF Replay, Replays, Driver
  <2>5. /\ [driver[p] EXCEPT !.replaying = @ \ {f}] \in Driver
        /\ [driver[p] EXCEPT !.replaying = {}, !.replayPending = TRUE, !.stalled = TRUE] \in Driver
    <3>1. driver[p] \in Driver /\ driver[p].replaying \ {f} \in SUBSET Frame /\ {} \in SUBSET Frame
      BY DEF Driver
    <3>2. [driver[p] EXCEPT !.replaying = @ \ {f}] \in Driver
      BY <3>1, Advanced
    <3>3. [driver[p] EXCEPT !.replaying = {}] \in Driver
      BY <3>1, Advanced
    <3> QED  BY <3>2, <3>3, Flagged
  <2>2. driver' \in [Peer -> Driver]
    BY <1>2, <2>5 DEF Replay
  <2>3. Sent(p, f) \/ SendFails
    BY <1>2 DEF Replay
  <2>4. chan' \in [Peer -> Seq(Message)]
    BY <2>1, <2>3, ChannelTypes DEF SendFails, Message
  <2> QED  BY <1>2, <2>2, <2>4 DEF Replay, TypeOK, Driver, hostVars, outboxVars, link, faultVars
<1>3. CASE Drain(p)
  <2> DEFINE f == Head(driver[p].pending)
  <2>1. f \in Frame /\ Tail(driver[p].pending) \in Seq(Frame)
    BY <1>3, HeadTailProperties DEF Drain, Drains, Driver
  <2>6. /\ [driver[p] EXCEPT !.pending = Tail(@)] \in Driver
        /\ [driver[p] EXCEPT !.pending = Tail(@), !.stalled = TRUE] \in Driver
    BY <2>1, Flagged, Replaced
  <2>2. driver' \in [Peer -> Driver]
    BY <1>3, <2>6 DEF Drain
  <2>3. Sent(p, f) \/ SendFails
    BY <1>3 DEF Drain
  <2>4. chan' \in [Peer -> Seq(Message)]
    BY <2>1, <2>3, ChannelTypes DEF SendFails, Message
  <2>5. outbox' \in [Peer -> SUBSET Frame]
    BY <1>3, <2>1 DEF Drain, Put
  <2> QED  BY <1>3, <2>2, <2>4, <2>5 DEF Drain, TypeOK, Driver, hostVars, link, faultVars
<1> QED  BY <1>1, <1>2, <1>3

LEMMA TypeOfAnswering ==
  ASSUME TypeOK, NEW p \in Peer, ReceiveAck(p) \/ ReceiveRequest(p) \/ ReceiveGap(p) \/ TickEnd(p)
  PROVE  TypeOK'
<1> USE TypeFacts
<1>1. CASE ReceiveAck(p)
  <2> DEFINE e == Head(chan[p]).epoch
  <2>1. e \in Epoch /\ chan' \in [Peer -> Seq(Message)]
    BY <1>1, ChannelTypes, MessageKinds, MessagesMade DEF ReceiveAck, Receives
  <2>2. Larger(e, acked[p]) \in Epoch /\ Larger(driver[p].peerAcked, e) \in Epoch
    BY <2>1, MessagesMade DEF Driver
  <2>3. driver' \in [Peer -> Driver] /\ acked' \in [Peer -> Epoch] /\ outbox' \in [Peer -> SUBSET Frame]
    <3>1. [driver[p] EXCEPT !.peerAcked = Larger(@, e)] \in Driver
      BY <2>2, Advanced
    <3>2. driver' \in [Peer -> Driver]
      BY <1>1, <3>1 DEF ReceiveAck
    <3>3. acked' \in [Peer -> Epoch] /\ outbox' \in [Peer -> SUBSET Frame]
      BY <1>1, <2>2 DEF ReceiveAck
    <3> QED  BY <3>2, <3>3
  <2> QED  BY <1>1, <2>1, <2>3 DEF ReceiveAck, TypeOK, Driver, hostVars, link, faultVars
<1>2. CASE ReceiveRequest(p)
  <2>1. Snapshot(version[p]) \in Message
    BY MessagesMade
  <2>2. chan' \in [Peer -> Seq(Message)]
    BY <1>2, <2>1, ChannelTypes DEF ReceiveRequest, Receives
  <2>3. driver' \in [Peer -> Driver]
    <3>1. [driver[p] EXCEPT !.stalled = @ \/ ~up] \in Driver
      BY Flagged
    <3> QED  BY <1>2, <3>1 DEF ReceiveRequest
  <2> QED  BY <1>2, <2>2, <2>3 DEF ReceiveRequest, TypeOK, Driver, hostVars, outboxVars, link, faultVars
<1>3. CASE ReceiveGap(p)
  <2>1. ResyncRequest(driver[p].lastEpoch) \in Message
    BY MessagesMade DEF Driver
  <2>2. chan' \in [Peer -> Seq(Message)]
    BY <1>3, <2>1, ChannelTypes DEF ReceiveGap, Receives
  <2>3. driver' \in [Peer -> Driver]
    <3>1. [driver[p] EXCEPT !.resyncing = TRUE, !.stalled = @ \/ ~up] \in Driver
      BY Flagged
    <3> QED  BY <1>3, <3>1 DEF ReceiveGap
  <2> QED  BY <1>3, <2>2, <2>3 DEF ReceiveGap, TypeOK, Driver, hostVars, outboxVars, link, faultVars
<1>4. CASE TickEnd(p)
  <2>1. OutboxAck(driver[p].lastEpoch) \in Message
    BY MessagesMade DEF Driver
  <2>2. chan' \in [Peer -> Seq(Message)]
    BY <1>4, <2>1, ChannelTypes DEF TickEnd
  <2>3. driver' \in [Peer -> Driver]
    <3>1. [driver[p] EXCEPT !.ticking = FALSE, !.ackOwed = @ /\ ~up] \in Driver
      BY Flagged
    <3> QED  BY <1>4, <3>1 DEF TickEnd
  <2>4. folded' \in [Peer -> SUBSET Epoch] /\ saved' \in [Peer -> [epoch : Epoch, folded : SUBSET Epoch]]
    <3>1. /\ driver[p].applied \in SUBSET Epoch
          /\ Resume(driver[p].lastEpoch, driver[p].applied) \in [epoch : Epoch, folded : SUBSET Epoch]
      BY DEF Driver, Resume
    <3>2. folded' \in [Peer -> SUBSET Epoch]
      BY <1>4, <3>1 DEF TickEnd
    <3>3. CASE saved' = [saved EXCEPT ![p] = Resume(driver[p].lastEpoch, driver[p].applied)]
      BY <3>1, <3>2, <3>3
    <3>4. CASE saved' = saved
      BY <3>2, <3>4
    <3> QED  BY <1>4, <3>3, <3>4 DEF TickEnd
  <2> QED  BY <1>4, <2>2, <2>3, <2>4 DEF TickEnd, TypeOK, Driver, outboxVars, link, faultVars
<1> QED  BY <1>1, <1>2, <1>3, <1>4

LEMMA TypeOfReceiving ==
  ASSUME TypeOK, NEW p \in Peer, ReceiveApplied(p) \/ ReceiveIgnored(p) \/ ReceiveRaises(p) \/ Drop(p)
  PROVE  TypeOK'
<1> USE TypeFacts
<1>1. CASE ReceiveApplied(p)
  <2> DEFINE f == Head(chan[p])
  <2>1. f \in Frame /\ f.epoch \in Epoch /\ f.base \in Epoch
    BY <1>1 DEF ReceiveApplied, Frame
  <2>2. Fold(driver[p].applied, f) \in SUBSET Epoch
    <3>1. driver[p].applied \in SUBSET Epoch
      BY DEF Driver
    <3>2. 1..f.epoch \subseteq Epoch /\ f.base + 1 .. f.epoch \subseteq Epoch
      BY <2>1, BoundsAssumption DEF Epoch
    <3> QED  BY <3>1, <3>2 DEF Fold
  <2>3. driver' \in [Peer -> Driver]
    <3>1. [driver[p] EXCEPT !.lastEpoch = f.epoch, !.resyncing = FALSE, !.ackOwed = TRUE,
                            !.applied = Fold(@, f)] \in Driver
      BY <2>1, <2>2, Flagged, Advanced
    <3> QED  BY <1>1, <3>1 DEF ReceiveApplied
  <2>4. chan' \in [Peer -> Seq(Message)]
    BY <1>1, MessagesMade, ChannelTypes, <2>1 DEF ReceiveApplied, Receives
  <2> QED  BY <1>1, <2>3, <2>4 DEF ReceiveApplied, TypeOK, Driver, hostVars, outboxVars, link, faultVars
<1>2. CASE ReceiveIgnored(p)
  <2>1. chan' \in [Peer -> Seq(Message)]
    BY <1>2, MessagesMade, ChannelTypes DEF ReceiveIgnored, Receives
  <2> QED  BY <1>2, <2>1 DEF ReceiveIgnored, TypeOK, hostVars, outboxVars, link, faultVars
<1>3. CASE ReceiveRaises(p)
  <2>1. driver' \in [Peer -> Driver]
    <3>1. [driver[p] EXCEPT !.ticking = FALSE] \in Driver
      BY Flagged
    <3> QED  BY <1>3, <3>1 DEF ReceiveRaises
  <2>2. faults' \in 0..MaxFaults /\ raised' \subseteq Peer
    BY <1>3, BoundsAssumption DEF ReceiveRaises, Fault, TypeOK
  <2> QED  BY <1>3, <2>1, <2>2 DEF ReceiveRaises, TypeOK, Driver, hostVars, outboxVars, link
<1>4. CASE Drop(p)
  <2>1. chan' \in [Peer -> Seq(Message)]
    BY <1>4, MessagesMade, ChannelTypes DEF Drop
  <2>2. faults' \in 0..MaxFaults
    BY <1>4, BoundsAssumption DEF Drop, Fault, TypeOK
  <2> QED  BY <1>4, <2>1, <2>2 DEF Drop, TypeOK, hostVars, outboxVars
<1> QED  BY <1>1, <1>2, <1>3, <1>4

LEMMA TypeOfFaults ==
  ASSUME TypeOK, Break \/ Reestablish \/ \E p \in Peer : Restart(p)
  PROVE  TypeOK'
<1> USE TypeFacts
<1>1. [p \in Peer |-> <<>>] \in [Peer -> Seq(Message)]
  BY EmptySeq
<1>2. CASE Break
  <2>1. faults' \in 0..MaxFaults
    BY <1>2, BoundsAssumption DEF Break, Fault, TypeOK
  <2> QED  BY <1>1, <1>2, <2>1 DEF Break, Disconnected, TypeOK, hostVars, outboxVars
<1>3. CASE Reestablish
  BY <1>3 DEF Reestablish, TypeOK, hostVars, outboxVars, faultVars
<1>4. ASSUME NEW p \in Peer, Restart(p) PROVE TypeOK'
  <2>1. NewDriver(saved[p].epoch, saved[p].folded) \in Driver
    BY NewDriverType
  <2>2. driver' \in [Peer -> Driver] /\ folded' \in [Peer -> SUBSET Epoch]
    BY <1>4, <2>1 DEF Restart
  <2>3. faults' \in 0..MaxFaults /\ restarted' \subseteq Peer
    BY <1>4, BoundsAssumption DEF Restart, Fault, TypeOK
  <2> QED  BY <1>1, <1>4, <2>2, <2>3 DEF Restart, Disconnected, TypeOK, Driver, outboxVars
<1> QED  BY <1>2, <1>3, <1>4

LEMMA TypeStep == TypeOK /\ [Next]_vars => TypeOK'
<1> SUFFICES ASSUME TypeOK, [Next]_vars PROVE TypeOK'
  OBVIOUS
<1>1. CASE UNCHANGED vars
  BY <1>1 DEF vars, hostVars, outboxVars, link, faultVars, TypeOK
<1>2. CASE Next
  BY <1>2, TypeOfHost, TypeOfSending, TypeOfAnswering, TypeOfReceiving, TypeOfFaults DEF Next, Tick
<1> QED  BY <1>1, <1>2

(***************************************************************************)
(* What a host has yet to send, and what it retains.                       *)
(***************************************************************************)
\* The steps that leave what is staged, replayed and retained alone.
Elsewhere(p) ==
  \/ OnReconnect(p) \/ ReceiveRequest(p) \/ ReceiveApplied(p) \/ ReceiveGap(p)
  \/ ReceiveIgnored(p) \/ ReceiveRaises(p) \/ TickEnd(p) \/ Drop(p) \/ Break \/ Reestablish

Step(p) == Tick(p) \/ Enqueue(p) \/ Restart(p) \/ Elsewhere(p)

LEMMA EveryStep == Next => \E p \in Peer : Step(p)
  BY PeerAssumption DEF Next, Step, Elsewhere

LEMMA NothingSent ==
  ASSUME TypeOK, NEW p \in Peer, Elsewhere(p)
  PROVE  /\ version' = version /\ outbox' = outbox /\ acked' = acked /\ restarted' = restarted
         /\ \A q \in Peer : /\ driver'[q].pending = driver[q].pending
                            /\ driver'[q].replaying = driver[q].replaying
                            /\ Staged(q)' = Staged(q)
<1> USE TypeFacts DEF hostVars, outboxVars, link, faultVars
<1>1. version' = version /\ outbox' = outbox /\ acked' = acked /\ restarted' = restarted
  BY DEF Elsewhere, OnReconnect, ReceiveRequest, ReceiveApplied, ReceiveGap, ReceiveIgnored,
         ReceiveRaises, TickEnd, Drop, Break, Reestablish
<1>2. ASSUME NEW q \in Peer
      PROVE  driver'[q].pending = driver[q].pending /\ driver'[q].replaying = driver[q].replaying
  <2>1. CASE OnReconnect(p)
    BY <2>1 DEF OnReconnect, Driver
  <2>2. CASE ReceiveRequest(p)
    BY <2>2 DEF ReceiveRequest, Driver
  <2>3. CASE ReceiveGap(p)
    BY <2>3 DEF ReceiveGap, Driver
  <2>4. CASE ReceiveApplied(p)
    BY <2>4 DEF ReceiveApplied, Driver
  <2>6. CASE ReceiveRaises(p)
    BY <2>6 DEF ReceiveRaises, Driver
  <2>7. CASE TickEnd(p)
    BY <2>7 DEF TickEnd, Driver
  <2>5. CASE ReceiveIgnored(p) \/ Drop(p) \/ Break \/ Reestablish
    BY <2>5 DEF ReceiveIgnored, Drop, Break, Reestablish
  <2> QED  BY <2>1, <2>2, <2>3, <2>4, <2>5, <2>6, <2>7 DEF Elsewhere
<1> QED  BY <1>1, <1>2 DEF Staged

\* Enqueuing appends a delta that starts at the host's version.
LEMMA DeltaEnqueued ==
  ASSUME Enqueued \subseteq {"delta"}, TypeOK, NEW p \in Peer, Enqueue(p)
  PROVE  /\ version'[p] \in Epoch /\ version[p] < version'[p]
         /\ driver'[p].pending = Append(driver[p].pending, Delta(version[p], version'[p]))
         /\ Delta(version[p], version'[p]) \in Frame
         /\ driver'[p].replaying = driver[p].replaying
         /\ \A q \in Peer \ {p} : driver'[q] = driver[q] /\ version'[q] = version[q]
         /\ outbox' = outbox /\ acked' = acked
<1> USE TypeFacts
<1>1. PICK e \in version[p] + 1 .. version[p] + MaxSpan :
        /\ e <= MaxEpoch /\ version' = [version EXCEPT ![p] = e]
        /\ \E f \in {Delta(version[p], e), Snapshot(e)} :
             f.kind \in Enqueued /\ driver' = [driver EXCEPT ![p].pending = Append(@, f)]
  BY DEF Enqueue
<1>2. driver' = [driver EXCEPT ![p].pending = Append(@, Delta(version[p], e))]
  <2>1. PICK f \in {Delta(version[p], e), Snapshot(e)} :
          f.kind \in Enqueued /\ driver' = [driver EXCEPT ![p].pending = Append(@, f)]
    BY <1>1
  <2>2. f = Delta(version[p], e)
    BY <2>1 DEF Snapshot
  <2> QED  BY <2>1, <2>2
<1>3. e \in Epoch /\ version[p] < e /\ version'[p] = e
  BY <1>1, BoundsAssumption DEF Epoch
<1>4. Delta(version[p], e) \in Frame
  BY <1>3, MessagesMade
<1>5. driver'[p] = [driver[p] EXCEPT !.pending = Append(driver[p].pending, Delta(version[p], e))]
  BY <1>2
<1>6. driver'[p].pending = Append(driver[p].pending, Delta(version[p], e))
      /\ driver'[p].replaying = driver[p].replaying
  BY <1>5 DEF Driver
<1> QED  BY <1>1, <1>2, <1>3, <1>4, <1>6 DEF Enqueue, outboxVars

\* Draining moves the first of the staged frames to the outbox.
LEMMA FirstDrained ==
  ASSUME TypeOK, Sending, NEW p \in Peer, Drain(p)
  PROVE  /\ driver[p].pending # <<>> /\ driver'[p].pending = Tail(driver[p].pending)
         /\ driver'[p].replaying = driver[p].replaying
         /\ outbox'[p] = outbox[p] \cup {Head(driver[p].pending)}
         /\ Head(driver[p].pending) \in Staged(p)
         /\ \A q \in Peer \ {p} : driver'[q] = driver[q] /\ outbox'[q] = outbox[q]
         /\ version' = version /\ acked' = acked /\ restarted' = restarted
<1> USE TypeFacts
<1> DEFINE f == Head(driver[p].pending)
<1>1. driver[p].pending # <<>> /\ driver[p].pending \in Seq(Frame)
  BY DEF Drain, Drains, Driver
<1>2. f \in Staged(p) /\ f \in Frame
  BY <1>1, Shortened DEF Staged
<1>3. \A g \in outbox[p] : g.epoch # f.epoch
  BY <1>2 DEF Sending, Frame, Epoch
<1>4. outbox'[p] = outbox[p] \cup {f}
  BY <1>3 DEF Drain, Put
<1>5. driver'[p].pending = Tail(driver[p].pending) /\ driver'[p].replaying = driver[p].replaying
  <2> DEFINE rest == Tail(driver[p].pending)
  <2>1. \/ driver' = [driver EXCEPT ![p].pending = rest]
        \/ driver' = [driver EXCEPT ![p].pending = rest, ![p].stalled = TRUE]
    BY DEF Drain
  <2> HIDE DEF rest
  <2>2. driver'[p].pending = rest /\ driver'[p].replaying = driver[p].replaying
    BY <2>1 DEF Driver
  <2> QED  BY <2>2 DEF rest
<1> QED  BY <1>1, <1>2, <1>4, <1>5 DEF Drain, Put, hostVars, faultVars

LEMMA SendingHeld ==
  ASSUME Enqueued \subseteq {"delta"}, TypeOK, TypeOK', Sending, NEW p \in Peer, Step(p)
  PROVE  Sending'
<1> USE TypeFacts
<1> DEFINE Sends(v, box, s, again) ==
      /\ \A f \in box \cup {s[i] : i \in DOMAIN s} \cup again : f.kind = "delta" /\ f.epoch <= v
      /\ \A i, j \in DOMAIN s : i < j => s[i].epoch < s[j].epoch
      /\ \A f \in box, i \in DOMAIN s : f.epoch < s[i].epoch
<1>1. \A q \in Peer : Sends(version[q], outbox[q], driver[q].pending, driver[q].replaying)
  BY DEF Sending, Staged
<1>2. SUFFICES \A q \in Peer :
        Sends(version'[q], outbox'[q], driver'[q].pending, driver'[q].replaying)
  BY DEF Sending, Staged
<1> HIDE DEF Sends
<1>3. CASE Elsewhere(p)
  BY <1>1, <1>3, NothingSent
<1>4. CASE Enqueue(p)
  <2>1. SUFFICES Sends(version'[p], outbox'[p], driver'[p].pending, driver'[p].replaying)
    BY <1>1, <1>4, DeltaEnqueued
  <2> DEFINE s == driver[p].pending
             d == Delta(version[p], version'[p])
  <2>2. /\ Append(s, d) \in Seq(Frame) /\ Len(s) \in Nat
        /\ DOMAIN s = 1..Len(s) /\ DOMAIN Append(s, d) = 1 .. Len(s) + 1
        /\ \A i \in DOMAIN s : s[i] \in Frame /\ Append(s, d)[i] = s[i]
        /\ Append(s, d)[Len(s) + 1] = d
    BY <1>4, DeltaEnqueued, Appended DEF Driver
  <2>3. d.kind = "delta" /\ d.epoch = version'[p]
    BY DEF Delta
  <2>4. \A f \in Frame : f.epoch \in Nat
    BY DEF Frame, Epoch
  <2>5. version[p] \in Nat /\ version'[p] \in Nat /\ version[p] < version'[p]
    BY <1>4, DeltaEnqueued DEF Epoch
  <2>6. Sends(version[p], outbox[p], s, driver[p].replaying)
    BY <1>1
  <2>7. outbox[p] \subseteq Frame /\ driver[p].replaying \subseteq Frame
    BY DEF Driver
  <2> HIDE DEF s, d
  <2>8. Sends(version'[p], outbox[p], Append(s, d), driver[p].replaying)
    BY <2>2, <2>3, <2>4, <2>5, <2>6, <2>7 DEF Sends
  <2> QED  BY <1>4, <2>8, DeltaEnqueued DEF s, d
<1>5. CASE TickBegin(p)
  <2>1. driver'[p].pending = driver[p].pending /\ driver'[p].replaying \subseteq outbox[p]
    BY <1>5 DEF TickBegin, Unacked, Driver
  <2>2. \A q \in Peer \ {p} : driver'[q] = driver[q]
    BY <1>5 DEF TickBegin
  <2> QED  BY <1>1, <1>5, <2>1, <2>2 DEF TickBegin, hostVars, outboxVars, Sends
<1>6. CASE Replay(p)
  <2>1. driver'[p].pending = driver[p].pending /\ driver'[p].replaying \subseteq driver[p].replaying
    BY <1>6 DEF Replay, Driver
  <2>2. \A q \in Peer \ {p} : driver'[q] = driver[q]
    BY <1>6 DEF Replay
  <2>3. version' = version /\ outbox' = outbox
    BY <1>6 DEF Replay, hostVars, outboxVars
  <2>4. Sends(version[p], outbox[p], driver[p].pending, driver'[p].replaying)
    BY <1>1, <2>1 DEF Sends
  <2> QED  BY <1>1, <2>1, <2>2, <2>3, <2>4
<1>7. CASE Drain(p)
  <2>1. SUFFICES Sends(version'[p], outbox'[p], driver'[p].pending, driver'[p].replaying)
    BY <1>1, <1>7, FirstDrained
  <2> DEFINE s == driver[p].pending
  <2>2. /\ Head(s) = s[1] /\ 1 \in DOMAIN s /\ DOMAIN s = 1..Len(s)
        /\ DOMAIN Tail(s) = 1 .. Len(s) - 1 /\ Len(s) \in Nat
        /\ \A i \in DOMAIN Tail(s) : i + 1 \in DOMAIN s /\ Tail(s)[i] = s[i + 1]
    BY <1>7, FirstDrained, Shortened DEF Driver
  <2>3. Sends(version[p], outbox[p], s, driver[p].replaying)
    BY <1>1
  <2> HIDE DEF s
  <2>4. \A i, j \in DOMAIN Tail(s) : i < j => Tail(s)[i].epoch < Tail(s)[j].epoch
    <3>1. \A i, j \in DOMAIN Tail(s) : i < j => i + 1 < j + 1
      BY <2>2
    <3> QED  BY <2>2, <2>3, <3>1 DEF Sends
  <2>5. \A f \in outbox[p] \cup {Head(s)}, i \in DOMAIN Tail(s) : f.epoch < Tail(s)[i].epoch
    <3>1. \A i \in DOMAIN Tail(s) : 1 < i + 1
      BY <2>2
    <3> QED  BY <2>2, <2>3, <3>1 DEF Sends
  <2>6. \A i \in DOMAIN Tail(s) : Tail(s)[i] \in {s[j] : j \in DOMAIN s}
    BY <2>2
  <2>7. Head(s) \in {s[j] : j \in DOMAIN s}
    BY <2>2
  <2>8. Sends(version[p], outbox[p] \cup {Head(s)}, Tail(s), driver[p].replaying)
    <3>1. \A f \in outbox[p] \cup {Head(s)} \cup {Tail(s)[i] : i \in DOMAIN Tail(s)}
              \cup driver[p].replaying : f.kind = "delta" /\ f.epoch <= version[p]
      BY <2>3, <2>6, <2>7 DEF Sends
    <3> QED  BY <2>4, <2>5, <3>1 DEF Sends
  <2> QED  BY <1>7, <2>8, FirstDrained DEF s
<1>8. CASE ReceiveAck(p)
  <2>1. \A q \in Peer : /\ outbox'[q] \subseteq outbox[q] /\ driver'[q].pending = driver[q].pending
                        /\ driver'[q].replaying = driver[q].replaying
    BY <1>8 DEF ReceiveAck, Driver
  <2> QED  BY <1>1, <1>8, <2>1 DEF ReceiveAck, hostVars, Sends
<1>9. CASE Restart(p)
  <2>1. driver'[p].pending = <<>> /\ driver'[p].replaying = {}
    BY <1>9 DEF Restart, NewDriver
  <2>2. \A q \in Peer \ {p} : driver'[q] = driver[q]
    BY <1>9 DEF Restart
  <2> QED  BY <1>1, <1>9, <2>1, <2>2 DEF Restart, outboxVars, Sends
<1> QED  BY <1>3, <1>4, <1>5, <1>6, <1>7, <1>8, <1>9 DEF Step, Tick, Elsewhere

LEMMA RetainedHeld ==
  ASSUME Enqueued \subseteq {"delta"}, TypeOK, TypeOK', Sending, Retained,
         NEW p \in Peer, Step(p)
  PROVE  Retained'
<1> USE TypeFacts
<1> DEFINE Keeps(box, s, from, to) == \A e \in Epoch : from < e /\ e <= to =>
             \E f \in box \cup {s[i] : i \in DOMAIN s} : f.base < e /\ e <= f.epoch
           KeepsAll == \A q \in Peer : Keeps(outbox[q], driver[q].pending, acked[q], version[q])
<1>1. restarted = {} => KeepsAll
  BY DEF Retained, Staged
<1>2. SUFFICES ASSUME restarted' = {} PROVE KeepsAll'
  BY DEF Retained, Staged
<1> HIDE DEF Keeps
<1>3. CASE Elsewhere(p)
  BY <1>1, <1>2, <1>3, NothingSent
<1>4. CASE Enqueue(p)
  <2> DEFINE s == driver[p].pending
             d == Delta(version[p], version'[p])
  <2>1. restarted' = restarted
    BY <1>4 DEF Enqueue, faultVars
  <2>2. /\ DOMAIN s = 1..Len(s) /\ DOMAIN Append(s, d) = 1 .. Len(s) + 1 /\ Len(s) \in Nat
        /\ \A i \in DOMAIN s : Append(s, d)[i] = s[i]
        /\ Append(s, d)[Len(s) + 1] = d
    BY <1>4, DeltaEnqueued, Appended DEF Driver
  <2>3. d.base = version[p] /\ d.epoch = version'[p] /\ version[p] \in Nat /\ version'[p] \in Nat
    <3>1. d.base = version[p] /\ d.epoch = version'[p]
      BY DEF Delta
    <3> QED  BY <1>4, <3>1, DeltaEnqueued DEF Epoch
  <2>4. Keeps(outbox[p], s, acked[p], version[p])
    BY <1>1, <1>2, <2>1
  <2> HIDE DEF s, d
  <2>5. {s[i] : i \in DOMAIN s} \cup {d} \subseteq {Append(s, d)[i] : i \in DOMAIN Append(s, d)}
    <3>1. Len(s) + 1 \in DOMAIN Append(s, d) /\ DOMAIN s \subseteq DOMAIN Append(s, d)
      BY <2>2
    <3> QED  BY <2>2, <3>1
  <2>6. Keeps(outbox[p], Append(s, d), acked[p], version'[p])
    <3>1. SUFFICES ASSUME NEW e \in Epoch, acked[p] < e, e <= version'[p]
                   PROVE  \E f \in outbox[p] \cup {Append(s, d)[i] : i \in DOMAIN Append(s, d)} :
                            f.base < e /\ e <= f.epoch
      BY DEF Keeps
    <3>2. e <= version[p] \/ (d.base < e /\ e <= d.epoch)
      BY <2>3, <3>1 DEF Epoch
    <3> QED  BY <2>4, <2>5, <3>1, <3>2 DEF Keeps
  <2> QED  BY <1>1, <1>2, <1>4, <2>1, <2>6, DeltaEnqueued DEF s, d
<1>5. CASE TickBegin(p) \/ Replay(p)
  <2>1. \A q \in Peer : driver'[q].pending = driver[q].pending
    <3>1. CASE TickBegin(p)
      BY <3>1 DEF TickBegin, Driver
    <3>2. CASE Replay(p)
      <4>1. driver'[p].pending = driver[p].pending
        BY <3>2 DEF Replay, Driver
      <4>2. \A q \in Peer \ {p} : driver'[q] = driver[q]
        BY <3>2 DEF Replay
      <4> QED  BY <4>1, <4>2
    <3> QED  BY <1>5, <3>1, <3>2
  <2> QED  BY <1>1, <1>2, <1>5, <2>1 DEF TickBegin, Replay, hostVars, outboxVars, faultVars
<1>6. CASE Drain(p)
  <2> DEFINE s == driver[p].pending
  <2>1. /\ Head(s) = s[1] /\ DOMAIN s = 1..Len(s) /\ DOMAIN Tail(s) = 1 .. Len(s) - 1
        /\ Len(s) \in Nat /\ \A i \in DOMAIN Tail(s) : Tail(s)[i] = s[i + 1]
    BY <1>6, FirstDrained, Shortened DEF Driver
  <2>2. Keeps(outbox[p], s, acked[p], version[p])
    BY <1>1, <1>2, <1>6, FirstDrained
  <2> HIDE DEF s
  <2>3. ASSUME NEW i \in DOMAIN s
        PROVE  s[i] \in (outbox[p] \cup {Head(s)}) \cup {Tail(s)[j] : j \in DOMAIN Tail(s)}
    <3>1. CASE i = 1
      BY <2>1, <3>1
    <3>2. CASE i # 1
      <4>1. i - 1 \in DOMAIN Tail(s) /\ Tail(s)[i - 1] = s[i]
        BY <2>1, <3>2
      <4> QED  BY <4>1
    <3> QED  BY <3>1, <3>2
  <2>4. outbox[p] \cup {s[i] : i \in DOMAIN s}
          \subseteq (outbox[p] \cup {Head(s)}) \cup {Tail(s)[j] : j \in DOMAIN Tail(s)}
    <3>1. PICK R : R = (outbox[p] \cup {Head(s)}) \cup {Tail(s)[j] : j \in DOMAIN Tail(s)}
      OBVIOUS
    <3>2. outbox[p] \subseteq R /\ \A i \in DOMAIN s : s[i] \in R
      BY <2>3, <3>1
    <3> QED  BY <3>1, <3>2
  <2>5. Keeps(outbox[p] \cup {Head(s)}, Tail(s), acked[p], version[p])
    BY <2>2, <2>4 DEF Keeps
  <2> QED  BY <1>1, <1>2, <1>6, <2>5, FirstDrained DEF s
<1>7. CASE ReceiveAck(p)
  <2>1. /\ \A q \in Peer : driver'[q].pending = driver[q].pending
        /\ \A q \in Peer \ {p} : outbox'[q] = outbox[q] /\ acked'[q] = acked[q]
        /\ version' = version /\ restarted' = restarted
    BY <1>7 DEF ReceiveAck, hostVars, faultVars, Driver
  <2>2. /\ acked'[p] = Larger(Head(chan[p]).epoch, acked[p])
        /\ outbox'[p] = {f \in outbox[p] : f.epoch > acked'[p]}
    BY <1>7 DEF ReceiveAck
  <2>3. Head(chan[p]).epoch \in Nat
    BY <1>7, Shortened, MessageKinds DEF ReceiveAck, Receives
  <2>4. acked[p] \in Nat /\ acked'[p] \in Nat /\ acked[p] <= acked'[p]
    BY <2>2, <2>3 DEF Larger, Epoch
  <2>5. Keeps(outbox[p], driver[p].pending, acked[p], version[p])
    BY <1>1, <1>2, <2>1
  <2>6. Keeps(outbox'[p], driver[p].pending, acked'[p], version[p])
    <3>1. SUFFICES ASSUME NEW e \in Epoch, acked'[p] < e, e <= version[p]
                   PROVE  \E f \in outbox'[p] \cup Staged(p) : f.base < e /\ e <= f.epoch
      BY DEF Keeps, Staged
    <3>2. acked[p] < e
      BY <2>4, <3>1 DEF Epoch
    <3>3. PICK f \in outbox[p] \cup Staged(p) : f.base < e /\ e <= f.epoch
      BY <2>5, <3>1, <3>2 DEF Keeps, Staged
    <3>4. f.epoch \in Nat
      BY <3>3, FramesTyped DEF Frame, Epoch
    <3>5. f.epoch > acked'[p]
      BY <2>4, <3>1, <3>3, <3>4 DEF Epoch
    <3> QED  BY <2>2, <3>3, <3>5
  <2> QED  BY <1>1, <1>2, <2>1, <2>6
<1>8. CASE Restart(p)
  BY <1>2, <1>8 DEF Restart
<1> QED  BY <1>3, <1>4, <1>5, <1>6, <1>7, <1>8 DEF Step, Tick, Elsewhere

(***************************************************************************)
(* What is in flight.                                                      *)
(***************************************************************************)
LEMMA ArrivingKept ==
  ASSUME NEW s \in Seq(Message), NEW last \in Nat, NEW top \in Nat, Arriving(s, last, top)
  PROVE  /\ \A m \in Message :
              (IsFrame(m) => m.epoch <= top /\ (m.kind = "snapshot" => m.epoch = top /\ last <= top))
              => Arriving(Append(s, m), last, top)
         /\ s # <<>> => Arriving(Tail(s), last, top)
         /\ s # <<>> /\ IsFrame(Head(s)) => Arriving(Tail(s), Head(s).epoch, top)
         /\ \A t \in Nat : top <= t => Arriving(s, last, t)
<1>0. \A i \in DOMAIN s : s[i] \in Message /\ s[i].epoch \in Nat
  BY ElementOfSeq, LenProperties, MessageKinds
<1>1. ASSUME NEW m \in Message,
             IsFrame(m) => m.epoch <= top /\ (m.kind = "snapshot" => m.epoch = top /\ last <= top)
      PROVE  Arriving(Append(s, m), last, top)
  <2> DEFINE a == Append(s, m)
  <2>1. /\ DOMAIN s = 1..Len(s) /\ DOMAIN a = 1 .. Len(s) + 1 /\ Len(s) \in Nat
        /\ \A i \in DOMAIN s : a[i] = s[i]
        /\ a[Len(s) + 1] = m
    BY Appended
  <2> HIDE DEF a
  <2>2. \A i \in DOMAIN a : i \in DOMAIN s \/ i = Len(s) + 1
    BY <2>1
  <2>3. \A i \in DOMAIN s, j \in DOMAIN a : j < i => j \in DOMAIN s
    BY <2>1
  <2>4. \A j \in DOMAIN a : j < Len(s) + 1 => j \in DOMAIN s
    BY <2>1
  <2>5. SUFFICES ASSUME NEW i \in DOMAIN a, IsFrame(a[i])
        PROVE  /\ a[i].epoch <= top
               /\ a[i].kind = "snapshot" =>
                    /\ last <= a[i].epoch
                    /\ \A j \in DOMAIN a : j < i /\ IsFrame(a[j]) => a[j].epoch <= a[i].epoch
    BY DEF Arriving, a
  <2>6. CASE i \in DOMAIN s
    BY <2>1, <2>3, <2>5, <2>6 DEF Arriving
  <2>7. CASE i = Len(s) + 1
    BY <1>1, <2>1, <2>4, <2>5, <2>7 DEF Arriving
  <2> QED  BY <2>2, <2>5, <2>6, <2>7
<1>2. ASSUME s # <<>>, NEW l \in Nat, l = last \/ (l = Head(s).epoch /\ IsFrame(Head(s)))
      PROVE  Arriving(Tail(s), l, top)
  <2>1. /\ Head(s) = s[1] /\ 1 \in DOMAIN s /\ DOMAIN s = 1..Len(s)
        /\ DOMAIN Tail(s) = 1 .. Len(s) - 1 /\ Len(s) \in Nat
        /\ \A i \in DOMAIN Tail(s) : i + 1 \in DOMAIN s /\ Tail(s)[i] = s[i + 1]
    BY <1>2, Shortened
  <2>2. \A i, j \in DOMAIN Tail(s) : j < i => j + 1 < i + 1
    BY <2>1
  <2>3. \A i \in DOMAIN Tail(s) : 1 < i + 1
    BY <2>1
  <2>4. SUFFICES ASSUME NEW i \in DOMAIN Tail(s), IsFrame(s[i + 1])
        PROVE  /\ s[i + 1].epoch <= top
               /\ s[i + 1].kind = "snapshot" =>
                    /\ l <= s[i + 1].epoch
                    /\ \A j \in DOMAIN Tail(s) :
                         j < i /\ IsFrame(s[j + 1]) => s[j + 1].epoch <= s[i + 1].epoch
    BY <2>1 DEF Arriving
  <2> QED  BY <1>2, <2>1, <2>2, <2>3, <2>4 DEF Arriving
<1>3. s # <<>> => Head(s).epoch \in Nat
  BY <1>0, Shortened
<1>4. ASSUME NEW t \in Nat, top <= t PROVE Arriving(s, last, t)
  BY <1>0, <1>4 DEF Arriving
<1> QED  BY <1>1, <1>2, <1>3, <1>4

LEMMA AnsweringKept ==
  ASSUME NEW s \in Seq(Message), NEW last \in Nat, Answering(s, last)
  PROVE  /\ \A m \in Message : (m.kind = "ack" => m.epoch <= last) => Answering(Append(s, m), last)
         /\ s # <<>> => Answering(Tail(s), last) /\ (Head(s).kind = "ack" => Head(s).epoch <= last)
         /\ \A l \in Nat : last <= l => Answering(s, l)
<1>0. \A i \in DOMAIN s : s[i] \in Message /\ s[i].epoch \in Nat
  BY ElementOfSeq, LenProperties, MessageKinds
<1>1. ASSUME NEW m \in Message, m.kind = "ack" => m.epoch <= last
      PROVE  Answering(Append(s, m), last)
  <2> DEFINE a == Append(s, m)
  <2>1. /\ DOMAIN s = 1..Len(s) /\ DOMAIN a = 1 .. Len(s) + 1 /\ Len(s) \in Nat
        /\ \A i \in DOMAIN s : a[i] = s[i]
        /\ a[Len(s) + 1] = m
    BY Appended
  <2> HIDE DEF a
  <2>2. \A i \in DOMAIN a : i \in DOMAIN s \/ i = Len(s) + 1
    BY <2>1
  <2>3. Answering(a, last)
    BY <1>1, <2>1, <2>2 DEF Answering
  <2> QED  BY <2>3 DEF a
<1>2. ASSUME s # <<>>
      PROVE  Answering(Tail(s), last) /\ (Head(s).kind = "ack" => Head(s).epoch <= last)
  BY <1>2, Shortened DEF Answering
<1>3. ASSUME NEW l \in Nat, last <= l PROVE Answering(s, l)
  BY <1>0, <1>3 DEF Answering
<1> QED  BY <1>1, <1>2, <1>3

\* A step takes at most one message from the channel towards the host, and puts
\* at most one in the other: a delta of the host's past, a snapshot of its
\* present, an ack of its cursor, or a request.
Sendable(p, m) ==
  /\ IsFrame(m) => m.epoch <= version[p] /\ (m.kind = "snapshot" => m.epoch = version[p])
  /\ m.kind = "ack" => m.epoch = driver[p].lastEpoch

LEMMA Transit ==
  ASSUME TypeOK, Sending, NEW p \in Peer, Step(p)
  PROVE  /\ chan'[p] = chan[p] \/ chan'[p] = <<>> \/ (chan[p] # <<>> /\ chan'[p] = Tail(chan[p]))
         /\ \/ chan'[Other(p)] = chan[Other(p)] \/ chan'[Other(p)] = <<>>
            \/ \E m \in Message : Sendable(p, m) /\ chan'[Other(p)] = Append(chan[Other(p)], m)
<1> USE TypeFacts, TwoHosts
<1> DEFINE Took == chan[p] # <<>> /\ chan'[p] = Tail(chan[p])
           Gave == \E m \in Message :
                     Sendable(p, m) /\ chan'[Other(p)] = Append(chan[Other(p)], m)
<1>1. \A m : Sent(p, m) => chan'[p] = chan[p] /\ chan'[Other(p)] = Append(chan[Other(p)], m)
  BY DEF Sent
<1>2. Rest(p)[p] = Tail(chan[p]) /\ Rest(p)[Other(p)] = chan[Other(p)]
  BY DEF Rest
<1>3. \A m : Replied(p, m) => /\ chan'[p] = Tail(chan[p])
                              /\ \/ chan'[Other(p)] = chan[Other(p)]
                                 \/ chan'[Other(p)] = Append(chan[Other(p)], m)
  BY DEF Replied, Rest
<1>4. CASE Enqueue(p) \/ OnReconnect(p) \/ TickBegin(p) \/ ReceiveRaises(p) \/ Reestablish
  BY <1>4 DEF Enqueue, OnReconnect, TickBegin, ReceiveRaises, Reestablish
<1>5. CASE ReceiveAck(p) \/ ReceiveApplied(p) \/ ReceiveIgnored(p) \/ Drop(p)
  BY <1>2, <1>5 DEF ReceiveAck, ReceiveApplied, ReceiveIgnored, Drop, Receives
<1>6. CASE Break \/ Restart(p)
  BY <1>6 DEF Break, Restart, Disconnected
<1>7. CASE Replay(p)
  <2> DEFINE f == Oldest(driver[p].replaying)
  <2>1. f \in driver[p].replaying /\ f \in Frame
    <3>1. driver[p].replaying # {} /\ driver[p].replaying \subseteq Frame
      BY <1>7 DEF Replay, Replays, Driver
    <3> QED  BY <3>1, OldestIsOne
  <2>2. f.kind = "delta" /\ f.epoch <= version[p]
    BY <2>1 DEF Sending
  <2>3. Sendable(p, f) /\ f \in Message
    BY <2>1, <2>2 DEF Sendable, Message
  <2>4. Sent(p, f) \/ UNCHANGED chan
    BY <1>7 DEF Replay, SendFails
  <2> HIDE DEF f
  <2> QED  BY <1>1, <2>3, <2>4
<1>8. CASE Drain(p)
  <2> DEFINE f == Head(driver[p].pending)
  <2>1. f \in Staged(p) /\ f \in Frame
    BY <1>8, FirstDrained, Shortened DEF Driver
  <2>2. f.kind = "delta" /\ f.epoch <= version[p]
    BY <2>1 DEF Sending
  <2>3. Sendable(p, f) /\ f \in Message
    BY <2>1, <2>2 DEF Sendable, Message
  <2>4. Sent(p, f) \/ UNCHANGED chan
    BY <1>8 DEF Drain, SendFails
  <2> HIDE DEF f
  <2> QED  BY <1>1, <2>3, <2>4
<1>9. CASE ReceiveRequest(p)
  <2>1. Sendable(p, Snapshot(version[p])) /\ Snapshot(version[p]) \in Message
    <3>1. version[p] \in Nat /\ version[p] \in Epoch
      BY DEF Epoch
    <3>2. Snapshot(version[p]).kind = "snapshot" /\ Snapshot(version[p]).epoch = version[p]
      BY DEF Snapshot
    <3>3. Snapshot(version[p]) \in Message
      BY <3>1, MessagesMade
    <3> QED  BY <3>1, <3>2, <3>3 DEF Sendable
  <2>2. chan[p] # <<>> /\ Replied(p, Snapshot(version[p]))
    BY <1>9 DEF ReceiveRequest, Receives
  <2> QED  BY <1>3, <2>1, <2>2
<1>10. CASE ReceiveGap(p)
  <2> DEFINE m == ResyncRequest(driver[p].lastEpoch)
  <2>1. Sendable(p, m) /\ m \in Message
    BY MessagesMade DEF ResyncRequest, Sendable, IsFrame, Driver
  <2>2. chan[p] # <<>> /\ Replied(p, m)
    BY <1>10 DEF ReceiveGap, Receives
  <2> QED  BY <1>3, <2>1, <2>2
<1>11. CASE TickEnd(p)
  <2> DEFINE m == OutboxAck(driver[p].lastEpoch)
  <2>1. Sendable(p, m) /\ m \in Message
    BY MessagesMade DEF OutboxAck, Sendable, IsFrame, Driver
  <2>2. Sent(p, m) \/ UNCHANGED chan
    BY <1>11 DEF TickEnd
  <2> QED  BY <1>1, <2>1, <2>2
<1> QED
  BY <1>4, <1>5, <1>6, <1>7, <1>8, <1>9, <1>10, <1>11 DEF Step, Tick, Elsewhere

\* The steps that fold nothing.
FoldsNothing(p) ==
  \/ Enqueue(p) \/ OnReconnect(p) \/ Replay(p) \/ Drain(p) \/ ReceiveAck(p) \/ ReceiveRequest(p)
  \/ ReceiveGap(p) \/ ReceiveIgnored(p) \/ Drop(p) \/ Break \/ Reestablish

LEMMA ReceiverLeft ==
  ASSUME TypeOK, NEW p \in Peer, FoldsNothing(p), NEW q \in Peer
  PROVE  /\ driver'[q].lastEpoch = driver[q].lastEpoch
         /\ driver'[q].ticking = driver[q].ticking /\ driver'[q].applied = driver[q].applied
<1> USE TypeFacts
<1>1. CASE Enqueue(p)
  <2>1. PICK e : \E f \in {Delta(version[p], e), Snapshot(e)} :
                   driver' = [driver EXCEPT ![p].pending = Append(@, f)]
    BY <1>1 DEF Enqueue
  <2>2. PICK f : driver' = [driver EXCEPT ![p].pending = Append(@, f)]
    BY <2>1
  <2> QED  BY <2>2 DEF Driver
<1>2. CASE OnReconnect(p)
  BY <1>2 DEF OnReconnect, Driver
<1>3. CASE Replay(p)
  <2> DEFINE rest == driver[p].replaying \ {Oldest(driver[p].replaying)}
  <2>1. \/ driver' = [driver EXCEPT ![p].replaying = rest]
        \/ driver' = [driver EXCEPT ![p].replaying = {}, ![p].replayPending = TRUE,
                                    ![p].stalled = TRUE]
    BY <1>3 DEF Replay
  <2> HIDE DEF rest
  <2>2. CASE driver' = [driver EXCEPT ![p].replaying = rest]
    BY <2>2 DEF Driver
  <2>3. CASE driver' = [driver EXCEPT ![p].replaying = {}, ![p].replayPending = TRUE,
                                      ![p].stalled = TRUE]
    BY <2>3 DEF Driver
  <2> QED  BY <2>1, <2>2, <2>3
<1>4. CASE Drain(p)
  <2> DEFINE rest == Tail(driver[p].pending)
  <2>1. \/ driver' = [driver EXCEPT ![p].pending = rest]
        \/ driver' = [driver EXCEPT ![p].pending = rest, ![p].stalled = TRUE]
    BY <1>4 DEF Drain
  <2> HIDE DEF rest
  <2>2. CASE driver' = [driver EXCEPT ![p].pending = rest]
    BY <2>2 DEF Driver
  <2>3. CASE driver' = [driver EXCEPT ![p].pending = rest, ![p].stalled = TRUE]
    BY <2>3 DEF Driver
  <2> QED  BY <2>1, <2>2, <2>3
<1>5. CASE ReceiveAck(p)
  BY <1>5 DEF ReceiveAck, Driver
<1>6. CASE ReceiveRequest(p)
  BY <1>6 DEF ReceiveRequest, Driver
<1>7. CASE ReceiveGap(p)
  BY <1>7 DEF ReceiveGap, Driver
<1>8. CASE ReceiveIgnored(p) \/ Drop(p) \/ Break \/ Reestablish
  BY <1>8 DEF ReceiveIgnored, Drop, Break, Reestablish
<1> QED  BY <1>1, <1>2, <1>3, <1>4, <1>5, <1>6, <1>7, <1>8 DEF FoldsNothing

\* A cursor moves when a frame is applied, to that frame and never back, or when
\* its host resumes from what it saved; what is saved is a cursor it had.
LEMMA CursorMoves ==
  ASSUME TypeOK, Receivable, NEW p \in Peer, Step(p), NEW q \in Peer
  PROVE  \/ driver'[q].lastEpoch = driver[q].lastEpoch /\ restarted \subseteq restarted'
         \/ /\ q = p /\ chan[q] # <<>> /\ IsFrame(Head(chan[q])) /\ chan'[q] = Tail(chan[q])
            /\ driver'[q].lastEpoch = Head(chan[q]).epoch
            /\ driver[q].lastEpoch <= driver'[q].lastEpoch /\ restarted \subseteq restarted'
         \/ /\ q = p /\ chan'[q] = <<>> /\ driver'[q].lastEpoch = saved[q].epoch
            /\ restarted' = restarted \cup {q}
<1> USE TypeFacts
<1>1. CASE ReceiveApplied(p)
  <2> DEFINE f == Head(chan[p])
  <2>1. chan[p] # <<>> /\ f \in Frame /\ IsFrame(f) /\ Applies(driver[p], f)
    BY <1>1, Shortened, MessageKinds DEF ReceiveApplied, Receives, Message
  <2>2. /\ driver'[p].lastEpoch = f.epoch /\ chan'[p] = Tail(chan[p])
        /\ \A r \in Peer \ {p} : driver'[r] = driver[r]
        /\ restarted' = restarted
    BY <1>1 DEF ReceiveApplied, Rest, Driver, faultVars
  <2>3. f.kind = "snapshot" => driver[p].lastEpoch <= f.epoch
    BY <2>1, Shortened DEF Receivable, Arriving
  <2>4. f.kind # "snapshot" => driver[p].lastEpoch <= f.epoch
    <3>1. f.epoch \in Nat /\ f.base \in Nat /\ driver[p].lastEpoch \in Nat
      BY <2>1 DEF Frame, Epoch, Driver
    <3> QED  BY <2>1, <3>1 DEF Applies
  <2> QED  BY <2>1, <2>2, <2>3, <2>4
<1>2. CASE Restart(p)
  <2>1. driver'[p].lastEpoch = saved[p].epoch /\ \A r \in Peer \ {p} : driver'[r] = driver[r]
    BY <1>2 DEF Restart, NewDriver
  <2> QED  BY <1>2, <2>1 DEF Restart, Disconnected
<1>3. CASE ~ReceiveApplied(p) /\ ~Restart(p)
  <2>1. driver'[q].lastEpoch = driver[q].lastEpoch
    <3>1. CASE FoldsNothing(p)
      BY <3>1, ReceiverLeft
    <3>2. CASE TickBegin(p)
      BY <3>2 DEF TickBegin, Driver
    <3>3. CASE ReceiveRaises(p)
      BY <3>3 DEF ReceiveRaises, Driver
    <3>4. CASE TickEnd(p)
      BY <3>4 DEF TickEnd, Driver
    <3> QED  BY <1>3, <3>1, <3>2, <3>3, <3>4 DEF Step, Tick, Elsewhere, FoldsNothing
  <2>2. restarted' = restarted
    BY <1>3 DEF Step, Tick, Elsewhere, Enqueue, OnReconnect, TickBegin, Replay, Drain, ReceiveAck,
                ReceiveRequest, ReceiveGap, ReceiveIgnored, ReceiveRaises, TickEnd, Drop, Break,
                Reestablish, faultVars
  <2> QED  BY <2>1, <2>2
<1> QED  BY <1>1, <1>2, <1>3

\* Versions only grow, and what is saved is a cursor the host has or had.
LEMMA VersionsGrow ==
  ASSUME Enqueued \subseteq {"delta"}, TypeOK, NEW p \in Peer, Step(p), NEW q \in Peer
  PROVE  /\ version[q] <= version'[q]
         /\ saved'[q].epoch = saved[q].epoch \/ saved'[q].epoch = driver[q].lastEpoch
<1> USE TypeFacts
<1>0. version[q] \in Nat
  BY DEF Epoch
<1>1. CASE Enqueue(p)
  <2>1. version[p] < version'[p] /\ (q # p => version'[q] = version[q])
    BY <1>1, DeltaEnqueued
  <2>2. version'[p] \in Nat /\ version[p] \in Nat
    BY <1>1, DeltaEnqueued DEF Epoch
  <2> QED  BY <1>0, <1>1, <2>1, <2>2 DEF Enqueue
<1>2. CASE TickEnd(p)
  <2>1. saved'[q] = saved[q] \/ (q = p /\ saved'[q] = Resume(driver[p].lastEpoch, driver[p].applied))
    BY <1>2 DEF TickEnd
  <2>2. Resume(driver[p].lastEpoch, driver[p].applied).epoch = driver[p].lastEpoch
    BY DEF Resume
  <2>3. version' = version
    BY <1>2 DEF TickEnd
  <2> QED  BY <1>0, <2>1, <2>2, <2>3
<1>3. CASE ~Enqueue(p) /\ ~TickEnd(p)
  <2>1. version' = version /\ saved' = saved
    BY <1>3 DEF Step, Tick, Elsewhere, OnReconnect, TickBegin, Replay, Drain, ReceiveAck,
                ReceiveRequest, ReceiveApplied, ReceiveGap, ReceiveIgnored, ReceiveRaises, Drop,
                Break, Reestablish, Restart, hostVars
  <2> QED  BY <1>0, <2>1
<1> QED  BY <1>1, <1>2, <1>3

LEMMA ReceivableHeld ==
  ASSUME Enqueued \subseteq {"delta"}, TypeOK, TypeOK', Sending, Receivable,
         NEW p \in Peer, Step(p)
  PROVE  Receivable'
<1> USE TypeFacts, TwoHosts
<1> SUFFICES ASSUME NEW q \in Peer
    PROVE  /\ driver'[q].lastEpoch <= version'[Other(q)] /\ saved'[q].epoch <= version'[Other(q)]
           /\ Arriving(chan'[q], driver'[q].lastEpoch, version'[Other(q)])
  BY DEF Receivable
<1> DEFINE last == driver[q].lastEpoch
           top == version[Other(q)]
           topN == version'[Other(q)]
<1>1. /\ last \in Nat /\ top \in Nat /\ topN \in Nat /\ top <= topN /\ saved[q].epoch \in Nat
      /\ chan[q] \in Seq(Message)
  <2>1. driver[q].lastEpoch \in Epoch /\ saved[q].epoch \in Epoch /\ version[Other(q)] \in Epoch
        /\ version'[Other(q)] \in Epoch
    BY DEF Driver, TypeOK
  <2> QED  BY <2>1, VersionsGrow DEF Epoch
<1>2. last <= top /\ saved[q].epoch <= top /\ Arriving(chan[q], last, top)
  BY DEF Receivable
<1>3. last <= topN /\ saved'[q].epoch <= topN
  <2>1. saved'[q].epoch = saved[q].epoch \/ saved'[q].epoch = last
    BY VersionsGrow
  <2> HIDE DEF last, top, topN
  <2> QED  BY <1>1, <1>2, <2>1
<1>4. Arriving(chan[q], last, topN)
  BY <1>1, <1>2, ArrivingKept
<1>5. Arriving(<<>>, driver'[q].lastEpoch, topN)
  BY DEF Arriving
<1>6. CASE driver'[q].lastEpoch = last
  <2>1. CASE q = p
    <3>1. chan'[q] = chan[q] \/ chan'[q] = <<>> \/ (chan[q] # <<>> /\ chan'[q] = Tail(chan[q]))
      BY <2>1, Transit
    <3> HIDE DEF last, top, topN
    <3>2. chan[q] # <<>> => Arriving(Tail(chan[q]), last, topN)
      BY <1>1, <1>4, ArrivingKept
    <3> QED  BY <1>3, <1>4, <1>5, <1>6, <3>1, <3>2 DEF topN
  <2>2. CASE q = Other(p)
    <3>0. Other(q) = p
      BY <2>2
    <3>1. \/ chan'[q] = chan[q] \/ chan'[q] = <<>>
          \/ \E m \in Message : Sendable(p, m) /\ chan'[q] = Append(chan[q], m)
      BY <2>2, Transit
    <3> HIDE DEF last
    <3>2. ASSUME NEW m \in Message, Sendable(p, m) PROVE Arriving(Append(chan[q], m), last, topN)
      <4>1. IsFrame(m) => m.epoch <= top /\ (m.kind = "snapshot" => m.epoch = top /\ last <= top)
        BY <1>2, <3>0, <3>2 DEF Sendable
      <4> HIDE DEF top, topN
      <4>2. Arriving(Append(chan[q], m), last, top)
        BY <1>1, <1>2, <4>1, ArrivingKept
      <4>3. Append(chan[q], m) \in Seq(Message)
        BY <1>1, AppendProperties
      <4> QED  BY <1>1, <4>2, <4>3, ArrivingKept
    <3> QED  BY <1>3, <1>4, <1>5, <1>6, <3>1, <3>2
  <2> QED  BY <2>1, <2>2
<1>7. CASE /\ chan[q] # <<>> /\ IsFrame(Head(chan[q])) /\ chan'[q] = Tail(chan[q])
           /\ driver'[q].lastEpoch = Head(chan[q]).epoch
  <2>1. Head(chan[q]).epoch <= topN
    BY <1>4, <1>7, Shortened DEF Arriving
  <2> HIDE DEF topN
  <2>2. Arriving(Tail(chan[q]), Head(chan[q]).epoch, topN)
    BY <1>1, <1>4, <1>7, ArrivingKept
  <2> QED  BY <1>3, <1>7, <2>1, <2>2 DEF topN
<1>8. CASE chan'[q] = <<>> /\ driver'[q].lastEpoch = saved[q].epoch
  BY <1>1, <1>2, <1>3, <1>5, <1>8
<1> QED  BY <1>6, <1>7, <1>8, CursorMoves

LEMMA AnsweredHeld ==
  ASSUME TypeOK, TypeOK', Sending, Receivable, Answered, NEW p \in Peer, Step(p)
  PROVE  Answered'
<1> USE TypeFacts, TwoHosts
<1> SUFFICES ASSUME NEW q \in Peer, Other(q) \notin restarted'
    PROVE  /\ acked'[q] <= driver'[Other(q)].lastEpoch
           /\ Answering(chan'[q], driver'[Other(q)].lastEpoch)
  BY DEF Answered
<1> DEFINE last == driver[Other(q)].lastEpoch
           next == driver'[Other(q)].lastEpoch
<1>1. Other(q) \notin restarted
  BY CursorMoves
<1>2. last \in Nat /\ next \in Nat /\ last <= next
  <2>1. driver[Other(q)].lastEpoch \in Nat
    BY DEF Driver, Epoch
  <2>2. driver'[Other(q)].lastEpoch \in Nat
    BY DEF TypeOK, Epoch
  <2>3. \/ driver'[Other(q)].lastEpoch = driver[Other(q)].lastEpoch
        \/ driver[Other(q)].lastEpoch <= driver'[Other(q)].lastEpoch
        \/ restarted' = restarted \cup {Other(q)}
    BY CursorMoves
  <2> QED  BY <2>1, <2>2, <2>3
<1>3. acked[q] <= last /\ Answering(chan[q], last)
  BY <1>1 DEF Answered
<1>4. acked[q] \in Nat /\ chan[q] \in Seq(Message)
  BY DEF Epoch
<1>5. Answering(chan[q], next)
  BY <1>2, <1>3, <1>4, AnsweringKept
<1>6. acked'[q] <= next
  <2>1. CASE q = p /\ ReceiveAck(p)
    <3>1. chan[q] # <<>> /\ Head(chan[q]).kind = "ack"
          /\ acked'[q] = Larger(Head(chan[q]).epoch, acked[q])
      BY <2>1 DEF ReceiveAck, Receives
    <3>2. Head(chan[q]).epoch <= next
      <4> HIDE DEF next
      <4> QED  BY <1>2, <1>4, <1>5, <3>1, AnsweringKept
    <3> QED  BY <1>2, <1>3, <1>4, <3>1, <3>2 DEF Larger
  <2>2. CASE ~(q = p /\ ReceiveAck(p))
    <3>1. acked'[q] = acked[q]
      BY <2>2 DEF Step, Tick, Elsewhere, Enqueue, OnReconnect, TickBegin, Replay, Drain, ReceiveAck,
                ReceiveRequest, ReceiveApplied, ReceiveGap, ReceiveIgnored, ReceiveRaises, TickEnd,
                Drop, Break, Reestablish, Restart, outboxVars
    <3> QED  BY <1>2, <1>3, <1>4, <3>1
  <2> QED  BY <2>1, <2>2
<1>7. Answering(<<>>, next)
  BY DEF Answering
<1>8. CASE q = p
  <2>1. chan'[q] = chan[q] \/ chan'[q] = <<>> \/ (chan[q] # <<>> /\ chan'[q] = Tail(chan[q]))
    BY <1>8, Transit
  <2> HIDE DEF next
  <2>2. chan[q] # <<>> => Answering(Tail(chan[q]), next)
    BY <1>2, <1>4, <1>5, AnsweringKept
  <2> QED  BY <1>5, <1>6, <1>7, <2>1, <2>2 DEF next
<1>9. CASE q = Other(p)
  <2>0. Other(q) = p
    BY <1>9
  <2>1. \/ chan'[q] = chan[q] \/ chan'[q] = <<>>
        \/ \E m \in Message : Sendable(p, m) /\ chan'[q] = Append(chan[q], m)
    BY <1>9, Transit
  <2>2. ASSUME NEW m \in Message, Sendable(p, m) PROVE Answering(Append(chan[q], m), next)
    <3>1. m.kind = "ack" => m.epoch <= next
      BY <1>2, <2>0, <2>2 DEF Sendable
    <3> HIDE DEF next
    <3> QED  BY <1>2, <1>4, <1>5, <3>1, AnsweringKept
  <2> QED  BY <1>5, <1>6, <1>7, <2>1, <2>2
<1> QED  BY <1>8, <1>9

(***************************************************************************)
(* The projection.                                                         *)
(***************************************************************************)
LEMMA ProjectedHeld ==
  ASSUME TypeOK, TypeOK', Receivable, Projected, NEW p \in Peer, Step(p)
  PROVE  Projected'
<1> USE TypeFacts
<1> SUFFICES ASSUME NEW q \in Peer, q \notin raised'
    PROVE  /\ saved'[q].folded = 1..saved'[q].epoch
           /\ (IF ~driver'[q].ticking THEN folded'[q] ELSE driver'[q].applied)
                = 1..driver'[q].lastEpoch
  BY DEF Projected, Idle
<1>1. q \notin raised
  BY DEF Step, Tick, Elsewhere, Enqueue, OnReconnect, TickBegin, Replay, Drain, ReceiveAck,
         ReceiveRequest, ReceiveApplied, ReceiveGap, ReceiveIgnored, ReceiveRaises, TickEnd, Drop,
         Break, Reestablish, Restart, faultVars
<1>2. /\ saved[q].folded = 1..saved[q].epoch
      /\ (IF ~driver[q].ticking THEN folded[q] ELSE driver[q].applied) = 1..driver[q].lastEpoch
  BY <1>1 DEF Projected, Idle
<1>3. CASE FoldsNothing(p)
  <2>1. saved' = saved /\ folded' = folded
    BY <1>3 DEF FoldsNothing, Enqueue, OnReconnect, Replay, Drain, ReceiveAck, ReceiveRequest,
                ReceiveGap, ReceiveIgnored, Drop, Break, Reestablish, hostVars
  <2> QED  BY <1>2, <1>3, <2>1, ReceiverLeft
<1>4. CASE TickBegin(p)
  <2>1. CASE q = p
    <3>1. ~driver[p].ticking /\ driver'[p].ticking /\ driver'[p].applied = folded[p]
          /\ driver'[p].lastEpoch = driver[p].lastEpoch
      BY <1>4 DEF TickBegin, Idle, Driver
    <3> QED  BY <1>2, <1>4, <2>1, <3>1 DEF TickBegin, hostVars
  <2>2. CASE q # p
    BY <1>2, <1>4, <2>2 DEF TickBegin, hostVars
  <2> QED  BY <2>1, <2>2
<1>5. CASE ReceiveApplied(p)
  <2>0. saved' = saved /\ folded' = folded
    BY <1>5 DEF ReceiveApplied, hostVars
  <2>1. CASE q = p
    <3> DEFINE f == Head(chan[p])
    <3>1. driver[p].ticking /\ driver'[p].ticking
          /\ driver'[p].applied = Fold(driver[p].applied, f) /\ driver'[p].lastEpoch = f.epoch
      BY <1>5 DEF ReceiveApplied, Receives, Receiving, Driver
    <3>2. f.kind = "snapshot" \/ (f.base = driver[p].lastEpoch /\ f.epoch >= f.base + 1)
      BY <1>5 DEF ReceiveApplied, Applies
    <3>3. f.base \in Nat /\ f.epoch \in Nat
      BY <1>5 DEF ReceiveApplied, Frame, Epoch
    <3>4. driver[p].applied = 1..driver[p].lastEpoch
      BY <1>2, <2>1, <3>1
    <3> HIDE DEF f
    <3>5. Fold(driver[p].applied, f) = 1..f.epoch
      <4>1. CASE f.kind = "snapshot"
        BY <4>1 DEF Fold
      <4>2. CASE f.kind # "snapshot"
        <5>1. Fold(driver[p].applied, f) = 1..f.base \cup (f.base + 1 .. f.epoch)
          BY <3>2, <3>4, <4>2 DEF Fold
        <5>2. f.base <= f.epoch
          BY <3>2, <3>3, <4>2
        <5> QED  BY <3>3, <5>1, <5>2
      <4> QED  BY <4>1, <4>2
    <3> QED  BY <1>2, <2>0, <2>1, <3>1, <3>5
  <2>2. CASE q # p
    BY <1>2, <1>5, <2>0, <2>2 DEF ReceiveApplied
  <2> QED  BY <2>1, <2>2
<1>6. CASE ReceiveRaises(p)
  <2>1. q # p /\ driver'[q] = driver[q]
    BY <1>6 DEF ReceiveRaises
  <2> QED  BY <1>2, <1>6, <2>1 DEF ReceiveRaises, hostVars
<1>7. CASE TickEnd(p)
  <2>1. CASE q = p
    <3>1. /\ driver[p].ticking /\ ~driver'[p].ticking
          /\ driver'[p].lastEpoch = driver[p].lastEpoch
          /\ folded'[p] = driver[p].applied
      BY <1>7 DEF TickEnd, Receiving, Driver
    <3>2. saved'[p] = saved[p] \/ saved'[p] = Resume(driver[p].lastEpoch, driver[p].applied)
      BY <1>7 DEF TickEnd
    <3>3. driver[p].applied = 1..driver[p].lastEpoch
      BY <1>2, <2>1, <3>1
    <3> QED  BY <1>2, <2>1, <3>1, <3>2, <3>3 DEF Resume
  <2>2. CASE q # p
    <3>1. saved'[q] = saved[q] /\ folded'[q] = folded[q] /\ driver'[q] = driver[q]
      BY <1>7, <2>2 DEF TickEnd
    <3> QED  BY <1>2, <3>1
  <2> QED  BY <2>1, <2>2
<1>8. CASE Restart(p)
  <2>1. CASE q = p
    <3>1. /\ ~driver'[p].ticking /\ driver'[p].lastEpoch = saved[p].epoch
          /\ folded'[p] = saved[p].folded /\ saved' = saved
      BY <1>8 DEF Restart, NewDriver
    <3> QED  BY <1>2, <2>1, <3>1
  <2>2. CASE q # p
    BY <1>2, <1>8, <2>2 DEF Restart
  <2> QED  BY <2>1, <2>2
<1> QED  BY <1>3, <1>4, <1>5, <1>6, <1>7, <1>8 DEF Step, Tick, Elsewhere, FoldsNothing

(***************************************************************************)
(* The theorems.                                                           *)
(***************************************************************************)
LEMMA InvariantInit == Init => IInv
<1> SUFFICES ASSUME Init PROVE IInv
  OBVIOUS
<1>1. TypeOK
  BY TypeInit
<1>2. \A p \in Peer :
        /\ version[p] = 0 /\ outbox[p] = {} /\ acked[p] = 0 /\ folded[p] = {}
        /\ driver[p] = NewDriver(0, {}) /\ chan[p] = <<>> /\ saved[p] = Resume(0, {})
  BY DEF Init
<1>3. \A p \in Peer :
        /\ driver[p].pending = <<>> /\ driver[p].replaying = {} /\ driver[p].lastEpoch = 0
        /\ ~driver[p].ticking /\ saved[p].epoch = 0 /\ saved[p].folded = {}
  <2>1. /\ NewDriver(0, {}).pending = <<>> /\ NewDriver(0, {}).replaying = {}
        /\ NewDriver(0, {}).lastEpoch = 0 /\ NewDriver(0, {}).ticking = FALSE
    BY DEF NewDriver
  <2>2. Resume(0, {}).epoch = 0 /\ Resume(0, {}).folded = {}
    BY DEF Resume
  <2> QED  BY <1>2, <2>1, <2>2
<1>4. Sending /\ Retained
  <2>0. DOMAIN <<>> = {}
    OBVIOUS
  <2>2. \A p \in Peer : Staged(p) = {} /\ DOMAIN driver[p].pending = {}
    BY <1>3, <2>0 DEF Staged
  <2>1. \A p \in Peer : outbox[p] \cup Staged(p) \cup driver[p].replaying = {}
    BY <1>2, <1>3, <2>2
  <2>3. Sending
    BY <2>1, <2>2 DEF Sending
  <2> QED  BY <1>2, <2>3, BoundsAssumption DEF Retained, Epoch
<1>5. Receivable /\ Answered
  BY <1>2, <1>3, TwoHosts DEF Receivable, Answered, Arriving, Answering
<1>6. Projected
  <2>1. 1..0 = {}
    OBVIOUS
  <2> QED  BY <1>2, <1>3, <2>1 DEF Projected, Idle
<1> QED  BY <1>1, <1>4, <1>5, <1>6 DEF IInv

LEMMA InvariantHeld ==
  ASSUME Enqueued \subseteq {"delta"}, IInv, [Next]_vars
  PROVE  IInv'
<1>1. TypeOK'
  BY TypeStep DEF IInv
<1>2. CASE UNCHANGED vars
  BY <1>1, <1>2 DEF IInv, Sending, Retained, Receivable, Answered, Projected, Staged, Idle,
                    vars, hostVars, outboxVars, link, faultVars
<1>3. CASE Next
  <2>1. PICK p \in Peer : Step(p)
    BY <1>3, EveryStep
  <2> QED  BY <1>1, <2>1, SendingHeld, RetainedHeld, ReceivableHeld, AnsweredHeld, ProjectedHeld
           DEF IInv
<1> QED  BY <1>2, <1>3

\* An epoch past the peer's cursor is past the ack cursor, and what is past it is
\* covered.
LEMMA IntactWhenHeld == IInv => StreamIntact
<1> SUFFICES ASSUME IInv PROVE StreamIntact
  OBVIOUS
<1> USE TypeFacts DEF IInv
<1>1. PrunedIsApplied
  BY DEF PrunedIsApplied, Answered
<1>2. CursorIsFolded
  BY DEF CursorIsFolded, Projected
<1>3. ASSUME restarted = {}, NEW p \in Peer,
             NEW e \in driver[Other(p)].lastEpoch + 1 .. version[p]
      PROVE  e \in Covered(outbox[p] \cup Staged(p))
  <2>1. /\ acked[p] \in Nat /\ driver[Other(p)].lastEpoch \in Nat /\ version[p] \in Epoch
        /\ acked[p] <= driver[Other(p)].lastEpoch
    BY <1>3, TwoHosts DEF Answered, Driver, Epoch
  <2>2. e \in Epoch /\ acked[p] < e /\ e <= version[p]
    BY <1>3, <2>1, BoundsAssumption DEF Epoch
  <2>3. PICK f \in outbox[p] \cup Staged(p) : f.base < e /\ e <= f.epoch
    BY <1>3, <2>2 DEF Retained
  <2>4. f.base \in Nat /\ f.epoch \in Nat
    BY <2>3, FramesTyped DEF Frame, Epoch
  <2>5. e \in f.base + 1 .. f.epoch
    BY <2>2, <2>3, <2>4 DEF Epoch
  <2> QED  BY <2>3, <2>5 DEF Covered
<1>4. NothingLost
  BY <1>3 DEF NothingLost
<1> QED  BY <1>1, <1>2, <1>4 DEF StreamIntact

\* Every variable stays in its type: cursors and versions are epochs, channels and
\* pending queues are sequences of messages, whichever frames the hosts enqueue.
THEOREM TypeCorrect == Spec => []TypeOK
<1>1. TypeOK /\ [Next]_vars => TypeOK'
  BY TypeStep
<1> QED  BY <1>1, TypeInit, PTL DEF Spec

\* For any number of epochs and faults of every kind, as long as the hosts
\* enqueue deltas: no epoch the peer has not applied is lost unless a host
\* crashed, the cursor a host advertises is what it has folded unless a read
\* raised, and nothing is pruned before the peer applied it (SyncDriver.tick,
\* Outbox.ack_through, ResyncCoordinator.ingest).
THEOREM StreamStaysIntact ==
  ASSUME Enqueued \subseteq {"delta"}
  PROVE  Spec => []StreamIntact
<1>1. IInv /\ [Next]_vars => IInv'
  BY InvariantHeld
<1>2. Spec => []IInv
  BY <1>1, InvariantInit, PTL DEF Spec
<1> QED  BY <1>2, IntactWhenHeld, PTL

\* No replay, retransmission or late snapshot moves the cursor of a host that
\* stays up back to an earlier epoch (ResyncCoordinator.ingest).
THEOREM CursorNeverRewinds ==
  ASSUME Enqueued \subseteq {"delta"}
  PROVE  Spec => CursorAdvances
<1>1. IInv /\ [Next]_vars => IInv'
  BY InvariantHeld
<1>2. ASSUME IInv, [Next]_vars
      PROVE  [\A p \in Peer \ restarted' : driver'[p].lastEpoch >= driver[p].lastEpoch]_vars
  <2>1. CASE UNCHANGED vars
    BY <2>1
  <2>2. CASE Next
    <3>1. PICK p \in Peer : Step(p)
      BY <2>2, EveryStep
    <3>2. ASSUME NEW q \in Peer, q \notin restarted'
          PROVE  driver'[q].lastEpoch >= driver[q].lastEpoch
      <4>1. driver[q].lastEpoch \in Nat
        BY <1>2, TypeFacts DEF IInv, Driver, Epoch
      <4>2. driver'[q].lastEpoch \in Nat
        <5>1. TypeOK'
          BY <1>2, TypeStep DEF IInv
        <5> QED  BY <5>1 DEF TypeOK, Epoch
      <4>3. \/ driver'[q].lastEpoch = driver[q].lastEpoch
            \/ driver[q].lastEpoch <= driver'[q].lastEpoch
            \/ restarted' = restarted \cup {q}
        BY <1>2, <3>1, CursorMoves DEF IInv
      <4> QED  BY <3>2, <4>1, <4>2, <4>3
    <3> QED  BY <3>2
  <2> QED  BY <1>2, <2>1, <2>2
<1> QED  BY <1>1, <1>2, InvariantInit, PTL DEF Spec, CursorAdvances

===============================================================================
