----------------------------- MODULE ReliableSync -----------------------------
(***************************************************************************)
(* The reliable-sync protocol of lazily-py (reliable_sync.py): two hosts,  *)
(* each with a SyncDriver, its ResyncCoordinator and its durable outbox,   *)
(* over a transport that may drop a frame or break, and hosts that may     *)
(* crash.                                                                  *)
(*                                                                         *)
(* One transition is one iteration of a loop of SyncDriver.tick, so the    *)
(* transport may break and a host may crash anywhere inside a tick.  A     *)
(* break loses what is in flight; between breaks frames arrive in order.   *)
(* A host's projection is the set of the peer's epochs folded into it, so  *)
(* a state is right exactly when it is 1..e for some epoch e.              *)
(***************************************************************************)
EXTENDS Naturals, Sequences

CONSTANTS
  Peer,                    \* the two hosts
  Writer,                  \* those whose host enqueues frames
  Enqueued,                \* the kinds of frame they enqueue
  MaxEpoch,                \* bound: epochs a host reaches
  MaxSpan,                 \* bound: epochs one delta spans
  Faults, MaxFaults        \* the kinds of fault that happen; bound: how many

ASSUME PeerAssumption == (\E p, q \in Peer : p # q /\ Peer = {p, q}) /\ Writer \subseteq Peer
ASSUME BoundsAssumption ==
  /\ Enqueued \subseteq {"delta", "snapshot"}
  /\ MaxEpoch \in Nat /\ MaxSpan \in Nat \ {0}
  /\ Faults \subseteq {"break", "drop", "raise", "restart"} /\ MaxFaults \in Nat

VARIABLES
  version,   \* the epoch of each host's own state (durable)
  folded,    \* the peer's epochs each host has folded into its projection
  saved,     \* what each host made durable: its cursor and its projection
  outbox,    \* retained frames (durable)
  acked,     \* the outbox's ack cursor (durable)
  driver,    \* SyncDriver and ResyncCoordinator (in memory)
  chan,      \* frames in flight towards each host
  up,        \* the transport is connected
  cut,       \* the hosts that have yet to signal on_reconnect
  dropped,   \* a frame was lost on the present connection
  faults,    \* how many faults there were
  restarted, \* the hosts that crashed
  raised     \* the hosts one of whose reads raised

outboxVars == <<outbox, acked>>
hostVars == <<version, folded, saved>>
link == <<up, cut, dropped>>
faultVars == <<faults, restarted, raised>>
vars == <<hostVars, outboxVars, driver, chan, link, faultVars>>

Epoch == 0..MaxEpoch
Frame == [kind : {"delta", "snapshot"}, base : Epoch, epoch : Epoch]
Control == [kind : {"request", "ack"}, epoch : Epoch]
Message == Frame \cup Control

Delta(b, e) == [kind |-> "delta", base |-> b, epoch |-> e]
Snapshot(e) == [kind |-> "snapshot", base |-> 0, epoch |-> e]
ResyncRequest(e) == [kind |-> "request", epoch |-> e]
OutboxAck(e) == [kind |-> "ack", epoch |-> e]

Other(p) == CHOOSE q \in Peer : q # p
Larger(a, b) == IF a < b THEN b ELSE a

\* A driver whose receiver has applied through e (SyncDriver.with_epoch).
\* In a tick, replaying is what is left to re-send and applied is the projection
\* that folding Progress.applied will give.
NewDriver(e, projection) ==
  [pending |-> <<>>, lastEpoch |-> e, resyncing |-> FALSE, peerAcked |-> 0,
   ackOwed |-> FALSE, replayPending |-> FALSE, stalled |-> FALSE,
   ticking |-> FALSE, replaying |-> {}, applied |-> projection]

Resume(e, projection) == [epoch |-> e, folded |-> projection]

\* The step a tick is in follows from what it has left to do.
Idle(p) == ~driver[p].ticking
Replays(p) == driver[p].ticking /\ driver[p].replaying # {}
Drains(p) ==
  driver[p].ticking /\ driver[p].replaying = {} /\ ~driver[p].stalled /\ driver[p].pending # <<>>
Receiving(p) ==
  driver[p].ticking /\ driver[p].replaying = {} /\ (driver[p].stalled \/ driver[p].pending = <<>>)

Init ==
  /\ version = [p \in Peer |-> 0] /\ folded = [p \in Peer |-> {}]
  /\ saved = [p \in Peer |-> Resume(0, {})]
  /\ outbox = [p \in Peer |-> {}] /\ acked = [p \in Peer |-> 0]
  /\ driver = [p \in Peer |-> NewDriver(0, {})]
  /\ chan = [p \in Peer |-> <<>>] /\ up = TRUE /\ cut = {} /\ dropped = FALSE
  /\ faults = 0 /\ restarted = {} /\ raised = {}

\* A fault happens.
Fault(kind) == kind \in Faults /\ faults < MaxFaults /\ faults' = faults + 1

(***************************************************************************)
(* The sink: send returns False exactly when the transport is down.        *)
(***************************************************************************)
Sent(p, m) == up /\ chan' = [chan EXCEPT ![Other(p)] = Append(@, m)]
SendFails == ~up /\ UNCHANGED chan

(***************************************************************************)
(* The host between ticks.                                                 *)
(***************************************************************************)
Enqueue(p) ==
  /\ Idle(p) /\ p \in Writer
  /\ \E e \in version[p] + 1 .. version[p] + MaxSpan :
       /\ e <= MaxEpoch
       /\ version' = [version EXCEPT ![p] = e]
       /\ \E f \in {Delta(version[p], e), Snapshot(e)} :
            /\ f.kind \in Enqueued
            /\ driver' = [driver EXCEPT ![p].pending = Append(@, f)]
  /\ UNCHANGED <<folded, saved, outboxVars, chan, link, faultVars>>

\* Mutant: the stall outlives the reconnect.
OnReconnectStillStalled(p) ==
  /\ Idle(p) /\ up /\ p \in cut
  /\ cut' = cut \ {p}
  /\ driver' = [driver EXCEPT ![p].replayPending = TRUE, ![p].ackOwed = TRUE]
  /\ UNCHANGED <<hostVars, outboxVars, chan, up, dropped, faultVars>>

OnReconnect(p) ==
  /\ Idle(p) /\ up /\ p \in cut
  /\ cut' = cut \ {p}
  /\ driver' = [driver EXCEPT ![p].replayPending = TRUE, ![p].ackOwed = TRUE,
                              ![p].stalled = FALSE]
  /\ UNCHANGED <<hostVars, outboxVars, chan, up, dropped, faultVars>>

(***************************************************************************)
(* SyncDriver.tick, step 1: after a reconnect, replay the unacked suffix,  *)
(* oldest first.                                                           *)
(***************************************************************************)
Unacked(p, cursor) == {f \in outbox[p] : f.epoch > Larger(cursor, acked[p])}
Oldest(F) == CHOOSE f \in F : \A g \in F : f.epoch <= g.epoch

TickBegin(p) ==
  /\ Idle(p)
  /\ driver' = [driver EXCEPT ![p].ticking = TRUE, ![p].replayPending = FALSE,
       ![p].applied = folded[p],
       ![p].replaying = IF driver[p].replayPending THEN Unacked(p, driver[p].peerAcked) ELSE {}]
  /\ UNCHANGED <<hostVars, outboxVars, chan, link, faultVars>>

Replay(p) ==
  /\ Replays(p)
  /\ LET f == Oldest(driver[p].replaying) IN
     \/ /\ Sent(p, f)
        /\ driver' = [driver EXCEPT ![p].replaying = @ \ {f}]
     \/ /\ SendFails
        /\ driver' = [driver EXCEPT ![p].replaying = {}, ![p].replayPending = TRUE,
                                    ![p].stalled = TRUE]
  /\ UNCHANGED <<hostVars, outboxVars, link, faultVars>>

(***************************************************************************)
(* Step 2: append each fresh frame to the outbox, then send it; a sink     *)
(* known to be down is left alone.                                         *)
(***************************************************************************)
Put(p, f) == [outbox EXCEPT ![p] = {g \in @ : g.epoch # f.epoch} \cup {f}]

\* Mutant: a frame is appended only when its send fails.
DrainAppendsFailed(p) ==
  /\ Drains(p)
  /\ LET f == Head(driver[p].pending) IN
     \/ /\ Sent(p, f) /\ driver' = [driver EXCEPT ![p].pending = Tail(@)]
        /\ UNCHANGED outbox
     \/ /\ SendFails /\ driver' = [driver EXCEPT ![p].pending = Tail(@), ![p].stalled = TRUE]
        /\ outbox' = Put(p, f)
  /\ UNCHANGED <<hostVars, acked, link, faultVars>>

Drain(p) ==
  /\ Drains(p)
  /\ LET f == Head(driver[p].pending) IN
     /\ outbox' = Put(p, f)
     /\ \/ Sent(p, f) /\ driver' = [driver EXCEPT ![p].pending = Tail(@)]
        \/ SendFails /\ driver' = [driver EXCEPT ![p].pending = Tail(@), ![p].stalled = TRUE]
  /\ UNCHANGED <<hostVars, acked, link, faultVars>>

(***************************************************************************)
(* Step 3: receive until the source is exhausted.                          *)
(***************************************************************************)
Receives(p) == Receiving(p) /\ chan[p] # <<>>
Rest(p) == [chan EXCEPT ![p] = Tail(@)]

\* A reply goes out behind the message it answers.
Replied(p, m) ==
  IF up THEN chan' = [Rest(p) EXCEPT ![Other(p)] = Append(@, m)] ELSE chan' = Rest(p)

\* Outbox.ack_through saves the cursor when it advances, and prunes.
ReceiveAck(p) ==
  /\ Receives(p) /\ Head(chan[p]).kind = "ack"
  /\ LET e == Head(chan[p]).epoch
         target == Larger(e, acked[p]) IN
     /\ driver' = [driver EXCEPT ![p].peerAcked = Larger(@, e)]
     /\ acked' = [acked EXCEPT ![p] = target]
     /\ outbox' = [outbox EXCEPT ![p] = {f \in @ : f.epoch > target}]
  /\ chan' = Rest(p)
  /\ UNCHANGED <<hostVars, link, faultVars>>

\* The host's SnapshotProvider answers with its present state.
ReceiveRequest(p) ==
  /\ Receives(p) /\ Head(chan[p]).kind = "request"
  /\ Replied(p, Snapshot(version[p]))
  /\ driver' = [driver EXCEPT ![p].stalled = @ \/ ~up]
  /\ UNCHANGED <<hostVars, outboxVars, link, faultVars>>

\* What the host's fold of frame f makes of projection S.
Fold(S, f) == IF f.kind = "snapshot" THEN 1..f.epoch ELSE S \cup (f.base + 1 .. f.epoch)

\* Mutant: a delta behind the cursor is applied.
AppliesBehind(d, f) == f.kind = "snapshot" \/ f.base <= d.lastEpoch

\* ResyncCoordinator.ingest
Applies(d, f) ==
  f.kind = "snapshot" \/ (f.base = d.lastEpoch /\ f.epoch >= f.base + 1)
Gap(d, f) == f.kind = "delta" /\ f.base > d.lastEpoch

ReceiveApplied(p) ==
  /\ Receives(p) /\ Head(chan[p]) \in Frame
  /\ LET f == Head(chan[p]) IN
     /\ Applies(driver[p], f)
     /\ driver' = [driver EXCEPT ![p].lastEpoch = f.epoch, ![p].resyncing = FALSE,
                                 ![p].ackOwed = TRUE, ![p].applied = Fold(@, f)]
  /\ chan' = Rest(p)
  /\ UNCHANGED <<hostVars, outboxVars, link, faultVars>>

ReceiveGap(p) ==
  /\ Receives(p) /\ Head(chan[p]) \in Frame
  /\ Gap(driver[p], Head(chan[p])) /\ ~driver[p].resyncing
  /\ Replied(p, ResyncRequest(driver[p].lastEpoch))
  /\ driver' = [driver EXCEPT ![p].resyncing = TRUE, ![p].stalled = @ \/ ~up]
  /\ UNCHANGED <<hostVars, outboxVars, link, faultVars>>

ReceiveIgnored(p) ==
  /\ Receives(p) /\ Head(chan[p]) \in Frame
  /\ ~Applies(driver[p], Head(chan[p]))
  /\ Gap(driver[p], Head(chan[p])) => driver[p].resyncing
  /\ chan' = Rest(p)
  /\ UNCHANGED <<hostVars, outboxVars, driver, link, faultVars>>

\* A read of a broken transport may raise: tick is left with the cursor
\* advanced and Progress.applied is never returned to the host.
ReceiveRaises(p) ==
  /\ Receiving(p) /\ ~up /\ Fault("raise")
  /\ raised' = raised \cup {p}
  /\ driver' = [driver EXCEPT ![p].ticking = FALSE]
  /\ UNCHANGED <<hostVars, outboxVars, chan, link, restarted>>

\* Step 4, and the host folds what the tick returned; it may make the result
\* durable together with the cursor.
TickEnd(p) ==
  /\ Receiving(p) /\ chan[p] = <<>>
  /\ folded' = [folded EXCEPT ![p] = driver[p].applied]
  /\ \/ saved' = [saved EXCEPT ![p] = Resume(driver[p].lastEpoch, driver[p].applied)]
     \/ UNCHANGED saved
  /\ driver' = [driver EXCEPT ![p].ticking = FALSE, ![p].ackOwed = @ /\ ~up]
  /\ IF driver[p].ackOwed /\ up THEN Sent(p, OutboxAck(driver[p].lastEpoch)) ELSE UNCHANGED chan
  /\ UNCHANGED <<version, outboxVars, link, faultVars>>

(***************************************************************************)
(* The transport and the crashes.                                          *)
(***************************************************************************)
Disconnected ==
  /\ up' = FALSE /\ cut' = Peer /\ dropped' = FALSE
  /\ chan' = [p \in Peer |-> <<>>]

Break ==
  /\ up /\ Fault("break")
  /\ Disconnected
  /\ UNCHANGED <<hostVars, outboxVars, driver, restarted, raised>>

Reestablish ==
  /\ ~up /\ up' = TRUE
  /\ UNCHANGED <<hostVars, outboxVars, driver, chan, cut, dropped, faultVars>>

Drop(p) ==
  /\ chan[p] # <<>> /\ Fault("drop")
  /\ chan' = Rest(p) /\ dropped' = TRUE
  /\ UNCHANGED <<hostVars, outboxVars, driver, up, cut, restarted, raised>>

\* A host crashes and resumes from what it had made durable; what it had staged
\* but not appended is lost.
Restart(p) ==
  /\ Fault("restart")
  /\ restarted' = restarted \cup {p}
  /\ folded' = [folded EXCEPT ![p] = saved[p].folded]
  /\ driver' = [driver EXCEPT ![p] = NewDriver(saved[p].epoch, saved[p].folded)]
  /\ Disconnected
  /\ UNCHANGED <<version, saved, outboxVars, raised>>

(***************************************************************************)
(* The specification.  The host ticks each driver on its own cadence, and  *)
(* re-establishes a transport that broke.                                  *)
(***************************************************************************)
Tick(p) ==
  \/ TickBegin(p) \/ Replay(p) \/ Drain(p)
  \/ ReceiveAck(p) \/ ReceiveRequest(p)
  \/ ReceiveApplied(p) \/ ReceiveGap(p) \/ ReceiveIgnored(p)
  \/ TickEnd(p)

Next ==
  \/ \E p \in Peer : \/ Enqueue(p) \/ OnReconnect(p) \/ Tick(p) \/ ReceiveRaises(p)
                     \/ Drop(p) \/ Restart(p)
  \/ Break \/ Reestablish

Spec == Init /\ [][Next]_vars
Fairness ==
  /\ WF_vars(Reestablish)
  /\ \A p \in Peer : WF_vars(Tick(p)) /\ SF_vars(OnReconnect(p))
FairSpec == Spec /\ Fairness

(***************************************************************************)
(* Properties.                                                             *)
(***************************************************************************)
TypeOK ==
  /\ version \in [Peer -> Epoch] /\ folded \in [Peer -> SUBSET Epoch]
  /\ saved \in [Peer -> [epoch : Epoch, folded : SUBSET Epoch]]
  /\ outbox \in [Peer -> SUBSET Frame] /\ acked \in [Peer -> Epoch]
  /\ driver \in [Peer ->
       [pending : Seq(Frame), lastEpoch : Epoch, resyncing : BOOLEAN, peerAcked : Epoch,
        ackOwed : BOOLEAN, replayPending : BOOLEAN, stalled : BOOLEAN,
        ticking : BOOLEAN, replaying : SUBSET Frame,
        applied : SUBSET Epoch]]
  /\ chan \in [Peer -> Seq(Message)] /\ up \in BOOLEAN /\ dropped \in BOOLEAN /\ cut \subseteq Peer
  /\ faults \in 0..MaxFaults /\ restarted \subseteq Peer /\ raised \subseteq Peer

\* The epochs that frames F carry.
Covered(F) == UNION {f.base + 1 .. f.epoch : f \in F}
Staged(p) == {driver[p].pending[i] : i \in DOMAIN driver[p].pending}

\* Until a host crashes, every epoch its peer has not applied is still in the
\* outbox or waiting to be appended: nothing is pruned before it was applied,
\* and nothing is sent before it is retained (Outbox.ack_through,
\* SyncDriver.tick).
NothingLost ==
  restarted = {} =>
    \A p \in Peer :
      driver[Other(p)].lastEpoch + 1 .. version[p] \subseteq Covered(outbox[p] \cup Staged(p))

\* The cursor a driver advertises is what its host has folded, as long as none
\* of its reads raised (Progress.applied).
CursorIsFolded ==
  \A p \in Peer \ raised : Idle(p) => folded[p] = 1..driver[p].lastEpoch

\* The outbox never runs ahead of the receiver: a frame is pruned only after the
\* receiving driver applied it (OutboxAck, Outbox.ack_through).
PrunedIsApplied ==
  \A p \in Peer : Other(p) \notin restarted => acked[p] <= driver[Other(p)].lastEpoch

\* What is sent is applied before it is pruned, and folded when it is applied.
StreamIntact == TypeOK /\ NothingLost /\ CursorIsFolded /\ PrunedIsApplied

\* A receiver that stays up never goes back to an earlier epoch: a replayed
\* frame is ignored (ResyncCoordinator.ingest).
CursorAdvances ==
  [][\A p \in Peer \ restarted' : driver'[p].lastEpoch >= driver[p].lastEpoch]_vars

\* No retained frame is ahead of the receiver.
Delivered ==
  \A p \in Peer : /\ driver[p].pending = <<>>
                 /\ \A f \in outbox[p] : f.epoch <= driver[Other(p)].lastEpoch
Waiting == \E p \in Peer : driver[p].resyncing

\* Whatever broke or crashed, each retained frame is delivered, unless a receiver
\* waits for a snapshot or a frame was lost on a connection that stayed up
\* (DurableOutbox: "at-least-once delivery").
DeliversOrWaits == <>[](Delivered \/ Waiting \/ dropped)

(***************************************************************************)
(* What the documentation promises and the code does not do in every case. *)
(***************************************************************************)
\* A gap converges after a reconnect (SyncDriver: "re-advertises our own receiver
\* cursor, so a dropped-frame gap converges").
Delivers == <>[](Delivered \/ dropped)

\* Progress.applied "the host MUST fold": every frame the cursor passed was
\* handed to the host.
AppliedIsFolded ==
  \A p \in Peer : Idle(p) => folded[p] = 1..driver[p].lastEpoch
=============================================================================
