----------------------------- MODULE Membership -----------------------------
(***************************************************************************)
(* membership.py: heartbeats, the phi-accrual failure detector and the     *)
(* Alive, Suspect, Dead, Left state of every peer.  phi is a growing       *)
(* function of the deviation y = (elapsed - mean) / std, so phi > threshold*)
(* is y > Y for one Y; it is decided here in whole numbers, with the floor *)
(* 1 / StdScale on the deviation and Y^2 = YSquare.                        *)
(***************************************************************************)
EXTENDS Integers, Sequences

CONSTANTS Peer, None, MaxTime, MaxSamples, SuspectTimeout, YSquare, StdScale

VARIABLES
  now,
  peers,    \* the records of the peers ever seen: state, detector, suspect_since
  shown,    \* the alive set the cell projects
  told      \* the states an observer folds from the events alone

vars == <<now, peers, shown, told>>

Sum(s) == LET upto[n \in 0..Len(s)] == IF n = 0 THEN 0 ELSE upto[n - 1] + s[n] IN upto[Len(s)]
SumOfSquares(s) == Sum([i \in 1..Len(s) |-> s[i] * s[i]])
Larger(x, y) == IF x >= y THEN x ELSE y
Newest(s) == SubSeq(s, IF Len(s) > MaxSamples THEN Len(s) - MaxSamples + 1 ELSE 1, Len(s))

NewDetector == [last |-> now, window |-> << >>]
Heard(d) == [last |-> now, window |-> Newest(Append(d.window, now - d.last))]

\* No estimate, no suspicion: a peer that joined and was never heard again.
PhiCrossed(d) ==
  LET n == Len(d.window)
      late == (now - d.last) * n - Sum(d.window)
      spread == n * SumOfSquares(d.window) - Sum(d.window) * Sum(d.window)
  IN n > 0 /\ late > 0
     /\ StdScale * StdScale * late * late > YSquare * Larger(StdScale * StdScale * spread, n * n)

Known(p) == p \in DOMAIN peers
AliveSet == {p \in DOMAIN peers : peers[p].state = "Alive"}
Joined == [state |-> "Alive", detector |-> NewDetector, since |-> 0]
Put(p, r) == peers' = [q \in DOMAIN peers \cup {p} |-> IF q = p THEN r ELSE peers[q]]

\* The events of a call, folded: joined, left and state_changed each name
\* the peer and the state it is in from now on.
Tell(p, state) == told' = [told EXCEPT ![p] = state]

Init == now = 0 /\ peers = [p \in {} |-> 0] /\ shown = {} /\ told = [p \in Peer |-> None]

Refresh == shown' = AliveSet'

Join(p) ==
  /\ Put(p, Joined)
  /\ IF Known(p) /\ peers[p].state = "Alive" THEN UNCHANGED told ELSE Tell(p, "Alive")
  /\ Refresh /\ UNCHANGED now

\* Mutant: a heartbeat feeds the detector and does not refute the suspicion.
HeardOnly(r) == [r EXCEPT !.detector = Heard(r.detector)]

Refuted(r) == [r EXCEPT !.detector = Heard(r.detector), !.state = "Alive"]

Heartbeat(p) ==
  /\ IF ~Known(p) THEN Put(p, Joined) /\ Tell(p, "Alive")
     ELSE IF peers[p].state \in {"Suspect", "Dead"} THEN Put(p, Refuted(peers[p])) /\ Tell(p, "Alive")
     ELSE Put(p, [peers[p] EXCEPT !.detector = Heard(@)]) /\ UNCHANGED told
  /\ Refresh /\ UNCHANGED now

Leave(p) ==
  /\ IF Known(p) /\ peers[p].state # "Left"
     THEN Put(p, [peers[p] EXCEPT !.state = "Left"]) /\ Tell(p, "Left")
     ELSE UNCHANGED <<peers, told>>
  /\ Refresh /\ UNCHANGED now

Suspects(r) == r.state = "Alive" /\ PhiCrossed(r.detector)
Expires(r) == r.state = "Suspect" /\ now - r.since >= SuspectTimeout

Escalated(r) ==
  IF Suspects(r) THEN [r EXCEPT !.state = "Suspect", !.since = now]
  ELSE IF Expires(r) THEN [r EXCEPT !.state = "Dead"]
  ELSE r

Tick ==
  /\ peers' = [p \in DOMAIN peers |-> Escalated(peers[p])]
  /\ told' = [p \in Peer |->
       IF Known(p) /\ (Suspects(peers[p]) \/ Expires(peers[p])) THEN Escalated(peers[p]).state ELSE told[p]]
  /\ Refresh /\ UNCHANGED now

Time == now < MaxTime /\ now' = now + 1 /\ UNCHANGED <<peers, shown, told>>

Next == (\E p \in Peer : Join(p) \/ Heartbeat(p) \/ Leave(p)) \/ Tick \/ Time

(***************************************************************************)
(* A peer is declared dead only if it was silent for the whole suspicion   *)
(* timeout after it was suspected, whatever heartbeats, joins and ticks    *)
(* came before; and an observer that only folds the events knows the state *)
(* of every peer (MembershipCore.tick, heartbeat, join, leave).            *)
(***************************************************************************)
DeadWasSilent ==
  /\ \A p \in DOMAIN peers : peers[p].state = "Dead" =>
       /\ peers[p].since > peers[p].detector.last
       /\ now - peers[p].detector.last > SuspectTimeout
  /\ \A p \in Peer : told[p] = IF Known(p) THEN peers[p].state ELSE None
=============================================================================
