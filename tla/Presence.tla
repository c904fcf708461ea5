------------------------------- MODULE Presence -------------------------------
(***************************************************************************)
(* The ephemeral plane (presence.py): a value that expires, and the map of *)
(* peers kept alive by heartbeats (PresenceCell) or last broadcasts        *)
(* (AwarenessCell).  The caller supplies the clock, which never goes back. *)
(***************************************************************************)
EXTENDS Integers

CONSTANTS Peer, Value, Ttl, MaxClock, None

VARIABLES
  clock,    \* the caller's clock
  entries,  \* EphemeralMapCore._entries: peer -> <<value, expiry>>, None when absent
  present,  \* the cell the live map is projected on
  single,   \* EphemeralCore: <<value, expiry>>, None when there is none
  shown,    \* the cell its value is projected on
  beat,     \* ghost: peer -> its last <<value, time>>, None when evicted since
  asked     \* ghost: the clock of the last call on the map
vars == <<clock, entries, present, single, shown, beat, asked>>

Nobody == [p \in Peer |-> None]
Init ==
  /\ clock = 0 /\ entries = Nobody /\ present = Nobody /\ single = None /\ shown = None
  /\ beat = Nobody /\ asked = 0

Pass == /\ clock < MaxClock /\ clock' = clock + 1
        /\ UNCHANGED <<entries, present, single, shown, beat, asked>>

\* The map at a time: what has not expired.
Fresh(e, now) == e # None /\ now < e[2]
Shown(es) == [p \in Peer |-> IF Fresh(es[p], clock) THEN es[p][1] ELSE None]
Refreshed(es) == /\ entries' = es /\ present' = Shown(es) /\ asked' = clock
                 /\ UNCHANGED <<clock, single, shown>>

Heartbeat(p, v) ==
  /\ Refreshed([entries EXCEPT ![p] = <<v, clock + Ttl>>])
  /\ beat' = [beat EXCEPT ![p] = <<v, clock>>]
Evict(p) == /\ Refreshed([entries EXCEPT ![p] = None]) /\ beat' = [beat EXCEPT ![p] = None]
Tick == /\ Refreshed([p \in Peer |-> IF Fresh(entries[p], clock) THEN entries[p] ELSE None])
        /\ UNCHANGED beat

SetValue(v, ttl) == /\ single' = <<v, clock + ttl>> /\ shown' = v
                    /\ UNCHANGED <<clock, entries, present, beat, asked>>
TickValue ==
  /\ single' = IF Fresh(single, clock) THEN single ELSE None
  /\ shown' = IF single' = None THEN None ELSE single'[1]
  /\ UNCHANGED <<clock, entries, present, beat, asked>>

Next ==
  \/ Pass \/ Tick \/ TickValue
  \/ \E p \in Peer, v \in Value : Heartbeat(p, v)
  \/ \E p \in Peer : Evict(p)
  \/ \E v \in Value, ttl \in 1..Ttl : SetValue(v, ttl)
Spec == Init /\ [][Next]_vars

-----------------------------------------------------------------------------
\* Whoever the last call saw present beat, with that value, less than Ttl
\* before it and was not evicted since, and every such peer is present.
PresentIsLive ==
  /\ \A p \in Peer :
       present[p] = IF beat[p] # None /\ asked - beat[p][2] < Ttl THEN beat[p][1] ELSE None
  /\ shown = IF single = None THEN None ELSE single[1]
=============================================================================
