----------------------------- MODULE LeasedQueue -----------------------------
(***************************************************************************)
(* What a work queue promises: an item that was pushed is at one place and *)
(* moves between them, each delivery is one more attempt, an item is dead  *)
(* only when its MaxDeliveries-th attempt failed, and done or dead is for  *)
(* ever.  An entry is an item with the attempts made of it.                *)
(***************************************************************************)
EXTENDS Naturals

CONSTANTS Item, MaxDeliveries

VARIABLES ready, leased, done, dead

vars == <<ready, leased, done, dead>>

Items(S) == {r.item : r \in S}
Entries(i, k) == {[item |-> i, attempts |-> k]}

Init == ready = {} /\ leased = {} /\ done = {} /\ dead = {}

Push ==
  /\ \E i \in Item : i \notin Items(ready \cup leased \cup done \cup dead) /\ ready' = ready \cup Entries(i, 0)
  /\ UNCHANGED <<leased, done, dead>>

Deliver ==
  /\ \E r \in ready :
       /\ ready' = ready \ {r}
       /\ leased' = leased \cup Entries(r.item, r.attempts + 1)
  /\ UNCHANGED <<done, dead>>

Finish ==
  /\ \E r \in leased : leased' = leased \ {r} /\ done' = done \cup {r}
  /\ UNCHANGED <<ready, dead>>

Fail ==
  /\ \E S \in SUBSET leased :
       /\ leased' = leased \ S
       /\ ready' = ready \cup {r \in S : r.attempts < MaxDeliveries}
       /\ dead' = dead \cup {r \in S : r.attempts = MaxDeliveries}
  /\ UNCHANGED done

Next == Push \/ Deliver \/ Finish \/ Fail

Spec == Init /\ [][Next]_vars
=============================================================================
