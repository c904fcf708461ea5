------------------------------- MODULE SeqCrdt -------------------------------
(***************************************************************************)
(* seqcrdt.py: a sequence whose elements have three registers, the value,  *)
(* the position and the tombstone, each kept by the newest stamp of a      *)
(* hybrid clock whose wall time the callers supply, skewed or backwards.   *)
(* Replicas send their whole state, which arrives late, twice or never.    *)
(* A value is the stamp it was written under.                              *)
(***************************************************************************)
EXTENDS CrdtElements

CONSTANTS Id, Wall, MaxOps, MaxSent, MaxLogical,
          Names       \* Names[x]: the ids replica x inserts

VARIABLES
  replica,  \* of each peer: its clock and its elements
  heard,    \* the stamped operations a peer's state stands for
  sent,     \* states sent
  ops       \* operations made, a bound

vars == <<replica, heard, sent, ops>>

After(s, t) == \/ s[1] > t[1]
               \/ s[1] = t[1] /\ (s[2] > t[2] \/ (s[2] = t[2] /\ s[3] > t[3]))
Later(s, t) == IF After(s, t) THEN s ELSE t
Zero == <<0, 0, 0>>
NewElement(stamp, frac, x) ==
  [value |-> stamp, position |-> [frac |-> frac, peer |-> x, stamp |-> stamp], gone |-> FALSE, deleted |-> Zero]

Init == /\ replica = [x \in Peer |-> [wall |-> 0, logical |-> 0, elements |-> [i \in {} |-> Zero]]]
        /\ heard = [x \in Peer |-> {}] /\ sent = {} /\ ops = 0

Before(p, q) == FracBefore(p.frac, q.frac) \/ (p.frac = q.frac /\ p.peer < q.peer)
Order(elements) ==
  SetToSortSeq({i \in DOMAIN elements : ~elements[i].gone}, LAMBDA i, k : Before(elements[i].position, elements[k].position))

Send(r, now) == IF now > r.wall THEN [r EXCEPT !.wall = now, !.logical = 0] ELSE [r EXCEPT !.logical = @ + 1]
StampOf(r, x) == <<r.wall, r.logical, x>>
Recv(r, remote, now) ==
  LET wall == Max({r.wall, remote[1], now})
  IN [r EXCEPT !.wall = wall,
       !.logical = IF wall = r.wall /\ wall = remote[1] THEN Max({@, remote[2]}) + 1
                   ELSE IF wall = r.wall THEN @ + 1
                   ELSE IF wall = remote[1] THEN remote[2] + 1 ELSE 0]

\* A local operation: the clock moves, and the element takes the new stamp.
Minted(x, now) == StampOf(Send(replica[x], now), x)
Write(x, id, kind, now, new) ==
  LET elements == replica[x].elements
  IN /\ ops' = ops + 1
     /\ replica' = [replica EXCEPT ![x] = [Send(@, now) EXCEPT !.elements =
          [i \in DOMAIN elements \cup {id} |-> IF i = id THEN new ELSE elements[i]]]]
     /\ heard' = [heard EXCEPT ![x] = @ \cup {<<id, k, Minted(x, now), new.position.frac>> : k \in kind}]
     /\ UNCHANGED sent

Placed(frac, x, e, stamp) ==
  IF After(stamp, e.position.stamp) THEN [e EXCEPT !.position = [frac |-> frac, peer |-> x, stamp |-> stamp]] ELSE e

Insert(x, id, frac, now) ==
  /\ id \in Names[x] \ DOMAIN replica[x].elements
  /\ Write(x, id, {"value", "position"}, now, NewElement(Minted(x, now), frac, x))
InsertBack(x, id, now) ==
  LET order == Order(replica[x].elements)
  IN Insert(x, id, FracAfter(IF order = <<>> THEN <<>> ELSE replica[x].elements[Last(order)].position.frac), now)
InsertFront(x, id, now) ==
  LET order == Order(replica[x].elements)
  IN Insert(x, id, FracBetween(<<>>, IF order = <<>> THEN <<256>> ELSE replica[x].elements[order[1]].position.frac), now)

MoveAfter(x, id, anchor, now) ==
  LET elements == replica[x].elements
      order == Order(elements)
      Frac(n) == elements[order[n]].position.frac
      at == CHOOSE n \in 1..Len(order) : order[n] = anchor
      frac == IF at < Len(order) THEN FracBetween(Frac(at), Frac(at + 1)) ELSE FracAfter(Frac(at))
  IN /\ id \in DOMAIN elements /\ anchor \in ToSet(order)
     /\ Write(x, id, {"position"}, now, Placed(frac, x, elements[id], Minted(x, now)))
SetValue(x, id, now) ==
  /\ id \in DOMAIN replica[x].elements
  /\ Write(x, id, {"value"}, now, [replica[x].elements[id] EXCEPT !.value = Later(Minted(x, now), @)])
RemoveElement(x, id, now) ==
  /\ id \in DOMAIN replica[x].elements
  /\ LET e == replica[x].elements[id] IN Write(x, id, {"deleted"}, now,
       IF After(Minted(x, now), e.deleted) THEN [e EXCEPT !.gone = TRUE, !.deleted = Minted(x, now)] ELSE e)

\* A replica that has done nothing starts over as a copy: the clock comes along, the peer does not.
Fork(x, y) ==
  /\ replica[y].elements = <<>> /\ replica[x].elements # <<>>
  /\ replica' = [replica EXCEPT ![y] = replica[x]] /\ heard' = [heard EXCEPT ![y] = heard[x]] /\ UNCHANGED <<sent, ops>>

Clone(x) ==
  /\ Cardinality(sent) < MaxSent
  /\ sent' = sent \cup {[elements |-> replica[x].elements, heard |-> heard[x]]} /\ UNCHANGED <<replica, heard, ops>>

MaxStamp(e) == Later(e.value, Later(e.position.stamp, e.deleted))
Joined(e, o) ==
  [value |-> Later(o.value, e.value),
   position |-> IF After(o.position.stamp, e.position.stamp) THEN o.position ELSE e.position,
   gone |-> IF After(o.deleted, e.deleted) THEN o.gone \/ e.gone ELSE e.gone,
   deleted |-> Later(o.deleted, e.deleted)]

Merge(x, m, now) ==
  LET mine == replica[x].elements
      clock == FoldLeft(LAMBDA r, i : Recv(r, MaxStamp(m.elements[i]), now), replica[x], SetToSeq(DOMAIN m.elements))
      elements == [i \in DOMAIN mine \cup DOMAIN m.elements |->
        IF i \notin DOMAIN m.elements THEN mine[i]
        ELSE IF i \notin DOMAIN mine THEN m.elements[i] ELSE Joined(mine[i], m.elements[i])]
  IN /\ clock.logical <= MaxLogical
     /\ replica' = [replica EXCEPT ![x] = [clock EXCEPT !.elements = elements]]
     /\ heard' = [heard EXCEPT ![x] = @ \cup m.heard]
     /\ UNCHANGED <<sent, ops>>

Next ==
  \E x \in Peer :
    \/ ops < MaxOps /\ \E now \in Wall, id \in Id :
         \/ InsertBack(x, id, now) \/ InsertFront(x, id, now) \/ SetValue(x, id, now) \/ RemoveElement(x, id, now)
         \/ \E anchor \in Id \ {id} : MoveAfter(x, id, anchor, now)
    \/ Clone(x) \/ \E y \in Peer \ {x} : Fork(x, y)
    \/ \E m \in sent, now \in Wall : Merge(x, m, now)
Spec == Init /\ [][Next]_vars

Written(x, id, kind) == {o \in heard[x] : o[1] = id /\ o[2] = kind}
Newest(S) == CHOOSE o \in S : \A p \in S : p = o \/ After(o[3], p[3])
Shows(x, id) ==
  LET e == replica[x].elements[id]
      place == Newest(Written(x, id, "position"))
  IN /\ e.value = Newest(Written(x, id, "value"))[3]
     /\ e.position = [frac |-> place[4], peer |-> place[3][3], stamp |-> place[3]]
     /\ e.gone = (Written(x, id, "deleted") # {})

(***************************************************************************)
(* What a replica shows is a function of the operations it has taken in,   *)
(* whatever way the states came: of each element the newest value and the  *)
(* newest place, and that it is gone once anyone removed it.  Its clock is *)
(* ahead of every stamp it holds, so that no write of its own is lost to   *)
(* them, however late the wall time of the caller (SeqCrdt.merge, fork,    *)
(* _SeqClock.recv).                                                        *)
(***************************************************************************)
SeqConverges ==
  \A x \in Peer :
    /\ DOMAIN replica[x].elements = {o[1] : o \in heard[x]}
    /\ \A id \in DOMAIN replica[x].elements : Shows(x, id)
    /\ \A o \in heard[x] : ~After(<<o[3][1], o[3][2], 0>>, <<replica[x].wall, replica[x].logical, 0>>)
=============================================================================
