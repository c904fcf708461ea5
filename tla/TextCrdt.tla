------------------------------ MODULE TextCrdt ------------------------------
(***************************************************************************)
(* textcrdt.py: characters, each inserted to the right of another one and  *)
(* deleted by a tombstone.  Replicas merge whole states, or the delta that *)
(* another one has computed from their version vector; either arrives      *)
(* late, twice, out of order or never.  Tombstones that every replica has  *)
(* seen are collected.                                                     *)
(***************************************************************************)
EXTENDS CrdtElements

CONSTANTS MaxOps, MaxSent

VARIABLES
  replica,  \* of each peer: its counter and its elements, by id
  heard,    \* what was inserted and deleted in the states a peer's state stands for
  sent,     \* states and deltas sent
  ops       \* operations made, a bound

vars == <<replica, heard, sent, ops>>

Nothing == [id \in {} |-> Root]

Init == /\ replica = [x \in Peer |-> [counter |-> 0, elements |-> Nothing]]
        /\ heard = [x \in Peer |-> {}] /\ sent = {} /\ ops = 0

With(f, id, value) == [i \in DOMAIN f \cup {id} |-> IF i = id THEN value ELSE f[i]]
Edit(x, id, element, what) ==
  /\ ops' = ops + 1
  /\ replica' = [replica EXCEPT ![x] = [counter |-> @.counter + 1, elements |-> With(@.elements, id, element)]]
  /\ heard' = [heard EXCEPT ![x] = @ \cup {what}]
  /\ UNCHANGED sent

NextId(x) == <<replica[x].counter + 1, x>>
Insert(x, index) ==
  LET text == Text(replica[x].elements)
      origin == IF index = 0 THEN Root ELSE text[index]
  IN index <= Len(text) /\ Edit(x, NextId(x), [origin |-> origin, gone |-> Root], <<NextId(x), origin, Root>>)
Delete(x, index) ==
  LET text == Text(replica[x].elements)
      element == replica[x].elements[text[index]]
  IN index \in 1..Len(text) /\ Edit(x, text[index], [element EXCEPT !.gone = NextId(x)], <<text[index], element.origin, NextId(x)>>)

Receive(x, m) ==
  /\ x \in m.to
  /\ LET elements == Join(replica[x].elements, m.elements)
     IN replica' = [replica EXCEPT ![x] =
          [counter |-> Max({@.counter} \cup {id[1] : id \in DOMAIN elements}), elements |-> elements]]
  /\ heard' = [heard EXCEPT ![x] = @ \cup m.heard]
  /\ UNCHANGED <<sent, ops>>

Send(to, x, elements) ==
  /\ Cardinality(sent) < MaxSent
  /\ sent' = sent \cup {[to |-> to, elements |-> elements, heard |-> heard[x]]} /\ UNCHANGED <<replica, heard, ops>>
Clone(x) == Send(Peer, x, replica[x].elements)

\* y answers the version vector of x.
Answer(y, x) == Send({x}, y, DeltaSince(replica[y].elements, VersionVector(replica[x].elements)))

\* Only when every replica has seen the same, and nothing older is under way.
Gc(x) ==
  LET elements == replica[x].elements
      origins == {elements[id].origin : id \in DOMAIN elements}
      dead == {id \in DOMAIN elements : elements[id].gone # Root /\ id \notin origins}
  IN /\ \A y, z \in Peer : heard[y] = heard[z]
     /\ dead # {} /\ sent' = {}
     /\ replica' = [replica EXCEPT ![x].elements = [id \in DOMAIN elements \ dead |-> elements[id]]]
     /\ UNCHANGED <<heard, ops>>

Next ==
  \E x \in Peer :
    \/ ops < MaxOps /\ \E index \in 0..MaxOps : Insert(x, index) \/ Delete(x, index)
    \/ Clone(x) \/ Gc(x)
    \/ \E y \in Peer \ {x} : Answer(y, x)
    \/ \E m \in sent : Receive(x, m)
Spec == Init /\ [][Next]_vars

\* The text of the operations in a set: the inserted elements that none of them deletes.
Expected(S) ==
  Text([id \in {o[1] : o \in S} |->
     [origin |-> (CHOOSE o \in S : o[1] = id)[2],
      gone |-> IF \E o \in S : o[1] = id /\ o[3] # Root THEN id ELSE Root]])

(***************************************************************************)
(* A replica shows the text of the operations that the states and deltas   *)
(* it has merged stand for: a delta leaves out only what its addressee     *)
(* has, an edit beside a deletion stays where it was put, and collecting   *)
(* tombstones loses no character (TextCrdt.merge, delta_since,             *)
(* apply_delta, gc).                                                       *)
(***************************************************************************)
TextConverges == \A x \in Peer : Text(replica[x].elements) = Expected(heard[x])
=============================================================================
