-------------------------------- MODULE Plane --------------------------------
(***************************************************************************)
(* crdt_plane.py: replicas that write keyed values under a stamp and bring *)
(* each other up to date with the operations themselves, with whole frames *)
(* and with deltas computed from a frontier.  These arrive late, twice,    *)
(* out of order or not at all.  Keys of a registered family are bound to   *)
(* node ids when they are first seen.  A value is the stamp it was written *)
(* under, and an operation alone is a frame without a frontier.            *)
(***************************************************************************)
EXTENDS Integers, FiniteSetsExt

CONSTANTS
  Peer, Key,
  Mints,      \* Mints[x]: the keys a replica may name before it has heard of them
  Wall, MaxWrites, MaxFrames

VARIABLES
  plane,    \* of each replica: applied, entries, frontier, node, logical
  heard,    \* the operations a replica's state stands for
  passed,   \* the operations that a replica's frontier has passed over unheard
  frames    \* what was sent, with what of these it stands for

vars == <<plane, heard, passed, frames>>

Unkeyed == "unkeyed"     \* an operation addressed by its node id alone
After(s, t) == \/ s[1] > t[1]
               \/ s[1] = t[1] /\ (s[2] > t[2] \/ (s[2] = t[2] /\ s[3] > t[3]))
Newest(S) == CHOOSE s \in S : \A t \in S : t = s \/ After(s, t)
Floor == <<0, 0, 0>>

Init ==
  /\ plane = [x \in Peer |-> [applied |-> {}, entries |-> {}, frontier |-> [y \in Peer |-> Floor],
                              node |-> [k \in {} |-> 0], logical |-> 0]]
  /\ heard = [x \in Peer |-> {}] /\ passed = heard /\ frames = {}

Made == UNION {heard[x] : x \in Peer}
Sent(frame) == frames' = frames \cup {frame}

\* One operation stands for an older one of its node and key.
Covers(p, o) == p.node = o.node /\ p.key = o.key /\ ~After(o.stamp, p.stamp)
Winners(ops) == {o \in ops : \A p \in ops : p.node = o.node /\ p.key = o.key => ~After(p.stamp, o.stamp)}

\* The first binding of a key to a node stays.
Materialize(node, ops) ==
  LET keys == {o.key : o \in ops} \ {Unkeyed}
  IN [k \in DOMAIN node \cup keys |-> IF k \in DOMAIN node THEN node[k] ELSE (CHOOSE o \in ops : o.key = k).node]

ApplyAll(r, ops) ==
  LET new == {o \in ops : <<o.node, o.stamp>> \notin r.applied}
  IN [r EXCEPT !.applied = @ \cup {<<o.node, o.stamp>> : o \in new},
               !.node = Materialize(@, new),
               !.frontier = [y \in Peer |-> Newest({@[y]} \cup {o.stamp : o \in {p \in new : p.stamp[3] = y}})],
               !.entries = Winners(@ \cup new)]

MintNode(r) == CHOOSE n \in 0..Cardinality(Key) :
  /\ \A o \in r.entries : o.node # n
  /\ \A m \in 0..(n - 1) : \E o \in r.entries : o.node = m

\* A replica's own clock does not run backwards.
LastWall(r, x) == r.frontier[x][1]
WriteOp(x, key, node, wall) ==
  LET logical == plane[x].logical + 1
      op == [node |-> node, key |-> key, stamp |-> <<wall, logical, x>>]
  IN /\ Cardinality(Made) < MaxWrites /\ wall >= LastWall(plane[x], x)
     /\ plane' = [plane EXCEPT ![x] = ApplyAll([@ EXCEPT !.logical = logical], {op})]
     /\ heard' = [heard EXCEPT ![x] = @ \cup {op}] /\ UNCHANGED passed
     /\ \/ UNCHANGED frames
        \/ /\ Cardinality(frames) < MaxFrames
           /\ Sent([to |-> Peer \ {x}, frontier |-> [y \in Peer |-> Floor], ops |-> {op}, heard |-> {op}, passed |-> {}])

\* The operation that was made is returned, for the application to broadcast.
FamilySetLww(x, key, wall) ==
  IF key \in DOMAIN plane[x].node THEN WriteOp(x, key, plane[x].node[key], wall)
  ELSE key \in Mints[x] /\ WriteOp(x, key, MintNode(plane[x]), wall)

\* An application's operation on a node id of its own.
Apply(x, wall) == WriteOp(x, Unkeyed, -1, wall)

ToSync(x) ==
  /\ Cardinality(frames) < MaxFrames
  /\ Sent([to |-> Peer \ {x}, frontier |-> plane[x].frontier, ops |-> plane[x].entries, heard |-> heard[x],
           passed |-> passed[x]])
  /\ UNCHANGED <<plane, heard, passed>>

\* x answers the frontier that y has published.
DeltaSync(x, y) ==
  LET ops == {o \in plane[x].entries : After(o.stamp, plane[y].frontier[o.stamp[3]])}
  IN /\ Cardinality(frames) < MaxFrames
     /\ Sent([to |-> {y}, frontier |-> plane[x].frontier, ops |-> ops, passed |-> passed[x],
              heard |-> {o \in heard[x] : \E p \in ops : Covers(p, o)}])
     /\ UNCHANGED <<plane, heard, passed>>

\* Ghost: the operations of its producer that one alone overtakes.
PassedOver(x, f) ==
  {o \in Made : \E p \in f.ops : /\ o.stamp[3] = p.stamp[3] /\ After(p.stamp, o.stamp)
                               /\ After(o.stamp, Newest({plane[x].frontier[p.stamp[3]], f.frontier[p.stamp[3]]}))}
ApplyFrame(x, f) ==
  /\ x \in f.to
  /\ plane' = [plane EXCEPT ![x] = [ApplyAll(@, f.ops) EXCEPT !.frontier = [y \in Peer |-> Newest({@[y], f.frontier[y]})]]]
  /\ heard' = [heard EXCEPT ![x] = @ \cup f.heard]
  /\ passed' = [passed EXCEPT ![x] = @ \cup f.passed \cup PassedOver(x, f)]
  /\ UNCHANGED frames

Next ==
  \E x \in Peer :
    \/ \E wall \in Wall : Apply(x, wall) \/ \E key \in Key : FamilySetLww(x, key, wall)
    \/ ToSync(x) \/ \E y \in Peer \ {x} : DeltaSync(x, y)
    \/ \E f \in frames : ApplyFrame(x, f)
Spec == Init /\ [][Next]_vars

FamilyValue(r, key) == {o.stamp : o \in {p \in r.entries : p.key = key /\ p.node = r.node[key]}}

(***************************************************************************)
(* A replica's entries are the newest operation of each node and key among *)
(* all it has heard, its members the keys among them.  It has heard, or    *)
(* heard a newer one than, every operation its frontier covers, so that    *)
(* what a delta leaves out it has, whatever order frames come in; but for  *)
(* those that an operation sent alone overtook, here or at a partner       *)
(* (CrdtPlaneRuntime's apply, apply_frame, delta_sync).                    *)
(***************************************************************************)
PlaneConverges ==
  \A x \in Peer :
    /\ plane[x].entries = Winners(heard[x])
    /\ DOMAIN plane[x].node = {o.key : o \in heard[x]} \ {Unkeyed}
    /\ \A o \in Made \ passed[x] :
         ~After(o.stamp, plane[x].frontier[o.stamp[3]]) => \E e \in plane[x].entries : Covers(e, o)

(***************************************************************************)
(* Two replicas that have heard the same of a family show the same values  *)
(* for its keys (family_set_lww: each replica may insert any key).         *)
(***************************************************************************)
FamiliesConverge ==
  \A x, y \in Peer : heard[x] = heard[y] => \A key \in DOMAIN plane[x].node :
    FamilyValue(plane[x], key) = FamilyValue(plane[y], key)
=============================================================================
