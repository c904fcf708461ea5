---------------------------- MODULE LosslessTree ----------------------------
(***************************************************************************)
(* lossless_tree_crdt.py: a tree of elements and text leaves, replicated   *)
(* by operations with dotted ids.  What a partner lacks is sent as a diff; *)
(* single operations are also passed on, in any order, and wait until      *)
(* their target and the text they build on are there.  Both replicas start *)
(* from a document with one leaf.                                          *)
(***************************************************************************)
EXTENDS CrdtElements

CONSTANTS
  MaxOps, MaxSent, MaxBuffered,
  EditsOfSplits   \* whether the leaves that a split has made are edited too

VARIABLES
  replica,  \* of each peer: counter, nodes, frontier, log, buffered
  got,      \* the operations that have reached a peer
  sent      \* updates sent

vars == <<replica, got, sent>>

NoDots == [contiguous |-> 0, sparse |-> {}]
Observe(range, n) ==
  LET held == range.sparse \cup {n}
      upto == CHOOSE m \in range.contiguous..(range.contiguous + Cardinality(held)) :
                (range.contiguous + 1)..m \subseteq held /\ m + 1 \notin held
  IN IF n <= range.contiguous THEN range ELSE [contiguous |-> upto, sparse |-> {i \in held : i > upto}]
Holds(frontier, id) ==
  id[2] \in Peer /\ (id[1] <= frontier[id[2]].contiguous \/ id[1] \in frontier[id[2]].sparse)

Seed(peer, n) == [counter |-> n, elements |-> [id \in (1..n) \X {peer} |->
                    [origin |-> IF id[1] = 1 THEN Root ELSE <<id[1] - 1, peer>>, gone |-> Root]]]
Node(op, leaf, text, head) ==
  [parent |-> op.parent, sort |-> op.sort, stamp |-> op.id, leaf |-> leaf, text |-> text, tomb |-> Root, head |-> head]

Has(r, node) == node = Root \/ node \in DOMAIN r.nodes
Less2(p, q) == FracBefore(p.frac, q.frac) \/ (p.frac = q.frac /\ p.peer < q.peer)
LiveChildren(r, parent) ==
  LET live == {n \in DOMAIN r.nodes : r.nodes[n].parent = parent /\ r.nodes[n].tomb = Root}
  IN SetToSortSeq(live, LAMBDA m, n : Less2(r.nodes[m].sort, r.nodes[n].sort))
KeyAfter(r, x, parent, after) ==
  LET order == LiveChildren(r, parent)
      at == IF after \in ToSet(order) THEN CHOOSE i \in 1..Len(order) : order[i] = after
            ELSE IF after = Root THEN 0 ELSE Len(order)
      Frac(i) == r.nodes[order[i]].sort.frac
  IN [frac |-> KeyBetween(IF at = 0 THEN <<>> ELSE Frac(at), IF at = Len(order) THEN Open ELSE Frac(at + 1)), peer |-> x]

(***************************************************************************)
(* What an operation does to the nodes.                                    *)
(***************************************************************************)
AddNode(nodes, id, node) == IF id \in DOMAIN nodes THEN nodes ELSE [i \in DOMAIN nodes \cup {id} |-> IF i = id THEN node ELSE nodes[i]]
Edited(text, elements) ==
  LET joined == Join(text.elements, elements)
  IN [counter |-> Max({text.counter} \cup {id[1] : id \in DOMAIN joined}), elements |-> joined]
LengthOf(node) == Len(Text(node.text.elements))
Split(nodes, op) ==
  LET old == nodes[op.node]
      at == Min({op.at, LengthOf(old)})
      new == Node([op EXCEPT !.parent = old.parent], TRUE, Seed(op.id[2], LengthOf(old) - at), Root)
  IN AddNode([nodes EXCEPT ![op.node].text = Seed(op.node[2], at), ![op.node].head = op.id], op.id, new)
Merged(nodes, op) ==
  LET text == Seed(op.node[2], LengthOf(nodes[op.node]) + LengthOf(nodes[op.right]))
  IN [nodes EXCEPT ![op.node].text = text, ![op.node].head = op.id, ![op.right].tomb = Earlier(@, op.id)]
Applied(nodes, op) ==
  CASE op.kind = "CreateNode" -> AddNode(nodes, op.id, Node(op, op.leaf, Seed(op.id[2], op.at), op.id))
    [] op.kind = "Tombstone" -> [nodes EXCEPT ![op.node].tomb = Earlier(@, op.id)]
    [] op.kind = "Reorder" ->
         IF Less(nodes[op.node].stamp, op.id) THEN [nodes EXCEPT ![op.node].sort = op.sort, ![op.node].stamp = op.id] ELSE nodes
    [] op.kind = "LeafEdit" -> [nodes EXCEPT ![op.node].text = Edited(@, op.elements), ![op.node].head = op.id]
    [] op.kind = "SplitLeaf" -> Split(nodes, op)
    [] op.kind = "MergeLeaves" -> Merged(nodes, op)

Apply(r, op) ==
  [r EXCEPT !.nodes = Applied(@, op), !.log = @ \cup {op}, !.frontier[op.id[2]] = Observe(@, op.id[1])]

\* An operation of which every field that does not matter is Root.
Op(id, kind, node) ==
  [id |-> id, kind |-> kind, node |-> node, parent |-> Root, right |-> Root, prev |-> Root, prevRight |-> Root,
   sort |-> Root, leaf |-> FALSE, at |-> 0, elements |-> [i \in {} |-> Root]]

Blank == [counter |-> 0, nodes |-> [n \in {} |-> Root], frontier |-> [p \in Peer |-> NoDots], log |-> {}, buffered |-> <<>>]
FirstOp == [Op(<<1, 1>>, "CreateNode", Root) EXCEPT !.leaf = TRUE, !.at = 2, !.sort = [frac |-> <<128>>, peer |-> 1]]
Init == /\ replica = [x \in Peer |-> Apply([Blank EXCEPT !.counter = 1], FirstOp)]
        /\ got = [x \in Peer |-> {FirstOp.id}] /\ sent = {}

Made == UNION {replica[x].log : x \in Peer}
Commit(x, op) ==
  /\ replica' = [replica EXCEPT ![x] = Apply([@ EXCEPT !.counter = @ + 1], op)]
  /\ got' = [got EXCEPT ![x] = @ \cup {op.id}] /\ UNCHANGED sent
NextOp(x, kind, node) == Op(<<replica[x].counter + 1, x>>, kind, node)

CreateNode(x, parent, after, leaf) ==
  /\ Has(replica[x], parent)
  /\ Commit(x, [NextOp(x, "CreateNode", Root) EXCEPT !.parent = parent, !.sort = KeyAfter(replica[x], x, parent, after),
                                                    !.leaf = leaf, !.at = IF leaf THEN 1 ELSE 0])
TombstoneNode(x, node) == Commit(x, NextOp(x, "Tombstone", node))
ReorderChild(x, node, after) ==
  Commit(x, [NextOp(x, "Reorder", node) EXCEPT !.sort = KeyAfter(replica[x], x, replica[x].nodes[node].parent, after)])

\* A leaf is split or merged where all that was done to its text is known, and the text is edited
\* where all its splits and merges are.
Reshapes == {"SplitLeaf", "MergeLeaves"}
Knows(x, node, kinds) == \A op \in Made : op.kind \in kinds /\ node \in {op.node, op.right, op.id} => op \in replica[x].log
Leaf(x, node) == replica[x].nodes[node].leaf /\ (EditsOfSplits \/ replica[x].nodes[node].head # Root)

EditLeaf(x, node, start, drop, insert) ==
  LET n == replica[x].nodes[node]
      old == Text(n.text.elements)
      gone == IF drop THEN [n.text EXCEPT !.counter = @ + 1, !.elements[old[start + 1]].gone = <<n.text.counter + 1, x>>] ELSE n.text
      left == IF start = 0 THEN Root ELSE old[start]
      id == <<gone.counter + 1, x>>
      new == IF insert THEN Join(gone.elements, [i \in {id} |-> [origin |-> left, gone |-> Root]]) ELSE gone.elements
  IN /\ Leaf(x, node) /\ Knows(x, node, Reshapes)
     /\ (drop \/ insert) /\ start + (IF drop THEN 1 ELSE 0) <= Len(old)
     /\ Commit(x, [NextOp(x, "LeafEdit", node) EXCEPT !.prev = n.head,
                     !.elements = DeltaSince(new, VersionVector(n.text.elements))])

SplitLeaf(x, node, at) ==
  LET n == replica[x].nodes[node]
  IN /\ Leaf(x, node) /\ Knows(x, node, Reshapes \cup {"LeafEdit"}) /\ at <= LengthOf(n)
     /\ Commit(x, [NextOp(x, "SplitLeaf", node) EXCEPT !.at = at, !.prev = n.head, !.sort = KeyAfter(replica[x], x, n.parent, node)])

MergeAdjacentLeaves(x, left, right) ==
  LET order == LiveChildren(replica[x], replica[x].nodes[left].parent)
  IN /\ \A n \in {left, right} : Leaf(x, n) /\ Knows(x, n, Reshapes \cup {"LeafEdit"})
     /\ \E i \in 1..(Len(order) - 1) : order[i] = left /\ order[i + 1] = right
     /\ Commit(x, [NextOp(x, "MergeLeaves", left) EXCEPT !.right = right, !.prev = replica[x].nodes[left].head,
                                                        !.prevRight = replica[x].nodes[right].head])

DependenciesReady(r, op) ==
  CASE op.kind = "CreateNode" -> Has(r, op.parent)
    [] op.kind \in {"Tombstone", "Reorder"} -> Has(r, op.node)
    [] op.kind \in {"LeafEdit", "SplitLeaf"} -> Has(r, op.node) /\ Holds(r.frontier, op.prev)
    [] op.kind = "MergeLeaves" -> Has(r, op.node) /\ Has(r, op.right) /\ Holds(r.frontier, op.prev) /\ Holds(r.frontier, op.prevRight)

\* One pass over what waits; passes are made until one applies nothing.
Pass(r) ==
  LET Try(s, op) == IF Holds(s.frontier, op.id) THEN s
                    ELSE IF DependenciesReady(s, op) THEN Apply(s, op)
                    ELSE [s EXCEPT !.buffered = Append(@, op)]
  IN FoldLeft(Try, [r EXCEPT !.buffered = <<>>], r.buffered)
DrainBuffered(r) == FoldLeft(LAMBDA s, i : Pass(s), r, [i \in 1..Len(r.buffered) |-> i])

ApplyUpdate(x, u) ==
  LET new == SelectSeq(u.ops, LAMBDA op : ~Holds(replica[x].frontier, op.id))
  IN /\ x \in u.to /\ Len(replica[x].buffered) < MaxBuffered
     /\ replica' = [replica EXCEPT ![x] = DrainBuffered([@ EXCEPT
          !.counter = Max({@} \cup {op.id[1] : op \in ToSet(u.ops)}), !.buffered = @ \o new])]
     /\ got' = [got EXCEPT ![x] = @ \cup {op.id : op \in ToSet(u.ops)}] /\ UNCHANGED sent

Send(to, ops) == /\ ops # <<>> /\ Cardinality(sent) < MaxSent
                 /\ sent' = sent \cup {[to |-> to, ops |-> ops]} /\ UNCHANGED <<replica, got>>
Diff(x, y) == Send({y}, SetToSortSeq({op \in replica[x].log : ~Holds(replica[y].frontier, op.id)},
                                     LAMBDA a, b : Less(a.id, b.id)))
\* Splits and merges travel in diffs only.
PassOn(x) == \E op \in replica[x].log : op.kind \notin Reshapes /\ Send(Peer \ {x}, <<op>>)

\* The bound on operations.
Room == Cardinality(Made) <= MaxOps
Next ==
  \E x \in Peer :
    \/ /\ Room
       /\ \E parent \in {Root} \cup DOMAIN replica[x].nodes, after \in {Root} \cup DOMAIN replica[x].nodes, leaf \in BOOLEAN :
            CreateNode(x, parent, after, leaf)
    \/ Room /\ \E node \in DOMAIN replica[x].nodes :
         \/ TombstoneNode(x, node)
         \/ \E after \in {Root} \cup DOMAIN replica[x].nodes : ReorderChild(x, node, after)
         \/ \E start \in 0..2, drop, insert \in BOOLEAN : EditLeaf(x, node, start, drop, insert)
         \/ \E at \in 0..2 : SplitLeaf(x, node, at)
         \/ \E right \in DOMAIN replica[x].nodes : MergeAdjacentLeaves(x, node, right)
    \/ PassOn(x) \/ \E y \in Peer \ {x} : Diff(x, y)
    \/ \E u \in sent : ApplyUpdate(x, u)
Spec == Init /\ [][Next]_vars

\* The tree a replica renders: its nodes without the bookkeeping.
Shown(r) == [n \in DOMAIN r.nodes |->
  [parent |-> r.nodes[n].parent, sort |-> r.nodes[n].sort, live |-> r.nodes[n].tomb = Root, text |-> Text(r.nodes[n].text.elements)]]

(***************************************************************************)
(* An operation that has reached a replica together with all the others is *)
(* not kept waiting (apply_update: "an op whose causal dependency has not  *)
(* arrived is buffered and retried to a fixpoint").                        *)
(***************************************************************************)
NoneWaits == \A x \in Peer : {op.id : op \in Made} \subseteq got[x] => replica[x].buffered = <<>>

(***************************************************************************)
(* Replicas that have received the same operations show the same tree, in  *)
(* whatever order they came, and none of them waits at a replica that has  *)
(* received all there are: the frontier holds exactly what was applied     *)
(* (LosslessTreeCrdt.apply_update, diff, DotRange.observe).                *)
(***************************************************************************)
TreeConverges ==
  /\ \A x, y \in Peer : replica[x].log = replica[y].log => Shown(replica[x]) = Shown(replica[y])
  /\ NoneWaits
  /\ \A x \in Peer, op \in Made : Holds(replica[x].frontier, op.id) <=> op \in replica[x].log
=============================================================================
