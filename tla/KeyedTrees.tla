------------------------------ MODULE KeyedTrees ------------------------------
(***************************************************************************)
(* Trees of keyed nodes: the reactive SourceTree (tree.py), whose levels   *)
(* tell their readers of a change, and the memoized SemTree (semtree.py),  *)
(* which folds each subtree and recomputes the dirty part when it is read. *)
(* A node may have several parents; the callers build no cycle.            *)
(***************************************************************************)
EXTENDS Integers, Sequences, FiniteSets, SequencesExt

CONSTANTS Node, Value, MaxOps, None

VARIABLES
  kind,      \* which tree
  nodes,     \* node -> its value, None when absent
  kids,      \* children
  readers,   \* SourceTree: what the readers of children_of, contains_child and value_of have cached
  derived,   \* SemTree: node -> the cached fold
  dirty,     \* SemTree: _dirty
  parents,   \* SemTree: _parents
  ops        \* ghost: calls so far
vars == <<kind, nodes, kids, readers, derived, dirty, parents, ops>>

Present == {n \in Node : nodes[n] # None}
Empty == [n \in Node |-> None]

Init ==
  /\ kind \in {"source", "sem"} /\ nodes = Empty /\ kids = [n \in Node |-> <<>>]
  /\ readers = [order |-> Empty, members |-> Empty, value |-> Empty]
  /\ derived = [n \in Node |-> 0] /\ dirty = [n \in Node |-> TRUE]
  /\ parents = [n \in Node |-> {}] /\ ops = 0

\* Mutant: the dirtying stops at the parents.
NearChain(n) == {n} \cup parents[n]

\* The ancestors of n and n, along the parent index.
Chain(n) ==
  LET up[i \in 0..Cardinality(Node)] == IF i = 0 THEN {n} ELSE up[i - 1] \cup UNION {parents[m] : m \in up[i - 1]}
  IN up[Cardinality(Node)]

MarkDirtyChain(n) == dirty' = [m \in Node |-> dirty[m] \/ m \in Chain(n)]
\* The nodes under n, and n.
Under(n) ==
  LET down[i \in 0..Cardinality(Node)] ==
        IF i = 0 THEN {n} ELSE down[i - 1] \cup UNION {ToSet(kids[m]) : m \in down[i - 1]}
  IN down[Cardinality(Node)]

\* A change of a signal drops what its readers have cached.
Tell(of, n) == readers' = [readers EXCEPT ![of][n] = None]
Called == ops < MaxOps /\ ops' = ops + 1

Add(n, v) ==
  /\ Called /\ n \notin Present /\ nodes' = [nodes EXCEPT ![n] = v]
  /\ UNCHANGED <<kind, kids, readers, derived, dirty, parents>>
SetNodeValue(n, v) ==
  /\ Called /\ n \in Present /\ nodes[n] # v /\ nodes' = [nodes EXCEPT ![n] = v]
  /\ Tell("value", n) /\ MarkDirtyChain(n) /\ UNCHANGED <<kind, kids, derived, parents>>
InsertChild(p, c, v) ==
  /\ Called /\ p \in Present /\ c \notin ToSet(kids[p]) /\ p \notin Under(c)
  /\ nodes' = IF c \in Present THEN nodes ELSE [nodes EXCEPT ![c] = v]
  /\ kids' = [kids EXCEPT ![p] = Append(@, c)] /\ parents' = [parents EXCEPT ![c] = @ \cup {p}]
  /\ readers' = [readers EXCEPT !.members[p] = None, !.order[p] = None]
  /\ MarkDirtyChain(p) /\ UNCHANGED <<kind, derived>>
MoveChild(p, c, i) ==
  LET rest == SelectSeq(kids[p], LAMBDA x : x # c) IN
  /\ kind = "source" /\ Called /\ c \in ToSet(kids[p])
  /\ kids' = [kids EXCEPT ![p] = InsertAt(rest, (IF i < Len(rest) THEN i ELSE Len(rest)) + 1, c)]
  /\ Tell("order", p) /\ UNCHANGED <<kind, nodes, derived, dirty, parents>>
RemoveChild(p, c) ==
  /\ kind = "sem" /\ Called /\ c \in ToSet(kids[p])
  /\ kids' = [kids EXCEPT ![p] = SelectSeq(@, LAMBDA x : x # c)]
  /\ parents' = [parents EXCEPT ![c] = @ \ {p}] /\ MarkDirtyChain(p)
  /\ UNCHANGED <<kind, nodes, readers, derived>>

\* The readers of a level compute again.
ReadLevel(n) ==
  /\ kind = "source" /\ n \in Present
  /\ readers' = [order |-> [readers.order EXCEPT ![n] = kids[n]],
                 members |-> [readers.members EXCEPT ![n] = ToSet(kids[n])],
                 value |-> [readers.value EXCEPT ![n] = nodes[n]]]
  /\ UNCHANGED <<kind, nodes, kids, derived, dirty, parents, ops>>
\* Recomputes what is dirty on the way down, and stops at what is not.
Fold(value, below) == FoldLeft(LAMBDA x, y : x + y, value, below)
Derived(n) ==
  LET total[m \in Node] == IF dirty[m] THEN Fold(nodes[m], [i \in DOMAIN kids[m] |-> total[kids[m][i]]]) ELSE derived[m]
      reach[i \in 0..Cardinality(Node)] ==
        IF i = 0 THEN {n} ELSE reach[i - 1] \cup UNION {ToSet(kids[m]) : m \in {x \in reach[i - 1] : dirty[x]}}
      again == {m \in reach[Cardinality(Node)] : dirty[m]}
  IN /\ kind = "sem" /\ n \in Present
     /\ derived' = [m \in Node |-> IF m \in again THEN total[m] ELSE derived[m]]
     /\ dirty' = [m \in Node |-> dirty[m] /\ m \notin again]
     /\ UNCHANGED <<kind, nodes, kids, readers, parents, ops>>

Next ==
  \/ \E n \in Node : ReadLevel(n) \/ Derived(n)
  \/ \E n \in Node, v \in Value : Add(n, v) \/ SetNodeValue(n, v)
  \/ \E p, c \in Node :
       \/ \E v \in Value : InsertChild(p, c, v)
       \/ \E i \in 0..2 : MoveChild(p, c, i)
       \/ RemoveChild(p, c)
Spec == Init /\ [][Next]_vars

-----------------------------------------------------------------------------
\* A fold that is not dirty is the fold of the whole subtree as it is now,
\* and no reader of a level holds what the level no longer is.
TreesFold ==
  LET whole[n \in Node] == Fold(nodes[n], [i \in DOMAIN kids[n] |-> whole[kids[n][i]]]) IN
  /\ \A n \in Present : ~dirty[n] => derived[n] = whole[n]
  /\ \A n \in Node :
       /\ readers.order[n] \in {None, kids[n]}
       /\ readers.members[n] \in {None, ToSet(kids[n])} /\ readers.value[n] \in {None, nodes[n]}
=============================================================================
