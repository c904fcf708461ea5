---------------------------- MODULE CrdtElements ----------------------------
(***************************************************************************)
(* What the replicated sequence, text and tree are made of.                *)
(***************************************************************************)
EXTENDS Integers, Sequences, FiniteSetsExt, SequencesExt

CONSTANT Peer

(***************************************************************************)
(* seqcrdt.py and lossless_tree_crdt.py: keys made of bytes, in lexical    *)
(* order, and the key that each module puts between two others.            *)
(***************************************************************************)
\* The mid value of the first place where the keys leave a gap.
Digit(frac, i, end) == IF i <= Len(frac) THEN frac[i] ELSE end
FracBetween(lo, hi) ==
  LET Gap(i) == Digit(hi, i, 256) - Digit(lo, i, 0)
      i == CHOOSE n \in 1..(Len(lo) + Len(hi) + 1) : Gap(n) > 1 /\ \A m \in 1..(n - 1) : Gap(m) <= 1
  IN Append(SubSeq(lo, 1, Min({i - 1, Len(lo)})), Digit(lo, i, 0) + Gap(i) \div 2)
FracAfter(lo) == Append(lo, 128)

FracBefore(f, g) ==
  \/ Len(f) < Len(g) /\ f = SubSeq(g, 1, Len(f))
  \/ \E i \in 1..Len(f) : i <= Len(g) /\ f[i] < g[i] /\ SubSeq(f, 1, i - 1) = SubSeq(g, 1, i - 1)

\* The first place with a gap, else one past the place where hi is one above lo, else past both.
\* There is no upper bound when hi is Open.
Open == <<256>>
KeyBetween(lo, hi) ==
  LET A(i) == Digit(lo, i, 0)
      B(i) == Digit(hi, i, IF hi = Open THEN 256 ELSE 0)
      cap == Len(lo) + (IF hi = Open THEN 0 ELSE Len(hi)) + 3
      apart == {i \in 1..cap : A(i) < B(i)}
      first == Min(apart)
      Padded(n) == [i \in 1..n |-> A(i)]
      Above == CHOOSE i \in (first + 1)..(cap + 1) : A(i) < 255 /\ \A m \in (first + 1)..(i - 1) : A(m) = 255
  IN IF apart = {} THEN Append(Padded(cap), 128)
     ELSE IF A(first) + 1 < B(first) THEN Append(Padded(first - 1), (A(first) + B(first)) \div 2)
     ELSE Append(Padded(Above - 1), (A(Above) + 256) \div 2)

(***************************************************************************)
(* textcrdt.py: the elements of a text, by id, and what is computed from   *)
(* them: the visible text, the join of two replicas', a version vector and *)
(* the delta it leaves out.                                                *)
(***************************************************************************)
Root == <<0, 0>>   \* the origin before everything; as the id of a deletion, none
Less(a, b) == a[1] < b[1] \/ (a[1] = b[1] /\ a[2] < b[2])
\* From the start of the buffer, origin by origin, to each element that hangs from it.
Paths(elements) ==
  LET path[id \in DOMAIN elements] ==
        IF elements[id].origin = Root THEN <<id>>
        ELSE IF elements[id].origin \in DOMAIN elements THEN Append(path[elements[id].origin], id) ELSE <<Root>>
  IN path
\* Pre-order: an origin before what hangs from it, siblings by descending id.
Precedes(p, q) ==
  \/ Len(p) < Len(q) /\ p = SubSeq(q, 1, Len(p))
  \/ \E i \in 1..Len(p) : i <= Len(q) /\ SubSeq(p, 1, i - 1) = SubSeq(q, 1, i - 1) /\ Less(q[i], p[i])
Text(elements) ==
  LET path == Paths(elements)
      visible == {id \in DOMAIN elements : elements[id].gone = Root /\ path[id][1] # Root}
  IN SetToSortSeq(visible, LAMBDA a, b : Precedes(path[a], path[b]))

\* The smaller of two deletions stays.
Earlier(d, e) == IF d = Root THEN e ELSE IF e = Root \/ Less(d, e) THEN d ELSE e
Join(mine, theirs) ==
  [id \in DOMAIN mine \cup DOMAIN theirs |->
     IF id \notin DOMAIN theirs THEN mine[id]
     ELSE IF id \notin DOMAIN mine THEN theirs[id]
     ELSE [mine[id] EXCEPT !.gone = Earlier(@, theirs[id].gone)]]

VersionVector(elements) ==
  LET ids == DOMAIN elements \cup {elements[id].gone : id \in DOMAIN elements}
  IN [y \in Peer |-> Max({0} \cup {id[1] : id \in {i \in ids : i[2] = y}})]
\* Mutant: a delta carries the new elements and not the new tombstones.
DeltaOfInserts(elements, vv) == [id \in {i \in DOMAIN elements : i[1] > vv[i[2]]} |-> elements[id]]

DeltaSince(elements, vv) ==
  LET New(id) == id # Root /\ id[1] > vv[id[2]]
  IN [id \in {i \in DOMAIN elements : New(i) \/ New(elements[i].gone)} |-> elements[id]]
=============================================================================
