------------------------------ MODULE Reconcile ------------------------------
(***************************************************************************)
(* Reconciliation by key (reconciliation.py): the removes, inserts,        *)
(* updates and moves that turn one level into another, the keys of a       *)
(* longest increasing subsequence of their prior indices left in place.    *)
(* The moves are applied the way ReactiveMap.move_after applies one.       *)
(***************************************************************************)
EXTENDS Integers, Sequences, FiniteSets, SequencesExt, FiniteSetsExt

CONSTANTS Key, None

VARIABLES
  prior,    \* the level before
  target,   \* the level wanted
  changed,  \* the common keys whose value differs
  ops,      \* the operations not applied yet
  order,    \* the level as it becomes
  touched   \* ghost: the keys an operation named
vars == <<prior, target, changed, ops, order, touched>>

Levels == UNION {{s \in [1..n -> Key] : IsInjective(s)} : n \in 0..Cardinality(Key)}
CommonKeys(p, t) == SelectSeq(t, LAMBDA k : k \in ToSet(p))
Index(s, k) == CHOOSE i \in DOMAIN s : s[i] = k

\* heads[L]: the greatest first value of an increasing subsequence of length L of the suffix.
HeadsAfter(heads, v) ==
  LET at == Cardinality({i \in DOMAIN heads : heads[i] > v}) + 1 IN
  IF at > Len(heads) THEN Append(heads, v) ELSE [heads EXCEPT ![at] = IF v > @ THEN v ELSE @]
\* The length of the longest increasing subsequence that starts at each place.
LenStart(seq) ==
  LET n == Len(seq)
      heads[i \in 1..n + 1] == IF i = n + 1 THEN <<>> ELSE HeadsAfter(heads[i + 1], seq[i])
  IN [i \in 1..n |-> Cardinality({j \in DOMAIN heads[i + 1] : heads[i + 1][j] > seq[i]}) + 1]
\* From left to right, the first place that still reaches the length wanted.
Picked(seq) ==
  LET len == LenStart(seq)
      step(acc, i) ==
        IF acc.need > 0 /\ len[i] = acc.need /\ (acc.out = <<>> \/ seq[i] > seq[Last(acc.out)])
        THEN [need |-> acc.need - 1, out |-> Append(acc.out, i)] ELSE acc
  IN FoldLeft(step, [need |-> Max({0} \cup {len[i] : i \in DOMAIN len}), out |-> <<>>], [i \in DOMAIN seq |-> i]).out
StableKeys(p, t) ==
  LET common == CommonKeys(p, t)
      places == Picked([i \in DOMAIN common |-> Index(p, common[i])])
  IN [i \in DOMAIN places |-> common[places[i]]]
MovedKeys(p, t) == SelectSeq(CommonKeys(p, t), LAMBDA k : k \notin ToSet(StableKeys(p, t)))

\* A move is anchored after the common key before it in the target.
Anchor(common, k) == LET i == Index(common, k) IN IF i = 1 THEN None ELSE common[i - 1]
Op(kind, k, after) == [kind |-> kind, key |-> k, after |-> after]
ReconcileOps(p, t) ==
  LET common == CommonKeys(p, t)
      all(kind, keys) == [i \in DOMAIN keys |-> Op(kind, keys[i], None)]
      moved == MovedKeys(p, t)
  IN all("remove", SelectSeq(p, LAMBDA k : k \notin ToSet(t)))
     \o all("insert", SelectSeq(t, LAMBDA k : k \notin ToSet(p)))
     \o all("update", SelectSeq(common, LAMBDA k : k \in changed))
     \o [i \in DOMAIN moved |-> Op("move", moved[i], Anchor(common, moved[i]))]

Init ==
  /\ prior \in Levels /\ target \in Levels /\ changed \in {{}, Key}
  /\ order = prior /\ touched = {} /\ ops = <<>>
Diff == /\ touched = {} /\ ops = <<>> /\ order = prior
        /\ ops' = ReconcileOps(prior, target) /\ UNCHANGED <<prior, target, changed, order, touched>>

\* An insert carries no place: the level appends it.
Without(k) == SelectSeq(order, LAMBDA x : x # k)
Apply ==
  LET op == Head(ops)  rest == Without(op.key) IN
  /\ ops # <<>> /\ ops' = Tail(ops) /\ touched' = touched \cup {op.key}
  /\ order' = CASE op.kind = "remove" -> rest
                [] op.kind = "insert" -> Append(order, op.key)
                [] op.kind = "update" -> order
                [] op.kind = "move" -> InsertAt(rest, IF op.after = None THEN 1 ELSE Index(rest, op.after) + 1, op.key)
  /\ UNCHANGED <<prior, target, changed>>

Next == Diff \/ Apply
Spec == Init /\ [][Next]_vars

-----------------------------------------------------------------------------
\* The applied level has the target's keys, those both levels have in its
\* order; the keys left in place are as many as can be.
Rising(s) == \A i, j \in DOMAIN s : i < j => Index(prior, s[i]) < Index(prior, s[j])
Reconciles ==
  LET common == CommonKeys(prior, target)  stable == StableKeys(prior, target) IN
  /\ Rising(stable)
  /\ \A P \in SUBSET DOMAIN common :
       Rising(SelectSeq(common, LAMBDA k : Index(common, k) \in P)) => Cardinality(P) <= Len(stable)
  /\ (ops = <<>> /\ touched # {}) =>
       /\ ToSet(order) = ToSet(target) /\ CommonKeys(prior, order) = common
       /\ changed = {} => touched \cap ToSet(stable) = {}
=============================================================================
