------------------------------ MODULE StateChart ------------------------------
(***************************************************************************)
(* A Harel chart (statechart.py): compound and parallel states, shallow    *)
(* and deep history, guarded, internal and external transitions.  The      *)
(* candidates of one event are ordered by depth and declaration; those of  *)
(* one source come from leaves of a Python set and stand in any order.     *)
(* Actions are abstracted to the states left and entered and the sources   *)
(* whose transitions ran.  Charts whose transitions enter a region from    *)
(* outside its parallel state, or a leaf's external self-transition, are   *)
(* outside the chart Def this is checked with: the code leaves sibling     *)
(* regions unentered there (see the findings).                             *)
(***************************************************************************)
EXTENDS Integers, FiniteSets, Sequences, SequencesExt

CONSTANTS
  Def,    \* state -> [parent, declared, history, parallel, initial, default, rank, on]
  Event, Guard, None

State == DOMAIN Def
Root == CHOOSE s \in State : Def[s].parent = None

VARIABLES
  config,    \* _config: the active configuration
  recorded,  \* _history: history state -> what it recorded, None before
  last,      \* _last_actions of the last send: [exited, ran, entered]
  seen       \* ghost: history state -> what was last active below its region
vars == <<config, recorded, last, seen>>

-----------------------------------------------------------------------------
\* Parsing: the kind follows from the structure, and a declared one that
\* contradicts it is refused, as are a second root and an undeclared state.
Inferred(s) ==
  CASE Def[s].history # None -> "history"
    [] Def[s].history = None /\ Def[s].parallel -> "parallel"
    [] OTHER -> IF Def[s].initial # None THEN "compound" ELSE "atomic"
Kind(s) == IF Def[s].declared = "final" THEN "final" ELSE Inferred(s)
StateParses(s) ==
  /\ \/ Def[s].declared \in {None, Inferred(s)}
     \/ Def[s].declared = "final" /\ Inferred(s) = "atomic"
  /\ Def[s].history \in {None, "shallow", "deep"}
Parses ==
  /\ \A s \in State : StateParses(s)
  /\ Cardinality({s \in State : Def[s].parent = None}) = 1
  /\ \A s \in State : /\ {Def[s].parent, Def[s].initial, Def[s].default} \subseteq State \cup {None}
                     /\ \A e \in DOMAIN Def[s].on : Def[s].on[e].target \in State

\* The parsed chart.
Ancestors[s \in State] ==
  {s} \cup IF Def[s].parent = None THEN {} ELSE Ancestors[Def[s].parent]
Depth(s) == Cardinality(Ancestors[s]) - 1
Within(s, anc) == s # anc /\ anc \in Ancestors[s]
Children(s) == {c \in State : Def[c].parent = s}
IsLeaf(s) == Kind(s) \in {"atomic", "final"}
Histories == {s \in State : Kind(s) = "history"}
Lca(s, t) == CHOOSE x \in Ancestors[s] \cap Ancestors[t] : \A y \in Ancestors[s] \cap Ancestors[t] : y \in Ancestors[x]
BelowIn(set, s) == {x \in set : Within(x, s)}

\* What entering a state enters: a compound state's initial child, every
\* region of a parallel one.
EnterSubtree[s \in State] ==
  {s} \cup CASE Kind(s) = "compound" -> EnterSubtree[Def[s].initial]
             [] Kind(s) = "parallel" -> UNION {EnterSubtree[c] : c \in Children(s)}
             [] OTHER -> {}
PathBelow(lca, target) == Ancestors[target] \ Ancestors[lca]

-----------------------------------------------------------------------------
\* A guard the host does not supply is false.
GuardPasses(t, guards) == t.guard = None \/ t.guard \in guards

\* What a history state enters: the recorded child and its subtree, the
\* recorded set, or, with nothing recorded, the default or the initial child.
Restore(rec, h) ==
  LET region == Def[h].parent
      start == IF Def[h].default # None THEN Def[h].default ELSE Def[region].initial
  IN CASE rec[h] = None -> PathBelow(region, start) \cup EnterSubtree[start]
       [] rec[h] # None /\ Def[h].history = "shallow" -> UNION {EnterSubtree[c] : c \in rec[h]}
       [] OTHER -> rec[h]

\* _compute_exit_enter.
IsInternal(c) == c.t.internal /\ (c.t.target = c.source \/ Within(c.t.target, c.source))
Scope(c) == IF IsInternal(c) THEN c.source ELSE Lca(c.leaf, c.t.target)
ExitSet(c) == BelowIn(config, Scope(c))
EnterSet(c) ==
  LET target == c.t.target IN
  IF Kind(target) = "history"
  THEN PathBelow(Scope(c), Def[target].parent) \cup Restore(recorded, target)
  ELSE PathBelow(Scope(c), target) \cup EnterSubtree[target]

\* What a region's history child keeps of the configuration its region left.
Recording(h) ==
  LET region == Def[h].parent IN
  IF Def[h].history = "deep" THEN BelowIn(config, region)
  ELSE {k \in Children(region) \cap config : Kind(k) # "history"}
RecordExits(exits) ==
  [h \in Histories |-> IF Def[h].parent \in exits THEN Recording(h) ELSE recorded[h]]

-----------------------------------------------------------------------------
\* One candidate per active leaf: the innermost ancestor with a transition
\* whose guard passes.
Armed(s, e, guards) == e \in DOMAIN Def[s].on /\ GuardPasses(Def[s].on[e], guards)
Candidates(e, guards) ==
  {[source |-> q[1], t |-> Def[q[1]].on[e], leaf |-> q[2]] :
     q \in {p \in State \X {x \in config : IsLeaf(x)} :
       /\ p[1] \in Ancestors[p[2]] /\ Armed(p[1], e, guards)
       /\ \A x \in Ancestors[p[2]] : Armed(x, e, guards) => x \in Ancestors[p[1]]}}
Before(c, d) == \/ Depth(c.source) > Depth(d.source)
                \/ Depth(c.source) = Depth(d.source) /\ Def[c.source].rank < Def[d.source].rank
Orders(cands) ==
  {o \in SetToSeqs(cands) : \A i, j \in DOMAIN o : Before(o[i], o[j]) => i < j}

NothingTaken == [exited |-> {}, entered |-> {}, ran |-> {}]
\* Mutant: conflicting candidates are all taken.
TakeAll(acc, c) ==
  [exited |-> acc.exited \cup ExitSet(c), entered |-> acc.entered \cup EnterSet(c),
   ran |-> acc.ran \cup {c.source}]
\* A candidate whose exits meet those of one already taken is skipped.
Take(acc, c) ==
  IF ExitSet(c) \cap acc.exited # {} THEN acc
  ELSE [exited |-> acc.exited \cup ExitSet(c), entered |-> acc.entered \cup EnterSet(c),
        ran |-> acc.ran \cup {c.source}]
Outcomes(e, guards) ==
  IF Candidates(e, guards) = {} THEN {}
  ELSE {FoldLeft(Take, NothingTaken, o) : o \in Orders(Candidates(e, guards))}
After(outcome) == (config \ outcome.exited) \cup outcome.entered

Noted(c) == [h \in Histories |-> IF Def[h].parent \in c THEN BelowIn(c, Def[h].parent) ELSE seen[h]]

Init ==
  /\ Parses
  /\ config = EnterSubtree[Root]
  /\ last = [NothingTaken EXCEPT !.entered = config]
  /\ recorded = [h \in Histories |-> None]
  /\ seen = [h \in Histories |-> BelowIn(config, Def[h].parent)]

Accept(e, guards) == \E outcome \in Outcomes(e, guards) :
  /\ config' = After(outcome) /\ recorded' = RecordExits(outcome.exited)
  /\ last' = outcome /\ seen' = Noted(After(outcome))
Reject(e, guards) ==
  /\ Outcomes(e, guards) = {} /\ last' = NothingTaken
  /\ UNCHANGED <<config, recorded, seen>>

Next == \E e \in Event, guards \in SUBSET Guard : Accept(e, guards) \/ Reject(e, guards)
Spec == Init /\ [][Next]_vars

-----------------------------------------------------------------------------
\* Below an active state of the set: one child of a compound state, every
\* region of a parallel one, no history state, no child without its parent.
WholeBelow(set, top) ==
  \A s \in {x \in set : x = top \/ Within(x, top)} :
    /\ Kind(s) # "history" /\ (s # top => Def[s].parent \in set)
    /\ Kind(s) = "compound" => Cardinality(Children(s) \cap set) = 1
    /\ Kind(s) = "parallel" => Children(s) \subseteq set

\* Whatever events and guards come, and in whatever order the leaves of a
\* set are visited: the configuration is whole, the result of every event is
\* the same for every order, and each history state would restore exactly
\* what was active when its region was last left, whole again.
ChartFaithful ==
  /\ Root \in config /\ WholeBelow(config, Root)
  /\ \A e \in Event, guards \in SUBSET Guard :
       Cardinality({<<After(o), RecordExits(o.exited)>> : o \in Outcomes(e, guards)}) <= 1
  /\ \A h \in Histories : LET region == Def[h].parent IN
       /\ WholeBelow({region} \cup Restore(recorded, h), region)
       /\ recorded[h] # None /\ region \notin config =>
            IF Def[h].history = "deep" THEN recorded[h] = seen[h]
            ELSE recorded[h] = Children(region) \cap seen[h]
=============================================================================
