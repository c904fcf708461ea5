------------------------------- MODULE Teardown -------------------------------
(***************************************************************************)
(* Teardown scopes: TeardownScope (teardown.py) and AsyncTeardownScope     *)
(* (async_context.py).  A scope owns the nodes it adopted and disposes     *)
(* them in reverse when it is closed.  An effect's cleanup is user code:   *)
(* it may adopt, disarm or close again while the close that runs it is at  *)
(* that effect; an awaited one lets other closes go on as well.            *)
(***************************************************************************)
EXTENDS Integers, Sequences, FiniteSets, SequencesExt

CONSTANTS Node, Scope, MaxCloses, None

VARIABLES
  mode,      \* "sync" or "async"
  effects,   \* the nodes that are effects
  owned,     \* scope -> the nodes it owns, in order of adoption
  armed,     \* scope -> _armed
  closes,    \* the close calls under way: their members, those left, and the effect whose cleanup runs
  disposed,  \* the nodes disposed
  cleanups,  \* node -> how often its cleanup was called
  taken,     \* ghost: scope -> the nodes it ever adopted
  spared,    \* ghost: the nodes of a disarmed scope, or behind a cleanup that raised
  calls      \* ghost: close calls so far
vars == <<mode, effects, owned, armed, closes, disposed, cleanups, taken, spared, calls>>

Init ==
  /\ mode \in {"sync", "async"} /\ effects \in SUBSET Node
  /\ owned = [s \in Scope |-> <<>>] /\ armed = [s \in Scope |-> TRUE]
  /\ closes = <<>> /\ disposed = {} /\ cleanups = [n \in Node |-> 0]
  /\ taken = [s \in Scope |-> {}] /\ spared = {} /\ calls = 0

\* User code runs only outside of every close, or in a cleanup.
Idle == \A i \in DOMAIN closes : closes[i].at # None
\* The close calls that can go on: all of them when awaited, the innermost one otherwise.
Awake == IF mode = "async" THEN DOMAIN closes ELSE DOMAIN closes \cap {Len(closes)}

Adopt(s, n) ==
  /\ Idle /\ n \notin disposed /\ n \notin taken[s]
  /\ owned' = [owned EXCEPT ![s] = Append(@, n)] /\ taken' = [taken EXCEPT ![s] = @ \cup {n}]
  /\ UNCHANGED <<mode, effects, armed, closes, disposed, cleanups, spared, calls>>
Disarm(s) ==
  /\ Idle /\ armed[s]
  /\ armed' = [armed EXCEPT ![s] = FALSE] /\ owned' = [owned EXCEPT ![s] = <<>>]
  /\ spared' = spared \cup ToSet(owned[s])
  /\ UNCHANGED <<mode, effects, closes, disposed, cleanups, taken, calls>>

\* Mutant: a scope keeps its list while it is closed.
Kept(s) == owned

\* The members are taken out before the first of them is disposed.
Taken(s) == [owned EXCEPT ![s] = <<>>]

Close(s) ==
  /\ Idle /\ armed[s] /\ calls < MaxCloses /\ calls' = calls + 1
  /\ closes' = Append(closes, [of |-> s, left |-> owned[s], all |-> owned[s], at |-> None]) /\ owned' = Taken(s)
  /\ UNCHANGED <<mode, effects, armed, disposed, cleanups, taken, spared>>

\* A node disposed already is passed over; an effect's cleanup is called once.
DisposeNext(i) ==
  LET call == closes[i]  n == Last(call.left)  runs == n \in effects \ disposed IN
  /\ call.at = None /\ call.left # <<>>
  /\ closes' = [closes EXCEPT ![i].left = Front(@), ![i].at = IF runs THEN n ELSE None]
  /\ disposed' = disposed \cup {n}
  /\ cleanups' = [cleanups EXCEPT ![n] = IF runs THEN @ + 1 ELSE @]
  /\ UNCHANGED <<mode, effects, owned, armed, taken, spared, calls>>
CleanupReturns(i) ==
  /\ Idle /\ closes[i].at # None /\ closes' = [closes EXCEPT ![i].at = None]
  /\ UNCHANGED <<mode, effects, owned, armed, disposed, cleanups, taken, spared, calls>>
\* It ends the close; an awaited cleanup's exception is suppressed.
CleanupRaises(i) ==
  /\ mode = "sync" /\ Idle /\ closes[i].at # None
  /\ closes' = RemoveAt(closes, i) /\ spared' = spared \cup ToSet(closes[i].left)
  /\ UNCHANGED <<mode, effects, owned, armed, disposed, cleanups, taken, calls>>
CloseReturns(i) ==
  /\ closes[i].at = None /\ closes[i].left = <<>> /\ closes' = RemoveAt(closes, i)
  /\ UNCHANGED <<mode, effects, owned, armed, disposed, cleanups, taken, spared, calls>>

Next ==
  \/ \E s \in Scope : Disarm(s) \/ Close(s)
  \/ \E s \in Scope, n \in Node : Adopt(s, n)
  \/ \E i \in Awake : DisposeNext(i) \/ CleanupReturns(i) \/ CleanupRaises(i) \/ CloseReturns(i)
Spec == Init /\ [][Next]_vars

-----------------------------------------------------------------------------
Place(s, n) == CHOOSE i \in DOMAIN s : s[i] = n
\* While the cleanup of an effect runs, whatever its scope held before it
\* is still there, another scope's nodes excepted; a cleanup is called once;
\* and what no scope owns any more, once no close is under way, is disposed,
\* unless the scope was disarmed or a cleanup raised.
TornDownInReverse ==
  /\ \A n \in Node : cleanups[n] <= 1
  /\ \A i \in DOMAIN closes : LET members == closes[i].all  e == closes[i].at IN
       e # None => \A n \in ToSet(members) :
         \/ Place(members, n) >= Place(members, e)
         \/ n \notin disposed \/ \E o \in Scope \ {closes[i].of} : n \in taken[o]
  /\ \A s \in Scope : \A n \in taken[s] :
       n \in disposed \cup spared \cup ToSet(owned[s]) \/ \E i \in DOMAIN closes : n \in ToSet(closes[i].left)
=============================================================================
