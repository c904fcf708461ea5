------------------------------ MODULE AsyncGraph ------------------------------
(***************************************************************************)
(* The asyncio graph of lazily-py: AsyncContext with its AsyncSource,      *)
(* AsyncComputed and AsyncEffectHandle (async_context.py), over AsyncSlot  *)
(* (async_slot.py) and AsyncEffect (async_effect.py).                      *)
(*                                                                         *)
(* One transition is what one coroutine does between two awaits, so        *)
(* anything else on the event loop may run between two transitions.  User  *)
(* bodies may await anything between two reads.  A body reads the nodes    *)
(* Reads[n] in order, and what a slot computes is the sequence of values   *)
(* it read: two results are equal exactly when everything upstream was.    *)
(***************************************************************************)
EXTENDS Naturals, Sequences, FiniteSets

CONSTANTS
  Source, Slot, Effect,  \* the nodes
  Client,                \* the tasks that call get_async
  Task,                  \* bound: the computations in flight at once
  Val, None,
  Reads,                 \* what each body reads
  MayRaise,              \* the bodies that may raise
  Clearable, Disposable, \* the slots hard_clear is called on; the nodes disposed
  Closable,              \* whether the context is disposed
  MaxChanges             \* bound: the changes clients make

Node == Source \cup Slot
Disposer == {"client", "context"}  \* the callers of an effect's dispose_async
Body == Task \cup Effect
Caller == Client \cup Body

ASSUME NodesAssumption ==
  /\ Source \cap Slot = {} /\ Effect \cap Node = {} /\ None \notin Task \cup Slot \cup Effect \cup Val
  /\ Task \cap Effect = {} /\ Client \cap Body = {}
  /\ Reads \in [Slot \cup Effect -> Seq(Node)]
  /\ MayRaise \subseteq Slot \cup Effect /\ Clearable \subseteq Slot
  /\ Disposable \subseteq Node \cup Effect /\ Closable \in BOOLEAN /\ MaxChanges \in Nat

VARIABLES
  value,       \* AsyncSource._value
  dependents,  \* AsyncContext._dependents; _dependencies is its converse
  gone,        \* the handles with _disposed set
  closed,      \* AsyncContext.dispose_async: "open", "closing" or "closed"
  awaited,     \* ... and the effects it waits for
  status, val, \* AsyncSlot._state and _value
  future,      \* the task that will resolve AsyncSlot._future, None if no such
  task,        \* the slot each _drive task computes, None if not in use
  ready,       \* the _drive tasks that have not started, in creation order
  args,        \* what each body in flight has read
  wait,        \* the get_async each caller is in: the slot, and the task whose
               \* future it awaits or what it does when it next runs
  flush,       \* where the flush task of each AsyncEffect is
  pending,     \* AsyncEffect._pending
  armed,       \* AsyncEffect._cleanup is not None
  dead,        \* AsyncEffect is DISPOSED
  disposal,    \* where each call of an effect's dispose_async is
  seen,        \* what the last run of each effect read, None if it raised
  changes      \* how many changes clients made

graphVars == <<value, gone, closed, awaited>>
slotVars == <<status, val, future>>
taskVars == <<task, ready>>
bodyVars == <<args, wait>>
effectVars == <<flush, pending, armed, dead, disposal, seen>>
vars == <<graphVars, dependents, slotVars, taskVars, bodyVars, effectVars, changes>>

Owner(b) == IF b \in Task THEN task[b] ELSE b
NoDependents == [d \in Node |-> {}]

Init ==
  /\ value \in [Source -> Val]
  /\ dependents = NoDependents
  /\ gone = {} /\ closed = "open" /\ awaited = {}
  /\ status = [s \in Slot |-> "empty"] /\ val = [s \in Slot |-> None]
  /\ future = [s \in Slot |-> None]
  /\ task = [t \in Task |-> None] /\ ready = <<>>
  /\ args = [b \in Body |-> <<>>] /\ wait = [c \in Caller |-> None]
  \* effect_async schedules the first run
  /\ flush = [e \in Effect |-> "new"] /\ pending = [e \in Effect |-> TRUE]
  /\ armed = [e \in Effect |-> FALSE] /\ dead = [e \in Effect |-> FALSE]
  /\ disposal = [e \in Effect |-> [d \in Disposer |-> "no"]] /\ seen = [e \in Effect |-> None]
  /\ changes = 0

(***************************************************************************)
(* Edges and invalidation.                                                 *)
(***************************************************************************)
Tracked(d, r) == [dependents EXCEPT ![d] = @ \cup {r}]
Detached(r) == [d \in Node |-> dependents[d] \ {r}]

\* Everything reached from roots over the reverse edges; an effect ends the walk.
Cone(roots) ==
  {r \in Slot \cup Effect : \A S \in SUBSET (Slot \cup Effect) :
     roots \subseteq S /\ (\A s \in S \cap Slot : dependents[s] \subseteq S) => r \in S}

\* AsyncSlot.invalidate of each slot of S: a computation in flight is orphaned.
Invalidated(S) ==
  /\ status' = [s \in Slot |-> IF s \in S /\ status[s] # "error" THEN "computing" ELSE status[s]]
  /\ val' = [s \in Slot |-> IF s \in S THEN None ELSE val[s]]
  /\ future' = [s \in Slot |-> IF s \in S THEN None ELSE future[s]]

\* AsyncEffectHandle._schedule of each effect of S.
Scheduled(S) ==
  /\ pending' = [e \in Effect |-> pending[e] \/ e \in S \ gone]
  /\ flush' = [e \in Effect |-> IF e \in S \ gone /\ flush[e] = "none" THEN "new" ELSE flush[e]]

\* _invalidate_dependents
Invalidates(roots) ==
  /\ Invalidated(Cone(roots) \cap Slot)
  /\ Scheduled(Cone(roots))

(***************************************************************************)
(* Computations: AsyncSlot._spawn and its _drive, AsyncComputed._run.  The *)
(* memo guard is not modelled: its eq is equality, so it changes only      *)
(* which of two equal objects is published.                                *)
(***************************************************************************)
\* Mutant: a completion is published whenever the slot is computing.
CurrentByStatus(t) == status[task[t]] = "computing"
\* A completion counts only if the slot still waits for it (`_future is fut`;
\* every change of the revision drops the future, so the revisions agree then).
Current(t) == future[task[t]] = t

\* Mutant: a stale completion leaves its waiters asleep.
WokenIfCurrent(w, t, o) ==
  [c \in Caller |-> IF w[c] # None /\ w[c].on = t /\ Current(t) THEN [w[c] EXCEPT !.on = o] ELSE w[c]]
\* The callers that await task t run again, and find o: "loop" to look at the
\* slot once more, "raise" an exception.
Woken(w, t, o) ==
  [c \in Caller |-> IF w[c] # None /\ w[c].on = t THEN [w[c] EXCEPT !.on = o] ELSE w[c]]

\* _drive ends: a current completion is published, a stale one is discarded, and
\* either way the waiters wake up.
DriveEnds(t, raises) ==
  /\ IF Current(t)
     THEN /\ status' = [status EXCEPT ![task[t]] = IF raises THEN "error" ELSE "resolved"]
          /\ val' = [val EXCEPT ![task[t]] = IF raises THEN None ELSE args[t]]
          /\ future' = [future EXCEPT ![task[t]] = None]
     ELSE UNCHANGED slotVars
  /\ task' = [task EXCEPT ![t] = None]
  /\ args' = [args EXCEPT ![t] = <<>>]
  /\ wait' = Woken([wait EXCEPT ![t] = None], t, IF raises /\ Current(t) THEN "raise" ELSE "loop")

\* Mutant: a run does not look whether the context was disposed.
StartTaskAnyway(t) ==
  /\ ready # <<>> /\ Head(ready) = t
  /\ ready' = Tail(ready)
  /\ dependents' = Detached(task[t])
  /\ UNCHANGED <<graphVars, slotVars, task, bodyVars, effectVars, changes>>
\* Tasks start in the order they were created; a run first drops the edges of the
\* run before it, or fails if the context was disposed.
StartTask(t) ==
  /\ ready # <<>> /\ Head(ready) = t
  /\ ready' = Tail(ready)
  /\ IF closed = "open"
     THEN /\ dependents' = Detached(task[t])
          /\ UNCHANGED <<slotVars, task, bodyVars>>
     ELSE DriveEnds(t, TRUE) /\ UNCHANGED dependents
  /\ UNCHANGED <<graphVars, effectVars, changes>>

(***************************************************************************)
(* get_async: a caller looks at the slot until it finds a value.           *)
(***************************************************************************)
Looks(c, s) == wait[c] # None /\ wait[c] = [slot |-> s, on |-> "loop"]

GetResolved(c, s) ==
  /\ Looks(c, s) /\ status[s] = "resolved"
  /\ wait' = [wait EXCEPT ![c] = None]
  /\ args' = IF c \in Body THEN [args EXCEPT ![c] = Append(@, val[s])] ELSE args
  /\ UNCHANGED <<graphVars, dependents, slotVars, taskVars, effectVars, changes>>

GetAttaches(c, s) ==
  /\ Looks(c, s) /\ status[s] = "computing" /\ future[s] # None
  /\ wait' = [wait EXCEPT ![c].on = future[s]]
  /\ UNCHANGED <<graphVars, dependents, slotVars, taskVars, args, effectVars, changes>>

Free == {t \in Task : task[t] = None}
GetSpawns(c, s) ==
  /\ Looks(c, s) /\ status[s] # "resolved" /\ future[s] = None
  /\ Free # {}
  /\ LET t == CHOOSE t \in Free : TRUE IN
       /\ task' = [task EXCEPT ![t] = s] /\ ready' = Append(ready, t)
       /\ status' = [status EXCEPT ![s] = "computing"]
       /\ val' = [val EXCEPT ![s] = None]
       /\ future' = [future EXCEPT ![s] = t]
       /\ wait' = [wait EXCEPT ![c].on = t]
  /\ UNCHANGED <<graphVars, dependents, args, effectVars, changes>>

(***************************************************************************)
(* AsyncEffect.flush and AsyncEffectHandle._run.                           *)
(***************************************************************************)
\* The body of e starts afresh, unless the handle or the context was disposed;
\* deps are the edges so far, more whether another rerun is queued.
Enters(e, deps, more) ==
  IF e \in gone \/ closed # "open"
  THEN /\ flush' = [flush EXCEPT ![e] = "none"]
       /\ pending' = [pending EXCEPT ![e] = FALSE]
       /\ dependents' = deps
  ELSE /\ flush' = [flush EXCEPT ![e] = "body"]
       /\ pending' = [pending EXCEPT ![e] = more]
       /\ dependents' = [d \in Node |-> deps[d] \ {e}]

\* flush goes round its loop: the retained cleanup comes before the next body.
FlushLoop(e, retained, deps) ==
  CASE dead[e] \/ ~pending[e] ->
         /\ flush' = [flush EXCEPT ![e] = "none"]
         /\ armed' = [armed EXCEPT ![e] = retained]
         /\ dependents' = deps /\ UNCHANGED pending
    [] ~dead[e] /\ pending[e] /\ retained ->
         /\ flush' = [flush EXCEPT ![e] = "cleanup"]
         /\ pending' = [pending EXCEPT ![e] = FALSE]
         /\ armed' = [armed EXCEPT ![e] = FALSE]
         /\ dependents' = deps
    [] OTHER ->
         /\ armed' = [armed EXCEPT ![e] = FALSE]
         /\ Enters(e, deps, FALSE)

FlushStart(e) ==
  /\ flush[e] = "new"
  /\ FlushLoop(e, armed[e], dependents)
  /\ UNCHANGED <<graphVars, slotVars, taskVars, bodyVars, dead, disposal, seen, changes>>

CleanupEnds(e) ==
  /\ flush[e] = "cleanup"
  /\ IF dead[e] THEN flush' = [flush EXCEPT ![e] = "none"] /\ UNCHANGED <<pending, dependents>>
     ELSE Enters(e, dependents, pending[e])
  /\ UNCHANGED <<graphVars, slotVars, taskVars, bodyVars, armed, dead, disposal, seen, changes>>

\* The body of e ends and returns a cleanup, or none; if e was disposed while it
\* ran, flush runs the cleanup at once.
BodyEnds(e, cleanup, read, deps) ==
  /\ seen' = [seen EXCEPT ![e] = read]
  /\ args' = [args EXCEPT ![e] = <<>>] /\ wait' = [wait EXCEPT ![e] = None]
  /\ IF dead[e]
     THEN /\ flush' = [flush EXCEPT ![e] = IF cleanup THEN "release" ELSE "none"]
          /\ dependents' = deps /\ UNCHANGED <<pending, armed>>
     ELSE FlushLoop(e, cleanup, deps)
  /\ UNCHANGED <<dead, disposal>>

ReleaseEnds(e) ==
  /\ flush[e] = "release"
  /\ flush' = [flush EXCEPT ![e] = "none"]
  /\ UNCHANGED <<graphVars, dependents, slotVars, taskVars, bodyVars,
                 pending, armed, dead, disposal, seen, changes>>

(***************************************************************************)
(* Bodies, of computeds and of effects (AsyncComputeContext).              *)
(***************************************************************************)
Running(b) ==
  /\ wait[b] = None
  /\ IF b \in Task THEN task[b] # None /\ \A i \in DOMAIN ready : ready[i] # b
     ELSE flush[b] = "body"
HasNext(b) == Len(args[b]) < Len(Reads[Owner(b)])
NextRead(b) == Reads[Owner(b)][Len(args[b]) + 1]

Fails(b, deps) ==
  /\ IF b \in Task
     THEN DriveEnds(b, TRUE) /\ dependents' = deps /\ UNCHANGED effectVars
     ELSE BodyEnds(b, FALSE, None, deps) /\ UNCHANGED <<slotVars, task>>
  /\ UNCHANGED <<graphVars, ready, changes>>

\* The edge is registered before the read.
ReadSource(b, x) ==
  /\ Running(b) /\ HasNext(b) /\ NextRead(b) = x /\ x \notin gone
  /\ dependents' = Tracked(x, Owner(b))
  /\ args' = [args EXCEPT ![b] = Append(@, value[x])]
  /\ UNCHANGED <<graphVars, slotVars, taskVars, wait, effectVars, changes>>

ReadSlot(b, s) ==
  /\ Running(b) /\ HasNext(b) /\ NextRead(b) = s /\ s \notin gone /\ closed = "open"
  /\ dependents' = Tracked(s, Owner(b))
  /\ wait' = [wait EXCEPT ![b] = [slot |-> s, on |-> "loop"]]
  /\ UNCHANGED <<graphVars, slotVars, taskVars, args, effectVars, changes>>

\* DisposedError, AsyncContextDisposedError
ReadFails(b) ==
  /\ Running(b) /\ HasNext(b)
  /\ NextRead(b) \in gone \/ (NextRead(b) \in Slot /\ closed # "open")
  /\ Fails(b, Tracked(NextRead(b), Owner(b)))

\* What b awaits raises in it.
AwaitRaises(b) ==
  /\ wait[b] # None /\ wait[b].on = "raise"
  /\ Fails(b, dependents)

BodyRaises(b) ==
  /\ Running(b) /\ Owner(b) \in MayRaise
  /\ Fails(b, dependents)

SlotReturns(t) ==
  /\ Running(t) /\ ~HasNext(t)
  /\ DriveEnds(t, FALSE)
  /\ UNCHANGED <<graphVars, dependents, ready, effectVars, changes>>

EffectReturns(e) ==
  /\ Running(e) /\ ~HasNext(e)
  /\ \E cleanup \in BOOLEAN : BodyEnds(e, cleanup, args[e], dependents)
  /\ UNCHANGED <<graphVars, slotVars, taskVars, changes>>

(***************************************************************************)
(* Clients.                                                                *)
(***************************************************************************)
Changes == changes < MaxChanges /\ changes' = changes + 1

Call(c, s) ==
  /\ wait[c] = None /\ s \notin gone /\ closed = "open"
  /\ wait' = [wait EXCEPT ![c] = [slot |-> s, on |-> "loop"]]
  /\ UNCHANGED <<graphVars, dependents, slotVars, taskVars, args, effectVars, changes>>

CallRaises(c) ==
  /\ wait[c] # None /\ wait[c].on = "raise"
  /\ wait' = [wait EXCEPT ![c] = None]
  /\ UNCHANGED <<graphVars, dependents, slotVars, taskVars, args, effectVars, changes>>

\* A batch, or a single set; an equal write changes nothing, and a write to a
\* disposed context reaches nobody.
Write ==
  /\ Changes
  /\ \E new \in [Source -> Val] :
       LET X == {x \in Source : new[x] # value[x]} IN
       /\ X # {} /\ X \cap gone = {}
       /\ value' = new
       /\ IF closed = "open" THEN Invalidates(UNION {dependents[x] : x \in X})
          ELSE UNCHANGED <<slotVars, pending, flush>>
  /\ UNCHANGED <<gone, closed, awaited, dependents, taskVars, bodyVars, armed, dead, disposal, seen>>

InvalidateSlot(s) ==
  /\ Changes
  /\ IF closed = "open"
     THEN Invalidated(({s} \cup Cone(dependents[s])) \cap Slot) /\ Scheduled(Cone(dependents[s]))
     ELSE Invalidated({s}) /\ UNCHANGED <<pending, flush>>
  /\ UNCHANGED <<graphVars, dependents, taskVars, bodyVars, armed, dead, disposal, seen>>

HardClear(s) ==
  /\ Changes /\ s \in Clearable
  /\ status' = [status EXCEPT ![s] = "empty"]
  /\ val' = [val EXCEPT ![s] = None]
  /\ future' = [future EXCEPT ![s] = None]
  /\ UNCHANGED <<graphVars, dependents, taskVars, bodyVars, effectVars>>

\* Disposal dirties the slots that survive and schedules no effect.
DisposeSource(x) ==
  /\ Changes /\ x \in Disposable \ gone /\ closed # "closed"
  /\ gone' = gone \cup {x}
  /\ dependents' = [dependents EXCEPT ![x] = {}]
  /\ Invalidated(Cone(dependents[x]) \cap Slot)
  /\ UNCHANGED <<value, closed, awaited, taskVars, bodyVars, effectVars>>

DisposeSlot(s) ==
  LET dirty == Cone(dependents[s]) \cap Slot IN
  /\ Changes /\ s \in Disposable \ gone /\ closed # "closed"
  /\ gone' = gone \cup {s}
  /\ dependents' = [Detached(s) EXCEPT ![s] = {}]
  /\ status' = [n \in Slot |-> CASE n = s -> "empty"
                                 [] n \in dirty /\ status[n] # "error" -> "computing"
                                 [] OTHER -> status[n]]
  /\ val' = [n \in Slot |-> IF n \in dirty \cup {s} THEN None ELSE val[n]]
  /\ future' = [n \in Slot |-> IF n \in dirty \cup {s} THEN None ELSE future[n]]
  /\ UNCHANGED <<value, closed, awaited, taskVars, bodyVars, effectVars>>

(***************************************************************************)
(* dispose_async of an effect, called by a client and by the disposal of   *)
(* the context.  The first call awaits the flush task; both then release   *)
(* the retained cleanup.                                                   *)
(***************************************************************************)
At(e, d, place) == disposal[e][d] = place
Goes(e, d, place) == disposal' = [disposal EXCEPT ![e][d] = place]

DisposeEffect(e, d) ==
  /\ At(e, d, "no")
  /\ IF d = "client" THEN Changes /\ e \in Disposable ELSE e \in awaited /\ UNCHANGED changes
  /\ gone' = gone \cup {e}
  /\ Goes(e, d, IF e \in gone THEN "release" ELSE "task")
  /\ UNCHANGED <<value, closed, awaited, dependents, slotVars, taskVars, bodyVars,
                 flush, pending, armed, dead, seen>>

\* Mutant: dispose runs the retained cleanup and keeps it.
DisposeKeepsCleanup(e, d) ==
  /\ At(e, d, "release") \/ (At(e, d, "task") /\ flush[e] = "none")
  /\ dead' = [dead EXCEPT ![e] = TRUE]
  /\ pending' = [pending EXCEPT ![e] = FALSE]
  /\ Goes(e, d, IF flush[e] = "cleanup" THEN "await" ELSE "cleanup")
  /\ UNCHANGED <<graphVars, dependents, slotVars, taskVars, bodyVars, armed, flush, seen, changes>>
\* AsyncEffect.dispose
DisposeReleases(e, d) ==
  /\ At(e, d, "release") \/ (At(e, d, "task") /\ flush[e] = "none")
  /\ dead' = [dead EXCEPT ![e] = TRUE]
  /\ pending' = [pending EXCEPT ![e] = FALSE]
  /\ CASE flush[e] = "cleanup" ->
            Goes(e, d, "await") /\ UNCHANGED <<armed, dependents>>
       [] flush[e] # "cleanup" /\ armed[e] ->
            /\ Goes(e, d, "cleanup") /\ armed' = [armed EXCEPT ![e] = FALSE]
            /\ UNCHANGED dependents
       [] OTHER -> Goes(e, d, "done") /\ dependents' = Detached(e) /\ UNCHANGED armed
  /\ UNCHANGED <<graphVars, slotVars, taskVars, bodyVars, flush, seen, changes>>

DisposeEnds(e, d) ==
  /\ At(e, d, "cleanup") \/ (At(e, d, "await") /\ flush[e] # "cleanup")
  /\ Goes(e, d, "done")
  /\ dependents' = Detached(e)
  /\ UNCHANGED <<graphVars, slotVars, taskVars, bodyVars, flush, pending, armed, dead, seen, changes>>

(***************************************************************************)
(* dispose_async of the context.                                           *)
(***************************************************************************)
DisposeContext ==
  /\ Changes /\ Closable /\ closed = "open"
  /\ closed' = "closing" /\ awaited' = Effect \ gone
  /\ UNCHANGED <<value, gone, dependents, slotVars, taskVars, bodyVars, effectVars>>

\* hard_clear of every slot left, and the end of the edges.
ContextDisposed ==
  /\ closed = "closing"
  /\ \A e \in awaited : At(e, "context", "done")
  /\ closed' = "closed"
  /\ dependents' = NoDependents
  /\ status' = [s \in Slot |-> IF s \in gone THEN status[s] ELSE "empty"]
  /\ val' = [s \in Slot |-> IF s \in gone THEN val[s] ELSE None]
  /\ future' = [s \in Slot |-> IF s \in gone THEN future[s] ELSE None]
  /\ UNCHANGED <<value, gone, awaited, taskVars, bodyVars, effectVars, changes>>

(***************************************************************************)
(* The specification.  The event loop runs whatever can run.               *)
(***************************************************************************)
Get(c) == \E s \in Slot : GetResolved(c, s) \/ GetAttaches(c, s) \/ GetSpawns(c, s)
BodyStep(b) ==
  \/ Get(b) \/ AwaitRaises(b) \/ ReadFails(b)
  \/ \E x \in Source : ReadSource(b, x)
  \/ \E s \in Slot : ReadSlot(b, s)
TaskStep(t) == StartTask(t) \/ BodyStep(t) \/ SlotReturns(t)
EffectStep(e) ==
  FlushStart(e) \/ CleanupEnds(e) \/ BodyStep(e) \/ EffectReturns(e) \/ ReleaseEnds(e)
ClientStep(c) == Get(c) \/ CallRaises(c)
DisposeStep(e, d) == DisposeReleases(e, d) \/ DisposeEnds(e, d)

Next ==
  \/ \E t \in Task : TaskStep(t) \/ BodyRaises(t)
  \/ \E e \in Effect : EffectStep(e) \/ BodyRaises(e)
  \/ \E c \in Client : ClientStep(c) \/ \E s \in Slot : Call(c, s)
  \/ \E e \in Effect, d \in Disposer : DisposeEffect(e, d) \/ DisposeStep(e, d)
  \/ DisposeContext \/ ContextDisposed
  \/ Write
  \/ \E s \in Slot : InvalidateSlot(s) \/ HardClear(s) \/ DisposeSlot(s)
  \/ \E x \in Source : DisposeSource(x)

Spec == Init /\ [][Next]_vars
Fairness ==
  /\ \A t \in Task : WF_vars(TaskStep(t))
  /\ \A e \in Effect : WF_vars(EffectStep(e))
  /\ \A c \in Client : WF_vars(ClientStep(c))
  /\ \A e \in Effect, d \in Disposer : WF_vars(DisposeStep(e, d))
FairSpec == Spec /\ Fairness

(***************************************************************************)
(* Properties.                                                             *)
(***************************************************************************)
\* What a recomputation from the sources would give, and whether it can.
Fresh[n \in Node] ==
  IF n \in Source THEN value[n] ELSE [i \in DOMAIN Reads[n] |-> Fresh[Reads[n][i]]]
Alive[n \in Node] ==
  n \notin gone /\ (n \in Slot => \A i \in DOMAIN Reads[n] : Alive[Reads[n][i]])

\* A resolved slot holds what recomputing it would give, whatever was written or
\* invalidated while its computation and those it awaited were suspended: a
\* stale completion is never published (async_slot.py _drive,
\* async_context.py AsyncComputeContext.get_async).
ResolvedIsFresh ==
  closed = "open" =>
    \A s \in Slot \ gone : status[s] = "resolved" => Alive[s] /\ val[s] = Fresh[s]

\* An effect at rest has seen the present value of everything it read and is
\* still subscribed to it: no write is lost between a run's reads, its cleanup
\* and the next run (async_effect.py flush, async_context.py _schedule).
EffectIsFresh ==
  closed = "open" =>
    \A e \in Effect \ gone : flush[e] = "none" /\ seen[e] # None =>
      \A i \in DOMAIN seen[e] :
        LET d == Reads[e][i] IN Alive[d] => e \in dependents[d] /\ seen[e][i] = Fresh[d]

\* No write is lost across an await, neither to a value nor to an effect.
ValuesFresh == ResolvedIsFresh /\ EffectIsFresh

\* The resource a run of e acquired is released once: no two cleanups of e run
\* at once, and none is running or retained while a body runs, however many
\* calls dispose it meanwhile (async_effect.py flush, dispose).
Releasing(e) ==
  {d \in Disposer : At(e, d, "cleanup")}
    \cup {f \in {"flush"} : flush[e] \in {"cleanup", "release"}}
    \cup {f \in {"retained"} : armed[e]}
ReleasedOnce ==
  \A e \in Effect :
    /\ Cardinality(Releasing(e)) <= 1
    /\ flush[e] = "body" => Releasing(e) = {}

\* When the calls that dispose an effect have returned it is at rest, owns no
\* resource, and no node leads to it (AsyncEffectHandle.dispose_async).
DisposedIsDetached ==
  \A e \in Effect \cap gone : (\A d \in Disposer : disposal[e][d] \in {"no", "done"}) =>
    flush[e] = "none" /\ Releasing(e) = {} /\ \A n \in Node : e \notin dependents[n]

\* A disposed context publishes nothing more, not even for a caller that was
\* going round the loop of get_async, and has awaited every effect but one that
\* a client is itself disposing (AsyncContext.dispose_async).
ClosedIsQuiet ==
  closed = "closed" =>
    /\ \A s \in Slot \ gone : status[s] # "resolved"
    /\ \A e \in Effect : disposal[e]["client"] \in {"no", "done"} =>
         flush[e] = "none" /\ Releasing(e) = {}

\* What is torn down, one by one or with its context, stays so.
TeardownIsFinal == DisposedIsDetached /\ ClosedIsQuiet

\* Each get_async and each dispose_async returns, whatever happens to the
\* computation it awaits, once the clients stop making changes.
CallsReturn ==
  /\ \A c \in Client : wait[c] # None ~> wait[c] = None
  /\ \A e \in Effect, d \in Disposer : ~At(e, d, "no") ~> At(e, d, "done")
=============================================================================
