---------------------------- MODULE ReactiveGraph ----------------------------
(***************************************************************************)
(* The single-threaded reactive graph of lazily-py: Source (cell.py), Slot *)
(* (slot.py), Computed and its eager puller (signal.py), Effect            *)
(* (effect.py) and the batch boundary (batch.py), with the disposal walk.  *)
(*                                                                         *)
(* One transition is one call or one iteration of the library's own loops; *)
(* user bodies run between transitions, so the Python call stack is the    *)
(* variable frames.  A body reads nodes one at a time through ctx.read and *)
(* may choose its next read by the values read so far (NextRead); what it  *)
(* returns is a pure function of what it read (Result).                    *)
(*                                                                         *)
(* An eager Computed is two things in the code: a handle, which readers    *)
(* subscribe to, and an _EagerPuller effect, which reads the backing memo. *)
(* Here c \in Computed names the handle as a Node (what is read) and the   *)
(* puller as a Reader (what runs).                                         *)
(***************************************************************************)
EXTENDS Naturals, Sequences, FiniteSets

CONSTANTS
  Source, Slot, Computed, Effect,  \* the nodes, by kind
  Val,                             \* what a source holds
  None, Done,                      \* no value; the body has nothing left to read
  Memo,                            \* the backing memo of each Computed
  NextRead(_, _),                  \* what a body reads next, given what it read
  Result(_, _),                    \* what a body returns, given what it read
  Propagates(_, _, _),             \* the `changed` predicate of a Computed
  Target,                          \* the source an effect body writes, or None
  MayRaise,                        \* the bodies that may raise
  Disposable,                      \* the nodes a client may dispose
  CanEager, CanLazy,               \* the computeds a client makes eager, and lazy
  MaxReads,                        \* bound: reads of one body run
  MaxDepth,                        \* bound: nesting of batch(); 0 for no batches
  MaxLeft                          \* bound: entries an exception left on the
                                   \* work-stack when a client call adds to it

Node == Source \cup Slot \cup Computed
Reader == Slot \cup Computed \cup Effect
Observer == Computed \cup Effect
Private == {Memo[c] : c \in Computed}  \* only its owner calls a memo

\* What a body has read so far.  None stands for the _UNSET sentinel, which an
\* eager handle whose first pull raised hands out.
Trace == UNION {[1..k -> Val \cup {None}] : k \in 0..MaxReads}

ASSUME KindsAssumption ==
  /\ \A S \in {Slot, Computed, Effect} : S \cap Source = {}
  /\ Slot \cap Computed = {} /\ Slot \cap Effect = {} /\ Computed \cap Effect = {}
  /\ None \notin Node \cup Reader \cup Val \cup Trace /\ Done \notin Node \cup Reader
ASSUME BodiesAssumption ==
  /\ MaxReads \in Nat /\ MaxDepth \in Nat /\ MaxLeft \in Nat
  /\ Memo \in [Computed -> Slot]
  /\ Target \in [Effect -> Source \cup {None}]
  /\ \A r \in Reader, s \in Trace :
       /\ NextRead(r, s) \in Node \cup {Done}
       /\ Len(s) = MaxReads => NextRead(r, s) = Done
       /\ Result(r, s) \in Val
       /\ NextRead(r, s) \in Private => r \in Computed
  /\ \A c, d \in Computed : Memo[c] = Memo[d] => c = d
  /\ \A c \in Computed, s \in Trace :
       NextRead(c, s) = IF s = <<>> THEN Memo[c] ELSE Done
ASSUME ClientAssumption ==
  /\ MayRaise \subseteq Slot \cup Effect
  /\ Disposable \subseteq (Source \cup Slot \cup Effect) \ Private
  /\ CanEager \subseteq Computed /\ CanLazy \subseteq CanEager

VARIABLES
  value,     \* Source._value
  cache,     \* per Slot: what its cached run read, None when not cached
  settled,   \* Computed._value, None for _UNSET
  eager,     \* the Computed with _eager set
  stale,     \* the Computed with _stale set
  started,   \* the effects whose _ctx is set
  seen,      \* per Effect: what its last completed run read; not None iff
             \* that run's cleanup closure is armed
  disposed,  \* the nodes with _disposed set
  parents,   \* _parents: the reverse edges
  deps,      \* _deps: the forward edges
  work,      \* _reset_work, as the sets of readers each touch() pushed
  depth, pendingCells, pendingEffects,  \* batch.py's module globals
  frames,    \* the Python call stack
  raising    \* an exception is propagating

nodeVars == <<value, cache, settled, eager, stale, started, seen, disposed>>
edgeVars == <<parents, deps>>
batchVars == <<depth, pendingCells, pendingEffects>>
vars == <<nodeVars, edgeVars, work, batchVars, frames, raising>>

(***************************************************************************)
(* The call stack.  "run" executes a body; "exit" is a body whose last     *)
(* call published a change and waits for the drain above it; "drain" is    *)
(* _drain_resets; "phase1", "wave" and "phase2" are the stages of _flush.  *)
(***************************************************************************)
FlushOp == {"phase1", "wave", "phase2"}
Frame ==
  [op : {"run", "exit"}, node : Reader, args : Trace, todo : {{}}]
  \cup [op : {"drain"} \cup FlushOp, node : {None}, args : {<<>>},
        todo : SUBSET (Source \cup Observer)]

RunFrame(r) == [op |-> "run", node |-> r, args |-> <<>>, todo |-> {}]
LoopFrame(op, todo) == [op |-> op, node |-> None, args |-> <<>>, todo |-> todo]
DrainFrame == LoopFrame("drain", {})

Top == frames[Len(frames)]
Below == SubSeq(frames, 1, Len(frames) - 1)
Push(f) == Append(frames, f)
Continue(f) == [frames EXCEPT ![Len(frames)] = f]

Idle == frames = <<>>
At(op) == frames # <<>> /\ Top.op = op /\ ~raising
Draining == \E i \in DOMAIN frames : frames[i].op \in {"drain", "phase1"}
Running(r) == \E i \in DOMAIN frames : frames[i].op \in {"run", "exit"} /\ frames[i].node = r
InWork(r) == \E i \in DOMAIN work : r \in work[i]

\* The top frame returns v: a body below it is waiting for the value it read.
Return(v) ==
  IF Below # <<>> /\ Below[Len(Below)].op = "run"
  THEN [Below EXCEPT ![Len(Below)].args = Append(@, v)]
  ELSE Below

\* A puller is disposed exactly when its owner stops being eager.
\* None on the work-stack is a puller lazy() disposed while it was queued.
Dead(r) == r = None \/ r \in disposed \/ (r \in Computed /\ r \notin eager)

CachedValue(n) == Result(n, cache[n])

(***************************************************************************)
(* Edges.                                                                  *)
(***************************************************************************)
\* Mutant: a reader that already has a dependency registers no further one.
FirstRegistered(ns, r) ==
  [n \in Node |-> IF n \in ns /\ deps[r] = {} THEN parents[n] \cup {r} ELSE parents[n]]

\* _subscribe: reader r now depends on every node of ns.
Registered(ns, r) == [n \in Node |-> IF n \in ns THEN parents[n] \cup {r} ELSE parents[n]]

Register(ns, r) ==
  /\ parents' = Registered(ns, r)
  /\ deps' = [deps EXCEPT ![r] = @ \cup ns]

\* A reader misses slot n: the edge, then `_deps = None`, then n's body.
RegisterMiss(ns, r, n) ==
  /\ parents' = Registered(ns, r)
  /\ deps' = [deps EXCEPT ![r] = @ \cup ns, ![n] = {}]

\* Mutant: only the forward edges are dropped.
ForwardDetached(r) == parents

\* _detach_from_dependencies removes the reverse edges the forward edges name.
Detached(r) == [n \in Node |-> IF n \in deps[r] THEN parents[n] \ {r} ELSE parents[n]]

Detach(r) ==
  /\ parents' = Detached(r)
  /\ deps' = [deps EXCEPT ![r] = {}]

\* touch() hands the whole dependent set to the work-stack and forgets it.
TouchedEdges(n) == [parents EXCEPT ![n] = {}]
TouchedWork(n) == IF parents[n] = {} THEN work ELSE Append(work, parents[n])
StartsDrain(n) == parents[n] # {} /\ ~Draining

Init ==
  /\ value \in [Source -> Val]
  /\ cache = [n \in Slot |-> None]
  /\ settled = [c \in Computed |-> None]
  /\ eager = {} /\ stale = {} /\ started = {} /\ disposed = {}
  /\ seen = [e \in Effect |-> None]
  /\ parents = [n \in Node |-> {}]
  /\ deps = [r \in Reader |-> {}]
  /\ work = <<>> /\ depth = 0 /\ pendingCells = {} /\ pendingEffects = {}
  /\ frames = <<>> /\ raising = FALSE

(***************************************************************************)
(* A body reads one node (compute.py: Compute.read).                       *)
(***************************************************************************)
Reads(d) == At("run") /\ NextRead(Top.node, Top.args) = d

Receive(v) == frames' = Continue([Top EXCEPT !.args = Append(@, v)])

ReadSource(x) ==
  /\ Reads(x) /\ x \notin disposed
  /\ Register({x}, Top.node)
  /\ Receive(value[x])
  /\ UNCHANGED <<nodeVars, work, batchVars, raising>>

\* Compute.read subscribes before the getter raises DisposedError.
ReadDisposed(d) ==
  /\ Reads(d) /\ d \in disposed
  /\ Register({d}, Top.node)
  /\ raising' = TRUE
  /\ UNCHANGED <<nodeVars, work, batchVars, frames>>

ReadCached(n) ==
  /\ Reads(n) /\ n \notin disposed /\ cache[n] # None
  /\ Register({n}, Top.node)
  /\ Receive(CachedValue(n))
  /\ UNCHANGED <<nodeVars, work, batchVars, raising>>

ReadMiss(n) ==
  /\ Reads(n) /\ n \notin disposed /\ cache[n] = None
  /\ RegisterMiss({n}, Top.node, n)
  /\ frames' = Push(RunFrame(n))
  /\ UNCHANGED <<nodeVars, work, batchVars, raising>>

\* A lazy Computed has no settled value: the reader subscribes to the handle
\* and to the memo, and the memo is called.
ReadLazyCached(c) ==
  /\ Reads(c) /\ c \notin eager /\ cache[Memo[c]] # None
  /\ Register({c, Memo[c]}, Top.node)
  /\ Receive(CachedValue(Memo[c]))
  /\ UNCHANGED <<nodeVars, work, batchVars, raising>>

ReadLazyMiss(c) ==
  /\ Reads(c) /\ c \notin eager /\ cache[Memo[c]] = None
  /\ RegisterMiss({c, Memo[c]}, Top.node, Memo[c])
  /\ frames' = Push(RunFrame(Memo[c]))
  /\ UNCHANGED <<nodeVars, work, batchVars, raising>>

ReadSettled(c) ==
  /\ Reads(c) /\ c \in eager /\ c \notin stale
  /\ Register({c}, Top.node)
  /\ Receive(settled[c])
  /\ UNCHANGED <<nodeVars, work, batchVars, raising>>

\* _rearm: a disposal walk dirtied the puller; the read runs it again.  The
\* puller's forward edge is the memo's, so detaching drops exactly that one.
ReadStale(c) ==
  /\ Reads(c) /\ c \in eager /\ c \in stale
  /\ stale' = stale \ {c}
  /\ parents' = [Detached(c) EXCEPT ![c] = @ \cup {Top.node}]
  /\ deps' = [deps EXCEPT ![Top.node] = @ \cup {c}, ![c] = {}]
  /\ frames' = Push(RunFrame(c))
  /\ UNCHANGED <<value, cache, settled, eager, started, seen, disposed, work, batchVars, raising>>

BodyRaises ==
  /\ At("run") /\ Top.node \in MayRaise
  /\ raising' = TRUE
  /\ UNCHANGED <<nodeVars, edgeVars, work, batchVars, frames>>

(***************************************************************************)
(* A body returns.                                                         *)
(***************************************************************************)
Returns(r) == At("run") /\ Top.node = r /\ NextRead(r, Top.args) = Done

SlotReturns(n) ==
  /\ Returns(n)
  /\ cache' = [cache EXCEPT ![n] = Top.args]
  /\ frames' = Return(Result(n, Top.args))
  /\ UNCHANGED <<value, settled, eager, stale, started, seen, disposed, edgeVars, work,
                 batchVars, raising>>

\* What an effect body writes last, as <<source, value>>; nothing if the setter
\* is inert (no target, a disposed source, an equal value).
Written(e) ==
  IF Target[e] = None \/ Target[e] \in disposed THEN {}
  ELSE {w \in {<<Target[e], Result(e, Top.args)>>} : value[w[1]] # w[2]}

EffectReturns(e) ==
  /\ Returns(e) /\ Written(e) = {}
  /\ seen' = [seen EXCEPT ![e] = Top.args]
  /\ frames' = Below
  /\ UNCHANGED <<value, cache, settled, eager, stale, started, disposed, edgeVars, work,
                 batchVars, raising>>

\* notify_change inside a batch defers the touch; outside it touches, and when
\* that starts a drain the body has not returned yet (it still is _running).
EffectWrites(e) ==
  /\ Returns(e)
  /\ \E w \in Written(e) :
       /\ value' = [value EXCEPT ![w[1]] = w[2]]
       /\ IF depth > 0
          THEN /\ pendingCells' = pendingCells \cup {w[1]}
               /\ seen' = [seen EXCEPT ![e] = Top.args]
               /\ frames' = Below
               /\ UNCHANGED <<parents, work>>
          ELSE /\ parents' = TouchedEdges(w[1])
               /\ work' = TouchedWork(w[1])
               /\ IF StartsDrain(w[1])
                  THEN /\ frames' = Append(Continue([Top EXCEPT !.op = "exit"]), DrainFrame)
                       /\ UNCHANGED seen
                  ELSE /\ frames' = Below
                       /\ seen' = [seen EXCEPT ![e] = Top.args]
               /\ UNCHANGED pendingCells
  /\ UNCHANGED <<cache, settled, eager, stale, started, disposed, deps, depth, pendingEffects,
                 raising>>

\* Mutant: the settled value is replaced without touching the readers.
PullerSettlesOnly(c) ==
  /\ Returns(c)
  /\ settled' = [settled EXCEPT ![c] = Top.args[1]]
  /\ frames' = Return(Top.args[1])
  /\ UNCHANGED <<value, cache, eager, stale, started, seen, disposed, edgeVars, work, batchVars,
                 raising>>

\* _pull: the memo's value replaces the settled one if the guard propagates it.
PullerReturns(c) ==
  /\ Returns(c)
  /\ LET new == Top.args[1]
         first == settled[c] = None
         propagate == ~first /\ Propagates(c, settled[c], new) IN
     /\ settled' = [settled EXCEPT ![c] = IF first \/ propagate THEN new ELSE @]
     /\ IF propagate
        THEN /\ parents' = TouchedEdges(c)
             /\ work' = TouchedWork(c)
        ELSE UNCHANGED <<parents, work>>
     /\ frames' = IF propagate /\ StartsDrain(c)
                  THEN Append(Continue([Top EXCEPT !.op = "exit"]), DrainFrame)
                  ELSE Return(settled'[c])
  /\ UNCHANGED <<value, cache, eager, stale, started, seen, disposed, deps, batchVars, raising>>

\* The drain a body's write or publication started is over.
ObserverExits(r) ==
  /\ At("exit") /\ Top.node = r
  /\ IF r \in Computed
     THEN frames' = Return(settled[r]) /\ UNCHANGED seen
     ELSE frames' = Below /\ seen' = [seen EXCEPT ![r] = Top.args]
  /\ UNCHANGED <<value, cache, settled, eager, stale, started, disposed, edgeVars, work,
                 batchVars, raising>>

(***************************************************************************)
(* An observer runs: cleanup of its last run, detach, then the body.       *)
(***************************************************************************)
Cleaned(r) == [e \in Effect |-> IF e = r THEN None ELSE seen[e]]

Launch(r, fs) ==
  /\ seen' = Cleaned(r)
  /\ Detach(r)
  /\ frames' = Append(fs, RunFrame(r))

(***************************************************************************)
(* _drain_resets: pop one reader and invalidate it.  The order inside one  *)
(* touch() is a set's iteration order, hence the choice.                   *)
(***************************************************************************)
Last == work[Len(work)]
\* Mutants: the drain peeks instead of popping; it pops a whole dependent set and
\* invalidates one of it.
Peeked(r) == work
PoppedWhole(r) == SubSeq(work, 1, Len(work) - 1)

Popped(r) ==
  IF Last = {r} THEN SubSeq(work, 1, Len(work) - 1)
  ELSE [work EXCEPT ![Len(work)] = @ \ {r}]
Pops(r) == At("drain") /\ work # <<>> /\ r \in Last

InvalidateSlot(n) ==
  /\ Pops(n)
  /\ IF n \in disposed
     THEN work' = Popped(n) /\ UNCHANGED <<cache, parents>>
     ELSE /\ cache' = [cache EXCEPT ![n] = None]
          /\ parents' = TouchedEdges(n)
          /\ work' = IF parents[n] = {} THEN Popped(n) ELSE Append(Popped(n), parents[n])
  /\ UNCHANGED <<value, settled, eager, stale, started, seen, disposed, deps, batchVars,
                 frames, raising>>

InvalidateIgnored(r) ==
  /\ Pops(r) /\ (Dead(r) \/ Running(r))
  /\ work' = Popped(r)
  /\ UNCHANGED <<nodeVars, edgeVars, batchVars, frames, raising>>

InvalidateDeferred(r) ==
  /\ Pops(r) /\ ~Dead(r) /\ ~Running(r) /\ depth > 0
  /\ work' = Popped(r)
  /\ pendingEffects' = pendingEffects \cup {r}
  /\ UNCHANGED <<nodeVars, edgeVars, depth, pendingCells, frames, raising>>

\* Mutant: an effect reached inside a batch runs at once.
InvalidateRunsInBatch(r) ==
  /\ Pops(r) /\ ~Dead(r) /\ ~Running(r)
  /\ work' = Popped(r)
  /\ Launch(r, frames)
  /\ UNCHANGED <<value, cache, settled, eager, stale, started, disposed, batchVars, raising>>

InvalidateRuns(r) ==
  /\ Pops(r) /\ ~Dead(r) /\ ~Running(r) /\ depth = 0
  /\ work' = Popped(r)
  /\ Launch(r, frames)
  /\ UNCHANGED <<value, cache, settled, eager, stale, started, disposed, batchVars, raising>>

DrainDone ==
  /\ At("drain") /\ work = <<>>
  /\ frames' = Below
  /\ UNCHANGED <<nodeVars, edgeVars, work, batchVars, raising>>

(***************************************************************************)
(* _flush: touch every written source under one suspended drain, drain,    *)
(* then rerun the observers the wave enqueued.                             *)
(***************************************************************************)
FlushTouch(x) ==
  /\ At("phase1") /\ x \in Top.todo
  /\ frames' = Continue([Top EXCEPT !.todo = @ \ {x}])
  /\ IF x \in disposed THEN UNCHANGED <<parents, work>>
     ELSE parents' = TouchedEdges(x) /\ work' = TouchedWork(x)
  /\ UNCHANGED <<nodeVars, deps, batchVars, raising>>

FlushWave ==
  /\ At("phase1") /\ Top.todo = {}
  /\ frames' = Append(Continue(LoopFrame("wave", {})), DrainFrame)
  /\ UNCHANGED <<nodeVars, edgeVars, work, batchVars, raising>>

FlushEffects ==
  /\ At("wave")
  /\ frames' = Continue(LoopFrame("phase2", pendingEffects))
  /\ pendingEffects' = {}
  /\ UNCHANGED <<nodeVars, edgeVars, work, depth, pendingCells, raising>>

FlushRerun(r) ==
  /\ At("phase2") /\ r \in Top.todo
  /\ LET rest == Continue([Top EXCEPT !.todo = @ \ {r}]) IN
     IF Dead(r) THEN frames' = rest /\ UNCHANGED <<seen, edgeVars>>
     ELSE Launch(r, rest)
  /\ UNCHANGED <<value, cache, settled, eager, stale, started, disposed, work, batchVars,
                 raising>>

FlushDone ==
  /\ At("phase2") /\ Top.todo = {}
  /\ frames' = Below
  /\ depth' = depth - 1
  /\ UNCHANGED <<nodeVars, edgeVars, work, pendingCells, pendingEffects, raising>>

\* An exception leaves one Python frame.  Leaving _drain_resets keeps what is
\* on the work-stack; leaving _flush skips `_depth -= 1`.
Unwind ==
  /\ raising
  /\ frames' = Below
  /\ raising' = (Below # <<>>)
  /\ UNCHANGED <<nodeVars, edgeVars, work, batchVars>>

(***************************************************************************)
(* Client calls, made when no library code is on the stack.                *)
(***************************************************************************)
\* value.setter of a live source.
Set(x, v) ==
  /\ Idle /\ Len(work) <= MaxLeft /\ x \notin disposed /\ value[x] # v
  /\ value' = [value EXCEPT ![x] = v]
  /\ IF depth > 0
     THEN pendingCells' = pendingCells \cup {x} /\ UNCHANGED <<parents, work, frames>>
     ELSE /\ parents' = TouchedEdges(x)
          /\ work' = TouchedWork(x)
          /\ frames' = IF StartsDrain(x) THEN <<DrainFrame>> ELSE <<>>
          /\ UNCHANGED pendingCells
  /\ UNCHANGED <<cache, settled, eager, stale, started, seen, disposed, deps, depth,
                 pendingEffects, raising>>

\* Slot.reset
Reset(n) ==
  /\ Idle /\ Len(work) <= MaxLeft /\ n \notin Private
  /\ work' = Append(work, {n})
  /\ frames' = <<DrainFrame>>
  /\ UNCHANGED <<nodeVars, edgeVars, batchVars, raising>>

\* An untracked read of an uncached slot.
CallSlot(n) ==
  /\ Idle /\ n \notin disposed /\ cache[n] = None
  /\ deps' = [deps EXCEPT ![n] = {}]
  /\ frames' = <<RunFrame(n)>>
  /\ UNCHANGED <<nodeVars, parents, work, batchVars, raising>>

\* An untracked read of an eager computed that a disposal dirtied.
CallStale(c) ==
  /\ Idle /\ c \in stale
  /\ stale' = stale \ {c}
  /\ Launch(c, <<>>)
  /\ UNCHANGED <<value, cache, settled, eager, started, disposed, work, batchVars, raising>>

\* Effect.__call__ by its owner.
CallEffect(e) ==
  /\ Idle /\ e \notin disposed
  /\ started' = started \cup {e}
  /\ Launch(e, <<>>)
  /\ UNCHANGED <<value, cache, settled, eager, stale, disposed, work, batchVars, raising>>

\* Computed.eager: attach a puller and run it once.
MakeEager(c) ==
  /\ Idle /\ c \in CanEager \ eager
  /\ eager' = eager \cup {c}
  /\ Launch(c, <<>>)
  /\ UNCHANGED <<value, cache, settled, stale, started, disposed, work, batchVars, raising>>

\* Mutant: lazy() leaves the handle marked stale.
MakeLazyKeepsStale(c) ==
  /\ Idle /\ c \in CanLazy \cap eager
  /\ eager' = eager \ {c}
  /\ Detach(c)
  /\ work' = [i \in DOMAIN work |-> {IF r = c THEN None ELSE r : r \in work[i]}]
  /\ pendingEffects' = pendingEffects \ {c}
  /\ UNCHANGED <<value, cache, settled, stale, started, seen, disposed, depth, pendingCells,
                 frames, raising>>

\* Computed.lazy: dispose the puller.  A disposed puller left in a queue is
\* skipped there; the next eager() makes a new puller, which is in none of them.
MakeLazy(c) ==
  /\ Idle /\ c \in CanLazy \cap eager
  /\ eager' = eager \ {c}
  /\ stale' = stale \ {c}
  /\ Detach(c)
  /\ work' = [i \in DOMAIN work |-> {IF r = c THEN None ELSE r : r \in work[i]}]
  /\ pendingEffects' = pendingEffects \ {c}
  /\ UNCHANGED <<value, cache, settled, started, seen, disposed, depth, pendingCells, frames,
                 raising>>

\* _dirty_disposed_dependents: everything live the walk reaches from roots over
\* the reverse edges es.
Cone(roots, es) ==
  LET live == {r \in Reader : ~Dead(r)} IN
  {r \in live : \A S \in SUBSET live :
     /\ roots \cap live \subseteq S
     /\ \A n \in S \cap Slot : es[n] \cap live \subseteq S
     => r \in S}

\* Mutants: a disposal only unlinks; the puller hook is missing.
UnlinkOnly(cone, es) ==
  /\ parents' = es
  /\ UNCHANGED <<cache, stale>>
DirtyWithoutHook(cone, es) ==
  /\ cache' = [n \in Slot |-> IF n \in cone \cup disposed' THEN None ELSE cache[n]]
  /\ stale' = stale \cup (cone \cap Computed)
  /\ parents' = [n \in Node |-> IF n \in cone \cap Slot THEN {} ELSE es[n]]

\* The walk drops the caches and edges of the cone's slots; a puller it reaches
\* re-registers with its memo and marks its handle stale, whose readers it leaves
\* alone.  Nothing is scheduled.
Dirty(cone, es) ==
  /\ cache' = [n \in Slot |-> IF n \in cone \cup disposed' THEN None ELSE cache[n]]
  /\ stale' = stale \cup (cone \cap Computed)
  /\ parents' = [n \in Node |->
       (IF n \in cone \cap Slot THEN {} ELSE es[n]) \cup {c \in cone \cap Computed : Memo[c] = n}]

DisposeSource(x) ==
  /\ Idle /\ x \in Disposable \ disposed
  /\ disposed' = disposed \cup {x}
  /\ Dirty(Cone(parents[x], TouchedEdges(x)), TouchedEdges(x))
  /\ UNCHANGED <<value, settled, eager, started, seen, deps, work, batchVars, frames, raising>>

DisposeSlot(n) ==
  /\ Idle /\ n \in Disposable \ disposed
  /\ disposed' = disposed \cup {n}
  /\ deps' = [deps EXCEPT ![n] = {}]
  /\ LET es == [Detached(n) EXCEPT ![n] = {}] IN
     Dirty(Cone(parents[n], es), es)
  /\ UNCHANGED <<value, settled, eager, started, seen, work, batchVars, frames, raising>>

\* A client disposes an effect from its own code or from an effect's body, that
\* effect's own included: nothing stops the body that is running, whose reads
\* still register (_register_edge asks nothing) and whose cleanup is still kept.
DisposeEffect(e) ==
  /\ Idle \/ (At("run") /\ Top.node \in Effect)
  /\ e \in Disposable \ disposed
  /\ disposed' = disposed \cup {e}
  /\ Detach(e)
  /\ seen' = Cleaned(e)
  /\ UNCHANGED <<value, cache, settled, eager, stale, started, work, batchVars, frames, raising>>

\* batch() is entered; its body is the client calls up to the exit.
BatchEnter ==
  /\ Idle /\ depth < MaxDepth
  /\ depth' = depth + 1
  /\ UNCHANGED <<nodeVars, edgeVars, work, pendingCells, pendingEffects, frames, raising>>

BatchExit ==
  /\ Idle /\ depth > 0
  /\ IF depth = 1
     THEN /\ frames' = <<LoopFrame("phase1", pendingCells)>>
          /\ pendingCells' = {}
          /\ UNCHANGED depth
     ELSE /\ depth' = depth - 1
          /\ UNCHANGED <<frames, pendingCells>>
  /\ UNCHANGED <<nodeVars, edgeVars, work, pendingEffects, raising>>

(***************************************************************************)
(* The specification.                                                      *)
(***************************************************************************)
Body ==
  \/ \E x \in Source : ReadSource(x) \/ ReadDisposed(x)
  \/ \E n \in Slot : ReadCached(n) \/ ReadMiss(n) \/ ReadDisposed(n) \/ SlotReturns(n)
  \/ \E c \in Computed : \/ ReadLazyCached(c) \/ ReadLazyMiss(c) \/ ReadSettled(c)
                         \/ ReadStale(c) \/ PullerReturns(c)
  \/ \E e \in Effect : EffectReturns(e) \/ EffectWrites(e)
  \/ \E r \in Observer : ObserverExits(r)

Engine ==
  \/ \E n \in Slot : InvalidateSlot(n)
  \/ \E r \in Observer \cup {None} : InvalidateIgnored(r)
  \/ \E r \in Observer : InvalidateDeferred(r) \/ InvalidateRuns(r) \/ FlushRerun(r)
  \/ \E x \in Source : FlushTouch(x)
  \/ DrainDone \/ FlushWave \/ FlushEffects \/ FlushDone

Internal == Body \/ Engine \/ Unwind

Client ==
  \/ \E x \in Source : DisposeSource(x) \/ \E v \in Val : Set(x, v)
  \/ \E n \in Slot : Reset(n) \/ CallSlot(n) \/ DisposeSlot(n)
  \/ \E c \in Computed : CallStale(c) \/ MakeEager(c) \/ MakeLazy(c)
  \/ \E e \in Effect : CallEffect(e) \/ DisposeEffect(e)
  \/ BatchEnter \/ BatchExit

Next == Internal \/ BodyRaises \/ Client

Spec == Init /\ [][Next]_vars
FairSpec == Spec /\ WF_vars(Internal)

(***************************************************************************)
(* Properties.                                                             *)
(***************************************************************************)
\* The shape of the engine's state (slot.py, batch.py, signal.py, effect.py).
TypeOK ==
  /\ value \in [Source -> Val]
  /\ cache \in [Slot -> Trace \cup {None}]
  /\ settled \in [Computed -> Val \cup {None}]
  /\ eager \subseteq CanEager /\ stale \subseteq eager /\ started \subseteq Effect
  /\ seen \in [Effect -> Trace \cup {None}]
  /\ disposed \subseteq Disposable
  /\ parents \in [Node -> SUBSET Reader]
  /\ deps \in [Reader -> SUBSET Node]
  /\ work \in Seq(SUBSET (Reader \cup {None}))
  /\ depth \in 0..MaxDepth
  /\ pendingCells \subseteq Source /\ pendingEffects \subseteq Effect \cup eager
  /\ frames \in Seq(Frame) /\ raising \in BOOLEAN

\* The k-th node read by the run of r that read s.
ReadAt(r, s, k) == NextRead(r, SubSeq(s, 1, k - 1))

\* Written inside a batch and not touched yet.
Deferred(x) == x \in pendingCells \/ \E i \in DOMAIN frames : x \in frames[i].todo

\* r still hears of changes of d, and d still is what r saw.
Tracks(r, d, v) ==
  /\ r \in parents[d]
  /\ IF d \in Source THEN value[d] = v \/ Deferred(d)
     ELSE cache[d] # None /\ CachedValue(d) = v

\* A cached slot either is queued for invalidation or is linked to, and agrees
\* with, every source and slot it was computed from: no order of writes, reads,
\* batches, effect runs and exceptions loses an invalidation, as long as no wave
\* runs inside a slot's own computation (slot.py Slot.__call__, _invalidate, touch).
CacheCoherent ==
  \A n \in Slot : cache[n] # None /\ ~InWork(n) =>
    \A i \in DOMAIN cache[n] :
      LET d == ReadAt(n, cache[n], i) IN
      d \in Source \cup Slot => Tracks(n, d, cache[n][i])

\* Every invalidation has been delivered: what is read now is final.
Quiet == Idle /\ work = <<>> /\ pendingCells = {} /\ pendingEffects = {}

\* The body that a read of d runs.
Called(d) == IF d \in Slot THEN d ELSE Memo[d]

\* What a body that has read s would return if everything upstream of what it
\* still reads were recomputed from the sources.
Eval[p \in Reader \X Trace] ==
  LET r == p[1]
      s == p[2]
      d == NextRead(r, s) IN
  IF d = Done THEN Result(r, s)
  ELSE Eval[<<r, Append(s, IF d \in Source THEN value[d] ELSE Eval[<<Called(d), <<>>>>])>>]

Fresh(d) == IF d \in Source THEN value[d] ELSE Eval[<<Called(d), <<>>>>]

\* Once invalidation is delivered, every cached slot holds what a recomputation
\* from the sources would give (slot.py: a read returns resolved[self]).
SlotsFresh == Quiet => \A n \in Slot : cache[n] # None => CachedValue(n) = Fresh(n)

\* ... an eager computed holds what its memo would give, up to the guard
\* (signal.py: "kept fresh eagerly") ...
EagerFresh ==
  Quiet => \A c \in eager \ stale :
    settled[c] # None /\ ~Propagates(c, settled[c], Fresh(c))

\* ... and an effect has run against the present values of what it read, and
\* hears of the next change of each (effect.py: "Whenever a tracked dependency
\* invalidates, the body reruns").
EffectsFresh ==
  Quiet => \A e \in started \ disposed : seen[e] # None =>
    \A i \in DOMAIN seen[e] :
      LET d == ReadAt(e, seen[e], i) IN e \in parents[d] /\ seen[e][i] = Fresh(d)

\* No node serves a value that is out of date once the calls that could make it
\* so have returned: no invalidation is lost on the way to a node of any kind.
NodesFresh == SlotsFresh /\ EagerFresh /\ EffectsFresh

\* An effect rerun by the batch flush reads no stale cache: the whole wave comes
\* before the first effect (batch.py _flush: "rerun each queued effect once
\* against the now-final inputs").
FlushReadsFinal ==
  At("run") /\ frames[1].op \in {"wave", "phase2"} /\ pendingCells = {} =>
    \A n \in Slot : cache[n] # None => CachedValue(n) = Fresh(n)

\* An eager computed that is not queued or running stays subscribed to its memo,
\* whatever was disposed and whatever raised (_EagerPuller._drop_cached).
PullerSubscribed ==
  Idle => \A c \in eager \ pendingEffects : ~InWork(c) => c \in parents[Memo[c]]

\* No cached value outlives a disposed node it was computed from (slot.py
\* DisposedError: a live dependent must be dirtied by the disposal), under the
\* same condition: a stale eager computed that a slot's body reads publishes inside.
DisposalDirties ==
  \A n \in Slot : cache[n] # None /\ ~InWork(n) =>
    \A i \in DOMAIN cache[n] : ReadAt(n, cache[n], i) \notin disposed

\* The body of e has begun and has not read its last.
InBody(e) == \E i \in DOMAIN frames : frames[i].op = "run" /\ frames[i].node = e

\* What a step may do to a disposed effect: its disposal takes it out of every
\* dependent set, only a body that had begun before can subscribe it again, and
\* no body of it begins any more.
Detaches ==
  \A e \in Effect \cap disposed' :
    /\ \A d \in Node :
         e \in parents'[d] => e \in disposed /\ (e \in parents[d] \/ InBody(e))
    /\ e \in disposed /\ ~InBody(e) => ~InBody(e)'

\* Disposing an effect ends it, whatever runs, is queued or raises meanwhile, so a
\* churn of subscriptions leaks nothing; the exception is a body that goes on
\* reading after its effect was disposed (effect.py dispose, Effect.__call__,
\* slot.py _register_edge, _detach_from_dependencies).
EffectsDetached == [][Detaches]_vars

\* Every call into the graph returns (slot.py _drain_resets, batch.py _flush).
CallsReturn == ~Idle ~> Idle

(***************************************************************************)
(* What the documentation promises and the code does not do in every case; *)
(* each is checked by a run that finds the counterexample.                 *)
(***************************************************************************)
\* An effect a batch queues is rerun by that batch's flush (batch.py
\* enqueue_effect: "Queue an Effect rerun for the batch flush").
BatchRunsEffects == Idle /\ depth = 0 => pendingEffects = {}

\* Every surviving transitive dependent of a disposed node has its cached value
\* dropped (slot.py _dirty_disposed_dependents), those behind a dirtied eager
\* computed included.
DisposalReachesReaders ==
  Idle => \A n \in Slot : cache[n] # None /\ ~InWork(n) =>
    \A i \in DOMAIN cache[n] : ReadAt(n, cache[n], i) \notin stale
=============================================================================
