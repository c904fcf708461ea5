# TLA+ development for lazily-py

Specifications of lazily-py (`src/lazily/*.py`), TLC configurations that check
them on small instances, and TLAPS proofs. `PROJECT.json` names, for every
definition that models code, the lines it models; for every property, a
plausible bug of the code that breaks it; and the hazards the properties are for.

To check a module: `tlc -config graph_lazy.cfg MCReactiveGraph.tla`. To check the
proofs of one: `tlapm ReactiveGraphProofs.tla`; every module whose name ends in
`Proofs` has theorems, and takes up to six minutes.

## 1. The system

lazily-py is a library of reactive values. At the centre is a graph of sources,
memoised slots, computeds and effects; around it an asyncio version of the same
graph, cells that project queues, leases, breakers and other small machines onto
the graph, convergent data types, and a protocol that keeps a replica of a graph
up to date over an unreliable transport.

| Part | Files | State | Operations | What must hold |
|---|---|---|---|---|
| reactive graph | `slot.py cell.py compute.py effect.py signal.py batch.py` | values, caches, edges in both directions, the invalidation work-stack, the batch's pending cells and effects | read, write, reset, dispose, make eager or lazy, run an effect, nested batches | no stale value is served, effects run on final values, disposal leaves nothing behind, calls return |
| teardown scopes | `teardown.py` | the list of what a scope owns | adopt, close, disarm | reverse order, once |
| async graph | `async_context.py async_slot.py async_effect.py` | the above, plus futures, drive tasks, flush tasks, cleanup tasks | get_async, set, invalidate, hard_clear, dispose of a node, an effect, a context | a stale completion is never published, cleanups run once, every await returns |
| reliable sync | `reliable_sync.py` | outbox and its ack cursor (durable), receiver cursor, resync and stall flags | enqueue, on_reconnect, tick | nothing unapplied is pruned, nothing is applied twice, convergence after faults |
| queue, topic | `queue.py queue_flavors.py` | FIFO with a capacity; a log with a base offset and cursors | push, pop, close; publish, subscribe, read, advance, gc, snapshot | conservation, cursors within the log, readers' slots coherent |
| work queue | `work_queue.py` | pending items, deliveries in flight with a deadline, dead letters | push, claim, ack, nack, reap | every item is somewhere, once; attempts bounded |
| coordination | `coordination.py` | holder, expiry and fence of a lease; permits; arrivals | acquire, renew, release, tick | one holder, a late one is refused by its fence |
| membership | `membership.py` | per peer a window of heartbeat intervals and a state | join, heartbeat, leave, tick | only a silent peer is suspected, only a suspected one dies |
| resilience | `resilience.py` | outcome window, breaker state, attempt, permits | allow, record, next_delay, acquire | breaker transitions, bounded delay |
| command plane | `command.py` | entries by command, seen ids, generation | submit, event, receipt, cancel, apply_projection | at most one terminal outcome, replay is idempotent |
| ingress | `ingress_core.py ingress.py ingress_flavors.py` | per scope: generation, watermark, reorder buffer, window | admit, drain, close, reconnect | in-order delivery, fencing, bounded windows |
| durable projection | `latest_durable_projection.py durable_client.py` | desired, in-flight and durable revision per key | upsert, claim, ack, fail, reconnect | what is called durable was stored, the newest revision is never lost |
| CRDTs | `crdt_plane.py crdt_registers.py crdt_tree.py seqcrdt.py textcrdt.py lossless_tree_crdt.py` | replicas | local edit, merge | convergence |
| relay and merge | `relay.py merge.py` | windows, tokens, credits, spill pages | send, drain, receive, spill, ack, reclaim | what the policy keeps arrives, in order |
| statecharts | `statechart.py state_machine.py projected_chart.py` | configuration and history; the state an authority was last seen in | send; observe, tick | one legal configuration, history as it was; wedged exactly when past its deadline |
| time | `temporal.py rateshape.py windowing.py` | deadlines and buffers | tick, input | outputs are what the history amounts to |
| workflow, replay | `workflow.py replay.py stdlib.py` | engine clock and timeline sources; event log and fingerprints; latched answers | advance, register; record, check; observe, poll | edges are reported once; a divergence is caught; an answer stays |
| keyed collections | `collection.py _keyed_order.py keyed_fold.py reconciliation.py tree.py semtree.py stable_id.py` | maps, orders, trees of cells | insert, move, remove, reconcile | order and identity preserved |
| families | `async_reactive_family.py thread_safe_reactive_family.py` | nodes by key, in order | set, get_or_insert, remove, move | one node per key under any race |
| thread-safe context | `thread_safe.py` | lock, depth, deferred writes | set, batch | one wave per batch |
| wire, transport | `transport.py ipc.py ffi.py msgpack_codec.py`, generated `_*.py` | blob arena, receipts, snapshots and deltas | write, resolve, fold, filter | a reused blob is not read through an old descriptor |
| mirror, presence | `projection.py presence.py` | dirty marks, epochs, permissions; expiring entries | publish, flush, snapshot; heartbeat, evict | peers show what the graph shows; presence ends with its time to live |
| the rest | `service.py signaling.py struct_cell.py metrics.py prometheus_egress.py`, benchmarks, harness | thin | | |

How they interact. Every cell of the outer parts writes graph sources inside a
`batch`; effects and pullers call back into user code in the middle of the
invalidation drain, so user code re-enters the graph at every depth. The asyncio
graph shares no state with the sync one; its coroutines interleave at each
`await`. `reliable_sync` moves opaque `Snapshot`/`Delta` frames between two hosts;
each host folds what `tick` returns into its own graph.

What is hard: re-entrancy (a body running inside the drain, writing, disposing),
exceptions from user code in the middle of a drain or a flush, disposal in the
middle of anything, the order in which a set of effects or cells is walked,
suspended computations whose inputs change, hand-over of a cleanup between
tasks, crashes between an append and a send, and broken connections.

## 2. Modules

| Module | Models | Checked by |
|---|---|---|
| `ReactiveGraph` | the sync graph | `MCReactiveGraph`: `graph_lazy`, `graph_eager`, `graph_dispose`, `graph_flush_chain` |
| `ReactiveGraphProofs` | theorems about it: its types and effects; its caches | TLAPS |
| `AsyncGraph` | the asyncio graph | `MCAsyncGraph`: `async`, `async_clear` |
| `AsyncGraphProofs` | theorems about it | TLAPS |
| `ReliableSync` | reliable sync, two hosts | `sync`, `sync_read_error`, `sync_wedge` |
| `ReliableSyncProofs` | theorems about it | TLAPS |
| `LeasedQueue` | what a work queue promises, abstractly | implemented by `WorkQueueCell` |
| `WorkQueueCell` | the competing-consumer queue | `work_queue` |
| `WorkQueueProofs` | theorems about it | TLAPS |
| `TopicCell`, `QueueCell` | the topic log and the FIFO queue | `MCCells`: `cells` |
| `LeaseCell`, `Resilience`, `Membership`, `Presence` | coordination, breaker and retries, failure detection, expiring entries | `cells` |
| `TimeOperators` | timers, rate limiters, windows | `cells` |
| `StateChart`, `StateMachine`, `Workflow`, `Stdlib`, `Replay` | charts, durable workflows, latched answers, replay | `cells` |
| `Teardown`, `KeyedTrees`, `Reconcile`, `KeyedMaps` | scopes, trees of cells, reconciliation by key, keyed maps | `cells` |
| `Relay`, `Ingress`, `Command`, `Receipts` | what is handed over, admitted, commanded and answered | `MCStreams`: `streams` |
| `LatestDurable`, `DurableClient`, `Mirror`, `BlobArena` | durable projections, the mirrored graph, blobs | `streams` |
| `CrdtRegisters`, `Plane`, `SeqCrdt`, `TextCrdt`, `LosslessTree` (over `CrdtElements`) | replicated data | `streams` |
| `CellsProofs`, `StreamsProofs`, `CallsProofs` | theorems about the lease, the topic, the breaker, the scopes, the members, the workflow and the replay; about the durable projection, the mirror, the ingress and its client, the arena, the calls and the receipts | TLAPS |

`MCCells` and `MCStreams` check many small machines in one run each. They share no
state: `subject`, chosen in the initial state, names the one a behaviour is about, and
the others keep the state they were built in. The instances, with the values of
their constants, are the `INSTANCE` definitions at the head of those two modules; the
machines that theorems are about (lease, topic, breaker, scopes, membership, presence,
workflow, stdlib, replay, durable projection, mirror, ingress, durable client, arena, command, receipts) take theirs from constants of
`MCCells` and `MCStreams`, which the configurations give values, so that a theorem about
such a module holds for every value. A property of theirs is `subject = "..." => M!Property`, with the property stated
where the machine is.

### ReactiveGraph

One transition is one public call, or one iteration of the library's own loops
(`_drain_resets`, the three stages of `_flush`), or one read by a body. User code
runs between transitions, so the Python call stack is the variable `frames`:
`run` is a body in progress, `exit` a body whose last call published a change,
`drain` the drain loop, `phase1`/`wave`/`phase2` the stages of a flush. An
exception (`BodyRaises`, then `Unwind` frame by frame) does to every frame what
the code's `finally` clauses do. A body is a pure function of what it has read:
`NextRead` says what it reads next, so dependencies are dynamic.

* `value cache settled parents deps` are `Source._value`, the context map entry
  of a `Slot`, `Computed._value`, `_parents`, `_deps`. A cached slot is kept as the
  sequence of values its run read, which is what lets a property compare a cache
  with the sources it came from. `work` is `_reset_work`: a stack of the sets
  that `touch` pushed, popped in an arbitrary order within a set since Python
  iterates over a `set`.
* An eager `Computed` is a handle, which readers subscribe to, and a puller
  effect, which reads the backing memo: the same name is a `Node` as the first and
  a `Reader` as the second.
* `ReadCached`, `ReadMiss`, `ReadLazyCached`, `ReadLazyMiss`, `ReadSettled`,
  `ReadStale`, `ReadDisposed`: the paths of `Slot.__call__` and `Computed.value`.
  `InvalidateSlot`, `InvalidateIgnored`, `InvalidateDeferred`, `InvalidateRuns`: the
  `_invalidate` methods. `Dirty` is `_dirty_disposed_dependents` over the closure
  `Cone`. `DisposeEffect` is called by a client or from inside an effect's body, its own
  included, after which the body reads on and registers edges as the code does.

Left out: the `ripple_when` predicate other than "changed", effect cleanup
closures that call back into the graph, a disposal called from inside a slot's body, and
the context dictionary (one context).

### AsyncGraph

One transition is what one coroutine does between two awaits. `_drive` tasks are
members of `Task`; `future[s]` names the task that will resolve the slot's present
future, so "current completion" is an equality. A body reads `Reads[n]` in order and
may be suspended before any read; a slot's result is the sequence of what it
read. `flush[e]` is the place of an effect's flush task (new, cleanup, body,
release, none) and `disposal[e][d]` that of each of two callers of `dispose_async`:
a client and the context. `MaxChanges` bounds all that clients change: writes,
invalidations, clears, disposals.

Left out: the memo guard (its `eq` decides only which of two equal objects is
published), `AsyncTeardownScope` (a list of the same calls), effects that write
sources, bodies that catch an error, `ctx.get` of an unresolved computed, node
disposal on a closed context.

### ReliableSync

One transition is one iteration of a loop of `SyncDriver.tick`, so a break or a
crash may fall anywhere inside a tick. `driver[p]` holds the in-memory fields of
`SyncDriver` and `ResyncCoordinator`; `outbox` and `acked` are the durable outbox. A
host's projection is the set of the peer's epochs it folded. The transport is
external: FIFO, lossy (`Drop`), breakable (`Break`, which empties both directions).
`send` returns False exactly when the transport is down. `Restart` is a crash: the
host resumes from what it had made durable.

Left out: how `SqliteStore` spells its statements, the resident window of the
outbox, two writers at once (each direction is independent but for the
connection).

### LeasedQueue and WorkQueueCell

One call of `WorkQueueCell` is one transition: the cell is single-threaded, and its
thread-safe and async flavors hold one mutex for the whole call. What interleaves is
the workers: each keeps the deliveries it was handed (`handed`) and may answer any
of them at any later time, with its own name or with another worker's, after the
item was reaped, delivered again, acknowledged or buried. The clock is an argument
of each call, so `now` is any time in `0 .. MaxNow`, not even monotone. `inFlight` is
the dict as a set of its values, `deadLetters` and `acked` are sets because nothing
reads their order; `Ordered` gives the order of ids in which `reap_expired` puts
items back. `acked` and `handed` are history: the code keeps neither.

`LeasedQueue` has four sets of entries (an item with its number of attempts): ready,
leased, done, dead. `WorkQueueCell` implements it with `ready` the elements of
`_pending`, `leased` the entries of the deliveries in flight, `done` what was
acknowledged and `dead` the dead letters; reads and unanswered calls stutter.

### TopicCell and QueueCell

Again one call is one transition. A topic value is its number in the order of
publication, so the retained log, a cursor and what a subscriber has yet to read can
be compared with `log`, everything ever published. `From` is Python's
`list[start:]`, negative starts included, since the code computes such a start for
an ephemeral subscriber that collection has left behind. `Save` and `Restore` are
`snapshot` and a new topic built from the last one taken: what was published since is
gone. `QueueCell` is the FIFO over `VecDequeStorage`, with the four memoised readers and
the flags by which `_invalidate_readers` resets them.

Left out: custom storages of a queue, and who calls: a queue's users may be graph
effects (section 6).

### LeaseCell, Resilience, Membership, Presence

One call is one transition, and time is a step of its own. `LeaseCell` keeps, beside
the holder, expiry and fence, what each caller was told (`grants`): a caller may act
on it long after. `LeaderCell` and `LockCell` are the same core with other names.
`Resilience` is a caller that takes a permit of the bulkhead, asks the breaker, runs
under a timeout and reports, possibly after the breaker moved on; the retry delay
is computed in `Width` bits, as the code computes it in 64. `Membership` decides
"phi above the threshold" in whole numbers: phi grows with the deviation
`(elapsed - mean) / std`, so the threshold is a bound on its square. `Presence` has the
ephemeral value and the peer map; its clock never goes back, since callers supply a
logical clock.

### TimeOperators

One of each operator of the three files is fed the same history of inputs and ticks;
an input is known by its place in the history, and a window is folded with
concatenation, so an aggregate says which inputs went into it. The clock may jump
over several deadlines, boundaries and gaps. The property of each operator is a
function of the history, not of the machine.

### StateChart, StateMachine, Workflow, Stdlib, Replay

`StateChart` is one `send`: candidates from the active leaves, in order of depth and
declaration but in any order where the code iterates over a set, conflicts between
exit sets, history recorded and restored. It is checked on the chart `ChartDef` of
`MCCells`, which has a parallel state, both kinds of history, guards and internal
transitions. `StateMachine` is the flat machine with the effects that its handlers are:
`linked` are those on the cell, `dirty` those a drain or a flush has yet to run. A handler
sends, registers and disposes while it is told. What it sends in the second phase of a
flush, at depth 1, only marks the cell (`written`): nobody is told until a later batch, or
a transition outside of one (section 6). A handler that opens a batch of its own is left
out. `Workflow` is a context that reads the engine's clock once per `advance` and
drives timers and a chart that projects an authority's states, whose observations
come late. `Stdlib` has the timer, the timeout and the revision barrier; an
asynchronous poll is two transitions with the adapters' await between them. `Replay`
compares a recorded fingerprint with a run of a changed log, another stride or a
graph that is not a function of its log; an observation is a function of some of the
labels, so that a label may differ, be missing or be unexpected.

### Teardown, KeyedTrees, Reconcile, KeyedMaps

`Teardown` is a stack of `close` calls, each with what it has left to dispose: a
cleanup is user code that may adopt, disarm, close again or raise while its close is at
it, and in the asyncio mode any awaited close may go on. `KeyedTrees` is `SourceTree`
with the readers of each level and `SemTree` with the dirty mark that climbs the
parents; callers build no cycle, which the code does not refuse. `Reconcile`
computes the operations that turn one level into another, with the longest
increasing subsequence as the code finds it, and applies them. `KeyedMaps` is one
map with its membership and order signals. Under threads a call is one transition
between every two acquisitions of a lock, and the writes of signals and nodes go through a
context that another thread's batch may hold; a reader subscribes, reads the keys and
caches them in three transitions, between which other threads run. Otherwise a call is
one transition. A behaviour has at most one reader. Left out: two threads inside
`_register_edge` and `touch` at once (sets changed while they are walked), and two threads
computing one reader.

### Relay, Ingress, Command, Receipts

`Relay` is the whole way of an operation: a keyed window with its overflow policy, a
paced egress, frames, an inbox with credits, the paged spill store, and an egress
that hands pages on and may crash. A window is the sequence of what was merged into
it. `Ingress` is one scope: its generation, watermark, pending successors,
window and phase, under envelopes of any generation and sequence. `Command` is a
client and a server projection over links that repeat and reorder, with reconnects
and an authority that does not own the command; the authority, which is outside
`src/`, folds what it issues and decides each command once. `Receipts` folds the
receipts of one cause in any order and compares with a projection built from all.

### LatestDurable, DurableClient, Mirror, BlobArena

`LatestDurable` has the sink and its drivers as part of the model: an attempt may be
applied before or after it is reported failed, and reported late, twice or never.
`DurableClient` uses `Ingress` for the core it wraps and keeps what it showed. `Mirror`
is the state mirror and a peer that applies the deltas and asks for a snapshot when
there is a gap; `missed` remembers the nodes whose changes the filter or the epoch
kept from the peer. `BlobArena` is the region, byte by byte: a header and a payload
written one after the other, with wrap, an epoch at each end and a producer that
restarts.

### CRDTs

Each replica's operations are recorded in `heard` when it takes them in, directly or by
merging a state, a frame or a delta; the properties say what a replica shows of that
set: for most a function of it; for the multi-value register that nothing concurrent is
lost, and that a superseded value comes back, as the code lets it, only once what
superseded it was superseded too (section 6). Messages stay in `sent` for ever, so each is delivered late,
twice or never. `Plane` has the stamps, the frontier and the families of keys bound
to nodes, whole frames, deltas, and the operation alone that `family_set_lww` returns for
its caller to broadcast; the ghost `passed` is what such an operation has overtaken, here
or at a partner whose frontier was taken over. `CrdtElements` has the two ways the code finds a key between two others, byte
by byte. `SeqCrdt` has the hybrid clock with the callers' skewed wall time. `TextCrdt`
has origins, tombstones, version vectors, deltas and collection. `LosslessTree` has
dotted operations, their dependencies and the buffer of those that wait.

## 3. Runs

| Run | Bounds | Shows |
|---|---|---|
| `graph_lazy` | 2 sources, 2 slots with a dynamic dependency, 1 effect that may raise and be disposed, by a client or in its own body, batches nested twice; 737k states | `CacheCoherent NodesFresh FlushReadsFinal EffectsDetached` |
| `graph_eager` | a chain of 2 eager computeds, an effect writing a source, 1 slot and 1 effect behind it | `NodesFresh`, and `CallsReturn` |
| `graph_dispose` | a computed made eager and lazy at will, a disposable source and slot, one level of batch; 288k states | `TypeOK PullerSubscribed DisposalDirties` |
| `graph_flush_chain` | violation of `BatchRunsEffects` | see 6 |
| `async` | 1 source, 2 computeds (one reads the other and the source), 1 effect, 1 client, 4 computations in flight, 2 changes; 217k states | `ValuesFresh ReleasedOnce TeardownIsFinal CallsReturn` |
| `async_clear` | violation of `ResolvedIsFresh` with `hard_clear` below another computed | see 6 |
| `sync` | 2 epochs, deltas of 1 or 2 epochs, 2 faults among break, drop, raising read, crash; 199k states | `StreamIntact CursorAdvances DeliversOrWaits` |
| `sync_read_error` | violation of `AppliedIsFolded` | see 6 |
| `sync_wedge` | violation of `Delivers` | see 6 |
| `work_queue` | 2 interchangeable workers, 2 items, 2 deliveries at most, times 0 to 2 with a timeout of 1; 399k states | `Conserved KeepsPromise AnswersOwnDelivery ReadersExact` |
| `cells` | 16 machines, below; 1.2M states, by symmetry | 12 properties, below |
| `streams` | 13 machines, below; 1.5M states | 8 properties, below |

The machines of `cells`:

| Machine | Bounds | Property |
|---|---|---|
| topic, queue | 2 subscribers of either durability and 3 values; capacity 2 | `TopicStreams`: durable subscribers miss nothing, cached readers show the log. `CellSteps` (queue): a reader is reset exactly when what it shows changes |
| lease | 3 peers, ttl 1 or 2, 4 ticks, 4 grants | `LeaseExclusive`: a caller inside its grant is the only one, and its fence validates |
| resilience | 3 callers, a window, 5 ticks, 4-bit delays | `BreakerEvidence`: what the breaker is in follows from the outcomes it recorded. `CellSteps` (delay): it never shrinks while it fits the width |
| membership, presence | 2 peers, 5 ticks | `PeersWereHeard`: the dead were silent long enough, who is present has not expired |
| time | 5 events, jumps up to 4 | `OutputsFollowHistory` |
| chart, flat machine | the chart above with 6 events and a guard; 3 states, 2 handlers | `ChartsFaithful`: a legal configuration, faithful history; what a handler is told is an unbroken walk of real changes that ends at the state, unless a write waits for a flush |
| workflow, stdlib | 3 observations, 1 timer, 3 times; 2 polls in flight | `WorkflowFaithful`: state, wedge and violations follow from the observations, edges are told, an answer stays |
| replay | logs of 2 events, strides 1 and 2, 2 labels, 3 observations | `ReplayCatches`: a replay passes only for the recorded log, stride and sampled states, and otherwise the report is exactly the first difference |
| trees | 3 nodes, 5 calls | `TreesFold`: memos and readers agree with the tree |
| scopes | 3 nodes, 2 of them effects, 2 scopes, 2 closes | `TornDownInReverse`: while a cleanup runs what was adopted before is still there; each cleanup once; nothing is left |
| levels, maps | levels over 4 keys; 2 keys, 2 threads, 3 operations (2 beside a reader) | `MapsStayWhole`: the operations reach the target and move only what must move; no orphan, no revived value, no reader left with an old order but one whose signal was set while it computed |

The machines of `streams`:

| Machine | Bounds | Property |
|---|---|---|
| relay | 2 keys, windows, frames and pages of 1 to 2, both spill modes, 2 operations a key, a crash | `KeptInOrder`: what the policy kept is all there, in order |
| ingress | 2 generations, 4 sequences, reorder window 2, high water 2 | `DeliveredInOrder`: one generation's sequence without gap. `ChangesTold`: readers are told of what changes, with the exceptions of section 6 |
| client of a durable owner | 2 incarnations, 3 positions, 2 fingerprints | `ChangesTold`: the projection shown never goes back and stands on a complete history |
| command, receipts | 1 command, of one of 2 generations, 2 frames a link, a repeat, a reconnect; 3 receipts | `CallsResolveAsDecided` |
| durable projection | 1 key, 3 epochs, 2 generations, with and without threads | `DurableIsStored` |
| mirror | 1 node, 2 payloads, 1 peer, 3 epochs, 2 frames | `MirrorFollows` |
| arena | 8 bytes, headers of 2, payloads of 0 to 7, 4 blobs, an epoch at each end, a restart | `BlobsIntact` |
| registers, plane, sequence, text, tree | 2 replicas, 2 to 4 operations, 1 to 2 messages that stay for ever; the plane's operations also alone | `Converges`: what a replica shows is that of the operations it has heard; what a frontier covers was heard, or overtaken by one sent alone |

Why the bounds are enough. In the graph, staleness needs a path of two caches
above a source, two sources so that a body can choose its dependencies, and one
effect or puller that runs inside a wave; each run has them. Values are two and a
body returns the parity of what it read, so any single change shows. `MaxLeft`
bounds what exceptions leave on the work-stack, which nothing in the code does. In
`async`, two changes suffice for a change during the recomputation that another
change caused; the safety properties also held with three (1.05 million states),
and the four tasks are never all in use. In `sync`, two faults are a fault during
the recovery from another. In `work_queue`, an item fails, goes to another worker and
dies at the limit while its first worker can still answer, and a reap takes one
item back and buries the other at once. In `cells` and `streams` a bound is the
smallest that has the case: three published values leave one before, one at and one
after a cursor; a clock jump of 4 passes two periods of 2; a reorder window of 2
fills; two generations hand over; 8 bytes wrap on blobs of every size; two threads
race on one key while a third operation waits; two replicas write at the same
time, and each message is old or repeated for one of them. Each run lists a mutant
for every property: the bound is large enough for that bug to show.

The computeds of `graph_lazy` and `graph_eager` do not mix with disposal or with
chains inside a batch, because there the code does not keep the property (section
6); each of those cases has a run or an entry of its own.

Fairness. `ReactiveGraph`: weak fairness of the library's own steps, which are
single-threaded code that runs to completion; none for clients. `AsyncGraph`: weak
fairness of every task that is ready, which the asyncio loop gives; none for
clients, and none that makes a body raise. `ReliableSync`: each host ticks its
driver and calls `on_reconnect` after it re-established the transport, which
`DriverError` and `on_reconnect` ask of it; that call is possible only between
ticks, hence strong fairness.

`CHECK_DEADLOCK FALSE` is set where the system may stop: `AsyncGraph`, after the last
change and the last call, and `cells` and `streams`, when the bound on calls, time or
messages is reached. `cells` uses symmetry, of the
peers, keys and threads that its machines take from {a, b} and from {u, v}: none orders
or chooses among them, and the run does not check liveness. The other machines have no loop
of their own that must finish: they answer calls, so no fairness is assumed for them and
nothing eventual is claimed.

`TopicStreams` excepts an ephemeral subscriber behind the collected prefix, because
there the code does not keep it (section 6).

## 4. Proofs

TLC checks the instances of section 3; the theorems below hold for every value of the
constants that the assumptions of the modules allow: every graph, every number of
peers, keys, epochs and calls. Each rests on an inductive invariant, established by
the initial states, kept by every action (one lemma per action or group of actions)
and strong enough for the property. Where the property is not inductive the missing
part is named here, because it is usually what the code really relies on.

### The reactive graph

`ReactiveGraphProofs`:

* `TypeCorrect: Spec => []TypeOK`. A body's return is passed to the frame below it, and
  only the order of frames makes that a frame which is waiting for a value. So
  `TypeInv == TypeOK /\ StackOK(frames, depth)`, where `StackOK` says which frame can
  stand on which: a `run` below another frame still has something to read, flush frames
  are at the bottom and only when a batch is open. Lemmas about sequences and traces come
  first, then `StackPush`, `StackPop`, `StackReplace`, `StackReturn`; `Moves` sums up what
  a step can do to the stack, for the proofs that only look at that.
* `EffectsStayDetached: Spec => EffectsDetached`, an action property: the disposal of an
  effect takes it out of every dependent set, no body of it begins any more, and only a
  body that had begun before, one that disposed its own effect, can subscribe it again
  (section 6). `EInv` adds `Named` to the types: a dependent set that names an effect is
  named by that effect, so detaching finds every edge. `Leaves` and `NeverBegins` are the
  two halves, of what a step does to the edges and to the bodies of a disposed effect.

Its caches, in the second half of the module:

* `CachesStayCoherent` and `DisposalReachesCaches`: a cached slot agrees with, and hears
  of, all that it was computed from, and none outlives a disposed node it was computed
  from. `IInv` says it of the runs in progress too (`Partial`: what a slot's body has
  read so far is linked, or the slot is queued for invalidation), that a waiting slot
  subscribed to what it waits for (`Awaited`), that a slot that runs has no value yet and
  a disposed one neither runs nor has one (`Unsettled`), that above a slot's body there
  is only the chain of calls its read started (`Shape`), and that a source waits in a
  flush only while nothing else runs (`Staged`). `Caught` covers the step itself:
  everything a wave takes away is on its stack.
* Two hypotheses. `Acyclic`: no slot or computed reads itself through others; the code
  recurses for ever on one that does. `[]~Interrupted`: no drain runs above a slot's
  body. The code does not enforce the second, and the properties fail without it: that
  is the first entry without a run in section 6.
* `CalmGraphsAreUninterrupted` gives the graphs in which the second holds: those whose
  disposable nodes are all effects, and those in which no slot reads a computed.
  `CalmCachesStayCoherent` puts the three together, with no hypothesis on the
  behaviour. `graph_lazy` and `graph_eager` are such graphs; `graph_dispose`, where a
  slot reads a computed above a disposable source, is not, and there TLC checks
  `DisposalDirties` on the instance.
* `SlotsStayFresh: Spec => []SlotsFresh` and `FlushesReadFinal: Spec => []FlushReadsFinal`,
  for every acyclic graph in which slots read sources and slots (`Plain`). Coherence is
  about one link at a time; these say that the values are right, all the way up to the
  sources. They compare with the recursive `Eval`, so three things are proved. `Eval` is
  well defined (`EvalUnfolds`): `Derived`, the least set of outcomes closed under its
  rules, gives every reader and trace exactly one value. The proof takes a point at which
  this fails with nothing further up failing (`Uppermost`, from `Acyclic` and the bound on
  reads), which stands for an induction. A cached slot has read all its body asks for
  (`Finished`). And while a batch flushes nothing runs before its wave is over
  (`WavesFirst`: a drain is the innermost call, and what is queued is queued under it).
  Then `CachesFinal`: among the prefixes of cached runs whose evaluation is not what is
  cached, an uppermost one contradicts `Cached`. Computeds and effects may stand behind
  the slots and effects may write the sources. With a slot that reads an eager computed
  the statement is false in general: the computed's guard may keep an older value.

### The asyncio graph

`AsyncGraphProofs`: `TypeCorrect`, `NeverReleasedTwice: Spec => []ReleasedOnce` and
`TeardownStaysFinal: Spec => []TeardownIsFinal`. One invariant, `IInv`, serves the three.
`Holding` says who holds the resource of an effect: its body, one cleanup, or nobody
while it is retained. `Disposal` ties the place of each call of `dispose_async` to the
effect: past the flush task it is dead, and once they have all returned no node leads to
it. `Closing` says that a context awaits every effect no one else had disposed, and
`Publishing` that after it is closed a slot waits only for a computation that has not
started and will find it disposed. They are per effect or per slot, so most steps
are covered by `QuietEffectHolds`: a step that leaves an effect alone leaves its part.

`ValuesStayFresh: Spec => []ValuesFresh` has an invariant of its own, `FInv`, besides that
one. While the context is open every value in the graph is tied to the node it was read
from by an edge, at rest and half way through a computation:

* `SlotRest`: a resolved slot holds one value for each of its reads, and is `Linked` to
  each: the node is not disposed, has the edge, and still shows that value. `SlotRun`
  says it of what the computation behind a slot's future has read so far, and of the edge
  to the slot it is suspended on (the code registers before it awaits). A computation
  that is no longer its slot's future may hold anything; what it holds is never published.
* `EffectRest` and `EffectRun`: the same of an effect at rest and of a body in flight that
  nothing has made pending again. An effect's edges may be missing when what it reads is
  `Dead`, that is disposed or above something disposed: `AliveUnfolds` shows that this
  least set is the complement of the recursive `Alive`, and of dead nodes `ValuesFresh`
  says nothing.
* `Queued`: a slot with a computation that has not started is not resolved, and its
  future, if it has one, is not before that one in the queue of ready tasks. Without it a
  superseded task could start after its successor and publish.
* `Sound`: edges lead to readers, and a task that has not started has read nothing.

What breaks a link removes it on both sides. A write, an invalidation, a failure and a
disposal strike the whole cone of dependents in one step, without an await
(`_invalidate_dependents`), so no slot of the cone is left resolved, every future in it is
taken away, and every effect of it is pending; what is outside of the cone was not linked
to anything in it. From the links freshness follows as for `SlotsFresh`: `Fresh` unfolds
in a graph without cycles, and a least set of slots whose value is not fresh has a lowest
member, all of whose reads are fresh.

The hypotheses are on the graph. `Acyclic`: no set of slots each reads another of it; the
code awaits itself for ever on a cycle. `Unread`: nobody reads a slot that `hard_clear` is
called on. The code does not ask for it, and the statement fails without it: `hard_clear`
does not reach the readers, which is what `async_clear` finds. The run `async` has both.

### Reliable sync

`ReliableSyncProofs`: `TypeCorrect`, `StreamStaysIntact: Spec => []StreamIntact` for
`Enqueued \subseteq {"delta"}`, and `CursorNeverRewinds: Spec => CursorAdvances` likewise.
`StreamIntact` looks at the ends; the invariant has to speak of what is in flight:
`Sending` (what is retained, staged or replayed is a delta of the host's own past, in
order), `Retained` (everything past the ack cursor is retained or staged), `Receivable`
(a snapshot in flight covers the receiver's cursor and every frame before it),
`Answered` (no ack promises more than its sender applied) and `Projected` (the
projection that goes with a cursor, at rest and inside a tick). The hypothesis is that of
the runs: a host that enqueues a snapshot itself can have it replayed later, behind the
cursor of its peer (section 6). Faults of every kind are allowed, any number of them.

### The work queue

`WorkQueueProofs` proves all four properties of the run `work_queue`:
`ItemsConserved: Spec => []Conserved`, `ImplementsLeasedQueue: Spec => KeepsPromise`
(that is, `LeasedQueue` under the mapping), `OwnDeliveryOnly: Spec => AnswersOwnDelivery`
and `ReadersStayExact: Spec => ReadersExact`. `Conserved` counts places and does not see
that a delivery's id is its own. `IInv` adds the types, `Ids` (a delivery handed out has
an id of its own below `_next_delivery_id`), `Attempts` (what is pending has an attempt
left, what is in flight has not passed the limit), `Distinct` (no item is named twice,
within a place or in two) and `Complete` (every item below `_next_item_id` is named).
`Attempts` is what makes "at least the limit" in the code the "exactly the limit" of
`LeasedQueue`. The readers need an invariant of their own, `CacheExact`. The assumption is
`LimitsAssumption`, which the constructor checks.

### The machines of the packs

`CellsProofs`, `StreamsProofs` and `CallsProofs` are about behaviours of `MCCells` and
`MCStreams` whose subject is the machine; the others stay as they were built.

* `LeaseStaysExclusive: Spec => []LeaseExclusive`. A caller that released or expired
  keeps its fence; only the order of fences keeps a later grant apart from it.
  `FencesDistinct`: no fence was handed out that the lease has not reached, and none
  twice. `HolderCurrent`: the holder has the newest. `BelieverHolds`: who is inside its
  grant is the holder. `LeaseAssumption`: nobody is no peer, times to live are integers.
* `TopicStreamsStay: Spec => []TopicStreams`. `LogKept` compares the retained log, and
  the saved one, with all that was published, by position; `CursorsKept` keeps cursors
  within the log and the base behind every durable one, which is what collection
  must not break. The lemmas are about least elements and about parts of a sequence.
* `BreakerStaysEvident: Spec => []BreakerEvidence`. `WindowKept`: the outcomes held are
  the last window of all since the breaker last closed, whatever state it is in;
  `NewestAppend` shows that dropping the oldest on each record keeps them so.
  `PermitsHeld`: the callers inside are as many as the permits out, and not more than
  there are. `BreakerAssumption`: the window and the threshold are at least one, to
  which the constructor raises them.
* `TeardownStaysOrdered: Spec => []TornDownInReverse`. A node may be in several scopes,
  and awaited closes interleave, so the invariant is about the lists of one scope: what
  it owns and what its closes have left. `Mine`: a list holds each node once, taken by the
  scope, and only another scope can have disposed of one. `Apart`: no node is in two lists
  of one scope. `CallHeld`: a close has left the first of its members and is at the one
  behind them, from which the order follows. `Accounted`: what a scope took is disposed,
  spared or in one of those lists. `TeardownAssumption`: the effects are nodes.
* `PeersStayHeard: Spec => []PeersWereHeard`. `RecordHeld`: who is suspected, or dead, is
  so since a time after its last heartbeat. That a suspicion cannot begin at the heartbeat
  rests on the detector: a peer is late only at a distance above the mean of its
  intervals, and the mean is not negative (`SumIsNat`, by the least length at which a sum
  would not exist). `EntryHeld`: a presence entry is the last beat of its peer and when it
  ends, and what was swept had ended by the time of the last call. `MemberAssumption`: a
  window holds at least one interval, to which the constructor raises it.
  `PresenceAssumption`: None is no entry.
* `WorkflowStaysFaithful: Spec => []WorkflowFaithful`. `Says` compares the chart with the
  reference over all deliveries. It is kept because a delivery is either older than one
  before it, and then changes neither the chart nor what the reference says
  (`StaleSaysNothing`), or is the newest adopted one, and then only what the authority said
  just before it decides what it does to either (`NewestSays`). `TimersHeld` is for what
  fired. `StdInv`: what was answered is the latched answer or nothing (`Latched`), and a
  poll that still awaits its caller began before the deadline, which is what its late
  answer rests on. `FlowAssumption` is what `ProjectedChartDef.of` refuses definitions
  for, and that instants are not negative; `StdAssumption`, that the deadline fits the
  width, as the constructor checks.
* `ReplayStaysCatching: Spec => []ReplayCatches`. `Recorded` and `Replayed`: the fingerprint
  and the verdict are those of the runs they were taken from. `CompareIs`: comparing two
  runs of one log yields exactly what is due at the first sampled place where they differ,
  and `DifferencesAreDue` that this is every label that differs, with its kind.
  `ReplayAssumption`: an observation is a function of labels, None is none of its values,
  and strides are positive.
* `DurableStaysStored: Spec => []DurableIsStored`. A driver may come back with any attempt
  it was ever handed, so the invariant says of every attempt that it carries an accepted
  revision, and `EntryHeld` of every key that its durable, in-flight and desired
  revisions are in order (`Ordered`), each accepted and the durable one applied
  (`Backed`), and that nothing newer was accepted than what the entry holds (`Complete`).
  `ShownCurrent` is for the snapshot shown. `DurableAssumption`: epochs are naturals.
* `MirrorStaysFollowing: Spec => []MirrorFollows`. The property is of a peer that has
  caught up; the invariant of one on its way. `FramesHeld`: the deltas sent to it are in
  order and before the next one. `CopyHeld`: either one between the copy's epoch and the
  next is gone for good (`Gap`), so that the copy will be given up before it is current,
  or the last of them to tell of a node tells its payload, and the copy holds it if none
  does (`InStep`). `SetsHeld`: a set that waits to be flushed is the payload, unless the
  peer has missed it. `SourceHeld`: nothing was flushed at an epoch that is still open,
  so no pending op is ever suppressed. `MirrorAssumption`: None is no payload, entry
  or copy.
* `DeliveryStaysInOrder: Spec => []DeliveredInOrder`. `UpTo` relates a scope to what it
  delivered: its watermark is the last delivery, or nothing of its generation was
  delivered. `WindowHeld`: what is buffered is of the current producer and behind a gap,
  the one thing a handoff or a flush could break. `FirstGap` and `FlushIs` show that what
  an in-order delivery lets through is an interval, and `TakenGrows` that delivering it
  continues the sequence. Stamps are folded over sets and need no type: nothing about
  order depends on them. `IngressAssumption`: generations are naturals, sequences integers.
* `ChangesAreTold: ASSUME IngressRoom PROVE Spec => ChangesTold`, for the ingress and for
  the client built on it. It says of every transition of a scope that the readers whose
  value changes are told, but for those the code leaves untold: the authority and the retry
  of a closed scope, and the readiness and the retry when the generation moves (section 6).
  `TellInv` adds to the above that failures are counted from none and that a closed scope
  has nothing to hand out (`ScopeQuiet`); with it each transition is compared with the four
  readers it could change (`ToldWhen`, `ToldButClosed`, `ToldButFenced`). `IngressRoom`:
  sequences are naturals, the reorder window has room for one and the window may hold one;
  with a reorder window of 0, which the code allows, the theorem is false (section 6). `ClientInv`: what
  the client's scope has delivered or holds was observed (`SeenBy`), what it shows is the
  watermark or older than the scope's producer (`Projected`), and what is recorded as
  applied goes up to the watermark while one incarnation was heard (`Recorded`).
  `ClientAssumption`: incarnations and positions are positive, as `validate` demands, and
  the core's window is not empty, as in the default policy.
* `BlobsStayIntact: Spec => []BlobsIntact`. `Beside`: the next write begins outside of
  every blob whose header is whole, at its start or before it, or at its end or behind it.
  `HeadersApart` and `PayloadApart`: two headers that are both whole share no byte, nor
  does a header with a payload, so a header that the next write leaves whole lies beside
  all of that write, and with it the payload behind it (`Stored`). Descriptors of a region
  replaced by a restart name headers that are no longer there, until one is minted again.
  `ArenaAssumption`: the region has room for a header and a byte, as the constructor
  demands; None is no descriptor and no byte of a header.
* `CallsStayDecided: Spec => []CallsResolveAsDecided`, for the calls and for the receipts.
  The statuses of a command are ordered (`Below`), and an entry joins what a frame brings
  to what it has (`Joined`), so the order in which frames are folded does not matter.
  `IssuedHeld`: whatever its owner said of a command the server's table shows. `Told`: an
  id that a projection has seen is of such a frame, and it shows it too; that is why it
  may ignore the frame when it comes again. `ImageHeld`: an image is at the head of a new
  link, between what the client and the server have. From these the client is `Behind` the
  server, in every status; a terminal status is below no other, so it resolves a call as
  decided. `Underway`: what it does not show yet is on the link, in a frame or in the
  image, so that it shows all once the link is empty. Nothing is assumed of the constants.
  `ReceiptsInv`: `Decided` relates the outcome and the conflicts to what the receipts of
  the generation say; that there is a sequence of projections from the empty one through
  the frames to the present one (`Passes`) is carried as part of the invariant, which
  spares an induction: there is only one such sequence (`PassesOnce`), the one a later
  reader passes through. `ReceiptAssumption`: None is no terminal outcome.

### What is only model-checked

* Liveness: `CallsReturn` of both graphs, `DeliversOrWaits`. Fairness and `ENABLED` are
  out of the provers' reach.
* `NodesFresh` for computeds and effects (`EagerFresh`, `EffectsFresh`). It needs that
  no guard holds a change back and that no effect writes what it reads, as in the
  instances; the observers' half of the linking invariant is not written.
* What the other recursive definitions compute: `CellSteps` needs powers of two;
  `OutputsFollowHistory`, `TreesFold` and `Converges` are folds over
  histories and sets. Each needs an induction over data, which the provers cannot take
  from the library; an argument by a least counterexample, as for `Eval` and `Fresh`, may
  do for some, as it did for the sum of `PeersStayHeard`.
* `PullerSubscribed`: between a wave that takes a puller's edge and the rerun that
  restores it, only what is pending, running or raising says that it will be restored; an
  invariant that says so for every graph is not written.
* `ChartsFaithful`, `MapsStayWhole`, `KeptInOrder`: within reach or partly so, not done
  (section 5).

## 5. Plan

Every part the inventory calls the system's own logic has a module. What is left is to
prove more, in this order, each machine with its parameters made constants of its pack
as for the lease:

1. `ReactiveGraph`: the observers' part of `NodesFresh`, and `PullerSubscribed`.
2. `Relay`: `KeptInOrder` for one mode.
3. `Reconcile` and `KeyedMaps`: `MapsStayWhole` where no fold is involved.

## 6. Where the code and its documentation part

With a run that finds it:

* A puller that publishes during the second phase of a flush queues its readers
  for a flush that never comes, so two chained eager computeds in one batch end
  stale (`graph_flush_chain`).
* `hard_clear` of an async computed below another one, and a write while its
  recomputation is suspended, leave the upper one stale (`async_clear`).
* A read that raises in `tick` after a frame was applied loses that frame to the
  host, while the cursor has passed it (`sync_read_error`).
* A resync request lost with its connection leaves the receiver waiting for ever
  (`sync_wedge`).

Without a run of their own; each was met while its module was written or proved about,
and the model reproduces it, or the checked configuration stops short of it:

* Graph: a slot's body that reads an eager computed which a disposal made stale repairs it
  there, and the repair publishes: a wave is drained above computations that are still
  running, takes the links they have just registered, and ends before they cache. The
  caches they fill afterwards have no link left (the hypothesis `[]~Interrupted` of
  `CachesStayCoherent` leaves exactly these waves out).
* Graph: disposing a source below an eager computed marks the handle stale and leaves
  the caches behind it (`ReactiveGraph.DisposalReachesReaders`, which TLC refutes).
* Graph: an effect that disposes itself in its body and then reads is subscribed again, and
  the cleanup that its body returns is never run (`EffectsDetached` allows this one case).
* Graph: an effect that raises in the second phase of a flush takes the effects queued
  behind it with it: they are off the queue and off the dependent sets, and are not rerun.
  With two effects in `graph_lazy` TLC refutes `NodesFresh`, so the run has one.
* Graph: an invalidation that reaches an effect while its body runs has taken the edge and
  is dropped: an effect that reads a source and then writes it never follows it again. No
  run has an effect that writes what it reads.
* Async graph: a get between two turns of its loop restarts a computed that was
  disposed meanwhile; closing a context does not wait for an effect whose own disposal
  is in progress.
* Thread-safe context: `_flush` runs inside the module's `batch()`, so two contexts
  with two locks share one depth and one set of pending effects.
* Teardown: a cleanup that raises ends a `close` that has already emptied the list;
  two asyncio scopes that share an effect and its source dispose the source while the
  first still awaits the effect's cleanup.
* Topic: `gc` moves the base past ephemeral cursors without moving them, so they count
  from the end of the log, and a snapshot taken then cannot be restored.
* Resilience: the half-open state admits every caller, and closes on an outcome of a
  call admitted before the breaker opened; a retry delay that overflows 64 bits falls
  below the cap.
* Relay: in `COMPACT_ON_WRITE` mode a window is merged into the last page even after
  that page was acked. The egress of the model does not hand an open page on.
* Ingress: some readers are not told of what changes. `open` and `reconnect` at a higher
  generation move readiness from ready to warming and mark none; no handoff marks the retry
  that moves with the watermark; a closed scope says nothing of the retry it loses when it
  is opened, nor of the authority it has again when it is reconnected. `TellsReaders`
  excepts these and no more.
* Ingress: `open` at a higher generation keeps the window. With `reorder_window` 0 ("a gap
  drops immediately") an envelope of a newer generation that has a gap clears the window
  and is then refused with an empty change, so the value reader keeps what it cached: TLC
  refutes `ChangesTold` there.
* Durable projection: with a second thread a reader may cache an old aggregate
  (`LatestDurable.ShownIsCurrent`, which TLC refutes); after a handoff the client's list
  of applied positions repeats one.
* Command: an image replaces terminal entries and a receipt known by its id is not
  folded again, so a resolved command can become pending.
* Receipts: `terminal_outcome` is still the first one's after a conflict.
* Mirror: an invalidated slot without a payload is flushed with its old one; a second
  flush of one epoch drops a changed payload, and two deltas of one epoch defeat the
  detection of gaps. The model's host makes one delta an epoch.
* Blobs: one message may spill a payload over another of its own; the receiver of a
  shared region has an epoch of its own.
* Registers: a multi-value register forgets what it had observed when it is written: after
  writes x, y, z a merge of a state that holds x shows x beside z, where a replica that
  heard the same in another order shows z. `RegistersConverge` bounds what it shows.
* Plane: two replicas that insert one family key bind it to different nodes; an
  operation lost behind a later one of its producer, sent alone, is left out of every delta
  (`PlaneConverges` excepts those in `passed`).
* Sequence: the ninth `insert_front` lands after the first element. `CrdtElements`
  computes the keys as the code does; the runs stop before the ninth.
* Tree: an edit of a leaf made by a split, or a merge of it, is never applied by a
  partner (`EditsOfSplits` is FALSE in the run; `LosslessTree.NoneWaits` is refuted
  otherwise), and a split overtaking a concurrent edit ends in different texts.
* Charts: a transition from outside a parallel state into one of its regions leaves
  the others unentered; candidates of one source come in the order of a set of
  strings; a leaf's external self-transition conflicts with nothing.
* Flat machine: what a handler sends while it runs in the flush of a batch is told to nobody
  before a later transition or batch; the state has moved and the handlers have not
  (`HandlersFollow` waits while `written`).
* Keyed maps: a reader in one thread reads its signal, the keys and caches; an insert by
  another between two of these takes the reader off the signal before it has a cache, and
  it keeps the old list for ever (`MapsStayWhole` excepts the readers in `crossed`).
* Workflow: at the instant `next_fire` names the chart is not wedged yet; an observation
  ahead of the engine's clock wedges a chart that no `advance` reports.
* Reconciliation: the anchor of a move is any common key, not only a stable one, as
  its comment says.

Met while modelling, and avoided by the runs' configurations or reproduced by the
model without a property of their own:

* Graph: an effect that writes in the second phase of a flush leaves its readers
  queued; an eager computed read inside a drain, outside a batch, may be read one write
  late; an effect that raises in
  a flush leaves the batch depth raised, one that raises in a drain leaves the rest of
  the wave on the stack; `lazy()` strands the readers that subscribed while it was
  eager; a first pull that raises leaves `eager()` serving a sentinel; an effect that
  pops the queue whose head it reads is running when the head is invalidated.
* Reliable sync: a receiver that restarted behind a pruned outbox is not resynchronised
  until the next frame; a frame lost at the tail of a live connection is noticed at the
  next frame or reconnect only; a replayed snapshot that the host had enqueued moves the
  cursor back, so the runs enqueue deltas.
* Text: an insert whose origin was collected and that arrives by a delta hangs from
  nothing, so the run collects only what every replica has seen and nothing in flight
  builds on.
* Tree: a dot range never becomes contiguous when a counter skips; repeated updates are
  buffered without a bound. Sequence: a key between two equal ones comes after both.
* Keyed maps: `ThreadSafeDependencyMap.publish` inserts, then writes again, so its value
  reappears after a concurrent unpublish and publish; `_flush` touches a cell whose
  batch writes end at the value it had.
* Mirror: registering a tracked node again with another payload tells nobody; a node
  tracked after a snapshot reaches peers with their next snapshot only.
* Workflow: an unknown state observed again resets its entry time; two overlapping
  `deterministic_scope`s that do not nest leave `time.time` raising.
* Trees: `SourceTree.children_of` of an absent node subscribes to nothing;
  `insert_child` does not refuse a cycle.

## 7. Not modelled

* Codecs: `msgpack_codec.py`, `ffi.py`, the generated `_*_wire_gen.py`, canonical
  encoding of `replay.py`. They are functions without state; what matters of them to
  the machines (identity of content, a digest) is a value of the models.
* `service.py`, `signaling.py`, `struct_cell.py`, `metrics.py`, `prometheus_egress.py`,
  benchmarks, the interoperability harness, re-exports: single assignments, counters
  and relays of frames.
* The transport adapters of ingress and the durable client (NATS and others), the SQL of
  `SqliteStore`, the LRU window of the resident outbox.
* `keyed_fold.py` and the alignment of `stable_id.py`; `ReplayOutbox`; the barrier of
  `coordination.py`; probabilistic sampling and the deadline operator; the relay's
  expiry and priority storages; several ingress scopes, which are independent; the edges
  of the mirrored graph; `AwarenessCell`, which is `PresenceCell` under other names.
* In the graph: the `ripple_when` predicate other than "changed", effect cleanups that call
  back into the graph, several contexts.
