------------------------------- MODULE KeyedMaps -------------------------------
(***************************************************************************)
(* Keyed reactive collections (_keyed_order.py and its three shells): the  *)
(* present keys and their order, one node per key, a membership and an     *)
(* order signal, and a reader of each.  In the plain (collection.py) and   *)
(* the asyncio flavor (async_reactive_family.py) an operation is one step; *)
(* in the thread-safe one (thread_safe_reactive_family.py) a node is built *)
(* outside the lock and signals are set after it is released, through a    *)
(* ThreadSafeContext (thread_safe.py) that another thread's batch may hold.*)
(* There a reader subscribes, reads and caches in three steps, one         *)
(* computation of it at a time; in the others in one.  A behaviour has one *)
(* reader, of the count or of the keys, or none, and fewer operations when *)
(* threads run beside it: readers do not disturb each other or a writer.   *)
(* A value is the number of the operation that writes it.                  *)
(***************************************************************************)
EXTENDS Integers, Sequences, FiniteSets, SequencesExt

CONSTANTS Key, Thread, MaxOps, MaxOpsRead, None

VARIABLES
  threaded,  \* which flavor
  order,     \* KeyedOrder._order
  entries,   \* KeyedOrder._entries: key -> the number of its node, None when absent
  nodes,     \* the nodes built so far: [value, live]
  versions,  \* _version, _order_version
  signals,   \* the cells _membership_signal, _order_signal
  readers,   \* what a len or a keys reader has cached, None when invalidated
  linked,    \* the readers among the dependents of their signals
  reading,   \* reader -> None, <<>> once subscribed, then <<what it read>>
  calls,     \* thread -> its call in progress, None
  holder,    \* the thread whose batch holds the context's lock, None
  pending,   \* ThreadSafeContext._pending
  ops,       \* ghost: calls and batches begun
  ended,     \* ghost: key -> values whose writes have ended
  undone,    \* ghost: key -> values that some ended write or removal began after
  crossed    \* ghost: the readers whose signal was set while they recomputed
view == <<readers, linked, reading, crossed>>
graph == <<order, entries, nodes, versions, signals, view>>
ghosts == <<ops, ended, undone>>
vars == <<threaded, graph, calls, holder, pending, ghosts>>

-----------------------------------------------------------------------------
\* The move algebra; positions count from 0 and are clamped at both ends.
Position(o, k) == CHOOSE i \in 0..Len(o) - 1 : o[i + 1] = k
Least(m, n) == IF m < n THEN m ELSE n
Larger(m, n) == IF m > n THEN m ELSE n
MoveTo(o, k, i) ==
  LET to == Larger(0, Least(i, Len(o) - 1)) IN InsertAt(RemoveAt(o, Position(o, k) + 1), to + 1, k)
MoveBefore(o, k, a) ==
  MoveTo(o, k, IF Position(o, k) < Position(o, a) THEN Position(o, a) - 1 ELSE Position(o, a))
MoveAfter(o, k, a) ==
  MoveTo(o, k, IF Position(o, k) <= Position(o, a) THEN Position(o, a) ELSE Position(o, a) + 1)
Moved(k) == {MoveTo(order, k, i) : i \in -1..Len(order)}
            \cup UNION {{MoveBefore(order, k, a), MoveAfter(order, k, a)} : a \in ToSet(order)}

Present(k) == entries[k] # None
Build(v) == nodes' = Append(nodes, [value |-> v, live |-> TRUE])
Dispose(h) == nodes' = [nodes EXCEPT ![h].live = FALSE]
\* A write to a disposed cell is inert.
Write(h, v) == nodes' = IF nodes[h].live THEN [nodes EXCEPT ![h].value = v] ELSE nodes
Insert(k, h) == entries' = [entries EXCEPT ![k] = h] /\ order' = Append(order, k)
Drop(k) == entries' = [entries EXCEPT ![k] = None] /\ order' = SelectSeq(order, LAMBDA x : x # k)

\* Setting a signal to a new version invalidates who is linked to it, and unlinks it.
SetSignals(s) == LET told == {x \in linked : s[x] # signals[x]} IN
  /\ signals' = s /\ linked' = linked \ told /\ UNCHANGED reading
  /\ readers' = [x \in DOMAIN readers |-> IF x \in told THEN None ELSE readers[x]]
  /\ crossed' = crossed \cup {x \in told : reading[x] # None}
BumpMembership == LET next == [x \in DOMAIN versions |-> versions[x] + 1] IN versions' = next /\ SetSignals(next)
BumpOrder == LET next == [versions EXCEPT !.keys = @ + 1] IN
  versions' = next /\ SetSignals([signals EXCEPT !.keys = next.keys])

Init ==
  /\ threaded \in BOOLEAN
  /\ order = <<>> /\ entries = [k \in Key |-> None] /\ nodes = <<>>
  /\ versions = [len |-> 0, keys |-> 0] /\ signals = versions
  /\ \E watched \in {{}, {"len"}, {"keys"}} : readers = [x \in watched |-> None]
  /\ reading = readers /\ linked = {} /\ crossed = {}
  /\ calls = [t \in Thread |-> None] /\ holder = None /\ pending = <<>>
  /\ ops = 0 /\ ended = [k \in Key |-> {}] /\ undone = [k \in Key |-> {}]

\* Ghosts: a write of k ends; what had ended before it began is undone.
Ends(k, v, before) ==
  /\ ended' = [ended EXCEPT ![k] = @ \cup {v}] /\ undone' = [undone EXCEPT ![k] = @ \cup before]

-----------------------------------------------------------------------------
\* The bounds on operations.
Room == ops < (IF threaded /\ DOMAIN readers # {} THEN MaxOpsRead ELSE MaxOps)

\* The flavors without threads: each operation in one step.
Alone == ~threaded /\ Room /\ ops' = ops + 1 /\ UNCHANGED <<threaded, calls, holder, pending>>

Set(k) ==
  /\ Alone /\ Ends(k, ops', ended[k])
  /\ IF Present(k) THEN Write(entries[k], ops') /\ UNCHANGED <<order, entries, versions, signals, view>>
     ELSE Build(ops') /\ Insert(k, Len(nodes')) /\ BumpMembership
\* Only the first access mints.
GetOrInsert(k) ==
  /\ Alone /\ ~Present(k) /\ Ends(k, ops', {})
  /\ Build(ops') /\ Insert(k, Len(nodes')) /\ BumpMembership
RemoveKey(k) ==
  /\ Alone /\ Present(k) /\ Dispose(entries[k]) /\ Drop(k) /\ BumpMembership
  /\ undone' = [undone EXCEPT ![k] = @ \cup ended[k]] /\ UNCHANGED ended
Move(k) ==
  /\ Alone /\ Present(k) /\ order' \in Moved(k)
  /\ IF order' # order THEN BumpOrder ELSE UNCHANGED <<versions, signals, view>>
  /\ UNCHANGED <<entries, nodes, ended, undone>>
Shown == [len |-> Len(order), keys |-> order]
Read ==
  /\ ~threaded /\ \E x \in DOMAIN readers : readers[x] = None
  /\ readers' = [x \in DOMAIN readers |-> Shown[x]]
  /\ linked' = DOMAIN readers
  /\ UNCHANGED <<threaded, order, entries, nodes, versions, signals, reading, crossed, calls, holder, pending, ghosts>>

-----------------------------------------------------------------------------
\* The thread-safe flavor: a call goes through the steps in at.
Call(t, at) == threaded /\ calls[t] # None /\ calls[t].at = at /\ UNCHANGED <<threaded, ops>>
Goes(t, at) == calls' = [calls EXCEPT ![t].at = at]
Locked(t) == holder \in {None, t}

Begin(t, op, k) ==
  /\ threaded /\ calls[t] = None /\ Room /\ ops' = ops + 1
  /\ calls' = [calls EXCEPT ![t] = [op |-> op, key |-> k, value |-> ops', node |-> None, next |-> None,
                                     before |-> ended[k], at |-> op]]
  /\ UNCHANGED <<threaded, graph, holder, pending, ended, undone>>

\* Under the present-set lock: the entry as it is now.
Look(t) == \E op \in {"set", "mint"} : LET call == calls[t] IN
  /\ Call(t, op)
  /\ calls' = [calls EXCEPT ![t].node = entries[call.key],
       ![t].at = CASE ~Present(call.key) -> "build" [] Present(call.key) /\ op = "set" -> "write" [] OTHER -> "end"]
  /\ UNCHANGED <<graph, holder, pending, ended, undone>>
BuildNode(t) ==
  /\ Call(t, "build") /\ Build(calls[t].value)
  /\ calls' = [calls EXCEPT ![t].at = "commit", ![t].node = Len(nodes')]
  /\ UNCHANGED <<order, entries, versions, signals, view, holder, pending, ended, undone>>
\* Mutant: the loser keeps the node it built.
KeepOwn(t) == calls[t].node

\* The first writer wins; the loser takes the node that is there.
Keep(t) == IF Present(calls[t].key) THEN entries[calls[t].key] ELSE calls[t].node

Commit(t) == LET call == calls[t] IN
  /\ Call(t, "commit")
  /\ calls' = [calls EXCEPT ![t].node = Keep(t), ![t].at = IF Present(call.key) THEN "end" ELSE "bump"]
  /\ IF Present(call.key) THEN UNCHANGED <<order, entries>> ELSE Insert(call.key, call.node)
  /\ UNCHANGED <<nodes, versions, signals, view, holder, pending, ended, undone>>
\* A dependency's cell is built and inserted under the lock, and written
\* again after the signals are set.
Publish(t) == LET call == calls[t] IN
  /\ Call(t, "publish")
  /\ IF Present(call.key)
     THEN /\ UNCHANGED <<order, entries, nodes>>
          /\ calls' = [calls EXCEPT ![t].node = entries[call.key], ![t].at = "write"]
     ELSE /\ Build(call.value) /\ Insert(call.key, Len(nodes'))
          /\ calls' = [calls EXCEPT ![t].node = Len(nodes'), ![t].at = "bump"]
  /\ UNCHANGED <<versions, signals, view, holder, pending, ended, undone>>
TakeOut(t) == LET call == calls[t] IN
  /\ Call(t, "remove")
  /\ IF Present(call.key)
     THEN Drop(call.key) /\ calls' = [calls EXCEPT ![t].node = entries[call.key], ![t].at = "dispose"]
     ELSE UNCHANGED <<order, entries>> /\ Goes(t, "end")
  /\ UNCHANGED <<nodes, versions, signals, view, holder, pending, ended, undone>>
DisposeNode(t) ==
  /\ Call(t, "dispose") /\ Dispose(calls[t].node) /\ Goes(t, "bump")
  /\ UNCHANGED <<order, entries, versions, signals, view, holder, pending, ended, undone>>
MoveKey(t) == LET k == calls[t].key IN
  /\ Call(t, "move")
  /\ IF Present(k) THEN order' \in Moved(k) ELSE UNCHANGED order
  /\ Goes(t, IF order' # order THEN "bump order" ELSE "end")
  /\ UNCHANGED <<entries, nodes, versions, signals, view, holder, pending, ended, undone>>

\* The next version is taken under the map's lock, the signal set after it is
\* released: two threads may set their versions in either order.
NextVersion(t) == LET m == calls[t].at = "bump"
                      x == IF m THEN "len" ELSE "keys" IN
  /\ \E at \in {"bump", "bump order"} : Call(t, at)
  /\ versions' = [versions EXCEPT ![x] = @ + 1]
  /\ calls' = [calls EXCEPT ![t].at = IF m THEN "signal" ELSE "signal order", ![t].next = versions'[x]]
  /\ UNCHANGED <<order, entries, nodes, signals, view, holder, pending, ended, undone>>
\* ThreadSafeContext.set: applied at once, or queued in the caller's batch.
Signal(t) == LET call == calls[t]
                 x == IF call.at = "signal" THEN "len" ELSE "keys" IN
  /\ \E at \in {"signal", "signal order"} : Call(t, at)
  /\ Locked(t)
  /\ Goes(t, CASE call.at = "signal" -> "bump order"
               [] call.at = "signal order" /\ call.op = "publish" -> "write"
               [] OTHER -> "end")
  /\ IF holder = t THEN pending' = Append(pending, [signal |-> x, value |-> call.next]) /\ UNCHANGED <<signals, view>>
     ELSE SetSignals([signals EXCEPT ![x] = call.next]) /\ UNCHANGED pending
  /\ UNCHANGED <<order, entries, nodes, versions, holder, ended, undone>>
WriteNode(t) == LET call == calls[t] IN
  /\ Call(t, "write") /\ Locked(t)
  /\ IF holder = t
     THEN /\ pending' = Append(pending, [node |-> call.node, value |-> call.value, key |-> call.key, before |-> call.before])
          /\ calls' = [calls EXCEPT ![t] = None] /\ UNCHANGED nodes
     ELSE Write(call.node, call.value) /\ Goes(t, "end") /\ UNCHANGED pending
  /\ UNCHANGED <<order, entries, versions, signals, view, holder, ended, undone>>
End(t) == LET call == calls[t] IN
  /\ Call(t, "end") /\ calls' = [calls EXCEPT ![t] = None]
  /\ CASE call.op \in {"set", "publish"} -> Ends(call.key, call.value, call.before)
       [] call.op = "mint" -> Ends(call.key, call.value, {})
       [] call.op = "remove" -> undone' = [undone EXCEPT ![call.key] = @ \cup call.before] /\ UNCHANGED ended
       [] OTHER -> UNCHANGED <<ended, undone>>
  /\ UNCHANGED <<graph, holder, pending>>

\* A reader recomputes: it reads its signal, then the keys under the map's lock,
\* then its slot caches them.
Recomputes ==
  /\ threaded
  /\ UNCHANGED <<threaded, order, entries, nodes, versions, signals, crossed, calls, holder, pending, ghosts>>
Subscribe(x) ==
  /\ Recomputes /\ readers[x] = None /\ reading[x] = None
  /\ linked' = linked \cup {x} /\ reading' = [reading EXCEPT ![x] = <<>>] /\ UNCHANGED readers
ReadKeys(x) ==
  /\ Recomputes /\ reading[x] = <<>> /\ reading' = [reading EXCEPT ![x] = <<Shown[x]>>]
  /\ UNCHANGED <<readers, linked>>
Cache(x) ==
  /\ Recomputes /\ reading[x] \notin {None, <<>>}
  /\ readers' = [readers EXCEPT ![x] = reading[x][1]] /\ reading' = [reading EXCEPT ![x] = None]
  /\ UNCHANGED linked

\* A batch holds the lock; its writes are applied, and its signals set, when
\* it ends.
OpenBatch(t) ==
  /\ threaded /\ holder = None /\ calls[t] = None /\ holder' = t
  /\ Room /\ ops' = ops + 1 /\ UNCHANGED <<threaded, graph, calls, pending, ended, undone>>
CloseBatch(t) ==
  LET writes == SelectSeq(pending, LAMBDA w : "node" \in DOMAIN w)
      sets == SelectSeq(pending, LAMBDA w : "signal" \in DOMAIN w)
      mine(k) == {i \in DOMAIN writes : writes[i].key = k}
  IN /\ threaded /\ holder = t /\ calls[t] = None /\ holder' = None /\ pending' = <<>>
     /\ nodes' = FoldLeft(LAMBDA ns, w : [ns EXCEPT ![w.node].value = w.value], nodes, writes)
     /\ SetSignals(FoldLeft(LAMBDA s, w : [s EXCEPT ![w.signal] = w.value], signals, sets))
     /\ ended' = [k \in Key |-> ended[k] \cup {writes[i].value : i \in mine(k)}]
     /\ undone' = [k \in Key |-> undone[k] \cup UNION {writes[i].before : i \in mine(k)}]
     /\ UNCHANGED <<threaded, order, entries, versions, calls, ops>>

Next ==
  \/ \E k \in Key : Set(k) \/ GetOrInsert(k) \/ RemoveKey(k) \/ Move(k)
  \/ Read
  \/ \E x \in DOMAIN readers : Subscribe(x) \/ ReadKeys(x) \/ Cache(x)
  \/ \E t \in Thread :
       \/ \E op \in {"set", "publish", "mint", "remove", "move"}, k \in Key : Begin(t, op, k)
       \/ Look(t) \/ BuildNode(t) \/ Commit(t) \/ Publish(t) \/ TakeOut(t) \/ DisposeNode(t) \/ MoveKey(t)
       \/ NextVersion(t) \/ Signal(t) \/ WriteNode(t) \/ End(t) \/ OpenBatch(t) \/ CloseBatch(t)
Spec == Init /\ [][Next]_vars

-----------------------------------------------------------------------------
Idle == holder = None /\ \A t \in Thread : calls[t] = None
\* Whatever calls overlap: the order lists each present key once; a call ends
\* up with the node its key has, or had before a removal, never an orphan; a
\* value that a later write or a removal replaced does not come back; once
\* every call has ended no reader is left with an old order or length, but one
\* whose signal was set between its subscription and its caching, which is no
\* longer linked (ThreadSafeReactiveMap.keys); and a move lands beside its
\* anchor and moves nothing else.
MapsStayWhole ==
  /\ ToSet(order) = {k \in Key : Present(k)} /\ Len(order) = Cardinality(ToSet(order))
  /\ \A t \in Thread :
       (calls[t] # None) => LET call == calls[t] IN
         (call.at \in {"bump", "write", "end"} /\ call.node # None) =>
           \/ ~nodes[call.node].live \/ entries[call.key] = call.node
           \/ \E u \in Thread : calls[u] # None /\ calls[u].op = "remove" /\ calls[u].node = call.node
  /\ \A k \in Key : Present(k) => nodes[entries[k]].live /\ nodes[entries[k]].value \notin undone[k]
  /\ \A x \in DOMAIN readers : readers[x] # None =>
       IF x \in crossed THEN x \notin linked ELSE x \in linked /\ (Idle => readers[x] = Shown[x])
  /\ \A k, a \in ToSet(order) : k # a =>
       LET others(o) == SelectSeq(o, LAMBDA x : x # k) IN
       /\ others(MoveBefore(order, k, a)) = others(order) /\ others(MoveAfter(order, k, a)) = others(order)
       /\ Position(MoveBefore(order, k, a), k) = Position(MoveBefore(order, k, a), a) - 1
       /\ Position(MoveAfter(order, k, a), k) = Position(MoveAfter(order, k, a), a) + 1
=============================================================================
