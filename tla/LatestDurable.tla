--------------------------- MODULE LatestDurable ---------------------------
(***************************************************************************)
(* latest_durable_projection.py: desired revisions of a key conflate to    *)
(* the newest while one attempt is in flight to a durable sink.  The sink  *)
(* and its drivers are outside: they apply an attempt before or after they *)
(* report it failed, report late, twice, or never, and outlive a reconnect.*)
(***************************************************************************)
EXTENDS Integers, FiniteSetsExt

CONSTANTS Key, Epoch, Value, Generations, Shells

VARIABLES
  threads,   \* whether a read may be cut between computing the snapshot and caching it
  generation,
  entries,   \* of each key: desired, inflight, durable
  shown,     \* the snapshot slot: what it has cached, if anything
  reading,   \* a snapshot another thread has computed and not yet cached
  attempts,  \* every envelope a driver was ever handed
  applied,   \* those the sink has applied
  accepted   \* the revisions upsert_desired accepted

vars == <<threads, generation, entries, shown, reading, attempts, applied, accepted>>

NoRevision == [epoch |-> -1]
Entry == [desired |-> NoRevision, inflight |-> NoRevision, durable |-> -1]
Snapshot == <<generation, entries>>

Init ==
  /\ threads \in Shells /\ generation = 0 /\ entries = [k \in Key |-> Entry] /\ shown = << >> /\ reading = << >>
  /\ attempts = {} /\ applied = {} /\ accepted = {}

\* A transition that changes the state drops the cached snapshot.
Becomes(k, entry) == entries' = [entries EXCEPT ![k] = entry] /\ shown' = << >>

Newest(entry) == Max({entry.desired.epoch, entry.inflight.epoch})

\* Otherwise: already durable, stale, unchanged or in conflict.
UpsertDesired(k, e, v) ==
  /\ e > entries[k].durable /\ e > Newest(entries[k])
  /\ Becomes(k, [entries[k] EXCEPT !.desired = [epoch |-> e, value |-> v]])
  /\ accepted' = accepted \cup {[key |-> k, epoch |-> e, value |-> v]}
  /\ UNCHANGED <<generation, reading, attempts, applied>>

Claim(k, g) ==
  LET d == entries[k].desired
      envelope == [generation |-> g, key |-> k, epoch |-> d.epoch, value |-> d.value]
  IN /\ g = generation /\ entries[k].inflight = NoRevision /\ d # NoRevision
     /\ Becomes(k, [entries[k] EXCEPT !.desired = NoRevision, !.inflight = envelope])
     /\ attempts' = attempts \cup {envelope}
     /\ UNCHANGED <<generation, reading, applied, accepted>>

\* The token names the attempt in flight.
InFlight(k, g, e) == g = generation /\ entries[k].inflight # NoRevision /\ entries[k].inflight.epoch = e

AckApplied(k, g, e) ==
  /\ InFlight(k, g, e)
  /\ Becomes(k, [entries[k] EXCEPT !.inflight = NoRevision, !.durable = Max({@, e})])
  /\ UNCHANGED <<generation, reading, attempts, applied, accepted>>

\* Mutant: a failed attempt takes the place of whatever is desired.
RequeuedOverNewer(entry) ==
  IF entry.inflight = NoRevision THEN entry
  ELSE [entry EXCEPT !.inflight = NoRevision, !.desired = [epoch |-> entry.inflight.epoch, value |-> entry.inflight.value]]

\* A failed attempt is pending again, unless a newer desire superseded it.
Requeued(entry) ==
  IF entry.inflight = NoRevision THEN entry
  ELSE IF entry.desired # NoRevision /\ entry.desired.epoch > entry.inflight.epoch
  THEN [entry EXCEPT !.inflight = NoRevision]
  ELSE [entry EXCEPT !.inflight = NoRevision, !.desired = [epoch |-> entry.inflight.epoch, value |-> entry.inflight.value]]

FailRetryable(k, g, e) ==
  /\ InFlight(k, g, e)
  /\ Becomes(k, Requeued(entries[k]))
  /\ UNCHANGED <<generation, reading, attempts, applied, accepted>>

Reconnect(g) ==
  /\ g > generation /\ generation' = g
  /\ entries' = [k \in Key |-> Requeued(entries[k])] /\ shown' = << >>
  /\ UNCHANGED <<reading, attempts, applied, accepted>>

\* The core is read under the lock; the slot caches after it is released.
ReadSnapshot ==
  /\ shown = << >> /\ reading = << >>
  /\ IF threads THEN reading' = Snapshot /\ UNCHANGED shown ELSE shown' = Snapshot /\ UNCHANGED reading
  /\ UNCHANGED <<generation, entries, attempts, applied, accepted>>

CacheSnapshot ==
  /\ reading # << >> /\ shown' = reading /\ reading' = << >>
  /\ UNCHANGED <<generation, entries, attempts, applied, accepted>>

SinkApplies(m) ==
  /\ applied' = applied \cup {m}
  /\ UNCHANGED <<generation, entries, shown, reading, attempts, accepted>>

Next ==
  /\ UNCHANGED threads
  /\ \/ \E k \in Key, e \in Epoch, v \in Value : UpsertDesired(k, e, v)
     \/ \E k \in Key, g \in Generations : Claim(k, g)
     \/ \E g \in Generations : Reconnect(g)
     \/ \E m \in attempts : SinkApplies(m) \/ FailRetryable(m.key, m.generation, m.epoch)
     \/ \E m \in applied : AckApplied(m.key, m.generation, m.epoch)
     \/ ReadSnapshot \/ CacheSnapshot

Spec == Init /\ [][Next]_vars

Last(k) == Max({-1} \cup {r.epoch : r \in {a \in accepted : a.key = k}})

(***************************************************************************)
(* A reader of the aggregate is never left with an old snapshot.  With a   *)
(* second thread it is: _apply resets the slot outside of the lock, before *)
(* a reader that already left it caches what it computed                   *)
(* (LatestDurableProjection.snapshot, ThreadSafeLatestDurableProjection).  *)
(***************************************************************************)
ShownIsCurrent == shown \in {<< >>, Snapshot}

(***************************************************************************)
(* Whatever the drivers report, late, twice or from a fenced generation:   *)
(* what counts as durable was applied at the sink with the value accepted  *)
(* for that epoch; the newest revision accepted is durable, in flight or   *)
(* pending, never lost; and without threads the cached snapshot is the     *)
(* current one (upsert_desired, claim, ack_applied, fail_retryable, reconnect).*)
(***************************************************************************)
DurableIsStored ==
  /\ \A k \in Key :
       LET en == entries[k]
       IN /\ en.durable # -1 =>
               \E m \in applied, r \in accepted : m.key = k /\ m.epoch = en.durable /\ r = [key |-> k, epoch |-> m.epoch, value |-> m.value]
          /\ Last(k) = Max({en.durable, Newest(en)})
          /\ en.inflight # NoRevision => en.durable < en.inflight.epoch
          /\ en.desired # NoRevision => en.durable < en.desired.epoch /\ en.inflight.epoch < en.desired.epoch
  /\ threads \/ ShownIsCurrent
=============================================================================
