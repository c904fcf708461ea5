---------------------------- MODULE WorkQueueCell ----------------------------
(***************************************************************************)
(* The competing-consumer queue of lazily-py (work_queue.py), alone or     *)
(* behind the mutex of queue_flavors.py: each call is one atomic step.     *)
(* Workers keep the deliveries they were handed and may answer late, after *)
(* the delivery was reaped and its item handed to another worker.  The     *)
(* clock is the caller's: each call is given any time.                     *)
(***************************************************************************)
EXTENDS Naturals, Sequences, FiniteSets

CONSTANTS
  Worker,
  VisibilityTimeout, MaxDeliveries,
  MaxItems,   \* bound: items pushed
  MaxNow,     \* bound: the times callers give
  None        \* a reader slot that is not cached

ASSUME LimitsAssumption ==
  /\ VisibilityTimeout \in Nat \ {0} /\ MaxDeliveries \in Nat \ {0}
  /\ MaxItems \in Nat /\ MaxNow \in Nat /\ None \notin Nat \cup BOOLEAN

VARIABLES
  pending,      \* _pending
  inFlight,     \* _in_flight, as the set of its deliveries
  deadLetters,  \* _dead_letters, as a set: nothing depends on their order
  nextItem, nextDelivery,
  cached,       \* the reader slots
  handed,       \* every delivery handed to a worker
  acked         \* the items acknowledged, with the attempts it took

vars == <<pending, inFlight, deadLetters, nextItem, nextDelivery, cached, handed, acked>>

Entry(i, k) == [item |-> i, attempts |-> k]
EntryOf(d) == Entry(d.item, d.attempt)

(***************************************************************************)
(* The four reader slots, computed from the queue when read and reset by   *)
(* _invalidate when the count they show has changed.                       *)
(***************************************************************************)
Reader == {"pending_len", "is_empty", "in_flight_len", "dead_letter_len"}

Shows(reader, waiting, flying, dead) ==
  CASE reader = "pending_len" -> Len(waiting)
    [] reader = "is_empty" -> waiting = <<>>
    [] reader = "in_flight_len" -> Cardinality(flying)
    [] reader = "dead_letter_len" -> Cardinality(dead)

Shown(reader) == Shows(reader, pending, inFlight, deadLetters)
WillShow(reader) == Shows(reader, pending', inFlight', deadLetters')

\* Mutant: the emptiness reader follows the length going down only.
InvalidateOneWay ==
  cached' = [r \in Reader |->
    IF WillShow(r) # Shown(r) /\ (r = "is_empty" => WillShow(r)) THEN None ELSE cached[r]]
Invalidate == cached' = [r \in Reader |-> IF WillShow(r) # Shown(r) THEN None ELSE cached[r]]

Init ==
  /\ pending = <<>> /\ inFlight = {} /\ deadLetters = {}
  /\ nextItem = 0 /\ nextDelivery = 0
  /\ cached = [r \in Reader |-> None]
  /\ handed = {} /\ acked = {}

Read(r) ==
  /\ cached[r] = None
  /\ cached' = [cached EXCEPT ![r] = Shown(r)]
  /\ UNCHANGED <<pending, inFlight, deadLetters, nextItem, nextDelivery, handed, acked>>

(***************************************************************************)
(* The operations.                                                         *)
(***************************************************************************)
Push ==
  /\ nextItem < MaxItems
  /\ nextItem' = nextItem + 1
  /\ pending' = Append(pending, Entry(nextItem, 0))
  /\ UNCHANGED <<inFlight, deadLetters, nextDelivery, handed, acked>>
  /\ Invalidate

Delivery(id, entry, worker, now) ==
  [id |-> id, item |-> entry.item, worker |-> worker, attempt |-> entry.attempts + 1,
   deadline |-> now + VisibilityTimeout]

\* Mutant: deliveries are identified by their item.
ClaimByItem(w, now) ==
  /\ pending # <<>>
  /\ LET d == Delivery(Head(pending).item, Head(pending), w, now) IN
       inFlight' = inFlight \cup {d} /\ handed' = handed \cup {d}
  /\ pending' = Tail(pending)
  /\ UNCHANGED <<nextDelivery, deadLetters, nextItem, acked>>
  /\ Invalidate
Claim(w, now) ==
  /\ pending # <<>>
  /\ LET d == Delivery(nextDelivery, Head(pending), w, now) IN
       inFlight' = inFlight \cup {d} /\ handed' = handed \cup {d}
  /\ pending' = Tail(pending)
  /\ nextDelivery' = nextDelivery + 1
  /\ UNCHANGED <<deadLetters, nextItem, acked>>
  /\ Invalidate

\* The delivery that an answer with d's id by worker w settles, if any.
Settles(d, w, f) == f \in inFlight /\ f.id = d.id /\ f.worker = w

Ack(d, w) ==
  /\ \E f \in inFlight :
       /\ Settles(d, w, f)
       /\ inFlight' = inFlight \ {f}
       /\ acked' = acked \cup {EntryOf(f)}
  /\ UNCHANGED <<pending, deadLetters, nextItem, nextDelivery, handed>>
  /\ Invalidate

\* Mutant: one delivery too many.
ExhaustedAfter(d) == d.attempt > MaxDeliveries
Exhausted(d) == d.attempt >= MaxDeliveries
Letter(d, reason) == [item |-> d.item, attempts |-> d.attempt, reason |-> reason]

\* The deliveries of S in the order of their ids.
Ordered(S) ==
  {s \in [1..Cardinality(S) -> S] :
     /\ \A d \in S : \E i \in DOMAIN s : s[i] = d
     /\ \A i, j \in DOMAIN s : i < j => s[i].id < s[j].id}

\* Mutant: a failed delivery stays in flight when its item goes back.
FailKeepsRetried(S, reason) ==
  /\ inFlight' = inFlight \ {d \in S : Exhausted(d)}
  /\ deadLetters' = deadLetters \cup {Letter(d, reason) : d \in {d \in S : Exhausted(d)}}
  /\ \E s \in Ordered({d \in S : ~Exhausted(d)}) :
       pending' = pending \o [i \in DOMAIN s |-> EntryOf(s[i])]
  /\ UNCHANGED <<nextItem, nextDelivery, handed, acked>>
  /\ Invalidate
\* _fail of each delivery of S, oldest first.
Fail(S, reason) ==
  /\ inFlight' = inFlight \ S
  /\ deadLetters' = deadLetters \cup {Letter(d, reason) : d \in {d \in S : Exhausted(d)}}
  /\ \E s \in Ordered({d \in S : ~Exhausted(d)}) :
       pending' = pending \o [i \in DOMAIN s |-> EntryOf(s[i])]
  /\ UNCHANGED <<nextItem, nextDelivery, handed, acked>>
  /\ Invalidate

Nack(d, w) == \E f \in inFlight : Settles(d, w, f) /\ Fail({f}, "nack")

Expired(now) == {d \in inFlight : d.deadline < now}
ReapExpired(now) == Expired(now) # {} /\ Fail(Expired(now), "expired")

Time == 0..MaxNow
Next ==
  \/ Push
  \/ \E w \in Worker, now \in Time : Claim(w, now)
  \/ \E d \in handed, w \in Worker : Ack(d, w) \/ Nack(d, w)
  \/ \E now \in Time : ReapExpired(now)
  \/ \E r \in Reader : Read(r)

Spec == Init /\ [][Next]_vars

(***************************************************************************)
(* Properties.                                                             *)
(***************************************************************************)
Elements(s) == {s[i] : i \in DOMAIN s}
Lettered == {Entry(l.item, l.attempts) : l \in deadLetters}
Promise == INSTANCE LeasedQueue WITH
  Item <- 0 .. MaxItems - 1,
  ready <- Elements(pending), leased <- {EntryOf(d) : d \in inFlight},
  done <- acked, dead <- Lettered

\* The queue implements LeasedQueue: an item moves only along pending, in flight,
\* acknowledged or dead, one attempt per delivery, dead exactly at the limit
\* (work_queue.py claim, ack, nack, _fail, reap_expired).
KeepsPromise == Promise!Spec

\* Each item ever pushed is at exactly one place, once: retries, late answers and
\* reaps neither duplicate nor lose it.
Places(i) ==
  {<<"pending", k>> : k \in {k \in DOMAIN pending : pending[k].item = i}}
    \cup {<<"in flight", d>> : d \in {d \in inFlight : d.item = i}}
    \cup {<<"acked", e>> : e \in {e \in acked : e.item = i}}
    \cup {<<"dead", l>> : l \in {l \in deadLetters : l.item = i}}
Conserved == \A i \in 0 .. nextItem - 1 : Cardinality(Places(i)) = 1

\* An answer changes the queue only if the delivery it was made for is still in
\* flight, and its worker gave it: a late answer never settles the delivery of
\* the item to someone else ("acknowledgements are scoped to the current
\* delivery and worker").
AnswersOwnDelivery ==
  [][\A d \in handed, w \in Worker :
       Ack(d, w) \/ Nack(d, w) => d \in inFlight /\ w = d.worker]_vars

\* What a reader slot has cached is what it would compute (work_queue.py
\* _invalidate), and it is recomputed only if that changed.
ReadersExact ==
  [][\A r \in Reader : cached[r] # None =>
       cached[r] = Shown(r) /\ (cached'[r] = None <=> WillShow(r) # Shown(r))]_vars
=============================================================================
