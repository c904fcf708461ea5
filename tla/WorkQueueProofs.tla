--------------------------- MODULE WorkQueueProofs ---------------------------
(***************************************************************************)
(* Theorems about the work queue, for every set of workers, every timeout, *)
(* delivery limit and bound.                                               *)
(***************************************************************************)
EXTENDS WorkQueueCell, SequenceTheorems, FiniteSetTheorems, TLAPS

Entries == [item : Nat, attempts : Nat]
Deliveries == [id : Nat, item : Nat, worker : Worker, attempt : Nat, deadline : Nat]
Letters == [item : Nat, attempts : Nat, reason : {"nack", "expired"}]

(***************************************************************************)
(* The inductive invariant.  Everything that names an item names it once:  *)
(* no two positions of pending, no two members of another place, and no    *)
(* two places, have the same item.                                         *)
(***************************************************************************)
Types ==
  /\ pending \in Seq(Entries)
  /\ inFlight \subseteq Deliveries /\ IsFiniteSet(inFlight)
  /\ deadLetters \subseteq Letters
  /\ acked \subseteq Entries /\ handed \subseteq Deliveries
  /\ nextItem \in 0..MaxItems /\ nextDelivery \in Nat

Ids ==
  /\ inFlight \subseteq handed
  /\ \A d \in handed : d.id < nextDelivery
  /\ \A d, e \in handed : d.id = e.id => d = e

Attempts ==
  /\ \A e \in Elements(pending) : e.attempts < MaxDeliveries
  /\ \A d \in inFlight : d.attempt \in 1..MaxDeliveries

Once(s) == \A i, j \in DOMAIN s : s[i].item = s[j].item => i = j
Single(S) == \A x, y \in S : x.item = y.item => x = y
Apart(S, T) == \A x \in S, y \in T : x.item # y.item

Distinct ==
  /\ Once(pending) /\ Single(inFlight) /\ Single(acked) /\ Single(deadLetters)
  /\ Apart(Elements(pending), inFlight \cup acked \cup deadLetters)
  /\ Apart(inFlight, acked \cup deadLetters) /\ Apart(acked, deadLetters)

Everything == Elements(pending) \cup inFlight \cup acked \cup deadLetters
Complete ==
  /\ \A x \in Everything : x.item < nextItem
  /\ \A i \in 0 .. nextItem - 1 : \E x \in Everything : x.item = i

IInv == Types /\ Ids /\ Attempts /\ Distinct /\ Complete

(***************************************************************************)
(* Sequences of entries.                                                   *)
(***************************************************************************)
LEMMA ElementsOfAppend ==
  ASSUME NEW s \in Seq(Entries), NEW e \in Entries
  PROVE  /\ Elements(Append(s, e)) = Elements(s) \cup {e}
         /\ Once(s) /\ Apart(Elements(s), {e}) => Once(Append(s, e))
<1> DEFINE t == Append(s, e)
<1>1. /\ t \in Seq(Entries) /\ Len(t) = Len(s) + 1 /\ Len(s) \in Nat
      /\ DOMAIN s = 1..Len(s) /\ DOMAIN t = 1 .. Len(s) + 1
      /\ \A i \in 1..Len(s) : t[i] = s[i]
      /\ t[Len(s) + 1] = e
  BY AppendProperties, LenProperties
<1> HIDE DEF t
<1>2. \A i \in DOMAIN t : (i \in DOMAIN s /\ t[i] = s[i]) \/ (i = Len(s) + 1 /\ t[i] = e)
  BY <1>1
<1>3. Len(s) + 1 \in DOMAIN t /\ \A i \in DOMAIN s : i \in DOMAIN t /\ t[i] = s[i]
  BY <1>1
<1>4. Elements(t) = Elements(s) \cup {e}
  BY <1>1, <1>2, <1>3 DEF Elements
<1>5. ASSUME Once(s), Apart(Elements(s), {e}) PROVE Once(t)
  <2>1. \A i \in DOMAIN s : s[i].item # e.item
    BY <1>5 DEF Apart, Elements
  <2>2. \A i, j \in DOMAIN s : s[i].item = s[j].item => i = j
    BY <1>5 DEF Once
  <2>3. SUFFICES ASSUME NEW i \in DOMAIN t, NEW j \in DOMAIN t, t[i].item = t[j].item PROVE i = j
    BY DEF Once
  <2> QED  BY <1>2, <2>1, <2>2, <2>3
<1> QED  BY <1>4, <1>5 DEF t

LEMMA ElementsOfTail ==
  ASSUME NEW s \in Seq(Entries), s # <<>>, Once(s)
  PROVE  /\ Tail(s) \in Seq(Entries) /\ Once(Tail(s))
         /\ Head(s) \in Elements(s) /\ Head(s) \in Entries
         /\ Elements(Tail(s)) = Elements(s) \ {Head(s)}
<1> DEFINE t == Tail(s)
<1>1. /\ t \in Seq(Entries) /\ Len(s) \in Nat \ {0} /\ Len(t) = Len(s) - 1
      /\ DOMAIN s = 1..Len(s) /\ DOMAIN t = 1..Len(t)
      /\ \A i \in 1..Len(t) : t[i] = s[i + 1]
  BY HeadTailProperties, EmptySeq, LenProperties
<1>2. Head(s) = s[1] /\ Head(s) \in Entries
  BY HeadTailProperties
<1> HIDE DEF t
<1>3. 1 \in DOMAIN s /\ \A i \in DOMAIN t : i + 1 \in DOMAIN s \ {1} /\ t[i] = s[i + 1]
  BY <1>1
<1>4. \A j \in DOMAIN s : j = 1 \/ (j - 1 \in DOMAIN t /\ t[j - 1] = s[j])
  BY <1>1
<1>5. \A j \in DOMAIN s \ {1} : s[j] # s[1]
  BY <1>3 DEF Once
<1>6. Elements(t) \subseteq Elements(s) \ {s[1]}
  BY <1>3, <1>5 DEF Elements
<1>7. Elements(s) \ {s[1]} \subseteq Elements(t)
  BY <1>4 DEF Elements
<1>8. Once(t)
  BY <1>1, <1>3 DEF Once
<1> QED  BY <1>1, <1>2, <1>3, <1>6, <1>7, <1>8 DEF t, Elements

LEMMA ElementsOfConcat ==
  ASSUME NEW s \in Seq(Entries), NEW t \in Seq(Entries)
  PROVE  /\ s \o t \in Seq(Entries)
         /\ Elements(s \o t) = Elements(s) \cup Elements(t)
         /\ Once(s) /\ Once(t) /\ Apart(Elements(s), Elements(t)) => Once(s \o t)
<1> DEFINE u == s \o t
<1>1. /\ u \in Seq(Entries) /\ Len(u) = Len(s) + Len(t)
      /\ Len(s) \in Nat /\ Len(t) \in Nat
      /\ DOMAIN s = 1..Len(s) /\ DOMAIN t = 1..Len(t) /\ DOMAIN u = 1 .. Len(s) + Len(t)
      /\ \A i \in 1 .. Len(s) + Len(t) : u[i] = IF i <= Len(s) THEN s[i] ELSE t[i - Len(s)]
  BY ConcatProperties, LenProperties
<1> HIDE DEF u
<1>2. \A i \in DOMAIN u : \/ i \in DOMAIN s /\ u[i] = s[i]
                          \/ i - Len(s) \in DOMAIN t /\ u[i] = t[i - Len(s)]
  BY <1>1
<1>3. \A i \in DOMAIN s : i \in DOMAIN u /\ u[i] = s[i]
  BY <1>1
<1>4. \A i \in DOMAIN t : i + Len(s) \in DOMAIN u /\ u[i + Len(s)] = t[i]
  BY <1>1
<1>5. Elements(u) = Elements(s) \cup Elements(t)
  BY <1>2, <1>3, <1>4 DEF Elements
<1>6. ASSUME Once(s), Once(t), Apart(Elements(s), Elements(t)) PROVE Once(u)
  <2>1. \A i \in DOMAIN s, j \in DOMAIN t : s[i].item # t[j].item
    BY <1>6 DEF Apart, Elements
  <2>2. \A i, j \in DOMAIN s : s[i].item = s[j].item => i = j
    BY <1>6 DEF Once
  <2>3. \A i, j \in DOMAIN t : t[i].item = t[j].item => i = j
    BY <1>6 DEF Once
  <2>4. SUFFICES ASSUME NEW i \in DOMAIN u, NEW j \in DOMAIN u, u[i].item = u[j].item PROVE i = j
    BY DEF Once
  <2>5. i \in Int /\ j \in Int /\ Len(s) \in Int
    BY <1>1
  <2>6. CASE i \in DOMAIN s /\ u[i] = s[i]
    BY <1>2, <2>1, <2>2, <2>4, <2>6
  <2>7. CASE i - Len(s) \in DOMAIN t /\ u[i] = t[i - Len(s)]
    <3>1. CASE j \in DOMAIN s /\ u[j] = s[j]
      BY <2>1, <2>4, <2>7, <3>1
    <3>2. CASE j - Len(s) \in DOMAIN t /\ u[j] = t[j - Len(s)]
      <4>1. i - Len(s) = j - Len(s)
        BY <2>3, <2>4, <2>7, <3>2
      <4> QED  BY <2>5, <4>1
    <3> QED  BY <1>2, <3>1, <3>2
  <2> QED  BY <1>2, <2>6, <2>7
<1> QED  BY <1>1, <1>5, <1>6 DEF u

(***************************************************************************)
(* What _fail does.                                                        *)
(***************************************************************************)
Retried(S) == {d \in S : ~Exhausted(d)}
Buried(S) == {d \in S : Exhausted(d)}

\* A delivery in flight is well formed and within the limit.
LEMMA FlyingFacts ==
  ASSUME IInv, NEW d \in inFlight
  PROVE  /\ d \in handed /\ d \in Deliveries
         /\ EntryOf(d) \in Entries /\ EntryOf(d).item = d.item /\ EntryOf(d).attempts = d.attempt
         /\ d.item \in Nat /\ d.attempt \in 1..MaxDeliveries
  BY DEF IInv, Types, Ids, Attempts, EntryOf, Entry, Entries, Deliveries

LEMMA ItemsAreNumbers ==
  ASSUME IInv
  PROVE  Elements(pending) \subseteq Entries /\ \A x \in Everything : x.item \in Nat
<1>1. Elements(pending) \subseteq Entries
  BY LenProperties DEF IInv, Types, Elements
<1>2. inFlight \subseteq Deliveries /\ acked \subseteq Entries /\ deadLetters \subseteq Letters
  BY DEF IInv, Types
<1>3. /\ \A x \in Entries : x.item \in Nat
      /\ \A x \in Deliveries : x.item \in Nat
      /\ \A x \in Letters : x.item \in Nat
  BY DEF Entries, Deliveries, Letters
<1> QED  BY <1>1, <1>2, <1>3 DEF Everything

\* What goes back to pending, in whatever order the ids give.
LEMMA OrderedEntries ==
  ASSUME IInv, NEW S \in SUBSET inFlight, NEW s \in Ordered(S)
  PROVE  LET t == [i \in DOMAIN s |-> EntryOf(s[i])] IN
           /\ t \in Seq(Entries) /\ Once(t)
           /\ Elements(t) = {EntryOf(d) : d \in S}
<1> DEFINE n == Cardinality(S)
           t == [i \in DOMAIN s |-> EntryOf(s[i])]
<1>1. n \in Nat
  BY FS_Subset, FS_CardinalityType DEF IInv, Types
<1>2. /\ s \in [1..n -> S] /\ DOMAIN s = 1..n
      /\ \A d \in S : \E i \in DOMAIN s : s[i] = d
      /\ \A i, j \in DOMAIN s : i < j => s[i].id < s[j].id
  BY DEF Ordered
<1> HIDE DEF n
<1>3. \A d \in S : d \in Deliveries /\ EntryOf(d) \in Entries /\ EntryOf(d).item = d.item /\ d.id \in Nat
  BY FlyingFacts DEF Deliveries
<1>4. t \in [1..n -> Entries] /\ DOMAIN t = 1..n
  BY <1>2, <1>3
<1>5. t \in Seq(Entries)
  BY <1>1, <1>4, SeqDef
<1>6. Elements(t) = {EntryOf(d) : d \in S}
  BY <1>2 DEF Elements
<1>7. Once(t)
  <2>1. SUFFICES ASSUME NEW i \in 1..n, NEW j \in 1..n, t[i].item = t[j].item PROVE i = j
    BY <1>4 DEF Once
  <2>2. s[i] \in S /\ s[j] \in S /\ t[i] = EntryOf(s[i]) /\ t[j] = EntryOf(s[j])
    BY <1>2
  <2>3. s[i] = s[j]
    BY <1>3, <2>1, <2>2 DEF IInv, Distinct, Single
  <2>4. ~(i < j) /\ ~(j < i)
    BY <1>2, <1>3, <2>2, <2>3
  <2> QED  BY <1>1, <2>4
<1> QED  BY <1>5, <1>6, <1>7 DEF t

LEMMA FailEffect ==
  ASSUME IInv, NEW S \in SUBSET inFlight, NEW reason, Fail(S, reason)
  PROVE  /\ pending' \in Seq(Entries) /\ Once(pending')
         /\ Elements(pending') = Elements(pending) \cup {EntryOf(d) : d \in Retried(S)}
         /\ inFlight' = inFlight \ S
         /\ deadLetters' = deadLetters \cup {Letter(d, reason) : d \in Buried(S)}
         /\ UNCHANGED <<nextItem, nextDelivery, handed, acked>>
<1>1. PICK s \in Ordered(Retried(S)) : pending' = pending \o [i \in DOMAIN s |-> EntryOf(s[i])]
  BY DEF Fail, Retried
<1> DEFINE t == [i \in DOMAIN s |-> EntryOf(s[i])]
<1>2. Retried(S) \in SUBSET inFlight
  BY DEF Retried
<1>3. t \in Seq(Entries) /\ Once(t) /\ Elements(t) = {EntryOf(d) : d \in Retried(S)}
  BY <1>2, OrderedEntries
<1>4. pending' = pending \o t
  BY <1>1
<1> HIDE DEF t
<1>5. Apart(Elements(pending), Elements(t))
  <2>1. \A x \in Elements(pending), d \in inFlight : x.item # d.item
    BY DEF IInv, Distinct, Apart
  <2> QED  BY <1>2, <1>3, <2>1, FlyingFacts DEF Apart
<1>6. pending \in Seq(Entries) /\ Once(pending)
  BY DEF IInv, Types, Distinct
<1>7. /\ pending' \in Seq(Entries) /\ Once(pending')
      /\ Elements(pending') = Elements(pending) \cup Elements(t)
  BY <1>3, <1>4, <1>5, <1>6, ElementsOfConcat
<1> QED  BY <1>3, <1>7 DEF Fail, Buried

(***************************************************************************)
(* Each action preserves the invariant.                                    *)
(***************************************************************************)
LEMMA InitInv == Init => IInv
<1> SUFFICES ASSUME Init PROVE IInv
  OBVIOUS
<1>1. pending = <<>> /\ DOMAIN pending = {} /\ Elements(pending) = {}
  BY DEF Init, Elements
<1>2. Types
  BY FS_EmptySet, LimitsAssumption DEF Init, Types
<1>3. Ids /\ Attempts
  BY <1>1 DEF Init, Ids, Attempts
<1>4. Distinct
  BY <1>1 DEF Init, Distinct, Once, Single, Apart
<1>5. Complete
  BY <1>1 DEF Init, Complete, Everything
<1> QED  BY <1>2, <1>3, <1>4, <1>5 DEF IInv

LEMMA PushInv == ASSUME IInv, Push PROVE IInv'
<1> DEFINE e == Entry(nextItem, 0)
<1>1. /\ nextItem < MaxItems /\ nextItem' = nextItem + 1 /\ pending' = Append(pending, e)
      /\ UNCHANGED <<inFlight, deadLetters, nextDelivery, handed, acked>>
      /\ nextItem \in 0..MaxItems /\ pending \in Seq(Entries) /\ MaxItems \in Nat
  BY LimitsAssumption DEF Push, IInv, Types
<1>2. e \in Entries /\ e.item = nextItem /\ e.attempts = 0
  BY <1>1 DEF Entry, Entries
<1> HIDE DEF e
<1>3. \A x \in Everything : x.item < nextItem /\ x.item # nextItem
  <2>1. \A x \in Everything : x.item < nextItem
    BY DEF IInv, Complete
  <2>2. nextItem \in Int /\ ~(nextItem < nextItem)
    BY <1>1
  <2> QED  BY <2>1, <2>2
<1>4. Apart(Elements(pending), {e})
  BY <1>2, <1>3 DEF Apart, Everything
<1>5. /\ pending' \in Seq(Entries) /\ Elements(pending') = Elements(pending) \cup {e}
      /\ Once(pending')
  BY <1>1, <1>2, <1>4, ElementsOfAppend, AppendProperties DEF IInv, Distinct
<1>6. Everything' = Everything \cup {e}
  BY <1>1, <1>5 DEF Everything, Elements
<1>7. Types'
  BY <1>1, <1>5 DEF IInv, Types
<1>8. Ids'
  BY <1>1 DEF IInv, Ids
<1>9. Attempts'
  <2>1. 0 < MaxDeliveries
    BY LimitsAssumption
  <2> QED  BY <1>1, <1>2, <1>5, <2>1 DEF IInv, Attempts, Elements
<1>10. Distinct'
  <2>1. \A x \in inFlight \cup acked \cup deadLetters : x.item # e.item
    BY <1>2, <1>3 DEF Everything
  <2> QED  BY <1>1, <1>5, <2>1 DEF IInv, Distinct, Apart, Single, Once, Elements
<1>11. Complete'
  <2>1. \A x \in Everything' : x.item < nextItem'
    <3>1. \A k \in Nat : k < nextItem => k < nextItem + 1
      BY <1>1
    <3>2. \A x \in Everything : x.item \in Nat
      BY ItemsAreNumbers
    <3> QED  BY <1>1, <1>2, <1>3, <1>6, <3>1, <3>2
  <2>2. \A i \in 0 .. nextItem' - 1 : \E x \in Everything' : x.item = i
    <3>1. \A i \in 0 .. nextItem' - 1 : i \in 0 .. nextItem - 1 \/ i = nextItem
      BY <1>1
    <3> QED  BY <1>2, <1>6, <3>1 DEF IInv, Complete
  <2> QED  BY <2>1, <2>2 DEF Complete
<1> QED  BY <1>7, <1>8, <1>9, <1>10, <1>11 DEF IInv

\* A delivery moves an entry from pending to in flight.
LEMMA ClaimEffect ==
  ASSUME IInv, NEW w \in Worker, NEW now \in Time, Claim(w, now)
  PROVE  \E e \in Elements(pending), d \in Deliveries :
           /\ e \in Entries /\ d.item = e.item /\ d.attempt = e.attempts + 1
           /\ d.id = nextDelivery
           /\ pending' \in Seq(Entries) /\ Once(pending')
           /\ Elements(pending') = Elements(pending) \ {e}
           /\ inFlight' = inFlight \cup {d} /\ handed' = handed \cup {d}
           /\ nextDelivery' = nextDelivery + 1
           /\ UNCHANGED <<deadLetters, nextItem, acked>>
<1> DEFINE e == Head(pending)
           d == Delivery(nextDelivery, e, w, now)
<1>1. /\ pending # <<>> /\ pending' = Tail(pending)
      /\ inFlight' = inFlight \cup {d} /\ handed' = handed \cup {d}
      /\ nextDelivery' = nextDelivery + 1
      /\ UNCHANGED <<deadLetters, nextItem, acked>>
  BY DEF Claim
<1>2. pending \in Seq(Entries) /\ Once(pending) /\ nextDelivery \in Nat
  BY DEF IInv, Types, Distinct
<1>3. /\ pending' \in Seq(Entries) /\ Once(pending')
      /\ e \in Elements(pending) /\ e \in Entries
      /\ Elements(pending') = Elements(pending) \ {e}
  BY <1>1, <1>2, ElementsOfTail
<1>4. now \in Nat /\ VisibilityTimeout \in Nat
  BY LimitsAssumption DEF Time
<1>5. /\ d \in Deliveries /\ d.item = e.item /\ d.attempt = e.attempts + 1
      /\ d.id = nextDelivery
  BY <1>2, <1>3, <1>4 DEF Delivery, Deliveries, Entries
<1> QED  BY <1>1, <1>3, <1>5

LEMMA ClaimInv ==
  ASSUME IInv, NEW w \in Worker, NEW now \in Time, Claim(w, now)
  PROVE  IInv'
<1>1. PICK e \in Elements(pending), d \in Deliveries :
           /\ e \in Entries /\ d.item = e.item /\ d.attempt = e.attempts + 1
           /\ d.id = nextDelivery
           /\ pending' \in Seq(Entries) /\ Once(pending')
           /\ Elements(pending') = Elements(pending) \ {e}
           /\ inFlight' = inFlight \cup {d} /\ handed' = handed \cup {d}
           /\ nextDelivery' = nextDelivery + 1
           /\ UNCHANGED <<deadLetters, nextItem, acked>>
  BY ClaimEffect
<1>2. Types'
  BY <1>1, FS_AddElement DEF IInv, Types
<1>3. Ids'
  <2>1. nextDelivery \in Nat /\ handed \subseteq Deliveries
    BY DEF IInv, Types
  <2>2. \A x \in handed : x.id \in Nat /\ x.id < nextDelivery
    BY <2>1 DEF IInv, Ids, Deliveries
  <2>3. \A x \in handed' : x.id < nextDelivery'
    BY <1>1, <2>1, <2>2
  <2>4. \A x \in handed : x.id # d.id
    BY <1>1, <2>1, <2>2
  <2>5. \A x, y \in handed' : x.id = y.id => x = y
    BY <1>1, <2>4 DEF IInv, Ids
  <2> QED  BY <1>1, <2>3, <2>5 DEF IInv, Ids
<1>4. Attempts'
  <2>1. e.attempts < MaxDeliveries /\ e.attempts \in Nat
    BY <1>1 DEF IInv, Attempts, Entries
  <2>2. d.attempt \in 1..MaxDeliveries
    BY <1>1, <2>1, LimitsAssumption
  <2>3. \A x \in Elements(pending)' : x.attempts < MaxDeliveries
    BY <1>1 DEF IInv, Attempts, Elements
  <2>4. \A x \in inFlight' : x.attempt \in 1..MaxDeliveries
    BY <1>1, <2>2 DEF IInv, Attempts
  <2> QED  BY <2>3, <2>4 DEF Attempts
<1>5. \A x \in inFlight \cup acked \cup deadLetters : x.item # d.item
  BY <1>1 DEF IInv, Distinct, Apart
<1>6. \A x \in Elements(pending) \ {e} : x.item # d.item
  BY <1>1 DEF IInv, Distinct, Once, Elements
<1>7. Distinct'
  <2>1. Single(inFlight)'
    BY <1>1, <1>5 DEF IInv, Distinct, Single
  <2>2. Apart(Elements(pending), inFlight \cup acked \cup deadLetters)'
    BY <1>1, <1>6 DEF IInv, Distinct, Apart, Elements
  <2>3. Apart(inFlight, acked \cup deadLetters)'
    BY <1>1, <1>5 DEF IInv, Distinct, Apart
  <2>4. Apart(acked, deadLetters)' /\ Single(acked)' /\ Single(deadLetters)'
    BY <1>1 DEF IInv, Distinct, Apart, Single
  <2> QED  BY <1>1, <2>1, <2>2, <2>3, <2>4 DEF Distinct, Once
<1>8. Complete'
  <2>1. Everything' = (Elements(pending) \ {e}) \cup (inFlight \cup {d}) \cup acked \cup deadLetters
    BY <1>1 DEF Everything, Elements
  <2>2. e \in Everything /\ e.item = d.item /\ nextItem' = nextItem
    BY <1>1 DEF Everything
  <2>3. \A x \in Everything' : x.item < nextItem'
    BY <2>1, <2>2 DEF IInv, Complete, Everything
  <2>4. \A i \in 0 .. nextItem' - 1 : \E x \in Everything' : x.item = i
    BY <2>1, <2>2 DEF IInv, Complete, Everything
  <2> QED  BY <2>3, <2>4 DEF Complete
<1> QED  BY <1>2, <1>3, <1>4, <1>7, <1>8 DEF IInv

LEMMA AckInv ==
  ASSUME IInv, NEW a \in handed, NEW w \in Worker, Ack(a, w)
  PROVE  IInv'
<1>1. PICK f \in inFlight :
        /\ inFlight' = inFlight \ {f} /\ acked' = acked \cup {EntryOf(f)}
        /\ UNCHANGED <<pending, deadLetters, nextItem, nextDelivery, handed>>
  BY DEF Ack
<1> DEFINE e == EntryOf(f)
<1>2. e \in Entries /\ e.item = f.item
  BY FlyingFacts
<1> HIDE DEF e
<1>3. Types'
  BY <1>1, <1>2, FS_RemoveElement DEF IInv, Types, e
<1>4. Ids' /\ Attempts'
  BY <1>1 DEF IInv, Ids, Attempts, Elements
<1>5. Distinct'
  <2>1. \A x \in Elements(pending) \cup acked \cup deadLetters : x.item # e.item
    BY <1>2 DEF IInv, Distinct, Apart
  <2>2. \A x \in inFlight \ {f} : x.item # e.item
    BY <1>2 DEF IInv, Distinct, Single
  <2>3. acked' = acked \cup {e}
    BY <1>1 DEF e
  <2>4. Single(acked)' /\ Single(inFlight)' /\ Single(deadLetters)' /\ Once(pending)'
    BY <1>1, <2>1, <2>3 DEF IInv, Distinct, Single, Once
  <2>5. Apart(Elements(pending), inFlight \cup acked \cup deadLetters)'
    BY <1>1, <2>1, <2>3 DEF IInv, Distinct, Apart, Elements
  <2>6. Apart(inFlight, acked \cup deadLetters)' /\ Apart(acked, deadLetters)'
    BY <1>1, <2>1, <2>2, <2>3 DEF IInv, Distinct, Apart
  <2> QED  BY <2>4, <2>5, <2>6 DEF Distinct
<1>6. Complete'
  <2>1. Everything' = Elements(pending) \cup (inFlight \ {f}) \cup (acked \cup {e}) \cup deadLetters
    BY <1>1 DEF Everything, Elements, e
  <2>2. \A x \in Everything' : x.item < nextItem'
    BY <1>1, <1>2, <2>1 DEF IInv, Complete, Everything
  <2>3. \A i \in 0 .. nextItem' - 1 : \E x \in Everything' : x.item = i
    BY <1>1, <1>2, <2>1 DEF IInv, Complete, Everything
  <2> QED  BY <2>2, <2>3 DEF Complete
<1> QED  BY <1>3, <1>4, <1>5, <1>6 DEF IInv

\* A letter keeps the item and the attempts of its delivery.
LEMMA LetterFacts ==
  ASSUME IInv, NEW d \in inFlight, NEW reason \in {"nack", "expired"}
  PROVE  /\ Letter(d, reason) \in Letters
         /\ Letter(d, reason).item = d.item
         /\ Letter(d, reason).attempts = d.attempt
  BY DEF IInv, Types, Letter, Letters, Deliveries

LEMMA FailInv ==
  ASSUME IInv, NEW S \in SUBSET inFlight, NEW reason \in {"nack", "expired"}, Fail(S, reason)
  PROVE  IInv'
<1> DEFINE R == {EntryOf(d) : d \in Retried(S)}
           L == {Letter(d, reason) : d \in Buried(S)}
<1>1. /\ pending' \in Seq(Entries) /\ Once(pending')
      /\ Elements(pending') = Elements(pending) \cup R
      /\ inFlight' = inFlight \ S
      /\ deadLetters' = deadLetters \cup L
      /\ UNCHANGED <<nextItem, nextDelivery, handed, acked>>
  BY FailEffect
<1>2. /\ Retried(S) \cup Buried(S) = S /\ Retried(S) \cap Buried(S) = {}
      /\ S \subseteq inFlight
  BY DEF Retried, Buried
<1>3. /\ \A e \in R : \E d \in Retried(S) : e.item = d.item /\ e.attempts = d.attempt
      /\ \A d \in Retried(S) : \E e \in R : e.item = d.item
  BY <1>2, FlyingFacts
<1>4. /\ L \subseteq Letters
      /\ \A l \in L : \E d \in Buried(S) : l = Letter(d, reason) /\ l.item = d.item
      /\ \A d \in Buried(S) : \E l \in L : l.item = d.item
  BY <1>2, LetterFacts
<1> HIDE DEF R, L
<1>5. \A x \in R \cup L : \E d \in S : x.item = d.item
  BY <1>2, <1>3, <1>4
<1>6. Types'
  <2>1. IsFiniteSet(inFlight \ S)
    BY FS_Subset DEF IInv, Types
  <2> QED  BY <1>1, <1>4, <2>1 DEF IInv, Types
<1>7. Ids'
  BY <1>1 DEF IInv, Ids
<1>8. Attempts'
  <2>1. \A d \in Retried(S) : d.attempt < MaxDeliveries
    <3>1. \A d \in Retried(S) : d.attempt \in 1..MaxDeliveries /\ ~(d.attempt >= MaxDeliveries)
      BY FlyingFacts DEF Retried, Exhausted
    <3> QED  BY <3>1, LimitsAssumption
  <2>2. \A e \in R : e.attempts < MaxDeliveries
    BY <1>3, <2>1
  <2> QED  BY <1>1, <2>2 DEF IInv, Attempts, Elements
<1>9. Distinct'
  <2>1. \A d \in S, x \in Elements(pending) \cup acked \cup deadLetters : x.item # d.item
    BY <1>2 DEF IInv, Distinct, Apart
  <2>2. \A x, y \in inFlight : x.item = y.item => x = y
    BY DEF IInv, Distinct, Single
  <2>3. \A d \in S, x \in inFlight \ S : x.item # d.item
    BY <1>2, <2>2
  <2>4. \A x \in R \cup L, y \in Elements(pending) \cup acked \cup deadLetters \cup (inFlight \ S) :
           x.item # y.item
    BY <1>5, <2>1, <2>3
  <2>5. \A x \in R, y \in L : x.item # y.item
    BY <1>2, <1>3, <1>4, <2>2
  <2>6. \A x, y \in L : x.item = y.item => x = y
    BY <1>2, <1>4, <2>2
  <2>7. Single(deadLetters)'
    <3>1. \A x, y \in deadLetters : x.item = y.item => x = y
      BY DEF IInv, Distinct, Single
    <3> QED  BY <1>1, <2>4, <2>6, <3>1 DEF Single
  <2>8. Single(inFlight)' /\ Single(acked)'
    BY <1>1 DEF IInv, Distinct, Single
  <2>9. Apart(Elements(pending), inFlight \cup acked \cup deadLetters)'
    <3>1. \A x \in Elements(pending), y \in inFlight \cup acked \cup deadLetters : x.item # y.item
      BY DEF IInv, Distinct, Apart
    <3>2. \A x \in Elements(pending) \cup R, y \in (inFlight \ S) \cup acked \cup deadLetters \cup L :
             x.item # y.item
      BY <2>4, <2>5, <3>1
    <3> QED  BY <1>1, <3>2 DEF Apart, Elements
  <2>10. Apart(inFlight, acked \cup deadLetters)'
    <3>1. \A x \in inFlight, y \in acked \cup deadLetters : x.item # y.item
      BY DEF IInv, Distinct, Apart
    <3> QED  BY <1>1, <2>4, <3>1 DEF Apart
  <2>11. Apart(acked, deadLetters)'
    <3>1. \A x \in acked, y \in deadLetters : x.item # y.item
      BY DEF IInv, Distinct, Apart
    <3> QED  BY <1>1, <2>4, <3>1 DEF Apart
  <2> QED  BY <1>1, <2>7, <2>8, <2>9, <2>10, <2>11 DEF Distinct, Once
<1>10. Complete'
  <2>1. Everything' = Elements(pending) \cup R \cup (inFlight \ S) \cup acked \cup deadLetters \cup L
    BY <1>1 DEF Everything, Elements
  <2>2. \A x \in Everything : x.item < nextItem
    BY DEF IInv, Complete
  <2>3. \A x \in Everything' : x.item < nextItem'
    <3>1. \A x \in R \cup L : x.item < nextItem
      BY <1>2, <1>5, <2>2 DEF Everything
    <3> QED  BY <1>1, <2>1, <2>2, <3>1 DEF Everything
  <2>4. \A x \in Everything : \E y \in Everything' : y.item = x.item
    <3>1. \A d \in S : \E y \in R \cup L : y.item = d.item
      BY <1>2, <1>3, <1>4
    <3> QED  BY <2>1, <3>1 DEF Everything
  <2>5. \A i \in 0 .. nextItem' - 1 : \E x \in Everything' : x.item = i
    BY <1>1, <2>4 DEF IInv, Complete
  <2> QED  BY <2>3, <2>5 DEF Complete
<1> QED  BY <1>6, <1>7, <1>8, <1>9, <1>10 DEF IInv

\* An answer settles the delivery it was made for, by the worker it was made to.
LEMMA SettlesOwn ==
  ASSUME IInv, NEW d \in handed, NEW w, NEW f, Settles(d, w, f)
  PROVE  f = d /\ d \in inFlight /\ w = d.worker
  BY DEF Settles, IInv, Ids

LEMMA ExpiredFlies == \A now : Expired(now) \in SUBSET inFlight
  BY DEF Expired

LEMMA StepInv == IInv /\ [Next]_vars => IInv'
<1> SUFFICES ASSUME IInv, [Next]_vars PROVE IInv'
  OBVIOUS
<1>1. CASE Push
  BY <1>1, PushInv
<1>2. ASSUME NEW w \in Worker, NEW now \in Time, Claim(w, now) PROVE IInv'
  BY <1>2, ClaimInv
<1>3. ASSUME NEW d \in handed, NEW w \in Worker, Ack(d, w) PROVE IInv'
  BY <1>3, AckInv
<1>4. ASSUME NEW d \in handed, NEW w \in Worker, Nack(d, w) PROVE IInv'
  <2>1. PICK f \in inFlight : Fail({f}, "nack")
    BY <1>4 DEF Nack
  <2> QED  BY <2>1, FailInv
<1>5. ASSUME NEW now \in Time, ReapExpired(now) PROVE IInv'
  BY <1>5, FailInv, ExpiredFlies DEF ReapExpired
<1>6. ASSUME UNCHANGED <<pending, inFlight, deadLetters, nextItem, nextDelivery, handed, acked>>
      PROVE  IInv'
  <2>1. Types'
    BY <1>6 DEF IInv, Types
  <2>2. Ids' /\ Attempts'
    BY <1>6 DEF IInv, Ids, Attempts, Elements
  <2>3. Distinct'
    BY <1>6 DEF IInv, Distinct, Once, Single, Apart, Elements
  <2>4. Complete'
    BY <1>6 DEF IInv, Complete, Everything, Elements
  <2> QED  BY <2>1, <2>2, <2>3, <2>4 DEF IInv
<1>7. ASSUME NEW r \in Reader, Read(r) PROVE IInv'
  BY <1>6, <1>7 DEF Read
<1>8. CASE UNCHANGED vars
  BY <1>6, <1>8 DEF vars
<1> QED  BY <1>1, <1>2, <1>3, <1>4, <1>5, <1>7, <1>8 DEF Next

LEMMA Inductive == Spec => []IInv
  BY InitInv, StepInv, PTL DEF Spec

(***************************************************************************)
(* The theorems.                                                           *)
(***************************************************************************)
LEMMA InvConserves == IInv => Conserved
<1> SUFFICES ASSUME IInv, NEW i \in 0 .. nextItem - 1 PROVE Cardinality(Places(i)) = 1
  BY DEF Conserved
<1>1. SUFFICES \E x : Places(i) = {x}
  BY FS_Singleton
<1>2. PICK x \in Everything : x.item = i
  BY DEF IInv, Complete
<1>3. /\ \A y \in Elements(pending), z \in inFlight \cup acked \cup deadLetters : y.item # z.item
      /\ \A y \in inFlight, z \in acked \cup deadLetters : y.item # z.item
      /\ \A y \in acked, z \in deadLetters : y.item # z.item
  BY DEF IInv, Distinct, Apart
<1>4. /\ \A j, k \in DOMAIN pending : pending[j].item = pending[k].item => j = k
      /\ \A y, z \in inFlight : y.item = z.item => y = z
      /\ \A y, z \in acked : y.item = z.item => y = z
      /\ \A y, z \in deadLetters : y.item = z.item => y = z
  BY DEF IInv, Distinct, Once, Single
<1>5. \A k \in DOMAIN pending : pending[k] \in Elements(pending)
  BY DEF Elements
<1> DEFINE P == {k \in DOMAIN pending : pending[k].item = i}
           F == {d \in inFlight : d.item = i}
           A == {e \in acked : e.item = i}
           D == {l \in deadLetters : l.item = i}
<1>6. Places(i) = {<<"pending", k>> : k \in P} \cup {<<"in flight", d>> : d \in F}
                    \cup {<<"acked", e>> : e \in A} \cup {<<"dead", l>> : l \in D}
  BY DEF Places
<1>7. \/ \E k : P = {k} /\ F = {} /\ A = {} /\ D = {}
      \/ P = {} /\ F = {x} /\ A = {} /\ D = {}
      \/ P = {} /\ F = {} /\ A = {x} /\ D = {}
      \/ P = {} /\ F = {} /\ A = {} /\ D = {x}
  <2>1. CASE x \in Elements(pending)
    <3>1. PICK k \in DOMAIN pending : x = pending[k]
      BY <2>1 DEF Elements
    <3>2. P = {k} /\ F = {} /\ A = {} /\ D = {}
      BY <1>2, <1>3, <1>4, <2>1, <3>1
    <3> QED  BY <3>2
  <2>2. CASE x \in inFlight
    BY <1>2, <1>3, <1>4, <1>5, <2>2
  <2>3. CASE x \in acked
    BY <1>2, <1>3, <1>4, <1>5, <2>3
  <2>4. CASE x \in deadLetters
    BY <1>2, <1>3, <1>4, <1>5, <2>4
  <2> QED  BY <2>1, <2>2, <2>3, <2>4 DEF Everything
<1> HIDE DEF P, F, A, D
<1>8. ASSUME NEW k, P = {k}, F = {}, A = {}, D = {} PROVE Places(i) = {<<"pending", k>>}
  BY <1>6, <1>8, Zenon
<1>9. ASSUME P = {}, F = {x}, A = {}, D = {} PROVE Places(i) = {<<"in flight", x>>}
  BY <1>6, <1>9, Zenon
<1>10. ASSUME P = {}, F = {}, A = {x}, D = {} PROVE Places(i) = {<<"acked", x>>}
  BY <1>6, <1>10, Zenon
<1>11. ASSUME P = {}, F = {}, A = {}, D = {x} PROVE Places(i) = {<<"dead", x>>}
  BY <1>6, <1>11, Zenon
<1> QED  BY <1>7, <1>8, <1>9, <1>10, <1>11, Zenon

\* Whatever workers claim, answer late or abandon, and whenever expired deliveries
\* are reaped, an item that was pushed is at exactly one place: _pending,
\* _in_flight, acknowledged or _dead_letters.
THEOREM ItemsConserved == Spec => []Conserved
  BY Inductive, InvConserves, PTL

\* ack and nack never settle a delivery other than the one they were called for,
\* nor for another worker.
THEOREM OwnDeliveryOnly == Spec => AnswersOwnDelivery
<1> DEFINE A == \A d \in handed, w \in Worker :
                  Ack(d, w) \/ Nack(d, w) => d \in inFlight /\ w = d.worker
<1>1. IInv => A
  BY SettlesOwn DEF Ack, Nack
<1>2. IInv /\ [Next]_vars => [A]_vars
  BY <1>1
<1> QED  BY <1>2, Inductive, PTL DEF Spec, AnswersOwnDelivery

(***************************************************************************)
(* The refinement of LeasedQueue, action by action.                        *)
(***************************************************************************)
Leased == {EntryOf(d) : d \in inFlight}

LEMMA InitRefines == Init => Promise!Init
  BY DEF Init, Promise!Init, Elements, Lettered

LEMMA PushRefines == ASSUME IInv, Push PROVE Promise!Push
<1> DEFINE e == Entry(nextItem, 0)
<1>1. /\ nextItem < MaxItems /\ pending' = Append(pending, e)
      /\ UNCHANGED <<inFlight, deadLetters, acked>>
      /\ nextItem \in 0..MaxItems /\ pending \in Seq(Entries) /\ MaxItems \in Nat
  BY LimitsAssumption DEF Push, IInv, Types
<1>2. e \in Entries /\ {e} = Promise!Entries(nextItem, 0) /\ nextItem \in 0 .. MaxItems - 1
  BY <1>1 DEF Entry, Entries, Promise!Entries
<1> HIDE DEF e
<1>3. Elements(pending') = Elements(pending) \cup {e}
  BY <1>1, <1>2, ElementsOfAppend
<1>4. \A x \in Everything : x.item < nextItem /\ x.item \in Nat
  BY ItemsAreNumbers DEF IInv, Complete
<1>5. \A x \in Everything : x.item # nextItem
  BY <1>1, <1>4
<1>6. \A x \in Elements(pending) \cup Leased \cup acked \cup Lettered : x.item # nextItem
  BY <1>5 DEF Everything, Leased, Lettered, EntryOf, Entry
<1>7. nextItem \notin Promise!Items(Elements(pending) \cup Leased \cup acked \cup Lettered)
  BY <1>6 DEF Promise!Items
<1>8. UNCHANGED <<Leased, acked, Lettered>>
  BY <1>1 DEF Leased, Lettered
<1> QED  BY <1>2, <1>3, <1>7, <1>8 DEF Promise!Push, Leased

LEMMA ClaimRefines ==
  ASSUME IInv, NEW w \in Worker, NEW now \in Time, Claim(w, now)
  PROVE  Promise!Deliver
<1>1. PICK e \in Elements(pending), d \in Deliveries :
           /\ e \in Entries /\ d.item = e.item /\ d.attempt = e.attempts + 1
           /\ Elements(pending') = Elements(pending) \ {e}
           /\ inFlight' = inFlight \cup {d}
           /\ UNCHANGED <<deadLetters, acked>>
  BY ClaimEffect
<1>2. {EntryOf(d)} = Promise!Entries(e.item, e.attempts + 1)
  BY <1>1 DEF EntryOf, Entry, Promise!Entries
<1>3. Leased' = Leased \cup {EntryOf(d)} /\ UNCHANGED <<acked, Lettered>>
  BY <1>1 DEF Leased, Lettered
<1> QED  BY <1>1, <1>2, <1>3 DEF Promise!Deliver, Leased

\* Deliveries that leave are leases that leave.
LEMMA LeasedWithout ==
  ASSUME IInv, NEW S \in SUBSET inFlight
  PROVE  {EntryOf(d) : d \in inFlight \ S} = Leased \ {EntryOf(d) : d \in S}
<1>1. \A d \in inFlight : EntryOf(d).item = d.item
  BY FlyingFacts
<1>2. \A d, f \in inFlight : EntryOf(d) = EntryOf(f) => d = f
  BY <1>1 DEF IInv, Distinct, Single
<1> QED  BY <1>2 DEF Leased

LEMMA AckRefines ==
  ASSUME IInv, NEW a \in handed, NEW w \in Worker, Ack(a, w)
  PROVE  Promise!Finish
<1>1. PICK f \in inFlight :
        /\ inFlight' = inFlight \ {f} /\ acked' = acked \cup {EntryOf(f)}
        /\ UNCHANGED <<pending, deadLetters>>
  BY DEF Ack
<1>2. {EntryOf(d) : d \in inFlight \ {f}} = Leased \ {EntryOf(d) : d \in {f}}
  BY LeasedWithout
<1>3. Leased' = Leased \ {EntryOf(f)}
  BY <1>1, <1>2 DEF Leased
<1>4. EntryOf(f) \in Leased /\ UNCHANGED <<Elements(pending), Lettered>>
  BY <1>1 DEF Leased, Lettered, Elements
<1> QED  BY <1>1, <1>3, <1>4 DEF Promise!Finish, Leased

LEMMA FailRefines ==
  ASSUME IInv, NEW S \in SUBSET inFlight, NEW reason \in {"nack", "expired"}, Fail(S, reason)
  PROVE  Promise!Fail
<1> DEFINE T == {EntryOf(d) : d \in S}
<1>1. /\ pending' \in Seq(Entries) /\ Once(pending')
      /\ Elements(pending') = Elements(pending) \cup {EntryOf(d) : d \in Retried(S)}
      /\ inFlight' = inFlight \ S
      /\ deadLetters' = deadLetters \cup {Letter(d, reason) : d \in Buried(S)}
      /\ UNCHANGED <<nextItem, nextDelivery, handed, acked>>
  BY FailEffect
<1>2. \A d \in S : /\ d \in inFlight /\ EntryOf(d).attempts = d.attempt
                   /\ d.attempt \in 1..MaxDeliveries
  BY FlyingFacts
<1>3. \A d \in S : /\ ~Exhausted(d) <=> EntryOf(d).attempts < MaxDeliveries
                   /\ Exhausted(d) <=> EntryOf(d).attempts = MaxDeliveries
  BY <1>2, LimitsAssumption DEF Exhausted
<1>4. {EntryOf(d) : d \in Retried(S)} = {r \in T : r.attempts < MaxDeliveries}
  BY <1>3 DEF Retried
<1>5. Lettered' = Lettered \cup {r \in T : r.attempts = MaxDeliveries}
  <2>1. \A d \in S : LET l == Letter(d, reason) IN Entry(l.item, l.attempts) = EntryOf(d)
    BY DEF Letter, EntryOf
  <2>2. {Entry(l.item, l.attempts) : l \in {Letter(d, reason) : d \in Buried(S)}}
          = {EntryOf(d) : d \in Buried(S)}
    BY <2>1 DEF Buried
  <2>3. {EntryOf(d) : d \in Buried(S)} = {r \in T : r.attempts = MaxDeliveries}
    BY <1>3 DEF Buried
  <2> QED  BY <1>1, <2>2, <2>3 DEF Lettered
<1>6. Leased' = Leased \ T /\ T \in SUBSET Leased
  BY <1>1, LeasedWithout DEF Leased
<1> HIDE DEF T
<1> QED  BY <1>1, <1>4, <1>5, <1>6 DEF Promise!Fail, Leased

LEMMA StepRefines == IInv /\ [Next]_vars => [Promise!Next]_(Promise!vars)
<1> SUFFICES ASSUME IInv, [Next]_vars PROVE Promise!Next \/ UNCHANGED Promise!vars
  OBVIOUS
<1>1. CASE Push
  BY <1>1, PushRefines DEF Promise!Next
<1>2. ASSUME NEW w \in Worker, NEW now \in Time, Claim(w, now) PROVE Promise!Next
  BY <1>2, ClaimRefines DEF Promise!Next
<1>3. ASSUME NEW d \in handed, NEW w \in Worker, Ack(d, w) PROVE Promise!Next
  BY <1>3, AckRefines DEF Promise!Next
<1>4. ASSUME NEW d \in handed, NEW w \in Worker, Nack(d, w) PROVE Promise!Next
  <2>1. PICK f \in inFlight : Fail({f}, "nack")
    BY <1>4 DEF Nack
  <2>2. Promise!Fail
    BY <2>1, FailRefines
  <2> QED  BY <2>2 DEF Promise!Next
<1>5. ASSUME NEW now \in Time, ReapExpired(now) PROVE Promise!Next
  BY <1>5, FailRefines, ExpiredFlies DEF ReapExpired, Promise!Next
<1>6. ASSUME NEW r \in Reader, Read(r) PROVE UNCHANGED Promise!vars
  BY <1>6 DEF Read, Promise!vars, Elements, Lettered
<1>7. CASE UNCHANGED vars
  BY <1>7 DEF vars, Promise!vars, Elements, Lettered
<1> QED  BY <1>1, <1>2, <1>3, <1>4, <1>5, <1>6, <1>7 DEF Next

\* The work queue implements LeasedQueue: push, claim, ack, nack and reap_expired
\* move items only as that specification allows, one attempt for each delivery,
\* dead exactly when the max_deliveries-th fails.
THEOREM ImplementsLeasedQueue == Spec => KeepsPromise
  BY InitRefines, StepRefines, Inductive, PTL DEF Spec, KeepsPromise, Promise!Spec

(***************************************************************************)
(* The readers.                                                            *)
(***************************************************************************)
CacheExact ==
  /\ cached = [r \in Reader |-> cached[r]]
  /\ \A r \in Reader : cached[r] # None => cached[r] = Shown(r)

LEMMA InvalidateKeeps ==
  ASSUME CacheExact, Invalidate
  PROVE  CacheExact' /\ \A r \in Reader : cached[r] # None => (cached'[r] = None <=> WillShow(r) # Shown(r))
<1>1. cached' = [r \in Reader |-> IF WillShow(r) # Shown(r) THEN None ELSE cached[r]]
  BY DEF Invalidate
<1>2. \A r \in Reader : Shown(r)' = WillShow(r)
  BY DEF Shown, WillShow, Shows
<1> QED  BY <1>1, <1>2 DEF CacheExact

\* _invalidate resets exactly the reader slots whose value changed, whichever of
\* the counts an operation moves, so a cached reader is never stale.
THEOREM ReadersStayExact == Spec => ReadersExact
<1> DEFINE A == \A r \in Reader : cached[r] # None =>
                  cached[r] = Shown(r) /\ (cached'[r] = None <=> WillShow(r) # Shown(r))
<1>1. Init => CacheExact
  BY DEF Init, CacheExact
<1>2. CacheExact /\ [Next]_vars => CacheExact' /\ [A]_vars
  <2> SUFFICES ASSUME CacheExact, [Next]_vars PROVE CacheExact' /\ (A \/ UNCHANGED vars)
    OBVIOUS
  <2>1. CASE Invalidate
    BY <2>1, InvalidateKeeps DEF CacheExact
  <2>2. ASSUME NEW r \in Reader, Read(r) PROVE CacheExact' /\ A
    <3>1. UNCHANGED <<pending, inFlight, deadLetters>> /\ cached[r] = None
          /\ cached' = [cached EXCEPT ![r] = Shown(r)]
      BY <2>2 DEF Read
    <3>2. \A q \in Reader : Shown(q)' = Shown(q) /\ WillShow(q) = Shown(q)
      BY <3>1 DEF Shown, WillShow, Shows
    <3>3. \A q \in Reader : cached'[q] = IF q = r THEN Shown(r) ELSE cached[q]
      BY <3>1 DEF CacheExact
    <3>4. cached' = [q \in Reader |-> cached'[q]]
      BY <3>1 DEF CacheExact
    <3> QED  BY <3>1, <3>2, <3>3, <3>4 DEF CacheExact
  <2>3. CASE UNCHANGED vars
    BY <2>3 DEF vars, CacheExact, Shown, Shows
  <2> QED
    BY <2>1, <2>2, <2>3 DEF Next, Push, Claim, Ack, Nack, ReapExpired, Fail
<1> QED  BY <1>1, <1>2, PTL DEF Spec, ReadersExact
=============================================================================
