----------------------------- MODULE CellsProofs -----------------------------
(***************************************************************************)
(* Theorems about machines of MCCells, for every value of the parameters   *)
(* those machines take: the lease, the topic, the breaker, the teardown    *)
(* scopes, the members and who is present, the workflow and what it waits  *)
(* for, the replay harness.  A behaviour of MCCells is about one machine,  *)
(* its subject; the invariants below hold whichever it is, since the other *)
(* machines stay as they were built.                                       *)
(***************************************************************************)
EXTENDS MCCells, SequenceTheorems, FiniteSetTheorems, WellFoundedInduction, TLAPS

(***************************************************************************)
(* The lease.  Being the only one is not inductive: a caller that released *)
(* or expired keeps its fence, and only the order of fences keeps a later  *)
(* grant apart from it.                                                    *)
(***************************************************************************)
LeaseTypes ==
  /\ lNow \in Nat /\ lExpiry \in Int /\ lFence \in Nat
  /\ lHolder \in LeasePeers \cup {None}
  /\ lGrants \in [LeasePeers -> [fence : Nat, until : Int]]

\* No fence was handed out that the lease has not reached, and none twice.
FencesDistinct ==
  /\ \A p \in LeasePeers : lGrants[p].fence <= lFence
  /\ \A p, q \in LeasePeers : p # q /\ lGrants[p].fence = lGrants[q].fence => lGrants[p].fence = 0

\* The holder is the one the last grant was made to.
HolderCurrent == lHolder # None => lGrants[lHolder].fence = lFence

\* Who is inside its grant is the holder, and was told its expiry.
BelieverHolds ==
  \A p \in LeasePeers : Lease!Believes(p) => lHolder = p /\ lExpiry = lGrants[p].until

LeaseInv == LeaseTypes /\ FencesDistinct /\ HolderCurrent /\ BelieverHolds

LEMMA LeaseInit == Lease!Init => LeaseInv
<1> SUFFICES ASSUME Lease!Init  PROVE LeaseInv
  OBVIOUS
<1> USE DEF Lease!Init
<1>1. LeaseTypes
  BY DEF LeaseTypes
<1>2. FencesDistinct /\ HolderCurrent /\ BelieverHolds
  BY DEF FencesDistinct, HolderCurrent, BelieverHolds, Lease!Believes
<1> QED  BY <1>1, <1>2 DEF LeaseInv

\* A grant takes a fence of its own, and is made when nobody is inside another.
LEMMA GrantStep ==
  ASSUME LeaseInv, NEW p \in LeasePeers, NEW ttl \in LeaseTtl, Lease!Grant(p, ttl), lNow' = lNow
  PROVE  LeaseInv'
<1> USE LeaseAssumption DEF LeaseAssumption, Lease!Grant, Lease!Told, LeaseInv
<1>1. LeaseTypes'
  BY DEF LeaseTypes
<1>2. lGrants' = [lGrants EXCEPT ![p] = [fence |-> lFence + 1, until |-> lNow + ttl]]
  OBVIOUS
<1>3. FencesDistinct'
  BY <1>1, <1>2 DEF LeaseTypes, FencesDistinct
<1>4. HolderCurrent'
  BY <1>2 DEF LeaseTypes, HolderCurrent
<1>5. ASSUME NEW q \in LeasePeers, q # p, Lease!Believes(q)'  PROVE FALSE
  BY <1>2, <1>5 DEF LeaseTypes, BelieverHolds, Lease!Believes, Lease!IsExpired
<1>6. BelieverHolds'
  BY <1>2, <1>5 DEF LeaseTypes, BelieverHolds, Lease!Believes
<1> QED  BY <1>1, <1>3, <1>4, <1>6

LEMMA ExtendStep ==
  ASSUME LeaseInv, NEW p \in LeasePeers, NEW ttl \in LeaseTtl, Lease!Extend(p, ttl), lNow' = lNow
  PROVE  LeaseInv'
<1> USE LeaseAssumption DEF LeaseAssumption, Lease!Extend, Lease!Told, LeaseInv
<1>1. lHolder = p /\ lGrants' = [lGrants EXCEPT ![p] = [fence |-> lFence, until |-> lNow + ttl]]
  OBVIOUS
<1>2. LeaseTypes'
  BY DEF LeaseTypes
<1>3. lGrants[p].fence = lFence
  BY <1>1 DEF HolderCurrent
<1>4. FencesDistinct'
  BY <1>1, <1>2, <1>3 DEF LeaseTypes, FencesDistinct
<1>5. HolderCurrent'
  BY <1>1 DEF LeaseTypes, HolderCurrent
<1>6. BelieverHolds'
  BY <1>1 DEF LeaseTypes, BelieverHolds, Lease!Believes
<1> QED  BY <1>2, <1>4, <1>5, <1>6

LEMMA ReleaseStep ==
  ASSUME LeaseInv, NEW p \in LeasePeers, Lease!Release(p)
  PROVE  LeaseInv'
<1> USE LeaseAssumption DEF LeaseAssumption, Lease!Release, LeaseInv
<1>1. lGrants' = [lGrants EXCEPT ![p].until = 0]
  OBVIOUS
<1>2. LeaseTypes'
  BY DEF LeaseTypes
<1>3. FencesDistinct' /\ HolderCurrent'
  BY <1>1 DEF LeaseTypes, FencesDistinct, HolderCurrent
<1>4. BelieverHolds'
  BY <1>1 DEF LeaseTypes, BelieverHolds, Lease!Believes
<1> QED  BY <1>2, <1>3, <1>4

LEMMA LeaseStep == LeaseInv /\ (Lease!Next \/ UNCHANGED leaseVars) => LeaseInv'
<1> SUFFICES ASSUME LeaseInv, Lease!Next \/ UNCHANGED leaseVars  PROVE LeaseInv'
  OBVIOUS
<1>1. ASSUME UNCHANGED <<lNow, lExpiry, lFence, lHolder, lGrants>>  PROVE LeaseInv'
  BY <1>1 DEF LeaseInv, LeaseTypes, FencesDistinct, HolderCurrent, BelieverHolds, Lease!Believes
<1>2. ASSUME NEW p \in LeasePeers, NEW ttl \in LeaseTtl, Lease!Acquire(p, ttl) \/ Lease!Renew(p, ttl)
      PROVE  LeaseInv'
  BY <1>1, <1>2, GrantStep, ExtendStep DEF Lease!Acquire, Lease!Renew, Lease!Refuse
<1>3. CASE Lease!Tick
  <2>1. UNCHANGED <<lNow, lExpiry, lFence, lGrants>> /\ lHolder' \in {None, lHolder}
    BY <1>3 DEF Lease!Tick
  <2>2. ASSUME NEW p \in LeasePeers, Lease!Believes(p)  PROVE lHolder' = lHolder
    BY <1>3, <2>2 DEF Lease!Tick, Lease!IsExpired, Lease!Believes, LeaseInv, LeaseTypes, BelieverHolds
  <2> QED  BY <2>1, <2>2 DEF LeaseInv, LeaseTypes, FencesDistinct, HolderCurrent, BelieverHolds, Lease!Believes
<1>4. CASE Lease!Time
  BY <1>4 DEF Lease!Time, LeaseInv, LeaseTypes, FencesDistinct, HolderCurrent, BelieverHolds, Lease!Believes
<1> QED  BY <1>1, <1>2, <1>3, <1>4, ReleaseStep DEF Lease!Next, leaseVars

LEMMA LeaseHeld == LeaseInv => Lease!LeaseExclusive
<1> SUFFICES ASSUME LeaseInv  PROVE Lease!LeaseExclusive
  OBVIOUS
<1>1. ASSUME NEW p \in LeasePeers, Lease!Believes(p)
      PROVE  /\ Lease!Validate(lGrants[p].fence)
             /\ \A q \in LeasePeers : Lease!Role(q) = IF q = p THEN "Leader" ELSE "Follower"
  <2>1. lHolder = p /\ p # None /\ lNow < lExpiry
    BY <1>1, LeaseAssumption DEF LeaseAssumption, LeaseInv, LeaseTypes, BelieverHolds, Lease!Believes
  <2>2. Lease!Validate(lGrants[p].fence)
    BY <2>1 DEF LeaseInv, HolderCurrent, Lease!Validate
  <2>3. Lease!Holder = p
    BY <2>1 DEF LeaseInv, LeaseTypes, Lease!Holder, Lease!IsHeld, Lease!IsExpired
  <2> QED  BY <2>1, <2>2, <2>3 DEF Lease!Role
<1> QED  BY <1>1 DEF Lease!LeaseExclusive, LeaseInv, FencesDistinct

LEMMA LeaseStays == [Next]_vars => Lease!Next \/ UNCHANGED leaseVars
  BY DEF Next, vars, Stays

\* For any callers and times to live, however late a caller acts on what it was
\* told: inside its grant it is the only leader, its fence validates, and no two
\* callers were ever given the same fence (LeaseCore.acquire, renew, release, tick).
THEOREM LeaseStaysExclusive == Spec => []LeaseExclusive
<1>1. Init => LeaseInv
  BY LeaseInit DEF Init
<1>2. LeaseInv /\ [Next]_vars => LeaseInv'
  BY LeaseStays, LeaseStep
<1>3. LeaseInv => LeaseExclusive
  BY LeaseHeld DEF LeaseExclusive
<1> QED  BY <1>1, <1>2, <1>3, PTL DEF Spec

(***************************************************************************)
(* The topic.  The retained log is compared with all that was published by *)
(* position, and every cursor with both ends of it.  Durable cursors bound *)
(* the base from above, which is what a collection must not disturb.       *)
(***************************************************************************)
Subscriptions == [cursor : Nat, durability : Topic!Durability, connected : BOOLEAN]
Subscribing == [Subscribers -> Subscriptions \cup {None}]

TopicTypes ==
  /\ oBase \in Nat /\ oElements \in Seq(Nat) /\ oLog \in Seq(Nat)
  /\ oSubs \in Subscribing
  /\ oStreams \in [Subscribers -> Seq(Nat) \cup {None}]
  /\ oSaved \in [base : Nat, elements : Seq(Nat), subs : Subscribing]

\* part is what log has from the position after lo on, as far as part goes.
Retained(log, lo, part) ==
  lo + Len(part) <= Len(log) /\ \A i \in 1..Len(part) : part[i] = log[lo + i]

LogKept ==
  /\ Retained(oLog, oBase, oElements) /\ oBase + Len(oElements) = Len(oLog)
  /\ Retained(oLog, oSaved.base, oSaved.elements)

CursorsKept ==
  /\ \A s \in Topic!Subscribed : oSubs[s].cursor <= Len(oLog)
  /\ \A s \in Topic!Durable : oBase <= oSubs[s].cursor

TopicInv == TopicTypes /\ LogKept /\ CursorsKept /\ Topic!StreamsCoherent

LEMMA SmallestNat ==
  ASSUME NEW S, S \subseteq Nat, S # {}
  PROVE  \E x \in S : \A y \in S : x <= y
<1> DEFINE R == {pair \in Nat \X Nat : pair[1] < pair[2]}
<1>1. R = OpToRel(<, Nat)
  BY DEF OpToRel
<1>2. IsWellFoundedOn(R, Nat)
  BY <1>1, NatLessThanWellFounded
<1> HIDE DEF R
<1>3. PICK x \in S : \A y \in S : ~(<<y, x>> \in R)
  BY <1>2, WFMin
<1>4. \A y \in S : ~(y < x)
  BY <1>3 DEF R
<1> QED  BY <1>4

LEMMA SubSeqPart ==
  ASSUME NEW list, NEW skip \in Nat, NEW rest \in Nat
  PROVE  SubSeq(list, skip + 1, skip + rest) = [i \in 1 .. rest |-> list[skip + i]]
<1> DEFINE m == skip + 1
           n == skip + rest
           S == {list[k] : k \in m .. n}
           part == SubSeq(list, m, n)
<1>1. m \in Int /\ n \in Int /\ n - m + 1 = rest
  OBVIOUS
<1>2. \A k \in m .. n : list[k] \in S
  OBVIOUS
<1>3. \A i \in 1 .. rest : m + i - 1 = skip + i
  OBVIOUS
<1>4. (IF m <= n THEN n - m + 1 ELSE 0) = rest
  OBVIOUS
<1> HIDE DEF m, n, S
<1>5. /\ part \in Seq(S) /\ Len(part) = IF m <= n THEN n - m + 1 ELSE 0
      /\ \A i \in 1 .. n - m + 1 : part[i] = list[m + i - 1]
  BY <1>1, <1>2, SubSeqProperties
<1> HIDE DEF part
<1>6. part \in [1 .. rest -> S] /\ \A i \in 1 .. rest : part[i] = list[skip + i]
  BY <1>1, <1>3, <1>4, <1>5, LenProperties
<1>7. part = [i \in 1 .. rest |-> list[skip + i]]
  BY <1>6
<1> QED  BY <1>7 DEF part, m, n

\* What is read from the retained part is what is read from the whole log.
LEMMA ReadsWhole ==
  ASSUME NEW log \in Seq(Nat), NEW lo \in Nat, NEW part \in Seq(Nat),
         Retained(log, lo, part), lo + Len(part) = Len(log), NEW at \in lo .. Len(log)
  PROVE  Topic!From(part, at - lo) = SubSeq(log, at + 1, Len(log))
<1>1. PICK skip \in Nat, rest \in Nat :
        at - lo = skip /\ Len(part) = skip + rest /\ Len(log) = at + rest
  <2> DEFINE n == Len(log)
             k == Len(part)
  <2>1. n \in Nat /\ k \in Nat /\ lo + k = n /\ at \in lo .. n
    BY LenProperties
  <2> HIDE DEF n, k
  <2> at \in Nat /\ at - lo \in Nat /\ n - at \in Nat /\ k = (at - lo) + (n - at) /\ n = at + (n - at)
    BY <2>1
  <2> SUFFICES \E skip, rest \in Nat : at - lo = skip /\ k = skip + rest /\ n = at + rest
    BY DEF n, k
  <2> WITNESS at - lo \in Nat, n - at \in Nat
  <2> QED  OBVIOUS
<1> DEFINE read == SubSeq(part, skip + 1, skip + rest)
           unread == SubSeq(log, at + 1, at + rest)
<1>2. Topic!From(part, at - lo) = read
  BY <1>1 DEF Topic!From
<1>3. \A i \in 1 .. rest : skip + i \in 1 .. Len(part) /\ at + i \in 1 .. Len(log) /\ lo + (skip + i) = at + i
  BY <1>1
<1>4. \A i \in 1 .. rest : part[skip + i] \in Nat /\ log[at + i] \in Nat /\ part[skip + i] = log[at + i]
  BY <1>3, ElementOfSeq DEF Retained
<1>5. read \in Seq(Nat) /\ Len(read) = rest /\ \A i \in 1 .. rest : read[i] = part[skip + i]
  BY <1>1, <1>4, SubSeqPart
<1>6. unread \in Seq(Nat) /\ Len(unread) = rest /\ \A i \in 1 .. rest : unread[i] = log[at + i]
  <2>1. at \in Nat
    OBVIOUS
  <2> QED  BY <1>1, <1>4, <2>1, SubSeqPart
<1> HIDE DEF read, unread
<1>7. read = unread
  BY <1>4, <1>5, <1>6, SeqEqual
<1> QED  BY <1>1, <1>2, <1>7 DEF unread

LEMMA RetainedTypes ==
  ASSUME NEW list \in Seq(Nat), NEW start \in Int
  PROVE  Topic!From(list, start) \in Seq(Nat)
<1>1. ASSUME NEW i \in Nat  PROVE SubSeq(list, i + 1, Len(list)) \in Seq(Nat)
  <2>1. \A x \in (i + 1) .. Len(list) : list[x] \in Nat
    BY ElementOfSeq, LenProperties
  <2>2. i + 1 \in Int /\ Len(list) \in Int
    BY LenProperties
  <2> QED  BY <2>1, <2>2, SubSeqProperties
<1> QED  BY <1>1, LenProperties DEF Topic!From

\* Appending to the log, and dropping what is after a part of it, keep the part.
LEMMA RetainedAppend ==
  ASSUME NEW log \in Seq(Nat), NEW lo \in Nat, NEW part \in Seq(Nat), NEW x \in Nat,
         Retained(log, lo, part)
  PROVE  /\ Retained(Append(log, x), lo, part)
         /\ lo + Len(part) = Len(log) => Retained(Append(log, x), lo, Append(part, x))
<1>1. /\ Len(Append(log, x)) = Len(log) + 1 /\ Append(log, x)[Len(log) + 1] = x
      /\ \A i \in 1..Len(log) : Append(log, x)[i] = log[i]
  BY AppendProperties
<1>2. /\ Len(Append(part, x)) = Len(part) + 1 /\ Append(part, x)[Len(part) + 1] = x
      /\ \A i \in 1..Len(part) : Append(part, x)[i] = part[i]
  BY AppendProperties
<1>3. \A i \in 1..Len(part) : part[i] = log[lo + i] /\ lo + i \in 1..Len(log)
  BY LenProperties DEF Retained
<1>4. Retained(Append(log, x), lo, part)
  BY <1>1, <1>3, LenProperties DEF Retained
<1>5. ASSUME lo + Len(part) = Len(log), NEW i \in 1 .. Len(part) + 1
      PROVE  Append(part, x)[i] = Append(log, x)[lo + i]
  BY <1>1, <1>2, <1>3, <1>5, LenProperties
<1> QED  BY <1>1, <1>2, <1>4, <1>5, LenProperties DEF Retained

LEMMA RetainedPrefix ==
  ASSUME NEW log \in Seq(Nat), NEW lo \in Nat, NEW part \in Seq(Nat), Retained(log, lo, part)
  PROVE  LET cut == SubSeq(log, 1, lo + Len(part))
         IN  cut \in Seq(Nat) /\ Len(cut) = lo + Len(part) /\ Retained(cut, lo, part)
<1> DEFINE n == lo + Len(part)
           cut == SubSeq(log, 1, n)
<1>1. n \in Nat /\ n <= Len(log)
  BY DEF Retained
<1>2. \A i \in 1..n : log[i] \in Nat
  BY <1>1, ElementOfSeq
<1>3. cut \in Seq(Nat) /\ Len(cut) = n /\ \A i \in 1..n : cut[i] = log[i]
  <2>1. cut \in Seq(Nat) /\ Len(cut) = (IF 1 <= n THEN n - 1 + 1 ELSE 0) /\ \A i \in 1 .. n - 1 + 1 : cut[i] = log[1 + i - 1]
    BY <1>1, <1>2, SubSeqProperties
  <2> QED  BY <1>1, <2>1
<1>4. \A i \in 1 .. Len(part) : lo + i \in 1..n
  OBVIOUS
<1> QED  BY <1>3, <1>4 DEF Retained

LEMMA TopicInit == Topic!Init => TopicInv
<1> SUFFICES ASSUME Topic!Init  PROVE TopicInv
  OBVIOUS
<1> USE DEF Topic!Init
<1>1. TopicTypes
  BY EmptySeq DEF TopicTypes, Subscribing, Topic!Snapshot
<1>2. LogKept
  BY EmptySeq DEF LogKept, Retained, Topic!Snapshot
<1>3. CursorsKept /\ Topic!StreamsCoherent
  BY DEF CursorsKept, Topic!StreamsCoherent, Topic!Subscribed, Topic!Durable
<1> QED  BY <1>1, <1>2, <1>3 DEF TopicInv

\* What StreamsCoherent says of one subscriber.
Coherent(s) ==
  oStreams[s] # None /\ ~Topic!Behind(s) =>
    oStreams[s] = IF s \in Topic!Connected THEN Topic!Unread(s) ELSE << >>

\* A call that leaves the log alone disturbs only the subscriber it is about.
LEMMA OneSubscriber ==
  ASSUME TopicInv, NEW s \in Subscribers, UNCHANGED <<oBase, oElements, oSaved, oLog>>,
         NEW sub \in Subscriptions \cup {None}, NEW stream \in Seq(Nat) \cup {None},
         oSubs' = [oSubs EXCEPT ![s] = sub], oStreams' = [oStreams EXCEPT ![s] = stream],
         sub # None => sub.cursor <= Len(oLog) /\ (sub.durability = "durable" => oBase <= sub.cursor),
         Coherent(s)'
  PROVE  TopicInv'
<1> USE DEF TopicInv
<1>1. TopicTypes'
  BY DEF TopicTypes, Subscribing
<1>2. LogKept'
  BY DEF LogKept
<1>3. ASSUME NEW t \in Subscribers  PROVE oSubs'[t] = IF t = s THEN sub ELSE oSubs[t]
  BY DEF TopicTypes, Subscribing
<1>4. CursorsKept'
  BY <1>3 DEF CursorsKept, Topic!Subscribed, Topic!Durable
<1>5. ASSUME NEW t \in Subscribers, t # s  PROVE Coherent(t)'
  <2>1. oStreams'[t] = oStreams[t] /\ oSubs'[t] = oSubs[t]
    BY <1>3, <1>5 DEF TopicTypes
  <2>2. Coherent(t)
    BY DEF Topic!StreamsCoherent, Coherent
  <2> QED  BY <2>1, <2>2 DEF Coherent, Topic!Behind, Topic!Unread, Topic!Connected, Topic!Durable, Topic!Subscribed
<1>6. Topic!StreamsCoherent'
  BY <1>5 DEF Topic!StreamsCoherent, Coherent
<1> QED  BY <1>1, <1>2, <1>4, <1>6

LEMMA ResetOne ==
  ASSUME TopicTypes, NEW s \in Subscribers, Topic!Reset({s})
  PROVE  oStreams' = [oStreams EXCEPT ![s] = None] /\ Coherent(s)'
  BY DEF TopicTypes, Topic!Reset, Coherent

\* A subscriber that is not behind reads what it has yet to read.
LEMMA ReadsUnread ==
  ASSUME TopicInv, NEW s \in Topic!Connected, ~Topic!Behind(s)
  PROVE  Topic!ReadUntracked(s) = Topic!Unread(s)
<1> USE DEF TopicInv, TopicTypes, Subscribing, Subscriptions
<1>1. oSubs[s].cursor \in oBase .. Len(oLog)
  BY LenProperties, TopicAssumption DEF CursorsKept, Topic!Behind, Topic!Connected, Topic!Subscribed, Topic!Durable, TopicAssumption
<1>2. Topic!From(oElements, oSubs[s].cursor - oBase) = SubSeq(oLog, oSubs[s].cursor + 1, Len(oLog))
  BY <1>1, ReadsWhole DEF LogKept
<1> QED  BY <1>2 DEF Topic!ReadUntracked, Topic!Unread

LEMMA ReadStreamStep ==
  ASSUME TopicInv, NEW s \in Subscribers, Topic!ReadStream(s)
  PROVE  TopicInv'
<1> DEFINE stream == Topic!ReadUntracked(s)
<1> USE DEF TopicInv
<1>1. oSubs' = [oSubs EXCEPT ![s] = oSubs[s]] /\ oStreams' = [oStreams EXCEPT ![s] = stream]
  BY DEF Topic!ReadStream, TopicTypes, Subscribing
<1>2. oSubs[s] \in Subscriptions \cup {None}
  BY DEF TopicTypes, Subscribing
<1>3. stream \in Seq(Nat)
  <2>1. CASE s \in Topic!Connected
    <3>1. oSubs[s].cursor - oBase \in Int
      BY <1>2, <2>1 DEF TopicTypes, Subscriptions, Topic!Connected, Topic!Subscribed
    <3> QED  BY <2>1, <3>1, RetainedTypes DEF Topic!ReadUntracked, TopicTypes
  <2> QED  BY <2>1, EmptySeq DEF Topic!ReadUntracked
<1>4. oSubs[s] # None => oSubs[s].cursor <= Len(oLog) /\ (oSubs[s].durability = "durable" => oBase <= oSubs[s].cursor)
  BY DEF CursorsKept, Topic!Subscribed, Topic!Durable
<1>5. Coherent(s)'
  <2>1. oStreams'[s] = stream /\ UNCHANGED <<oBase, oSubs, oLog>>
    BY <1>1 DEF TopicTypes, Topic!ReadStream
  <2>2. s \in Topic!Connected /\ ~Topic!Behind(s) => stream = Topic!Unread(s)
    BY ReadsUnread
  <2>3. s \notin Topic!Connected => stream = << >>
    BY DEF Topic!ReadUntracked
  <2> QED  BY <2>1, <2>2, <2>3 DEF Coherent, Topic!Behind, Topic!Unread, Topic!Connected, Topic!Durable, Topic!Subscribed
<1> QED  BY <1>1, <1>2, <1>3, <1>4, <1>5, OneSubscriber DEF Topic!ReadStream

\* The calls of one subscriber reset its stream.
LEMMA SubscriberStep ==
  ASSUME TopicInv, NEW s \in Subscribers,
         \/ \E dur \in Topic!Durability : Topic!Subscribe(s, dur)
         \/ Topic!Reconnect(s) \/ Topic!Disconnect(s)
         \/ \E count \in 1..Len(oElements) : Topic!Advance(s, count)
  PROVE  TopicInv'
<1> USE DEF TopicInv
<1>1. /\ oBase \in Nat /\ Len(oElements) \in Nat /\ Len(oLog) \in Nat
      /\ oBase + Len(oElements) = Len(oLog)
  BY LenProperties DEF TopicTypes, LogKept
<1>2. oSubs[s] \in Subscriptions \cup {None}
  BY DEF TopicTypes, Subscribing
<1>3. oSubs[s] # None =>
        /\ oSubs[s] \in Subscriptions
        /\ oSubs[s].cursor <= Len(oLog) /\ (oSubs[s].durability = "durable" => oBase <= oSubs[s].cursor)
  BY <1>2 DEF CursorsKept, Topic!Subscribed, Topic!Durable
<1>4. ASSUME NEW sub \in Subscriptions \cup {None}, UNCHANGED <<oBase, oElements, oSaved, oLog>>,
             oSubs' = [oSubs EXCEPT ![s] = sub], Topic!Reset({s}),
             sub # None => sub.cursor <= Len(oLog) /\ (sub.durability = "durable" => oBase <= sub.cursor)
      PROVE  TopicInv'
  BY <1>4, ResetOne, OneSubscriber
<1>5. ASSUME NEW dur \in Topic!Durability, Topic!Subscribe(s, dur)  PROVE TopicInv'
  <2> DEFINE sub == Topic!Subscription(Topic!Tail_offset, dur, TRUE)
  <2>1. Topic!Tail_offset = Len(oLog)
    BY <1>1 DEF Topic!Tail_offset
  <2>2. sub \in Subscriptions /\ sub.cursor = Len(oLog)
    BY <1>1, <2>1 DEF Topic!Subscription, Subscriptions
  <2>3. oBase <= Len(oLog)
    BY <1>1
  <2> HIDE DEF sub
  <2>4. oSubs' = [oSubs EXCEPT ![s] = sub] /\ Topic!Reset({s}) /\ UNCHANGED <<oBase, oElements, oSaved, oLog>>
    BY <1>5 DEF Topic!Subscribe, sub
  <2>5. sub.cursor <= Len(oLog) /\ oBase <= sub.cursor
    BY <1>1, <2>2, <2>3
  <2> QED  BY <1>4, <2>2, <2>4, <2>5
<1>6. CASE Topic!Reconnect(s)
  <2> DEFINE sub == [oSubs[s] EXCEPT !.connected = TRUE]
  <2>1. oSubs[s] # None
    BY <1>6 DEF Topic!Reconnect, Topic!Durable, Topic!Subscribed
  <2>2. sub \in Subscriptions /\ sub.cursor = oSubs[s].cursor /\ sub.durability = oSubs[s].durability
    BY <1>3, <2>1 DEF Subscriptions
  <2> HIDE DEF sub
  <2>3. oSubs' = [oSubs EXCEPT ![s] = sub] /\ Topic!Reset({s}) /\ UNCHANGED <<oBase, oElements, oSaved, oLog>>
    BY <1>6 DEF Topic!Reconnect, sub
  <2> QED  BY <1>3, <1>4, <2>1, <2>2, <2>3
<1>7. CASE Topic!Disconnect(s)
  <2> DEFINE sub == IF s \in Topic!Durable THEN [oSubs[s] EXCEPT !.connected = FALSE] ELSE None
  <2>1. oSubs[s] # None
    BY <1>7 DEF Topic!Disconnect, Topic!Connected, Topic!Subscribed
  <2>2. sub = None \/ (sub \in Subscriptions /\ sub.cursor = oSubs[s].cursor /\ sub.durability = oSubs[s].durability)
    BY <1>3, <2>1 DEF Subscriptions
  <2> HIDE DEF sub
  <2>3. oSubs' = [oSubs EXCEPT ![s] = sub] /\ Topic!Reset({s}) /\ UNCHANGED <<oBase, oElements, oSaved, oLog>>
    BY <1>7 DEF Topic!Disconnect, sub
  <2> QED  BY <1>3, <1>4, <2>1, <2>2, <2>3
<1>8. ASSUME NEW count \in 1..Len(oElements), Topic!Advance(s, count)  PROVE TopicInv'
  <2> DEFINE sub == [oSubs[s] EXCEPT !.cursor = @ + count]
  <2>1. oSubs[s] # None
    BY <1>8 DEF Topic!Advance, Topic!Connected, Topic!Subscribed
  <2>2. sub \in Subscriptions /\ sub.cursor = oSubs[s].cursor + count /\ sub.durability = oSubs[s].durability
    BY <1>3, <2>1 DEF Subscriptions
  <2>3. sub.cursor <= Len(oLog) /\ oSubs[s].cursor <= sub.cursor
    BY <1>1, <1>3, <1>8, <2>1, <2>2 DEF Topic!Advance, Topic!Tail_offset, Subscriptions
  <2>4. sub.durability = "durable" => oBase <= sub.cursor
    BY <1>1, <1>3, <2>1, <2>2, <2>3 DEF Subscriptions
  <2> HIDE DEF sub
  <2>5. oSubs' = [oSubs EXCEPT ![s] = sub] /\ Topic!Reset({s}) /\ UNCHANGED <<oBase, oElements, oSaved, oLog>>
    BY <1>8 DEF Topic!Advance, sub
  <2> QED  BY <1>4, <2>2, <2>3, <2>4, <2>5
<1> QED  BY <1>5, <1>6, <1>7, <1>8

\* Who is connected has its stream reset, and nobody else had any to read.
LEMMA PublishStep ==
  ASSUME TopicInv, Topic!Publish
  PROVE  TopicInv'
<1> USE DEF TopicInv
<1>1. /\ oBase \in Nat /\ oElements \in Seq(Nat) /\ oLog \in Seq(Nat) /\ Len(oLog) \in Nat
      /\ oSaved.base \in Nat /\ oSaved.elements \in Seq(Nat)
      /\ UNCHANGED <<oBase, oSubs, oSaved>>
      /\ oElements' = Append(oElements, Len(oLog)) /\ oLog' = Append(oLog, Len(oLog))
  BY LenProperties DEF TopicTypes, Topic!Publish
<1>2. TopicTypes'
  BY <1>1, AppendProperties DEF TopicTypes, Topic!Publish, Topic!Reset
<1>3. LogKept'
  <2>1. Retained(oLog', oBase, oElements') /\ Retained(oLog', oSaved.base, oSaved.elements)
    BY <1>1, RetainedAppend DEF LogKept
  <2>2. oBase + Len(oElements') = Len(oLog')
    BY <1>1, AppendProperties DEF LogKept
  <2> QED  BY <1>1, <2>1, <2>2 DEF LogKept
<1>4. CursorsKept'
  BY <1>1, AppendProperties DEF CursorsKept, TopicTypes, Subscribing, Subscriptions, Topic!Subscribed, Topic!Durable
<1>5. ASSUME NEW s \in Subscribers  PROVE Coherent(s)'
  <2>1. oStreams'[s] = IF s \in Topic!Connected THEN None ELSE oStreams[s]
    BY DEF Topic!Publish, Topic!Reset
  <2>2. Coherent(s)
    BY DEF Topic!StreamsCoherent, Coherent
  <2> QED  BY <1>1, <2>1, <2>2 DEF Coherent, Topic!Behind, Topic!Connected, Topic!Durable, Topic!Subscribed
<1>6. Topic!StreamsCoherent'
  BY <1>5 DEF Topic!StreamsCoherent, Coherent
<1> QED  BY <1>2, <1>3, <1>4, <1>6

\* The slowest durable cursor, or the end of the log.
LEMMA FrontierBounds ==
  ASSUME TopicInv
  PROVE  /\ Topic!Frontier \in oBase .. Len(oLog)
         /\ \A s \in Topic!Durable : Topic!Frontier <= oSubs[s].cursor
<1> DEFINE ends == {oSubs[s].cursor : s \in Topic!Durable} \cup {Topic!Tail_offset}
<1> USE DEF TopicInv
<1>1. Topic!Tail_offset = Len(oLog) /\ Len(oLog) \in Nat /\ oBase \in Nat /\ oBase <= Len(oLog)
  BY LenProperties DEF TopicTypes, LogKept, Topic!Tail_offset
<1>2. \A s \in Topic!Durable : oSubs[s].cursor \in Nat /\ oBase <= oSubs[s].cursor
  BY TopicAssumption DEF TopicTypes, Subscribing, Subscriptions, CursorsKept, Topic!Durable, Topic!Subscribed
<1>3. ends \subseteq Nat /\ ends # {} /\ \A x \in ends : oBase <= x
  BY <1>1, <1>2
<1>4. PICK least \in ends : \A x \in ends : least <= x
  BY <1>3, SmallestNat
<1>5. Topic!Frontier \in ends /\ \A x \in ends : Topic!Frontier <= x
  BY <1>4 DEF Topic!Frontier, Topic!Min
<1>6. Topic!Frontier <= Len(oLog)
  BY <1>1, <1>5
<1> QED  BY <1>1, <1>3, <1>5, <1>6

\* A collection stops at the slowest durable cursor; who is not behind the new
\* base was not behind the old one.
LEMMA GcStep ==
  ASSUME TopicInv, Topic!Gc
  PROVE  TopicInv'
<1> DEFINE cut == Topic!Frontier - oBase
           rest == Len(oElements) - cut
<1> USE DEF TopicInv
<1>1. /\ oBase \in Nat /\ oElements \in Seq(Nat) /\ Len(oElements) \in Nat /\ oLog \in Seq(Nat)
      /\ oBase + Len(oElements) = Len(oLog)
  BY LenProperties DEF TopicTypes, LogKept
<1>2. /\ UNCHANGED <<oSubs, oStreams, oSaved, oLog>> /\ oBase' = Topic!Frontier
      /\ oElements' = SubSeq(oElements, cut + 1, Len(oElements))
  BY DEF Topic!Gc
<1>3. cut \in Nat /\ rest \in Nat /\ Len(oElements) = cut + rest /\ oBase' = oBase + cut
  <2>1. ASSUME NEW f \in oBase .. oBase + Len(oElements)
        PROVE  /\ f - oBase \in Nat /\ Len(oElements) - (f - oBase) \in Nat /\ f = oBase + (f - oBase)
               /\ Len(oElements) = (f - oBase) + (Len(oElements) - (f - oBase))
    BY <1>1
  <2>2. Topic!Frontier \in oBase .. oBase + Len(oElements)
    BY <1>1, FrontierBounds
  <2> QED  BY <1>2, <2>1, <2>2
<1> HIDE DEF cut, rest
<1>4. \A i \in 1 .. rest : cut + i \in 1 .. Len(oElements) /\ oBase + (cut + i) = oBase' + i
  BY <1>1, <1>3
<1>5. /\ oElements' \in Seq(Nat) /\ Len(oElements') = rest
      /\ \A i \in 1 .. rest : oElements'[i] = oElements[cut + i]
  <2>1. \A i \in 1 .. rest : oElements[cut + i] \in Nat
    BY <1>1, <1>4, ElementOfSeq
  <2>2. oElements' = SubSeq(oElements, cut + 1, cut + rest)
    BY <1>2, <1>3
  <2>3. oElements' = [i \in 1 .. rest |-> oElements[cut + i]]
    BY <1>3, <2>2, SubSeqPart
  <2> QED  BY <1>3, <2>1, <2>3
<1>6. TopicTypes'
  BY <1>1, <1>2, <1>3, <1>5 DEF TopicTypes
<1>7. LogKept'
  <2>1. \A i \in 1 .. rest : oElements'[i] = oLog[oBase' + i]
    <3>1. \A j \in 1 .. Len(oElements) : oElements[j] = oLog[oBase + j]
      BY DEF LogKept, Retained
    <3> QED  BY <1>4, <1>5, <3>1
  <2>2. oBase' + Len(oElements') = Len(oLog)
    BY <1>1, <1>3, <1>5
  <2> QED  BY <1>1, <1>2, <1>5, <2>1, <2>2, LenProperties DEF LogKept, Retained
<1>8. CursorsKept'
  BY <1>2, FrontierBounds DEF CursorsKept, Topic!Durable, Topic!Subscribed
<1>9. ASSUME NEW s \in Subscribers  PROVE Coherent(s)'
  <2>1. Topic!Behind(s) => Topic!Behind(s)'
    BY <1>1, <1>2, <1>3, TopicAssumption DEF Topic!Behind, Topic!Durable, Topic!Subscribed, TopicTypes, Subscribing, Subscriptions
  <2>2. Coherent(s)
    BY DEF Topic!StreamsCoherent, Coherent
  <2> QED  BY <1>2, <2>1, <2>2 DEF Coherent, Topic!Unread, Topic!Connected, Topic!Subscribed
<1>10. Topic!StreamsCoherent'
  BY <1>9 DEF Topic!StreamsCoherent, Coherent
<1> QED  BY <1>6, <1>7, <1>8, <1>10

LEMMA SaveStep ==
  ASSUME TopicInv, Topic!Save
  PROVE  TopicInv'
<1> USE DEF TopicInv, Topic!Save
<1>1. TopicTypes'
  BY DEF TopicTypes, Topic!Snapshot
<1>2. LogKept'
  BY DEF LogKept, Topic!Snapshot
<1>3. CursorsKept'
  BY DEF CursorsKept, Topic!Subscribed, Topic!Durable
<1>4. Topic!StreamsCoherent'
  BY DEF Topic!StreamsCoherent, Topic!Behind, Topic!Unread, Topic!Connected, Topic!Durable, Topic!Subscribed
<1> QED  BY <1>1, <1>2, <1>3, <1>4

\* A topic built from a snapshot has every cursor within its log, and no stream.
LEMMA RestoreStep ==
  ASSUME TopicInv, Topic!Restore
  PROVE  TopicInv'
<1> USE DEF TopicInv
<1>1. /\ oSaved.base \in Nat /\ oSaved.elements \in Seq(Nat) /\ oSaved.subs \in Subscribing
      /\ oLog \in Seq(Nat) /\ Retained(oLog, oSaved.base, oSaved.elements)
  BY DEF TopicTypes, LogKept
<1>2. /\ oBase' = oSaved.base /\ oElements' = oSaved.elements /\ oSubs' = oSaved.subs /\ oSaved' = oSaved
      /\ oStreams' = [s \in Subscribers |-> None]
      /\ oLog' = SubSeq(oLog, 1, oSaved.base + Len(oSaved.elements))
  BY DEF Topic!Restore
<1>3. /\ oLog' \in Seq(Nat) /\ Len(oLog') = oSaved.base + Len(oSaved.elements)
      /\ Retained(oLog', oSaved.base, oSaved.elements)
  BY <1>1, <1>2, RetainedPrefix
<1>4. TopicTypes'
  BY <1>1, <1>2, <1>3 DEF TopicTypes
<1>5. LogKept'
  BY <1>2, <1>3 DEF LogKept
<1>6. \A s \in Subscribers : oSubs'[s] # None => oSubs'[s].cursor \in oBase' .. Len(oLog')
  BY <1>2, <1>3 DEF Topic!Restore, Topic!Restorable
<1>7. CursorsKept'
  BY <1>6 DEF CursorsKept, Topic!Subscribed, Topic!Durable
<1>8. Topic!StreamsCoherent'
  BY <1>2 DEF Topic!StreamsCoherent
<1> QED  BY <1>4, <1>5, <1>7, <1>8

LEMMA TopicStep == TopicInv /\ (Topic!Next \/ UNCHANGED topicVars) => TopicInv'
<1> SUFFICES ASSUME TopicInv, Topic!Next \/ UNCHANGED topicVars  PROVE TopicInv'
  OBVIOUS
<1>1. CASE UNCHANGED topicVars
  <2> USE <1>1 DEF topicVars, TopicInv
  <2>1. (TopicTypes /\ LogKept /\ CursorsKept)'
    BY DEF TopicTypes, LogKept, CursorsKept, Topic!Subscribed, Topic!Durable
  <2>2. Topic!StreamsCoherent'
    BY DEF Topic!StreamsCoherent, Topic!Behind, Topic!Unread, Topic!Connected, Topic!Durable, Topic!Subscribed
  <2> QED  BY <2>1, <2>2
<1>2. CASE Topic!Next
  BY <1>2, SubscriberStep, ReadStreamStep, PublishStep, GcStep, SaveStep, RestoreStep DEF Topic!Next
<1> QED  BY <1>1, <1>2

LEMMA TopicHeld == TopicInv => Topic!DurableReplay
<1> SUFFICES ASSUME TopicInv, NEW s \in Topic!Durable
             PROVE  Topic!From(oElements, oSubs[s].cursor - oBase) = Topic!Unread(s)
  BY DEF Topic!DurableReplay
<1>1. oSubs[s].cursor \in oBase .. Len(oLog)
  BY LenProperties, TopicAssumption
  DEF TopicInv, TopicTypes, Subscribing, Subscriptions, CursorsKept, Topic!Durable, Topic!Subscribed
<1> QED  BY <1>1, ReadsWhole DEF TopicInv, TopicTypes, LogKept, Topic!Unread

LEMMA TopicStays == [Next]_vars => Topic!Next \/ UNCHANGED topicVars
  BY DEF Next, vars, Stays

\* For any subscribers and any history of calls, collections, snapshots and
\* restores: a durable subscriber reads exactly what was published after its
\* cursor, and a cached stream is what its subscriber has yet to read, but for an
\* ephemeral one that collection left behind (TopicCell.gc, advance, restore).
THEOREM TopicStreamsStay == Spec => []TopicStreams
<1>1. Init => TopicInv
  BY TopicInit DEF Init
<1>2. TopicInv /\ [Next]_vars => TopicInv'
  BY TopicStays, TopicStep
<1>3. TopicInv => TopicStreams
  BY TopicHeld DEF TopicStreams, TopicInv
<1> QED  BY <1>1, <1>2, <1>3, PTL DEF Spec

(***************************************************************************)
(* The breaker.  What it holds is the window of all that it recorded since *)
(* it last closed, in every state; it is closed by what that window shows. *)
(***************************************************************************)
Outcomes == BOOLEAN
WindowKept ==
  /\ rState \in {"Closed", "Open", "HalfOpen"}
  /\ rOutcomes \in Seq(Outcomes) /\ rSince \in Seq(Outcomes)
  /\ rOutcomes = Breaker!Newest(rSince)
  /\ rState = "Closed" <=> Breaker!Failures(rOutcomes) < BreakerThreshold

\* Who is inside holds a permit, and nobody else does.
PermitsHeld ==
  /\ IsFiniteSet(DOMAIN rCalls)
  /\ rInUse = Cardinality(DOMAIN rCalls) /\ rInUse <= BreakerCapacity

BreakerInv == WindowKept /\ PermitsHeld

\* The count of the instance is the count of the library.
LEMMA SameCount == \A S : Breaker!Cardinality(S) = Cardinality(S)
  BY DEF Breaker!Cardinality, Cardinality

LEMMA FailuresCounted ==
  ASSUME NEW list \in Seq(Outcomes)
  PROVE  Breaker!Failures(list) \in Nat
<1>1. Len(list) \in Nat /\ DOMAIN list = 1 .. Len(list)
  BY LenProperties
<1>2. IsFiniteSet(DOMAIN list)
  BY <1>1, FS_Interval
<1>3. {i \in DOMAIN list : ~list[i]} \subseteq DOMAIN list
  OBVIOUS
<1>4. IsFiniteSet({i \in DOMAIN list : ~list[i]})
  BY <1>2, <1>3, FS_Subset
<1>5. Breaker!Failures(list) = Cardinality({i \in DOMAIN list : ~list[i]})
  BY SameCount DEF Breaker!Failures
<1>6. Cardinality({i \in DOMAIN list : ~list[i]}) \in Nat
  BY <1>4, FS_CardinalityType
<1> QED  BY <1>5, <1>6

\* The window of a list: its last rest elements, skip behind its start.
LEMMA NewestIs ==
  ASSUME NEW list \in Seq(Outcomes), NEW skip \in Nat, NEW rest \in Nat,
         Len(list) = skip + rest, rest <= BreakerWindow, skip = 0 \/ rest = BreakerWindow
  PROVE  LET window == Breaker!Newest(list)
         IN  window \in Seq(Outcomes) /\ Len(window) = rest /\ \A i \in 1 .. rest : window[i] = list[skip + i]
<1>1. Breaker!Newest(list) = SubSeq(list, skip + 1, skip + rest)
  <2>1. (IF Len(list) > BreakerWindow THEN Len(list) - BreakerWindow + 1 ELSE 1) = skip + 1
    BY BreakerAssumption DEF BreakerAssumption
  <2> QED  BY <2>1 DEF Breaker!Newest
<1>2. ASSUME NEW i \in 1 .. rest  PROVE list[skip + i] \in Outcomes
  <2>1. skip + i \in 1 .. Len(list)
    OBVIOUS
  <2> QED  BY <2>1, ElementOfSeq
<1> QED  BY <1>1, <1>2, SubSeqPart

LEMMA WindowSplits ==
  ASSUME NEW list \in Seq(Outcomes)
  PROVE  \E skip, rest \in Nat :
           Len(list) = skip + rest /\ rest <= BreakerWindow /\ (skip = 0 \/ rest = BreakerWindow)
<1> DEFINE n == Len(list)
<1> n \in Nat /\ BreakerWindow \in Nat
  BY LenProperties, BreakerAssumption DEF BreakerAssumption
<1> SUFFICES \E skip, rest \in Nat :
               n = skip + rest /\ rest <= BreakerWindow /\ (skip = 0 \/ rest = BreakerWindow)
  OBVIOUS
<1> HIDE DEF n
<1>1. CASE n <= BreakerWindow
  <2> WITNESS 0 \in Nat, n \in Nat
  <2> QED  BY <1>1
<1>2. CASE ~(n <= BreakerWindow)
  <2> n - BreakerWindow \in Nat
    BY <1>2
  <2> WITNESS n - BreakerWindow \in Nat, BreakerWindow \in Nat
  <2> QED  BY <1>2
<1> QED  BY <1>1, <1>2

\* Recording in the window is taking the window of what was recorded.
LEMMA NewestAppend ==
  ASSUME NEW list \in Seq(Outcomes), NEW x \in Outcomes
  PROVE  /\ Breaker!Newest(list) \in Seq(Outcomes)
         /\ Breaker!Newest(Append(Breaker!Newest(list), x)) = Breaker!Newest(Append(list, x))
<1>1. PICK skip \in Nat, rest \in Nat :
        Len(list) = skip + rest /\ rest <= BreakerWindow /\ (skip = 0 \/ rest = BreakerWindow)
  BY WindowSplits
<1> DEFINE W == BreakerWindow
           old == Breaker!Newest(list)
           one == Append(old, x)
           two == Append(list, x)
<1>2. W \in Nat /\ W # 0
  BY BreakerAssumption DEF BreakerAssumption
<1>3. old \in Seq(Outcomes) /\ Len(old) = rest /\ \A i \in 1 .. rest : old[i] = list[skip + i]
  BY <1>1, NewestIs
<1>4. /\ one \in Seq(Outcomes) /\ Len(one) = rest + 1 /\ one[rest + 1] = x
      /\ \A i \in 1 .. rest : one[i] = list[skip + i]
  <2> HIDE DEF old
  <2>1. one \in Seq(Outcomes) /\ Len(one) = Len(old) + 1 /\ one[Len(old) + 1] = x
    BY <1>3, AppendProperties
  <2>2. \A i \in 1 .. Len(old) : one[i] = old[i]
    BY <1>3, AppendProperties
  <2> QED  BY <1>3, <2>1, <2>2
<1>5. /\ two \in Seq(Outcomes) /\ Len(two) = skip + rest + 1 /\ two[skip + rest + 1] = x
      /\ \A i \in 1 .. rest : two[skip + i] = list[skip + i]
  <2>1. \A i \in 1 .. rest : skip + i \in 1 .. Len(list)
    BY <1>1
  <2> QED  BY <1>1, <2>1, AppendProperties
<1> HIDE DEF W, old, one, two
<1>6. CASE rest < W
  <2>1. skip = 0 /\ rest + 1 <= W /\ 0 \in Nat /\ rest + 1 \in Nat /\ 0 + (rest + 1) = rest + 1
    BY <1>1, <1>2, <1>6 DEF W
  <2>2. Len(two) = rest + 1 /\ \A i \in 1 .. rest + 1 : one[i] = two[i]
    BY <1>4, <1>5, <2>1
  <2>3. one = two
    BY <1>4, <1>5, <2>2, SeqEqual
  <2> QED  BY <1>3, <2>3 DEF old, one, two
<1>7. CASE rest = W
  <2>1. 1 \in Nat /\ skip + 1 \in Nat /\ Len(one) = 1 + W /\ Len(two) = (skip + 1) + W /\ W <= BreakerWindow
    BY <1>2, <1>4, <1>5, <1>7 DEF W
  <2>2. /\ Breaker!Newest(one) \in Seq(Outcomes) /\ Len(Breaker!Newest(one)) = W
        /\ \A i \in 1 .. W : Breaker!Newest(one)[i] = one[1 + i]
    BY <1>2, <1>4, <2>1, NewestIs DEF W
  <2>3. /\ Breaker!Newest(two) \in Seq(Outcomes) /\ Len(Breaker!Newest(two)) = W
        /\ \A i \in 1 .. W : Breaker!Newest(two)[i] = two[(skip + 1) + i]
    BY <1>2, <1>5, <2>1, NewestIs DEF W
  <2>4. ASSUME NEW i \in 1 .. W  PROVE one[1 + i] = two[(skip + 1) + i]
    <3>1. CASE i = W
      <4>1. 1 + i = rest + 1 /\ (skip + 1) + i = skip + rest + 1
        BY <1>7, <3>1
      <4> QED  BY <1>4, <1>5, <4>1
    <3>2. CASE i # W
      <4>1. 1 + i \in 1 .. rest /\ (skip + 1) + i = skip + (1 + i)
        BY <1>2, <1>7, <3>2
      <4> QED  BY <1>4, <1>5, <4>1
    <3> QED  BY <3>1, <3>2
  <2>5. Breaker!Newest(one) = Breaker!Newest(two)
    BY <2>2, <2>3, <2>4, SeqEqual
  <2> QED  BY <1>3, <2>5 DEF old, one, two
<1> QED  BY <1>1, <1>2, <1>6, <1>7 DEF W

\* The constructor's breaker is closed, on no evidence.
LEMMA NothingFailed == Breaker!Failures(<<>>) = 0
<1>1. {i \in DOMAIN <<>> : ~(<<>>)[i]} = {}
  OBVIOUS
<1>2. Breaker!Failures(<<>>) = Cardinality({i \in DOMAIN <<>> : ~(<<>>)[i]})
  BY SameCount DEF Breaker!Failures
<1> QED  BY <1>1, <1>2, FS_EmptySet

\* Nothing recorded is a window of nothing, and the breaker may close.
LEMMA Fresh == Breaker!Newest(<<>>) = <<>> /\ Breaker!Failures(<<>>) < BreakerThreshold
<1>1. Breaker!Newest(<<>>) = <<>>
  <2>1. <<>> \in Seq(Outcomes) /\ Len(<<>>) = 0 + 0 /\ 0 <= BreakerWindow /\ 0 \in Nat
    BY BreakerAssumption DEF BreakerAssumption
  <2>2. Breaker!Newest(<<>>) \in Seq(Outcomes) /\ Len(Breaker!Newest(<<>>)) = 0
    BY <2>1, NewestIs
  <2> QED  BY <2>2, EmptySeq
<1>2. 0 < BreakerThreshold
  BY BreakerAssumption DEF BreakerAssumption
<1> QED  BY <1>1, <1>2, NothingFailed

LEMMA BreakerInit == Breaker!Init => BreakerInv
<1> SUFFICES ASSUME Breaker!Init  PROVE BreakerInv
  OBVIOUS
<1>1. rState = "Closed" /\ rOutcomes = <<>> /\ rInUse = 0 /\ rSince = <<>> /\ rCalls = [x \in {} |-> 0]
  BY DEF Breaker!Init
<1>2. <<>> \in Seq(Outcomes)
  OBVIOUS
<1>3. DOMAIN rCalls = {}
  BY <1>1
<1>4. IsFiniteSet(DOMAIN rCalls) /\ rInUse = Cardinality(DOMAIN rCalls) /\ rInUse <= BreakerCapacity
  BY <1>1, <1>3, FS_EmptySet, BreakerAssumption DEF BreakerAssumption
<1> QED  BY <1>1, <1>2, <1>4, Fresh DEF BreakerInv, WindowKept, PermitsHeld

LEMMA AllowStep ==
  ASSUME WindowKept, Breaker!Allow  PROVE WindowKept'
<1>1. /\ rState' \in {"Closed", "Open", "HalfOpen"} /\ (rState' = "Closed" <=> rState = "Closed")
      /\ UNCHANGED <<rOutcomes, rSince>>
  BY DEF WindowKept, Breaker!Allow
<1>2. Breaker!Newest(rSince)' = Breaker!Newest(rSince)
  BY <1>1 DEF Breaker!Newest
<1>3. Breaker!Failures(rOutcomes)' = Breaker!Failures(rOutcomes)
  BY <1>1 DEF Breaker!Failures
<1> QED  BY <1>1, <1>2, <1>3 DEF WindowKept

\* An outcome goes to whatever state the breaker is in by then.
LEMMA RecordStep ==
  ASSUME WindowKept, NEW success \in BOOLEAN, Breaker!Record(success)  PROVE WindowKept'
<1>1. CASE UNCHANGED <<rState, rOutcomes, rSince>>
  <2>1. Breaker!Newest(rSince)' = Breaker!Newest(rSince)
    BY <1>1 DEF Breaker!Newest
  <2>2. Breaker!Failures(rOutcomes)' = Breaker!Failures(rOutcomes)
    BY <1>1 DEF Breaker!Failures
  <2> QED  BY <1>1, <2>1, <2>2 DEF WindowKept
<1>2. CASE Breaker!RecordHalfOpen(success)
  <2>1. CASE success
    <3>1. rState' = "Closed" /\ rOutcomes' = <<>> /\ rSince' = <<>>
      BY <1>2, <2>1 DEF Breaker!RecordHalfOpen
    <3>2. <<>> \in Seq(Outcomes)
      OBVIOUS
    <3> QED  BY <3>1, <3>2, Fresh DEF WindowKept
  <2>2. CASE ~success
    <3>1. rState = "HalfOpen" /\ rState' = "Open" /\ UNCHANGED <<rOutcomes, rSince>>
      BY <1>2, <2>2 DEF Breaker!RecordHalfOpen, Breaker!Trip
    <3>2. Breaker!Newest(rSince)' = Breaker!Newest(rSince)
      BY <3>1 DEF Breaker!Newest
    <3>3. Breaker!Failures(rOutcomes)' = Breaker!Failures(rOutcomes)
      BY <3>1 DEF Breaker!Failures
    <3> QED  BY <3>1, <3>2, <3>3 DEF WindowKept
  <2> QED  BY <2>1, <2>2
<1>3. CASE Breaker!RecordClosed(success)
  <2>0. success \in Outcomes
    BY DEF Outcomes
  <2>1. /\ rState = "Closed"
        /\ rOutcomes' = Breaker!Newest(Append(rOutcomes, success)) /\ rSince' = Append(rSince, success)
    BY <1>3 DEF Breaker!RecordClosed
  <2>2. rSince' \in Seq(Outcomes)
    BY <2>1, <2>0, AppendProperties DEF WindowKept
  <2>3. rOutcomes' = Breaker!Newest(rSince')
    BY <2>1, <2>0, NewestAppend DEF WindowKept
  <2>4. rOutcomes' \in Seq(Outcomes)
    BY <2>2, <2>3, <2>0, NewestAppend
  <2>5. Breaker!Failures(rOutcomes') \in Nat /\ BreakerThreshold \in Nat
    BY <2>4, FailuresCounted, BreakerAssumption DEF BreakerAssumption
  <2>6. IF Breaker!Failures(rOutcomes') >= BreakerThreshold THEN rState' = "Open" ELSE rState' = rState
    BY <1>3 DEF Breaker!RecordClosed, Breaker!Trip
  <2>7. rState' \in {"Closed", "Open"} /\ (rState' = "Closed" <=> Breaker!Failures(rOutcomes') < BreakerThreshold)
    BY <2>1, <2>5, <2>6
  <2> QED  BY <2>2, <2>3, <2>4, <2>7 DEF WindowKept
<1> QED  BY <1>1, <1>2, <1>3 DEF Breaker!Record, Breaker!breakerVars

LEMMA CallStep ==
  ASSUME PermitsHeld, NEW x, Breaker!Call(x)  PROVE PermitsHeld'
<1>1. /\ x \notin DOMAIN rCalls /\ rInUse < BreakerCapacity /\ rInUse' = rInUse + 1
      /\ DOMAIN rCalls' = DOMAIN rCalls \cup {x}
  BY DEF Breaker!Call, Breaker!Acquire
<1>2. /\ IsFiniteSet(DOMAIN rCalls \cup {x})
      /\ Cardinality(DOMAIN rCalls \cup {x}) = Cardinality(DOMAIN rCalls) + 1
      /\ Cardinality(DOMAIN rCalls) \in Nat
  BY <1>1, FS_AddElement, FS_CardinalityType DEF PermitsHeld
<1> QED  BY <1>1, <1>2, BreakerAssumption DEF PermitsHeld, BreakerAssumption

LEMMA LeaveStep ==
  ASSUME PermitsHeld, NEW x, NEW success, Breaker!Finish(x, success)  PROVE PermitsHeld'
<1>1. /\ x \in DOMAIN rCalls /\ rInUse' = IF rInUse > 0 THEN rInUse - 1 ELSE rInUse
      /\ DOMAIN rCalls' = DOMAIN rCalls \ {x}
  BY DEF Breaker!Finish, Breaker!Release
<1>2. /\ IsFiniteSet(DOMAIN rCalls \ {x})
      /\ Cardinality(DOMAIN rCalls \ {x}) = Cardinality(DOMAIN rCalls) - 1
      /\ Cardinality(DOMAIN rCalls) \in Nat /\ Cardinality(DOMAIN rCalls \ {x}) \in Nat
  BY <1>1, FS_RemoveElement, FS_CardinalityType DEF PermitsHeld
<1> QED  BY <1>1, <1>2, BreakerAssumption DEF PermitsHeld, BreakerAssumption

LEMMA BreakerStep == BreakerInv /\ (Breaker!Next \/ UNCHANGED breakerVars) => BreakerInv'
<1> SUFFICES ASSUME BreakerInv, Breaker!Next \/ UNCHANGED breakerVars  PROVE BreakerInv'
  OBVIOUS
<1>1. WindowKept /\ PermitsHeld
  BY DEF BreakerInv
<1>2. ASSUME UNCHANGED <<rState, rOutcomes, rSince>>  PROVE WindowKept'
  <2>2. Breaker!Failures(rOutcomes)' = Breaker!Failures(rOutcomes)
    BY <1>2 DEF Breaker!Failures
  <2>3. Breaker!Newest(rSince)' = Breaker!Newest(rSince)
    BY <1>2 DEF Breaker!Newest
  <2> QED  BY <1>1, <1>2, <2>2, <2>3 DEF WindowKept
<1>3. ASSUME DOMAIN rCalls' = DOMAIN rCalls, rInUse' = rInUse  PROVE PermitsHeld'
  BY <1>1, <1>3 DEF PermitsHeld
<1>4. ASSUME NEW x \in BreakerCallers, Breaker!Call(x)  PROVE WindowKept' /\ PermitsHeld'
  BY <1>1, <1>4, AllowStep, CallStep DEF Breaker!Call
<1>5. ASSUME NEW x \in BreakerCallers, NEW ok \in BOOLEAN, Breaker!Finish(x, ok)  PROVE WindowKept' /\ PermitsHeld'
  BY <1>1, <1>5, RecordStep, LeaveStep DEF Breaker!Finish
<1>6. ASSUME NEW x \in BreakerCallers, Breaker!Expire(x)  PROVE WindowKept' /\ PermitsHeld'
  <2>1. UNCHANGED <<rState, rOutcomes, rSince>> /\ DOMAIN rCalls' = DOMAIN rCalls /\ rInUse' = rInUse
    BY <1>6 DEF Breaker!Expire, Breaker!breakerVars
  <2> QED  BY <2>1, <1>2, <1>3
<1>7. ASSUME Breaker!Ask  PROVE WindowKept' /\ PermitsHeld'
  <2>1. DOMAIN rCalls' = DOMAIN rCalls /\ rInUse' = rInUse
    BY <1>7 DEF Breaker!Ask
  <2> QED  BY <1>1, <1>3, <1>7, <2>1, AllowStep DEF Breaker!Ask
<1>8. ASSUME Breaker!Time \/ UNCHANGED breakerVars  PROVE WindowKept' /\ PermitsHeld'
  <2>1. UNCHANGED <<rState, rOutcomes, rSince>> /\ DOMAIN rCalls' = DOMAIN rCalls /\ rInUse' = rInUse
    BY <1>8 DEF Breaker!Time, Breaker!breakerVars, breakerVars
  <2> QED  BY <2>1, <1>2, <1>3
<1>9. WindowKept' /\ PermitsHeld'
  <2>1. CASE Breaker!Next
    BY <2>1, <1>4, <1>5, <1>6, <1>7, <1>8 DEF Breaker!Next
  <2> QED  BY <2>1, <1>8
<1> QED  BY <1>9 DEF BreakerInv

LEMMA BreakerHeld == BreakerInv => Breaker!BreakerEvidence
  BY SameCount DEF BreakerInv, WindowKept, PermitsHeld, Breaker!BreakerEvidence

LEMMA BreakerStays == [Next]_vars => Breaker!Next \/ UNCHANGED breakerVars
  BY DEF Next, vars, Stays

\* For any callers, limits and delays, however late an answer comes and whatever
\* the breaker has become by then: it is closed exactly while the window of what it
\* recorded since it last closed holds fewer failures than the threshold, and as
\* many callers are inside as permits are out (CircuitBreakerCore.record, BulkheadCore).
THEOREM BreakerStaysEvident == Spec => []BreakerEvidence
<1>1. Init => BreakerInv
  BY BreakerInit DEF Init
<1>2. BreakerInv /\ [Next]_vars => BreakerInv'
  BY BreakerStays, BreakerStep
<1>3. BreakerInv => BreakerEvidence
  BY BreakerHeld DEF BreakerEvidence
<1> QED  BY <1>1, <1>2, <1>3, PTL DEF Spec

(***************************************************************************)
(* The teardown scopes.  Nothing says in which order the closes under way  *)
(* go on, and a node may be in several scopes, so the invariant is about   *)
(* the lists of one scope: what it owns and what its closes have left hold *)
(* each node once, and only another scope can have disposed of one.        *)
(***************************************************************************)
CloseCalls ==
  [of : TeardownScopes, left : Seq(TeardownNodes), all : Seq(TeardownNodes), at : TeardownNodes \cup {None}]
TeardownTypes ==
  /\ dOwned \in [TeardownScopes -> Seq(TeardownNodes)] /\ dCloses \in Seq(CloseCalls)
  /\ dTaken \in [TeardownScopes -> SUBSET TeardownNodes]
  /\ dDisposed \subseteq TeardownNodes /\ dCleanups \in [TeardownNodes -> Nat]

Lists(q, n) == \E i \in 1..Len(q) : q[i] = n
NoTwice(q) == \A i, l \in 1..Len(q) : q[i] = q[l] => i = l

\* What a scope, or a close of it, has yet to dispose of: each node once, taken by the
\* scope, and disposed only if another scope took it too.
Mine(s, q, taken, disposed) ==
  /\ NoTwice(q)
  /\ \A n : Lists(q, n) => n \in taken[s] /\ (n \in disposed => \E o \in TeardownScopes \ {s} : n \in taken[o])

\* A close has left the first of its members, and is at the one behind them.
CallHeld(call, taken, disposed) ==
  /\ Mine(call.of, call.left, taken, disposed) /\ NoTwice(call.all) /\ Len(call.left) <= Len(call.all)
  /\ \A i \in 1..Len(call.left) : call.left[i] = call.all[i]
  /\ \A n : Lists(call.all, n) => n \in taken[call.of]
  /\ call.at # None => Len(call.left) < Len(call.all) /\ call.at = call.all[Len(call.left) + 1]

\* No node is in two of the lists of one scope.
Apart(closes, owned) ==
  /\ \A i \in 1..Len(closes), n \in TeardownNodes :
       Lists(closes[i].left, n) => ~Lists(owned[closes[i].of], n)
  /\ \A i, l \in 1..Len(closes), n \in TeardownNodes :
       i # l /\ closes[i].of = closes[l].of => ~(Lists(closes[i].left, n) /\ Lists(closes[l].left, n))
CleanedOnce == \A n \in TeardownNodes : dCleanups[n] <= 1 /\ (n \notin dDisposed => dCleanups[n] = 0)
Accounted ==
  \A s \in TeardownScopes : \A n \in dTaken[s] :
    \/ n \in dDisposed \/ n \in dSpared \/ Lists(dOwned[s], n)
    \/ \E i \in 1..Len(dCloses) : Lists(dCloses[i].left, n)

TeardownInv ==
  /\ TeardownTypes /\ CleanedOnce /\ Accounted /\ Apart(dCloses, dOwned)
  /\ \A s \in TeardownScopes : Mine(s, dOwned[s], dTaken, dDisposed)
  /\ \A i \in 1..Len(dCloses) : CallHeld(dCloses[i], dTaken, dDisposed)

\* A sequence without one of its elements, and without the last.
LEMMA WithoutOne ==
  ASSUME NEW S, NEW q \in Seq(S), NEW i \in 1..Len(q)
  PROVE  /\ Scopes!RemoveAt(q, i) \in Seq(S) /\ Len(Scopes!RemoveAt(q, i)) = Len(q) - 1 /\ Len(q) \in Nat
         /\ \A l \in 1..(Len(q) - 1) : Scopes!RemoveAt(q, i)[l] = IF l < i THEN q[l] ELSE q[l + 1]
<1> DEFINE front == SubSeq(q, 1, i - 1)
           rest == SubSeq(q, i + 1, Len(q))
<1>1. front \in Seq(S) /\ Len(front) = i - 1 /\ \A l \in 1..(i - 1) : front[l] = q[l]
  OBVIOUS
<1>2. rest \in Seq(S) /\ Len(rest) = Len(q) - i /\ \A l \in 1..(Len(q) - i) : rest[l] = q[i + l]
  OBVIOUS
<1>3. Scopes!RemoveAt(q, i) = front \o rest
  BY DEF Scopes!RemoveAt
<1> HIDE DEF front, rest
<1>4. /\ Len(q) \in Nat /\ front \o rest \in Seq(S) /\ Len(front \o rest) = Len(q) - 1
      /\ \A l \in 1..(Len(q) - 1) : (front \o rest)[l] = IF l <= i - 1 THEN front[l] ELSE rest[l - (i - 1)]
  <2>1. front \o rest \in Seq(S) /\ Len(front \o rest) = Len(front) + Len(rest)
        /\ \A l \in 1..(Len(front) + Len(rest)) : (front \o rest)[l] = IF l <= Len(front) THEN front[l] ELSE rest[l - Len(front)]
    BY <1>1, <1>2, ConcatProperties
  <2>2. Len(q) \in Nat /\ Len(front) = i - 1 /\ Len(front) + Len(rest) = Len(q) - 1
    BY <1>1, <1>2
  <2> QED  BY <2>1, <2>2
<1>5. ASSUME NEW l \in 1..(Len(q) - 1)  PROVE (front \o rest)[l] = IF l < i THEN q[l] ELSE q[l + 1]
  <2>1. CASE l < i
    BY <1>1, <1>2, <1>4, <2>1
  <2>2. CASE ~(l < i)
    <3>1. l - (i - 1) \in 1..(Len(q) - i) /\ (front \o rest)[l] = rest[l - (i - 1)]
      BY <1>1, <1>2, <1>4, <2>2
    <3>2. i + (l - (i - 1)) = l + 1
      OBVIOUS
    <3> QED  BY <1>2, <2>2, <3>1, <3>2
  <2> QED  BY <2>1, <2>2
<1> QED  BY <1>3, <1>4, <1>5

LEMMA WithoutLast ==
  ASSUME NEW S, NEW q \in Seq(S), q # << >>
  PROVE  /\ Scopes!Front(q) \in Seq(S) /\ Len(Scopes!Front(q)) = Len(q) - 1 /\ Len(q) \in Nat /\ Len(q) >= 1
         /\ \A l \in 1..(Len(q) - 1) : Scopes!Front(q)[l] = q[l]
         /\ Scopes!Last(q) = q[Len(q)]
<1>1. Len(q) \in Nat /\ Len(q) >= 1
  OBVIOUS
<1>2. Scopes!Front(q) = SubSeq(q, 1, Len(q) - 1) /\ Scopes!Last(q) = q[Len(q)]
  BY DEF Scopes!Front, Scopes!Last
<1>3. SubSeq(q, 1, Len(q) - 1) \in Seq(S) /\ Len(SubSeq(q, 1, Len(q) - 1)) = Len(q) - 1
      /\ \A l \in 1..(Len(q) - 1) : SubSeq(q, 1, Len(q) - 1)[l] = q[l]
  <2> DEFINE m == 1
             n == Len(q) - 1
  <2>0. m \in Int /\ n \in Int /\ n - m + 1 = Len(q) - 1
    BY <1>1
  <2>1. m \in Int /\ n \in Int /\ n - m + 1 = Len(q) - 1 /\ (IF m <= n THEN n - m + 1 ELSE 0) = Len(q) - 1
    <3>1. CASE Len(q) = 1
      BY <2>0, <3>1
    <3>2. CASE Len(q) > 1
      <4>1. m <= n
        BY <1>1, <3>2
      <4> HIDE DEF m, n
      <4> QED  BY <2>0, <4>1
    <3>3. Len(q) = 1 \/ Len(q) > 1
      <4>1. \A k \in Nat : k >= 1 => k = 1 \/ k > 1
        OBVIOUS
      <4> QED  BY <1>1, <4>1
    <3> HIDE DEF m, n
    <3> QED  BY <3>1, <3>2, <3>3
  <2>2. \A l \in m..n : q[l] \in S
    BY <1>1
  <2>3. \A l \in 1..(Len(q) - 1) : m + l - 1 = l
    BY <1>1
  <2>4. /\ SubSeq(q, m, n) \in Seq(S) /\ Len(SubSeq(q, m, n)) = IF m <= n THEN n - m + 1 ELSE 0
        /\ \A l \in 1..n - m + 1 : SubSeq(q, m, n)[l] = q[m + l - 1]
    <3> HIDE DEF m, n
    <3> QED  BY <2>1, <2>2, SubSeqProperties
  <2> QED  BY <2>1, <2>3, <2>4
<1> QED  BY <1>1, <1>2, <1>3

LEMMA ListedTyped ==
  ASSUME NEW q \in Seq(TeardownNodes), NEW n, Lists(q, n)
  PROVE  n \in TeardownNodes
  BY DEF Lists

\* More taken, nothing disposed of the list but what another scope took.
LEMMA MineKept ==
  ASSUME NEW s, NEW q, NEW taken, NEW disposed, NEW taken2, NEW disposed2, Mine(s, q, taken, disposed),
         taken[s] \subseteq taken2[s], \A o \in TeardownScopes : taken[o] \subseteq taken2[o],
         \A n \in disposed2 : n \in disposed \/ ~Lists(q, n) \/ \E o \in TeardownScopes \ {s} : n \in taken2[o]
  PROVE  Mine(s, q, taken2, disposed2)
  BY DEF Mine

LEMMA CallKept ==
  ASSUME NEW call \in CloseCalls, NEW taken, NEW disposed, NEW taken2, NEW disposed2, CallHeld(call, taken, disposed),
         \A o \in TeardownScopes : taken[o] \subseteq taken2[o],
         \A n \in disposed2 : n \in disposed \/ ~Lists(call.left, n) \/ \E o \in TeardownScopes \ {call.of} : n \in taken2[o]
  PROVE  CallHeld(call, taken2, disposed2)
<1>1. call.of \in TeardownScopes
  BY DEF CloseCalls
<1>2. Mine(call.of, call.left, taken2, disposed2)
  BY <1>1, MineKept DEF CallHeld
<1> QED  BY <1>1, <1>2 DEF CallHeld

\* What the type says of each close under way.
LEMMA CallsTyped ==
  ASSUME TeardownTypes, NEW i \in 1..Len(dCloses)
  PROVE  /\ dCloses[i] \in CloseCalls /\ dCloses[i].of \in TeardownScopes
         /\ dCloses[i].left \in Seq(TeardownNodes) /\ dCloses[i].all \in Seq(TeardownNodes)
         /\ dCloses[i].at \in TeardownNodes \cup {None}
<1>1. dCloses[i] \in CloseCalls
  BY DEF TeardownTypes
<1> QED  BY <1>1 DEF CloseCalls

LEMMA TeardownInit == Scopes!Init => TeardownInv
<1> SUFFICES ASSUME Scopes!Init  PROVE TeardownInv
  OBVIOUS
<1> USE DEF Scopes!Init
<1>1. TeardownTypes
  <2>1. << >> \in Seq(TeardownNodes) /\ << >> \in Seq(CloseCalls)
    OBVIOUS
  <2>2. dOwned \in [TeardownScopes -> Seq(TeardownNodes)]
    BY <2>1
  <2> QED  BY <2>1, <2>2 DEF TeardownTypes
<1>2. \A s \in TeardownScopes : Mine(s, dOwned[s], dTaken, dDisposed)
  BY DEF Mine, NoTwice, Lists
<1>3. Apart(dCloses, dOwned) /\ Accounted /\ CleanedOnce
  BY DEF Apart, Accounted, CleanedOnce, Lists
<1>4. 1..Len(dCloses) = {}
  OBVIOUS
<1> QED  BY <1>1, <1>2, <1>3, <1>4 DEF TeardownInv

\* What is adopted is not disposed and not in any list of this scope.
LEMMA AdoptStep ==
  ASSUME TeardownInv, NEW s \in TeardownScopes, NEW n \in TeardownNodes, Scopes!Adopt(s, n)
  PROVE  TeardownInv'
<1> DEFINE q == dOwned[s]
           new == Append(q, n)
<1>1. /\ dOwned' = [dOwned EXCEPT ![s] = new] /\ dTaken' = [dTaken EXCEPT ![s] = @ \cup {n}]
      /\ UNCHANGED <<dCloses, dDisposed, dCleanups, dSpared>> /\ n \notin dDisposed /\ n \notin dTaken[s]
  BY DEF Scopes!Adopt
<1>2. TeardownTypes /\ q \in Seq(TeardownNodes) /\ Mine(s, q, dTaken, dDisposed)
  BY DEF TeardownInv, TeardownTypes
<1>3. new \in Seq(TeardownNodes) /\ Len(q) \in Nat /\ Len(new) = Len(q) + 1 /\ new[Len(q) + 1] = n
      /\ \A i \in 1..Len(q) : new[i] = q[i]
  BY <1>2
<1> HIDE DEF new
<1>4. \A x : Lists(new, x) <=> Lists(q, x) \/ x = n
  <2>1. ASSUME NEW x, Lists(new, x)  PROVE Lists(q, x) \/ x = n
    <3>1. PICK i \in 1..Len(new) : new[i] = x
      BY <2>1 DEF Lists
    <3>2. i \in 1..Len(q) \/ i = Len(q) + 1
      BY <1>3, <3>1
    <3> QED  BY <1>3, <3>1, <3>2 DEF Lists
  <2>2. ASSUME NEW x, Lists(q, x) \/ x = n  PROVE Lists(new, x)
    <3>1. Len(q) + 1 \in 1..Len(new) /\ \A i \in 1..Len(q) : i \in 1..Len(new)
      BY <1>3
    <3> QED  BY <1>3, <2>2, <3>1 DEF Lists
  <2> QED  BY <2>1, <2>2
<1>5. TeardownTypes'
  <2>1. dOwned' \in [TeardownScopes -> Seq(TeardownNodes)]
    BY <1>1, <1>2, <1>3 DEF TeardownTypes
  <2>2. dTaken' \in [TeardownScopes -> SUBSET TeardownNodes]
    BY <1>1, <1>2 DEF TeardownTypes
  <2> QED  BY <1>1, <1>2, <2>1, <2>2 DEF TeardownTypes
<1>6. /\ dOwned'[s] = new /\ dTaken'[s] = dTaken[s] \cup {n}
      /\ \A o \in TeardownScopes : o # s => dOwned'[o] = dOwned[o] /\ dTaken'[o] = dTaken[o]
      /\ \A o \in TeardownScopes : dTaken[o] \subseteq dTaken'[o]
  BY <1>1, <1>2 DEF TeardownTypes
<1>7. \A x : Lists(q, x) => x # n
  BY <1>1, <1>2 DEF Mine
<1>8. Mine(s, new, dTaken', dDisposed')
  <2>1. NoTwice(new)
    <3> SUFFICES ASSUME NEW i \in 1..Len(new), NEW l \in 1..Len(new), new[i] = new[l]  PROVE i = l
      BY DEF NoTwice
    <3>1. \A x \in 1..Len(q) : q[x] # n
      BY <1>7 DEF Lists
    <3>2. (i \in 1..Len(q) \/ i = Len(q) + 1) /\ (l \in 1..Len(q) \/ l = Len(q) + 1)
      BY <1>3
    <3> QED  BY <1>2, <1>3, <3>1, <3>2 DEF Mine, NoTwice
  <2> QED  BY <1>1, <1>2, <1>4, <1>6, <2>1 DEF Mine
<1>9. \A o \in TeardownScopes : Mine(o, dOwned'[o], dTaken', dDisposed')
  <2> SUFFICES ASSUME NEW o \in TeardownScopes, o # s  PROVE Mine(o, dOwned'[o], dTaken', dDisposed')
    BY <1>6, <1>8
  <2>1. Mine(o, dOwned[o], dTaken, dDisposed)
    BY DEF TeardownInv
  <2>2. Mine(o, dOwned[o], dTaken', dDisposed')
    BY <1>1, <1>6, <2>1, MineKept
  <2> QED  BY <1>6, <2>2
<1>10. \A i \in 1..Len(dCloses') : CallHeld(dCloses'[i], dTaken', dDisposed')
  <2> SUFFICES ASSUME NEW i \in 1..Len(dCloses)  PROVE CallHeld(dCloses[i], dTaken', dDisposed')
    BY <1>1
  <2>1. CallHeld(dCloses[i], dTaken, dDisposed) /\ dCloses[i] \in CloseCalls
    BY <1>2 DEF TeardownInv, TeardownTypes
  <2> QED  BY <1>1, <1>6, <2>1, CallKept
<1>11. Apart(dCloses', dOwned')
  <2>1. ASSUME NEW i \in 1..Len(dCloses), NEW x \in TeardownNodes, Lists(dCloses[i].left, x)
        PROVE  ~Lists(dOwned'[dCloses[i].of], x)
    <3>1. CallHeld(dCloses[i], dTaken, dDisposed) /\ dCloses[i].of \in TeardownScopes
      BY CallsTyped DEF TeardownInv
    <3>2. ~Lists(dOwned[dCloses[i].of], x) /\ x \in dTaken[dCloses[i].of]
      BY <2>1, <3>1 DEF TeardownInv, Apart, CallHeld, Mine
    <3> QED  BY <1>1, <1>4, <1>6, <3>1, <3>2
  <2> QED  BY <1>1, <2>1 DEF TeardownInv, Apart
<1>12. Accounted'
  <2> SUFFICES ASSUME NEW o \in TeardownScopes, NEW x \in dTaken'[o]
               PROVE  \/ x \in dDisposed \/ x \in dSpared \/ Lists(dOwned'[o], x)
                      \/ \E i \in 1..Len(dCloses) : Lists(dCloses[i].left, x)
    BY <1>1 DEF Accounted
  <2>1. x \in dTaken[o] \/ (o = s /\ x = n)
    BY <1>6
  <2> QED  BY <1>4, <1>6, <2>1 DEF TeardownInv, Accounted
<1>13. CleanedOnce'
  BY <1>1 DEF TeardownInv, CleanedOnce
<1> QED  BY <1>5, <1>9, <1>10, <1>11, <1>12, <1>13 DEF TeardownInv

\* What a scope lets go is spared.
LEMMA DisarmStep ==
  ASSUME TeardownInv, NEW s \in TeardownScopes, Scopes!Disarm(s)
  PROVE  TeardownInv'
<1>1. /\ dOwned' = [dOwned EXCEPT ![s] = << >>] /\ dSpared' = dSpared \cup Scopes!ToSet(dOwned[s])
      /\ UNCHANGED <<dCloses, dDisposed, dCleanups, dTaken>>
  BY DEF Scopes!Disarm
<1>2. TeardownTypes /\ dOwned[s] \in Seq(TeardownNodes)
  BY DEF TeardownInv, TeardownTypes
<1>3. \A n : ~Lists(<< >>, n)
  BY DEF Lists
<1>4. \A n : Lists(dOwned[s], n) => n \in dSpared'
  BY <1>1, <1>2 DEF Lists, Scopes!ToSet
<1>5. dOwned'[s] = << >> /\ \A o \in TeardownScopes : o # s => dOwned'[o] = dOwned[o]
  BY <1>1, <1>2 DEF TeardownTypes
<1>6. TeardownTypes'
  BY <1>1, <1>2 DEF TeardownTypes
<1>7. \A o \in TeardownScopes : Mine(o, dOwned'[o], dTaken', dDisposed')
  <2>1. Mine(s, << >>, dTaken, dDisposed)
    BY <1>3 DEF Mine, NoTwice
  <2> QED  BY <1>1, <1>5, <2>1 DEF TeardownInv
<1>8. \A o \in TeardownScopes : \A n : Lists(dOwned'[o], n) => Lists(dOwned[o], n)
  BY <1>3, <1>5
<1>9. Apart(dCloses', dOwned')
  <2>1. \A i \in 1..Len(dCloses) : dCloses[i].of \in TeardownScopes
    BY <1>2, CallsTyped
  <2> QED  BY <1>1, <1>8, <2>1 DEF TeardownInv, Apart
<1>10. Accounted'
  <2> SUFFICES ASSUME NEW o \in TeardownScopes, NEW x \in dTaken[o]
               PROVE  \/ x \in dDisposed \/ x \in dSpared' \/ Lists(dOwned'[o], x)
                      \/ \E i \in 1..Len(dCloses) : Lists(dCloses[i].left, x)
    BY <1>1 DEF Accounted
  <2> QED  BY <1>1, <1>4, <1>5 DEF TeardownInv, Accounted
<1>11. CleanedOnce' /\ \A i \in 1..Len(dCloses') : CallHeld(dCloses'[i], dTaken', dDisposed')
  BY <1>1 DEF TeardownInv, CleanedOnce
<1> QED  BY <1>6, <1>7, <1>9, <1>10, <1>11 DEF TeardownInv

\* The scope's list goes to the close, whole.
LEMMA CloseStep ==
  ASSUME TeardownInv, NEW s \in TeardownScopes, Scopes!Close(s)
  PROVE  TeardownInv'
<1> DEFINE q == dOwned[s]
           call == [of |-> s, left |-> q, all |-> q, at |-> None]
           new == Append(dCloses, call)
<1>1. /\ dCloses' = new /\ dOwned' = [dOwned EXCEPT ![s] = << >>]
      /\ UNCHANGED <<dDisposed, dCleanups, dTaken, dSpared>>
  BY DEF Scopes!Close, Scopes!Taken
<1>2. TeardownTypes /\ q \in Seq(TeardownNodes) /\ Mine(s, q, dTaken, dDisposed)
  BY DEF TeardownInv, TeardownTypes
<1>3. call \in CloseCalls /\ call.of = s /\ call.left = q /\ call.all = q /\ call.at = None
  BY <1>2 DEF CloseCalls
<1> HIDE DEF call
<1>4. new \in Seq(CloseCalls) /\ Len(dCloses) \in Nat /\ Len(new) = Len(dCloses) + 1
      /\ new[Len(dCloses) + 1] = call /\ \A i \in 1..Len(dCloses) : new[i] = dCloses[i]
  BY <1>2, <1>3 DEF TeardownTypes
<1> HIDE DEF new
<1>5. dOwned'[s] = << >> /\ (\A o \in TeardownScopes : o # s => dOwned'[o] = dOwned[o]) /\ \A n : ~Lists(<< >>, n)
  BY <1>1, <1>2 DEF TeardownTypes, Lists
<1>6. TeardownTypes'
  BY <1>1, <1>2, <1>4 DEF TeardownTypes
<1>7. \A o \in TeardownScopes : Mine(o, dOwned'[o], dTaken', dDisposed')
  <2>1. Mine(s, << >>, dTaken, dDisposed)
    BY <1>5 DEF Mine, NoTwice
  <2> QED  BY <1>1, <1>5, <2>1 DEF TeardownInv
<1>8. CallHeld(call, dTaken, dDisposed)
  BY <1>2, <1>3 DEF CallHeld, Mine
<1>9. \A i \in 1..Len(new) : i \in 1..Len(dCloses) \/ (i = Len(dCloses) + 1 /\ new[i] = call)
  BY <1>4
<1>10. \A i \in 1..Len(dCloses') : CallHeld(dCloses'[i], dTaken', dDisposed')
  BY <1>1, <1>4, <1>8, <1>9 DEF TeardownInv
<1>11. \A i \in 1..Len(dCloses) : dCloses[i].of \in TeardownScopes
  BY <1>2, CallsTyped
<1>12. Apart(new, dOwned')
  <2>1. ASSUME NEW i \in 1..Len(new), NEW n \in TeardownNodes, Lists(new[i].left, n)
        PROVE  ~Lists(dOwned'[new[i].of], n)
    BY <1>3, <1>4, <1>5, <1>9, <1>11, <2>1 DEF TeardownInv, Apart
  <2>2. ASSUME NEW i \in 1..Len(dCloses), NEW n \in TeardownNodes, Lists(dCloses[i].left, n), dCloses[i].of = s
        PROVE  ~Lists(q, n)
    BY <2>2 DEF TeardownInv, Apart
  <2>3. ASSUME NEW i \in 1..Len(new), NEW l \in 1..Len(new), NEW n \in TeardownNodes, i # l, new[i].of = new[l].of
        PROVE  ~(Lists(new[i].left, n) /\ Lists(new[l].left, n))
    <3>1. CASE i \in 1..Len(dCloses) /\ l \in 1..Len(dCloses)
      BY <1>4, <2>3, <3>1 DEF TeardownInv, Apart
    <3>2. CASE i \in 1..Len(dCloses) /\ l \notin 1..Len(dCloses)
      BY <1>3, <1>4, <1>9, <2>2, <2>3, <3>2
    <3>3. CASE i \notin 1..Len(dCloses) /\ l \in 1..Len(dCloses)
      BY <1>3, <1>4, <1>9, <2>2, <2>3, <3>3
    <3> QED  BY <1>9, <2>3, <3>1, <3>2, <3>3
  <2> QED  BY <2>1, <2>3 DEF Apart
<1>13. Accounted'
  <2> SUFFICES ASSUME NEW o \in TeardownScopes, NEW x \in dTaken[o]
               PROVE  \/ x \in dDisposed \/ x \in dSpared \/ Lists(dOwned'[o], x)
                      \/ \E i \in 1..Len(new) : Lists(new[i].left, x)
    BY <1>1 DEF Accounted
  <2>1. CASE \E i \in 1..Len(dCloses) : Lists(dCloses[i].left, x)
    BY <1>4, <2>1
  <2>2. CASE Lists(dOwned[o], x)
    <3>1. CASE o = s
      <4>1. Len(dCloses) + 1 \in 1..Len(new) /\ Lists(new[Len(dCloses) + 1].left, x)
        BY <1>3, <1>4, <2>2, <3>1
      <4> QED  BY <4>1
    <3> QED  BY <1>5, <2>2, <3>1
  <2> QED  BY <2>1, <2>2 DEF TeardownInv, Accounted
<1>14. CleanedOnce'
  BY <1>1 DEF TeardownInv, CleanedOnce
<1> QED  BY <1>1, <1>6, <1>7, <1>10, <1>12, <1>13, <1>14 DEF TeardownInv

\* A close under way goes on: what it leaves after the step is part of what it left.
LEMMA GoOnStep ==
  ASSUME TeardownInv, NEW i \in 1..Len(dCloses), NEW call \in CloseCalls, NEW gone \in SUBSET TeardownNodes,
         dCloses' = [dCloses EXCEPT ![i] = call], call.of = dCloses[i].of, call.all = dCloses[i].all,
         UNCHANGED <<dOwned, dTaken, dSpared>>, dDisposed' = dDisposed \cup gone,
         \A n : Lists(call.left, n) => Lists(dCloses[i].left, n),
         \A n : Lists(dCloses[i].left, n) => Lists(call.left, n) \/ n \in gone,
         \A n \in gone : Lists(dCloses[i].left, n) /\ ~Lists(call.left, n),
         CallHeld(call, dTaken, dDisposed), dCleanups' \in [TeardownNodes -> Nat], CleanedOnce'
  PROVE  TeardownInv'
<1>1. TeardownTypes /\ dCloses \in Seq(CloseCalls) /\ Apart(dCloses, dOwned)
  BY DEF TeardownInv, TeardownTypes
<1>2. /\ dCloses' \in Seq(CloseCalls) /\ Len(dCloses') = Len(dCloses) /\ dCloses'[i] = call
      /\ \A l \in 1..Len(dCloses) : l # i => dCloses'[l] = dCloses[l]
  BY <1>1
<1>3. TeardownTypes'
  BY <1>1, <1>2 DEF TeardownTypes
<1>4. \A l \in 1..Len(dCloses) : dCloses'[l].of = dCloses[l].of /\ \A n : Lists(dCloses'[l].left, n) => Lists(dCloses[l].left, n)
  BY <1>2
<1>5. Apart(dCloses', dOwned')
  BY <1>1, <1>2, <1>4 DEF Apart
<1>6. dCloses[i] \in CloseCalls /\ dCloses[i].of \in TeardownScopes /\ CallHeld(dCloses[i], dTaken, dDisposed)
  BY <1>1, CallsTyped DEF TeardownInv
<1>7. \A n \in gone : n \in dTaken[dCloses[i].of]
  BY <1>6 DEF CallHeld, Mine
<1>8. ASSUME NEW s \in TeardownScopes  PROVE Mine(s, dOwned'[s], dTaken', dDisposed')
  <2>1. Mine(s, dOwned[s], dTaken, dDisposed)
    BY DEF TeardownInv
  <2>2. \A n \in gone : ~Lists(dOwned[s], n) \/ \E o \in TeardownScopes \ {s} : n \in dTaken[o]
    <3>1. CASE s = dCloses[i].of
      BY <1>1, <3>1 DEF Apart
    <3>2. CASE s # dCloses[i].of
      BY <1>6, <1>7, <3>2
    <3> QED  BY <3>1, <3>2
  <2>3. Mine(s, dOwned[s], dTaken, dDisposed')
    BY <2>1, <2>2, MineKept
  <2> QED  BY <2>3
<1>9. ASSUME NEW l \in 1..Len(dCloses)  PROVE CallHeld(dCloses'[l], dTaken', dDisposed')
  <2>1. CASE l = i
    <3>1. CallHeld(call, dTaken, dDisposed')
      BY CallKept
    <3> QED  BY <1>2, <2>1, <3>1
  <2>2. CASE l # i
    <3>1. CallHeld(dCloses[l], dTaken, dDisposed) /\ dCloses[l] \in CloseCalls /\ dCloses[l].of \in TeardownScopes
      BY <1>1, CallsTyped DEF TeardownInv
    <3>2. \A n \in gone : ~Lists(dCloses[l].left, n) \/ \E o \in TeardownScopes \ {dCloses[l].of} : n \in dTaken[o]
      <4>1. CASE dCloses[l].of = dCloses[i].of
        BY <1>1, <2>2, <4>1 DEF Apart
      <4>2. CASE dCloses[l].of # dCloses[i].of
        BY <1>6, <1>7, <4>2
      <4> QED  BY <4>1, <4>2
    <3>3. CallHeld(dCloses[l], dTaken, dDisposed')
      BY <3>1, <3>2, CallKept
    <3> QED  BY <1>2, <2>2, <3>3
  <2> QED  BY <2>1, <2>2
<1>10. Accounted'
  <2> SUFFICES ASSUME NEW s \in TeardownScopes, NEW x \in dTaken[s]
               PROVE  \/ x \in dDisposed' \/ x \in dSpared \/ Lists(dOwned[s], x)
                      \/ \E l \in 1..Len(dCloses') : Lists(dCloses'[l].left, x)
    BY DEF Accounted
  <2>1. ASSUME NEW l \in 1..Len(dCloses), Lists(dCloses[l].left, x), x \notin gone
        PROVE  l \in 1..Len(dCloses') /\ Lists(dCloses'[l].left, x)
    BY <1>2, <2>1
  <2> QED  BY <2>1 DEF TeardownInv, Accounted
<1> QED  BY <1>2, <1>3, <1>5, <1>8, <1>9, <1>10 DEF TeardownInv

\* A close ends, and leaves behind what is spared.
LEMMA EndStep ==
  ASSUME TeardownInv, NEW i \in 1..Len(dCloses), dCloses' = Scopes!RemoveAt(dCloses, i),
         UNCHANGED <<dOwned, dTaken, dDisposed, dCleanups>>, dSpared \subseteq dSpared',
         \A n : Lists(dCloses[i].left, n) => n \in dSpared'
  PROVE  TeardownInv'
<1> DEFINE was(l) == IF l < i THEN l ELSE l + 1
<1>1. TeardownTypes /\ dCloses \in Seq(CloseCalls) /\ Apart(dCloses, dOwned)
  BY DEF TeardownInv, TeardownTypes
<1>2. /\ dCloses' \in Seq(CloseCalls) /\ Len(dCloses') = Len(dCloses) - 1 /\ Len(dCloses) \in Nat
      /\ \A l \in 1..Len(dCloses') : was(l) \in 1..Len(dCloses) /\ dCloses'[l] = dCloses[was(l)]
      /\ \A l \in 1..Len(dCloses') : \A k \in 1..Len(dCloses') : was(l) = was(k) => l = k
      /\ \A k \in 1..Len(dCloses) : k # i => \E l \in 1..Len(dCloses') : dCloses'[l] = dCloses[k]
  <2>1. /\ dCloses' \in Seq(CloseCalls) /\ Len(dCloses') = Len(dCloses) - 1 /\ Len(dCloses) \in Nat
        /\ \A l \in 1..(Len(dCloses) - 1) : dCloses'[l] = IF l < i THEN dCloses[l] ELSE dCloses[l + 1]
    BY <1>1, WithoutOne
  <2>2. \A l \in 1..Len(dCloses') : was(l) \in 1..Len(dCloses) /\ dCloses'[l] = dCloses[was(l)]
    BY <2>1
  <2>3. \A l \in 1..Len(dCloses') : \A k \in 1..Len(dCloses') : was(l) = was(k) => l = k
    BY <2>1
  <2>4. ASSUME NEW k \in 1..Len(dCloses), k # i  PROVE \E l \in 1..Len(dCloses') : dCloses'[l] = dCloses[k]
    <3>1. CASE k < i
      BY <2>1, <3>1
    <3>2. CASE k > i
      <4>1. k - 1 \in 1..(Len(dCloses) - 1) /\ ~(k - 1 < i) /\ k - 1 + 1 = k
        BY <2>1, <3>2
      <4> QED  BY <2>1, <4>1
    <3> QED  BY <2>1, <2>4, <3>1, <3>2
  <2> QED  BY <2>1, <2>2, <2>3, <2>4
<1> HIDE DEF was
<1>3. TeardownTypes'
  BY <1>1, <1>2 DEF TeardownTypes
<1>4. Apart(dCloses', dOwned')
  <2>1. ASSUME NEW l \in 1..Len(dCloses'), NEW n \in TeardownNodes, Lists(dCloses'[l].left, n)
        PROVE  ~Lists(dOwned[dCloses'[l].of], n)
    BY <1>1, <1>2, <2>1 DEF Apart
  <2>2. ASSUME NEW l \in 1..Len(dCloses'), NEW k \in 1..Len(dCloses'), NEW n \in TeardownNodes,
               l # k, dCloses'[l].of = dCloses'[k].of
        PROVE  ~(Lists(dCloses'[l].left, n) /\ Lists(dCloses'[k].left, n))
    <3>1. was(l) # was(k) /\ was(l) \in 1..Len(dCloses) /\ was(k) \in 1..Len(dCloses)
          /\ dCloses'[l] = dCloses[was(l)] /\ dCloses'[k] = dCloses[was(k)]
      BY <1>2, <2>2
    <3> QED  BY <1>1, <2>2, <3>1 DEF Apart
  <2> QED  BY <2>1, <2>2 DEF Apart
<1>5. \A l \in 1..Len(dCloses') : CallHeld(dCloses'[l], dTaken', dDisposed')
  BY <1>2 DEF TeardownInv
<1>6. Accounted'
  <2> SUFFICES ASSUME NEW s \in TeardownScopes, NEW x \in dTaken[s]
               PROVE  \/ x \in dDisposed \/ x \in dSpared' \/ Lists(dOwned[s], x)
                      \/ \E l \in 1..Len(dCloses') : Lists(dCloses'[l].left, x)
    BY DEF Accounted
  <2>1. ASSUME NEW k \in 1..Len(dCloses), Lists(dCloses[k].left, x), x \notin dSpared'
        PROVE  \E l \in 1..Len(dCloses') : Lists(dCloses'[l].left, x)
    <3>1. k # i
      BY <2>1
    <3> QED  BY <1>2, <2>1, <3>1
  <2> QED  BY <2>1 DEF TeardownInv, Accounted
<1>7. CleanedOnce' /\ \A s \in TeardownScopes : Mine(s, dOwned'[s], dTaken', dDisposed')
  BY DEF TeardownInv, CleanedOnce
<1> QED  BY <1>3, <1>4, <1>5, <1>6, <1>7 DEF TeardownInv

LEMMA DisposeStep ==
  ASSUME TeardownInv, NEW i \in 1..Len(dCloses), Scopes!DisposeNext(i)
  PROVE  TeardownInv'
<1> DEFINE old == dCloses[i]
           n == Scopes!Last(old.left)
           at == IF n \in dEffects \ dDisposed THEN n ELSE None
           call == [old EXCEPT !.left = Scopes!Front(@), !.at = at]
<1>1. TeardownTypes /\ CallHeld(old, dTaken, dDisposed) /\ CleanedOnce
  BY DEF TeardownInv
<1>2. /\ old \in CloseCalls /\ old.left \in Seq(TeardownNodes) /\ old.all \in Seq(TeardownNodes)
      /\ old.left # << >> /\ dDisposed' = dDisposed \cup {n} /\ UNCHANGED <<dOwned, dTaken, dSpared>>
      /\ dCleanups' = [dCleanups EXCEPT ![n] = IF n \in dEffects \ dDisposed THEN @ + 1 ELSE @]
  BY <1>1, CallsTyped DEF Scopes!DisposeNext
<1>3. dCloses' = [dCloses EXCEPT ![i] = call]
  BY DEF Scopes!DisposeNext
<1> DEFINE rest == Scopes!Front(old.left)
<1>4. /\ rest \in Seq(TeardownNodes) /\ Len(rest) = Len(old.left) - 1 /\ Len(old.left) \in Nat /\ Len(old.left) >= 1
      /\ \A l \in 1..(Len(old.left) - 1) : rest[l] = old.left[l]
      /\ n = old.left[Len(old.left)]
  BY <1>2, WithoutLast
<1>5. n \in TeardownNodes /\ Lists(old.left, n)
  BY <1>2, <1>4 DEF Lists
<1> HIDE DEF n, rest
<1>6. call \in CloseCalls /\ call.of = old.of /\ call.left = rest /\ call.all = old.all /\ call.at = at
  BY <1>2, <1>4, <1>5 DEF CloseCalls, rest
<1> HIDE DEF call
<1>7. NoTwice(old.left) /\ Len(old.left) <= Len(old.all) /\ Len(old.all) \in Nat
  BY <1>1, <1>2 DEF CallHeld, Mine
<1>8. ASSUME NEW x  PROVE Lists(rest, x) <=> Lists(old.left, x) /\ x # n
  <2>1. ASSUME Lists(rest, x)  PROVE Lists(old.left, x) /\ x # n
    <3>1. PICK l \in 1..Len(rest) : rest[l] = x
      BY <2>1 DEF Lists
    <3>2. l \in 1..Len(old.left) /\ old.left[l] = x /\ l # Len(old.left) /\ Len(old.left) \in 1..Len(old.left)
      BY <1>4, <3>1
    <3> QED  BY <1>4, <1>7, <3>2 DEF Lists, NoTwice
  <2>2. ASSUME Lists(old.left, x), x # n  PROVE Lists(rest, x)
    <3>1. PICK l \in 1..Len(old.left) : old.left[l] = x
      BY <2>2 DEF Lists
    <3>2. l \in 1..Len(rest) /\ rest[l] = x
      BY <1>4, <2>2, <3>1
    <3> QED  BY <3>2 DEF Lists
  <2> QED  BY <2>1, <2>2
<1>9. CallHeld(call, dTaken, dDisposed)
  <2>1. Mine(call.of, call.left, dTaken, dDisposed)
    <3>1. NoTwice(rest)
      <4> SUFFICES ASSUME NEW k \in 1..Len(rest), NEW l \in 1..Len(rest), rest[k] = rest[l]  PROVE k = l
        BY DEF NoTwice
      <4>1. k \in 1..Len(old.left) /\ l \in 1..Len(old.left) /\ old.left[k] = rest[k] /\ old.left[l] = rest[l]
        BY <1>4
      <4> QED  BY <1>7, <4>1 DEF NoTwice
    <3> QED  BY <1>1, <1>6, <1>8, <3>1 DEF CallHeld, Mine
  <2>2. Len(rest) < Len(old.all) /\ \A l \in 1..Len(rest) : rest[l] = old.all[l]
    <3>1. Len(rest) < Len(old.all)
      BY <1>4, <1>7
    <3>2. ASSUME NEW l \in 1..Len(rest)  PROVE rest[l] = old.all[l]
      <4>1. l \in 1..(Len(old.left) - 1) /\ l \in 1..Len(old.left)
        BY <1>4
      <4>2. old.left[l] = old.all[l]
        BY <1>1, <4>1 DEF CallHeld
      <4> QED  BY <1>4, <4>1, <4>2
    <3> QED  BY <3>1, <3>2
  <2>3. n = old.all[Len(rest) + 1]
    <3>1. Len(rest) + 1 = Len(old.left) /\ Len(old.left) \in 1..Len(old.left)
      BY <1>4
    <3> QED  BY <1>1, <1>4, <3>1 DEF CallHeld
  <2>4. Len(call.left) <= Len(call.all)
    BY <1>4, <1>6, <1>7
  <2> QED  BY <1>1, <1>6, <2>1, <2>2, <2>3, <2>4 DEF CallHeld
<1>10. dCleanups' \in [TeardownNodes -> Nat] /\ CleanedOnce'
  BY <1>1, <1>2, <1>5 DEF TeardownTypes, CleanedOnce
<1>11. {n} \in SUBSET TeardownNodes
  BY <1>5
<1>12. /\ \A x : Lists(call.left, x) => Lists(old.left, x)
       /\ \A x : Lists(old.left, x) => Lists(call.left, x) \/ x \in {n}
       /\ \A x \in {n} : Lists(old.left, x) /\ ~Lists(call.left, x)
  BY <1>5, <1>6, <1>8
<1>13. call.of = old.of /\ call.all = old.all /\ call \in CloseCalls
  BY <1>6
<1>14. UNCHANGED <<dOwned, dTaken, dSpared>> /\ dDisposed' = dDisposed \cup {n}
  BY <1>2
<1> QED  BY <1>3, <1>9, <1>10, <1>11, <1>12, <1>13, <1>14, GoOnStep

LEMMA ReturnStep ==
  ASSUME TeardownInv, NEW i \in 1..Len(dCloses), Scopes!CleanupReturns(i)
  PROVE  TeardownInv'
<1> DEFINE old == dCloses[i]
           call == [old EXCEPT !.at = None]
<1>1. TeardownTypes /\ CallHeld(old, dTaken, dDisposed) /\ CleanedOnce /\ old \in CloseCalls
  BY CallsTyped DEF TeardownInv
<1>2. dCloses' = [dCloses EXCEPT ![i] = call] /\ UNCHANGED <<dOwned, dTaken, dSpared, dDisposed, dCleanups>>
  BY DEF Scopes!CleanupReturns
<1>3. call \in CloseCalls /\ call.of = old.of /\ call.left = old.left /\ call.all = old.all /\ call.at = None
  BY <1>1 DEF CloseCalls
<1> HIDE DEF call
<1>4. CallHeld(call, dTaken, dDisposed)
  BY <1>1, <1>3 DEF CallHeld
<1>5. dCleanups' \in [TeardownNodes -> Nat] /\ CleanedOnce' /\ dDisposed' = dDisposed \cup {}
  BY <1>1, <1>2 DEF TeardownTypes, CleanedOnce
<1>6. {} \in SUBSET TeardownNodes
  OBVIOUS
<1> QED  BY <1>2, <1>3, <1>4, <1>5, <1>6, GoOnStep

LEMMA TeardownStep == TeardownInv /\ (Scopes!Next \/ UNCHANGED scopeVars) => TeardownInv'
<1> SUFFICES ASSUME TeardownInv, Scopes!Next \/ UNCHANGED scopeVars  PROVE TeardownInv'
  OBVIOUS
<1>1. CASE UNCHANGED scopeVars
  BY <1>1 DEF scopeVars, TeardownInv, TeardownTypes, CleanedOnce, Accounted
<1>2. Scopes!Awake \subseteq 1..Len(dCloses)
  BY DEF Scopes!Awake, TeardownInv, TeardownTypes
<1>3. ASSUME NEW i \in 1..Len(dCloses), Scopes!CleanupRaises(i)  PROVE TeardownInv'
  <2>1. dCloses' = Scopes!RemoveAt(dCloses, i) /\ UNCHANGED <<dOwned, dTaken, dDisposed, dCleanups>>
        /\ dSpared' = dSpared \cup Scopes!ToSet(dCloses[i].left)
    BY <1>3 DEF Scopes!CleanupRaises
  <2>2. dCloses[i].left \in Seq(TeardownNodes)
    BY CallsTyped DEF TeardownInv
  <2>3. \A n : Lists(dCloses[i].left, n) => n \in dSpared'
    BY <2>1, <2>2 DEF Lists, Scopes!ToSet
  <2> QED  BY <2>1, <2>3, EndStep
<1>4. ASSUME NEW i \in 1..Len(dCloses), Scopes!CloseReturns(i)  PROVE TeardownInv'
  <2>1. \A n : ~Lists(dCloses[i].left, n)
    BY <1>4 DEF Scopes!CloseReturns, Lists
  <2> QED  BY <1>4, <2>1, EndStep DEF Scopes!CloseReturns
<1>5. CASE Scopes!Next
  BY <1>2, <1>3, <1>4, <1>5, AdoptStep, DisarmStep, CloseStep, DisposeStep, ReturnStep DEF Scopes!Next
<1> QED  BY <1>1, <1>5

\* In a list without repetition a node has one place.
LEMMA PlaceIs ==
  ASSUME NEW q \in Seq(TeardownNodes), NoTwice(q), NEW i \in 1..Len(q)
  PROVE  Scopes!Place(q, q[i]) = i
<1>1. DOMAIN q = 1..Len(q)
  OBVIOUS
<1>2. Scopes!Place(q, q[i]) \in 1..Len(q) /\ q[Scopes!Place(q, q[i])] = q[i]
  BY <1>1 DEF Scopes!Place
<1> QED  BY <1>2 DEF NoTwice

LEMMA TeardownHeld == TeardownInv => Scopes!TornDownInReverse
<1> SUFFICES ASSUME TeardownInv  PROVE Scopes!TornDownInReverse
  OBVIOUS
<1>1. TeardownTypes /\ DOMAIN dCloses = 1..Len(dCloses)
  BY DEF TeardownInv, TeardownTypes
<1>2. ASSUME NEW i \in 1..Len(dCloses), dCloses[i].at # None, NEW n \in Scopes!ToSet(dCloses[i].all)
      PROVE  \/ Scopes!Place(dCloses[i].all, n) >= Scopes!Place(dCloses[i].all, dCloses[i].at)
             \/ n \notin dDisposed \/ \E o \in TeardownScopes \ {dCloses[i].of} : n \in dTaken[o]
  <2> DEFINE call == dCloses[i]
  <2>1. call.left \in Seq(TeardownNodes) /\ call.all \in Seq(TeardownNodes) /\ CallHeld(call, dTaken, dDisposed)
    BY <1>1, CallsTyped DEF TeardownInv
  <2>2. PICK l \in 1..Len(call.all) : n = call.all[l]
    BY <2>1 DEF Scopes!ToSet
  <2>3. Len(call.left) \in Nat /\ Len(call.left) + 1 \in 1..Len(call.all) /\ call.at = call.all[Len(call.left) + 1]
    BY <1>2, <2>1 DEF CallHeld
  <2>4. Scopes!Place(call.all, n) = l /\ Scopes!Place(call.all, call.at) = Len(call.left) + 1
    BY <2>1, <2>2, <2>3, PlaceIs DEF CallHeld
  <2>5. CASE l <= Len(call.left)
    <3>1. l \in 1..Len(call.left) /\ call.left[l] = n
      BY <2>1, <2>2, <2>3, <2>5 DEF CallHeld
    <3>2. Lists(call.left, n)
      BY <3>1 DEF Lists
    <3> QED  BY <2>1, <3>2 DEF CallHeld, Mine
  <2>6. CASE ~(l <= Len(call.left))
    <3>1. l >= Len(call.left) + 1
      BY <2>2, <2>3, <2>6
    <3> QED  BY <2>4, <3>1
  <2> QED  BY <2>5, <2>6
<1>3. ASSUME NEW s \in TeardownScopes, NEW n \in dTaken[s]
      PROVE  n \in dDisposed \cup dSpared \cup Scopes!ToSet(dOwned[s])
             \/ \E i \in DOMAIN dCloses : n \in Scopes!ToSet(dCloses[i].left)
  <2>1. \A q \in Seq(TeardownNodes) : Lists(q, n) => n \in Scopes!ToSet(q)
    BY DEF Lists, Scopes!ToSet
  <2>2. dOwned[s] \in Seq(TeardownNodes) /\ \A i \in 1..Len(dCloses) : dCloses[i].left \in Seq(TeardownNodes)
    BY <1>1, CallsTyped DEF TeardownTypes
  <2> QED  BY <1>1, <2>1, <2>2 DEF TeardownInv, Accounted
<1>4. \A n \in TeardownNodes : dCleanups[n] <= 1
  BY DEF TeardownInv, CleanedOnce
<1> QED  BY <1>1, <1>2, <1>3, <1>4 DEF Scopes!TornDownInReverse

LEMMA TeardownStays == [Next]_vars => Scopes!Next \/ UNCHANGED scopeVars
  BY DEF Next, vars, Stays

\* For any nodes, effects and scopes, and whatever a cleanup adopts, disarms or
\* closes while it runs: when an effect's cleanup is called, what its scope took
\* before it is still there unless another scope disposed of it; each cleanup is
\* called once; and nothing a scope took is left behind (TeardownScope.close,
\* AsyncTeardownScope.aclose).
THEOREM TeardownStaysOrdered == Spec => []TornDownInReverse
<1>1. Init => TeardownInv
  BY TeardownInit DEF Init
<1>2. TeardownInv /\ [Next]_vars => TeardownInv'
  BY TeardownStays, TeardownStep
<1>3. TeardownInv => TornDownInReverse
  BY TeardownHeld DEF TornDownInReverse
<1> QED  BY <1>1, <1>2, <1>3, PTL DEF Spec

(***************************************************************************)
(* The members.  A suspicion starts later than the last heartbeat only     *)
(* because a peer is late at a positive distance from it: the mean of its  *)
(* intervals, a sum over its window, is never negative.                    *)
(***************************************************************************)
Silences == [last : Nat, window : Seq(Nat)]
MemberStates == {"Alive", "Suspect", "Dead", "Left"}
MemberRecords == [state : MemberStates, detector : Silences, since : Nat]

\* A record at a time: who is suspected, or dead, was silent before that.
RecordHeld(r, t) ==
  /\ r \in MemberRecords /\ r.detector.last <= t
  /\ r.state \in {"Suspect", "Dead"} => r.since > r.detector.last
  /\ r.state = "Dead" => t - r.detector.last > MemberTimeout

MemberInv ==
  /\ mNow \in Nat /\ DOMAIN mPeers \subseteq MemberPeers
  /\ \A p \in DOMAIN mPeers : RecordHeld(mPeers[p], mNow)
  /\ mTold = [p \in MemberPeers |-> IF p \in DOMAIN mPeers THEN mPeers[p].state ELSE None]

\* The sums of the first elements, up to n of them.
Summing(f, s, n) == f = [k \in 0..n |-> IF k = 0 THEN 0 ELSE f[k - 1] + s[k]]

LEMMA SumsExist ==
  ASSUME NEW s \in Seq(Nat), NEW n \in 0..Len(s)
  PROVE  \E f \in [0..n -> Nat] : Summing(f, s, n)
<1> DEFINE Missing == {k \in 0..Len(s) : ~\E f \in [0..k -> Nat] : Summing(f, s, k)}
<1>1. SUFFICES ASSUME Missing # {} PROVE FALSE
  OBVIOUS
<1>2. PICK k \in Missing : \A j \in Missing : k <= j
  <2> Missing \subseteq Nat
    OBVIOUS
  <2> HIDE DEF Missing
  <2> QED  BY <1>1, SmallestNat
<1>3. k \in 0..Len(s) /\ k \in Nat /\ Len(s) \in Nat
  BY LenProperties
<1>4. CASE k = 0
  <2> DEFINE f == [j \in 0..0 |-> 0]
  <2>1. f \in [0..k -> Nat] /\ Summing(f, s, k)
    BY <1>4 DEF Summing
  <2> HIDE DEF f
  <2> QED  BY <1>2, <2>1
<1>5. CASE k # 0
  <2>1. k - 1 \in 0..Len(s) /\ ~(k <= k - 1)
    BY <1>3, <1>5
  <2> HIDE DEF Missing
  <2>2. k - 1 \notin Missing
    BY <1>2, <2>1
  <2> USE DEF Missing
  <2>3. PICK g \in [0..k - 1 -> Nat] : Summing(g, s, k - 1)
    BY <2>1, <2>2
  <2>4. s[k] \in Nat
    BY <1>3, <1>5, ElementOfSeq
  <2> DEFINE f == [j \in 0..k |-> IF j = k THEN g[k - 1] + s[k] ELSE g[j]]
  <2>5. f \in [0..k -> Nat]
    BY <1>3, <1>5, <2>4
  <2>6. ASSUME NEW j \in 0..k PROVE f[j] = IF j = 0 THEN 0 ELSE f[j - 1] + s[j]
    <3>1. CASE j = k
      BY <1>3, <1>5, <3>1
    <3>2. CASE j # k
      <4>1. g[j] = IF j = 0 THEN 0 ELSE g[j - 1] + s[j]
        BY <1>3, <2>3, <3>2 DEF Summing
      <4> QED  BY <1>3, <3>2, <4>1
    <3> QED  BY <3>1, <3>2
  <2>7. f = [j \in 0..k |-> f[j]]
    OBVIOUS
  <2> HIDE DEF f
  <2>8. Summing(f, s, k)
    BY <2>6, <2>7 DEF Summing
  <2> QED  BY <1>2, <2>5, <2>8
<1> QED  BY <1>4, <1>5

\* A sum of natural numbers is one.
LEMMA SumIsNat ==
  ASSUME NEW s \in Seq(Nat)
  PROVE  Members!Sum(s) \in Nat
<1> DEFINE n == Len(s)
           f == CHOOSE g : g = [k \in 0..n |-> IF k = 0 THEN 0 ELSE g[k - 1] + s[k]]
<1>1. n \in Nat
  BY LenProperties
<1>2. Members!Sum(s) = f[n]
  BY DEF Members!Sum
<1>3. f = [k \in 0..n |-> IF k = 0 THEN 0 ELSE f[k - 1] + s[k]]
  <2>1. \E g : g = [k \in 0..n |-> IF k = 0 THEN 0 ELSE g[k - 1] + s[k]]
    BY <1>1, SumsExist DEF Summing
  <2> QED  BY <2>1
<1> HIDE DEF f
<1> DEFINE Off == {k \in 0..n : f[k] \notin Nat}
<1>4. Off = {}
  <2> SUFFICES ASSUME Off # {} PROVE FALSE
    OBVIOUS
  <2>1. PICK k \in Off : \A j \in Off : k <= j
    <3> Off \subseteq Nat
      OBVIOUS
    <3> HIDE DEF Off
    <3> QED  BY SmallestNat
  <2>2. k \in 0..n /\ f[k] \notin Nat /\ f[k] = IF k = 0 THEN 0 ELSE f[k - 1] + s[k]
    BY <1>3
  <2>3. k # 0 /\ k \in 1..n
    BY <1>1, <2>2
  <2>4. k - 1 \in 0..n /\ f[k - 1] \in Nat
    BY <1>1, <2>1, <2>3
  <2>5. s[k] \in Nat
    BY <2>3, ElementOfSeq
  <2> QED  BY <2>2, <2>3, <2>4, <2>5
<1>5. f[n] \in Nat
  BY <1>1, <1>4
<1> QED  BY <1>2, <1>5

LEMMA MemberInit == Members!Init => MemberInv
  BY DEF Members!Init, MemberInv

\* One peer's record is put in place, and the observer is told its state.
LEMMA MemberPut ==
  ASSUME MemberInv, NEW p \in MemberPeers, NEW r, RecordHeld(r, mNow), Members!Put(p, r), mNow' = mNow,
         \/ mTold' = [mTold EXCEPT ![p] = r.state]
         \/ mTold' = mTold /\ p \in DOMAIN mPeers /\ mPeers[p].state = r.state
  PROVE  MemberInv'
<1>1. mPeers' = [q \in DOMAIN mPeers \cup {p} |-> IF q = p THEN r ELSE mPeers[q]]
  BY DEF Members!Put
<1>2. mNow' \in Nat /\ DOMAIN mPeers' \subseteq MemberPeers /\ \A q \in DOMAIN mPeers' : RecordHeld(mPeers'[q], mNow')
  BY <1>1 DEF MemberInv
<1>3. mTold' = [q \in MemberPeers |-> IF q \in DOMAIN mPeers' THEN mPeers'[q].state ELSE None]
  BY <1>1 DEF MemberInv
<1> QED  BY <1>2, <1>3 DEF MemberInv

\* A heartbeat is heard now, and leaves intervals that are not negative.
LEMMA HeardNow ==
  ASSUME mNow \in Nat, NEW dt \in Silences, dt.last <= mNow
  PROVE  Members!Heard(dt) \in Silences /\ Members!Heard(dt).last = mNow
<1> DEFINE whole == Append(dt.window, mNow - dt.last)
           from == IF Len(whole) > MemberSamples THEN Len(whole) - MemberSamples + 1 ELSE 1
<1>1. dt.window \in Seq(Nat) /\ mNow - dt.last \in Nat
  BY DEF Silences
<1>2. whole \in Seq(Nat) /\ Len(whole) \in Nat
  BY <1>1, AppendProperties, LenProperties
<1>3. Members!Heard(dt) = [last |-> mNow, window |-> SubSeq(whole, from, Len(whole))]
  BY DEF Members!Heard, Members!Newest
<1> HIDE DEF whole
<1>4. from \in 1..Len(whole) + 1 /\ from \in Int
  BY <1>2, MemberAssumption DEF MemberAssumption
<1>5. \A i \in from..Len(whole) : whole[i] \in Nat
  BY <1>2, <1>4, ElementOfSeq
<1> HIDE DEF from
<1>6. SubSeq(whole, from, Len(whole)) \in Seq(Nat)
  BY <1>2, <1>4, <1>5, SubSeqProperties
<1> QED  BY <1>3, <1>6 DEF Silences

\* A peer is suspected only after its last heartbeat.
LEMMA SuspectedLater ==
  ASSUME mNow \in Nat, NEW r, RecordHeld(r, mNow), Members!Suspects(r)
  PROVE  mNow > r.detector.last /\ r.state = "Alive"
<1> DEFINE dt == r.detector
           n == Len(dt.window)
           total == Members!Sum(dt.window)
<1>1. dt.window \in Seq(Nat) /\ dt.last \in Nat /\ dt.last <= mNow
  BY DEF RecordHeld, MemberRecords, Silences
<1>2. n \in Nat /\ total \in Nat
  BY <1>1, SumIsNat, LenProperties
<1>3. n > 0 /\ (mNow - dt.last) * n - total > 0 /\ r.state = "Alive"
  BY DEF Members!Suspects, Members!PhiCrossed
<1> HIDE DEF dt, n, total
<1>4. CASE mNow = dt.last
  <2>1. (mNow - dt.last) * n = 0
    BY <1>1, <1>2, <1>4
  <2> QED  BY <1>2, <1>3, <2>1
<1>5. CASE mNow # dt.last
  BY <1>1, <1>3, <1>5 DEF dt
<1> QED  BY <1>4, <1>5

LEMMA MemberTick == MemberInv /\ Members!Tick => MemberInv'
<1> SUFFICES ASSUME MemberInv, Members!Tick PROVE MemberInv'
  OBVIOUS
<1>1. /\ mPeers' = [p \in DOMAIN mPeers |-> Members!Escalated(mPeers[p])] /\ mNow' = mNow
      /\ mTold' = [p \in MemberPeers |->
           IF p \in DOMAIN mPeers /\ (Members!Suspects(mPeers[p]) \/ Members!Expires(mPeers[p]))
           THEN Members!Escalated(mPeers[p]).state ELSE mTold[p]]
  BY DEF Members!Tick, Members!Known
<1>2. ASSUME NEW p \in DOMAIN mPeers PROVE RecordHeld(Members!Escalated(mPeers[p]), mNow)
  <2> DEFINE r == mPeers[p]
             e == Members!Escalated(r)
  <2>1. RecordHeld(r, mNow) /\ mNow \in Nat
    BY DEF MemberInv
  <2>2. CASE Members!Suspects(r)
    <3>1. e = [r EXCEPT !.state = "Suspect", !.since = mNow]
      BY <2>2 DEF Members!Escalated
    <3>2. mNow > r.detector.last
      BY <2>1, <2>2, SuspectedLater
    <3> HIDE DEF e, r
    <3> QED  BY <2>1, <3>1, <3>2 DEF e, r, RecordHeld, MemberRecords, MemberStates
  <2>3. CASE ~Members!Suspects(r) /\ Members!Expires(r)
    <3>1. e = [r EXCEPT !.state = "Dead"] /\ r.state = "Suspect" /\ mNow - r.since >= MemberTimeout
      BY <2>3 DEF Members!Escalated, Members!Expires
    <3> HIDE DEF e, r
    <3> QED  BY <2>1, <3>1, MemberAssumption DEF e, r, RecordHeld, MemberRecords, MemberStates, Silences, MemberAssumption
  <2>4. CASE ~Members!Suspects(r) /\ ~Members!Expires(r)
    BY <2>1, <2>4 DEF Members!Escalated
  <2> QED  BY <2>2, <2>3, <2>4
<1>3. ASSUME NEW p \in DOMAIN mPeers, ~(Members!Suspects(mPeers[p]) \/ Members!Expires(mPeers[p]))
      PROVE  Members!Escalated(mPeers[p]) = mPeers[p]
  BY <1>3 DEF Members!Escalated
<1>4. mTold' = [p \in MemberPeers |-> IF p \in DOMAIN mPeers' THEN mPeers'[p].state ELSE None]
  BY <1>1, <1>3 DEF MemberInv
<1> QED  BY <1>1, <1>2, <1>4 DEF MemberInv

LEMMA MemberStep == MemberInv /\ (Members!Next \/ UNCHANGED memberVars) => MemberInv'
<1> SUFFICES ASSUME MemberInv, Members!Next \/ UNCHANGED memberVars PROVE MemberInv'
  OBVIOUS
<1>1. ASSUME NEW p \in DOMAIN mPeers
      PROVE  /\ RecordHeld(mPeers[p], mNow) /\ mPeers[p] \in MemberRecords /\ mPeers[p].detector \in Silences
             /\ mPeers[p].detector.last <= mNow /\ mNow \in Nat
  BY DEF MemberInv, RecordHeld, MemberRecords
<1>2. RecordHeld(Members!Joined, mNow) /\ Members!Joined.state = "Alive"
  <2>1. << >> \in Seq(Nat) /\ mNow \in Nat
    BY EmptySeq DEF MemberInv
  <2> QED  BY <2>1 DEF Members!Joined, Members!NewDetector, RecordHeld, MemberRecords, MemberStates, Silences
<1>3. ASSUME NEW p \in MemberPeers, Members!Join(p) PROVE MemberInv'
  BY <1>2, <1>3, MemberPut DEF Members!Join, Members!Known, Members!Tell
<1>4. ASSUME NEW p \in MemberPeers, Members!Heartbeat(p) PROVE MemberInv'
  <2>1. CASE p \notin DOMAIN mPeers
    BY <1>2, <1>4, <2>1, MemberPut DEF Members!Heartbeat, Members!Known, Members!Tell
  <2>2. CASE p \in DOMAIN mPeers /\ mPeers[p].state \in {"Suspect", "Dead"}
    <3>1. Members!Put(p, Members!Refuted(mPeers[p])) /\ mTold' = [mTold EXCEPT ![p] = "Alive"] /\ mNow' = mNow
      BY <1>4, <2>2 DEF Members!Heartbeat, Members!Known, Members!Tell
    <3>2. Members!Heard(mPeers[p].detector) \in Silences /\ Members!Heard(mPeers[p].detector).last = mNow
      BY <1>1, <2>2, HeardNow
    <3> DEFINE r == mPeers[p]
               heard == Members!Heard(r.detector)
               new == [r EXCEPT !.detector = heard, !.state = "Alive"]
    <3>3. Members!Refuted(mPeers[p]) = new
      BY DEF Members!Refuted
    <3>4. r \in MemberRecords /\ heard \in Silences /\ heard.last = mNow /\ mNow \in Nat
      BY <1>1, <2>2, <3>2
    <3> HIDE DEF heard, r
    <3>5. RecordHeld(new, mNow) /\ new.state = "Alive"
      <4> DEFINE mid == [r EXCEPT !.detector = heard]
      <4>1. mid \in MemberRecords /\ mid.detector = heard
        BY <3>4 DEF MemberRecords
      <4>2. new = [mid EXCEPT !.state = "Alive"]
        BY <3>4 DEF MemberRecords
      <4> HIDE DEF mid, new
      <4>3. new \in MemberRecords /\ new.state = "Alive" /\ new.detector = heard
        BY <4>1, <4>2 DEF MemberRecords, MemberStates
      <4> QED  BY <3>4, <4>3 DEF RecordHeld
    <3> QED  BY <3>1, <3>3, <3>5, MemberPut
  <2>3. CASE p \in DOMAIN mPeers /\ mPeers[p].state \notin {"Suspect", "Dead"}
    <3> DEFINE r == [mPeers[p] EXCEPT !.detector = Members!Heard(@)]
    <3>1. Members!Put(p, r) /\ mTold' = mTold /\ mNow' = mNow
      BY <1>4, <2>3 DEF Members!Heartbeat, Members!Known, Members!Tell
    <3>2. Members!Heard(mPeers[p].detector) \in Silences /\ Members!Heard(mPeers[p].detector).last = mNow
      BY <1>1, <2>3, HeardNow
    <3>3. RecordHeld(r, mNow) /\ r.state = mPeers[p].state
      BY <1>1, <2>3, <3>2 DEF RecordHeld, MemberRecords, MemberStates
    <3> HIDE DEF r
    <3> QED  BY <2>3, <3>1, <3>3, MemberPut
  <2> QED  BY <2>1, <2>2, <2>3
<1>5. ASSUME NEW p \in MemberPeers, Members!Leave(p) PROVE MemberInv'
  <2>1. CASE p \in DOMAIN mPeers /\ mPeers[p].state # "Left"
    <3> DEFINE r == [mPeers[p] EXCEPT !.state = "Left"]
    <3>1. Members!Put(p, r) /\ mTold' = [mTold EXCEPT ![p] = "Left"] /\ mNow' = mNow
      BY <1>5, <2>1 DEF Members!Leave, Members!Known, Members!Tell
    <3>2. RecordHeld(r, mNow) /\ r.state = "Left"
      BY <1>1, <2>1 DEF RecordHeld, MemberRecords, MemberStates
    <3> HIDE DEF r
    <3> QED  BY <3>1, <3>2, MemberPut
  <2>2. CASE ~(p \in DOMAIN mPeers /\ mPeers[p].state # "Left")
    BY <1>5, <2>2 DEF Members!Leave, Members!Known, MemberInv
  <2> QED  BY <2>1, <2>2
<1>6. CASE Members!Time
  <2>1. mNow' = mNow + 1 /\ UNCHANGED <<mPeers, mTold>>
    BY <1>6 DEF Members!Time
  <2>2. ASSUME NEW p \in DOMAIN mPeers PROVE RecordHeld(mPeers[p], mNow + 1)
    BY <1>1, MemberAssumption DEF RecordHeld, MemberRecords, Silences, MemberAssumption
  <2> QED  BY <2>1, <2>2 DEF MemberInv
<1>7. CASE UNCHANGED memberVars
  BY <1>7 DEF memberVars, MemberInv
<1> QED  BY <1>3, <1>4, <1>5, <1>6, <1>7, MemberTick DEF Members!Next

LEMMA MemberHeld == MemberInv => Members!DeadWasSilent
  BY DEF MemberInv, RecordHeld, Members!DeadWasSilent, Members!Known

(***************************************************************************)
(* The presence plane.  An entry is the last beat of its peer and when it  *)
(* ends; what has been swept had ended by the time of the last call.       *)
(***************************************************************************)
Beats == (PresenceValues \X Int) \cup {None}
Ends(e) == e[2] + PresenceTtl

\* An entry is what its peer beat, or its peer's beat had ended at a time.
EntryHeld(entry, beat, at) ==
  /\ entry # None => beat # None /\ entry = <<beat[1], Ends(beat)>>
  /\ entry = None /\ beat # None => at >= Ends(beat)

PresenceInv ==
  /\ fClock \in Int /\ fAsked \in Int /\ fAsked <= fClock
  /\ fBeat \in [PresencePeers -> Beats] /\ fEntries \in [PresencePeers -> Beats]
  /\ \A p \in PresencePeers : EntryHeld(fEntries[p], fBeat[p], fAsked)
  /\ Present!PresentIsLive

LEMMA PresenceInit == Present!Init => PresenceInv
  BY DEF Present!Init, Present!Nobody, PresenceInv, Present!PresentIsLive, Beats, EntryHeld

\* After a call on the map, every peer shows as its entry at this time says.
LEMMA PresenceCall ==
  ASSUME PresenceInv, Present!Refreshed(fEntries'),
         fBeat' \in [PresencePeers -> Beats], fEntries' \in [PresencePeers -> Beats],
         \A p \in PresencePeers : EntryHeld(fEntries'[p], fBeat'[p], fClock)
  PROVE  PresenceInv'
<1>1. /\ fPresent' = [p \in PresencePeers |-> IF Present!Fresh(fEntries'[p], fClock) THEN fEntries'[p][1] ELSE None]
      /\ fAsked' = fClock /\ UNCHANGED <<fClock, fSingle, fShown>>
  BY DEF Present!Refreshed, Present!Shown
<1>2. ASSUME NEW p \in PresencePeers
      PROVE  fPresent'[p] = IF fBeat'[p] # None /\ fAsked' - fBeat'[p][2] < PresenceTtl THEN fBeat'[p][1] ELSE None
  <2>1. fClock \in Int /\ PresenceTtl \in Int /\ None \notin PresenceValues \X Int
    BY PresenceAssumption DEF PresenceAssumption, PresenceInv
  <2>2. fBeat'[p] # None => fBeat'[p] \in PresenceValues \X Int
    BY DEF Beats
  <2>3. CASE fEntries'[p] = None
    BY <1>1, <2>1, <2>2, <2>3 DEF Present!Fresh, Ends, EntryHeld
  <2>4. CASE fEntries'[p] # None
    BY <1>1, <2>1, <2>2, <2>4 DEF Present!Fresh, Ends, EntryHeld
  <2> QED  BY <2>3, <2>4
<1>3. Present!PresentIsLive'
  BY <1>1, <1>2 DEF PresenceInv, Present!PresentIsLive
<1> QED  BY <1>1, <1>3 DEF PresenceInv

\* A peer a call does not touch keeps its entry: what had ended has still ended.
LEMMA EntryStays ==
  ASSUME PresenceInv, NEW p \in PresencePeers
  PROVE  EntryHeld(fEntries[p], fBeat[p], fClock)
<1>1. EntryHeld(fEntries[p], fBeat[p], fAsked) /\ fAsked <= fClock /\ fClock \in Int /\ fAsked \in Int
  BY DEF PresenceInv
<1>2. fBeat[p] # None => Ends(fBeat[p]) \in Int
  BY PresenceAssumption DEF PresenceAssumption, PresenceInv, Beats, Ends
<1> QED  BY <1>1, <1>2 DEF EntryHeld

LEMMA PresenceStep == PresenceInv /\ (Present!Next \/ UNCHANGED presenceVars) => PresenceInv'
<1> SUFFICES ASSUME PresenceInv, Present!Next \/ UNCHANGED presenceVars PROVE PresenceInv'
  OBVIOUS
<1> USE PresenceAssumption DEF PresenceAssumption
<1>1. ASSUME UNCHANGED <<fClock, fEntries, fPresent, fBeat, fAsked>>,
             fShown' = IF fSingle' = None THEN None ELSE fSingle'[1]
      PROVE  PresenceInv'
  BY <1>1 DEF PresenceInv, Present!PresentIsLive
<1>2. CASE Present!Pass
  BY <1>2 DEF Present!Pass, PresenceInv, Present!PresentIsLive
<1>3. fEntries \in [PresencePeers -> Beats] /\ fBeat \in [PresencePeers -> Beats] /\ fClock \in Int
  BY DEF PresenceInv
<1>4. CASE Present!Tick
  <2>1. /\ Present!Refreshed(fEntries') /\ fBeat' = fBeat
        /\ fEntries' = [p \in PresencePeers |-> IF Present!Fresh(fEntries[p], fClock) THEN fEntries[p] ELSE None]
    BY <1>4 DEF Present!Tick, Present!Refreshed
  <2>2. ASSUME NEW p \in PresencePeers PROVE EntryHeld(fEntries'[p], fBeat'[p], fClock)
    <3>1. fBeat'[p] = fBeat[p] /\ fEntries'[p] = IF Present!Fresh(fEntries[p], fClock) THEN fEntries[p] ELSE None
      BY <2>1
    <3>2. fBeat[p] # None => Ends(fBeat[p]) \in Int
      BY <1>3 DEF Beats, Ends
    <3>3. EntryHeld(fEntries[p], fBeat[p], fClock)
      BY EntryStays
    <3> QED  BY <1>3, <3>1, <3>2, <3>3 DEF Present!Fresh, EntryHeld
  <2>3. fEntries' \in [PresencePeers -> Beats]
    BY <1>3, <2>1 DEF Beats
  <2> QED  BY <1>3, <2>1, <2>2, <2>3, PresenceCall
<1>5. CASE Present!TickValue
  BY <1>1, <1>5 DEF Present!TickValue
<1>6. ASSUME NEW p \in PresencePeers, NEW val \in PresenceValues, Present!Heartbeat(p, val) PROVE PresenceInv'
  <2>1. /\ Present!Refreshed(fEntries') /\ fBeat' = [fBeat EXCEPT ![p] = <<val, fClock>>]
        /\ fEntries' = [fEntries EXCEPT ![p] = <<val, fClock + PresenceTtl>>]
    BY <1>6 DEF Present!Heartbeat, Present!Refreshed
  <2>2. fEntries' \in [PresencePeers -> Beats] /\ fBeat' \in [PresencePeers -> Beats]
    BY <1>3, <2>1 DEF Beats
  <2>3. ASSUME NEW q \in PresencePeers PROVE EntryHeld(fEntries'[q], fBeat'[q], fClock)
    <3>1. CASE q = p
      BY <1>3, <2>1, <3>1 DEF Ends, EntryHeld, Beats
    <3>2. CASE q # p
      BY <1>3, <2>1, <3>2, EntryStays
    <3> QED  BY <3>1, <3>2
  <2> QED  BY <2>1, <2>2, <2>3, PresenceCall
<1>7. ASSUME NEW p \in PresencePeers, Present!Evict(p) PROVE PresenceInv'
  <2>1. /\ Present!Refreshed(fEntries') /\ fBeat' = [fBeat EXCEPT ![p] = None]
        /\ fEntries' = [fEntries EXCEPT ![p] = None]
    BY <1>7 DEF Present!Evict, Present!Refreshed
  <2>2. fEntries' \in [PresencePeers -> Beats] /\ fBeat' \in [PresencePeers -> Beats]
    BY <1>3, <2>1 DEF Beats
  <2>3. ASSUME NEW q \in PresencePeers PROVE EntryHeld(fEntries'[q], fBeat'[q], fClock)
    <3>1. CASE q = p
      BY <1>3, <2>1, <3>1 DEF EntryHeld
    <3>2. CASE q # p
      BY <1>3, <2>1, <3>2, EntryStays
    <3> QED  BY <3>1, <3>2
  <2> QED  BY <2>1, <2>2, <2>3, PresenceCall
<1>8. ASSUME NEW val \in PresenceValues, NEW ttl \in 1..PresenceTtl, Present!SetValue(val, ttl) PROVE PresenceInv'
  <2>1. fSingle' = <<val, fClock + ttl>> /\ fShown' = val /\ UNCHANGED <<fClock, fEntries, fPresent, fBeat, fAsked>>
    BY <1>8 DEF Present!SetValue
  <2>2. fSingle' \in PresenceValues \X Int /\ fSingle'[1] = val
    BY <1>3, <2>1
  <2> QED  BY <1>1, <2>1, <2>2
<1>9. CASE UNCHANGED presenceVars
  BY <1>9 DEF presenceVars, PresenceInv, Present!PresentIsLive
<1> QED  BY <1>2, <1>4, <1>5, <1>6, <1>7, <1>8, <1>9 DEF Present!Next

LEMMA PeersStay ==
  [Next]_vars => (Members!Next \/ UNCHANGED memberVars) /\ (Present!Next \/ UNCHANGED presenceVars)
  BY DEF Next, vars, Stays

\* For any peers, windows and timeouts: a peer is declared dead only when it was
\* silent for longer than the suspicion timeout, whoever folds the events knows
\* every peer's state, and a peer is present exactly while its last heartbeat is
\* younger than the time to live (MembershipCore.tick, heartbeat, PresenceCell.tick).
THEOREM PeersStayHeard == Spec => []PeersWereHeard
<1>1. Init => MemberInv /\ PresenceInv
  BY MemberInit, PresenceInit DEF Init
<1>2. MemberInv /\ PresenceInv /\ [Next]_vars => MemberInv' /\ PresenceInv'
  BY PeersStay, MemberStep, PresenceStep
<1>3. MemberInv /\ PresenceInv => PeersWereHeard
  BY MemberHeld DEF PeersWereHeard, PresenceInv
<1> QED  BY <1>1, <1>2, <1>3, PTL DEF Spec

(***************************************************************************)
(* The timer, the timeout and the barrier.  What was answered is nothing,  *)
(* or the one answer that is latched.  A poll that is awaiting its caller  *)
(* began before the deadline, which is what its late answer rests on.      *)
(***************************************************************************)
Ending == Int \cup
  {None, "clock_regression", "timed_out", "completed", "operation_unavailable", "cancelled",
   "cancellation_unavailable", "satisfied", "disposed"}
Latches == [now : Int, terminal : Ending]
Barriers == [now : Int, terminal : Ending, revision : Int, generation : Int]

\* Nothing but the latched answer has been given.
Latched(answers, terminal) == answers = {} \/ (terminal # None /\ answers = {terminal})
TimerHeld(m, answers) ==
  /\ m \in Latches /\ Latched(answers, m.terminal)
  /\ m.terminal # None => m.terminal \in Int /\ m.terminal >= StdStart + StdDuration
TimeoutHeld(m, answers, polls) ==
  /\ m \in Latches /\ Latched(answers, m.terminal)
  /\ m.terminal = None /\ (\E t \in StdTasks : polls[t] = "timeout") => m.now < StdStart + StdDuration
  /\ m.terminal \in {"completed", "cancelled"} => m.now < StdStart + StdDuration
\* A barrier whatever it has answered: no wait is open at its deadline.
Settled(m) ==
  /\ m \in Barriers /\ m.generation <= m.revision
  /\ m.terminal = None => m.now < StdStart + StdDuration
  /\ m.terminal = "satisfied" => m.revision >= StdRequired /\ m.now < StdStart + StdDuration

StdInv ==
  /\ sPolls \in [StdTasks -> {None, "timeout", "barrier"}]
  /\ sGiven = [timer |-> sGiven.timer, timeout |-> sGiven.timeout, barrier |-> sGiven.barrier]
  /\ TimerHeld(sTimer, sGiven.timer)
  /\ TimeoutHeld(sTimeout, sGiven.timeout, sPolls)
  /\ Settled(sBarrier) /\ Latched(sGiven.barrier, sBarrier.terminal)

LEMMA StdDeadline == Std!Deadline = StdStart + StdDuration /\ Std!Deadline \in Nat
  BY StdAssumption DEF StdAssumption, Std!Deadline, Std!CheckedDeadline

\* Noting an answer keeps it the only one.
LEMMA AnswerLatches ==
  ASSUME NEW g, NEW before, NEW m, Latched(g, before), before # None => m.terminal = before
  PROVE  Latched(Std!Answer(g, m), m.terminal)
  BY DEF Latched, Std!Answer

\* What a poll begins with, and ends with.
LEMMA BeginIs ==
  ASSUME NEW m, m \in Latches \/ m \in Barriers, NEW at \in Int
  PROVE  LET q == Std!Begin(m, at) IN
         /\ m \in Latches => q \in Latches
         /\ m \in Barriers => q \in Barriers /\ q.revision = m.revision /\ q.generation = m.generation
         /\ m.terminal # None => q = m
         /\ q.terminal \in {m.terminal, None, "clock_regression", "timed_out"}
         /\ q.terminal = None => q.now < StdStart + StdDuration
<1>1. m.now \in Int /\ m.terminal \in Ending
  BY DEF Latches, Barriers
<1>2. CASE m.terminal # None
  BY <1>2 DEF Std!Begin
<1>3. CASE m.terminal = None /\ at < m.now
  <2>1. Std!Begin(m, at) = [m EXCEPT !.terminal = "clock_regression"]
    BY <1>3 DEF Std!Begin
  <2>2. "clock_regression" # None
    BY StdAssumption DEF StdAssumption
  <2> QED  BY <1>3, <2>1, <2>2 DEF Latches, Barriers, Ending
<1>4. CASE m.terminal = None /\ ~(at < m.now)
  <2> DEFINE t == IF at >= Std!Deadline THEN "timed_out" ELSE None
  <2>1. Std!Begin(m, at) = [m EXCEPT !.now = at, !.terminal = t]
    BY <1>1, <1>4 DEF Std!Begin
  <2>2. t \in Ending /\ t \in {None, "timed_out"} /\ (t = None => at < StdStart + StdDuration)
    BY StdDeadline, StdAssumption DEF StdAssumption, Ending
  <2> HIDE DEF t
  <2>3. m \in Latches => Std!Begin(m, at) \in Latches /\ Std!Begin(m, at).now = at /\ Std!Begin(m, at).terminal = t
    BY <2>1, <2>2 DEF Latches
  <2>4. m \in Barriers => /\ Std!Begin(m, at) \in Barriers /\ Std!Begin(m, at).now = at /\ Std!Begin(m, at).terminal = t
                          /\ Std!Begin(m, at).revision = m.revision /\ Std!Begin(m, at).generation = m.generation
    BY <2>1, <2>2 DEF Barriers
  <2> QED  BY <1>4, <2>2, <2>3, <2>4
<1> QED  BY <1>2, <1>3, <1>4

LEMMA ResolveIs ==
  ASSUME NEW m, m \in Latches \/ m \in Barriers, NEW op, NEW cancel
  PROVE  LET q == Std!Resolve(m, op, cancel) IN
         /\ m \in Latches => q \in Latches
         /\ m \in Barriers => q \in Barriers /\ q.revision = m.revision /\ q.generation = m.generation
         /\ m.terminal # None => q = m
         /\ q.now = m.now /\ (q.terminal = "satisfied" => m.terminal = "satisfied")
<1> DEFINE t == CASE op = "completed" -> "completed"
                  [] op = "unavailable" -> "operation_unavailable"
                  [] op = "pending" /\ cancel = "cancelled" -> "cancelled"
                  [] op = "pending" /\ cancel = "unavailable" -> "cancellation_unavailable"
                  [] OTHER -> None
<1>1. CASE m.terminal # None
  BY <1>1 DEF Std!Resolve
<1>2. CASE m.terminal = None
  <2>1. Std!Resolve(m, op, cancel) = [m EXCEPT !.terminal = t]
    BY <1>2 DEF Std!Resolve
  <2>2. t \in Ending /\ t # "satisfied"
    BY StdAssumption DEF StdAssumption, Ending
  <2> HIDE DEF t
  <2> QED  BY <1>2, <2>1, <2>2 DEF Latches, Barriers
<1> QED  BY <1>1, <1>2

LEMMA SatisfyIs ==
  ASSUME NEW m \in Barriers, NEW predicate
  PROVE  LET q == Std!Satisfy(m, predicate) IN
         /\ q \in Barriers /\ q.now = m.now /\ q.revision = m.revision /\ q.generation = m.generation
         /\ m.terminal # None => q = m
         /\ q.terminal = "satisfied" /\ m.terminal # "satisfied" => m.terminal = None /\ m.revision >= StdRequired
         /\ q.terminal = None => m.terminal = None
<1>1. CASE m.terminal = None /\ predicate /\ m.revision >= StdRequired
  <2>1. Std!Satisfy(m, predicate) = [m EXCEPT !.terminal = "satisfied"]
    BY <1>1 DEF Std!Satisfy
  <2> QED  BY <1>1, <2>1 DEF Barriers, Ending
<1>2. CASE ~(m.terminal = None /\ predicate /\ m.revision >= StdRequired)
  BY <1>2 DEF Std!Satisfy
<1> QED  BY <1>1, <1>2

LEMMA AcceptIs ==
  ASSUME NEW m \in Barriers, NEW r \in Int, m.generation <= m.revision
  PROVE  LET q == Std!AcceptRevision(m, r) IN
         /\ q \in Barriers /\ q.now = m.now /\ q.terminal = m.terminal
         /\ q.revision >= m.revision /\ q.generation <= q.revision
<1>1. m.revision \in Int /\ m.generation \in Int
  BY DEF Barriers
<1>2. CASE r > m.revision
  <2>1. Std!AcceptRevision(m, r) = [m EXCEPT !.revision = r, !.generation = @ + 1]
    BY <1>2 DEF Std!AcceptRevision
  <2> DEFINE mid == [m EXCEPT !.revision = r]
  <2>2. mid \in Barriers /\ mid.now = m.now /\ mid.terminal = m.terminal /\ mid.revision = r /\ mid.generation = m.generation
    BY DEF Barriers
  <2>3. Std!AcceptRevision(m, r) = [mid EXCEPT !.generation = m.generation + 1]
    BY <2>1 DEF Barriers
  <2> HIDE DEF mid
  <2> QED  BY <1>1, <1>2, <2>2, <2>3 DEF Barriers
<1>3. CASE ~(r > m.revision)
  BY <1>1, <1>3 DEF Std!AcceptRevision
<1> QED  BY <1>2, <1>3

\* A barrier that satisfies, or ends a wait, on the way to its answer.
LEMMA SatisfySettles ==
  ASSUME NEW m, Settled(m), NEW predicate
  PROVE  LET q == Std!Satisfy(m, predicate) IN
         Settled(q) /\ (m.terminal # None => q = m) /\ (q.terminal = None => m.terminal = None)
<1>1. "satisfied" # None
  BY StdAssumption DEF StdAssumption
<1> QED  BY <1>1, SatisfyIs DEF Settled

LEMMA ResolveSettles ==
  ASSUME NEW m, Settled(m), NEW op, NEW cancel
  PROVE  LET q == Std!Resolve(m, op, cancel) IN
         Settled(q) /\ (m.terminal # None => q = m)
<1>1. CASE m.terminal # None
  BY <1>1, ResolveIs DEF Settled
<1>2. CASE m.terminal = None
  BY <1>2, ResolveIs, StdAssumption DEF Settled, StdAssumption
<1> QED  BY <1>1, <1>2

LEMMA BeginSettles ==
  ASSUME NEW m, Settled(m), NEW at \in Int
  PROVE  LET q == Std!Begin(m, at) IN
         Settled(q) /\ (m.terminal # None => q = m)
<1>1. CASE m.terminal # None
  BY <1>1, BeginIs DEF Settled
<1>2. CASE m.terminal = None
  BY <1>2, BeginIs, StdAssumption DEF Settled, StdAssumption
<1> QED  BY <1>1, <1>2

\* What one of the three answers, the other two stand.
LEMMA BarrierAnswers ==
  ASSUME StdInv, NEW m, Settled(m), sBarrier.terminal # None => m = sBarrier, Std!AnswerBarrier(m),
         UNCHANGED <<sTimer, sTimeout>>, sPolls' \in [StdTasks -> {None, "timeout", "barrier"}],
         \A t \in StdTasks : sPolls'[t] = "timeout" => sPolls[t] = "timeout"
  PROVE  StdInv'
<1>1. sBarrier' = m /\ sGiven' = [sGiven EXCEPT !.barrier = Std!Answer(@, m)]
  BY DEF Std!AnswerBarrier
<1>2. sGiven = [timer |-> sGiven.timer, timeout |-> sGiven.timeout, barrier |-> sGiven.barrier]
  BY DEF StdInv
<1>3. /\ sGiven' = [timer |-> sGiven'.timer, timeout |-> sGiven'.timeout, barrier |-> sGiven'.barrier]
      /\ sGiven'.timer = sGiven.timer /\ sGiven'.timeout = sGiven.timeout
      /\ sGiven'.barrier = Std!Answer(sGiven.barrier, m)
  BY <1>1, <1>2
<1>4. Latched(sGiven'.barrier, m.terminal)
  BY <1>3, AnswerLatches DEF StdInv
<1>5. TimerHeld(sTimer', sGiven'.timer) /\ TimeoutHeld(sTimeout', sGiven'.timeout, sPolls')
  BY <1>3 DEF StdInv, TimerHeld, TimeoutHeld
<1> QED  BY <1>1, <1>3, <1>4, <1>5 DEF StdInv

LEMMA TimeoutAnswers ==
  ASSUME StdInv, NEW m \in Latches, sTimeout.terminal # None => m = sTimeout, Std!AnswerTimeout(m),
         m.terminal \in {None, "completed", "cancelled"} /\ m # sTimeout => m.now < StdStart + StdDuration,
         UNCHANGED <<sTimer, sBarrier>>, sPolls' \in [StdTasks -> {None, "timeout", "barrier"}],
         \A t \in StdTasks : sPolls'[t] = "timeout" => sPolls[t] = "timeout"
  PROVE  StdInv'
<1>1. sTimeout' = m /\ sGiven' = [sGiven EXCEPT !.timeout = Std!Answer(@, m)]
  BY DEF Std!AnswerTimeout
<1>2. sGiven = [timer |-> sGiven.timer, timeout |-> sGiven.timeout, barrier |-> sGiven.barrier]
  BY DEF StdInv
<1>3. /\ sGiven' = [timer |-> sGiven'.timer, timeout |-> sGiven'.timeout, barrier |-> sGiven'.barrier]
      /\ sGiven'.timer = sGiven.timer /\ sGiven'.barrier = sGiven.barrier
      /\ sGiven'.timeout = Std!Answer(sGiven.timeout, m)
  BY <1>1, <1>2
<1>4. Latched(sGiven'.timeout, m.terminal)
  BY <1>3, AnswerLatches DEF StdInv, TimeoutHeld
<1>5. TimeoutHeld(sTimeout', sGiven'.timeout, sPolls')
  BY <1>1, <1>4 DEF StdInv, TimeoutHeld
<1> QED  BY <1>1, <1>3, <1>5 DEF StdInv

\* A step that answers nobody: only the polls, or a machine without an answer, change.
LEMMA PollsWait ==
  ASSUME StdInv, UNCHANGED <<sTimer, sGiven>>, sPolls' \in [StdTasks -> {None, "timeout", "barrier"}],
         TimeoutHeld(sTimeout', sGiven.timeout, sPolls'),
         Settled(sBarrier'), Latched(sGiven.barrier, sBarrier'.terminal)
  PROVE  StdInv'
  BY DEF StdInv

LEMMA StdInit == Std!Init => StdInv
<1> SUFFICES ASSUME Std!Init PROVE StdInv
  OBVIOUS
<1>1. StdStart \in Nat /\ StdDuration \in Nat /\ StdRequired \in Nat /\ None # "satisfied" /\ None # "completed"
      /\ None # "cancelled" /\ None # "timeout"
  BY StdAssumption DEF StdAssumption
<1>2. sTimer \in Latches /\ sTimeout \in Latches /\ sTimer.terminal = None /\ sTimeout.terminal = None
  BY <1>1 DEF Std!Init, Latches, Ending
<1>3. Settled(sBarrier) /\ sBarrier.terminal = None
  BY <1>1 DEF Std!Init, Barriers, Ending, Settled
<1>4. sPolls = [t \in StdTasks |-> None] /\ sGiven = [timer |-> {}, timeout |-> {}, barrier |-> {}]
  BY DEF Std!Init
<1>5. TimerHeld(sTimer, sGiven.timer) /\ TimeoutHeld(sTimeout, sGiven.timeout, sPolls)
  BY <1>1, <1>2, <1>4 DEF TimerHeld, TimeoutHeld, Latched
<1> QED  BY <1>3, <1>4, <1>5 DEF StdInv, Latched

LEMMA TimerStep == StdInv /\ (\E at \in Std!Time : Std!ObserveTimer(at)) => StdInv'
<1> SUFFICES ASSUME StdInv, NEW at \in Std!Time, Std!ObserveTimer(at) PROVE StdInv'
  OBVIOUS
<1> DEFINE seen == IF sTimer.terminal # None \/ at < sTimer.now THEN sTimer
                   ELSE [sTimer EXCEPT !.now = at, !.terminal = IF at >= Std!Deadline THEN at ELSE None]
<1>1. /\ sTimer' = seen /\ sGiven' = [sGiven EXCEPT !.timer = Std!Answer(@, seen)]
      /\ UNCHANGED <<sTimeout, sBarrier, sPolls>>
  BY DEF Std!ObserveTimer
<1>2. sGiven = [timer |-> sGiven.timer, timeout |-> sGiven.timeout, barrier |-> sGiven.barrier]
      /\ sTimer \in Latches /\ Latched(sGiven.timer, sTimer.terminal)
      /\ (sTimer.terminal # None => sTimer.terminal \in Int /\ sTimer.terminal >= StdStart + StdDuration)
  BY DEF StdInv, TimerHeld
<1>3. at \in Int
  BY DEF Std!Time
<1>4. /\ seen \in Latches /\ (sTimer.terminal # None => seen.terminal = sTimer.terminal)
      /\ seen.terminal # None => seen.terminal \in Int /\ seen.terminal >= StdStart + StdDuration
  <2>1. CASE sTimer.terminal # None \/ at < sTimer.now
    BY <1>2, <2>1
  <2>2. CASE ~(sTimer.terminal # None \/ at < sTimer.now)
    <3> DEFINE t == IF at >= Std!Deadline THEN at ELSE None
    <3>1. seen = [sTimer EXCEPT !.now = at, !.terminal = t]
      BY <2>2
    <3>2. t \in Ending /\ (t # None => t \in Int /\ t >= StdStart + StdDuration)
      BY <1>3, StdDeadline DEF Ending
    <3> HIDE DEF t, seen
    <3> QED  BY <1>2, <1>3, <2>2, <3>1, <3>2 DEF Latches
  <2> QED  BY <2>1, <2>2
<1> HIDE DEF seen
<1>5. /\ sGiven' = [timer |-> sGiven'.timer, timeout |-> sGiven'.timeout, barrier |-> sGiven'.barrier]
      /\ sGiven'.timeout = sGiven.timeout /\ sGiven'.barrier = sGiven.barrier
      /\ sGiven'.timer = Std!Answer(sGiven.timer, seen)
  BY <1>1, <1>2
<1>6. Latched(sGiven'.timer, seen.terminal)
  BY <1>2, <1>4, <1>5, AnswerLatches
<1> QED  BY <1>1, <1>4, <1>5, <1>6 DEF StdInv, TimerHeld

LEMMA StdStep == StdInv /\ (Std!Next \/ UNCHANGED stdVars) => StdInv'
<1> SUFFICES ASSUME StdInv, Std!Next \/ UNCHANGED stdVars PROVE StdInv'
  OBVIOUS
<1>1. /\ sPolls \in [StdTasks -> {None, "timeout", "barrier"}] /\ Settled(sBarrier) /\ sTimeout \in Latches
      /\ TimeoutHeld(sTimeout, sGiven.timeout, sPolls) /\ Latched(sGiven.barrier, sBarrier.terminal)
  BY DEF StdInv, TimeoutHeld
<1>2. None # "timeout" /\ None # "completed" /\ None # "cancelled" /\ None # "disposed" /\ None # "satisfied" /\ None # "barrier"
  BY StdAssumption DEF StdAssumption
<1>3. ASSUME NEW at \in Std!Time PROVE at \in Int
  BY DEF Std!Time
<1>4. ASSUME NEW at \in Std!Time, NEW op, NEW cancel, Std!Poll(at, op, cancel) PROVE StdInv'
  <2> DEFINE m == Std!Begin(sTimeout, at)
             q == Std!Resolve(m, op, cancel)
  <2>1. Std!AnswerTimeout(q) /\ UNCHANGED <<sTimer, sBarrier, sPolls>>
    BY <1>4 DEF Std!Poll
  <2>2. /\ m \in Latches /\ (sTimeout.terminal # None => m = sTimeout)
        /\ m.terminal \in {sTimeout.terminal, None, "clock_regression", "timed_out"}
        /\ m.terminal = None => m.now < StdStart + StdDuration
    BY <1>1, <1>3, BeginIs
  <2> HIDE DEF m
  <2>3. q \in Latches /\ (m.terminal # None => q = m) /\ q.now = m.now
    BY <2>2, ResolveIs
  <2> HIDE DEF q
  <2>4. q.terminal \in {None, "completed", "cancelled"} /\ q # sTimeout => q.now < StdStart + StdDuration
    <3>1. CASE m.terminal = None
      BY <2>2, <2>3, <3>1
    <3>2. CASE m.terminal # None /\ sTimeout.terminal # None
      BY <2>2, <2>3, <3>2
    <3>3. CASE m.terminal # None /\ sTimeout.terminal = None
      BY <2>2, <2>3, <3>3
    <3> QED  BY <3>1, <3>2, <3>3
  <2>5. sTimeout.terminal # None => q = sTimeout
    BY <2>2, <2>3
  <2> QED  BY <1>1, <2>1, <2>3, <2>4, <2>5, TimeoutAnswers
<1>5. ASSUME NEW t \in StdTasks, NEW at \in Std!Time, Std!PollBegin(t, at) PROVE StdInv'
  <2> DEFINE m == Std!Begin(sTimeout, at)
  <2>1. /\ m \in Latches /\ (sTimeout.terminal # None => m = sTimeout)
        /\ m.terminal \in {sTimeout.terminal, None, "clock_regression", "timed_out"}
        /\ m.terminal = None => m.now < StdStart + StdDuration
    BY <1>1, <1>3, BeginIs
  <2>2. /\ UNCHANGED <<sTimer, sBarrier>>
        /\ \/ m.terminal # None /\ Std!AnswerTimeout(m) /\ UNCHANGED sPolls
           \/ m.terminal = None /\ sTimeout' = m /\ sPolls' = [sPolls EXCEPT ![t] = "timeout"] /\ UNCHANGED sGiven
    BY <1>5 DEF Std!PollBegin
  <2> HIDE DEF m
  <2>3. CASE m.terminal # None /\ Std!AnswerTimeout(m) /\ UNCHANGED sPolls
    <3>1. m.terminal \in {None, "completed", "cancelled"} /\ m # sTimeout => m.now < StdStart + StdDuration
      BY <2>1, <2>3
    <3> QED  BY <1>1, <2>1, <2>2, <2>3, <3>1, TimeoutAnswers
  <2>4. CASE m.terminal = None /\ sTimeout' = m /\ sPolls' = [sPolls EXCEPT ![t] = "timeout"] /\ UNCHANGED sGiven
    <3>1. sTimeout.terminal = None
      BY <2>1, <2>4
    <3>2. TimeoutHeld(sTimeout', sGiven.timeout, sPolls')
      BY <1>1, <1>2, <2>1, <2>4, <3>1 DEF TimeoutHeld
    <3>3. sPolls' \in [StdTasks -> {None, "timeout", "barrier"}]
      BY <1>1, <2>4
    <3> QED  BY <1>1, <2>2, <2>4, <3>2, <3>3, PollsWait
  <2> QED  BY <2>2, <2>3, <2>4
<1>6. ASSUME NEW t \in StdTasks, NEW op, NEW cancel, Std!PollEnd(t, op, cancel) PROVE StdInv'
  <2> DEFINE q == Std!Resolve(sTimeout, op, cancel)
  <2>1. /\ sPolls[t] = "timeout" /\ sPolls' = [sPolls EXCEPT ![t] = None]
        /\ Std!AnswerTimeout(q) /\ UNCHANGED <<sTimer, sBarrier>>
    BY <1>6 DEF Std!PollEnd
  <2>2. q \in Latches /\ (sTimeout.terminal # None => q = sTimeout) /\ q.now = sTimeout.now
    BY <1>1, ResolveIs
  <2> HIDE DEF q
  <2>3. q.terminal \in {None, "completed", "cancelled"} /\ q # sTimeout => q.now < StdStart + StdDuration
    BY <1>1, <2>1, <2>2 DEF TimeoutHeld
  <2>4. /\ sPolls' \in [StdTasks -> {None, "timeout", "barrier"}]
        /\ \A s \in StdTasks : sPolls'[s] = "timeout" => sPolls[s] = "timeout"
    BY <1>1, <1>2, <2>1
  <2> QED  BY <2>1, <2>2, <2>3, <2>4, TimeoutAnswers
<1>7. ASSUME NEW q, Settled(q), sBarrier.terminal # None => q = sBarrier, Std!AnswerBarrier(q),
             UNCHANGED <<sTimer, sTimeout>>,
             UNCHANGED sPolls \/ \E t \in StdTasks : sPolls[t] = "barrier" /\ sPolls' = [sPolls EXCEPT ![t] = None]
      PROVE  StdInv'
  <2>1. /\ sPolls' \in [StdTasks -> {None, "timeout", "barrier"}]
        /\ \A t \in StdTasks : sPolls'[t] = "timeout" => sPolls[t] = "timeout"
    BY <1>1, <1>2, <1>7
  <2> QED  BY <1>7, <2>1, BarrierAnswers
<1>8. ASSUME NEW at \in Std!Time, NEW p, NEW cancel, Std!Observe(at, p, cancel) PROVE StdInv'
  <2> DEFINE m == Std!Begin(sBarrier, at)
             n == Std!Satisfy(m, p)
             q == Std!Resolve(n, "pending", cancel)
  <2>1. Std!AnswerBarrier(q) /\ UNCHANGED <<sTimer, sTimeout, sPolls>>
    BY <1>8 DEF Std!Observe
  <2>2. Settled(m) /\ (sBarrier.terminal # None => m = sBarrier)
    BY <1>1, <1>3, BeginSettles
  <2> HIDE DEF m
  <2>3. Settled(n) /\ (m.terminal # None => n = m)
    BY <2>2, SatisfySettles
  <2> HIDE DEF n
  <2>4. Settled(q) /\ (n.terminal # None => q = n)
    BY <2>3, ResolveSettles
  <2> HIDE DEF q
  <2> QED  BY <1>7, <2>1, <2>2, <2>3, <2>4
<1>9. ASSUME NEW t \in StdTasks, NEW at \in Std!Time, NEW p, Std!ObserveBegin(t, at, p) PROVE StdInv'
  <2> DEFINE m == Std!Begin(sBarrier, at)
             q == Std!Satisfy(m, p)
  <2>1. Settled(m) /\ (sBarrier.terminal # None => m = sBarrier)
    BY <1>1, <1>3, BeginSettles
  <2>2. /\ sPolls[t] = None /\ UNCHANGED <<sTimer, sTimeout>>
        /\ \/ q.terminal # None /\ Std!AnswerBarrier(q) /\ UNCHANGED sPolls
           \/ q.terminal = None /\ sBarrier' = q /\ sPolls' = [sPolls EXCEPT ![t] = "barrier"] /\ UNCHANGED sGiven
    BY <1>9 DEF Std!ObserveBegin
  <2> HIDE DEF m
  <2>3. Settled(q) /\ (m.terminal # None => q = m) /\ (q.terminal = None => m.terminal = None)
    BY <2>1, SatisfySettles
  <2> HIDE DEF q
  <2>4. CASE q.terminal # None /\ Std!AnswerBarrier(q) /\ UNCHANGED sPolls
    BY <1>7, <2>1, <2>2, <2>3, <2>4
  <2>5. CASE q.terminal = None /\ sBarrier' = q /\ sPolls' = [sPolls EXCEPT ![t] = "barrier"] /\ UNCHANGED sGiven
    <3>1. sBarrier.terminal = None
      BY <2>1, <2>3, <2>5
    <3>2. Latched(sGiven.barrier, sBarrier'.terminal) /\ Settled(sBarrier')
      BY <1>1, <2>3, <2>5, <3>1
    <3>3. sPolls' \in [StdTasks -> {None, "timeout", "barrier"}]
      BY <1>1, <2>5
    <3>4. \A s \in StdTasks : sPolls'[s] = "timeout" => sPolls[s] = "timeout"
      BY <1>1, <2>5
    <3>5. TimeoutHeld(sTimeout', sGiven.timeout, sPolls')
      BY <1>1, <2>2, <3>4 DEF TimeoutHeld
    <3> QED  BY <2>2, <2>5, <3>2, <3>3, <3>5, PollsWait
  <2> QED  BY <2>2, <2>4, <2>5
<1>10. ASSUME NEW t \in StdTasks, NEW cancel, Std!ObserveEnd(t, cancel) PROVE StdInv'
  <2> DEFINE q == Std!Resolve(sBarrier, "pending", cancel)
  <2>1. /\ sPolls[t] = "barrier" /\ sPolls' = [sPolls EXCEPT ![t] = None]
        /\ Std!AnswerBarrier(q) /\ UNCHANGED <<sTimer, sTimeout>>
    BY <1>10 DEF Std!ObserveEnd
  <2>2. Settled(q) /\ (sBarrier.terminal # None => q = sBarrier)
    BY <1>1, ResolveSettles
  <2> HIDE DEF q
  <2> QED  BY <1>7, <2>1, <2>2
<1>11. ASSUME NEW m, Settled(m), NEW r \in 0..StdRevision, NEW p, m.terminal = None
       PROVE  Settled(Std!Satisfy(Std!AcceptRevision(m, r), p))
  <2>1. Settled(Std!AcceptRevision(m, r))
    BY <1>2, <1>11, AcceptIs DEF Settled
  <2> QED  BY <2>1, SatisfySettles
<1>12. ASSUME NEW at \in Std!Time, NEW r \in 0..StdRevision, NEW p, Std!RegisterRecheck(at, r, p) PROVE StdInv'
  <2> DEFINE m == Std!Begin(sBarrier, at)
             q == IF m.terminal # None THEN m ELSE Std!Satisfy(Std!AcceptRevision(m, r), p)
  <2>1. Std!AnswerBarrier(q) /\ UNCHANGED <<sTimer, sTimeout, sPolls>>
    BY <1>12 DEF Std!RegisterRecheck
  <2>2. Settled(m) /\ (sBarrier.terminal # None => m = sBarrier)
    BY <1>1, <1>3, BeginSettles
  <2> HIDE DEF m
  <2>3. Settled(q) /\ (m.terminal # None => q = m)
    BY <1>11, <2>2
  <2> HIDE DEF q
  <2> QED  BY <1>7, <2>1, <2>2, <2>3
<1>13. ASSUME NEW r \in 0..StdRevision, NEW p, Std!Advance(r, p) PROVE StdInv'
  <2> DEFINE q == IF sBarrier.terminal # None THEN sBarrier ELSE Std!Satisfy(Std!AcceptRevision(sBarrier, r), p)
  <2>1. Std!AnswerBarrier(q) /\ UNCHANGED <<sTimer, sTimeout, sPolls>>
    BY <1>13 DEF Std!Advance
  <2>2. Settled(q) /\ (sBarrier.terminal # None => q = sBarrier)
    BY <1>1, <1>11
  <2> HIDE DEF q
  <2> QED  BY <1>7, <2>1, <2>2
<1>14. CASE Std!Dispose
  <2> DEFINE q == IF sBarrier.terminal # None THEN sBarrier ELSE [sBarrier EXCEPT !.terminal = "disposed"]
  <2>1. Std!AnswerBarrier(q) /\ UNCHANGED <<sTimer, sTimeout, sPolls>>
    BY <1>14 DEF Std!Dispose
  <2>2. Settled(q) /\ (sBarrier.terminal # None => q = sBarrier)
    BY <1>1, <1>2 DEF Settled, Barriers, Ending
  <2> HIDE DEF q
  <2> QED  BY <1>7, <2>1, <2>2
<1>15. ASSUME NEW t \in StdTasks, Std!Abandon(t) PROVE StdInv'
  <2>1. sPolls' = [sPolls EXCEPT ![t] = None] /\ UNCHANGED <<sTimer, sTimeout, sBarrier, sGiven>>
    BY <1>15 DEF Std!Abandon
  <2>2. /\ sPolls' \in [StdTasks -> {None, "timeout", "barrier"}]
        /\ \A s \in StdTasks : sPolls'[s] = "timeout" => sPolls[s] = "timeout"
    BY <1>1, <1>2, <2>1
  <2>3. TimeoutHeld(sTimeout', sGiven.timeout, sPolls')
    BY <1>1, <2>1, <2>2 DEF TimeoutHeld
  <2> QED  BY <1>1, <2>1, <2>2, <2>3, PollsWait
<1>16. CASE UNCHANGED stdVars
  BY <1>16 DEF stdVars, StdInv
<1> QED  BY <1>4, <1>5, <1>6, <1>8, <1>9, <1>10, <1>12, <1>13, <1>14, <1>15, <1>16, TimerStep DEF Std!Next

\* The module counts as this one does.
LEMMA StdCounts == \A S : Std!Cardinality(S) = Cardinality(S)
  BY DEF Std!Cardinality, Cardinality

LEMMA StdHeld == StdInv => Std!AnswersLatch
<1> SUFFICES ASSUME StdInv PROVE Std!AnswersLatch
  OBVIOUS
<1>1. ASSUME NEW g, NEW t, Latched(g, t) PROVE Std!Cardinality(g) <= 1
  <2>1. Cardinality({}) = 0 /\ Cardinality({t}) = 1
    BY FS_EmptySet, FS_Singleton
  <2> QED  BY <1>1, <2>1, StdCounts DEF Latched
<1>2. \A m \in DOMAIN sGiven : Std!Cardinality(sGiven[m]) <= 1
  <2>1. DOMAIN sGiven = {"timer", "timeout", "barrier"}
    BY DEF StdInv
  <2>2. Latched(sGiven.timer, sTimer.terminal) /\ Latched(sGiven.timeout, sTimeout.terminal)
        /\ Latched(sGiven.barrier, sBarrier.terminal)
    BY DEF StdInv, TimerHeld, TimeoutHeld
  <2>3. Std!Cardinality(sGiven.timer) <= 1 /\ Std!Cardinality(sGiven.timeout) <= 1 /\ Std!Cardinality(sGiven.barrier) <= 1
    BY <1>1, <2>2
  <2> QED  BY <2>1, <2>3
<1>3. sTimeout.terminal \in {"completed", "cancelled"} => sTimeout.now < Std!Deadline
  BY StdDeadline DEF StdInv, TimeoutHeld
<1>4. /\ sBarrier.terminal = "satisfied" => sBarrier.revision >= StdRequired /\ sBarrier.now < Std!Deadline
      /\ sBarrier.generation <= sBarrier.revision
  BY StdDeadline DEF StdInv, Settled
<1>5. sTimer.terminal # None => sTimer.terminal >= Std!Deadline
  BY StdDeadline DEF StdInv, TimerHeld
<1> QED  BY <1>2, <1>3, <1>4, <1>5 DEF Std!AnswersLatch

(***************************************************************************)
(* The workflow.  The chart says what the reference says of the            *)
(* observations because each delivery either is older than one before it,  *)
(* and changes nothing, or becomes the newest one adopted.                 *)
(***************************************************************************)
FlowStates == DOMAIN FlowLifecycle \cup FlowUndeclared
Observations == Seq(FlowStates \X Nat)

AdoptedOf(seen) == {0} \cup {i \in DOMAIN seen : \A j \in 1..i - 1 : seen[j][2] <= seen[i][2]}
ShownAt(seen, i) == IF i = 0 THEN FlowStart ELSE seen[i][1]
TimeAt(seen, i) == IF i = 0 THEN 0 ELSE seen[i][2]
Before(seen, i) == Flow!NewestOf({j \in AdoptedOf(seen) : j < i})
Enters(seen, i) == ShownAt(seen, i) # ShownAt(seen, Before(seen, i)) \/ ShownAt(seen, i) \in FlowUndeclared
EntriesOf(seen) == {i \in AdoptedOf(seen) : i = 0 \/ Enters(seen, i)}
Follows(seen, i) ==
  \/ ShownAt(seen, i) = ShownAt(seen, Before(seen, i)) /\ ShownAt(seen, i) \notin FlowUndeclared
  \/ Flow!Allows(ShownAt(seen, Before(seen, i)), ShownAt(seen, i))
AstrayOf(seen) == {i \in AdoptedOf(seen) \ {0} : ~Follows(seen, i)}

HasNewest(S) == Flow!NewestOf(S) \in S /\ \A j \in S : j <= Flow!NewestOf(S)

LEMMA LatestIs ==
  ASSUME NEW S \in SUBSET Nat, NEW n \in S, \A j \in S : j <= n
  PROVE  Flow!NewestOf(S) = n /\ HasNewest(S)
<1>1. \E i \in S : \A j \in S : j <= i
  <2> WITNESS n \in S
  <2> QED  OBVIOUS
<1>2. Flow!NewestOf(S) \in S /\ \A j \in S : j <= Flow!NewestOf(S)
  BY <1>1 DEF Flow!NewestOf
<1>3. Flow!NewestOf(S) <= n /\ n <= Flow!NewestOf(S) /\ Flow!NewestOf(S) \in Nat /\ n \in Nat
  BY <1>2
<1> QED  BY <1>2, <1>3 DEF HasNewest

\* What a delivery leaves of the observations before it.
LEMMA EarlierStay ==
  ASSUME NEW seen \in Observations, NEW o \in FlowStates \X Nat
  PROVE  /\ Len(Append(seen, o)) = Len(seen) + 1 /\ DOMAIN Append(seen, o) = 1..Len(seen) + 1
         /\ DOMAIN seen = 1..Len(seen) /\ Len(seen) \in Nat /\ Append(seen, o) \in Observations
         /\ Append(seen, o)[Len(seen) + 1] = o
         /\ \A i \in 1..Len(seen) : Append(seen, o)[i] = seen[i] /\ seen[i] \in FlowStates \X Nat
         /\ \A i \in 0..Len(seen) : /\ ShownAt(Append(seen, o), i) = ShownAt(seen, i)
                                    /\ TimeAt(Append(seen, o), i) = TimeAt(seen, i)
<1>1. /\ Len(Append(seen, o)) = Len(seen) + 1 /\ DOMAIN Append(seen, o) = 1..Len(seen) + 1
      /\ DOMAIN seen = 1..Len(seen) /\ Len(seen) \in Nat /\ Append(seen, o) \in Observations
      /\ Append(seen, o)[Len(seen) + 1] = o
      /\ \A i \in 1..Len(seen) : Append(seen, o)[i] = seen[i] /\ seen[i] \in FlowStates \X Nat
  BY AppendProperties, LenProperties, ElementOfSeq DEF Observations
<1>2. ASSUME NEW i \in 0..Len(seen), i # 0 PROVE i \in 1..Len(seen)
  BY <1>2, <1>1
<1> QED  BY <1>1, <1>2 DEF ShownAt, TimeAt

\* Which deliveries were adopted: those before as before, and this one when no
\* earlier one was newer.
LEMMA AdoptedGrows ==
  ASSUME NEW seen \in Observations, NEW o \in FlowStates \X Nat
  PROVE  /\ AdoptedOf(seen) \subseteq 0..Len(seen)
         /\ AdoptedOf(Append(seen, o)) = AdoptedOf(seen) \cup
              (IF \A j \in 1..Len(seen) : seen[j][2] <= o[2] THEN {Len(seen) + 1} ELSE {})
         /\ \A i \in 0..Len(seen) : {j \in AdoptedOf(Append(seen, o)) : j < i} = {j \in AdoptedOf(seen) : j < i}
<1> DEFINE n == Len(seen)
           more == Append(seen, o)
<1>1. /\ DOMAIN more = 1..n + 1 /\ DOMAIN seen = 1..n /\ n \in Nat /\ more[n + 1] = o
      /\ \A i \in 1..n : more[i] = seen[i]
  BY EarlierStay
<1> HIDE DEF n, more
<1>2. AdoptedOf(seen) \subseteq 0..n
  BY <1>1 DEF AdoptedOf
<1>3. ASSUME NEW i \in 1..n
      PROVE  (\A j \in 1..i - 1 : more[j][2] <= more[i][2]) <=> (\A j \in 1..i - 1 : seen[j][2] <= seen[i][2])
  <2>1. \A j \in 1..i - 1 : j \in 1..n
    BY <1>1
  <2> QED  BY <1>1, <2>1
<1>4. (\A j \in 1..(n + 1) - 1 : more[j][2] <= more[n + 1][2]) <=> \A j \in 1..n : seen[j][2] <= o[2]
  <2>1. (n + 1) - 1 = n
    BY <1>1
  <2> QED  BY <1>1, <2>1
<1>5. \A i : i \in 1..n + 1 <=> i \in 1..n \/ i = n + 1
  BY <1>1
<1>6. AdoptedOf(more) = AdoptedOf(seen) \cup (IF \A j \in 1..n : seen[j][2] <= o[2] THEN {n + 1} ELSE {})
  <2>1. ASSUME NEW i PROVE i \in AdoptedOf(more) <=> i \in AdoptedOf(seen) \/ (i = n + 1 /\ \A j \in 1..n : seen[j][2] <= o[2])
    <3>1. CASE i = n + 1
      <4>1. i \notin 1..n /\ i # 0
        BY <1>1, <3>1
      <4> QED  BY <1>1, <1>4, <1>5, <3>1, <4>1 DEF AdoptedOf
    <3>2. CASE i # n + 1
      BY <1>1, <1>3, <1>5, <3>2 DEF AdoptedOf
    <3> QED  BY <3>1, <3>2
  <2> QED  BY <2>1
<1>7. ASSUME NEW i \in 0..n PROVE {j \in AdoptedOf(more) : j < i} = {j \in AdoptedOf(seen) : j < i}
  <2>1. ~(n + 1 < i)
    BY <1>1
  <2> QED  BY <1>6, <2>1
<1> QED  BY <1>2, <1>6, <1>7 DEF n, more

\* A set of deliveries has a newest one.
LEMMA LatestExists ==
  ASSUME NEW n \in Nat, NEW S \in SUBSET (0..n), S # {}
  PROVE  HasNewest(S)
<1> DEFINE Gaps == {n - j : j \in S}
<1>1. Gaps \subseteq Nat /\ Gaps # {}
  <2>1. \A j \in S : n - j \in Nat
    OBVIOUS
  <2>2. PICK j \in S : TRUE
    OBVIOUS
  <2>3. n - j \in Gaps
    OBVIOUS
  <2> QED  BY <2>1, <2>3
<1>2. PICK x \in Gaps : \A y \in Gaps : x <= y
  <2> HIDE DEF Gaps
  <2> QED  BY <1>1, SmallestNat
<1>3. PICK m \in S : x = n - m
  BY <1>2
<1>4. ASSUME NEW j \in S PROVE j <= m
  <2>1. n - m <= n - j
    BY <1>2, <1>3
  <2> QED  BY <2>1
<1>5. S \in SUBSET Nat
  OBVIOUS
<1> QED  BY <1>4, <1>5, LatestIs

\* What was said of the earlier deliveries stands.
LEMMA SaidBefore ==
  ASSUME NEW seen \in Observations, NEW o \in FlowStates \X Nat, NEW i \in AdoptedOf(seen), i # 0
  PROVE  /\ Enters(Append(seen, o), i) <=> Enters(seen, i)
         /\ Follows(Append(seen, o), i) <=> Follows(seen, i)
<1>1. i \in 0..Len(seen) /\ Len(seen) \in Nat
  BY AdoptedGrows, EarlierStay
<1> DEFINE S == {j \in AdoptedOf(seen) : j < i}
<1>2. S \in SUBSET (0..Len(seen)) /\ S # {}
  <2>1. 0 \in AdoptedOf(seen) /\ 0 < i
    BY <1>1 DEF AdoptedOf
  <2> QED  BY <2>1, AdoptedGrows
<1>3. Before(Append(seen, o), i) = Flow!NewestOf(S) /\ Before(seen, i) = Flow!NewestOf(S)
  BY <1>1, AdoptedGrows DEF Before
<1> HIDE DEF S
<1>4. Flow!NewestOf(S) \in 0..Len(seen)
  BY <1>1, <1>2, LatestExists DEF HasNewest
<1>5. /\ ShownAt(Append(seen, o), i) = ShownAt(seen, i)
      /\ ShownAt(Append(seen, o), Flow!NewestOf(S)) = ShownAt(seen, Flow!NewestOf(S))
  BY <1>1, <1>4, EarlierStay
<1> QED  BY <1>3, <1>5 DEF Enters, Follows

\* A delivery older than one before it changes nothing that was said.
LEMMA StaleSaysNothing ==
  ASSUME NEW seen \in Observations, NEW o \in FlowStates \X Nat,
         ~\A j \in 1..Len(seen) : seen[j][2] <= o[2]
  PROVE  /\ AdoptedOf(Append(seen, o)) = AdoptedOf(seen)
         /\ EntriesOf(Append(seen, o)) = EntriesOf(seen)
         /\ AstrayOf(Append(seen, o)) = AstrayOf(seen)
<1>1. AdoptedOf(Append(seen, o)) = AdoptedOf(seen)
  BY AdoptedGrows
<1> QED  BY <1>1, SaidBefore DEF EntriesOf, AstrayOf

\* Any other is the newest one: what the authority said just before it decides
\* whether it enters its state anew and whether the lifecycle justifies it.
LEMMA NewestSays ==
  ASSUME NEW seen \in Observations, NEW o \in FlowStates \X Nat, NEW was,
         was = ShownAt(seen, Flow!NewestOf(AdoptedOf(seen))),
         \A j \in 1..Len(seen) : seen[j][2] <= o[2]
  PROVE  /\ Flow!NewestOf(AdoptedOf(Append(seen, o))) = Len(seen) + 1
         /\ EntriesOf(Append(seen, o)) = EntriesOf(seen) \cup
              (IF o[1] # was \/ o[1] \in FlowUndeclared THEN {Len(seen) + 1} ELSE {})
         /\ AstrayOf(Append(seen, o)) = AstrayOf(seen) \cup
              (IF (o[1] = was /\ o[1] \notin FlowUndeclared) \/ Flow!Allows(was, o[1]) THEN {} ELSE {Len(seen) + 1})
<1> DEFINE n == Len(seen)
           more == Append(seen, o)
           now == AdoptedOf(more)
           old == AdoptedOf(seen)
<1>1. n \in Nat /\ now = old \cup {n + 1} /\ old \in SUBSET (0..n) /\ old # {}
  BY AdoptedGrows, EarlierStay DEF AdoptedOf
<1>2. Flow!NewestOf(old) \in 0..n
  <2> HIDE DEF n, old
  <2> QED  BY <1>1, LatestExists DEF HasNewest
<1>3. Flow!NewestOf(now) = n + 1
  <2> HIDE DEF n, old, now
  <2>1. now \in SUBSET Nat /\ n + 1 \in now /\ \A j \in now : j <= n + 1
    BY <1>1
  <2> QED  BY <2>1, LatestIs
<1>4. Before(more, n + 1) = Flow!NewestOf(old)
  <2>1. {j \in now : j < n + 1} = old
    <3> HIDE DEF n, old, now
    <3>1. \A j \in old : j < n + 1
      BY <1>1
    <3>2. ~(n + 1 < n + 1)
      BY <1>1
    <3> QED  BY <1>1, <3>1, <3>2
  <2> QED  BY <2>1 DEF Before
<1>5. ShownAt(more, n + 1) = o[1] /\ ShownAt(more, Flow!NewestOf(old)) = was
  <2>1. n + 1 # 0
    BY <1>1
  <2>2. more[n + 1] = o
    BY EarlierStay
  <2>3. ShownAt(more, Flow!NewestOf(old)) = ShownAt(seen, Flow!NewestOf(old))
    BY <1>2, EarlierStay
  <2> QED  BY <2>1, <2>2, <2>3 DEF ShownAt
<1>6. Enters(more, n + 1) <=> o[1] # was \/ o[1] \in FlowUndeclared
  BY <1>4, <1>5 DEF Enters
<1>7. Follows(more, n + 1) <=> (o[1] = was /\ o[1] \notin FlowUndeclared) \/ Flow!Allows(was, o[1])
  BY <1>4, <1>5 DEF Follows
<1>8. n + 1 # 0 /\ n + 1 \notin old
  BY <1>1
<1>9. \A i \in old : i # 0 => (Enters(more, i) <=> Enters(seen, i)) /\ (Follows(more, i) <=> Follows(seen, i))
  BY SaidBefore
<1>10. /\ EntriesOf(more) = {i \in now : i = 0 \/ Enters(more, i)} /\ EntriesOf(seen) = {i \in old : i = 0 \/ Enters(seen, i)}
       /\ AstrayOf(more) = {i \in now \ {0} : ~Follows(more, i)} /\ AstrayOf(seen) = {i \in old \ {0} : ~Follows(seen, i)}
  BY DEF EntriesOf, AstrayOf
<1> HIDE DEF n, more, now, old
<1>11. EntriesOf(more) = EntriesOf(seen) \cup (IF o[1] # was \/ o[1] \in FlowUndeclared THEN {n + 1} ELSE {})
  BY <1>1, <1>6, <1>8, <1>9, <1>10
<1>12. AstrayOf(more) = AstrayOf(seen) \cup
         (IF (o[1] = was /\ o[1] \notin FlowUndeclared) \/ Flow!Allows(was, o[1]) THEN {} ELSE {n + 1})
  BY <1>1, <1>7, <1>8, <1>9, <1>10
<1> QED  BY <1>3, <1>11, <1>12 DEF n, more, now

Charts == [state : FlowStates, entered : Nat, observed : Nat, now : Nat, violations : Nat,
           cells : FlowStates \X BOOLEAN \X Nat]

\* A chart says what the observations delivered so far make of it.
Says(chart, seen) ==
  /\ chart.state = ShownAt(seen, Flow!NewestOf(AdoptedOf(seen)))
  /\ chart.entered = TimeAt(seen, Flow!NewestOf(EntriesOf(seen)))
  /\ \A i \in 1..Len(seen) : seen[i][2] <= chart.observed
  /\ chart.observed > 0 => \E i \in 1..Len(seen) : seen[i][2] = chart.observed
  /\ IsFiniteSet(AstrayOf(seen)) /\ chart.violations = Cardinality(AstrayOf(seen))
Shows(chart) == chart.cells = <<chart.state, Flow!Wedged(chart), chart.violations>>

TimersHeld ==
  /\ wSources \in Seq(DOMAIN FlowTimers \cup {FlowChart}) /\ wLast \in Nat /\ FlowChart \notin wFired
  /\ \A s \in wFired \cap DOMAIN FlowTimers : FlowTimers[s] <= wLast
  /\ ~wFailed => wFired = wTold \ {FlowChart}
FlowInv ==
  /\ wChart \in Charts /\ wDelivered \in Observations
  /\ Says(wChart, wDelivered) /\ Shows(wChart) /\ TimersHeld

LEMMA WedgedIs ==
  ASSUME NEW chart \in Charts
  PROVE  /\ Flow!DeadlineOf(chart.state) \in Nat /\ Flow!Wedged(chart) \in BOOLEAN
         /\ Flow!Wedged(chart) <=> /\ Flow!DeadlineOf(chart.state) > 0
                                   /\ chart.now > chart.entered + Flow!DeadlineOf(chart.state)
<1> DEFINE dl == Flow!DeadlineOf(chart.state)
<1>1. dl \in Nat
  BY FlowAssumption DEF FlowAssumption, Flow!DeadlineOf
<1>2. chart.now \in Nat /\ chart.entered \in Nat
  BY DEF Charts
<1>3. Flow!OverdueBy(chart) = IF dl = 0 THEN 0 ELSE Flow!Larger(0, chart.now - chart.entered - dl)
  BY DEF Flow!OverdueBy
<1> HIDE DEF dl
<1>4. (Flow!OverdueBy(chart) > 0) <=> dl > 0 /\ chart.now > chart.entered + dl
  BY <1>1, <1>2, <1>3 DEF Flow!Larger
<1> QED  BY <1>1, <1>4 DEF Flow!Wedged, dl

\* Publishing changes the cells and nothing they are read from.
LEMMA PublishIs ==
  ASSUME NEW chart \in Charts
  PROVE  /\ Flow!Publish(chart) \in Charts /\ Shows(Flow!Publish(chart))
         /\ \A seen : Says(chart, seen) => Says(Flow!Publish(chart), seen)
<1> DEFINE cells == <<chart.state, Flow!Wedged(chart), chart.violations>>
           q == Flow!Publish(chart)
<1>1. cells \in FlowStates \X BOOLEAN \X Nat
  BY WedgedIs DEF Charts
<1>2. q = [chart EXCEPT !.cells = cells]
  BY DEF Flow!Publish
<1> HIDE DEF cells, q
<1>3. /\ q \in Charts /\ q.cells = cells /\ q.state = chart.state /\ q.entered = chart.entered
      /\ q.observed = chart.observed /\ q.now = chart.now /\ q.violations = chart.violations
  BY <1>1, <1>2 DEF Charts
<1>4. Flow!Wedged(q) = Flow!Wedged(chart)
  BY <1>3 DEF Flow!Wedged, Flow!OverdueBy
<1>5. Shows(q)
  BY <1>3, <1>4 DEF Shows, cells
<1>6. \A seen : Says(chart, seen) => Says(q, seen)
  BY <1>3 DEF Says
<1> QED  BY <1>3, <1>5, <1>6 DEF q

\* What adopting an observation makes of a chart.
LEMMA AdoptIs ==
  ASSUME NEW chart \in Charts, NEW s \in FlowStates, NEW at \in Nat
  PROVE  LET q == Flow!Adopt(chart, s, at) IN
         /\ q \in Charts
         /\ at < chart.observed => q = chart
         /\ ~(at < chart.observed) =>
              /\ q.state = s /\ q.observed = at
              /\ q.entered = IF s # chart.state \/ s \in FlowUndeclared THEN at ELSE chart.entered
              /\ q.violations = IF (s = chart.state /\ s \notin FlowUndeclared) \/ Flow!Allows(chart.state, s)
                                THEN chart.violations ELSE chart.violations + 1
<1> DEFINE q == Flow!Adopt(chart, s, at)
           clocked == [chart EXCEPT !.observed = at, !.now = Flow!Larger(@, at)]
           entered == [clocked EXCEPT !.state = s, !.entered = at]
           astray == [entered EXCEPT !.violations = @ + 1]
<1>1. /\ s \in FlowUndeclared <=> s \notin DOMAIN FlowLifecycle
      /\ Flow!Allows(chart.state, s) => s \in DOMAIN FlowLifecycle
  BY FlowAssumption DEF FlowAssumption, FlowStates, Flow!Allows
<1>2. /\ clocked \in Charts /\ clocked.state = chart.state /\ clocked.entered = chart.entered
      /\ clocked.observed = at /\ clocked.violations = chart.violations
  BY DEF Charts, Flow!Larger
<1> HIDE DEF clocked
<1>3. /\ entered \in Charts /\ entered.state = s /\ entered.entered = at
      /\ entered.observed = at /\ entered.violations = chart.violations
  BY <1>2 DEF Charts
<1> HIDE DEF entered
<1>4. /\ astray \in Charts /\ astray.state = s /\ astray.entered = at
      /\ astray.observed = at /\ astray.violations = chart.violations + 1
  BY <1>3 DEF Charts
<1> HIDE DEF astray
<1>5. chart.observed \in Nat
  BY DEF Charts
<1>6. CASE at < chart.observed
  <2>1. Flow!Kind(chart, s, at) = "stale"
    BY <1>5, <1>6 DEF Flow!Kind
  <2> QED  BY <1>6, <2>1 DEF Flow!Adopt
<1>7. CASE ~(at < chart.observed) /\ s \in FlowUndeclared
  <2>1. Flow!Kind(chart, s, at) = "unknown_state"
    BY <1>1, <1>5, <1>7 DEF Flow!Kind
  <2>2. q = astray
    BY <2>1 DEF Flow!Adopt, clocked, entered, astray
  <2> QED  BY <1>1, <1>4, <1>7, <2>2
<1>8. CASE ~(at < chart.observed) /\ s \notin FlowUndeclared /\ s = chart.state
  <2>1. Flow!Kind(chart, s, at) = "reaffirmed"
    BY <1>1, <1>5, <1>8 DEF Flow!Kind
  <2>2. q = clocked
    BY <2>1 DEF Flow!Adopt, clocked
  <2> QED  BY <1>2, <1>8, <2>2
<1>9. CASE ~(at < chart.observed) /\ s \notin FlowUndeclared /\ s # chart.state
  <2>1. Flow!Kind(chart, s, at) = IF Flow!Allows(chart.state, s) THEN "entered" ELSE "illegal"
    BY <1>1, <1>5, <1>9 DEF Flow!Kind
  <2>2. q = IF Flow!Allows(chart.state, s) THEN entered ELSE astray
    BY <2>1 DEF Flow!Adopt, clocked, entered, astray
  <2> QED  BY <1>3, <1>4, <1>9, <2>2
<1> QED  BY <1>6, <1>7, <1>8, <1>9

\* A chart that adopts a delivery says what the deliveries, with it, make of it.
LEMMA SaysMore ==
  ASSUME NEW chart \in Charts, NEW seen \in Observations, Says(chart, seen),
         NEW s \in FlowStates, NEW at \in Nat
  PROVE  Says(Flow!Adopt(chart, s, at), Append(seen, <<s, at>>))
<1> DEFINE o == <<s, at>>
           q == Flow!Adopt(chart, s, at)
           more == Append(seen, o)
           n == Len(seen)
<1>1. o \in FlowStates \X Nat /\ o[1] = s /\ o[2] = at
  OBVIOUS
<1>2. /\ Len(more) = n + 1 /\ n \in Nat /\ more[n + 1] = o
      /\ \A i \in 1..n : more[i] = seen[i] /\ seen[i][2] \in Nat
      /\ \A i \in 0..n : ShownAt(more, i) = ShownAt(seen, i) /\ TimeAt(more, i) = TimeAt(seen, i)
  BY <1>1, EarlierStay
<1>3. /\ AdoptedOf(seen) \in SUBSET (0..n) /\ AdoptedOf(seen) # {}
      /\ EntriesOf(seen) \in SUBSET (0..n) /\ EntriesOf(seen) # {}
  BY <1>1, AdoptedGrows DEF AdoptedOf, EntriesOf
<1>4. Flow!NewestOf(AdoptedOf(seen)) \in 0..n /\ Flow!NewestOf(EntriesOf(seen)) \in 0..n
  BY <1>2, <1>3, LatestExists DEF HasNewest
<1>5. /\ chart.observed \in Nat /\ chart.violations \in Nat
      /\ \A i \in 1..n : seen[i][2] <= chart.observed
      /\ chart.observed > 0 => \E i \in 1..n : seen[i][2] = chart.observed
      /\ chart.state = ShownAt(seen, Flow!NewestOf(AdoptedOf(seen)))
      /\ chart.entered = TimeAt(seen, Flow!NewestOf(EntriesOf(seen)))
      /\ IsFiniteSet(AstrayOf(seen)) /\ chart.violations = Cardinality(AstrayOf(seen))
  BY DEF Charts, Says
<1>6. CASE at < chart.observed
  <2>1. q = chart
    BY <1>6, AdoptIs
  <2>2. ~\A j \in 1..n : seen[j][2] <= at
    BY <1>2, <1>5, <1>6
  <2>3. AdoptedOf(more) = AdoptedOf(seen) /\ EntriesOf(more) = EntriesOf(seen) /\ AstrayOf(more) = AstrayOf(seen)
    BY <1>1, <2>2, StaleSaysNothing
  <2>4. \A i \in 1..n + 1 : more[i][2] <= chart.observed
    <3>1. \A i \in 1..n + 1 : i \in 1..n \/ i = n + 1
      BY <1>2
    <3> QED  BY <1>1, <1>2, <1>5, <1>6, <3>1
  <2>5. chart.observed > 0 => \E i \in 1..n + 1 : more[i][2] = chart.observed
    <3>1. \A i \in 1..n : i \in 1..n + 1
      BY <1>2
    <3> QED  BY <1>2, <1>5, <3>1
  <2> HIDE DEF q, more, n
  <2>6. Says(q, more)
    BY <1>2, <1>4, <1>5, <2>1, <2>3, <2>4, <2>5 DEF Says
  <2> QED  BY <2>6 DEF q, more
<1>7. CASE ~(at < chart.observed)
  <2>1. /\ q.state = s /\ q.observed = at
        /\ q.entered = IF s # chart.state \/ s \in FlowUndeclared THEN at ELSE chart.entered
        /\ q.violations = IF (s = chart.state /\ s \notin FlowUndeclared) \/ Flow!Allows(chart.state, s)
                          THEN chart.violations ELSE chart.violations + 1
    BY <1>7, AdoptIs
  <2>2. \A j \in 1..n : seen[j][2] <= at
    BY <1>2, <1>5, <1>7
  <2>3. /\ Flow!NewestOf(AdoptedOf(more)) = n + 1
        /\ EntriesOf(more) = EntriesOf(seen) \cup
             (IF s # chart.state \/ s \in FlowUndeclared THEN {n + 1} ELSE {})
        /\ AstrayOf(more) = AstrayOf(seen) \cup
             (IF (s = chart.state /\ s \notin FlowUndeclared) \/ Flow!Allows(chart.state, s) THEN {} ELSE {n + 1})
    BY <1>1, <1>5, <2>2, NewestSays
  <2>4. \A i \in 1..n + 1 : more[i][2] <= at
    <3>1. \A i \in 1..n + 1 : i \in 1..n \/ i = n + 1
      BY <1>2
    <3> QED  BY <1>1, <1>2, <2>2, <3>1
  <2>5. ShownAt(more, n + 1) = s /\ TimeAt(more, n + 1) = at /\ n + 1 \in 1..n + 1 /\ more[n + 1][2] = at
    BY <1>1, <1>2 DEF ShownAt, TimeAt
  <2>6. AstrayOf(seen) \subseteq 0..n
    BY <1>3 DEF AstrayOf
  <2> HIDE DEF q, more, n
  <2>7. q.entered = TimeAt(more, Flow!NewestOf(EntriesOf(more)))
    <3>1. CASE s # chart.state \/ s \in FlowUndeclared
      <4>1. EntriesOf(more) = EntriesOf(seen) \cup {n + 1}
        BY <2>3, <3>1
      <4>2. EntriesOf(more) \in SUBSET Nat /\ n + 1 \in EntriesOf(more) /\ \A j \in EntriesOf(more) : j <= n + 1
        BY <1>2, <1>3, <4>1
      <4>3. Flow!NewestOf(EntriesOf(more)) = n + 1
        BY <4>2, LatestIs
      <4> QED  BY <2>1, <2>5, <3>1, <4>3
    <3>2. CASE ~(s # chart.state \/ s \in FlowUndeclared)
      BY <1>2, <1>4, <1>5, <2>1, <2>3, <3>2
    <3> QED  BY <3>1, <3>2
  <2>8. IsFiniteSet(AstrayOf(more)) /\ q.violations = Cardinality(AstrayOf(more))
    <3>1. CASE (s = chart.state /\ s \notin FlowUndeclared) \/ Flow!Allows(chart.state, s)
      <4>1. AstrayOf(more) = AstrayOf(seen)
        BY <2>3, <3>1
      <4> QED  BY <1>5, <2>1, <3>1, <4>1
    <3>2. CASE ~((s = chart.state /\ s \notin FlowUndeclared) \/ Flow!Allows(chart.state, s))
      <4>1. AstrayOf(more) = AstrayOf(seen) \cup {n + 1} /\ n + 1 \notin AstrayOf(seen)
        BY <1>2, <2>3, <2>6, <3>2
      <4>2. IsFiniteSet(AstrayOf(more)) /\ Cardinality(AstrayOf(more)) = Cardinality(AstrayOf(seen)) + 1
        BY <1>5, <4>1, FS_AddElement
      <4> QED  BY <1>5, <2>1, <3>2, <4>2
    <3> QED  BY <3>1, <3>2
  <2>9. Says(q, more)
    BY <1>2, <2>1, <2>3, <2>4, <2>5, <2>7, <2>8 DEF Says
  <2> QED  BY <2>9 DEF q, more
<1> QED  BY <1>6, <1>7

LEMMA FlowInit == Flow!Init => FlowInv
<1> SUFFICES ASSUME Flow!Init PROVE FlowInv
  OBVIOUS
<1>1. /\ wChart = [state |-> FlowStart, entered |-> 0, observed |-> 0, now |-> 0, violations |-> 0,
                   cells |-> <<FlowStart, FALSE, 0>>]
      /\ wDelivered = <<>> /\ wDelivered \in Observations /\ Len(wDelivered) = 0
  BY DEF Flow!Init, Observations
<1>2. FlowStart \in FlowStates
  BY FlowAssumption DEF FlowAssumption, FlowStates
<1>3. wChart \in Charts
  BY <1>1, <1>2 DEF Charts
<1>4. Shows(wChart)
  <2>1. ~Flow!Wedged(wChart)
    BY <1>1, <1>3, WedgedIs
  <2>2. Flow!Wedged(wChart) = FALSE
    BY <1>3, <2>1, WedgedIs
  <2>3. wChart.cells = <<FlowStart, FALSE, 0>> /\ wChart.state = FlowStart /\ wChart.violations = 0
    BY <1>1
  <2> QED  BY <2>2, <2>3, Zenon DEF Shows
<1>5. AdoptedOf(wDelivered) = {0} /\ EntriesOf(wDelivered) = {0} /\ AstrayOf(wDelivered) = {}
  BY <1>1 DEF AdoptedOf, EntriesOf, AstrayOf
<1>6. Flow!NewestOf({0}) = 0
  <2>1. {0} \in SUBSET Nat /\ 0 \in {0} /\ \A j \in {0} : j <= 0
    OBVIOUS
  <2> QED  BY <2>1, LatestIs
<1>7. Says(wChart, wDelivered)
  <2>1. wChart.state = FlowStart /\ wChart.entered = 0 /\ wChart.observed = 0 /\ wChart.violations = 0
    BY <1>1
  <2>2. IsFiniteSet(AstrayOf(wDelivered)) /\ Cardinality(AstrayOf(wDelivered)) = 0
    BY <1>5, FS_EmptySet
  <2>3. ~\E i : i \in 1..Len(wDelivered)
    BY <1>1
  <2>4. ShownAt(wDelivered, 0) = FlowStart /\ TimeAt(wDelivered, 0) = 0
    BY DEF ShownAt, TimeAt
  <2> QED  BY <1>5, <1>6, <2>1, <2>2, <2>3, <2>4 DEF Says
<1>8. TimersHeld
  BY DEF Flow!Init, TimersHeld
<1> QED  BY <1>1, <1>3, <1>4, <1>7, <1>8 DEF FlowInv

LEMMA FlowStep == FlowInv /\ (Flow!Next \/ UNCHANGED flowVars) => FlowInv'
<1> SUFFICES ASSUME FlowInv, Flow!Next \/ UNCHANGED flowVars PROVE FlowInv'
  OBVIOUS
<1>1. CASE UNCHANGED flowVars
  BY <1>1 DEF flowVars, FlowInv, Says, Shows, TimersHeld, Flow!Wedged, Flow!OverdueBy
<1>2. wChart \in Charts /\ wDelivered \in Observations /\ Says(wChart, wDelivered) /\ Shows(wChart) /\ TimersHeld
  BY DEF FlowInv
<1>3. ASSUME NEW s \in DOMAIN FlowTimers \cup {FlowChart}, Flow!Register(s) PROVE FlowInv'
  <2>1. wSources' = Append(wSources, s) /\ UNCHANGED <<wChart, wFired, wLast, wTold, wFailed, wDelivered>>
    BY <1>3 DEF Flow!Register
  <2>2. wSources' \in Seq(DOMAIN FlowTimers \cup {FlowChart})
    BY <1>2, <2>1, AppendProperties DEF TimersHeld
  <2>3. TimersHeld'
    BY <1>2, <2>1, <2>2 DEF TimersHeld
  <2> QED  BY <1>2, <2>1, <2>3 DEF FlowInv
<1>4. ASSUME NEW s \in FlowStates, NEW at \in Flow!Time, Flow!Observe(s, at) PROVE FlowInv'
  <2>1. /\ wChart' = Flow!Publish(Flow!Adopt(wChart, s, at)) /\ wDelivered' = Append(wDelivered, <<s, at>>)
        /\ UNCHANGED <<wFired, wSources, wLast, wTold, wFailed>>
    BY <1>4 DEF Flow!Observe
  <2>2. at \in Nat
    BY DEF Flow!Time
  <2>3. Flow!Adopt(wChart, s, at) \in Charts /\ Says(Flow!Adopt(wChart, s, at), wDelivered')
    BY <1>2, <2>1, <2>2, AdoptIs, SaysMore
  <2>4. wChart' \in Charts /\ Shows(wChart') /\ Says(wChart', wDelivered')
    BY <2>1, <2>3, PublishIs
  <2>5. wDelivered' \in Observations
    <3>1. <<s, at>> \in FlowStates \X Nat
      BY <2>2
    <3> QED  BY <1>2, <2>1, <3>1, EarlierStay
  <2>6. TimersHeld'
    BY <1>2, <2>1 DEF TimersHeld
  <2> QED  BY <2>4, <2>5, <2>6 DEF FlowInv
<1>5. ASSUME NEW r \in Flow!Time, Flow!Advance(r) PROVE FlowInv'
  <2>1. /\ r >= wLast /\ wLast' = r /\ wFired' = wFired \cup (Flow!Edges(r) \ {FlowChart})
        /\ wChart' = (IF FlowChart \in Flow!Ticked(r) THEN Flow!Publish([wChart EXCEPT !.now = r]) ELSE wChart)
        /\ UNCHANGED <<wSources, wDelivered>>
        /\ ~wFailed' => ~wFailed /\ wTold' = wTold \cup Flow!Edges(r)
    BY <1>5 DEF Flow!Advance
  <2>2. r \in Nat
    BY DEF Flow!Time
  <2>3. wChart' \in Charts /\ Shows(wChart') /\ Says(wChart', wDelivered')
    <3>1. [wChart EXCEPT !.now = r] \in Charts /\ Says([wChart EXCEPT !.now = r], wDelivered)
      BY <1>2, <2>2 DEF Charts, Says
    <3> QED  BY <1>2, <2>1, <3>1, PublishIs
  <2>4. ASSUME NEW s \in wFired' \cap DOMAIN FlowTimers PROVE FlowTimers[s] <= wLast'
    <3>1. FlowTimers[s] \in Nat /\ s # FlowChart /\ wLast \in Nat
      BY <1>2, FlowAssumption DEF FlowAssumption, TimersHeld
    <3>2. CASE s \in wFired
      BY <1>2, <2>1, <2>2, <3>1, <3>2 DEF TimersHeld
    <3>3. CASE s \in Flow!Edges(r)
      BY <2>1, <2>2, <3>1, <3>3 DEF Flow!Edges
    <3> QED  BY <2>1, <3>2, <3>3
  <2>5. FlowChart \notin wFired' /\ (~wFailed' => wFired' = wTold' \ {FlowChart})
    BY <1>2, <2>1 DEF TimersHeld
  <2>6. TimersHeld'
    BY <1>2, <2>1, <2>2, <2>4, <2>5 DEF TimersHeld
  <2> QED  BY <1>2, <2>1, <2>3, <2>6 DEF FlowInv
<1> QED  BY <1>1, <1>3, <1>4, <1>5 DEF Flow!Next, FlowStates

LEMMA FlowCounts == \A S : Flow!Cardinality(S) = Cardinality(S)
  BY DEF Flow!Cardinality, Cardinality

\* The reference, as the module states it of the deliveries so far.
LEMMA ReferenceIs ==
  /\ Flow!Adopted = AdoptedOf(wDelivered) /\ Flow!Entries = EntriesOf(wDelivered)
  /\ \A i : Flow!StateAt(i) = ShownAt(wDelivered, i) /\ Flow!AtOf(i) = TimeAt(wDelivered, i)
  /\ {i \in Flow!Adopted \ {0} : ~Flow!Justified(i)} = AstrayOf(wDelivered)
<1>1. Flow!Adopted = AdoptedOf(wDelivered)
  BY DEF Flow!Adopted, AdoptedOf
<1>2. \A i : Flow!StateAt(i) = ShownAt(wDelivered, i) /\ Flow!AtOf(i) = TimeAt(wDelivered, i)
  BY DEF Flow!StateAt, Flow!AtOf, ShownAt, TimeAt
<1>3. \A i : Flow!Previous(i) = Before(wDelivered, i)
  BY <1>1 DEF Flow!Previous, Before
<1>4. Flow!Entries = EntriesOf(wDelivered)
  BY <1>1, <1>2, <1>3 DEF Flow!Entries, EntriesOf, Enters
<1>5. \A i : Flow!Justified(i) <=> Follows(wDelivered, i)
  BY <1>2, <1>3 DEF Flow!Justified, Follows
<1>6. {i \in Flow!Adopted \ {0} : ~Flow!Justified(i)} = AstrayOf(wDelivered)
  BY <1>1, <1>5 DEF AstrayOf
<1> QED  BY <1>1, <1>2, <1>4, <1>6

LEMMA FlowHeld == FlowInv => Flow!WorkflowFaithful
<1> SUFFICES ASSUME FlowInv PROVE Flow!WorkflowFaithful
  OBVIOUS
<1>1. wChart \in Charts /\ Says(wChart, wDelivered) /\ Shows(wChart) /\ TimersHeld
  BY DEF FlowInv
<1> DEFINE dl == Flow!DeadlineOf(wChart.state)
           late == dl > 0 /\ wChart.now > wChart.entered + dl
<1>2. Flow!StateAt(Flow!Newest) = wChart.state /\ Flow!AtOf(Flow!NewestOf(Flow!Entries)) = wChart.entered
  BY <1>1, ReferenceIs DEF Flow!Newest, Says
<1>3. Flow!Cardinality({i \in Flow!Adopted \ {0} : ~Flow!Justified(i)}) = wChart.violations
  BY <1>1, ReferenceIs, FlowCounts DEF Says
<1>4. Flow!Wedged(wChart) = late
  <2>1. Flow!Wedged(wChart) \in BOOLEAN /\ (Flow!Wedged(wChart) <=> late)
    BY <1>1, WedgedIs
  <2> HIDE DEF late
  <2>2. late \in BOOLEAN
    BY DEF late
  <2> QED  BY <2>1, <2>2
<1>5. wChart.cells = <<wChart.state, late, wChart.violations>>
  BY <1>1, <1>4 DEF Shows
<1>6. wChart.cells = <<Flow!StateAt(Flow!Newest),
       /\ Flow!DeadlineOf(Flow!StateAt(Flow!Newest)) > 0
       /\ wChart.now > Flow!AtOf(Flow!NewestOf(Flow!Entries)) + Flow!DeadlineOf(Flow!StateAt(Flow!Newest)),
       Flow!Cardinality({i \in Flow!Adopted \ {0} : ~Flow!Justified(i)})>>
  BY <1>2, <1>3, <1>5
<1>7. \A s \in Flow!ToSet(wSources) : s \in DOMAIN FlowTimers \cup {FlowChart}
  BY <1>1, ElementOfSeq, LenProperties DEF TimersHeld, Flow!ToSet
<1>8. \A s \in Flow!ToSet(wSources) \cap wFired : FlowTimers[s] <= wLast
  BY <1>1, <1>7 DEF TimersHeld
<1>9. Flow!Pending \subseteq Nat
  <2>1. ASSUME NEW s \in Flow!ToSet(wSources) PROVE Flow!NextFire(s) \subseteq Nat
    <3>1. CASE s = FlowChart
      <4>1. dl \in Nat /\ wChart.entered \in Nat
        BY <1>1, WedgedIs DEF Charts
      <4> HIDE DEF dl
      <4>2. Flow!NextFire(s) \subseteq {wChart.entered + dl}
        BY <3>1 DEF Flow!NextFire, dl
      <4> QED  BY <4>1, <4>2
    <3>2. CASE s # FlowChart
      <4>1. FlowTimers[s] \in Nat
        BY <1>7, <3>2, FlowAssumption DEF FlowAssumption
      <4> QED  BY <3>2, <4>1 DEF Flow!NextFire
    <3> QED  BY <3>1, <3>2
  <2> QED  BY <2>1 DEF Flow!Pending
<1>10. ASSUME NEW wait \in Flow!NextWakeup, NEW f \in Flow!Pending, f > wLast PROVE wLast + wait <= f
  <2>1. Flow!Least(Flow!Pending) \in Nat /\ Flow!Least(Flow!Pending) <= f
    <3>1. \E x \in Flow!Pending : \A y \in Flow!Pending : x <= y
      BY <1>9, SmallestNat
    <3> QED  BY <1>9, <3>1 DEF Flow!Least
  <2>2. wait = Flow!Larger(0, Flow!Least(Flow!Pending) - wLast)
    BY DEF Flow!NextWakeup
  <2>3. wLast \in Nat /\ f \in Nat
    BY <1>1, <1>9 DEF TimersHeld
  <2> QED  BY <1>10, <2>1, <2>2, <2>3 DEF Flow!Larger
<1>11. ~wFailed => wFired = wTold \ {FlowChart}
  BY <1>1 DEF TimersHeld
<1> QED  BY <1>6, <1>8, <1>10, <1>11 DEF Flow!WorkflowFaithful

LEMMA FlowStays ==
  [Next]_vars => (Flow!Next \/ UNCHANGED flowVars) /\ (Std!Next \/ UNCHANGED stdVars)
  BY DEF Next, vars, Stays

\* For any lifecycle, deadlines, timers and observations, in whatever order they
\* arrive: the chart says what the authority last said, counts every step the
\* lifecycle does not justify and is wedged exactly past the deadline of the state
\* since it was first seen; every fired timer was reported unless an advance has
\* raised, and the engine never sleeps past a pending instant; and a timer, a
\* timeout and a barrier answer once, a late answer only for a poll that began in
\* time (ProjectedChart.observe, WorkflowContext.advance, Timeout.poll_async,
\* RevisionBarrier.observe).
THEOREM WorkflowStaysFaithful == Spec => []WorkflowFaithful
<1>1. Init => FlowInv /\ StdInv
  BY FlowInit, StdInit DEF Init
<1>2. FlowInv /\ StdInv /\ [Next]_vars => FlowInv' /\ StdInv'
  BY FlowStays, FlowStep, StdStep
<1>3. FlowInv /\ StdInv => WorkflowFaithful
  BY FlowHeld, StdHeld DEF WorkflowFaithful
<1> QED  BY <1>1, <1>2, <1>3, PTL DEF Spec

(***************************************************************************)
(* The replay harness.  A verdict that compared was reached on one log and *)
(* one stride, so the two runs have their checkpoints in the same places.  *)
(***************************************************************************)
Logs == Seq(Int)
Recorded ==
  /\ pFingerprint.log \in Logs /\ pFingerprint.stride \in ReplayStrides
  /\ pRecorded \in Proof!Runs(pFingerprint.log)
  /\ pFingerprint = Proof!FingerprintOf(pFingerprint.log, pFingerprint.stride, pRecorded)
Replayed ==
  /\ pReplayed \in Proof!Runs(pFingerprint.log)
  /\ pVerdict.found =
       Proof!Compare(pFingerprint, Proof!FingerprintOf(pFingerprint.log, pFingerprint.stride, pReplayed))
ReplayInv ==
  /\ pLog \in Logs
  /\ pFingerprint # None => Recorded
  /\ pVerdict.kind = "compared" => pFingerprint # None /\ Replayed

\* What two observations show differs on some label exactly when they differ.
LEMMA ShowsAll ==
  ASSUME NEW o \in ReplayObservations, NEW q \in ReplayObservations
  PROVE  o = q <=> \A x \in ReplayLabels : Proof!Cell(o, x) = Proof!Cell(q, x)
<1>1. /\ o = [x \in DOMAIN o |-> o[x]] /\ DOMAIN o \subseteq ReplayLabels /\ \A x \in DOMAIN o : o[x] # None
      /\ q = [x \in DOMAIN q |-> q[x]] /\ DOMAIN q \subseteq ReplayLabels /\ \A x \in DOMAIN q : q[x] # None
  BY ReplayAssumption DEF ReplayAssumption
<1>2. ASSUME \A x \in ReplayLabels : Proof!Cell(o, x) = Proof!Cell(q, x) PROVE o = q
  <2>1. DOMAIN o = DOMAIN q
    BY <1>1, <1>2 DEF Proof!Cell
  <2>2. \A x \in DOMAIN o : o[x] = q[x]
    BY <1>1, <1>2, <2>1 DEF Proof!Cell
  <2> QED  BY <1>1, <2>1, <2>2
<1> QED  BY <1>2

\* The differences of two checkpoints are what a report on them has to list.
LEMMA DifferencesAreDue ==
  ASSUME NEW want, NEW got, want.cells \in ReplayObservations, got.cells \in ReplayObservations
  PROVE  Proof!Differences(want, got) = Proof!Due(want.seq, want.cells, got.cells)
<1> DEFINE o == want.cells
           q == got.cells
           Unlike == {y \in ReplayLabels : Proof!Cell(o, y) # Proof!Cell(q, y)}
           UnlikeToo == {y \in DOMAIN o \cup DOMAIN q : y \in DOMAIN o \cap DOMAIN q => o[y] # q[y]}
           Kind(x) == CASE Proof!Cell(q, x) = None -> "missing"
                        [] Proof!Cell(o, x) = None -> "unexpected"
                        [] OTHER -> "value"
           KindToo(x) == CASE x \notin DOMAIN q -> "missing"
                           [] x \notin DOMAIN o -> "unexpected"
                           [] OTHER -> "value"
<1>1. \A x : (Proof!Cell(q, x) = None <=> x \notin DOMAIN q) /\ (Proof!Cell(o, x) = None <=> x \notin DOMAIN o)
  BY ReplayAssumption DEF Proof!Cell, ReplayAssumption
<1>2. DOMAIN o \subseteq ReplayLabels /\ DOMAIN q \subseteq ReplayLabels
  BY ReplayAssumption DEF ReplayAssumption
<1>3. Unlike = UnlikeToo
  BY <1>1, <1>2 DEF Proof!Cell
<1>4. ASSUME NEW x \in Unlike PROVE Kind(x) = KindToo(x)
  <2>1. x \in DOMAIN o \cup DOMAIN q
    BY <1>3
  <2>2. CASE x \notin DOMAIN q
    BY <1>1, <2>1, <2>2
  <2>3. CASE x \in DOMAIN q /\ x \notin DOMAIN o
    BY <1>1, <2>3
  <2>4. CASE x \in DOMAIN q /\ x \in DOMAIN o
    BY <1>1, <2>4
  <2> QED  BY <2>2, <2>3, <2>4
<1>5. Proof!Differences(want, got) = {[seq |-> want.seq, label |-> x, kind |-> Kind(x)] : x \in Unlike}
  BY DEF Proof!Differences
<1>6. Proof!Due(want.seq, o, q) = {[seq |-> want.seq, label |-> x, kind |-> KindToo(x)] : x \in UnlikeToo}
  BY DEF Proof!Due
<1> HIDE DEF Unlike, UnlikeToo, Kind, KindToo
<1> QED  BY <1>3, <1>4, <1>5, <1>6

\* What is reported of two runs of one log: all that differs at the first of the
\* sampled places where they differ, and nothing when they nowhere do.
LEMMA CompareIs ==
  ASSUME NEW l \in Logs, NEW stride, NEW was \in Proof!Runs(l), NEW now \in Proof!Runs(l), NEW found, NEW caught,
         found = Proof!Compare(Proof!FingerprintOf(l, stride, was), Proof!FingerprintOf(l, stride, now)),
         \A i : i \in caught <=> i \in Proof!Sampled(l, stride) /\ was[i] # now[i]
  PROVE  /\ found = {} <=> caught = {}
         /\ caught # {} => \E i \in caught :
              (\A j \in caught : i <= j) /\ found = Proof!Due(Proof!EventSeq(l, i), was[i], now[i])
<1> DEFINE places == Proof!Sampled(l, stride)
           want == Proof!FingerprintOf(l, stride, was)
           got == Proof!FingerprintOf(l, stride, now)
           Unlike(i) == Proof!Differences(want.points[i], got.points[i])
<1>1. places \subseteq 0..Len(l) /\ Len(l) \in Nat
  BY LenProperties DEF Proof!Sampled, Logs
<1>2. ASSUME NEW i \in places
      PROVE  /\ was[i] \in ReplayObservations /\ now[i] \in ReplayObservations
             /\ want.points[i].seq = Proof!EventSeq(l, i) /\ want.points[i].cells = was[i]
             /\ got.points[i].cells = now[i]
  BY <1>1 DEF Proof!FingerprintOf, Proof!Drive, Proof!Runs
<1>3. DOMAIN want.points = places /\ DOMAIN got.points = places
  BY DEF Proof!FingerprintOf, Proof!Drive
<1> HIDE DEF places, want, got
<1>4. ASSUME NEW i \in places PROVE Unlike(i) = Proof!Due(Proof!EventSeq(l, i), was[i], now[i])
  BY <1>2, DifferencesAreDue
<1>5. ASSUME NEW i \in places PROVE Unlike(i) # {} <=> was[i] # now[i]
  <2>1. /\ was[i] \in ReplayObservations /\ now[i] \in ReplayObservations
        /\ want.points[i].cells = was[i] /\ got.points[i].cells = now[i]
    BY <1>2
  <2>2. Unlike(i) # {} <=> \E x \in ReplayLabels : Proof!Cell(was[i], x) # Proof!Cell(now[i], x)
    <3>1. ASSUME NEW x \in ReplayLabels, Proof!Cell(was[i], x) # Proof!Cell(now[i], x) PROVE Unlike(i) # {}
      <4> DEFINE e == [seq |-> want.points[i].seq, label |-> x,
                       kind |-> CASE Proof!Cell(got.points[i].cells, x) = None -> "missing"
                                  [] Proof!Cell(want.points[i].cells, x) = None -> "unexpected"
                                  [] OTHER -> "value"]
      <4>1. e \in Unlike(i)
        BY <2>1, <3>1 DEF Proof!Differences
      <4> HIDE DEF e
      <4> QED  BY <4>1
    <3>2. ASSUME NEW e \in Unlike(i) PROVE \E x \in ReplayLabels : Proof!Cell(was[i], x) # Proof!Cell(now[i], x)
      BY <2>1 DEF Proof!Differences
    <3> QED  BY <3>1, <3>2
  <2>3. was[i] = now[i] <=> \A x \in ReplayLabels : Proof!Cell(was[i], x) = Proof!Cell(now[i], x)
    BY <2>1, ShowsAll
  <2> QED  BY <2>2, <2>3
<1> HIDE DEF Unlike
<1>6. caught = {i \in places : Unlike(i) # {}} /\ caught \subseteq places /\ caught \subseteq Nat
  BY <1>1, <1>5 DEF places
<1>7. found = IF caught = {} THEN {} ELSE Unlike(CHOOSE i \in caught : \A j \in caught : i <= j)
  <2> DEFINE S == {i \in DOMAIN want.points \cap DOMAIN got.points : Unlike(i) # {}}
  <2>1. S = caught
    BY <1>3, <1>6
  <2>2. Proof!Compare(want, got) = IF S = {} THEN {} ELSE Unlike(CHOOSE i \in S : \A j \in S : i <= j)
    BY DEF Proof!Compare, Unlike
  <2>3. found = Proof!Compare(want, got)
    BY DEF want, got
  <2> HIDE DEF S
  <2> QED  BY <2>1, <2>2, <2>3
<1>8. CASE caught = {}
  BY <1>7, <1>8
<1>9. CASE caught # {}
  <2> DEFINE first == CHOOSE i \in caught : \A j \in caught : i <= j
  <2>1. first \in caught /\ \A j \in caught : first <= j
    <3>1. \E i \in caught : \A j \in caught : i <= j
      BY <1>6, <1>9, SmallestNat
    <3> QED  BY <3>1
  <2>2. found = Unlike(first)
    BY <1>7, <1>9
  <2> HIDE DEF first
  <2>3. first \in places /\ Unlike(first) # {}
    BY <1>6, <2>1
  <2> QED  BY <1>4, <1>9, <2>1, <2>2, <2>3
<1> QED  BY <1>8, <1>9

LEMMA ReplayInit == Proof!Init => ReplayInv
<1> SUFFICES ASSUME Proof!Init PROVE ReplayInv
  OBVIOUS
<1>1. pLog = <<>> /\ pFingerprint = None /\ pVerdict.kind = "none"
  BY DEF Proof!Init, Proof!Nothing
<1> QED  BY <1>1 DEF ReplayInv, Logs

LEMMA ReplayStep == ReplayInv /\ (Proof!Next \/ UNCHANGED proofVars) => ReplayInv'
<1> SUFFICES ASSUME ReplayInv, Proof!Next \/ UNCHANGED proofVars PROVE ReplayInv'
  OBVIOUS
<1>1. pLog \in Logs /\ (pFingerprint # None => Recorded)
  BY DEF ReplayInv
<1>2. CASE UNCHANGED proofVars
  BY <1>2 DEF proofVars, ReplayInv, Recorded, Replayed
<1>3. ASSUME Proof!NewLog, pLog' \in Logs PROVE ReplayInv'
  <2>1. pVerdict'.kind = "none" /\ UNCHANGED <<pFingerprint, pRecorded>>
    BY <1>3 DEF Proof!NewLog, Proof!Nothing
  <2> QED  BY <1>1, <1>3, <2>1 DEF ReplayInv, Recorded
<1>4. ASSUME NEW s \in 0..ReplayMaxSeq, Proof!Append_(s) PROVE ReplayInv'
  <2>1. s \in Int
    OBVIOUS
  <2>2. pLog' \in Logs
    BY <1>1, <1>4, <2>1, AppendProperties DEF Proof!Append_, Logs
  <2> QED  BY <1>3, <1>4, <2>2 DEF Proof!Append_
<1>5. CASE Proof!Truncate
  <2>1. pLog' \in Logs
    BY <1>1, <1>5, HeadTailProperties DEF Proof!Truncate, Logs
  <2> QED  BY <1>3, <1>5, <2>1 DEF Proof!Truncate
<1>6. ASSUME NEW stride \in ReplayStrides, NEW run \in Proof!Runs(pLog), Proof!Record(stride, run) PROVE ReplayInv'
  <2>1. /\ pFingerprint' = Proof!FingerprintOf(pLog, stride, run) /\ pRecorded' = run
        /\ pVerdict'.kind = "none" /\ pLog' = pLog
    BY <1>6 DEF Proof!Record, Proof!Nothing
  <2>2. pFingerprint'.log = pLog /\ pFingerprint'.stride = stride
    BY <2>1 DEF Proof!FingerprintOf
  <2> QED  BY <1>1, <2>1, <2>2 DEF ReplayInv, Recorded
<1>7. ASSUME NEW stride \in ReplayStrides, NEW run \in Proof!Runs(pLog), Proof!Check(stride, run) PROVE ReplayInv'
  <2> DEFINE got == Proof!FingerprintOf(pLog, stride, run)
  <2>1. /\ pFingerprint # None /\ pVerdict' = Proof!Verdict(pFingerprint, got) /\ pReplayed' = run
        /\ UNCHANGED <<pLog, pFingerprint, pRecorded>>
    BY <1>7 DEF Proof!Check
  <2>2. got.log = pLog /\ got.stride = stride
    BY DEF Proof!FingerprintOf
  <2> HIDE DEF got
  <2>3. pVerdict'.kind = "compared" =>
          /\ pFingerprint.log = pLog /\ pFingerprint.stride = stride
          /\ pVerdict'.found = Proof!Compare(pFingerprint, got)
    BY <2>1, <2>2 DEF Proof!Verdict
  <2>4. Recorded'
    BY <1>1, <2>1 DEF Recorded
  <2>5. pVerdict'.kind = "compared" => Replayed'
    BY <2>1, <2>3 DEF Replayed, got
  <2> QED  BY <1>1, <2>1, <2>4, <2>5 DEF ReplayInv
<1> QED  BY <1>2, <1>4, <1>5, <1>6, <1>7 DEF Proof!Next

LEMMA ReplayHeld == ReplayInv => Proof!ReplayCatches
<1> SUFFICES ASSUME ReplayInv, pVerdict.kind = "compared" PROVE Proof!ReplayCatches
  BY DEF Proof!ReplayCatches
<1> DEFINE l == pFingerprint.log
           differ == {i \in DOMAIN pRecorded : pRecorded[i] # pReplayed[i]}
           Seen(i) == i % pFingerprint.stride = 0 \/ i = Len(l)
           caught == {i \in differ : Seen(i)}
           places == Proof!Sampled(l, pFingerprint.stride)
<1>1. Recorded /\ Replayed
  BY DEF ReplayInv
<1>2. l \in Logs /\ pRecorded \in Proof!Runs(l) /\ pReplayed \in Proof!Runs(l)
  BY <1>1 DEF Recorded, Replayed
<1>3. DOMAIN pRecorded = 0..Len(l) /\ DOMAIN pReplayed = 0..Len(l) /\ Len(l) \in Nat
  BY <1>2, LenProperties DEF Proof!Runs, Logs
<1>4. \A i : i \in caught <=> i \in Proof!Sampled(l, pFingerprint.stride) /\ pRecorded[i] # pReplayed[i]
  <2>1. \A i : i \in places <=> i \in 0..Len(l) /\ Seen(i)
    <3>1. 0 % pFingerprint.stride = 0
      <4>1. pFingerprint.stride \in Nat \ {0}
        BY <1>1, ReplayAssumption DEF Recorded, ReplayAssumption
      <4> QED  BY <4>1
    <3>2. \A i : i \in 0..Len(l) <=> i = 0 \/ i \in 1..Len(l)
      BY <1>3
    <3> QED  BY <1>3, <3>1, <3>2 DEF Proof!Sampled
  <2> HIDE DEF places, Seen
  <2>2. \A i : i \in caught <=> i \in places /\ pRecorded[i] # pReplayed[i]
    BY <1>3, <2>1
  <2> QED  BY <2>2 DEF places
<1>5. pVerdict.found = Proof!Compare(Proof!FingerprintOf(l, pFingerprint.stride, pRecorded),
                                     Proof!FingerprintOf(l, pFingerprint.stride, pReplayed))
  BY <1>1 DEF Recorded, Replayed
<1>6. /\ pVerdict.found = {} <=> caught = {}
      /\ caught # {} => \E i \in caught :
           /\ \A j \in caught : i <= j
           /\ pVerdict.found = Proof!Due(Proof!EventSeq(l, i), pRecorded[i], pReplayed[i])
  <2> HIDE DEF caught, l
  <2> QED  BY <1>2, <1>4, <1>5, CompareIs
<1>7. DOMAIN pRecorded = DOMAIN pReplayed
  BY <1>3
<1> QED  BY <1>6, <1>7 DEF Proof!ReplayCatches

LEMMA ProofStays == [Next]_vars => Proof!Next \/ UNCHANGED proofVars
  BY DEF Next, vars, Stays

\* For any labels, observations, logs and strides: a replay is compared only with
\* a fingerprint of its own log and stride, passes exactly if the two runs showed
\* the same before the log, at every stride-th event and after the last one, and
\* what it reports is every label that differs at the first of these points where
\* one does, no more and no fewer (ReplayHarness.record, check, _compare).
THEOREM ReplayStaysCatching == Spec => []ReplayCatches
<1>1. Init => ReplayInv
  BY ReplayInit DEF Init
<1>2. ReplayInv /\ [Next]_vars => ReplayInv'
  BY ProofStays, ReplayStep
<1>3. ReplayInv => ReplayCatches
  BY ReplayHeld DEF ReplayCatches
<1> QED  BY <1>1, <1>2, <1>3, PTL DEF Spec
==============================================================================
