---------------------------- MODULE StreamsProofs ----------------------------
(***************************************************************************)
(* Theorems about machines of MCStreams, for every value of the parameters *)
(* those machines take: the durable projection, the mirror, the ingress    *)
(* and the client built on it, the arena.  A behaviour of MCStreams is     *)
(* about one machine, its subject; the invariants below hold whichever it  *)
(* is, since the other machines stay as they were built.                   *)
(***************************************************************************)
EXTENDS MCStreams, SequenceTheorems, FiniteSetTheorems, WellFoundedInduction, TLAPS

(***************************************************************************)
(* The durable projection.  What a driver may come back with is any        *)
(* attempt it was ever handed, so the invariant says of every attempt that *)
(* it carries an accepted revision, and of every entry that nothing newer  *)
(* was accepted than what the entry holds.                                 *)
(***************************************************************************)
Revisions == [epoch : DurableEpochs, value : DurableValues]
Envelopes == [generation : DurableGenerations, key : DurableKeys, epoch : DurableEpochs, value : DurableValues]
Entries ==
  [desired : Revisions \cup {D!NoRevision}, inflight : Envelopes \cup {D!NoRevision},
   durable : DurableEpochs \cup {-1}]

DurableTypes ==
  /\ dEntries \in [DurableKeys -> Entries]
  /\ dAttempts \subseteq Envelopes /\ dApplied \subseteq dAttempts
  /\ dAccepted \subseteq [key : DurableKeys, epoch : DurableEpochs, value : DurableValues]

Accepted(key, rev, accepted) == [key |-> key, epoch |-> rev.epoch, value |-> rev.value] \in accepted

\* An entry's revisions are in order, each was accepted, the durable one applied,
\* and none accepted is newer than all of them.
Ordered(en) ==
  /\ en.inflight # D!NoRevision => en.durable < en.inflight.epoch
  /\ en.desired # D!NoRevision => en.durable < en.desired.epoch /\ en.inflight.epoch < en.desired.epoch
Backed(key, en, accepted, applied) ==
  /\ en.desired # D!NoRevision => Accepted(key, en.desired, accepted)
  /\ en.inflight # D!NoRevision => Accepted(key, en.inflight, accepted)
  /\ en.durable # -1 =>
       \E msg \in applied : msg.key = key /\ msg.epoch = en.durable /\ Accepted(key, msg, accepted)
Complete(key, en, accepted) ==
  \A r \in accepted : r.key = key =>
    r.epoch <= en.durable \/ r.epoch <= en.inflight.epoch \/ r.epoch <= en.desired.epoch
EntryHeld(key, en, accepted, applied) ==
  Ordered(en) /\ Backed(key, en, accepted, applied) /\ Complete(key, en, accepted)

ShownCurrent == dThreads \/ (dReading = << >> /\ dShown \in {<< >>, D!Snapshot})

DurableInv ==
  /\ DurableTypes
  /\ \A msg \in dAttempts : Accepted(msg.key, msg, dAccepted)
  /\ \A key \in DurableKeys : EntryHeld(key, dEntries[key], dAccepted, dApplied)
  /\ ShownCurrent

\* The greatest of two and of any set of numbers that has one.
LEMMA MaxIs ==
  ASSUME NEW S, S \subseteq Int, NEW x \in S, \A y \in S : y <= x
  PROVE  D!Max(S) = x
<1>1. D!Max(S) \in S /\ \A y \in S : D!Max(S) >= y
  BY DEF D!Max
<1>2. D!Max(S) \in Int /\ x \in Int /\ D!Max(S) >= x /\ D!Max(S) <= x
  BY <1>1
<1> QED  BY <1>2

LEMMA EntryEpochs ==
  ASSUME NEW en \in Entries
  PROVE  /\ en.durable \in Int /\ en.desired.epoch \in Int /\ en.inflight.epoch \in Int
         /\ en.durable >= -1
         /\ IF en.desired = D!NoRevision THEN en.desired.epoch = -1
            ELSE en.desired \in Revisions /\ en.desired.epoch \in Nat
         /\ IF en.inflight = D!NoRevision THEN en.inflight.epoch = -1
            ELSE en.inflight \in Envelopes /\ en.inflight.epoch \in Nat
<1>1. en.durable \in DurableEpochs \cup {-1} /\ en.desired \in Revisions \cup {D!NoRevision}
      /\ en.inflight \in Envelopes \cup {D!NoRevision}
  BY DEF Entries
<1>2. \A e \in DurableEpochs : e \in Nat
  BY DurableAssumption DEF DurableAssumption
<1>3. D!NoRevision.epoch = -1
  BY DEF D!NoRevision
<1>4. \A r \in Revisions : r.epoch \in Nat
  BY <1>2 DEF Revisions
<1>5. \A r \in Envelopes : r.epoch \in Nat
  BY <1>2 DEF Envelopes
<1>6. en.durable \in Int /\ en.durable >= -1
  BY <1>1, <1>2
<1> QED  BY <1>1, <1>3, <1>4, <1>5, <1>6

LEMMA NewestIs ==
  ASSUME NEW en \in Entries
  PROVE  D!Newest(en) = IF en.desired.epoch >= en.inflight.epoch THEN en.desired.epoch ELSE en.inflight.epoch
<1>1. en.desired.epoch \in Int /\ en.inflight.epoch \in Int
  BY EntryEpochs
<1> DEFINE S == {en.desired.epoch, en.inflight.epoch}
<1>2. S \subseteq Int
  BY <1>1
<1>3. CASE en.desired.epoch >= en.inflight.epoch
  <2>1. \A y \in S : y <= en.desired.epoch
    BY <1>1, <1>3
  <2> QED  BY <1>2, <1>3, <2>1, MaxIs DEF D!Newest
<1>4. CASE ~(en.desired.epoch >= en.inflight.epoch)
  <2>1. \A y \in S : y <= en.inflight.epoch
    BY <1>1, <1>4
  <2> QED  BY <1>2, <1>4, <2>1, MaxIs DEF D!Newest
<1> QED  BY <1>3, <1>4

LEMMA DurableInit == D!Init => DurableInv
<1> SUFFICES ASSUME D!Init  PROVE DurableInv
  OBVIOUS
<1> USE DEF D!Init, D!Entry
<1>1. DurableTypes
  BY DEF DurableTypes, Entries
<1>2. \A key \in DurableKeys : EntryHeld(key, dEntries[key], dAccepted, dApplied)
  BY DEF EntryHeld, Ordered, Backed, Complete
<1> QED  BY <1>1, <1>2 DEF DurableInv, ShownCurrent

\* An entry stays as sound as it was while more is applied, and more accepted of
\* other keys.
LEMMA EntryStays ==
  ASSUME NEW key, NEW en, NEW acc, NEW app, NEW acc2, NEW app2, EntryHeld(key, en, acc, app),
         acc \subseteq acc2, app \subseteq app2, \A r \in acc2 : r.key = key => r \in acc
  PROVE  EntryHeld(key, en, acc2, app2)
<1>1. \A rev : Accepted(key, rev, acc) => Accepted(key, rev, acc2)
  BY DEF Accepted
<1> QED  BY <1>1 DEF EntryHeld, Backed, Complete

\* What a call that changes one entry has to show.
LEMMA OneEntry ==
  ASSUME DurableInv, NEW key \in DurableKeys, NEW en \in Entries,
         dEntries' = [dEntries EXCEPT ![key] = en], dShown' = << >>, UNCHANGED <<dThreads, dReading>>,
         dApplied' = dApplied, dAccepted \subseteq dAccepted', dAttempts \subseteq dAttempts',
         dAttempts' \subseteq Envelopes,
         dAccepted' \subseteq [key : DurableKeys, epoch : DurableEpochs, value : DurableValues],
         \A r \in dAccepted' : r.key # key => r \in dAccepted,
         \A msg \in dAttempts' : Accepted(msg.key, msg, dAccepted'),
         EntryHeld(key, en, dAccepted', dApplied)
  PROVE  DurableInv'
<1>1. DurableTypes'
  BY DEF DurableInv, DurableTypes
<1>2. ASSUME NEW other \in DurableKeys  PROVE EntryHeld(other, dEntries'[other], dAccepted', dApplied')
  <2>1. dEntries'[other] = IF other = key THEN en ELSE dEntries[other]
    BY DEF DurableInv, DurableTypes
  <2>2. CASE other # key
    <3>1. EntryHeld(other, dEntries[other], dAccepted, dApplied) /\ \A r \in dAccepted' : r.key = other => r \in dAccepted
      BY <2>2 DEF DurableInv
    <3> QED  BY <2>1, <2>2, <3>1, EntryStays
  <2> QED  BY <2>1, <2>2
<1>3. ShownCurrent'
  BY DEF DurableInv, ShownCurrent
<1> QED  BY <1>1, <1>2, <1>3 DEF DurableInv

\* The fields of an entry after each of the assignments the calls make.
LEMMA NewDesired ==
  ASSUME NEW old \in Entries, NEW rev \in Revisions
  PROVE  \E en \in Entries : /\ en = [old EXCEPT !.desired = rev]
                             /\ en.desired = rev /\ en.inflight = old.inflight /\ en.durable = old.durable
<1> DEFINE en == [old EXCEPT !.desired = rev]
<1>1. en \in Entries /\ en.desired = rev /\ en.inflight = old.inflight /\ en.durable = old.durable
  BY DEF Entries
<1> QED  BY <1>1

LEMMA UpsertStep ==
  ASSUME DurableInv, NEW key \in DurableKeys, NEW e \in DurableEpochs, NEW val \in DurableValues,
         D!UpsertDesired(key, e, val), UNCHANGED dThreads
  PROVE  DurableInv'
<1>1. PICK old \in Entries : old = dEntries[key] /\ EntryHeld(key, old, dAccepted, dApplied)
  BY DEF DurableInv, DurableTypes
<1>2. PICK rev \in Revisions : rev.epoch = e /\ rev.value = val /\ rev = [epoch |-> e, value |-> val] /\ e \in Nat
  <2>1. e \in Nat /\ [epoch |-> e, value |-> val] \in Revisions
    BY DurableAssumption DEF DurableAssumption, Revisions
  <2> QED  BY <2>1
<1>3. PICK en \in Entries : /\ en = [old EXCEPT !.desired = rev]
                            /\ en.desired = rev /\ en.inflight = old.inflight /\ en.durable = old.durable
  BY NewDesired
<1>4. /\ dEntries' = [dEntries EXCEPT ![key] = en] /\ dShown' = << >>
      /\ dAccepted' = dAccepted \cup {[key |-> key, epoch |-> e, value |-> val]}
      /\ UNCHANGED <<dReading, dAttempts, dApplied, dThreads>>
      /\ e > old.durable /\ e > D!Newest(old)
  BY <1>1, <1>2, <1>3 DEF D!UpsertDesired, D!Becomes
<1>5. e > old.desired.epoch /\ e > old.inflight.epoch
  BY <1>2, <1>4, EntryEpochs, NewestIs
<1>6. Ordered(en)
  BY <1>1, <1>2, <1>3, <1>4, <1>5, EntryEpochs DEF EntryHeld, Ordered
<1>7. Backed(key, en, dAccepted', dApplied)
  BY <1>1, <1>2, <1>3, <1>4 DEF EntryHeld, Backed, Accepted
<1>8. Complete(key, en, dAccepted')
  <2> SUFFICES ASSUME NEW r \in dAccepted', r.key = key  PROVE r.epoch <= en.desired.epoch
    BY DEF Complete
  <2>1. CASE r \in dAccepted
    <3>1. r.epoch <= old.durable \/ r.epoch <= old.inflight.epoch \/ r.epoch <= old.desired.epoch
      BY <1>1, <2>1 DEF EntryHeld, Complete
    <3>2. r.epoch \in Nat
      BY <2>1, DurableAssumption DEF DurableAssumption, DurableInv, DurableTypes
    <3> QED  BY <1>2, <1>3, <1>4, <1>5, <3>1, <3>2, EntryEpochs
  <2> QED  BY <1>2, <1>3, <1>4, <2>1
<1>9. /\ dAccepted' \subseteq [key : DurableKeys, epoch : DurableEpochs, value : DurableValues]
      /\ dAttempts' \subseteq Envelopes
      /\ \A msg \in dAttempts' : Accepted(msg.key, msg, dAccepted')
  BY <1>4 DEF DurableInv, DurableTypes, Accepted
<1>10. EntryHeld(key, en, dAccepted', dApplied)
  BY <1>6, <1>7, <1>8 DEF EntryHeld
<1> QED  BY <1>4, <1>9, <1>10, OneEntry

LEMMA ClaimStep ==
  ASSUME DurableInv, NEW key \in DurableKeys, NEW g \in DurableGenerations, D!Claim(key, g), UNCHANGED dThreads
  PROVE  DurableInv'
<1>1. PICK old \in Entries : old = dEntries[key] /\ EntryHeld(key, old, dAccepted, dApplied)
  BY DEF DurableInv, DurableTypes
<1> DEFINE msg == [generation |-> g, key |-> key, epoch |-> old.desired.epoch, value |-> old.desired.value]
           en == [old EXCEPT !.desired = D!NoRevision, !.inflight = msg]
<1>2. /\ dEntries' = [dEntries EXCEPT ![key] = en] /\ dShown' = << >> /\ dAttempts' = dAttempts \cup {msg}
      /\ UNCHANGED <<dReading, dApplied, dAccepted, dThreads>>
      /\ old.inflight = D!NoRevision /\ old.desired # D!NoRevision
  BY <1>1 DEF D!Claim, D!Becomes
<1>3. old.desired \in Revisions /\ old.desired.epoch \in Nat /\ old.durable \in Int
  BY <1>2, EntryEpochs
<1>4. msg \in Envelopes /\ msg.key = key /\ msg.epoch = old.desired.epoch /\ msg.value = old.desired.value
  BY <1>3 DEF Revisions, Envelopes
<1>5. en \in Entries /\ en.desired = D!NoRevision /\ en.inflight = msg /\ en.durable = old.durable
  BY <1>4 DEF Entries
<1>6. Accepted(key, msg, dAccepted)
  BY <1>1, <1>2, <1>4 DEF EntryHeld, Backed, Accepted
<1> HIDE DEF msg, en
<1>7. Ordered(en)
  BY <1>1, <1>2, <1>4, <1>5 DEF EntryHeld, Ordered
<1>8. Backed(key, en, dAccepted, dApplied)
  BY <1>1, <1>5, <1>6 DEF EntryHeld, Backed
<1>9. Complete(key, en, dAccepted)
  BY <1>1, <1>2, <1>4, <1>5, EntryEpochs DEF EntryHeld, Complete
<1>10. /\ dAccepted' \subseteq [key : DurableKeys, epoch : DurableEpochs, value : DurableValues]
       /\ dAttempts' \subseteq Envelopes /\ dAttempts \subseteq dAttempts'
  BY <1>2, <1>4 DEF DurableInv, DurableTypes
<1>11. \A x \in dAttempts' : Accepted(x.key, x, dAccepted')
  BY <1>2, <1>4, <1>6 DEF DurableInv
<1>12. EntryHeld(key, en, dAccepted', dApplied)
  BY <1>2, <1>7, <1>8, <1>9 DEF EntryHeld
<1> QED  BY <1>2, <1>5, <1>10, <1>11, <1>12, OneEntry

\* What was applied carries an accepted revision, so the attempt in flight that an
\* acknowledgement of any generation names may be called durable.
LEMMA AckStep ==
  ASSUME DurableInv, NEW msg \in dApplied, D!AckApplied(msg.key, msg.generation, msg.epoch), UNCHANGED dThreads
  PROVE  DurableInv'
<1>1. msg \in Envelopes /\ msg.key \in DurableKeys /\ msg.epoch \in Nat /\ Accepted(msg.key, msg, dAccepted)
  BY DurableAssumption DEF DurableAssumption, DurableInv, DurableTypes, Envelopes
<1>2. PICK key \in DurableKeys : key = msg.key
  BY <1>1
<1>3. PICK old \in Entries : old = dEntries[key] /\ EntryHeld(key, old, dAccepted, dApplied)
  BY DEF DurableInv, DurableTypes
<1> DEFINE en == [old EXCEPT !.inflight = D!NoRevision, !.durable = D!Max({@, msg.epoch})]
<1>4. /\ dEntries' = [dEntries EXCEPT ![key] = en] /\ dShown' = << >>
      /\ UNCHANGED <<dReading, dAttempts, dApplied, dAccepted, dThreads>>
      /\ old.inflight # D!NoRevision /\ old.inflight.epoch = msg.epoch
  BY <1>2, <1>3 DEF D!AckApplied, D!Becomes, D!InFlight
<1>5. old.durable \in Int /\ old.durable < msg.epoch
  BY <1>3, <1>4, EntryEpochs DEF EntryHeld, Ordered
<1>6. D!Max({old.durable, msg.epoch}) = msg.epoch
  <2>1. {old.durable, msg.epoch} \subseteq Int /\ \A y \in {old.durable, msg.epoch} : y <= msg.epoch
    BY <1>1, <1>5
  <2> QED  BY <2>1, MaxIs
<1>7. en \in Entries /\ en.desired = old.desired /\ en.inflight = D!NoRevision /\ en.durable = msg.epoch
  <2>1. en = [old EXCEPT !.inflight = D!NoRevision, !.durable = msg.epoch]
    BY <1>6 DEF Entries
  <2>2. msg.epoch \in DurableEpochs
    BY <1>1 DEF Envelopes
  <2> HIDE DEF en
  <2> QED  BY <2>1, <2>2 DEF Entries
<1> HIDE DEF en
<1>8. D!NoRevision.epoch = -1
  BY DEF D!NoRevision
<1>9. Ordered(en)
  BY <1>1, <1>3, <1>4, <1>5, <1>7, <1>8, EntryEpochs DEF EntryHeld, Ordered
<1>10. Backed(key, en, dAccepted, dApplied)
  BY <1>1, <1>2, <1>3, <1>7 DEF EntryHeld, Backed
<1>11. Complete(key, en, dAccepted)
  <2> SUFFICES ASSUME NEW r \in dAccepted, r.key = key  PROVE r.epoch <= en.durable \/ r.epoch <= en.desired.epoch
    BY DEF Complete
  <2>1. r.epoch <= old.durable \/ r.epoch <= old.inflight.epoch \/ r.epoch <= old.desired.epoch
    BY <1>3 DEF EntryHeld, Complete
  <2>2. r.epoch \in Nat
    BY DurableAssumption DEF DurableAssumption, DurableInv, DurableTypes
  <2> QED  BY <1>1, <1>4, <1>5, <1>7, <2>1, <2>2
<1>12. /\ dAccepted' \subseteq [key : DurableKeys, epoch : DurableEpochs, value : DurableValues]
       /\ dAttempts' \subseteq Envelopes /\ dAttempts \subseteq dAttempts'
       /\ \A x \in dAttempts' : Accepted(x.key, x, dAccepted')
  BY <1>4 DEF DurableInv, DurableTypes
<1>13. EntryHeld(key, en, dAccepted', dApplied)
  BY <1>4, <1>9, <1>10, <1>11 DEF EntryHeld
<1> QED  BY <1>4, <1>7, <1>12, <1>13, OneEntry

\* An attempt that did not succeed is desired again only if nothing newer is.
LEMMA RequeuedHeld ==
  ASSUME DurableTypes, NEW key \in DurableKeys, NEW old \in Entries, EntryHeld(key, old, dAccepted, dApplied)
  PROVE  D!Requeued(old) \in Entries /\ EntryHeld(key, D!Requeued(old), dAccepted, dApplied)
<1> DEFINE rev == [epoch |-> old.inflight.epoch, value |-> old.inflight.value]
<1>1. D!NoRevision.epoch = -1
  BY DEF D!NoRevision
<1>2. \A r \in dAccepted : r.epoch \in Nat
  BY DurableAssumption DEF DurableAssumption, DurableTypes
<1>3. CASE old.inflight = D!NoRevision
  BY <1>3 DEF D!Requeued
<1>4. CASE old.inflight # D!NoRevision /\ old.desired # D!NoRevision
  <2> DEFINE en == [old EXCEPT !.inflight = D!NoRevision]
  <2>1. old.desired.epoch > old.inflight.epoch /\ old.inflight.epoch \in Nat /\ old.desired.epoch \in Nat
    BY <1>4, EntryEpochs DEF EntryHeld, Ordered
  <2>2. D!Requeued(old) = en
    BY <1>4, <2>1 DEF D!Requeued
  <2>3. en \in Entries /\ en.inflight = D!NoRevision /\ en.desired = old.desired /\ en.durable = old.durable
    BY DEF Entries
  <2> HIDE DEF en
  <2>4. Ordered(en) /\ Backed(key, en, dAccepted, dApplied)
    BY <1>1, <2>1, <2>3 DEF EntryHeld, Ordered, Backed
  <2>5. Complete(key, en, dAccepted)
    <3> SUFFICES ASSUME NEW r \in dAccepted, r.key = key, r.epoch <= old.inflight.epoch  PROVE r.epoch <= en.desired.epoch
      BY <2>3 DEF EntryHeld, Complete
    <3> QED  BY <1>2, <2>1, <2>3
  <2> QED  BY <2>2, <2>3, <2>4, <2>5 DEF EntryHeld
<1>5. CASE old.inflight # D!NoRevision /\ old.desired = D!NoRevision
  <2> DEFINE en == [old EXCEPT !.inflight = D!NoRevision, !.desired = rev]
  <2>1. old.inflight \in Envelopes /\ old.inflight.epoch \in Nat /\ old.desired.epoch = -1
    BY <1>5, EntryEpochs
  <2>2. D!Requeued(old) = en
    BY <1>5 DEF D!Requeued
  <2>3. rev \in Revisions /\ rev.epoch = old.inflight.epoch /\ rev.value = old.inflight.value
    BY <2>1 DEF Revisions, Envelopes
  <2>4. en \in Entries /\ en.inflight = D!NoRevision /\ en.desired = rev /\ en.durable = old.durable
    BY <2>3 DEF Entries
  <2> HIDE DEF en, rev
  <2>5. Ordered(en)
    BY <1>1, <1>5, <2>1, <2>3, <2>4, EntryEpochs DEF EntryHeld, Ordered
  <2>6. Backed(key, en, dAccepted, dApplied)
    BY <1>5, <2>3, <2>4 DEF EntryHeld, Backed, Accepted
  <2>7. Complete(key, en, dAccepted)
    <3> SUFFICES ASSUME NEW r \in dAccepted, r.key = key, r.epoch <= old.desired.epoch  PROVE r.epoch <= en.desired.epoch
      BY <2>3, <2>4 DEF EntryHeld, Complete
    <3> QED  BY <1>2, <2>1, <2>3, <2>4
  <2> QED  BY <2>2, <2>4, <2>5, <2>6, <2>7 DEF EntryHeld
<1> QED  BY <1>3, <1>4, <1>5

LEMMA FailStep ==
  ASSUME DurableInv, NEW msg \in dAttempts, D!FailRetryable(msg.key, msg.generation, msg.epoch), UNCHANGED dThreads
  PROVE  DurableInv'
<1>1. PICK key \in DurableKeys : key = msg.key
  BY DEF DurableInv, DurableTypes, Envelopes
<1>2. PICK en \in Entries : en = D!Requeued(dEntries[key]) /\ EntryHeld(key, en, dAccepted, dApplied)
  BY RequeuedHeld DEF DurableInv, DurableTypes
<1>3. /\ dEntries' = [dEntries EXCEPT ![key] = en] /\ dShown' = << >>
      /\ UNCHANGED <<dReading, dAttempts, dApplied, dAccepted, dThreads>>
  BY <1>1, <1>2 DEF D!FailRetryable, D!Becomes
<1>4. /\ dAccepted' \subseteq [key : DurableKeys, epoch : DurableEpochs, value : DurableValues]
      /\ dAttempts' \subseteq Envelopes /\ dAttempts \subseteq dAttempts'
      /\ \A x \in dAttempts' : Accepted(x.key, x, dAccepted')
  BY <1>3 DEF DurableInv, DurableTypes
<1> QED  BY <1>2, <1>3, <1>4, OneEntry

LEMMA ReconnectStep ==
  ASSUME DurableInv, NEW g \in DurableGenerations, D!Reconnect(g), UNCHANGED dThreads
  PROVE  DurableInv'
<1>1. \A key \in DurableKeys : dEntries'[key] \in Entries /\ EntryHeld(key, dEntries'[key], dAccepted, dApplied)
  BY RequeuedHeld DEF D!Reconnect, DurableInv, DurableTypes
<1>2. DurableTypes'
  BY <1>1 DEF D!Reconnect, DurableInv, DurableTypes
<1> QED  BY <1>1, <1>2 DEF D!Reconnect, DurableInv, ShownCurrent

LEMMA DurableStep == DurableInv /\ (D!Next \/ UNCHANGED durableVars) => DurableInv'
<1> SUFFICES ASSUME DurableInv, D!Next \/ UNCHANGED durableVars  PROVE DurableInv'
  OBVIOUS
<1>1. ASSUME UNCHANGED <<dEntries, dAttempts, dAccepted, dThreads>>, dApplied \subseteq dApplied',
             dApplied' \subseteq dAttempts, ShownCurrent'
      PROVE  DurableInv'
  <2>1. \A key \in DurableKeys : EntryHeld(key, dEntries'[key], dAccepted', dApplied')
    BY <1>1, EntryStays DEF DurableInv
  <2> QED  BY <1>1, <2>1 DEF DurableInv, DurableTypes
<1>2. CASE UNCHANGED durableVars
  BY <1>1, <1>2 DEF durableVars, DurableInv, DurableTypes, ShownCurrent, D!Snapshot
<1>3. CASE UNCHANGED dThreads /\ (D!ReadSnapshot \/ D!CacheSnapshot)
  BY <1>1, <1>3 DEF D!ReadSnapshot, D!CacheSnapshot, DurableInv, DurableTypes, ShownCurrent, D!Snapshot
<1>4. ASSUME NEW msg \in dAttempts, D!SinkApplies(msg), UNCHANGED dThreads  PROVE DurableInv'
  BY <1>1, <1>4 DEF D!SinkApplies, DurableInv, DurableTypes, ShownCurrent, D!Snapshot
<1>5. CASE D!Next
  BY <1>3, <1>4, <1>5, UpsertStep, ClaimStep, AckStep, FailStep, ReconnectStep DEF D!Next
<1> QED  BY <1>2, <1>5

\* The newest revision accepted is the newest the entry holds.
LEMMA LastIsHeld ==
  ASSUME DurableInv, NEW key \in DurableKeys
  PROVE  D!Last(key) = D!Max({dEntries[key].durable, D!Newest(dEntries[key])})
<1>1. PICK en \in Entries : en = dEntries[key] /\ EntryHeld(key, en, dAccepted, dApplied)
  BY DEF DurableInv, DurableTypes
<1> DEFINE of == {-1} \cup {r.epoch : r \in {x \in dAccepted : x.key = key}}
           held == {en.durable, D!Newest(en)}
<1>2. of \subseteq Int /\ \A r \in dAccepted : r.epoch \in Nat
  <2>1. \A r \in dAccepted : r.epoch \in Nat
    BY DurableAssumption DEF DurableAssumption, DurableInv, DurableTypes
  <2>2. -1 \in Int
    OBVIOUS
  <2> QED  BY <2>1, <2>2
<1>3. D!NoRevision.epoch = -1
  BY DEF D!NoRevision
<1>4. \A rev : Accepted(key, rev, dAccepted) => rev.epoch \in of
  BY DEF Accepted
<1>5. en.durable \in of /\ en.desired.epoch \in of /\ en.inflight.epoch \in of
  BY <1>1, <1>3, <1>4, EntryEpochs DEF EntryHeld, Backed
<1>6. D!Newest(en) \in {en.desired.epoch, en.inflight.epoch} /\ D!Newest(en) >= en.desired.epoch
      /\ D!Newest(en) >= en.inflight.epoch
  BY EntryEpochs, NewestIs
<1>7. held \subseteq of /\ held \subseteq Int
  BY <1>2, <1>5, <1>6
<1>8. PICK top \in held : \A y \in held : y <= top
  <2>1. en.durable \in Int /\ D!Newest(en) \in Int
    BY <1>7
  <2>2. en.durable <= D!Newest(en) \/ D!Newest(en) <= en.durable
    BY <2>1
  <2> QED  BY <2>1, <2>2
<1>9. \A x \in of : x <= top
  <2>1. top \in Int /\ en.durable <= top /\ D!Newest(en) <= top /\ en.durable \in Int /\ D!Newest(en) \in Int
    BY <1>7, <1>8
  <2>2. -1 <= top
    BY <2>1, EntryEpochs
  <2>3. ASSUME NEW r \in dAccepted, r.key = key  PROVE r.epoch <= top
    <3>1. r.epoch <= en.durable \/ r.epoch <= en.inflight.epoch \/ r.epoch <= en.desired.epoch
      BY <1>1, <2>3 DEF EntryHeld, Complete
    <3> QED  BY <1>2, <1>6, <2>1, <3>1, EntryEpochs
  <2> QED  BY <2>2, <2>3
<1>10. D!Max(held) = top
  BY <1>7, <1>8, MaxIs
<1>11. D!Max(of) = top
  BY <1>2, <1>7, <1>8, <1>9, MaxIs
<1>12. D!Last(key) = D!Max(of)
  BY DEF D!Last
<1> QED  BY <1>1, <1>10, <1>11, <1>12

LEMMA DurableHeld == DurableInv => D!DurableIsStored
<1> SUFFICES ASSUME DurableInv  PROVE D!DurableIsStored
  OBVIOUS
<1>1. ASSUME NEW key \in DurableKeys, dEntries[key].durable # -1
      PROVE  \E msg \in dApplied, r \in dAccepted :
               msg.key = key /\ msg.epoch = dEntries[key].durable
               /\ r = [key |-> key, epoch |-> msg.epoch, value |-> msg.value]
  BY <1>1 DEF DurableInv, EntryHeld, Backed, Accepted
<1>2. \A key \in DurableKeys : Ordered(dEntries[key])
  BY DEF DurableInv, EntryHeld
<1>3. dThreads \/ D!ShownIsCurrent
  BY DEF DurableInv, ShownCurrent, D!ShownIsCurrent
<1> QED  BY <1>1, <1>2, <1>3, LastIsHeld DEF D!DurableIsStored, Ordered

LEMMA DurableStays == [Next]_vars => D!Next \/ UNCHANGED durableVars
  BY DEF Next, vars, Stays

\* For any keys, revisions, generations and drivers that report late, twice or
\* never: what counts as durable was applied with the value accepted for it, the
\* newest revision accepted is never lost, and without threads the snapshot shown
\* is the current one (upsert_desired, claim, ack_applied, fail_retryable, reconnect).
THEOREM DurableStaysStored == Spec => []DurableIsStored
<1>1. Init => DurableInv
  BY DurableInit DEF Init
<1>2. DurableInv /\ [Next]_vars => DurableInv'
  BY DurableStays, DurableStep
<1>3. DurableInv => DurableIsStored
  BY DurableHeld DEF DurableIsStored
<1> QED  BY <1>1, <1>2, <1>3, PTL DEF Spec

(***************************************************************************)
(* The mirror.  A peer's copy follows through the deltas on their way to   *)
(* it: they are in order and before the next one, and either one between   *)
(* the copy's epoch and the next is gone for good, so that the copy will   *)
(* be given up before it is current, or the last of them to tell of a node *)
(* tells its payload, and the copy holds it if none does.                  *)
(***************************************************************************)
Deltas == [base : Int, ops : MirrorViews]
NextBase == IF vFlushed THEN vEpoch + 1 ELSE vEpoch

MirrorTypes ==
  /\ vEntries \in [MirrorNodes -> MirrorEntries \cup {None}]
  /\ vEpoch \in Nat /\ vFlushed \in BOOLEAN
  /\ vSets \in [MirrorNodes -> MirrorPayloads \cup {None}]
  /\ vStale \subseteq MirrorNodes
  /\ vAllowed \in [MirrorPeers -> SUBSET MirrorNodes]
  /\ vMissed \in [MirrorPeers -> SUBSET MirrorNodes]
  /\ vFrames \in [MirrorPeers -> Seq(Deltas)]
  /\ vCopies \in [MirrorPeers -> MirrorCopies \cup {None}]

\* The deltas on their way are in order, before the next; one that ought to be
\* between an epoch and the next is not; what the last of them to mention a node
\* says; none mentions it.
Sorted(fs, top) ==
  \A i \in 1..Len(fs) : fs[i].base < top /\ \A l \in 1..Len(fs) : i < l => fs[i].base < fs[l].base
Gap(fs, e, top) == \E b \in Int : e <= b /\ b < top /\ \A i \in 1..Len(fs) : fs[i].base # b
LastSays(fs, n, e, x) ==
  \A i \in 1..Len(fs) :
    (/\ fs[i].base >= e /\ n \in DOMAIN fs[i].ops
     /\ \A l \in 1..Len(fs) : i < l => n \notin DOMAIN fs[l].ops) => fs[i].ops[n] = x
Untold(fs, n, e) == \A i \in 1..Len(fs) : fs[i].base >= e => n \notin DOMAIN fs[i].ops
InStep(fs, copy, n, x) == LastSays(fs, n, copy.epoch, x) /\ (Untold(fs, n, copy.epoch) => copy.nodes[n] = x)

Settled(p, n) == n \notin vMissed[p] /\ n \notin V!Pending
CopyHeld(p, fs, copy) ==
  /\ copy.epoch <= NextBase /\ DOMAIN copy.nodes \subseteq V!Tracked
  /\ \/ Gap(fs, copy.epoch, NextBase)
     \/ \A n \in DOMAIN copy.nodes : Settled(p, n) => InStep(fs, copy, n, vEntries[n].payload)
FramesHeld(p, fs) ==
  /\ Sorted(fs, NextBase)
  /\ \A i \in 1..Len(fs) : DOMAIN fs[i].ops \subseteq V!Tracked
  /\ vFlushed => \A n \in V!Tracked : Settled(p, n) => LastSays(fs, n, vEpoch, vEntries[n].payload)
SetsHeld(p) ==
  \A n \in MirrorNodes : n \notin vMissed[p] /\ n \notin vStale /\ vSets[n] # None => vSets[n] = vEntries[n].payload
PeerHeld(p) ==
  /\ SetsHeld(p) /\ FramesHeld(p, vFrames[p])
  /\ vCopies[p] # None => CopyHeld(p, vFrames[p], vCopies[p])
SourceHeld ==
  /\ V!Pending \subseteq V!Tracked
  /\ \A n \in V!Tracked : vEntries[n].published < NextBase

MirrorInv == MirrorTypes /\ SourceHeld /\ \A p \in MirrorPeers : PeerHeld(p)

LEMMA TailOf ==
  ASSUME NEW fs \in Seq(Deltas), fs # << >>
  PROVE  /\ Tail(fs) \in Seq(Deltas) /\ Head(fs) = fs[1] /\ Len(fs) \in Nat /\ Len(fs) >= 1
         /\ Len(Tail(fs)) = Len(fs) - 1
         /\ \A i \in 1..Len(Tail(fs)) : i + 1 \in 2..Len(fs) /\ Tail(fs)[i] = fs[i + 1]
         /\ \A i \in 2..Len(fs) : i - 1 \in 1..Len(Tail(fs)) /\ Tail(fs)[i - 1] = fs[i]
  OBVIOUS

LEMMA AppendOf ==
  ASSUME NEW fs \in Seq(Deltas), NEW msg \in Deltas
  PROVE  /\ Append(fs, msg) \in Seq(Deltas) /\ Len(fs) \in Nat /\ Len(Append(fs, msg)) = Len(fs) + 1
         /\ \A i \in 1..Len(fs) : Append(fs, msg)[i] = fs[i]
         /\ Append(fs, msg)[Len(fs) + 1] = msg
  OBVIOUS

LEMMA BaseIsInt ==
  ASSUME NEW fs \in Seq(Deltas), NEW i \in 1..Len(fs)
  PROVE  fs[i].base \in Int
<1>1. fs[i] \in Deltas
  OBVIOUS
<1> QED  BY <1>1 DEF Deltas

\* What the tail of the deltas keeps.
LEMMA SortedTail ==
  ASSUME NEW fs \in Seq(Deltas), fs # << >>, NEW top \in Int, Sorted(fs, top)
  PROVE  Sorted(Tail(fs), top)
  BY TailOf DEF Sorted

LEMMA LastSaysTail ==
  ASSUME NEW fs \in Seq(Deltas), fs # << >>, NEW n, NEW e \in Int, NEW e2 \in Int, e <= e2, NEW x,
         LastSays(fs, n, e, x)
  PROVE  LastSays(Tail(fs), n, e2, x)
<1> SUFFICES ASSUME NEW i \in 1..Len(Tail(fs)), Tail(fs)[i].base >= e2, n \in DOMAIN Tail(fs)[i].ops,
                    \A l \in 1..Len(Tail(fs)) : i < l => n \notin DOMAIN Tail(fs)[l].ops
             PROVE  Tail(fs)[i].ops[n] = x
  BY DEF LastSays
<1>1. i + 1 \in 1..Len(fs) /\ Tail(fs)[i] = fs[i + 1]
  BY TailOf
<1>2. fs[i + 1].base >= e
  BY <1>1, BaseIsInt
<1>3. ASSUME NEW l \in 1..Len(fs), i + 1 < l  PROVE n \notin DOMAIN fs[l].ops
  <2>1. l - 1 \in 1..Len(Tail(fs)) /\ Tail(fs)[l - 1] = fs[l] /\ i < l - 1
    BY <1>3, TailOf
  <2> QED  BY <2>1
<1> QED  BY <1>1, <1>2, <1>3 DEF LastSays

\* Untold by what is left, it was untold before unless the first told it.
LEMMA UntoldTail ==
  ASSUME NEW fs \in Seq(Deltas), fs # << >>, NEW n, NEW e \in Int, NEW e2 \in Int, Untold(Tail(fs), n, e2),
         \A i \in 2..Len(fs) : fs[i].base >= e => fs[i].base >= e2,
         fs[1].base >= e => n \notin DOMAIN fs[1].ops
  PROVE  Untold(fs, n, e)
<1> SUFFICES ASSUME NEW i \in 1..Len(fs), fs[i].base >= e  PROVE n \notin DOMAIN fs[i].ops
  BY DEF Untold
<1>1. CASE i = 1
  BY <1>1
<1>2. CASE i # 1
  <2>1. i \in 2..Len(fs)
    BY <1>2, TailOf
  <2> QED  BY <2>1, TailOf DEF Untold
<1> QED  BY <1>1, <1>2

\* Once the first is lost, a copy it was due at or after has a gap before the next.
LEMMA GapTail ==
  ASSUME NEW fs \in Seq(Deltas), fs # << >>, NEW e \in Int, NEW top \in Int, Sorted(fs, top),
         Gap(fs, e, top) \/ fs[1].base >= e
  PROVE  Gap(Tail(fs), e, top)
<1>1. CASE Gap(fs, e, top)
  BY <1>1, TailOf DEF Gap
<1>2. CASE fs[1].base >= e
  <2>1. fs[1].base \in Int /\ fs[1].base < top
    BY TailOf, BaseIsInt DEF Sorted
  <2>2. \A i \in 1..Len(Tail(fs)) : Tail(fs)[i].base # fs[1].base
    BY TailOf, BaseIsInt DEF Sorted
  <2> QED  BY <1>2, <2>1, <2>2 DEF Gap
<1> QED  BY <1>1, <1>2
LEMMA TrackedIs ==
  ASSUME MirrorTypes
  PROVE  /\ V!Tracked = {n \in MirrorNodes : vEntries[n] \in MirrorEntries}
         /\ \A n \in V!Tracked : vEntries[n].payload \in MirrorPayloads \cup {None} /\ vEntries[n].published \in Int
<1>1. \A n \in MirrorNodes : vEntries[n] # None <=> vEntries[n] \in MirrorEntries
  BY MirrorAssumption DEF MirrorAssumption, MirrorTypes
<1> QED  BY <1>1 DEF V!Tracked, MirrorEntries

LEMMA MirrorInitial == V!Init => MirrorInv
<1> SUFFICES ASSUME V!Init  PROVE MirrorInv
  OBVIOUS
<1> USE DEF V!Init
<1>1. MirrorTypes
  <2>1. << >> \in Seq(Deltas)
    OBVIOUS
  <2>2. vFrames \in [MirrorPeers -> Seq(Deltas)]
    BY <2>1
  <2>3. vEntries \in [MirrorNodes -> MirrorEntries \cup {None}] /\ vSets \in [MirrorNodes -> MirrorPayloads \cup {None}]
    OBVIOUS
  <2>4. vAllowed \in [MirrorPeers -> SUBSET MirrorNodes] /\ vMissed \in [MirrorPeers -> SUBSET MirrorNodes]
    OBVIOUS
  <2>5. vCopies \in [MirrorPeers -> MirrorCopies \cup {None}] /\ vEpoch \in Nat /\ vStale \subseteq MirrorNodes
        /\ vFlushed \in BOOLEAN
    OBVIOUS
  <2> QED  BY <2>2, <2>3, <2>4, <2>5 DEF MirrorTypes
<1>2. V!Tracked = {} /\ V!Pending = {}
  BY DEF V!Tracked, V!Pending
<1>3. SourceHeld
  BY <1>2 DEF SourceHeld
<1>4. \A p \in MirrorPeers : PeerHeld(p)
  BY DEF PeerHeld, SetsHeld, FramesHeld, Sorted, CopyHeld
<1> QED  BY <1>1, <1>3, <1>4 DEF MirrorInv

\* What a call that changes the source alone has to show: a node it had keeps its
\* payload as long as a peer is settled about it.
LEMMA SourceStep ==
  ASSUME MirrorInv, MirrorTypes', SourceHeld', \A p \in MirrorPeers : SetsHeld(p)',
         UNCHANGED <<vEpoch, vFlushed, vFrames, vCopies>>, V!Tracked \subseteq V!Tracked',
         \A p \in MirrorPeers, n \in V!Tracked :
           Settled(p, n)' => Settled(p, n) /\ vEntries'[n].payload = vEntries[n].payload
  PROVE  MirrorInv'
<1>1. NextBase' = NextBase
  BY DEF NextBase
<1>2. ASSUME NEW p \in MirrorPeers  PROVE PeerHeld(p)'
  <2>1. PeerHeld(p) /\ vFrames'[p] = vFrames[p] /\ vCopies'[p] = vCopies[p]
    BY DEF MirrorInv
  <2>2. FramesHeld(p, vFrames[p])'
    <3>1. ASSUME vFlushed, NEW n \in V!Tracked', Settled(p, n)'
          PROVE  LastSays(vFrames[p], n, vEpoch, vEntries'[n].payload)
      <4>1. CASE n \in V!Tracked
        BY <2>1, <3>1, <4>1 DEF PeerHeld, FramesHeld
      <4>2. CASE n \notin V!Tracked
        BY <2>1, <4>2 DEF PeerHeld, FramesHeld, LastSays
      <4> QED  BY <4>1, <4>2
    <3> QED  BY <1>1, <2>1, <3>1 DEF PeerHeld, FramesHeld
  <2>3. ASSUME vCopies[p] # None  PROVE CopyHeld(p, vFrames[p], vCopies[p])'
    <3>1. CopyHeld(p, vFrames[p], vCopies[p])
      BY <2>1, <2>3 DEF PeerHeld
    <3>2. ASSUME ~Gap(vFrames[p], vCopies[p].epoch, NextBase), NEW n \in DOMAIN vCopies[p].nodes, Settled(p, n)'
          PROVE  InStep(vFrames[p], vCopies[p], n, vEntries'[n].payload)
      BY <3>1, <3>2 DEF CopyHeld
    <3> QED  BY <1>1, <2>1, <3>1, <3>2 DEF CopyHeld
  <2> QED  BY <2>1, <2>2, <2>3 DEF PeerHeld
<1> QED  BY <1>2 DEF MirrorInv

LEMMA Replaced ==
  ASSUME NEW S, NEW T, NEW f \in [S -> T], NEW x \in S, NEW y \in T
  PROVE  [f EXCEPT ![x] = y] \in [S -> T]
  OBVIOUS

\* A tracked node stays so when its entry changes in any one field.
LEMMA EntryIs ==
  ASSUME MirrorTypes, NEW n \in V!Tracked, NEW x \in MirrorPayloads \cup {None}
  PROVE  \E en \in MirrorEntries : en = [vEntries[n] EXCEPT !.payload = x] /\ en.payload = x
                                   /\ en.published = vEntries[n].published
<1>1. vEntries[n] \in MirrorEntries
  BY TrackedIs
<1>2. [vEntries[n] EXCEPT !.payload = x] \in MirrorEntries
  BY <1>1 DEF MirrorEntries
<1> QED  BY <1>1, <1>2 DEF MirrorEntries

\* A tracked node gets another payload: either the next delta tells of it or every
\* peer has missed it.
LEMMA PayloadStep ==
  ASSUME MirrorInv, NEW n \in V!Tracked, NEW x \in MirrorPayloads \cup {None},
         vEntries' = [vEntries EXCEPT ![n].payload = x],
         UNCHANGED <<vEpoch, vAllowed, vFrames, vCopies, vFlushed>>,
         vSets' \in [MirrorNodes -> MirrorPayloads \cup {None}], vStale' \subseteq MirrorNodes,
         vMissed' \in [MirrorPeers -> SUBSET MirrorNodes],
         V!Pending' \subseteq V!Pending \cup {n},
         \A o \in MirrorNodes : o # n =>
           /\ vSets'[o] = vSets[o] /\ (o \in vStale' <=> o \in vStale)
           /\ \A p \in MirrorPeers : o \in vMissed'[p] <=> o \in vMissed[p],
         \/ n \in V!Pending' /\ (n \in vStale' \/ vSets'[n] = x)
         \/ (\A p \in MirrorPeers : n \in vMissed'[p])
         \/ UNCHANGED <<vSets, vStale, vMissed>> /\ x = vEntries[n].payload
  PROVE  MirrorInv'
<1>1. MirrorTypes /\ SourceHeld /\ n \in MirrorNodes
  BY DEF MirrorInv, V!Tracked
<1>2. PICK en \in MirrorEntries : en.payload = x /\ en.published = vEntries[n].published
                                  /\ vEntries' = [vEntries EXCEPT ![n] = en]
  <2>1. PICK en \in MirrorEntries : en = [vEntries[n] EXCEPT !.payload = x] /\ en.payload = x
                                    /\ en.published = vEntries[n].published
    BY <1>1, EntryIs
  <2>2. vEntries' = [vEntries EXCEPT ![n] = en]
    BY <2>1
  <2> QED  BY <2>1, <2>2
<1>3. /\ vEntries'[n] = en
      /\ \A o \in MirrorNodes : o # n => vEntries'[o] = vEntries[o]
  BY <1>1, <1>2 DEF MirrorTypes
<1>4. MirrorTypes'
  <2>1. vEntries' \in [MirrorNodes -> MirrorEntries \cup {None}]
    <3>1. vEntries \in [MirrorNodes -> MirrorEntries \cup {None}] /\ en \in MirrorEntries \cup {None}
      BY <1>1 DEF MirrorTypes
    <3>2. [vEntries EXCEPT ![n] = en] \in [MirrorNodes -> MirrorEntries \cup {None}]
      BY <1>1, <3>1, Replaced
    <3> QED  BY <1>2, <3>2, Zenon
  <2> QED  BY <1>1, <2>1 DEF MirrorTypes
<1>5. V!Tracked' = V!Tracked
  BY <1>1, <1>2, <1>3, MirrorAssumption DEF V!Tracked, MirrorAssumption
<1>6. SourceHeld'
  BY <1>1, <1>2, <1>3, <1>5 DEF SourceHeld, NextBase, V!Tracked
<1>7. ASSUME NEW o \in MirrorNodes, o # n  PROVE o \in V!Pending' <=> o \in V!Pending
  BY <1>7 DEF V!Pending
<1>8. ASSUME NEW p \in MirrorPeers, NEW o \in V!Tracked, Settled(p, o)'
      PROVE  Settled(p, o) /\ vEntries'[o].payload = vEntries[o].payload
  <2>1. CASE o # n
    BY <1>3, <1>7, <1>8, <2>1 DEF Settled, V!Tracked
  <2>2. CASE o = n
    BY <1>2, <1>3, <1>8, <2>2 DEF Settled, V!Pending
  <2> QED  BY <2>1, <2>2
<1>9. ASSUME NEW p \in MirrorPeers  PROVE SetsHeld(p)'
  <2>1. SetsHeld(p)
    BY DEF MirrorInv, PeerHeld
  <2>2. ASSUME NEW o \in MirrorNodes, o \notin vMissed'[p], o \notin vStale', vSets'[o] # None
        PROVE  vSets'[o] = vEntries'[o].payload
    <3>1. CASE o # n
      BY <1>3, <2>1, <2>2, <3>1 DEF SetsHeld
    <3>2. CASE o = n
      BY <1>2, <1>3, <2>1, <2>2, <3>2 DEF SetsHeld
    <3> QED  BY <3>1, <3>2
  <2> QED  BY <2>2 DEF SetsHeld
<1> QED  BY <1>4, <1>5, <1>6, <1>8, <1>9, SourceStep

LEMMA TrackStep ==
  ASSUME MirrorInv, NEW n \in MirrorNodes, NEW x \in MirrorPayloads \cup {None}, V!Track(n, x)
  PROVE  MirrorInv'
<1>1. MirrorTypes /\ SourceHeld
  BY DEF MirrorInv
<1>2. UNCHANGED <<vEpoch, vSets, vStale, vAllowed, vFrames, vCopies, vFlushed>>
  BY DEF V!Track
<1>3. vMissed' \in [MirrorPeers -> SUBSET MirrorNodes] /\ \A p \in MirrorPeers : vMissed[p] \subseteq vMissed'[p]
  BY <1>1 DEF V!Track, V!Unheard, MirrorTypes
<1>4. CASE vEntries[n] = None
  <2>1. vEntries' = [vEntries EXCEPT ![n] = [payload |-> x, published |-> -1]] /\ vMissed' = vMissed
    BY <1>4 DEF V!Track
  <2>2. [payload |-> x, published |-> -1] \in MirrorEntries
    BY DEF MirrorEntries
  <2>3. MirrorTypes'
    BY <1>1, <1>2, <1>3, <2>1, <2>2 DEF MirrorTypes
  <2>4. V!Tracked' = V!Tracked \cup {n} /\ n \notin V!Tracked
    BY <1>1, <1>4, <2>1, <2>2, MirrorAssumption DEF V!Tracked, MirrorTypes, MirrorAssumption
  <2>5. SourceHeld'
    <3>1. V!Pending' = V!Pending
      BY <1>2 DEF V!Pending
    <3>2. NextBase' = NextBase /\ NextBase \in Nat
      BY <1>1, <1>2 DEF NextBase, MirrorTypes
    <3>3. \A o \in V!Tracked : vEntries'[o] = vEntries[o]
      BY <1>1, <2>1, <2>4 DEF MirrorTypes
    <3>4. vEntries'[n].published = -1
      BY <1>1, <2>1 DEF MirrorTypes
    <3> QED  BY <1>1, <2>4, <3>1, <3>2, <3>3, <3>4 DEF SourceHeld
  <2>6. \A o \in V!Tracked : vEntries'[o] = vEntries[o]
    BY <1>1, <2>1, <2>4 DEF MirrorTypes, V!Tracked
  <2>7. n \notin V!Pending /\ V!Pending' = V!Pending
    BY <1>1, <1>2, <2>4 DEF SourceHeld, V!Pending
  <2>8. \A p \in MirrorPeers : SetsHeld(p)'
    <3>1. vSets[n] = None
      BY <1>1, <2>7 DEF V!Pending
    <3>2. \A o \in MirrorNodes : o # n => vEntries'[o] = vEntries[o]
      BY <1>1, <2>1 DEF MirrorTypes
    <3> QED  BY <1>2, <2>1, <3>1, <3>2 DEF SetsHeld, MirrorInv, PeerHeld
  <2>9. \A p \in MirrorPeers, o \in V!Tracked :
          Settled(p, o)' => Settled(p, o) /\ vEntries'[o].payload = vEntries[o].payload
    BY <2>1, <2>6, <2>7 DEF Settled
  <2> QED  BY <1>2, <2>3, <2>4, <2>5, <2>8, <2>9, SourceStep
<1>5. CASE vEntries[n] # None
  <2>1. vEntries' = [vEntries EXCEPT ![n].payload = x] /\ n \in V!Tracked
    BY <1>5 DEF V!Track, V!Tracked
  <2>2. (vMissed' = vMissed /\ x = vEntries[n].payload) \/ \A p \in MirrorPeers : n \in vMissed'[p]
    BY <1>1, <1>5 DEF V!Track, V!Unheard, MirrorTypes
  <2>3. \A o \in MirrorNodes, p \in MirrorPeers : o # n => (o \in vMissed'[p] <=> o \in vMissed[p])
    BY <1>1, <1>5 DEF V!Track, V!Unheard, MirrorTypes
  <2>4. V!Pending' = V!Pending
    BY <1>2 DEF V!Pending
  <2> QED  BY <1>1, <1>2, <1>3, <2>1, <2>2, <2>3, <2>4, PayloadStep DEF MirrorTypes
<1> QED  BY <1>4, <1>5

LEMMA PublishStep ==
  ASSUME MirrorInv, NEW n \in MirrorNodes, NEW x \in MirrorPayloads, V!PublishCell(n, x)
  PROVE  MirrorInv'
<1>1. MirrorTypes /\ SourceHeld /\ x # None
  BY MirrorAssumption DEF MirrorInv, MirrorAssumption
<1>2. /\ n \in V!Tracked /\ vEntries' = [vEntries EXCEPT ![n].payload = x] /\ vSets' = [vSets EXCEPT ![n] = x]
      /\ vMissed' = [p \in MirrorPeers |-> vMissed[p] \ {n}]
      /\ UNCHANGED <<vEpoch, vStale, vAllowed, vFrames, vCopies, vFlushed>>
  BY DEF V!PublishCell, V!Due
<1>3. vSets' \in [MirrorNodes -> MirrorPayloads \cup {None}] /\ vSets'[n] = x
      /\ vMissed' \in [MirrorPeers -> SUBSET MirrorNodes] /\ vStale' \subseteq MirrorNodes
  BY <1>1, <1>2 DEF MirrorTypes
<1>4. \A o \in MirrorNodes : o # n =>
        /\ vSets'[o] = vSets[o] /\ (o \in vStale' <=> o \in vStale)
        /\ \A p \in MirrorPeers : o \in vMissed'[p] <=> o \in vMissed[p]
  BY <1>1, <1>2 DEF MirrorTypes
<1>5. V!Pending' \subseteq V!Pending \cup {n} /\ n \in V!Pending'
  BY <1>1, <1>2, <1>3, <1>4 DEF V!Pending
<1> QED  BY <1>2, <1>3, <1>4, <1>5, PayloadStep

LEMMA InvalidateStep ==
  ASSUME MirrorInv, NEW n \in MirrorNodes, NEW x \in MirrorPayloads \cup {None}, V!InvalidateSlot(n, x)
  PROVE  MirrorInv'
<1>1. MirrorTypes /\ SourceHeld
  BY DEF MirrorInv
<1>2. /\ n \in V!Tracked /\ vStale' = vStale \cup {n}
      /\ vEntries' = IF x = None THEN vEntries ELSE [vEntries EXCEPT ![n].payload = x]
      /\ vMissed' = [p \in MirrorPeers |-> vMissed[p] \ {n}]
      /\ UNCHANGED <<vEpoch, vSets, vAllowed, vFrames, vCopies, vFlushed>>
  BY DEF V!InvalidateSlot, V!Due
<1>3. PICK y \in MirrorPayloads \cup {None} : vEntries' = [vEntries EXCEPT ![n].payload = y]
  <2>1. CASE x # None
    BY <1>2, <2>1
  <2>2. CASE x = None
    <3>1. vEntries[n] \in MirrorEntries /\ vEntries[n].payload \in MirrorPayloads \cup {None}
      BY <1>1, <1>2, TrackedIs
    <3>2. [vEntries[n] EXCEPT !.payload = vEntries[n].payload] = vEntries[n]
      BY <3>1 DEF MirrorEntries
    <3>3. [vEntries EXCEPT ![n].payload = vEntries[n].payload] = vEntries
      BY <1>1, <3>2 DEF MirrorTypes
    <3> QED  BY <1>2, <2>2, <3>1, <3>3
  <2> QED  BY <2>1, <2>2
<1>4. vSets' \in [MirrorNodes -> MirrorPayloads \cup {None}]
      /\ vMissed' \in [MirrorPeers -> SUBSET MirrorNodes] /\ vStale' \subseteq MirrorNodes
  BY <1>1, <1>2 DEF MirrorTypes
<1>5. \A o \in MirrorNodes : o # n =>
        /\ vSets'[o] = vSets[o] /\ (o \in vStale' <=> o \in vStale)
        /\ \A p \in MirrorPeers : o \in vMissed'[p] <=> o \in vMissed[p]
  BY <1>1, <1>2 DEF MirrorTypes
<1>6. V!Pending' \subseteq V!Pending \cup {n} /\ n \in V!Pending' /\ n \in vStale'
  BY <1>1, <1>2 DEF V!Pending
<1> QED  BY <1>2, <1>3, <1>4, <1>5, <1>6, PayloadStep

\* What a new last delta does to those on their way.
LEMMA SortedAppend ==
  ASSUME NEW fs \in Seq(Deltas), NEW e \in Int, NEW msg \in Deltas, msg.base = e, Sorted(fs, e)
  PROVE  Sorted(Append(fs, msg), e + 1)
<1> DEFINE new == Append(fs, msg)
<1>1. Len(new) = Len(fs) + 1 /\ Len(fs) \in Nat /\ new[Len(fs) + 1] = msg /\ \A i \in 1..Len(fs) : new[i] = fs[i]
  BY AppendOf
<1>2. \A i \in 1..Len(fs) : fs[i].base \in Int
  BY BaseIsInt
<1> HIDE DEF new
<1>3. ASSUME NEW i \in 1..Len(new)  PROVE new[i].base < e + 1 /\ \A l \in 1..Len(new) : i < l => new[i].base < new[l].base
  <2>1. CASE i \in 1..Len(fs)
    <3>1. new[i] = fs[i] /\ fs[i].base < e /\ fs[i].base \in Int
      BY <1>1, <1>2, <2>1 DEF Sorted
    <3>2. ASSUME NEW l \in 1..Len(new), i < l  PROVE new[i].base < new[l].base
      <4>1. CASE l \in 1..Len(fs)
        BY <1>1, <2>1, <3>1, <3>2, <4>1 DEF Sorted
      <4>2. CASE l \notin 1..Len(fs)
        BY <1>1, <3>1, <4>2
      <4> QED  BY <4>1, <4>2
    <3> QED  BY <3>1, <3>2
  <2>2. CASE i \notin 1..Len(fs)
    BY <1>1, <2>2
  <2> QED  BY <2>1, <2>2
<1> QED  BY <1>3 DEF Sorted, new

LEMMA GapAppend ==
  ASSUME NEW fs \in Seq(Deltas), NEW e \in Int, NEW top \in Int, NEW msg \in Deltas, msg.base = top, Gap(fs, e, top)
  PROVE  Gap(Append(fs, msg), e, top + 1)
<1>1. PICK b \in Int : e <= b /\ b < top /\ \A i \in 1..Len(fs) : fs[i].base # b
  BY DEF Gap
<1>2. \A i \in 1..Len(Append(fs, msg)) : Append(fs, msg)[i].base # b
  BY <1>1, AppendOf
<1> QED  BY <1>1, <1>2 DEF Gap

\* The new delta tells of the node, or leaves it with what was told before.
LEMMA TellsAppend ==
  ASSUME NEW fs \in Seq(Deltas), NEW msg \in Deltas, NEW n, NEW e, NEW x, n \in DOMAIN msg.ops, msg.ops[n] = x
  PROVE  LastSays(Append(fs, msg), n, e, x)
<1> DEFINE new == Append(fs, msg)
<1>1. Len(new) = Len(fs) + 1 /\ Len(fs) \in Nat /\ new[Len(fs) + 1] = msg
  BY AppendOf
<1> HIDE DEF new
<1>2. ASSUME NEW i \in 1..Len(new), \A l \in 1..Len(new) : i < l => n \notin DOMAIN new[l].ops  PROVE i = Len(new)
  BY <1>1, <1>2
<1> QED  BY <1>1, <1>2 DEF LastSays, new

LEMMA SilentAppend ==
  ASSUME NEW fs \in Seq(Deltas), NEW msg \in Deltas, NEW n, NEW e, NEW x, n \notin DOMAIN msg.ops
  PROVE  /\ LastSays(fs, n, e, x) => LastSays(Append(fs, msg), n, e, x)
         /\ Untold(Append(fs, msg), n, e) => Untold(fs, n, e)
<1> DEFINE new == Append(fs, msg)
<1>1. Len(new) = Len(fs) + 1 /\ Len(fs) \in Nat /\ new[Len(fs) + 1] = msg /\ \A i \in 1..Len(fs) : new[i] = fs[i]
  BY AppendOf
<1> HIDE DEF new
<1>2. Untold(new, n, e) => Untold(fs, n, e)
  BY <1>1 DEF Untold
<1>3. ASSUME LastSays(fs, n, e, x), NEW i \in 1..Len(new), new[i].base >= e, n \in DOMAIN new[i].ops,
             \A l \in 1..Len(new) : i < l => n \notin DOMAIN new[l].ops
      PROVE  new[i].ops[n] = x
  <2>1. i \in 1..Len(fs) /\ new[i] = fs[i]
    BY <1>1, <1>3
  <2>2. \A l \in 1..Len(fs) : i < l => n \notin DOMAIN fs[l].ops
    BY <1>1, <1>3
  <2> QED  BY <1>3, <2>1, <2>2 DEF LastSays
<1> QED  BY <1>2, <1>3 DEF LastSays, new

\* What a flush sends: every pending node's payload, since none of them can have
\* been flushed at this epoch before.
LEMMA FlushedOps ==
  ASSUME MirrorInv, ~vFlushed
  PROVE  /\ DOMAIN V!Ops = V!Pending
         /\ \A n \in V!Pending : V!Ops[n] \in MirrorPayloads \cup {None}
         /\ \A p \in MirrorPeers, n \in V!Pending : n \notin vMissed[p] => V!Ops[n] = vEntries[n].payload
<1>1. MirrorTypes /\ SourceHeld /\ NextBase = vEpoch /\ vEpoch \in Int
  BY DEF MirrorInv, NextBase, MirrorTypes
<1>2. ASSUME NEW n \in V!Pending  PROVE ~V!Suppressed(n) /\ n \in V!Tracked
  <2>1. n \in V!Tracked /\ vEntries[n].published < vEpoch /\ vEntries[n].published \in Int
    BY <1>1, TrackedIs DEF SourceHeld
  <2> QED  BY <1>1, <2>1 DEF V!Suppressed
<1>3. V!Ops = [n \in V!Pending |-> IF n \in vStale THEN vEntries[n].payload ELSE vSets[n]]
  <2>1. vStale \cup {m_1 \in MirrorNodes : vSets[m_1] # None /\ ~V!Suppressed(m_1)} = V!Pending
    BY <1>2 DEF V!Pending
  <2> QED  BY <2>1 DEF V!Ops
<1>4. \A n \in V!Pending : n \in MirrorNodes /\ vEntries[n].payload \in MirrorPayloads \cup {None}
                           /\ vSets[n] \in MirrorPayloads \cup {None} /\ (n \notin vStale => vSets[n] # None)
  BY <1>1, <1>2, TrackedIs DEF MirrorTypes, V!Pending
<1>5. \A p \in MirrorPeers : SetsHeld(p)
  BY DEF MirrorInv, PeerHeld
<1> QED  BY <1>3, <1>4, <1>5 DEF SetsHeld

LEMMA FlushStep ==
  ASSUME MirrorInv, NEW next \in {vEpoch, vEpoch + 1}, V!Flush(next)
  PROVE  MirrorInv'
<1> DEFINE msg(p) == [base |-> vEpoch, ops |-> [n \in V!Readable(p, DOMAIN V!Ops) |-> V!Ops[n]]]
<1>1. MirrorTypes /\ SourceHeld /\ ~vFlushed /\ vEpoch \in Nat /\ NextBase = vEpoch
  BY DEF MirrorInv, MirrorTypes, NextBase, V!Flush
<1>2. /\ vFrames' = [p \in MirrorPeers |-> Append(vFrames[p], msg(p))]
      /\ vEntries' = [n \in MirrorNodes |->
           IF n \in V!Pending THEN [vEntries[n] EXCEPT !.published = vEpoch] ELSE vEntries[n]]
      /\ vSets' = [n \in MirrorNodes |-> None] /\ vStale' = {} /\ vEpoch' = next /\ vFlushed' = (next = vEpoch)
      /\ vMissed' = [p \in MirrorPeers |-> vMissed[p] \cup (V!Pending \ vAllowed[p])]
      /\ UNCHANGED <<vAllowed, vCopies>>
  BY <1>1, FlushedOps DEF V!Flush
<1>3. ASSUME NEW p \in MirrorPeers
      PROVE  /\ msg(p) \in Deltas /\ msg(p).base = vEpoch /\ DOMAIN msg(p).ops = V!Pending \cap vAllowed[p]
             /\ \A n \in V!Pending \cap vAllowed[p] : n \notin vMissed[p] => msg(p).ops[n] = vEntries[n].payload
  <2> DEFINE S == V!Pending \cap vAllowed[p]
             ops == [n \in S |-> V!Ops[n]]
  <2>1. msg(p) = [base |-> vEpoch, ops |-> ops]
    BY <1>1, FlushedOps DEF V!Readable
  <2>2. S \subseteq MirrorNodes
    BY <1>1 DEF MirrorTypes
  <2>3. ops \in [S -> MirrorPayloads \cup {None}]
    BY <1>1, FlushedOps
  <2>4. ops \in MirrorViews
    BY <2>2, <2>3 DEF MirrorViews
  <2>5. [base |-> vEpoch, ops |-> ops] \in Deltas
    BY <1>1, <2>4 DEF Deltas
  <2>6. \A n \in S : n \notin vMissed[p] => ops[n] = vEntries[n].payload
    BY <1>1, FlushedOps
  <2> QED  BY <2>1, <2>5, <2>6
<1> HIDE DEF msg
<1>4. NextBase' = vEpoch + 1 /\ V!Pending' = {}
  BY <1>1, <1>2 DEF NextBase, V!Pending
<1>5. \A n \in MirrorNodes :
        IF vEntries[n] = None THEN vEntries'[n] = None
        ELSE /\ vEntries'[n] \in MirrorEntries /\ vEntries'[n].payload = vEntries[n].payload
             /\ vEntries'[n].published < vEpoch + 1
  <2> SUFFICES ASSUME NEW n \in MirrorNodes
               PROVE  IF vEntries[n] = None THEN vEntries'[n] = None
                      ELSE /\ vEntries'[n] \in MirrorEntries /\ vEntries'[n].payload = vEntries[n].payload
                           /\ vEntries'[n].published < vEpoch + 1
    OBVIOUS
  <2>1. CASE n \in V!Pending
    <3>1. vEntries[n] \in MirrorEntries /\ vEntries[n] # None
      BY <1>1, <2>1, TrackedIs DEF SourceHeld, V!Tracked
    <3>2. vEntries'[n] = [vEntries[n] EXCEPT !.published = vEpoch]
      BY <1>2, <2>1
    <3> QED  BY <1>1, <3>1, <3>2 DEF MirrorEntries
  <2>2. CASE n \notin V!Pending
    <3>1. vEntries'[n] = vEntries[n]
      BY <1>2, <2>2
    <3>2. vEntries[n] # None => vEntries[n] \in MirrorEntries /\ vEntries[n].published < vEpoch /\ vEntries[n].published \in Int
      BY <1>1, TrackedIs DEF SourceHeld, V!Tracked
    <3> QED  BY <1>1, <3>1, <3>2
  <2> QED  BY <2>1, <2>2
<1>6. V!Tracked' = V!Tracked
  BY <1>5, MirrorAssumption DEF V!Tracked, MirrorAssumption
<1>7. SourceHeld'
  BY <1>4, <1>5, <1>6 DEF SourceHeld, V!Tracked
<1>8. MirrorTypes'
  <2>1. vEntries' \in [MirrorNodes -> MirrorEntries \cup {None}]
    BY <1>2, <1>5
  <2>2. vFrames' \in [MirrorPeers -> Seq(Deltas)]
    <3>1. \A p \in MirrorPeers : Append(vFrames[p], msg(p)) \in Seq(Deltas)
      BY <1>1, <1>3, AppendOf DEF MirrorTypes
    <3> QED  BY <1>2, <3>1
  <2>3. vMissed' \in [MirrorPeers -> SUBSET MirrorNodes]
    <3>1. V!Pending \subseteq MirrorNodes
      BY <1>1 DEF MirrorTypes, V!Pending
    <3> QED  BY <1>1, <1>2, <3>1 DEF MirrorTypes
  <2>4. vEpoch' \in Nat /\ vFlushed' \in BOOLEAN /\ vStale' \subseteq MirrorNodes
        /\ vSets' \in [MirrorNodes -> MirrorPayloads \cup {None}]
    BY <1>1, <1>2
  <2> QED  BY <1>1, <1>2, <2>1, <2>2, <2>3, <2>4 DEF MirrorTypes
<1>9. ASSUME NEW p \in MirrorPeers  PROVE PeerHeld(p)'
  <2> DEFINE fs == vFrames[p]
             new == Append(fs, msg(p))
  <2>1. fs \in Seq(Deltas) /\ vFrames'[p] = new /\ PeerHeld(p) /\ vCopies'[p] = vCopies[p]
    BY <1>1, <1>2 DEF MirrorTypes, MirrorInv
  <2>2. SetsHeld(p)'
    BY <1>2 DEF SetsHeld
  <2>3. Sorted(new, vEpoch + 1)
    BY <1>1, <1>3, <2>1, SortedAppend DEF PeerHeld, FramesHeld
  <2>4. \A i \in 1..Len(new) : DOMAIN new[i].ops \subseteq V!Tracked
    <3>1. V!Pending \subseteq V!Tracked
      BY <1>1 DEF SourceHeld
    <3>2. Len(new) = Len(fs) + 1 /\ Len(fs) \in Nat /\ new[Len(fs) + 1] = msg(p) /\ \A i \in 1..Len(fs) : new[i] = fs[i]
      BY <1>3, <2>1, AppendOf
    <3>3. DOMAIN msg(p).ops \subseteq V!Tracked
      BY <1>3, <3>1
    <3> HIDE DEF new
    <3> QED  BY <2>1, <3>2, <3>3 DEF PeerHeld, FramesHeld
  <2>5. ASSUME NEW n \in V!Tracked, Settled(p, n)'
        PROVE  /\ n \notin vMissed[p] /\ vEntries'[n].payload = vEntries[n].payload
               /\ IF n \in V!Pending THEN n \in DOMAIN msg(p).ops /\ msg(p).ops[n] = vEntries[n].payload
                  ELSE n \notin DOMAIN msg(p).ops /\ Settled(p, n)
    BY <1>2, <1>3, <1>5, <2>5 DEF Settled, V!Tracked
  <2>6. ASSUME vFlushed', NEW n \in V!Tracked, Settled(p, n)'
        PROVE  LastSays(new, n, vEpoch, vEntries'[n].payload)
    <3>1. CASE n \in V!Pending
      BY <1>3, <2>1, <2>5, <2>6, <3>1, TellsAppend
    <3>2. CASE n \notin V!Pending
      <4>1. LastSays(fs, n, vEpoch, vEntries'[n].payload)
        <5>1. \A i \in 1..Len(fs) : fs[i].base < vEpoch /\ fs[i].base \in Int
          BY <1>1, <2>1, BaseIsInt DEF PeerHeld, FramesHeld, Sorted
        <5> QED  BY <1>1, <5>1 DEF LastSays
      <4> QED  BY <1>3, <2>1, <2>5, <2>6, <3>2, <4>1, SilentAppend
    <3> QED  BY <3>1, <3>2
  <2>7. FramesHeld(p, vFrames[p])'
    <3>1. vFlushed' => vEpoch' = vEpoch
      BY <1>2
    <3> QED  BY <1>4, <1>6, <2>1, <2>3, <2>4, <2>6, <3>1 DEF FramesHeld
  <2>8. ASSUME vCopies[p] # None  PROVE CopyHeld(p, vFrames[p], vCopies[p])'
    <3> DEFINE copy == vCopies[p]
    <3>1. copy.epoch \in Int /\ copy.epoch <= vEpoch /\ DOMAIN copy.nodes \subseteq V!Tracked
          /\ CopyHeld(p, fs, copy)
      BY <1>1, <2>1, <2>8 DEF MirrorTypes, MirrorCopies, PeerHeld, CopyHeld
    <3>2. CASE Gap(fs, copy.epoch, vEpoch)
      <4>1. Gap(new, copy.epoch, vEpoch + 1)
        BY <1>1, <1>3, <2>1, <3>1, <3>2, GapAppend
      <4> QED  BY <1>1, <1>2, <1>4, <1>6, <2>1, <3>1, <4>1 DEF CopyHeld
    <3>3. CASE ~Gap(fs, copy.epoch, vEpoch)
      <4>1. ASSUME NEW n \in DOMAIN copy.nodes, Settled(p, n)'
            PROVE  InStep(new, copy, n, vEntries'[n].payload)
        <5>1. n \in V!Tracked
          BY <3>1
        <5>2. CASE n \in V!Pending
          <6>1. n \in DOMAIN msg(p).ops /\ msg(p).ops[n] = vEntries'[n].payload
            BY <2>5, <4>1, <5>1, <5>2
          <6>2. LastSays(new, n, copy.epoch, vEntries'[n].payload)
            BY <1>3, <2>1, <6>1, TellsAppend
          <6>3. ~Untold(new, n, copy.epoch)
            <7>1. Len(new) = Len(fs) + 1 /\ Len(fs) \in Nat /\ new[Len(fs) + 1] = msg(p)
              BY <1>3, <2>1, AppendOf
            <7> HIDE DEF new
            <7>2. Len(fs) + 1 \in 1..Len(new) /\ msg(p).base >= copy.epoch
              BY <1>1, <1>3, <3>1, <7>1
            <7> QED  BY <6>1, <7>1, <7>2 DEF Untold
          <6> QED  BY <6>2, <6>3 DEF InStep
        <5>3. CASE n \notin V!Pending
          <6>1. n \notin DOMAIN msg(p).ops /\ Settled(p, n) /\ vEntries'[n].payload = vEntries[n].payload
            BY <2>5, <4>1, <5>1, <5>3
          <6>2. InStep(fs, copy, n, vEntries[n].payload)
            BY <1>1, <3>1, <3>3, <6>1 DEF CopyHeld
          <6> QED  BY <1>3, <2>1, <6>1, <6>2, SilentAppend DEF InStep
        <5> QED  BY <5>2, <5>3
      <4>2. vCopies'[p].epoch <= NextBase' /\ DOMAIN vCopies'[p].nodes \subseteq V!Tracked'
        BY <1>1, <1>4, <1>6, <2>1, <3>1
      <4>3. \A n \in DOMAIN vCopies'[p].nodes :
              Settled(p, n)' => InStep(vFrames'[p], vCopies'[p], n, vEntries'[n].payload)
        BY <2>1, <4>1
      <4> QED  BY <4>2, <4>3 DEF CopyHeld
    <3> QED  BY <3>2, <3>3
  <2> QED  BY <2>1, <2>2, <2>7, <2>8 DEF PeerHeld
<1> QED  BY <1>7, <1>8, <1>9 DEF MirrorInv

\* A bump that follows no flush leaves every copy with a gap.
LEMMA BumpStep ==
  ASSUME MirrorInv, V!BumpEpoch
  PROVE  MirrorInv'
<1>1. MirrorTypes /\ SourceHeld /\ vEpoch \in Nat
  BY DEF MirrorInv, MirrorTypes
<1>2. vEpoch' = vEpoch + 1 /\ vFlushed' = FALSE
      /\ UNCHANGED <<vEntries, vSets, vStale, vAllowed, vFrames, vCopies, vMissed>>
  BY DEF V!BumpEpoch
<1>3. MirrorTypes'
  <2>1. vEpoch' \in Nat
    BY <1>1, <1>2
  <2>2. vFlushed' \in BOOLEAN
    BY <1>2, Zenon
  <2> QED  BY <1>1, <1>2, <2>1, <2>2 DEF MirrorTypes
<1>4. V!Tracked' = V!Tracked /\ V!Pending' = V!Pending /\ \A p \in MirrorPeers, n \in MirrorNodes : Settled(p, n)' = Settled(p, n)
  BY <1>2 DEF V!Tracked, V!Pending, Settled
<1>5. NextBase' = vEpoch + 1 /\ NextBase \in Int /\ NextBase = (IF vFlushed THEN vEpoch + 1 ELSE vEpoch)
  BY <1>1, <1>2 DEF NextBase
<1>6. SourceHeld'
  BY <1>1, <1>2, <1>4, <1>5, TrackedIs DEF SourceHeld
<1>7. ASSUME NEW p \in MirrorPeers  PROVE PeerHeld(p)'
  <2>1. PeerHeld(p) /\ vFrames'[p] = vFrames[p] /\ vCopies'[p] = vCopies[p] /\ vFrames[p] \in Seq(Deltas)
    BY <1>1, <1>2 DEF MirrorInv, MirrorTypes
  <2>2. \A i \in 1..Len(vFrames[p]) : vFrames[p][i].base \in Int /\ vFrames[p][i].base < NextBase
    BY <2>1, BaseIsInt DEF PeerHeld, FramesHeld, Sorted
  <2>3. FramesHeld(p, vFrames[p])'
    BY <1>2, <1>4, <1>5, <2>1, <2>2 DEF PeerHeld, FramesHeld, Sorted
  <2>4. SetsHeld(p)'
    BY <1>2, <2>1 DEF PeerHeld, SetsHeld
  <2>5. ASSUME vCopies[p] # None  PROVE CopyHeld(p, vFrames[p], vCopies[p])'
    <3>1. CopyHeld(p, vFrames[p], vCopies[p]) /\ vCopies[p].epoch \in Int
      BY <1>1, <2>1, <2>5 DEF PeerHeld, MirrorTypes, MirrorCopies
    <3>2. vCopies'[p].epoch <= NextBase' /\ DOMAIN vCopies'[p].nodes \subseteq V!Tracked'
      BY <1>1, <1>4, <1>5, <2>1, <3>1 DEF CopyHeld
    <3>3. CASE vFlushed
      <4>1. NextBase' = NextBase
        BY <1>5, <3>3
      <4>2. Gap(vFrames[p], vCopies[p].epoch, NextBase) => Gap(vFrames'[p], vCopies'[p].epoch, NextBase')
        BY <2>1, <4>1
      <4>3. \A n \in DOMAIN vCopies[p].nodes : n \in MirrorNodes
        BY <3>1 DEF CopyHeld, V!Tracked
      <4>4. \A n \in DOMAIN vCopies[p].nodes : vEntries'[n].payload = vEntries[n].payload /\ Settled(p, n)' = Settled(p, n)
        BY <1>2, <1>4, <4>3
      <4> QED  BY <2>1, <3>1, <3>2, <4>2, <4>4 DEF CopyHeld
    <3>4. CASE ~vFlushed
      <4>1. vCopies[p].epoch <= vEpoch /\ vEpoch < vEpoch + 1 /\ \A i \in 1..Len(vFrames[p]) : vFrames[p][i].base # vEpoch
        BY <1>5, <2>2, <3>1, <3>4 DEF CopyHeld
      <4>2. Gap(vFrames'[p], vCopies'[p].epoch, NextBase')
        BY <1>1, <1>5, <2>1, <4>1 DEF Gap
      <4> QED  BY <3>2, <4>2 DEF CopyHeld
    <3> QED  BY <3>3, <3>4
  <2> QED  BY <2>1, <2>3, <2>4, <2>5 DEF PeerHeld
<1> QED  BY <1>3, <1>6, <1>7 DEF MirrorInv

\* What a call on one peer's connection has to show.
LEMMA PeerStep ==
  ASSUME MirrorInv, NEW p \in MirrorPeers, MirrorTypes', PeerHeld(p)',
         UNCHANGED <<vEntries, vEpoch, vSets, vStale, vFlushed>>,
         \A q \in MirrorPeers : q # p =>
           vFrames'[q] = vFrames[q] /\ vCopies'[q] = vCopies[q] /\ vMissed'[q] = vMissed[q]
  PROVE  MirrorInv'
<1>1. NextBase' = NextBase /\ V!Tracked' = V!Tracked /\ V!Pending' = V!Pending
  BY DEF NextBase, V!Tracked, V!Pending
<1>2. SourceHeld'
  BY <1>1 DEF MirrorInv, SourceHeld
<1>3. ASSUME NEW q \in MirrorPeers, q # p  PROVE PeerHeld(q)'
  <2>1. PeerHeld(q) /\ vFrames'[q] = vFrames[q] /\ vCopies'[q] = vCopies[q] /\ vMissed'[q] = vMissed[q]
    BY <1>3 DEF MirrorInv
  <2>2. \A n : Settled(q, n)' = Settled(q, n)
    BY <1>1, <2>1 DEF Settled
  <2>3. FramesHeld(q, vFrames[q])'
    BY <1>1, <2>1, <2>2 DEF PeerHeld, FramesHeld
  <2>4. SetsHeld(q)'
    BY <2>1 DEF PeerHeld, SetsHeld
  <2>5. vCopies[q] # None => CopyHeld(q, vFrames[q], vCopies[q])'
    BY <1>1, <2>1, <2>2 DEF PeerHeld, CopyHeld
  <2> QED  BY <2>1, <2>3, <2>4, <2>5 DEF PeerHeld
<1> QED  BY <1>2, <1>3 DEF MirrorInv

LEMMA SnapshotStep ==
  ASSUME MirrorInv, NEW p \in MirrorPeers, V!SnapshotFor(p)
  PROVE  MirrorInv'
<1> DEFINE S == V!Tracked \cap vAllowed[p]
           nodes == [n \in S |-> vEntries[n].payload]
           copy == [epoch |-> vEpoch, nodes |-> nodes]
           now == (V!Tracked \ vAllowed[p]) \cup {n \in vMissed[p] : vFlushed \/ vSets[n] # None}
<1>1. MirrorTypes /\ PeerHeld(p) /\ vEpoch \in Nat
  BY DEF MirrorInv, MirrorTypes
<1>2. /\ vCopies' = [vCopies EXCEPT ![p] = copy] /\ vMissed' = [vMissed EXCEPT ![p] = now]
      /\ UNCHANGED <<vEntries, vEpoch, vSets, vStale, vAllowed, vFrames, vFlushed>>
  BY <1>1 DEF V!SnapshotFor, V!Readable, MirrorTypes
<1>3. copy \in MirrorCopies /\ copy.epoch = vEpoch /\ copy.nodes = nodes /\ DOMAIN nodes = S
  <2>1. S \subseteq MirrorNodes /\ nodes \in [S -> MirrorPayloads \cup {None}]
    BY <1>1, TrackedIs DEF V!Tracked
  <2>2. nodes \in MirrorViews
    BY <2>1 DEF MirrorViews
  <2> HIDE DEF nodes
  <2>3. copy \in MirrorCopies
    BY <1>1, <2>2 DEF MirrorCopies
  <2> QED  BY <2>1, <2>3
<1>4. now \subseteq MirrorNodes
  BY <1>1 DEF MirrorTypes, V!Tracked
<1>5. \A n \in S : nodes[n] = vEntries[n].payload
  OBVIOUS
<1> HIDE DEF copy, nodes
<1>6. vCopies'[p] = copy /\ vMissed'[p] = now /\ vFrames'[p] = vFrames[p] /\ vFrames[p] \in Seq(Deltas)
      /\ \A q \in MirrorPeers : q # p => vFrames'[q] = vFrames[q] /\ vCopies'[q] = vCopies[q] /\ vMissed'[q] = vMissed[q]
  BY <1>1, <1>2 DEF MirrorTypes
<1>7. MirrorTypes'
  <2>1. vCopies' \in [MirrorPeers -> MirrorCopies \cup {None}]
    BY <1>1, <1>2, <1>3 DEF MirrorTypes
  <2>2. vMissed' \in [MirrorPeers -> SUBSET MirrorNodes]
    BY <1>1, <1>2, <1>4 DEF MirrorTypes
  <2> QED  BY <1>1, <1>2, <2>1, <2>2 DEF MirrorTypes
<1>8. NextBase' = NextBase /\ V!Tracked' = V!Tracked /\ V!Pending' = V!Pending
  BY <1>2 DEF NextBase, V!Tracked, V!Pending
<1>9. \A n : vFlushed /\ Settled(p, n)' => Settled(p, n)
  BY <1>6, <1>8 DEF Settled
<1>10. FramesHeld(p, vFrames[p])'
  BY <1>1, <1>2, <1>6, <1>8, <1>9 DEF PeerHeld, FramesHeld
<1>11. SetsHeld(p)'
  BY <1>1, <1>2, <1>6 DEF PeerHeld, SetsHeld
<1>12. CopyHeld(p, vFrames[p], vCopies[p])'
  <2>1. copy.epoch <= NextBase' /\ DOMAIN copy.nodes \subseteq V!Tracked'
    BY <1>1, <1>3, <1>8 DEF NextBase
  <2>2. ASSUME NEW n \in DOMAIN copy.nodes, Settled(p, n)'
        PROVE  InStep(vFrames[p], copy, n, vEntries[n].payload)
    <3>1. n \in V!Tracked /\ copy.nodes[n] = vEntries[n].payload
      BY <1>3, <1>5, <2>2
    <3>2. CASE vFlushed
      <4>1. LastSays(vFrames[p], n, vEpoch, vEntries[n].payload)
        BY <1>1, <1>9, <2>2, <3>1, <3>2 DEF PeerHeld, FramesHeld
      <4> QED  BY <1>3, <3>1, <4>1 DEF InStep
    <3>3. CASE ~vFlushed
      <4>1. \A i \in 1..Len(vFrames[p]) : vFrames[p][i].base < vEpoch /\ vFrames[p][i].base \in Int
        BY <1>1, <1>6, <3>3, BaseIsInt DEF PeerHeld, FramesHeld, Sorted, NextBase
      <4>2. LastSays(vFrames[p], n, vEpoch, vEntries[n].payload)
        BY <1>1, <4>1 DEF LastSays
      <4> QED  BY <1>3, <3>1, <4>2 DEF InStep
    <3> QED  BY <3>2, <3>3
  <2>3. \A n \in DOMAIN vCopies'[p].nodes :
          Settled(p, n)' => InStep(vFrames'[p], vCopies'[p], n, vEntries'[n].payload)
    BY <1>2, <1>6, <2>2
  <2> QED  BY <1>6, <2>1, <2>3 DEF CopyHeld
<1>13. PeerHeld(p)'
  BY <1>10, <1>11, <1>12 DEF PeerHeld
<1> QED  BY <1>2, <1>6, <1>7, <1>13, PeerStep

\* Whatever becomes of the first delta, the rest say of a settled node what they said.
LEMMA TailHeld ==
  ASSUME MirrorInv, NEW p \in MirrorPeers, vFrames[p] # << >>
  PROVE  FramesHeld(p, Tail(vFrames[p])) /\ Tail(vFrames[p]) \in Seq(Deltas)
<1> DEFINE fs == vFrames[p]
<1>1. fs \in Seq(Deltas) /\ FramesHeld(p, fs) /\ NextBase \in Int /\ vEpoch \in Int
  BY DEF MirrorInv, MirrorTypes, PeerHeld, NextBase
<1>2. Sorted(Tail(fs), NextBase)
  BY <1>1, SortedTail DEF FramesHeld
<1>3. \A i \in 1..Len(Tail(fs)) : DOMAIN Tail(fs)[i].ops \subseteq V!Tracked
  <2> SUFFICES ASSUME NEW i \in 1..Len(Tail(fs))  PROVE DOMAIN Tail(fs)[i].ops \subseteq V!Tracked
    OBVIOUS
  <2>1. i + 1 \in 1..Len(fs) /\ Tail(fs)[i] = fs[i + 1]
    BY <1>1, TailOf
  <2> QED  BY <1>1, <2>1 DEF FramesHeld
<1>4. \A n, x : LastSays(fs, n, vEpoch, x) => LastSays(Tail(fs), n, vEpoch, x)
  BY <1>1, LastSaysTail
<1> QED  BY <1>1, <1>2, <1>3, <1>4, TailOf DEF FramesHeld

\* What taking the first delta off has to show of the copy.
LEMMA TakenStep ==
  ASSUME MirrorInv, NEW p \in MirrorPeers, vFrames[p] # << >>, NEW copy \in MirrorCopies \cup {None},
         vFrames' = [vFrames EXCEPT ![p] = Tail(@)], vCopies' = [vCopies EXCEPT ![p] = copy],
         UNCHANGED <<vEntries, vEpoch, vSets, vStale, vAllowed, vFlushed, vMissed>>,
         copy # None => CopyHeld(p, Tail(vFrames[p]), copy)
  PROVE  MirrorInv'
<1>1. MirrorTypes /\ PeerHeld(p)
  BY DEF MirrorInv
<1>2. vFrames'[p] = Tail(vFrames[p]) /\ vCopies'[p] = copy
      /\ \A q \in MirrorPeers : q # p => vFrames'[q] = vFrames[q] /\ vCopies'[q] = vCopies[q] /\ vMissed'[q] = vMissed[q]
  BY <1>1 DEF MirrorTypes
<1>3. MirrorTypes'
  <2>1. vFrames' \in [MirrorPeers -> Seq(Deltas)]
    BY <1>1, TailHeld DEF MirrorTypes
  <2>2. vCopies' \in [MirrorPeers -> MirrorCopies \cup {None}]
    BY <1>1 DEF MirrorTypes
  <2> QED  BY <1>1, <2>1, <2>2 DEF MirrorTypes
<1>4. NextBase' = NextBase /\ V!Tracked' = V!Tracked /\ V!Pending' = V!Pending /\ \A n : Settled(p, n)' = Settled(p, n)
  BY DEF NextBase, V!Tracked, V!Pending, Settled
<1>5. FramesHeld(p, vFrames[p])'
  BY <1>2, <1>4, TailHeld DEF FramesHeld
<1>6. SetsHeld(p)'
  BY <1>1 DEF PeerHeld, SetsHeld
<1>7. copy # None => CopyHeld(p, vFrames[p], vCopies[p])'
  BY <1>2, <1>4 DEF CopyHeld
<1>8. PeerHeld(p)'
  BY <1>2, <1>5, <1>6, <1>7 DEF PeerHeld
<1> QED  BY <1>2, <1>3, <1>8, PeerStep

LEMMA LoseStep ==
  ASSUME MirrorInv, NEW p \in MirrorPeers, V!Lose(p)
  PROVE  MirrorInv'
<1> DEFINE fs == vFrames[p]
           copy == vCopies[p]
<1>1. MirrorTypes /\ fs \in Seq(Deltas) /\ fs # << >> /\ PeerHeld(p) /\ NextBase \in Int
      /\ copy \in MirrorCopies \cup {None}
  BY DEF V!Lose, MirrorInv, MirrorTypes, NextBase
<1>2. vFrames' = [vFrames EXCEPT ![p] = Tail(@)] /\ vCopies' = [vCopies EXCEPT ![p] = copy]
      /\ UNCHANGED <<vEntries, vEpoch, vSets, vStale, vAllowed, vFlushed, vMissed>>
  BY <1>1 DEF V!Lose, MirrorTypes
<1>3. ASSUME copy # None  PROVE CopyHeld(p, Tail(fs), copy)
  <2>1. copy.epoch \in Int /\ CopyHeld(p, fs, copy) /\ Sorted(fs, NextBase)
    BY <1>1, <1>3 DEF PeerHeld, FramesHeld, MirrorCopies
  <2>2. CASE Gap(fs, copy.epoch, NextBase) \/ fs[1].base >= copy.epoch
    BY <1>1, <2>1, <2>2, GapTail DEF CopyHeld
  <2>3. CASE ~Gap(fs, copy.epoch, NextBase) /\ ~(fs[1].base >= copy.epoch)
    <3>1. ASSUME NEW n \in DOMAIN copy.nodes, Settled(p, n)
          PROVE  InStep(Tail(fs), copy, n, vEntries[n].payload)
      <4>1. InStep(fs, copy, n, vEntries[n].payload)
        BY <2>1, <2>3, <3>1 DEF CopyHeld
      <4>2. LastSays(Tail(fs), n, copy.epoch, vEntries[n].payload)
        BY <1>1, <2>1, <4>1, LastSaysTail DEF InStep
      <4>3. Untold(Tail(fs), n, copy.epoch) => Untold(fs, n, copy.epoch)
        BY <1>1, <2>1, <2>3, UntoldTail
      <4> QED  BY <4>1, <4>2, <4>3 DEF InStep
    <3> QED  BY <2>1, <3>1 DEF CopyHeld
  <2> QED  BY <2>2, <2>3
<1> QED  BY <1>1, <1>2, <1>3, TakenStep

\* The next delta brings the copy one epoch on; another leaves none.
LEMMA ReceiveStep ==
  ASSUME MirrorInv, NEW p \in MirrorPeers, V!Receive(p)
  PROVE  MirrorInv'
<1> DEFINE fs == vFrames[p]
           old == vCopies[p]
           delta == fs[1]
           nodes == [n \in DOMAIN old.nodes |-> IF n \in DOMAIN delta.ops THEN delta.ops[n] ELSE old.nodes[n]]
           new == [epoch |-> delta.base + 1, nodes |-> nodes]
           copy == IF delta.base = old.epoch THEN new ELSE None
<1>1. MirrorTypes /\ fs \in Seq(Deltas) /\ fs # << >> /\ PeerHeld(p) /\ NextBase \in Int
      /\ old \in MirrorCopies /\ old # None
  BY DEF V!Receive, MirrorInv, MirrorTypes, NextBase
<1>2. Head(fs) = delta /\ 1 \in 1..Len(fs) /\ Len(fs) \in Nat
  BY <1>1, TailOf
<1>3. delta.base \in Int /\ delta.ops \in MirrorViews /\ old.epoch \in Int /\ old.nodes \in MirrorViews
  <2>1. delta \in Deltas
    BY <1>1, <1>2
  <2> HIDE DEF delta
  <2> QED  BY <1>1, <2>1 DEF Deltas, MirrorCopies
<1>4. vFrames' = [vFrames EXCEPT ![p] = Tail(@)] /\ vCopies' = [vCopies EXCEPT ![p] = copy]
      /\ UNCHANGED <<vEntries, vEpoch, vSets, vStale, vAllowed, vFlushed, vMissed>>
  BY <1>1, <1>2 DEF V!Receive, V!IsNextAfter, MirrorTypes
<1>5. nodes \in MirrorViews
  <2>1. PICK S \in SUBSET MirrorNodes : old.nodes \in [S -> MirrorPayloads \cup {None}]
    BY <1>3 DEF MirrorViews
  <2>2. PICK O \in SUBSET MirrorNodes : delta.ops \in [O -> MirrorPayloads \cup {None}]
    BY <1>3 DEF MirrorViews
  <2>3. nodes \in [S -> MirrorPayloads \cup {None}]
    BY <2>1, <2>2
  <2> HIDE DEF nodes
  <2> QED  BY <2>3 DEF MirrorViews
<1>6. new \in MirrorCopies /\ new.epoch = delta.base + 1 /\ new.nodes = nodes
  <2> HIDE DEF nodes
  <2> QED  BY <1>3, <1>5 DEF MirrorCopies
<1>7. DOMAIN nodes = DOMAIN old.nodes
      /\ \A n \in DOMAIN nodes : nodes[n] = IF n \in DOMAIN delta.ops THEN delta.ops[n] ELSE old.nodes[n]
  OBVIOUS
<1> HIDE DEF nodes, new
<1>8. ASSUME delta.base = old.epoch  PROVE CopyHeld(p, Tail(fs), new)
  <2>1. CopyHeld(p, fs, old) /\ Sorted(fs, NextBase)
    BY <1>1 DEF PeerHeld, FramesHeld
  <2>2. new.epoch <= NextBase /\ DOMAIN new.nodes \subseteq V!Tracked
    BY <1>1, <1>2, <1>3, <1>6, <1>7, <2>1 DEF CopyHeld, Sorted
  <2>3. \A i \in 2..Len(fs) : fs[i].base \in Int /\ fs[i].base > delta.base
    BY <1>1, <1>2, <2>1, BaseIsInt DEF Sorted
  <2>4. CASE Gap(fs, old.epoch, NextBase)
    <3>1. PICK b \in Int : old.epoch <= b /\ b < NextBase /\ \A i \in 1..Len(fs) : fs[i].base # b
      BY <2>4 DEF Gap
    <3>2. new.epoch <= b
      BY <1>2, <1>3, <1>6, <1>8, <3>1
    <3>3. \A i \in 1..Len(Tail(fs)) : Tail(fs)[i].base # b
      BY <1>1, <3>1, TailOf
    <3> QED  BY <2>2, <3>1, <3>2, <3>3 DEF CopyHeld, Gap
  <2>5. CASE ~Gap(fs, old.epoch, NextBase)
    <3>1. ASSUME NEW n \in DOMAIN new.nodes, Settled(p, n)
          PROVE  InStep(Tail(fs), new, n, vEntries[n].payload)
      <4> DEFINE x == vEntries[n].payload
      <4>1. InStep(fs, old, n, x) /\ n \in DOMAIN nodes
        BY <1>6, <1>7, <2>1, <2>5, <3>1 DEF CopyHeld
      <4>2. LastSays(Tail(fs), n, new.epoch, x)
        BY <1>1, <1>3, <1>6, <1>8, <4>1, LastSaysTail DEF InStep
      <4>3. ASSUME Untold(Tail(fs), n, new.epoch)  PROVE new.nodes[n] = x
        <5>1. \A i \in 2..Len(fs) : n \notin DOMAIN fs[i].ops
          <6> SUFFICES ASSUME NEW i \in 2..Len(fs)  PROVE n \notin DOMAIN fs[i].ops
            OBVIOUS
          <6>1. i - 1 \in 1..Len(Tail(fs)) /\ Tail(fs)[i - 1] = fs[i]
            BY <1>1, TailOf
          <6>2. fs[i].base >= new.epoch
            BY <1>3, <1>6, <2>3
          <6> QED  BY <4>3, <6>1, <6>2 DEF Untold
        <5>2. CASE n \in DOMAIN delta.ops
          <6>1. delta.ops[n] = x
            BY <1>2, <1>3, <1>8, <4>1, <5>1, <5>2 DEF InStep, LastSays
          <6> QED  BY <1>6, <1>7, <4>1, <5>2, <6>1
        <5>3. CASE n \notin DOMAIN delta.ops
          <6>1. Untold(fs, n, old.epoch)
            <7> SUFFICES ASSUME NEW i \in 1..Len(fs)  PROVE n \notin DOMAIN fs[i].ops
              BY DEF Untold
            <7>1. i = 1 \/ i \in 2..Len(fs)
              BY <1>2
            <7> QED  BY <5>1, <5>3, <7>1
          <6> QED  BY <1>6, <1>7, <4>1, <5>3, <6>1 DEF InStep
        <5> QED  BY <5>2, <5>3
      <4> QED  BY <4>2, <4>3 DEF InStep
    <3> QED  BY <2>2, <3>1 DEF CopyHeld
  <2> QED  BY <2>4, <2>5
<1>9. copy \in MirrorCopies \cup {None} /\ (copy # None => CopyHeld(p, Tail(fs), copy))
  BY <1>6, <1>8
<1> QED  BY <1>1, <1>4, <1>9, TakenStep

LEMMA MirrorStep == MirrorInv /\ (V!Next \/ UNCHANGED mirrorVars) => MirrorInv'
<1> SUFFICES ASSUME MirrorInv, V!Next \/ UNCHANGED mirrorVars  PROVE MirrorInv'
  OBVIOUS
<1>1. ASSUME UNCHANGED <<vEntries, vEpoch, vSets, vStale, vFrames, vCopies, vFlushed, vMissed>>,
             vAllowed' \in [MirrorPeers -> SUBSET MirrorNodes]
      PROVE  MirrorInv'
  <2>1. MirrorTypes'
    BY <1>1 DEF MirrorInv, MirrorTypes
  <2>2. SourceHeld' /\ \A p \in MirrorPeers : SetsHeld(p)'
    BY <1>1 DEF MirrorInv, SourceHeld, PeerHeld, SetsHeld, NextBase, V!Tracked, V!Pending
  <2>3. V!Tracked' = V!Tracked /\ V!Pending' = V!Pending
    BY <1>1 DEF V!Tracked, V!Pending
  <2> QED  BY <1>1, <2>1, <2>2, <2>3, SourceStep DEF Settled
<1>2. CASE UNCHANGED mirrorVars
  BY <1>1, <1>2 DEF mirrorVars, MirrorInv, MirrorTypes
<1>3. ASSUME NEW p \in MirrorPeers, NEW n \in MirrorNodes, V!Allow(p, n) \/ V!Revoke(p, n)  PROVE MirrorInv'
  <2>1. vAllowed' \in [MirrorPeers -> SUBSET MirrorNodes]
    <3>1. vAllowed \in [MirrorPeers -> SUBSET MirrorNodes]
      BY DEF MirrorInv, MirrorTypes
    <3>2. CASE V!Allow(p, n)
      BY <3>1, <3>2 DEF V!Allow
    <3>3. CASE V!Revoke(p, n)
      BY <3>1, <3>3 DEF V!Revoke
    <3> QED  BY <1>3, <3>2, <3>3
  <2> QED  BY <1>1, <1>3, <2>1 DEF V!Allow, V!Revoke
<1>4. CASE V!FlushDelta \/ V!FlushAndBump
  BY <1>4, FlushStep DEF V!FlushDelta, V!FlushAndBump
<1>5. CASE V!Next
  BY <1>3, <1>4, <1>5, TrackStep, InvalidateStep, PublishStep, BumpStep, SnapshotStep, ReceiveStep, LoseStep
  DEF V!Next
<1> QED  BY <1>2, <1>5

LEMMA MirrorHeld == MirrorInv => V!MirrorFollows
<1> SUFFICES ASSUME MirrorInv, NEW p \in MirrorPeers, vCopies[p] # None, vCopies[p].epoch = NextBase,
                    vFrames[p] = << >>, V!Pending = {},
                    NEW n \in DOMAIN vCopies[p].nodes \cap (vAllowed[p] \ vMissed[p])
             PROVE  vCopies[p].nodes[n] = vEntries[n].payload
  BY DEF V!MirrorFollows, NextBase
<1>1. CopyHeld(p, << >>, vCopies[p]) /\ NextBase \in Int
  BY DEF MirrorInv, MirrorTypes, PeerHeld, NextBase
<1>2. ~Gap(<< >>, vCopies[p].epoch, NextBase)
  BY <1>1 DEF Gap
<1>3. InStep(<< >>, vCopies[p], n, vEntries[n].payload)
  BY <1>1, <1>2 DEF CopyHeld, Settled
<1> QED  BY <1>3 DEF InStep, Untold

LEMMA MirrorStays == [Next]_vars => V!Next \/ UNCHANGED mirrorVars
  BY DEF Next, vars, Stays

\* For any nodes, payloads, peers and bounds, whatever deltas are lost and whoever
\* may read what: once all is flushed and a peer has caught up, what it was told of
\* the nodes it may read is what they hold (publish_cell, invalidate_slot,
\* flush_delta, flush_and_bump, bump_epoch, snapshot, DeltaSemantics.apply_status).
THEOREM MirrorStaysFollowing == Spec => []MirrorFollows
<1>1. Init => MirrorInv
  BY MirrorInitial DEF Init
<1>2. MirrorInv /\ [Next]_vars => MirrorInv'
  BY MirrorStays, MirrorStep
<1>3. MirrorInv => MirrorFollows
  BY MirrorHeld DEF MirrorFollows
<1> QED  BY <1>1, <1>2, <1>3, PTL DEF Spec

(***************************************************************************)
(* A scope of the ingress, whatever its policy and whatever arrives.       *)
(***************************************************************************)
ScopeFields == {"lifecycle", "generation", "through", "stamp", "pending", "window", "errors"}
Lifecycles == {"opening", "live", "suspended", "closed"}
\* What is delivered: the producer's generation and its sequence.
Delivery == Nat \X Int

ScopeTyped(sc) ==
  /\ DOMAIN sc = ScopeFields /\ sc.lifecycle \in Lifecycles
  /\ sc.generation \in Nat /\ sc.through \in Int /\ sc.through >= -1 /\ sc.window \in Seq(Delivery)
  /\ IsFiniteSet(DOMAIN sc.pending) /\ DOMAIN sc.pending \subseteq Int

\* The buffer holds envelopes of the current producer, each behind a gap.
WindowHeld(sc) == \A s \in DOMAIN sc.pending : s > sc.through + 1 /\ sc.pending[s].generation = sc.generation
ScopeHeld(sc) == ScopeTyped(sc) /\ WindowHeld(sc)

\* The watermark is the last delivery; without one, nothing of this generation or
\* a newer one was delivered.
UpTo(sc, deliveries) ==
  IF sc.through = -1 THEN deliveries # << >> => deliveries[Len(deliveries)][1] < sc.generation
  ELSE deliveries # << >> /\ deliveries[Len(deliveries)] = <<sc.generation, sc.through>>

Successive(deliveries) ==
  \A i \in 1..Len(deliveries) :
    IF i = 1 THEN deliveries[i][2] = 0
    ELSE \/ deliveries[i] = <<deliveries[i - 1][1], deliveries[i - 1][2] + 1>>
         \/ deliveries[i][1] > deliveries[i - 1][1] /\ deliveries[i][2] = 0

IngressInv ==
  /\ iTaken \in Seq(Delivery) /\ Successive(iTaken)
  /\ IF iScope = I!Unknown THEN iTaken = << >> ELSE ScopeHeld(iScope) /\ UpTo(iScope, iTaken)

\* After any number a finite set of numbers has a first gap.
LEMMA FirstGap ==
  ASSUME NEW seqs \in SUBSET Int, IsFiniteSet(seqs), NEW p \in Int
  PROVE  \E len \in Nat : p + len + 1 \notin seqs /\ (p + 1)..(p + len) \subseteq seqs
<1> DEFINE Gaps == {n \in Nat : p + n + 1 \notin seqs}
<1>1. Gaps # {}
  <2>1. SUFFICES ASSUME Gaps = {}  PROVE FALSE
    OBVIOUS
  <2> DEFINE c == Cardinality(seqs)
  <2>2. c \in Nat
    BY FS_CardinalityType
  <2>3. (p + 1)..(p + c + 1) \subseteq seqs
    <3>1. ASSUME NEW s \in (p + 1)..(p + c + 1)  PROVE s \in seqs
      <4>1. s - p - 1 \in Nat /\ p + (s - p - 1) + 1 = s
        BY <2>2
      <4> QED  BY <2>1, <4>1
    <3> QED  BY <3>1
  <2>4. Cardinality((p + 1)..(p + c + 1)) = c + 1
    BY <2>2, FS_Interval
  <2>5. Cardinality((p + 1)..(p + c + 1)) <= c
    BY <2>3, FS_Subset
  <2> HIDE DEF c
  <2> QED  BY <2>2, <2>4, <2>5
<1>2. PICK n \in Gaps : \A x \in Gaps : ~ (<<x, n>> \in OpToRel(<, Nat))
  BY <1>1, NatLessThanWellFounded, WFMin
<1>3. \A x \in Gaps : ~ (x < n)
  BY <1>2 DEF OpToRel
<1>4. ASSUME NEW s \in (p + 1)..(p + n)  PROVE s \in seqs
  <2>1. s - p - 1 \in Nat /\ s - p - 1 < n /\ p + (s - p - 1) + 1 = s
    OBVIOUS
  <2> QED  BY <1>3, <2>1
<1> QED  BY <1>4

LEMMA SameCardinality == \A S : I!Cardinality(S) = Cardinality(S)
  BY DEF I!Cardinality, Cardinality

\* What an in-order delivery lets through is an interval that begins at the next
\* sequence and ends before the first gap of the buffer.
LEMMA UnblockedIs ==
  ASSUME NEW sc, sc.through \in Int, IsFiniteSet(DOMAIN sc.pending), DOMAIN sc.pending \subseteq Int,
         \A s \in DOMAIN sc.pending : s > sc.through
  PROVE  \E len \in Nat : /\ I!Unblocked(sc) = (sc.through + 1)..(sc.through + len)
                        /\ I!Cardinality(I!Unblocked(sc)) = len
                        /\ sc.through + len + 1 \notin DOMAIN sc.pending
                        /\ I!Unblocked(sc) \subseteq DOMAIN sc.pending
<1> DEFINE seqs == DOMAIN sc.pending
           p == sc.through
           U == I!Unblocked(sc)
<1>0. p \in Int /\ seqs \subseteq Int /\ \A s \in seqs : s > p
  OBVIOUS
<1>1. PICK len \in Nat : p + len + 1 \notin seqs /\ (p + 1)..(p + len) \subseteq seqs
  BY FirstGap
<1>2. U = {s \in seqs : \A t \in (p + 1)..s : t \in seqs}
  BY DEF I!Unblocked, I!NextExpected
<1> HIDE DEF seqs, p, U
<1>3. U = (p + 1)..(p + len)
  <2>1. ASSUME NEW s \in U  PROVE s \in (p + 1)..(p + len)
    <3>1. s \in Int /\ s >= p + 1 /\ \A t \in (p + 1)..s : t \in seqs
      BY <1>0, <1>2
    <3>2. ~(s >= p + len + 1)
      BY <1>0, <1>1, <3>1
    <3> QED  BY <1>0, <3>1, <3>2
  <2>2. ASSUME NEW s \in (p + 1)..(p + len)  PROVE s \in U
    <3>1. s \in seqs /\ \A t \in (p + 1)..s : t \in (p + 1)..(p + len)
      BY <1>0, <1>1
    <3> QED  BY <1>1, <1>2, <3>1
  <2> QED  BY <2>1, <2>2
<1>4. Cardinality(U) = len
  BY <1>0, <1>3, FS_Interval
<1> QED  BY <1>1, <1>2, <1>3, <1>4, SameCardinality DEF seqs, p, U

\* A flush delivers that interval and leaves what is behind the gap.
LEMMA FlushIs ==
  ASSUME NEW sc, ScopeTyped(sc), \A s \in DOMAIN sc.pending : s > sc.through /\ sc.pending[s].generation = sc.generation
  PROVE  LET new == I!Flush(sc)
         IN \E len \in Nat :
              /\ ScopeHeld(new) /\ new.lifecycle = sc.lifecycle /\ new.generation = sc.generation
              /\ new.through = sc.through + len
              /\ new.window = sc.window \o [i \in 1..len |-> <<sc.generation, sc.through + i>>]
<1> DEFINE new == I!Flush(sc)
           ready == I!Unblocked(sc)
<1>1. PICK len \in Nat : /\ ready = (sc.through + 1)..(sc.through + len) /\ I!Cardinality(ready) = len
                       /\ sc.through + len + 1 \notin DOMAIN sc.pending /\ ready \subseteq DOMAIN sc.pending
  BY UnblockedIs DEF ScopeTyped
<1> DEFINE tail == [i \in 1..len |-> <<sc.generation, sc.through + i>>]
<1>2. [i \in 1..I!Cardinality(ready) |-> <<sc.pending[sc.through + i].generation, sc.through + i>>] = tail
  <2>1. ASSUME NEW i \in 1..len  PROVE sc.pending[sc.through + i].generation = sc.generation
    <3>1. sc.through + i \in ready
      BY <1>1 DEF ScopeTyped
    <3> QED  BY <1>1, <3>1
  <2> QED  BY <1>1, <2>1
<1>3. /\ DOMAIN new = DOMAIN sc /\ new.lifecycle = sc.lifecycle /\ new.generation = sc.generation
      /\ new.through = sc.through + len /\ new.window = sc.window \o tail
      /\ new.pending = [s \in DOMAIN sc.pending \ ready |-> sc.pending[s]]
  BY <1>1, <1>2 DEF I!Flush, ScopeTyped, ScopeFields
<1> HIDE DEF new, ready
<1>4. tail \in Seq(Delivery)
  BY DEF ScopeTyped, Delivery
<1> HIDE DEF tail
<1>5. new.window \in Seq(Delivery)
  BY <1>3, <1>4 DEF ScopeTyped
<1>6. IsFiniteSet(DOMAIN new.pending)
  BY <1>3, FS_Subset DEF ScopeTyped
<1>7. ScopeTyped(new)
  BY <1>3, <1>5, <1>6 DEF ScopeTyped
<1>8. ASSUME NEW s \in DOMAIN new.pending
      PROVE  s > new.through + 1 /\ new.pending[s].generation = new.generation
  <2>1. s \in DOMAIN sc.pending /\ s \notin ready /\ s # sc.through + len + 1 /\ s \in Int
    BY <1>1, <1>3 DEF ScopeTyped
  <2>2. s > sc.through + len + 1
    <3>1. sc.through \in Int /\ s > sc.through
      BY <2>1 DEF ScopeTyped
    <3>2. s \notin (sc.through + 1)..(sc.through + len)
      BY <1>1, <2>1
    <3> QED  BY <2>1, <3>1, <3>2
  <2>3. new.pending[s] = sc.pending[s]
    BY <1>3, <2>1
  <2> QED  BY <1>3, <2>1, <2>2, <2>3
<1> QED  BY <1>3, <1>7, <1>8 DEF ScopeHeld, WindowHeld, new, tail

LEMMA ClearedIs ==
  ASSUME NEW sc, ScopeHeld(sc)
  PROVE  LET new == I!ClearWindow(sc)
         IN ScopeHeld(new) /\ new.through = sc.through /\ new.generation = sc.generation /\ new.window = << >>
            /\ new.pending = sc.pending /\ new.lifecycle = sc.lifecycle
  BY DEF ScopeHeld, ScopeTyped, WindowHeld, ScopeFields, I!ClearWindow

\* The n deliveries that follow the watermark.
Successors(b, n) == [i \in 1..n |-> <<b.generation, b.through + i>>]

\* An in-order delivery adds the expected sequence and those it lets through.
LEMMA DeliveredIs ==
  ASSUME NEW b, ScopeHeld(b), NEW e, e.sequence = b.through + 1
  PROVE  LET new == I!Delivered(b, e)
         IN \E len \in Nat : /\ ScopeHeld(new) /\ new.generation = b.generation /\ new.through = b.through + 1 + len
                           /\ I!LastOf(new.window, len + 1) = Successors(b, len + 1)
<1> DEFINE room == IF I!Full(b) /\ iOverflow = "DropOldest" THEN I!ClearWindow(b) ELSE b
           merged == I!MergeInto(room, e.sequence, e.stamp)
           base == [merged EXCEPT !.lifecycle = "live", !.errors = 0]
           new == I!Delivered(b, e)
           first == <<b.generation, b.through + 1>>
<1>1. ScopeHeld(room) /\ room.through = b.through /\ room.generation = b.generation
  BY ClearedIs
<1>2. new = I!Flush(base)
  BY DEF I!Delivered
<1> HIDE DEF room
<1>3. /\ DOMAIN merged = ScopeFields /\ merged.generation = b.generation /\ merged.through = b.through + 1
      /\ merged.window = Append(room.window, first) /\ merged.pending = room.pending
  BY <1>1 DEF I!MergeInto, ScopeHeld, ScopeTyped, ScopeFields
<1> HIDE DEF merged
<1>4. /\ DOMAIN base = ScopeFields /\ base.generation = b.generation /\ base.through = b.through + 1
      /\ base.window = Append(room.window, first) /\ base.pending = room.pending /\ base.lifecycle = "live"
  BY <1>3 DEF ScopeFields
<1> HIDE DEF base, new
<1>5. first \in Delivery
  BY DEF ScopeHeld, ScopeTyped, Delivery
<1>6. ScopeTyped(base)
  BY <1>1, <1>4, <1>5 DEF ScopeHeld, ScopeTyped, Lifecycles
<1>7. \A s \in DOMAIN base.pending : s > base.through /\ base.pending[s].generation = base.generation
  BY <1>1, <1>4 DEF ScopeHeld, WindowHeld
<1>8. PICK len \in Nat : /\ ScopeHeld(new) /\ new.generation = base.generation /\ new.through = base.through + len
                       /\ new.window = base.window \o [i \in 1..len |-> <<base.generation, base.through + i>>]
  BY <1>2, <1>6, <1>7, FlushIs
<1> DEFINE tail == [i \in 1..len |-> <<base.generation, base.through + i>>]
           all == Successors(b, len + 1)
           w == room.window
<1>9. w \in Seq(Delivery) /\ tail \in Seq(Delivery) /\ b.through \in Int
  BY <1>1, <1>6 DEF ScopeHeld, ScopeTyped, Delivery
<1>10. new.window = Append(w, first) \o tail
  BY <1>4, <1>8
<1>11. Len(tail) = len /\ \A i \in 1..len : tail[i] = <<b.generation, b.through + 1 + i>>
  BY <1>4
<1> HIDE DEF tail, w, first
<1>12. Len(new.window) = Len(w) + 1 + len
  BY <1>5, <1>9, <1>10, <1>11
<1>13. I!LastOf(new.window, len + 1) = SubSeq(new.window, Len(w) + 1, Len(w) + 1 + len)
  BY <1>9, <1>12 DEF I!LastOf
<1>14. new.window \in Seq(Delivery)
  BY <1>8 DEF ScopeHeld, ScopeTyped
<1>15. \A i \in 1..(len + 1) : new.window[Len(w) + i] = <<b.generation, b.through + i>>
  <2> TAKE i \in 1..(len + 1)
  <2>1. CASE i = 1
    BY <1>5, <1>9, <1>10, <1>11, <2>1 DEF first
  <2>2. CASE i # 1
    <3>1. (Append(w, first) \o tail)[Len(w) + i] = tail[i - 1]
      BY <1>5, <1>9, <1>11, <2>2
    <3>2. i - 1 \in 1..len /\ b.through + 1 + (i - 1) = b.through + i
      BY <1>9, <2>2
    <3> QED  BY <1>10, <1>11, <3>1, <3>2
  <2> QED  BY <2>1, <2>2
<1>16. SubSeq(new.window, Len(w) + 1, Len(w) + 1 + len) = all
  <2> DEFINE sub == SubSeq(new.window, Len(w) + 1, Len(w) + 1 + len)
  <2>1. sub = [i \in 1..(len + 1) |-> new.window[Len(w) + i]]
    BY <1>9, <1>12, <1>14
  <2> QED  BY <1>15, <2>1 DEF Successors
<1> QED  BY <1>4, <1>8, <1>9, <1>13, <1>16 DEF new

LEMMA HeldIsKnown == \A sc : ScopeTyped(sc) => sc # I!Unknown
<1> SUFFICES ASSUME NEW sc, DOMAIN sc = ScopeFields  PROVE sc # I!Unknown
  BY DEF ScopeTyped
<1>1. "generation" \notin DOMAIN I!Unknown
  BY DEF I!Unknown
<1> QED  BY <1>1 DEF ScopeFields

LEMMA NewIs ==
  ASSUME NEW g \in Nat
  PROVE  ScopeHeld(I!NewScope(g)) /\ I!NewScope(g).generation = g /\ I!NewScope(g).through = -1 /\ UpTo(I!NewScope(g), << >>)
<1>1. IsFiniteSet({})
  BY FS_EmptySet
<1>2. DOMAIN I!NewScope(g) = ScopeFields /\ DOMAIN I!NewScope(g).pending = {}
  BY DEF I!NewScope, ScopeFields
<1> QED  BY <1>1, <1>2 DEF I!NewScope, ScopeHeld, ScopeTyped, WindowHeld, UpTo, Lifecycles

LEMMA FenceIs ==
  ASSUME NEW sc, ScopeTyped(sc), NEW g \in Nat
  PROVE  LET new == I!Fence(sc, g) IN ScopeHeld(new) /\ new.generation = g /\ new.through = -1
<1>1. IsFiniteSet({})
  BY FS_EmptySet
<1> QED  BY <1>1 DEF I!Fence, ScopeHeld, ScopeTyped, WindowHeld, ScopeFields

LEMMA HandoffIs ==
  ASSUME NEW sc, ScopeTyped(sc), NEW g \in Nat
  PROVE  LET new == I!Handoff(sc, g) IN ScopeHeld(new) /\ new.generation = g /\ new.through = -1
  BY FenceIs, ClearedIs DEF I!Handoff

\* What was delivered up to an older generation is up to nothing of a newer one.
LEMMA NewerUpTo ==
  ASSUME NEW q \in Seq(Delivery), NEW old, ScopeTyped(old), UpTo(old, q),
         NEW new, new.through = -1, new.generation \in Nat, new.generation > old.generation
  PROVE  UpTo(new, q)
<1> SUFFICES ASSUME q # << >>  PROVE q[Len(q)][1] < new.generation
  BY DEF UpTo
<1>1. q[Len(q)] \in Delivery
  OBVIOUS
<1>2. q[Len(q)][1] \in Nat
  BY <1>1 DEF Delivery
<1>3. q[Len(q)][1] <= old.generation
  <2>1. CASE old.through = -1
    BY <1>2, <2>1 DEF UpTo, ScopeTyped
  <2>2. CASE old.through # -1
    BY <2>2 DEF UpTo, ScopeTyped
  <2> QED  BY <2>1, <2>2
<1> QED  BY <1>2, <1>3 DEF ScopeTyped

\* What was delivered, and then successors of the watermark.
LEMMA TakenGrows ==
  ASSUME NEW q \in Seq(Delivery), Successive(q), NEW b, ScopeTyped(b), UpTo(b, q), NEW len \in Nat
  PROVE  LET more == Successors(b, len + 1)
             all == q \o more
         IN /\ all \in Seq(Delivery) /\ Successive(all) /\ all # << >>
            /\ all[Len(all)] = <<b.generation, b.through + len + 1>>
<1> DEFINE more == Successors(b, len + 1)
           all == q \o more
<1>0. b.generation \in Nat /\ b.through \in Int /\ b.through >= -1
  BY DEF ScopeTyped
<1>1. more \in Seq(Delivery) /\ Len(more) = len + 1 /\ \A i \in 1..(len + 1) : more[i] = <<b.generation, b.through + i>>
  BY <1>0 DEF Delivery, Successors
<1> HIDE DEF more
<1>2. all \in Seq(Delivery) /\ Len(all) = Len(q) + len + 1
  <2>1. all \in Seq(Delivery) /\ Len(all) = Len(q) + Len(more)
    BY <1>1, ConcatProperties
  <2>2. Len(q) \in Nat
    OBVIOUS
  <2> QED  BY <1>1, <2>1, <2>2
<1>3. \A i \in 1..Len(q) : all[i] = q[i]
  BY <1>1, ConcatProperties
<1>4. \A i \in 1..(len + 1) : all[Len(q) + i] = <<b.generation, b.through + i>>
  BY <1>1
<1>5. ASSUME NEW i \in 1..Len(all)
      PROVE  IF i = 1 THEN all[i][2] = 0
             ELSE \/ all[i] = <<all[i - 1][1], all[i - 1][2] + 1>>
                  \/ all[i][1] > all[i - 1][1] /\ all[i][2] = 0
  <2> HIDE DEF all
  <2>1. CASE i \in 1..Len(q)
    <3>1. i # 1 => i - 1 \in 1..Len(q)
      BY <2>1
    <3> QED  BY <1>3, <2>1, <3>1 DEF Successive
  <2>2. CASE i = Len(q) + 1
    <3>1. all[i] = <<b.generation, b.through + 1>>
      BY <1>4, <2>2
    <3>2. CASE q = << >>
      BY <1>0, <2>2, <3>1, <3>2 DEF UpTo
    <3>3. CASE q # << >>
      <4>1. i # 1 /\ all[i - 1] = q[Len(q)]
        BY <1>3, <2>2, <3>3
      <4> QED  BY <1>0, <3>1, <3>3, <4>1 DEF UpTo
    <3> QED  BY <3>2, <3>3
  <2>3. CASE i > Len(q) + 1
    <3>1. /\ i - Len(q) \in 1..(len + 1) /\ Len(q) + (i - Len(q)) = i
          /\ i - 1 - Len(q) \in 1..(len + 1) /\ Len(q) + (i - 1 - Len(q)) = i - 1 /\ i # 1
      BY <1>2, <2>3
    <3>2. all[i] = <<b.generation, b.through + (i - Len(q))>> /\ all[i - 1] = <<b.generation, b.through + (i - 1 - Len(q))>>
      BY <1>4, <3>1
    <3> QED  BY <1>0, <3>1, <3>2
  <2> QED  BY <1>2, <2>1, <2>2, <2>3
<1>6. all[Len(all)] = <<b.generation, b.through + len + 1>>
  <2>1. len + 1 \in 1..(len + 1) /\ Len(all) = Len(q) + (len + 1)
    BY <1>2
  <2>2. all[Len(q) + (len + 1)] = <<b.generation, b.through + (len + 1)>>
    BY <1>4, <2>1
  <2>3. b.through + (len + 1) = b.through + len + 1
    BY <1>0
  <2> QED  BY <2>1, <2>2, <2>3
<1>7. all # << >>
  BY <1>2
<1> HIDE DEF all
<1> QED  BY <1>2, <1>5, <1>6, <1>7 DEF Successive, all, more

\* The invariant of a step that only replaces a scope by one with the same
\* watermark, or by one of a newer generation.
LEMMA SameUpTo ==
  \A q, old, new : UpTo(old, q) /\ new.through = old.through /\ new.generation = old.generation => UpTo(new, q)
  BY DEF UpTo

LEMMA KnownHeld == IngressInv /\ I!Known => ScopeHeld(iScope) /\ UpTo(iScope, iTaken)
  BY DEF IngressInv, I!Known

LEMMA ScopeInvOf ==
  ASSUME iTaken' \in Seq(Delivery), Successive(iTaken'), ScopeHeld(iScope'), UpTo(iScope', iTaken')
  PROVE  IngressInv'
<1>1. iScope' # I!Unknown
  BY HeldIsKnown DEF ScopeHeld
<1>2. I!Unknown' = I!Unknown
  BY DEF I!Unknown
<1> HIDE DEF I!Unknown
<1> QED  BY <1>1, <1>2 DEF IngressInv, ScopeHeld, ScopeTyped, WindowHeld, UpTo, Successive

LEMMA IngressInit == I!Init => IngressInv
  BY DEF I!Init, IngressInv, Successive

\* A scope whose watermark and buffer are the ones of a held scope is held.
LEMMA Retouched ==
  ASSUME NEW old, ScopeHeld(old), NEW new, DOMAIN new = ScopeFields, new.lifecycle \in Lifecycles,
         new.generation = old.generation, new.through = old.through, new.pending = old.pending,
         new.window \in Seq(Delivery)
  PROVE  ScopeHeld(new)
  BY DEF ScopeHeld, ScopeTyped, WindowHeld

LEMMA LiveOr == \A sc : I!LiveOrOpening(sc) \in Lifecycles
  BY DEF I!LiveOrOpening, Lifecycles

\* The scope an event of an unknown key is applied to: a new one.
LEMMA OrNew ==
  ASSUME IngressInv, NEW g \in Nat
  PROVE  LET old == IF I!Known THEN iScope ELSE I!NewScope(g)
         IN ScopeHeld(old) /\ UpTo(old, iTaken) /\ iTaken \in Seq(Delivery) /\ Successive(iTaken)
<1>1. CASE I!Known
  BY <1>1, KnownHeld DEF IngressInv
<1>2. CASE ~I!Known
  <2>1. iTaken = << >>
    BY <1>2 DEF IngressInv, I!Known
  <2> QED  BY <1>2, <2>1, NewIs DEF IngressInv
<1> QED  BY <1>1, <1>2

LEMMA ScopeOpens == ASSUME IngressInv, NEW g \in Nat, I!Open(g)  PROVE IngressInv'
<1> DEFINE resumed == [iScope EXCEPT !.lifecycle = I!LiveOrOpening(iScope)]
<1>0. iTaken \in Seq(Delivery) /\ Successive(iTaken)
  BY DEF IngressInv
<1>1. CASE ~I!Known \/ iScope.lifecycle = "closed"
  <2>1. iScope' = I!NewScope(g)
    BY <1>1 DEF I!Open
  <2>2. iTaken' = << >>
    BY <1>1 DEF I!Open, I!Known, IngressInv
  <2>3. << >> \in Seq(Delivery) /\ Successive(<< >>)
    BY DEF Successive
  <2> QED  BY <2>1, <2>2, <2>3, NewIs, ScopeInvOf
<1>2. CASE I!Known /\ iScope.lifecycle # "closed"
  <2>1. iTaken' = iTaken /\ iScope' = IF g > iScope.generation THEN I!Fence(resumed, g) ELSE resumed
    BY <1>2 DEF I!Open
  <2>2. ScopeHeld(iScope) /\ UpTo(iScope, iTaken)
    BY <1>2, KnownHeld
  <2>3. /\ DOMAIN resumed = ScopeFields /\ resumed.lifecycle \in Lifecycles /\ resumed.generation = iScope.generation
        /\ resumed.through = iScope.through /\ resumed.pending = iScope.pending /\ resumed.window = iScope.window
    BY <2>2, LiveOr DEF ScopeHeld, ScopeTyped, ScopeFields
  <2> HIDE DEF resumed
  <2>4. ScopeHeld(resumed)
    BY <2>2, <2>3, Retouched DEF ScopeHeld, ScopeTyped
  <2>5. UpTo(resumed, iTaken)
    BY <2>2, <2>3, SameUpTo
  <2>6. CASE g > iScope.generation
    <3>1. ScopeHeld(iScope') /\ iScope'.generation = g /\ iScope'.through = -1
      BY <2>1, <2>4, <2>6, FenceIs DEF ScopeHeld
    <3>2. UpTo(iScope', iTaken)
      BY <1>0, <2>2, <2>6, <3>1, NewerUpTo DEF ScopeHeld
    <3> QED  BY <1>0, <2>1, <3>1, <3>2, ScopeInvOf
  <2>7. CASE ~(g > iScope.generation)
    BY <1>0, <2>1, <2>4, <2>5, <2>7, ScopeInvOf
  <2> QED  BY <2>6, <2>7
<1> QED  BY <1>1, <1>2

LEMMA ScopeReconnects ==
  ASSUME IngressInv, NEW g \in Nat, I!Reconnect(g)  PROVE IngressInv'
<1> DEFINE old == IF I!Known THEN iScope ELSE I!NewScope(g)
           fenced == IF g > old.generation THEN I!Handoff(old, g) ELSE old
<1>1. ScopeHeld(old) /\ UpTo(old, iTaken) /\ iTaken \in Seq(Delivery) /\ Successive(iTaken)
  BY OrNew
<1>2. iTaken' = iTaken /\ iScope' = [fenced EXCEPT !.lifecycle = I!LiveOrOpening(fenced), !.errors = 0]
  BY DEF I!Reconnect
<1> HIDE DEF old
<1>3. ScopeHeld(fenced) /\ UpTo(fenced, iTaken)
  <2>1. CASE g > old.generation
    <3>1. ScopeHeld(fenced) /\ fenced.generation = g /\ fenced.through = -1
      BY <1>1, <2>1, HandoffIs DEF ScopeHeld
    <3> QED  BY <1>1, <2>1, <3>1, NewerUpTo DEF ScopeHeld
  <2>2. CASE ~(g > old.generation)
    BY <1>1, <2>2
  <2> QED  BY <2>1, <2>2
<1> HIDE DEF fenced
<1>4. /\ DOMAIN iScope' = ScopeFields /\ iScope'.lifecycle \in Lifecycles /\ iScope'.generation = fenced.generation
      /\ iScope'.through = fenced.through /\ iScope'.pending = fenced.pending /\ iScope'.window = fenced.window
  BY <1>2, <1>3, LiveOr DEF ScopeHeld, ScopeTyped, ScopeFields
<1>5. ScopeHeld(iScope')
  BY <1>3, <1>4, Retouched DEF ScopeHeld, ScopeTyped
<1>6. UpTo(iScope', iTaken)
  BY <1>3, <1>4, SameUpTo
<1> QED  BY <1>1, <1>2, <1>5, <1>6, ScopeInvOf

LEMMA ScopeSuspends == IngressInv /\ I!Suspend => IngressInv'
<1> SUFFICES ASSUME IngressInv, I!Suspend  PROVE IngressInv'
  OBVIOUS
<1>1. ScopeHeld(iScope) /\ UpTo(iScope, iTaken) /\ iTaken \in Seq(Delivery) /\ Successive(iTaken)
  BY KnownHeld DEF I!Suspend, IngressInv
<1>2. iTaken' = iTaken /\ iScope' = [iScope EXCEPT !.lifecycle = "suspended"]
  BY DEF I!Suspend
<1>3. /\ DOMAIN iScope' = ScopeFields /\ iScope'.lifecycle \in Lifecycles /\ iScope'.generation = iScope.generation
      /\ iScope'.through = iScope.through /\ iScope'.pending = iScope.pending /\ iScope'.window = iScope.window
  BY <1>1, <1>2 DEF ScopeHeld, ScopeTyped, ScopeFields, Lifecycles
<1>4. ScopeHeld(iScope')
  BY <1>1, <1>3, Retouched DEF ScopeHeld, ScopeTyped
<1>5. UpTo(iScope', iTaken)
  BY <1>1, <1>3, SameUpTo
<1> QED  BY <1>1, <1>2, <1>4, <1>5, ScopeInvOf

LEMMA ScopeCloses == IngressInv /\ I!Close => IngressInv'
<1> SUFFICES ASSUME IngressInv, I!Close  PROVE IngressInv'
  OBVIOUS
<1> DEFINE cleared == I!ClearWindow(iScope)
<1>1. ScopeHeld(iScope) /\ UpTo(iScope, iTaken) /\ iTaken \in Seq(Delivery) /\ Successive(iTaken)
  BY KnownHeld DEF I!Close, IngressInv
<1>2. ScopeHeld(cleared) /\ cleared.through = iScope.through /\ cleared.generation = iScope.generation
  BY <1>1, ClearedIs
<1>3. iTaken' = iTaken /\ iScope' = [cleared EXCEPT !.lifecycle = "closed", !.pending = [s \in {} |-> 0], !.errors = 0]
  BY DEF I!Close
<1> HIDE DEF cleared
<1>4. /\ DOMAIN iScope' = ScopeFields /\ iScope'.lifecycle \in Lifecycles /\ iScope'.generation = iScope.generation
      /\ iScope'.through = iScope.through /\ DOMAIN iScope'.pending = {} /\ iScope'.window = cleared.window
  BY <1>2, <1>3 DEF ScopeHeld, ScopeTyped, ScopeFields, Lifecycles
<1>5. ScopeHeld(iScope')
  BY <1>1, <1>2, <1>4, FS_EmptySet DEF ScopeHeld, ScopeTyped, WindowHeld
<1>6. UpTo(iScope', iTaken)
  BY <1>1, <1>4, SameUpTo
<1> QED  BY <1>1, <1>3, <1>5, <1>6, ScopeInvOf

LEMMA ScopeFails == IngressInv /\ I!Fail => IngressInv'
<1> SUFFICES ASSUME IngressInv, I!Fail  PROVE IngressInv'
  OBVIOUS
<1> DEFINE old == IF I!Known THEN iScope ELSE I!NewScope(0)
<1>1. ScopeHeld(old) /\ UpTo(old, iTaken) /\ iTaken \in Seq(Delivery) /\ Successive(iTaken)
  BY OrNew
<1>2. iTaken' = iTaken /\ iScope' = [old EXCEPT !.errors = @ + 1]
  BY DEF I!Fail
<1> HIDE DEF old
<1>3. /\ DOMAIN iScope' = ScopeFields /\ iScope'.lifecycle = old.lifecycle /\ iScope'.generation = old.generation
      /\ iScope'.through = old.through /\ iScope'.pending = old.pending /\ iScope'.window = old.window
  BY <1>1, <1>2 DEF ScopeHeld, ScopeTyped, ScopeFields
<1>4. ScopeHeld(iScope')
  BY <1>1, <1>3, Retouched DEF ScopeHeld, ScopeTyped
<1>5. UpTo(iScope', iTaken)
  BY <1>1, <1>3, SameUpTo
<1> QED  BY <1>1, <1>2, <1>4, <1>5, ScopeInvOf

LEMMA ScopeDrains == IngressInv /\ I!Drain => IngressInv'
<1> SUFFICES ASSUME IngressInv, I!Drain  PROVE IngressInv'
  OBVIOUS
<1>1. ScopeHeld(iScope) /\ UpTo(iScope, iTaken) /\ iTaken \in Seq(Delivery) /\ Successive(iTaken)
  BY KnownHeld DEF I!Drain, IngressInv
<1>2. iTaken' = iTaken /\ iScope' = I!ClearWindow(iScope)
  BY DEF I!Drain
<1>3. ScopeHeld(iScope') /\ iScope'.through = iScope.through /\ iScope'.generation = iScope.generation
  BY <1>1, <1>2, ClearedIs
<1>4. UpTo(iScope', iTaken)
  BY <1>1, <1>3, SameUpTo
<1> QED  BY <1>1, <1>2, <1>3, <1>4, ScopeInvOf

LEMMA IngressKept == IngressInv /\ UNCHANGED <<iScope, iTaken>> => IngressInv'
<1> SUFFICES ASSUME IngressInv, UNCHANGED <<iScope, iTaken>>  PROVE IngressInv'
  OBVIOUS
<1>1. CASE iScope = I!Unknown
  BY <1>1 DEF IngressInv, I!Unknown, Successive
<1>2. CASE iScope # I!Unknown
  <2>1. ScopeHeld(iScope) /\ UpTo(iScope, iTaken) /\ iTaken \in Seq(Delivery) /\ Successive(iTaken)
    BY <1>2 DEF IngressInv
  <2> QED  BY <2>1, ScopeInvOf
<1> QED  BY <1>1, <1>2

\* What an envelope is decided on is held, and a handoff to its producer delivered nothing yet.
LEMMA BaseIs ==
  ASSUME NEW q \in Seq(Delivery), NEW old, ScopeHeld(old), UpTo(old, q), NEW e, e.generation \in Nat
  PROVE  LET b == I!Base(old, e)
         IN /\ ScopeHeld(b) /\ UpTo(b, q)
            /\ e.generation >= old.generation => b.generation = e.generation
<1>1. CASE e.generation > old.generation
  <2>1. I!Base(old, e) = I!Handoff(old, e.generation)
    BY <1>1 DEF I!Base
  <2>2. ScopeHeld(I!Base(old, e)) /\ I!Base(old, e).generation = e.generation /\ I!Base(old, e).through = -1
    BY <2>1, HandoffIs DEF ScopeHeld
  <2> QED  BY <1>1, <2>2, NewerUpTo DEF ScopeHeld
<1>2. CASE ~(e.generation > old.generation)
  BY <1>2 DEF I!Base, ScopeHeld, ScopeTyped
<1> QED  BY <1>1, <1>2

Buffered(b, e) ==
  [b EXCEPT !.pending = [s \in DOMAIN @ \cup {e.sequence} |-> IF s = e.sequence THEN e ELSE @[s]]]

\* An envelope ahead of the next one waits in the buffer.
LEMMA BufferedIs ==
  ASSUME NEW b, ScopeHeld(b), NEW e, e.sequence \in Int, e.generation = b.generation, I!Buffers(b, e)
  PROVE  LET new == Buffered(b, e)
         IN ScopeHeld(new) /\ new.through = b.through /\ new.generation = b.generation
<1> DEFINE new == Buffered(b, e)
<1>1. /\ DOMAIN new = DOMAIN b /\ new.lifecycle = b.lifecycle /\ new.generation = b.generation
      /\ new.through = b.through /\ new.window = b.window
      /\ new.pending = [s \in DOMAIN b.pending \cup {e.sequence} |-> IF s = e.sequence THEN e ELSE b.pending[s]]
  BY DEF Buffered, ScopeHeld, ScopeTyped, ScopeFields
<1> HIDE DEF new
<1>2. IsFiniteSet(DOMAIN new.pending)
  <2>1. DOMAIN new.pending = DOMAIN b.pending \cup {e.sequence}
    BY <1>1
  <2>2. IsFiniteSet(DOMAIN b.pending)
    BY DEF ScopeHeld, ScopeTyped
  <2> QED  BY <2>1, <2>2, FS_AddElement
<1>3. e.sequence > b.through + 1
  BY DEF I!Buffers, I!NextExpected
<1> QED  BY <1>1, <1>2, <1>3 DEF ScopeHeld, ScopeTyped, WindowHeld, new

LEMMA ScopeAdmits ==
  ASSUME IngressInv, NEW e, e.generation \in Nat, e.sequence \in Int, I!Admit(e)
  PROVE  IngressInv'
<1> DEFINE old == IF I!Known THEN iScope ELSE I!NewScope(e.generation)
           b == I!Base(old, e)
           new == I!Admitted(old, e)
           n == IF I!Delivers(b, e) THEN new.through - b.through ELSE 0
<1>1. ScopeHeld(old) /\ UpTo(old, iTaken) /\ iTaken \in Seq(Delivery) /\ Successive(iTaken)
  BY OrNew
<1>2. \/ /\ ~I!Refused(old, e) /\ I!Buffers(b, e) /\ iScope' = new /\ iTaken' = iTaken
      \/ /\ ~I!Refused(old, e) /\ I!Delivers(b, e) /\ iScope' = new /\ iTaken' = iTaken \o I!LastOf(new.window, n)
      \/ /\ I!Refused(old, e) \/ (~I!Buffers(b, e) /\ ~I!Delivers(b, e))
         /\ iScope' = (IF I!Known THEN new ELSE I!Unknown) /\ iTaken' = iTaken
  BY DEF I!Admit
<1>3. /\ I!Refused(old, e) => new = old
      /\ ~I!Refused(old, e) /\ I!Buffers(b, e) =>
           new = Buffered(b, e)
      /\ ~I!Refused(old, e) /\ I!Delivers(b, e) => new = I!Delivered(b, e)
      /\ ~I!Refused(old, e) /\ ~I!Buffers(b, e) /\ ~I!Delivers(b, e) => new = b
  <2>1. ~(I!Buffers(b, e) /\ I!Delivers(b, e))
    <3>1. ScopeHeld(b)
      BY <1>1, BaseIs
    <3> HIDE DEF b
    <3> QED  BY <3>1 DEF I!Buffers, I!Delivers, I!NextExpected, ScopeHeld, ScopeTyped
  <2> QED  BY <2>1 DEF I!Admitted, Buffered
<1>4. ScopeHeld(b) /\ UpTo(b, iTaken) /\ (e.generation >= old.generation => b.generation = e.generation)
  BY <1>1, BaseIs
<1>5. ~I!Refused(old, e) => b.generation = e.generation
  <2> HIDE DEF old, b
  <2> QED  BY <1>1, <1>4 DEF I!Refused, ScopeHeld, ScopeTyped
<1> HIDE DEF b, new, old
<1>6. CASE ~I!Refused(old, e) /\ I!Buffers(b, e) /\ iScope' = new /\ iTaken' = iTaken
  <2>1. ScopeHeld(new) /\ new.through = b.through /\ new.generation = b.generation
    BY <1>3, <1>4, <1>5, <1>6, BufferedIs
  <2>2. UpTo(new, iTaken)
    BY <1>4, <2>1, SameUpTo
  <2> QED  BY <1>1, <1>6, <2>1, <2>2, ScopeInvOf
<1>7. CASE ~I!Refused(old, e) /\ I!Delivers(b, e) /\ iScope' = new /\ iTaken' = iTaken \o I!LastOf(new.window, n)
  <2>1. e.sequence = b.through + 1 /\ new = I!Delivered(b, e)
    BY <1>3, <1>7 DEF I!Delivers, I!NextExpected
  <2>2. \E len \in Nat :
           /\ ScopeHeld(I!Delivered(b, e)) /\ I!Delivered(b, e).generation = b.generation
           /\ I!Delivered(b, e).through = b.through + 1 + len
           /\ I!LastOf(I!Delivered(b, e).window, len + 1) = Successors(b, len + 1)
    BY <1>4, <2>1, DeliveredIs
  <2>9. PICK len \in Nat : /\ ScopeHeld(new) /\ new.generation = b.generation /\ new.through = b.through + 1 + len
                         /\ I!LastOf(new.window, len + 1) = Successors(b, len + 1)
    BY <2>1, <2>2
  <2>3. n = len + 1
    BY <1>4, <1>7, <2>9 DEF ScopeHeld, ScopeTyped
  <2>4. iTaken' = iTaken \o Successors(b, len + 1)
    BY <1>7, <2>9, <2>3
  <2>5. /\ iTaken' \in Seq(Delivery) /\ Successive(iTaken') /\ iTaken' # << >>
        /\ iTaken'[Len(iTaken')] = <<b.generation, b.through + len + 1>>
    BY <1>1, <1>4, <2>4, TakenGrows DEF ScopeHeld
  <2>6. b.through \in Int /\ b.through >= -1
    BY <1>4 DEF ScopeHeld, ScopeTyped
  <2>7. new.through # -1 /\ b.through + len + 1 = new.through
    BY <2>9, <2>6
  <2>8. UpTo(iScope', iTaken')
    BY <1>7, <2>9, <2>5, <2>7 DEF UpTo
  <2> QED  BY <1>7, <2>9, <2>5, <2>8, ScopeInvOf
<1>8. CASE /\ I!Refused(old, e) \/ (~I!Buffers(b, e) /\ ~I!Delivers(b, e))
           /\ iScope' = (IF I!Known THEN new ELSE I!Unknown) /\ iTaken' = iTaken
  <2>1. CASE ~I!Known
    BY <1>8, <2>1, IngressKept DEF I!Known
  <2>2. CASE I!Known
    <3>1. ScopeHeld(new) /\ UpTo(new, iTaken)
      BY <1>1, <1>3, <1>4, <1>8
    <3> QED  BY <1>1, <1>8, <2>2, <3>1, ScopeInvOf
  <2> QED  BY <2>1, <2>2
<1> QED  BY <1>2, <1>6, <1>7, <1>8

LEMMA IngressStep == IngressInv /\ (I!Next \/ UNCHANGED ingressVars) => IngressInv'
<1> SUFFICES ASSUME IngressInv, I!Next \/ UNCHANGED ingressVars  PROVE IngressInv'
  OBVIOUS
<1> USE IngressAssumption DEF IngressAssumption
<1>1. ASSUME NEW g \in IngressGenerations, I!Open(g)  PROVE IngressInv'
  BY <1>1, ScopeOpens
<1>2. ASSUME NEW g \in IngressGenerations, I!Reconnect(g)  PROVE IngressInv'
  BY <1>2, ScopeReconnects
<1>3. CASE I!Tick
  BY <1>3, IngressKept DEF I!Tick
<1>4. ASSUME NEW e \in I!Envelope, I!Admit(e)  PROVE IngressInv'
  <2>1. e.generation \in Nat /\ e.sequence \in Int
    BY DEF I!Envelope
  <2> QED  BY <1>4, <2>1, ScopeAdmits
<1>5. CASE UNCHANGED ingressVars
  BY <1>5, IngressKept DEF ingressVars
<1> QED  BY <1>1, <1>2, <1>3, <1>4, <1>5, ScopeSuspends, ScopeCloses, ScopeFails, ScopeDrains DEF I!Next

LEMMA IngressHeld == IngressInv => I!DeliveredInOrder
<1> SUFFICES ASSUME IngressInv  PROVE I!DeliveredInOrder
  OBVIOUS
<1>1. iTaken \in Seq(Delivery) /\ Successive(iTaken)
  BY DEF IngressInv
<1>2. ASSUME NEW i \in DOMAIN iTaken
      PROVE  LET before == IF i = 1 THEN <<-1, 0>> ELSE iTaken[i - 1]
             IN iTaken[i] = <<before[1], before[2] + 1>> \/ (iTaken[i][1] > before[1] /\ iTaken[i][2] = 0)
  <2>1. i \in 1..Len(iTaken) /\ iTaken[i] \in Delivery
    BY <1>1
  <2>2. CASE i = 1
    <3>1. iTaken[i][1] > -1 /\ iTaken[i][2] = 0
      BY <1>1, <2>1, <2>2 DEF Successive, Delivery
    <3> QED  BY <2>2, <3>1
  <2>3. CASE i # 1
    BY <1>1, <2>1, <2>3 DEF Successive
  <2> QED  BY <2>2, <2>3
<1>3. I!Known => ScopeHeld(iScope) /\ UpTo(iScope, iTaken)
  BY KnownHeld
<1> QED  BY <1>2, <1>3 DEF I!DeliveredInOrder, I!NextExpected, UpTo, ScopeHeld, WindowHeld

LEMMA IngressStays == [Next]_vars => I!Next \/ UNCHANGED ingressVars
  BY DEF Next, vars, Stays

\* For any generations, sequences, horizon, window sizes and policy, and whatever
\* arrives late, twice, out of order or across suspensions, reconnects and closes:
\* a scope delivers the sequences of one generation without a gap, each once, never
\* goes back to an older generation, and its watermark is the last one delivered
\* (IngressCore._decide, open, reconnect, close).
THEOREM DeliveryStaysInOrder == Spec => []DeliveredInOrder
<1>1. Init => IngressInv
  BY IngressInit DEF Init
<1>2. IngressInv /\ [Next]_vars => IngressInv'
  BY IngressStays, IngressStep
<1>3. IngressInv => DeliveredInOrder
  BY IngressHeld DEF DeliveredInOrder
<1> QED  BY <1>1, <1>2, <1>3, PTL DEF Spec

(***************************************************************************)
(* What the transitions of a scope tell its readers, and below it what the *)
(* client of a durable owner shows.                                        *)
(***************************************************************************)
\* A window that is full from the start, under a policy that turns away what comes.
\* What the readers' changes rest on: a closed scope has nothing to hand out, and
\* failures are counted from none.
ScopeQuiet(sc) == sc.errors \in Nat /\ (sc.lifecycle = "closed" => sc.window = << >>)
TellInv == IngressInv /\ (iScope # I!Unknown => ScopeQuiet(iScope))

\* One envelope may wait, and one be handed out: a window that holds none refuses what a
\* handoff brought, after the handoff.
IngressRoom ==
  IngressReorder \in Nat \ {0} /\ IngressHighWater \in Nat \ {0} /\ IngressSequences \subseteq Nat

LEMMA TellKnown == TellInv /\ I!Known => ScopeHeld(iScope) /\ ScopeQuiet(iScope)
  BY KnownHeld DEF TellInv, I!Known

LEMMA NewQuiet == ASSUME NEW g PROVE ScopeQuiet(I!NewScope(g))
  BY DEF ScopeQuiet, I!NewScope

LEMMA OrNewQuiet ==
  ASSUME TellInv, NEW g \in Nat
  PROVE  LET old == IF I!Known THEN iScope ELSE I!NewScope(g) IN ScopeHeld(old) /\ ScopeQuiet(old)
<1>1. CASE I!Known
  BY <1>1, TellKnown
<1>2. CASE ~I!Known
  BY <1>2, NewIs, NewQuiet
<1> QED  BY <1>1, <1>2

\* The fields of what the scope is replaced by.
LEMMA FenceFields ==
  ASSUME NEW sc, ScopeHeld(sc), NEW g
  PROVE  /\ LET new == I!Fence(sc, g)
            IN /\ new.lifecycle = sc.lifecycle /\ new.window = sc.window /\ new.errors = sc.errors
               /\ new.generation = g /\ new.through = -1 /\ DOMAIN new = ScopeFields
               /\ DOMAIN new.pending = {}
         /\ LET new == I!Handoff(sc, g)
            IN /\ new.lifecycle = sc.lifecycle /\ new.window = << >> /\ new.errors = sc.errors
               /\ new.generation = g /\ new.through = -1 /\ DOMAIN new = ScopeFields
               /\ DOMAIN new.pending = {}
  BY DEF I!Handoff, I!Fence, I!ClearWindow, ScopeHeld, ScopeTyped, ScopeFields

LEMMA DeliveredFields ==
  ASSUME NEW b, ScopeHeld(b), NEW e
  PROVE  I!Delivered(b, e).lifecycle = "live" /\ I!Delivered(b, e).errors = 0
<1> DEFINE room == IF I!Full(b) /\ iOverflow = "DropOldest" THEN I!ClearWindow(b) ELSE b
           base == [I!MergeInto(room, e.sequence, e.stamp) EXCEPT !.lifecycle = "live", !.errors = 0]
<1>1. DOMAIN room = ScopeFields
  BY DEF I!ClearWindow, ScopeHeld, ScopeTyped
<1>2. I!Delivered(b, e) = I!Flush(base)
  BY DEF I!Delivered
<1>3. DOMAIN I!MergeInto(room, e.sequence, e.stamp) = ScopeFields
  BY <1>1 DEF I!MergeInto
<1>4. base.lifecycle = "live" /\ base.errors = 0 /\ DOMAIN base = ScopeFields
  BY <1>3 DEF ScopeFields
<1> HIDE DEF base
<1>5. I!Flush(base).lifecycle = base.lifecycle /\ I!Flush(base).errors = base.errors
  BY <1>4 DEF I!Flush, ScopeFields
<1> QED  BY <1>2, <1>4, <1>5

\* A scope that differs from another in what a reader does not show shows the same.
LEMMA SameShown ==
  ASSUME NEW x, NEW y, NEW t
  PROVE  /\ x.lifecycle = y.lifecycle /\ x.through = y.through /\ x.stamp = y.stamp
              => I!Readiness(x, t) = I!Readiness(y, t)
         /\ x.lifecycle \notin {"unknown", "closed"} /\ y.lifecycle \notin {"unknown", "closed"}
            /\ x.generation = y.generation /\ x.through = y.through /\ x.stamp = y.stamp
              => I!Authority(x) = I!Authority(y)
         /\ x.errors = y.errors /\ x.through = y.through /\ x.lifecycle # "unknown" /\ y.lifecycle # "unknown"
              => I!Retry(x) = I!Retry(y)
         /\ x.errors = 0 /\ y.errors = 0 => I!Retry(x) = I!Retry(y)
         /\ x.window = y.window /\ x.lifecycle # "unknown" /\ y.lifecycle # "unknown" => I!Peek(x) = I!Peek(y)
  BY DEF I!Readiness, I!Fresh, I!Authority, I!Retry, I!NextExpected, I!Peek

LEMMA UnknownShown ==
  /\ I!Unknown.lifecycle = "unknown" /\ I!Peek(I!Unknown) = << >> /\ I!Retry(I!Unknown) = << >>
  /\ \A g : I!Peek(I!NewScope(g)) = << >> /\ I!Retry(I!NewScope(g)) = << >>
  BY DEF I!Unknown, I!NewScope, I!Peek, I!Retry

LEMMA ToldWhen ==
  ASSUME I!Peek(iScope) # I!Peek(iScope') => "value" \in iChange',
         I!Readiness(iScope, iNow) # I!Readiness(iScope', iNow') => "readiness" \in iChange',
         I!Authority(iScope) # I!Authority(iScope') => "authority" \in iChange',
         I!Retry(iScope) # I!Retry(iScope') => "retry" \in iChange'
  PROVE  I!TellsReaders
<1>1. I!Missed = {}
  BY DEF I!Missed, I!Views
<1> QED  BY <1>1 DEF I!TellsReaders

\* The two exceptions.
LEMMA ToldButClosed ==
  ASSUME I!Known, iScope.lifecycle = "closed",
         I!Peek(iScope) # I!Peek(iScope') => "value" \in iChange', "readiness" \in iChange'
  PROVE  I!TellsReaders
<1>1. I!Missed \subseteq {"authority", "retry"}
  BY DEF I!Missed, I!Views
<1> QED  BY <1>1 DEF I!TellsReaders, I!If

LEMMA ToldButFenced ==
  ASSUME I!Known, iScope'.generation # iScope.generation,
         I!Peek(iScope) # I!Peek(iScope') => "value" \in iChange', "authority" \in iChange'
  PROVE  I!TellsReaders
<1>1. I!Missed \subseteq {"readiness", "retry"}
  BY DEF I!Missed, I!Views
<1> QED  BY <1>1 DEF I!TellsReaders, I!If

LEMMA OpenTells ==
  ASSUME TellInv, NEW g \in Nat, I!Open(g)  PROVE I!TellsReaders /\ ScopeQuiet(iScope')
<1>1. CASE ~I!Known
  <2>1. iScope' = I!NewScope(g) /\ iChange' = I!Creation /\ iScope = I!Unknown
    BY <1>1 DEF I!Open, I!Known
  <2>2. I!Peek(iScope) = I!Peek(iScope') /\ I!Retry(iScope) = I!Retry(iScope')
    BY <2>1, UnknownShown
  <2> QED  BY <2>1, <2>2, ToldWhen, NewQuiet DEF I!TellsReaders, I!Creation
<1>2. CASE I!Known /\ iScope.lifecycle = "closed"
  <2>1. iScope' = I!NewScope(g) /\ ScopeQuiet(iScope)
    BY <1>2, TellKnown DEF I!Open
  <2>2. I!Peek(iScope) = << >> /\ I!Peek(iScope') = << >>
    BY <1>2, <2>1, UnknownShown DEF ScopeQuiet, I!Peek
  <2>3. "readiness" \in iChange'
    BY <1>2 DEF I!Open, I!NewScope, I!If
  <2> QED  BY <1>2, <2>1, <2>2, <2>3, NewQuiet, ToldButClosed
<1>3. CASE I!Known /\ iScope.lifecycle # "closed"
  <2> DEFINE resumed == [iScope EXCEPT !.lifecycle = I!LiveOrOpening(iScope)]
  <2>1. ScopeHeld(iScope) /\ ScopeQuiet(iScope)
    BY <1>3, TellKnown
  <2>2. iScope.lifecycle \in Lifecycles /\ I!LiveOrOpening(iScope) \in {"live", "opening"}
    BY <2>1 DEF ScopeHeld, ScopeTyped, I!LiveOrOpening
  <2>3. /\ DOMAIN resumed = ScopeFields /\ resumed.lifecycle = I!LiveOrOpening(iScope)
        /\ resumed.generation = iScope.generation /\ resumed.through = iScope.through /\ resumed.stamp = iScope.stamp
        /\ resumed.pending = iScope.pending /\ resumed.window = iScope.window /\ resumed.errors = iScope.errors
    BY <2>1 DEF ScopeHeld, ScopeTyped, ScopeFields
  <2>4. /\ iScope' = IF g > iScope.generation THEN I!Fence(resumed, g) ELSE resumed
        /\ <<iScope'.lifecycle, iScope'.generation, iScope'.through>>
             # <<iScope.lifecycle, iScope.generation, iScope.through>> =>
             /\ "authority" \in iChange'
             /\ iScope'.lifecycle # iScope.lifecycle => "readiness" \in iChange'
        /\ iNow' = iNow
    BY <1>3 DEF I!Open, I!If
  <2> HIDE DEF resumed
  <2>5. ScopeHeld(resumed)
    BY <2>1, <2>2, <2>3, Retouched DEF ScopeHeld, ScopeTyped, Lifecycles
  <2>6. CASE g > iScope.generation
    <3>1. /\ iScope'.lifecycle = resumed.lifecycle /\ iScope'.window = iScope.window
          /\ iScope'.errors = iScope.errors /\ iScope'.generation = g
      BY <2>3, <2>4, <2>5, <2>6, FenceFields
    <3>2. I!Peek(iScope) = I!Peek(iScope')
      BY <2>2, <2>3, <3>1 DEF I!Peek, Lifecycles
    <3>3. g # iScope.generation
      BY <2>1, <2>6 DEF ScopeHeld, ScopeTyped
    <3>4. I!TellsReaders
      BY <1>3, <2>4, <3>1, <3>2, <3>3, ToldButFenced
    <3> QED  BY <1>3, <2>1, <2>2, <2>3, <3>1, <3>4 DEF ScopeQuiet
  <2>7. CASE ~(g > iScope.generation)
    <3>1. iScope' = resumed
      BY <2>4, <2>7
    <3>2. iScope.lifecycle \notin {"unknown", "closed"} /\ iScope'.lifecycle \notin {"unknown", "closed"}
      BY <1>3, <2>2, <2>3, <3>1 DEF Lifecycles
    <3>3. /\ I!Peek(iScope) = I!Peek(iScope') /\ I!Retry(iScope) = I!Retry(iScope')
          /\ I!Authority(iScope) = I!Authority(iScope')
      BY <2>3, <3>1, <3>2, SameShown
    <3>4. I!Readiness(iScope, iNow) # I!Readiness(iScope', iNow) => "readiness" \in iChange'
      <4>1. CASE iScope'.lifecycle = iScope.lifecycle
        BY <2>3, <3>1, <4>1, SameShown
      <4>2. CASE iScope'.lifecycle # iScope.lifecycle
        BY <2>4, <4>2
      <4> QED  BY <4>1, <4>2
    <3>5. ScopeQuiet(iScope')
      BY <2>1, <2>3, <3>1, <3>2 DEF ScopeQuiet
    <3> QED  BY <2>4, <3>3, <3>4, <3>5, ToldWhen
  <2> QED  BY <2>6, <2>7
<1> QED  BY <1>1, <1>2, <1>3

LEMMA SuspendTells == ASSUME TellInv, I!Suspend  PROVE I!TellsReaders /\ ScopeQuiet(iScope')
<1>1. ScopeHeld(iScope) /\ ScopeQuiet(iScope) /\ iScope.lifecycle \notin {"suspended", "closed"}
  BY TellKnown DEF I!Suspend
<1>2. /\ iScope'.lifecycle = "suspended" /\ iScope'.generation = iScope.generation
      /\ iScope'.through = iScope.through /\ iScope'.stamp = iScope.stamp
      /\ iScope'.window = iScope.window /\ iScope'.errors = iScope.errors
      /\ iChange' = {"readiness"}
  BY <1>1 DEF I!Suspend, ScopeHeld, ScopeTyped, ScopeFields
<1>3. iScope.lifecycle \notin {"unknown", "closed"}
  BY <1>1 DEF ScopeHeld, ScopeTyped, Lifecycles
<1>4. /\ I!Peek(iScope) = I!Peek(iScope') /\ I!Retry(iScope) = I!Retry(iScope')
      /\ I!Authority(iScope) = I!Authority(iScope')
  BY <1>2, <1>3, SameShown
<1> QED  BY <1>1, <1>2, <1>4, ToldWhen DEF ScopeQuiet

LEMMA ReconnectTells ==
  ASSUME TellInv, NEW g \in Nat, I!Reconnect(g)  PROVE I!TellsReaders /\ ScopeQuiet(iScope')
<1> DEFINE old == IF I!Known THEN iScope ELSE I!NewScope(g)
           fenced == IF g > old.generation THEN I!Handoff(old, g) ELSE old
<1>1. ScopeHeld(old) /\ ScopeQuiet(old)
  BY OrNewQuiet
<1>2. /\ iScope' = [fenced EXCEPT !.lifecycle = I!LiveOrOpening(fenced), !.errors = 0] /\ iNow' = iNow
      /\ g > old.generation /\ old.window # << >> => "value" \in iChange'
      /\ old.lifecycle # I!LiveOrOpening(fenced) => "readiness" \in iChange'
      /\ g > old.generation => "authority" \in iChange'
      /\ old.errors > 0 => "retry" \in iChange'
      /\ ~I!Known => "authority" \in iChange' /\ "readiness" \in iChange'
  BY DEF I!Reconnect, I!If, I!Creation
<1>3. /\ I!Known => old = iScope
      /\ ~I!Known => old = I!NewScope(g) /\ iScope = I!Unknown
  BY DEF I!Known
<1> HIDE DEF old
<1>4. /\ DOMAIN fenced = ScopeFields /\ fenced.errors = old.errors
      /\ g > old.generation => fenced.window = << >> /\ fenced.generation = g
      /\ ~(g > old.generation) => fenced = old
  BY <1>1, FenceFields DEF ScopeHeld, ScopeTyped
<1> HIDE DEF fenced
<1>5. /\ iScope'.lifecycle = I!LiveOrOpening(fenced) /\ iScope'.errors = 0 /\ iScope'.window = fenced.window
      /\ iScope'.generation = fenced.generation /\ iScope'.through = fenced.through /\ iScope'.stamp = fenced.stamp
  BY <1>2, <1>4 DEF ScopeFields
<1>6. iScope'.lifecycle \in {"live", "opening"}
  BY <1>5 DEF I!LiveOrOpening
<1>7. ScopeQuiet(iScope')
  BY <1>5, <1>6 DEF ScopeQuiet
<1>8. old.errors \in Nat /\ old.lifecycle \in Lifecycles /\ old.generation \in Nat
  BY <1>1 DEF ScopeHeld, ScopeTyped, ScopeQuiet
<1>9. CASE ~I!Known
  <2>1. old = I!NewScope(g) /\ g = old.generation /\ old.window = << >> /\ old.errors = 0
    BY <1>3, <1>9 DEF I!NewScope
  <2>2. fenced = old
    BY <1>4, <1>8, <2>1
  <2>3. iScope'.window = << >> /\ iScope'.errors = 0
    BY <1>5, <2>1, <2>2
  <2>4. I!Peek(iScope') = << >> /\ I!Retry(iScope') = << >>
    BY <1>6, <2>3 DEF I!Peek, I!Retry
  <2>5. I!Peek(iScope) = << >> /\ I!Retry(iScope) = << >>
    BY <1>3, <1>9, UnknownShown
  <2> QED  BY <1>2, <1>7, <1>9, <2>4, <2>5, ToldWhen
<1>10. CASE I!Known
  <2>1. old = iScope
    BY <1>3, <1>10
  <2>2. iScope.lifecycle # "unknown" /\ iScope'.lifecycle # "unknown"
    BY <1>6, <1>8, <2>1 DEF Lifecycles
  <2>3. I!Peek(iScope) # I!Peek(iScope') => "value" \in iChange'
    BY <1>2, <1>4, <1>5, <2>1, <2>2 DEF I!Peek
  <2>4. CASE g > iScope.generation
    BY <1>2, <1>4, <1>5, <1>7, <1>8, <1>10, <2>1, <2>3, <2>4, ToldButFenced
  <2>5. CASE iScope.lifecycle = "closed"
    BY <1>2, <1>5, <1>6, <1>7, <1>10, <2>1, <2>3, <2>5, ToldButClosed
  <2>6. CASE ~(g > iScope.generation) /\ iScope.lifecycle # "closed"
    <3>1. fenced = iScope
      BY <1>4, <2>1, <2>6
    <3>2. I!Readiness(iScope, iNow) # I!Readiness(iScope', iNow) => "readiness" \in iChange'
      <4>1. CASE iScope'.lifecycle = iScope.lifecycle
        BY <1>5, <3>1, <4>1, SameShown
      <4>2. CASE iScope'.lifecycle # iScope.lifecycle
        BY <1>2, <1>5, <2>1, <4>2
      <4> QED  BY <4>1, <4>2
    <3>3. I!Authority(iScope) = I!Authority(iScope')
      BY <1>5, <1>6, <2>2, <2>6, <3>1, SameShown
    <3>4. I!Retry(iScope) # I!Retry(iScope') => "retry" \in iChange'
      <4>1. CASE iScope.errors = 0
        BY <1>5, <4>1, SameShown
      <4>2. CASE iScope.errors > 0
        BY <1>2, <2>1, <4>2
      <4> QED  BY <1>8, <2>1, <4>1, <4>2
    <3> QED  BY <1>2, <1>7, <2>3, <3>2, <3>3, <3>4, ToldWhen
  <2> QED  BY <2>4, <2>5, <2>6
<1> QED  BY <1>9, <1>10

LEMMA CloseTells == ASSUME TellInv, I!Close  PROVE I!TellsReaders /\ ScopeQuiet(iScope')
<1>1. ScopeHeld(iScope) /\ ScopeQuiet(iScope) /\ iNow' = iNow
  BY TellKnown DEF I!Close
<1>2. DOMAIN I!ClearWindow(iScope) = ScopeFields /\ I!ClearWindow(iScope).window = << >>
  BY <1>1, ClearedIs DEF ScopeHeld, ScopeTyped
<1>3. /\ iScope'.lifecycle = "closed" /\ iScope'.window = << >> /\ iScope'.errors = 0
      /\ iScope.window # << >> => "value" \in iChange'
      /\ "readiness" \in iChange' /\ "authority" \in iChange'
      /\ iScope.errors > 0 => "retry" \in iChange'
  BY <1>2 DEF I!Close, I!If, I!Creation, ScopeFields
<1>4. iScope.lifecycle # "unknown" /\ iScope.errors \in Nat
  BY <1>1 DEF ScopeHeld, ScopeTyped, Lifecycles, ScopeQuiet
<1>5. I!Peek(iScope) # I!Peek(iScope') => "value" \in iChange'
  BY <1>3, <1>4 DEF I!Peek
<1>6. I!Retry(iScope) # I!Retry(iScope') => "retry" \in iChange'
  <2>1. CASE iScope.errors = 0
    BY <1>3, <2>1, SameShown
  <2> QED  BY <1>3, <1>4, <2>1
<1> QED  BY <1>1, <1>3, <1>5, <1>6, ToldWhen DEF ScopeQuiet

LEMMA TickTells == ASSUME TellInv, I!Tick  PROVE I!TellsReaders /\ iScope' = iScope
<1>1. iScope' = iScope /\ (I!Readiness(iScope, iNow) # I!Readiness(iScope, iNow') => "readiness" \in iChange')
  BY DEF I!Tick, I!If
<1>2. I!Readiness(iScope', iNow') = I!Readiness(iScope, iNow')
  BY <1>1 DEF I!Readiness, I!Fresh
<1>3. I!Peek(iScope) = I!Peek(iScope') /\ I!Authority(iScope) = I!Authority(iScope') /\ I!Retry(iScope) = I!Retry(iScope')
  BY <1>1
<1> QED  BY <1>1, <1>2, <1>3, ToldWhen

LEMMA FailTells == ASSUME TellInv, I!Fail  PROVE I!TellsReaders /\ ScopeQuiet(iScope')
<1> DEFINE old == IF I!Known THEN iScope ELSE I!NewScope(0)
<1>1. ScopeHeld(old) /\ ScopeQuiet(old)
  BY OrNewQuiet
<1>2. /\ iScope' = [old EXCEPT !.errors = @ + 1] /\ iNow' = iNow /\ "retry" \in iChange'
      /\ ~I!Known => "readiness" \in iChange' /\ "authority" \in iChange'
  BY DEF I!Fail, I!If, I!Creation
<1>3. /\ I!Known => old = iScope
      /\ ~I!Known => old = I!NewScope(0) /\ iScope = I!Unknown
  BY DEF I!Known
<1> HIDE DEF old
<1>4. /\ iScope'.lifecycle = old.lifecycle /\ iScope'.generation = old.generation /\ iScope'.through = old.through
      /\ iScope'.stamp = old.stamp /\ iScope'.window = old.window /\ iScope'.errors = old.errors + 1
  BY <1>1, <1>2 DEF ScopeHeld, ScopeTyped, ScopeFields
<1>5. ScopeQuiet(iScope') /\ old.lifecycle \in Lifecycles
  BY <1>1, <1>4 DEF ScopeQuiet, ScopeHeld, ScopeTyped
<1>6. CASE ~I!Known
  <2>1. old.window = << >> /\ old.lifecycle = "opening" /\ iScope = I!Unknown
    BY <1>3, <1>6 DEF I!NewScope
  <2>2. I!Peek(iScope') = << >> /\ I!Peek(iScope) = << >>
    BY <1>4, <2>1, UnknownShown DEF I!Peek
  <2> QED  BY <1>2, <1>5, <1>6, <2>2, ToldWhen
<1>7. CASE I!Known
  <2>1. iScope = old /\ iScope.lifecycle # "unknown" /\ iScope'.lifecycle = iScope.lifecycle
    BY <1>3, <1>4, <1>5, <1>7 DEF Lifecycles
  <2>2. I!Authority(iScope) = I!Authority(iScope')
    BY <1>4, <2>1 DEF I!Authority
  <2>3. I!Peek(iScope) = I!Peek(iScope') /\ I!Readiness(iScope, iNow) = I!Readiness(iScope', iNow)
    BY <1>4, <2>1, SameShown
  <2> QED  BY <1>2, <1>5, <2>2, <2>3, ToldWhen
<1> QED  BY <1>6, <1>7

LEMMA DrainTells == ASSUME TellInv, I!Drain  PROVE I!TellsReaders /\ ScopeQuiet(iScope')
<1>1. ScopeHeld(iScope) /\ ScopeQuiet(iScope) /\ iNow' = iNow /\ iChange' = {"value"} /\ iScope' = I!ClearWindow(iScope)
  BY TellKnown DEF I!Drain
<1>2. /\ iScope'.lifecycle = iScope.lifecycle /\ iScope'.generation = iScope.generation /\ iScope'.through = iScope.through
      /\ iScope'.stamp = iScope.stamp /\ iScope'.window = << >> /\ iScope'.errors = iScope.errors
  BY <1>1 DEF I!ClearWindow, ScopeHeld, ScopeTyped, ScopeFields
<1>3. I!Authority(iScope) = I!Authority(iScope')
  BY <1>2 DEF I!Authority
<1>4. iScope.lifecycle # "unknown"
  BY <1>1 DEF ScopeHeld, ScopeTyped, Lifecycles
<1>5. I!Retry(iScope) = I!Retry(iScope') /\ I!Readiness(iScope, iNow) = I!Readiness(iScope', iNow)
  BY <1>2, <1>4, SameShown
<1> QED  BY <1>1, <1>2, <1>3, <1>5, ToldWhen DEF ScopeQuiet

\* With room for one, what a handoff brings is delivered or buffered.
LEMMA HandoffTakes ==
  ASSUME IngressRoom, NEW b, ScopeHeld(b), b.through = -1, b.window = << >>, DOMAIN b.pending = {},
         NEW e, e.sequence \in Nat
  PROVE  I!Buffers(b, e) \/ I!Delivers(b, e)
<1>1. CASE e.sequence = 0
  <2>1. ~I!Full(b)
    BY DEF I!Full, IngressRoom
  <2> QED  BY <1>1, <2>1 DEF I!Delivers, I!NextExpected
<1>2. CASE e.sequence # 0
  <2>1. I!Cardinality(DOMAIN b.pending) = 0
    BY SameCardinality, FS_EmptySet
  <2> QED  BY <1>2, <2>1 DEF I!Buffers, I!NextExpected, IngressRoom
<1> QED  BY <1>1, <1>2

LEMMA BufferedFields ==
  ASSUME NEW b, ScopeHeld(b), NEW e
  PROVE  LET new == Buffered(b, e)
         IN /\ new.lifecycle = b.lifecycle /\ new.generation = b.generation /\ new.through = b.through
            /\ new.stamp = b.stamp /\ new.window = b.window /\ new.errors = b.errors
  BY DEF Buffered, ScopeHeld, ScopeTyped, ScopeFields

LEMMA AdmitTells ==
  ASSUME IngressRoom, TellInv, NEW e, e.generation \in Nat, e.sequence \in Nat, I!Admit(e)
  PROVE  I!TellsReaders /\ (iScope' # I!Unknown => ScopeQuiet(iScope'))
<1> DEFINE old == IF I!Known THEN iScope ELSE I!NewScope(e.generation)
           b == I!Base(old, e)
           new == I!Admitted(old, e)
<1>1. ScopeHeld(old) /\ ScopeQuiet(old)
  BY OrNewQuiet
<1>2. /\ iNow' = iNow
      /\ \/ /\ ~I!Refused(old, e) /\ I!Buffers(b, e) /\ iScope' = new
            /\ ~I!Known => iChange' = I!Creation
            /\ I!Known /\ (old.window # << >>) # (new.window # << >>) => "value" \in iChange'
            /\ I!Known /\ old.generation # new.generation => "authority" \in iChange'
         \/ /\ ~I!Refused(old, e) /\ I!Delivers(b, e) /\ iScope' = new
            /\ iChange' = {"value", "readiness", "authority", "retry"}
         \/ /\ I!Refused(old, e) \/ (~I!Buffers(b, e) /\ ~I!Delivers(b, e))
            /\ iScope' = (IF I!Known THEN new ELSE I!Unknown)
  BY DEF I!Admit, I!If
<1>3. /\ I!Refused(old, e) => new = old
      /\ ~I!Refused(old, e) /\ I!Buffers(b, e) => new = Buffered(b, e)
      /\ ~I!Refused(old, e) /\ ~I!Buffers(b, e) /\ I!Delivers(b, e) => new = I!Delivered(b, e)
      /\ ~I!Refused(old, e) /\ ~I!Buffers(b, e) /\ ~I!Delivers(b, e) => new = b
  BY DEF I!Admitted, Buffered
<1>4. /\ e.generation > old.generation => b = I!Handoff(old, e.generation)
      /\ ~(e.generation > old.generation) => b = old
  BY DEF I!Base
<1>5. /\ I!Known => old = iScope
      /\ ~I!Known => old = I!NewScope(e.generation) /\ iScope = I!Unknown
  BY DEF I!Known
<1> HIDE DEF b, new, old
<1>6. ScopeHeld(b)
  BY <1>1, <1>4, HandoffIs DEF ScopeHeld
<1>7. /\ b.lifecycle = old.lifecycle /\ b.errors = old.errors
      /\ e.generation > old.generation =>
           b.generation = e.generation /\ b.through = -1 /\ b.window = << >> /\ DOMAIN b.pending = {}
  BY <1>1, <1>4, FenceFields
<1>8. old.lifecycle \in Lifecycles /\ old.errors \in Nat /\ old.generation \in Nat
  BY <1>1 DEF ScopeHeld, ScopeTyped, ScopeQuiet
<1>9. ~I!Known => old.window = << >> /\ old.errors = 0 /\ b = old
  BY <1>4, <1>5 DEF I!NewScope
<1>13. ~(I!Buffers(b, e) /\ I!Delivers(b, e))
  BY <1>6 DEF I!Buffers, I!Delivers, I!NextExpected, ScopeHeld, ScopeTyped
<1>10. CASE ~I!Refused(old, e) /\ I!Buffers(b, e) /\ iScope' = new
  <2>1. /\ new.lifecycle = old.lifecycle /\ new.generation = b.generation /\ new.through = b.through
        /\ new.stamp = b.stamp /\ new.window = b.window /\ new.errors = old.errors
    BY <1>3, <1>6, <1>7, <1>10, BufferedFields
  <2>2. old.lifecycle # "closed"
    BY <1>10 DEF I!Refused
  <2>3. ScopeQuiet(iScope')
    BY <1>8, <1>10, <2>1, <2>2 DEF ScopeQuiet
  <2>4. CASE ~I!Known
    <3>1. I!Peek(iScope') = << >> /\ I!Retry(iScope') = << >>
      BY <1>9, <1>10, <2>1, <2>4 DEF I!Peek, I!Retry
    <3>2. I!Peek(iScope) = << >> /\ I!Retry(iScope) = << >>
      BY <1>5, <2>4, UnknownShown
    <3>3. iChange' = I!Creation
      BY <1>2, <1>10, <1>13, <2>4
    <3> QED  BY <2>3, <2>4, <3>1, <3>2, <3>3, ToldWhen DEF I!Creation
  <2>5. CASE I!Known /\ ~(e.generation > old.generation)
    <3>1. iScope = old /\ b = old
      BY <1>4, <1>5, <2>5
    <3>2. iScope.lifecycle \notin {"unknown", "closed"} /\ iScope'.lifecycle \notin {"unknown", "closed"}
      BY <1>8, <1>10, <2>1, <2>2, <3>1 DEF Lifecycles
    <3>3. /\ I!Readiness(iScope, iNow) = I!Readiness(iScope', iNow) /\ I!Peek(iScope) = I!Peek(iScope')
          /\ I!Retry(iScope) = I!Retry(iScope') /\ I!Authority(iScope) = I!Authority(iScope')
      BY <1>10, <2>1, <3>1, <3>2, SameShown
    <3> QED  BY <1>2, <2>3, <3>3, ToldWhen
  <2>6. CASE I!Known /\ e.generation > old.generation
    <3>1. iScope'.generation # iScope.generation
      BY <1>5, <1>7, <1>8, <1>10, <2>1, <2>6
    <3>2. iScope = old /\ iScope.lifecycle # "unknown" /\ iScope'.lifecycle # "unknown" /\ iScope'.window = << >>
      BY <1>5, <1>7, <1>8, <1>10, <2>1, <2>6 DEF Lifecycles
    <3>3. I!Peek(iScope) # I!Peek(iScope') => (old.window # << >>) # (new.window # << >>)
      BY <1>10, <3>2 DEF I!Peek
    <3>4. I!Peek(iScope) # I!Peek(iScope') => "value" \in iChange'
      BY <1>2, <1>10, <2>6, <3>3
    <3>5. "authority" \in iChange'
      BY <1>2, <1>10, <1>13, <2>6, <3>1, <3>2
    <3> QED  BY <2>3, <2>6, <3>1, <3>4, <3>5, ToldButFenced
  <2> QED  BY <2>4, <2>5, <2>6
<1>11. CASE ~I!Refused(old, e) /\ ~I!Buffers(b, e) /\ I!Delivers(b, e) /\ iScope' = new
  <2>1. iChange' = {"value", "readiness", "authority", "retry"}
    BY <1>2, <1>11
  <2>2. new = I!Delivered(b, e)
    BY <1>3, <1>11
  <2>3. ScopeQuiet(iScope')
    BY <1>6, <1>11, <2>2, DeliveredFields DEF ScopeQuiet
  <2> QED  BY <1>2, <2>1, <2>3, ToldWhen
<1>12. CASE /\ I!Refused(old, e) \/ (~I!Buffers(b, e) /\ ~I!Delivers(b, e))
            /\ iScope' = (IF I!Known THEN new ELSE I!Unknown)
  <2>1. new = old
    <3>1. CASE I!Refused(old, e)
      BY <1>3, <3>1
    <3>2. CASE ~I!Refused(old, e)
      <4>1. ~I!Buffers(b, e) /\ ~I!Delivers(b, e)
        BY <1>12, <3>2
      <4>2. ~(e.generation > old.generation)
        BY <1>6, <1>7, <4>1, HandoffTakes
      <4> QED  BY <1>3, <1>4, <3>2, <4>1, <4>2
    <3> QED  BY <3>1, <3>2
  <2>2. iScope' = iScope
    BY <1>5, <1>12, <2>1
  <2>3. I!Readiness(iScope', iNow') = I!Readiness(iScope, iNow)
    BY <1>2, <2>2 DEF I!Readiness, I!Fresh
  <2>4. I!TellsReaders
    BY <1>2, <2>2, <2>3, ToldWhen
  <2> QED  BY <2>2, <2>4 DEF TellInv
<1> QED  BY <1>2, <1>10, <1>11, <1>12, <1>13

LEMMA TellInit == I!Init => TellInv
  BY IngressInit DEF I!Init, TellInv

LEMMA TellStep ==
  ASSUME IngressRoom, TellInv, I!Next
  PROVE  I!TellsReaders /\ TellInv'
<1> USE IngressAssumption DEF IngressAssumption
<1>1. I!TellsReaders /\ (iScope' # I!Unknown => ScopeQuiet(iScope'))
  <2>1. ASSUME NEW g \in IngressGenerations, I!Open(g) \/ I!Reconnect(g)
        PROVE I!TellsReaders /\ (iScope' # I!Unknown => ScopeQuiet(iScope'))
    BY <2>1, OpenTells, ReconnectTells
  <2>2. CASE I!Suspend \/ I!Close
    BY <2>2, SuspendTells, CloseTells
  <2>3. CASE I!Fail \/ I!Drain
    BY <2>3, FailTells, DrainTells
  <2>4. CASE I!Tick
    <3>1. I!TellsReaders /\ iScope' = iScope
      BY <2>4, TickTells
    <3> QED  BY <3>1 DEF TellInv
  <2>5. ASSUME NEW e \in I!Envelope, I!Admit(e)
        PROVE I!TellsReaders /\ (iScope' # I!Unknown => ScopeQuiet(iScope'))
    <3>1. e.generation \in Nat /\ e.sequence \in Nat
      BY DEF I!Envelope, IngressRoom
    <3> QED  BY <2>5, <3>1, AdmitTells
  <2> QED  BY <2>1, <2>2, <2>3, <2>4, <2>5 DEF I!Next
<1>2. IngressInv'
  BY IngressStep DEF TellInv
<1>3. (iScope # I!Unknown => ScopeQuiet(iScope))'
  <2>1. iOverflow' = iOverflow
    BY DEF I!Next
  <2> QED  BY <1>1, <2>1 DEF I!Unknown, ScopeQuiet
<1> QED  BY <1>1, <1>2, <1>3 DEF TellInv

LEMMA TellKept == ASSUME TellInv, UNCHANGED <<iOverflow, iScope, iTaken>>  PROVE TellInv'
<1>1. IngressInv'
  BY IngressKept DEF TellInv
<1>2. (iScope # I!Unknown => ScopeQuiet(iScope))'
  BY DEF TellInv, I!Unknown, ScopeQuiet
<1> QED  BY <1>1, <1>2 DEF TellInv

(***************************************************************************)
(* The client of a durable owner.  Its scope holds nothing but what was    *)
(* observed, and what it shows is the watermark, or older than its         *)
(* producer.                                                               *)
(***************************************************************************)
SeenBy(sc, ids) == \A s \in (0..sc.through) \cup DOMAIN sc.pending : <<sc.generation, s + 1>> \in ids
OneIncarnation(ids) == \A x, y \in ids : x[1] = y[1]
Heard(sc, ids) ==
  /\ ScopeHeld(sc) /\ sc.window = << >> /\ sc.lifecycle # "closed"
  /\ SeenBy(sc, ids) /\ \E x \in ids : x[1] = sc.generation
Projected(sc, shown, ids) ==
  /\ IF sc.through = -1 THEN shown # << >> => shown[1] < sc.generation ELSE shown = <<sc.generation, sc.through>>
  /\ shown # << >> => shown \in Delivery /\ \A s \in 0..shown[2] : <<shown[1], s + 1>> \in ids
Recorded(through, ids, applied) == OneIncarnation(ids) => applied = [x \in 1..(through + 1) |-> x]

ClientInv ==
  IF hScope = I!Unknown THEN hLatest = << >> /\ hApplied = << >> /\ DOMAIN hIdentities = {}
  ELSE /\ Heard(hScope, DOMAIN hIdentities)
       /\ Projected(hScope, hLatest, DOMAIN hIdentities)
       /\ Recorded(hScope.through, DOMAIN hIdentities, hApplied)

\* The client's core is the ingress core.
LEMMA CoreIs ==
  /\ H!Core!Unknown = I!Unknown
  /\ \A g : H!Core!NewScope(g) = I!NewScope(g)
  /\ \A sc : H!Core!ClearWindow(sc) = I!ClearWindow(sc)
  /\ \A sc, g : H!Core!Handoff(sc, g) = I!Handoff(sc, g)
  /\ \A sc, e : H!Core!Base(sc, e) = I!Base(sc, e)
  BY DEF H!Core!Unknown, H!Core!NewScope, H!Core!ClearWindow, H!Core!Handoff, H!Core!Fence, H!Core!Base,
         I!Unknown, I!NewScope, I!ClearWindow, I!Handoff, I!Fence, I!Base

LEMMA CoreCardinality == \A S : H!Core!Cardinality(S) = I!Cardinality(S)
  BY DEF H!Core!Cardinality, I!Cardinality

LEMMA CoreFlush ==
  ASSUME NEW sc, DOMAIN sc = ScopeFields
  PROVE  LET core == H!Core!Flush(sc)
             new == I!Flush(sc)
         IN /\ DOMAIN core = ScopeFields /\ DOMAIN new = ScopeFields
            /\ core.lifecycle = new.lifecycle /\ core.generation = new.generation
            /\ core.through = new.through /\ core.window = new.window /\ core.pending = new.pending
<1>1. H!Core!Unblocked(sc) = I!Unblocked(sc)
  BY DEF H!Core!Unblocked, I!Unblocked, H!Core!NextExpected, I!NextExpected
<1>2. H!Core!Cardinality(H!Core!Unblocked(sc)) = I!Cardinality(I!Unblocked(sc))
  BY <1>1, CoreCardinality
<1> QED  BY <1>1, <1>2 DEF H!Core!Flush, I!Flush, ScopeFields

LEMMA FlushTakes ==
  ASSUME NEW sc, ScopeTyped(sc), \A s \in DOMAIN sc.pending : s > sc.through
  PROVE  LET new == I!Flush(sc)
         IN DOMAIN new.pending \subseteq DOMAIN sc.pending /\ (sc.through + 1)..new.through \subseteq DOMAIN sc.pending
<1>1. PICK len \in Nat : /\ I!Unblocked(sc) = (sc.through + 1)..(sc.through + len)
                         /\ I!Cardinality(I!Unblocked(sc)) = len /\ I!Unblocked(sc) \subseteq DOMAIN sc.pending
  BY UnblockedIs DEF ScopeTyped
<1>2. /\ I!Flush(sc).through = sc.through + len
      /\ I!Flush(sc).pending = [s \in DOMAIN sc.pending \ I!Unblocked(sc) |-> sc.pending[s]]
  BY <1>1 DEF I!Flush, ScopeTyped, ScopeFields
<1> QED  BY <1>1, <1>2

\* An event in order is delivered with those it lets through, all of them observed.
LEMMA ClientDelivers ==
  ASSUME NEW b, ScopeHeld(b), b.window = << >>, NEW e, e.sequence = b.through + 1
  PROVE  LET new == H!Core!Delivered(b, e)
         IN /\ ScopeHeld(new) /\ new.lifecycle = "live" /\ new.generation = b.generation
            /\ new.through > b.through /\ new.window # << >>
            /\ new.window[Len(new.window)] = <<new.generation, new.through>>
            /\ (0..new.through) \cup DOMAIN new.pending \subseteq (0..b.through) \cup DOMAIN b.pending \cup {e.sequence}
<1> DEFINE base == [H!Core!MergeInto(b, e.sequence, e.stamp) EXCEPT !.lifecycle = "live", !.errors = 0]
           flushed == I!Flush(base)
           new == H!Core!Delivered(b, e)
           first == <<b.generation, b.through + 1>>
<1>1. new = H!Core!Flush(base)
  BY DEF H!Core!Delivered
<1>2. /\ DOMAIN base = ScopeFields /\ base.generation = b.generation /\ base.through = b.through + 1
      /\ base.window = <<first>> /\ base.pending = b.pending /\ base.lifecycle = "live"
  <2>1. DOMAIN b = ScopeFields /\ Append(b.window, first) = <<first>>
    BY DEF ScopeHeld, ScopeTyped
  <2> QED  BY <2>1 DEF H!Core!MergeInto, ScopeFields
<1> HIDE DEF base
<1>3. b.generation \in Nat /\ b.through \in Int /\ b.through >= -1 /\ DOMAIN b.pending \subseteq Int
  BY DEF ScopeHeld, ScopeTyped
<1>4. <<first>> \in Seq(Delivery)
  BY <1>3 DEF Delivery
<1>5. ScopeTyped(base)
  BY <1>2, <1>3, <1>4 DEF ScopeHeld, ScopeTyped, Lifecycles
<1>6. \A s \in DOMAIN base.pending : s > base.through /\ base.pending[s].generation = base.generation
  BY <1>2 DEF ScopeHeld, WindowHeld
<1>7. PICK len \in Nat : /\ ScopeHeld(flushed) /\ flushed.generation = base.generation
                         /\ flushed.lifecycle = "live" /\ flushed.through = base.through + len
                         /\ flushed.window = base.window \o [x \in 1..len |-> <<base.generation, base.through + x>>]
  BY <1>2, <1>5, <1>6, FlushIs
<1>8. DOMAIN flushed.pending \subseteq DOMAIN b.pending /\ (base.through + 1)..flushed.through \subseteq DOMAIN b.pending
  BY <1>2, <1>5, <1>6, FlushTakes
<1>9. /\ DOMAIN new = ScopeFields
      /\ new.lifecycle = flushed.lifecycle /\ new.generation = flushed.generation
      /\ new.through = flushed.through /\ new.window = flushed.window /\ new.pending = flushed.pending
  BY <1>1, <1>2, CoreFlush
<1> HIDE DEF new, flushed
<1>10. ScopeHeld(new)
  BY <1>7, <1>9 DEF ScopeHeld, ScopeTyped, WindowHeld
<1>11. new.generation = b.generation /\ new.through = b.through + 1 + len
  BY <1>2, <1>7, <1>9
<1>12. new.window # << >> /\ new.window[Len(new.window)] = <<new.generation, new.through>>
  <2> DEFINE tail == [x \in 1..len |-> <<b.generation, b.through + 1 + x>>]
             w == <<first>> \o tail
  <2>1. new.window = w
    BY <1>2, <1>7, <1>9
  <2>2. tail \in Seq(Delivery) /\ Len(tail) = len
    BY <1>3 DEF Delivery
  <2>3. len > 0 => tail[len] = <<b.generation, b.through + 1 + len>>
    OBVIOUS
  <2> HIDE DEF tail
  <2>4. Len(w) = 1 + len /\ w[1] = first /\ (len > 0 => w[1 + len] = tail[len])
    BY <1>4, <2>2
  <2>5. w # << >>
    BY <2>4
  <2>6. w[1 + len] = <<b.generation, b.through + 1 + len>>
    BY <1>3, <2>3, <2>4
  <2> HIDE DEF w
  <2> QED  BY <1>11, <2>1, <2>4, <2>5, <2>6
<1>13. ASSUME NEW s \in (0..new.through) \cup DOMAIN new.pending
       PROVE  s \in (0..b.through) \cup DOMAIN b.pending \cup {e.sequence}
  <2>1. CASE s \in DOMAIN new.pending
    BY <1>8, <1>9, <2>1
  <2>2. CASE s \in 0..new.through
    <3>1. s <= b.through \/ s = b.through + 1 \/ s \in (b.through + 2)..new.through
      BY <1>3, <1>11, <2>2
    <3> QED  BY <1>2, <1>3, <1>8, <1>9, <2>2, <3>1
  <2> QED  BY <1>13, <2>1, <2>2
<1>14. new.lifecycle = "live" /\ new.through > b.through
  BY <1>3, <1>7, <1>9, <1>11
<1> QED  BY <1>10, <1>11, <1>12, <1>13, <1>14 DEF new

\* The envelope of an event.
Event(g, p) == [generation |-> g, sequence |-> p - 1, stamp |-> p]

\* What the scope is after an event of incarnation g: nothing it holds or delivers
\* was not observed, and its watermark grows or is that of a new producer.
Follows(old, new, g, all) ==
  /\ ScopeHeld(new) /\ new.lifecycle # "closed" /\ SeenBy(new, all)
  /\ new.generation = (IF g > old.generation THEN g ELSE old.generation)
  /\ IF new.window = << >>
     THEN new.through = (IF g > old.generation THEN -1 ELSE old.through)
     ELSE /\ new.through >= 0 /\ (new.generation = old.generation => new.through > old.through)
          /\ new.window[Len(new.window)] = <<new.generation, new.through>>

LEMMA ClientAdmits ==
  ASSUME NEW ids, NEW old, ScopeHeld(old), old.window = << >>, old.lifecycle # "closed", SeenBy(old, ids),
         NEW g \in Nat, NEW p \in Nat \ {0}
  PROVE  Follows(old, H!Core!Admitted(old, Event(g, p)), g, ids \cup {<<g, p>>})
<1> DEFINE all == ids \cup {<<g, p>>}
           new == H!Core!Admitted(old, Event(g, p))
<1> SUFFICES Follows(old, new, g, all)
  OBVIOUS
<1> DEFINE e == Event(g, p)
           b == H!Core!Base(old, e)
<1>1. e.generation = g /\ e.sequence = p - 1 /\ e.stamp = p /\ e.sequence + 1 = p /\ e.sequence \in Nat
  BY DEF Event
<1>2. old.generation \in Nat /\ old.through \in Int /\ old.through >= -1
  BY DEF ScopeHeld, ScopeTyped
<1> HIDE DEF e
<1>3. /\ H!Core!Refused(old, e) => new = old
      /\ ~H!Core!Refused(old, e) /\ H!Core!Buffers(b, e) => new = Buffered(b, e)
      /\ ~H!Core!Refused(old, e) /\ ~H!Core!Buffers(b, e) /\ H!Core!Delivers(b, e) => new = H!Core!Delivered(b, e)
      /\ ~H!Core!Refused(old, e) /\ ~H!Core!Buffers(b, e) /\ ~H!Core!Delivers(b, e) => new = b
  BY DEF e, H!Core!Admitted, Buffered
<1>4. H!Core!Refused(old, e) <=> g < old.generation
  BY <1>1 DEF H!Core!Refused
<1>5. /\ g > old.generation => b = I!Handoff(old, g)
      /\ ~(g > old.generation) => b = old
  BY <1>1, CoreIs DEF I!Base
<1> HIDE DEF b, new
<1>6. ScopeHeld(b) /\ b.window = << >> /\ b.lifecycle # "closed" /\ SeenBy(b, ids)
  <2>1. CASE g > old.generation
    <3>1. ScopeHeld(b) /\ b.window = << >> /\ b.lifecycle = old.lifecycle /\ b.through = -1 /\ DOMAIN b.pending = {}
      BY <1>5, <2>1, HandoffIs, FenceFields DEF ScopeHeld
    <3> QED  BY <3>1 DEF SeenBy
  <2>2. CASE ~(g > old.generation)
    BY <1>5, <2>2
  <2> QED  BY <2>1, <2>2
<1>7. /\ b.generation = IF g > old.generation THEN g ELSE old.generation
      /\ b.through = IF g > old.generation THEN -1 ELSE old.through
  BY <1>2, <1>5, FenceFields
<1>8. b.through \in Int /\ b.through >= -1
  BY <1>2, <1>7
<1>9. SeenBy(b, all)
  BY <1>6 DEF SeenBy
<1>10. CASE g < old.generation
  <2>1. new = old
    BY <1>3, <1>4, <1>10
  <2> QED  BY <1>2, <1>10, <2>1 DEF SeenBy, Follows
<1>11. CASE ~(g < old.generation)
  <2>1. b.generation = g
    BY <1>2, <1>7, <1>11
  <2>2. CASE H!Core!Buffers(b, e)
    <3>1. new = Buffered(b, e) /\ e.generation = b.generation /\ e.sequence \in Int
      BY <1>1, <1>3, <1>4, <1>11, <2>1, <2>2
    <3>2. e.sequence > b.through + 1
      BY <2>2 DEF H!Core!Buffers, H!Core!NextExpected
    <3>3. /\ DOMAIN new = ScopeFields /\ new.lifecycle = b.lifecycle /\ new.generation = b.generation
          /\ new.through = b.through /\ new.window = b.window
          /\ new.pending = [s \in DOMAIN b.pending \cup {e.sequence} |-> IF s = e.sequence THEN e ELSE b.pending[s]]
      BY <1>6, <3>1 DEF Buffered, ScopeHeld, ScopeTyped, ScopeFields
    <3>4. IsFiniteSet(DOMAIN new.pending)
      <4>1. DOMAIN new.pending = DOMAIN b.pending \cup {e.sequence}
        BY <3>3
      <4>2. IsFiniteSet(DOMAIN b.pending)
        BY <1>6 DEF ScopeHeld, ScopeTyped
      <4> QED  BY <4>1, <4>2, FS_AddElement
    <3>5. ScopeHeld(new)
      BY <1>6, <3>1, <3>2, <3>3, <3>4 DEF ScopeHeld, ScopeTyped, WindowHeld
    <3>6. SeenBy(new, all)
      <4>1. ASSUME NEW s \in (0..new.through) \cup DOMAIN new.pending  PROVE <<new.generation, s + 1>> \in all
        BY <1>1, <1>6, <2>1, <3>3, <4>1 DEF SeenBy
      <4> QED  BY <4>1 DEF SeenBy
    <3> QED  BY <1>6, <1>7, <3>3, <3>5, <3>6 DEF Follows
  <2>3. CASE ~H!Core!Buffers(b, e) /\ H!Core!Delivers(b, e)
    <3>1. new = H!Core!Delivered(b, e) /\ e.sequence = b.through + 1
      BY <1>3, <1>4, <1>11, <2>3 DEF H!Core!Delivers, H!Core!NextExpected
    <3>2. /\ ScopeHeld(new) /\ new.lifecycle = "live" /\ new.generation = b.generation
          /\ new.through > b.through /\ new.window # << >>
          /\ new.window[Len(new.window)] = <<new.generation, new.through>>
          /\ (0..new.through) \cup DOMAIN new.pending \subseteq (0..b.through) \cup DOMAIN b.pending \cup {e.sequence}
      BY <1>6, <3>1, ClientDelivers
    <3>3. SeenBy(new, all)
      <4>1. ASSUME NEW s \in (0..new.through) \cup DOMAIN new.pending  PROVE <<new.generation, s + 1>> \in all
        <5>1. s \in (0..b.through) \cup DOMAIN b.pending \/ s = e.sequence
          BY <3>2, <4>1
        <5> QED  BY <1>1, <1>9, <2>1, <3>2, <5>1 DEF SeenBy
      <4> QED  BY <4>1 DEF SeenBy
    <3>4. new.through \in Int
      BY <3>2 DEF ScopeHeld, ScopeTyped
    <3>5. new.through >= 0 /\ (new.generation = old.generation => new.through > old.through)
      BY <1>2, <1>7, <1>8, <3>2, <3>4
    <3> QED  BY <1>7, <3>2, <3>3, <3>5 DEF Follows
  <2>4. CASE ~H!Core!Buffers(b, e) /\ ~H!Core!Delivers(b, e)
    <3>1. new = b
      BY <1>3, <1>4, <1>11, <2>4
    <3> QED  BY <1>6, <1>7, <1>9, <3>1 DEF Follows
  <2> QED  BY <2>2, <2>3, <2>4
<1> QED  BY <1>10, <1>11

LEMMA ClientHears ==
  ASSUME NEW sc, ScopeHeld(sc), NEW ids, SeenBy(sc, ids), sc.lifecycle # "closed", \E x \in ids : x[1] = sc.generation
  PROVE  LET new == I!ClearWindow(sc)
         IN Heard(new, ids) /\ new.through = sc.through /\ new.generation = sc.generation /\ new # I!Unknown
<1> DEFINE new == I!ClearWindow(sc)
<1>1. /\ ScopeHeld(new) /\ new.through = sc.through /\ new.generation = sc.generation /\ new.window = << >>
      /\ new.pending = sc.pending /\ new.lifecycle = sc.lifecycle
  BY ClearedIs
<1> HIDE DEF new
<1>2. new # I!Unknown
  BY <1>1, HeldIsKnown DEF ScopeHeld
<1> QED  BY <1>1, <1>2 DEF Heard, SeenBy, new

LEMMA ClientObserves ==
  ASSUME ClientInv, NEW g \in Nat, NEW p \in Nat \ {0}, NEW f, H!ObserveProjection(g, p, f)
  PROVE  ClientInv' /\ (hLatest' # hLatest /\ hLatest # << >> => H!Newer(hLatest', hLatest))
<1> DEFINE ids == DOMAIN hIdentities
           all == ids \cup {<<g, p>>}
           known == hScope # I!Unknown
           old == IF known THEN hScope ELSE I!NewScope(g)
           new == H!Core!Admitted(old, Event(g, p))
           before == IF known THEN hScope.through ELSE -1
           n == IF new.through > before THEN new.through - before ELSE 0
<1>1. /\ DOMAIN hIdentities' = all
      /\ hApplied' = hApplied \o [x \in 1..n |-> before + x + 1]
      /\ hLatest' = (IF new.window # << >> THEN new.window[Len(new.window)] ELSE hLatest)
      /\ hScope' = I!ClearWindow(new)
  BY CoreIs DEF H!ObserveProjection, H!Put, H!Through, Event
<1>2. /\ ScopeHeld(old) /\ old.window = << >> /\ old.lifecycle # "closed" /\ SeenBy(old, ids)
      /\ old.through = before /\ Projected(old, hLatest, ids) /\ Recorded(before, ids, hApplied)
      /\ (\E x \in ids : x[1] = old.generation) \/ (old.generation = g /\ ids = {})
  <2>1. CASE known
    BY <2>1 DEF ClientInv, Heard
  <2>2. CASE ~known
    <3>1. /\ ScopeHeld(old) /\ old.window = << >> /\ old.lifecycle # "closed" /\ old.through = -1
          /\ old.generation = g /\ DOMAIN old.pending = {} /\ hLatest = << >> /\ hApplied = << >> /\ ids = {}
      BY <2>2, NewIs DEF ClientInv, I!NewScope
    <3>2. hApplied = [x \in 1..(-1 + 1) |-> x]
      BY <3>1
    <3> HIDE DEF old
    <3> QED  BY <2>2, <3>1, <3>2 DEF SeenBy, Projected, Recorded
  <2> QED  BY <2>1, <2>2
<1>3. old.generation \in Nat /\ before \in Int /\ before >= -1
  BY <1>2 DEF ScopeHeld, ScopeTyped
<1> HIDE DEF old, before, known, ids
<1>14. Follows(old, new, g, all)
  BY <1>2, ClientAdmits
<1> HIDE DEF new
<1>4. /\ ScopeHeld(new) /\ new.lifecycle # "closed" /\ SeenBy(new, all)
      /\ new.generation = (IF g > old.generation THEN g ELSE old.generation)
      /\ IF new.window = << >>
         THEN new.through = (IF g > old.generation THEN -1 ELSE old.through)
         ELSE /\ new.through >= 0 /\ (new.generation = old.generation => new.through > old.through)
              /\ new.window[Len(new.window)] = <<new.generation, new.through>>
  BY <1>14 DEF Follows
<1>5. new.generation \in Nat /\ new.through \in Int
  BY <1>4 DEF ScopeHeld, ScopeTyped
<1>6. \E x \in all : x[1] = new.generation
  <2> DEFINE id == <<g, p>>
  <2>1. CASE new.generation = g
    <3>1. id \in all /\ id[1] = g
      OBVIOUS
    <3> QED  BY <2>1, <3>1
  <2>2. CASE new.generation # g
    BY <1>2, <1>4, <2>2
  <2> QED  BY <2>1, <2>2
<1>7. /\ Heard(hScope', all) /\ hScope'.through = new.through /\ hScope'.generation = new.generation
      /\ hScope' # I!Unknown
  BY <1>1, <1>4, <1>6, ClientHears
<1>8. /\ hLatest # << >> => hLatest \in Delivery /\ \A s \in 0..hLatest[2] : <<hLatest[1], s + 1>> \in all
      /\ IF before = -1 THEN hLatest # << >> => hLatest[1] < old.generation ELSE hLatest = <<old.generation, before>>
  BY <1>2 DEF Projected
<1>9. hLatest # << >> => hLatest[1] \in Nat /\ hLatest[2] \in Int /\ hLatest[1] <= old.generation
  BY <1>3, <1>8 DEF Delivery
<1>10. Projected(new, hLatest', all) /\ (hLatest' # hLatest /\ hLatest # << >> => H!Newer(hLatest', hLatest))
  <2>1. CASE new.window = << >>
    <3>1. hLatest' = hLatest
      BY <1>1, <2>1
    <3>2. CASE g > old.generation
      <4>1. new.through = -1 /\ new.generation = g
        BY <1>4, <2>1, <3>2
      <4>2. hLatest # << >> => hLatest[1] < g
        BY <1>3, <1>9, <3>2
      <4> QED  BY <1>8, <3>1, <4>1, <4>2 DEF Projected
    <3>3. CASE ~(g > old.generation)
      <4>1. new.through = before /\ new.generation = old.generation
        BY <1>2, <1>4, <2>1, <3>3
      <4> QED  BY <1>8, <3>1, <4>1 DEF Projected
    <3> QED  BY <3>2, <3>3
  <2>2. CASE new.window # << >>
    <3>1. hLatest' = <<new.generation, new.through>> /\ new.through >= 0
      BY <1>1, <1>4, <2>2
    <3>2. new.through # -1 /\ hLatest' \in Delivery
      BY <1>5, <3>1 DEF Delivery
    <3>3. \A s \in 0..hLatest'[2] : <<hLatest'[1], s + 1>> \in all
      BY <1>4, <3>1 DEF SeenBy
    <3>4. Projected(new, hLatest', all)
      BY <3>1, <3>2, <3>3 DEF Projected
    <3>5. ASSUME hLatest # << >>  PROVE H!Newer(hLatest', hLatest)
      <4>1. CASE g > old.generation
        <5>1. new.generation > hLatest[1]
          BY <1>3, <1>4, <1>9, <3>5, <4>1
        <5> QED  BY <3>1, <5>1 DEF H!Newer
      <4>2. CASE ~(g > old.generation)
        <5>1. new.generation = old.generation /\ new.through > before
          BY <1>2, <1>4, <2>2, <4>2
        <5>2. CASE before = -1
          <6>1. new.generation > hLatest[1]
            BY <1>3, <1>8, <1>9, <3>5, <5>1, <5>2
          <6> QED  BY <3>1, <6>1 DEF H!Newer
        <5>3. CASE before # -1
          <6>1. hLatest[1] = old.generation /\ hLatest[2] = before
            BY <1>8, <5>3
          <6> QED  BY <3>1, <5>1, <6>1 DEF H!Newer
        <5> QED  BY <5>2, <5>3
      <4> QED  BY <4>1, <4>2
    <3> QED  BY <3>4, <3>5
  <2> QED  BY <2>1, <2>2
<1>11. Recorded(new.through, all, hApplied')
  <2> SUFFICES ASSUME OneIncarnation(all)  PROVE hApplied' = [x \in 1..(new.through + 1) |-> x]
    BY DEF Recorded
  <2> DEFINE id == <<g, p>>
  <2>1. old.generation = g
    <3>1. id \in all /\ id[1] = g
      OBVIOUS
    <3>2. \A x \in ids : x[1] = id[1]
      BY <3>1 DEF OneIncarnation
    <3> QED  BY <1>2, <3>1, <3>2
  <2>2. OneIncarnation(ids)
    BY DEF OneIncarnation
  <2>3. hApplied = [x \in 1..(before + 1) |-> x]
    BY <1>2, <2>2 DEF Recorded
  <2>4. new.generation = old.generation /\ new.through >= before
    <3>1. ~(g > old.generation)
      BY <1>3, <2>1
    <3> QED  BY <1>2, <1>3, <1>4, <1>5, <3>1
  <2>5. n \in Nat /\ before + n = new.through
    BY <1>3, <1>5, <2>4
  <2> DEFINE more == [x \in 1..n |-> before + x + 1]
             joined == hApplied \o more
  <2> HIDE DEF n
  <2>6. hApplied \in Seq(Int) /\ Len(hApplied) = before + 1 /\ \A x \in 1..(before + 1) : hApplied[x] = x
    BY <1>3, <2>3
  <2>7. more \in Seq(Int) /\ Len(more) = n /\ \A x \in 1..n : more[x] = before + x + 1
    BY <1>3, <2>5
  <2> HIDE DEF more
  <2>8. joined \in Seq(Int) /\ Len(joined) = new.through + 1
    <3>1. joined \in Seq(Int) /\ Len(joined) = (before + 1) + n
      BY <2>6, <2>7
    <3> QED  BY <1>3, <1>5, <2>5, <3>1
  <2>9. ASSUME NEW x \in 1..(new.through + 1)  PROVE joined[x] = x
    <3>1. CASE x <= before + 1
      BY <1>3, <2>6, <2>7, <2>9, <3>1
    <3>2. CASE ~(x <= before + 1)
      <4>1. x - (before + 1) \in 1..n
        BY <1>3, <1>5, <2>5, <2>9, <3>2
      <4>2. joined[x] = more[x - (before + 1)]
        BY <1>3, <2>6, <2>7, <2>9, <3>2, <4>1
      <4> QED  BY <1>3, <2>7, <4>1, <4>2
    <3> QED  BY <3>1, <3>2
  <2>10. DOMAIN joined = 1..(new.through + 1)
    BY <1>5, <2>8
  <2> HIDE DEF joined
  <2>11. joined = [x \in DOMAIN joined |-> joined[x]]
    BY <2>8
  <2>12. joined = [x \in 1..(new.through + 1) |-> x]
    BY <2>9, <2>10, <2>11
  <2>13. hApplied' = joined
    BY <1>1 DEF more, joined
  <2> QED  BY <2>12, <2>13
<1>12. Projected(hScope', hLatest', all)
  BY <1>7, <1>10 DEF Projected
<1>13. ClientInv'
  BY <1>1, <1>7, <1>11, <1>12 DEF ClientInv, I!Unknown
<1> QED  BY <1>10, <1>13

LEMMA ClientInitial == H!Init => ClientInv
  BY CoreIs DEF H!Init, H!Unseen, ClientInv

LEMMA ClientKept == ASSUME ClientInv, UNCHANGED <<hScope, hIdentities, hLatest, hApplied>>  PROVE ClientInv'
<1>1. CASE hScope = I!Unknown
  BY <1>1 DEF ClientInv, I!Unknown
<1>2. CASE hScope # I!Unknown
  <2>1. /\ Heard(hScope', DOMAIN hIdentities') /\ Projected(hScope', hLatest', DOMAIN hIdentities')
        /\ Recorded(hScope'.through, DOMAIN hIdentities', hApplied') /\ hScope' # I!Unknown
    BY <1>2 DEF ClientInv
  <2> QED  BY <2>1 DEF ClientInv, I!Unknown
<1> QED  BY <1>1, <1>2

\* What the invariant says of the state an event leaves.
LEMMA ClientHistory ==
  ASSUME ClientInv', hLatest' # hLatest /\ hLatest # << >> => H!Newer(hLatest', hLatest)
  PROVE  H!KeepsHistory
<1>1. hLatest' # << >> => \A s \in 0..hLatest'[2] : <<hLatest'[1], s + 1>> \in DOMAIN hIdentities'
  BY DEF ClientInv, Projected
<1>2. ASSUME OneIncarnation(DOMAIN hIdentities')  PROVE \A x \in DOMAIN hApplied' : hApplied'[x] = x
  <2>1. CASE (hScope = I!Unknown)'
    BY <2>1 DEF ClientInv
  <2>2. CASE ~(hScope = I!Unknown)'
    <3>1. hApplied' = [x \in 1..(hScope'.through + 1) |-> x]
      BY <1>2, <2>2 DEF ClientInv, Recorded, I!Unknown
    <3> QED  BY <3>1
  <2> QED  BY <2>1, <2>2
<1> QED  BY <1>1, <1>2 DEF H!KeepsHistory, H!Unseen, OneIncarnation

LEMMA ClientStep == ASSUME ClientInv, H!Next  PROVE ClientInv' /\ H!KeepsHistory
<1> USE ClientAssumption DEF ClientAssumption
<1>1. ASSUME NEW g \in ClientIncarnations, NEW p \in ClientPositions, NEW f, H!ObserveProjection(g, p, f)
      PROVE  ClientInv' /\ H!KeepsHistory
  BY <1>1, ClientObserves, ClientHistory
<1>2. ASSUME NEW msg, NEW f, H!ObserveIngress(msg, f) \/ H!ObserveHostReceipt(msg, f)
      PROVE  ClientInv' /\ H!KeepsHistory
  <2>1. UNCHANGED <<hScope, hIdentities, hLatest, hApplied>>
    BY <1>2 DEF H!ObserveIngress, H!ObserveHostReceipt
  <2> QED  BY <2>1, ClientKept, ClientHistory
<1> QED  BY <1>1, <1>2 DEF H!Next

\* For any incarnations, positions, horizon and policy, wherever the ingress has room
\* for one envelope that waits and one to hand out: a transition tells the readers whose
\* value it changes, the value reader always, the others but for the authority and the
\* retry of a closed scope and the readiness and the retry at a change of generation; and
\* the projection a client shows never goes back and stands on a complete history, and
\* while one incarnation is heard of its positions are applied in order, each once
\* (IngressCell._apply, DurableClient.observe_projection).
THEOREM ChangesAreTold == ASSUME IngressRoom  PROVE Spec => ChangesTold
<1> DEFINE Inv == TellInv /\ ClientInv
           Tells == (subject = "ingress" => I!TellsReaders) /\ (subject = "client" => H!KeepsHistory)
<1>1. Init => Inv
  BY TellInit, ClientInitial DEF Init
<1>2. Inv /\ [Next]_vars => Inv' /\ [Tells]_vars
  <2> SUFFICES ASSUME Inv, [Next]_vars  PROVE Inv' /\ [Tells]_vars
    OBVIOUS
  <2>1. CASE Next /\ subject = "ingress"
    <3>1. I!Next /\ UNCHANGED clientVars
      BY <2>1 DEF Next, Stays
    <3>2. I!TellsReaders /\ TellInv'
      BY <3>1, TellStep
    <3>3. ClientInv'
      BY <3>1, ClientKept DEF clientVars
    <3> QED  BY <2>1, <3>2, <3>3
  <2>2. CASE Next /\ subject = "client"
    <3>1. H!Next /\ UNCHANGED ingressVars
      BY <2>2 DEF Next, Stays
    <3>2. ClientInv' /\ H!KeepsHistory
      BY <3>1, ClientStep
    <3>3. TellInv'
      BY <3>1, TellKept DEF ingressVars
    <3> QED  BY <2>2, <3>2, <3>3
  <2>3. CASE Next /\ subject \notin {"ingress", "client"}
    <3>1. UNCHANGED ingressVars /\ UNCHANGED clientVars
      BY <2>3 DEF Next, Stays
    <3>2. Inv'
      BY <3>1, TellKept, ClientKept DEF ingressVars, clientVars
    <3> QED  BY <2>3, <3>2
  <2>4. CASE UNCHANGED vars
    <3>1. UNCHANGED ingressVars /\ UNCHANGED clientVars
      BY <2>4 DEF vars
    <3>2. Inv'
      BY <3>1, TellKept, ClientKept DEF ingressVars, clientVars
    <3> QED  BY <2>4, <3>2
  <2> QED  BY <2>1, <2>2, <2>3, <2>4
<1> QED  BY <1>1, <1>2, PTL DEF Spec, ChangesTold

(***************************************************************************)
(* The arena of spilled payloads.  A write goes where no header lies that  *)
(* is whole and has its payload there, for the offset is beside every such *)
(* blob; a header that the write runs over is not whole afterwards.        *)
(***************************************************************************)
\* The bytes of a descriptor's header, and of its payload, in a region.
HeaderIn(bytes, d) == \A i \in 0..ArenaHeader - 1 : bytes[d.offset + i] = B!HeaderByte(d, i)
PayloadIn(bytes, d) == \A i \in 0..d.len - 1 : bytes[d.offset + ArenaHeader + i] = B!PayloadByte(d, i)
End(d) == d.offset + ArenaHeader + d.len

ArenaTypes ==
  /\ DOMAIN bRegion = 0..ArenaCapacity - 1 /\ bOffset \in 0..ArenaCapacity - 1 /\ bGeneration \in Nat \ {0}
  /\ bEpochs \in [{"producer", "receiver"} -> Nat]
  /\ bMinted \in Seq(ArenaDescriptors) /\ bWriting \in ArenaDescriptors \cup {None}

\* The next write begins outside of a blob whose header is there.
Beside(d, next) == next <= d.offset \/ End(d) <= next
Stored(d, bytes, next, writing) ==
  /\ End(d) <= ArenaCapacity
  /\ HeaderIn(bytes, d) => Beside(d, next) /\ (d # writing => PayloadIn(bytes, d))
WritingHeld ==
  bWriting # None => bWriting.offset = bOffset /\ End(bWriting) <= ArenaCapacity /\ HeaderIn(bRegion, bWriting)
LastStays ==
  bWriting = None /\ bGeneration > 1 =>
    LET last == bMinted[Len(bMinted)]
    IN bMinted # << >> /\ HeaderIn(bRegion, last) /\ PayloadIn(bRegion, last)
ArenaInv == ArenaTypes /\ (\A i \in 1..Len(bMinted) : Stored(bMinted[i], bRegion, bOffset, bWriting)) /\ WritingHeld /\ LastStays

LEMMA DescriptorIs ==
  ASSUME NEW d \in ArenaDescriptors
  PROVE  /\ d.offset \in Nat /\ d.len \in Nat /\ d # None /\ ArenaHeader \in Nat /\ ArenaHeader >= 1
         /\ ArenaCapacity \in Nat /\ ArenaCapacity > ArenaHeader /\ End(d) \in Nat
<1>1. d.offset \in Nat /\ d.len \in ArenaLengths /\ d # None
  BY ArenaAssumption DEF ArenaAssumption, ArenaDescriptors
<1>2. d.len \in Nat /\ ArenaHeader \in Nat /\ ArenaHeader >= 1 /\ ArenaCapacity \in Nat /\ ArenaCapacity > ArenaHeader
  BY <1>1, ArenaAssumption DEF ArenaAssumption
<1> QED  BY <1>1, <1>2 DEF End

LEMMA HeaderBytesDiffer ==
  ASSUME NEW c, NEW d, NEW x, NEW y, B!HeaderByte(c, x) = B!HeaderByte(d, y)
  PROVE  c = d
<1>1. B!HeaderByte(c, x).of = B!HeaderByte(d, y).of
  OBVIOUS
<1> QED  BY <1>1 DEF B!HeaderByte

LEMMA PartsDiffer ==
  ASSUME NEW c, NEW d, NEW x, NEW y
  PROVE  B!HeaderByte(c, x) # B!PayloadByte(d, y)
<1>1. B!HeaderByte(c, x).part = "header" /\ B!PayloadByte(d, y).part = "payload"
  BY DEF B!HeaderByte, B!PayloadByte
<1> QED  BY <1>1

\* Two headers that are both there do not share a byte, nor does a header with a payload.
LEMMA HeadersApart ==
  ASSUME NEW bytes, NEW c \in ArenaDescriptors, NEW d \in ArenaDescriptors,
         HeaderIn(bytes, c), HeaderIn(bytes, d), c # d
  PROVE  c.offset + ArenaHeader <= d.offset \/ d.offset + ArenaHeader <= c.offset
<1> USE DescriptorIs
<1>1. SUFFICES ASSUME c.offset + ArenaHeader > d.offset, d.offset + ArenaHeader > c.offset  PROVE FALSE
  OBVIOUS
<1>2. CASE c.offset >= d.offset
  <2> DEFINE x == c.offset - d.offset
  <2>1. 0 \in 0..ArenaHeader - 1 /\ x \in 0..ArenaHeader - 1 /\ d.offset + x = c.offset + 0
    BY <1>1, <1>2
  <2>2. B!HeaderByte(c, 0) = B!HeaderByte(d, x)
    BY <2>1 DEF HeaderIn
  <2> QED  BY <2>2, HeaderBytesDiffer
<1>3. CASE d.offset >= c.offset
  <2> DEFINE x == d.offset - c.offset
  <2>1. 0 \in 0..ArenaHeader - 1 /\ x \in 0..ArenaHeader - 1 /\ c.offset + x = d.offset + 0
    BY <1>1, <1>3
  <2>2. B!HeaderByte(d, 0) = B!HeaderByte(c, x)
    BY <2>1 DEF HeaderIn
  <2> QED  BY <2>2, HeaderBytesDiffer
<1> QED  BY <1>2, <1>3

LEMMA PayloadApart ==
  ASSUME NEW bytes, NEW c \in ArenaDescriptors, NEW d \in ArenaDescriptors,
         HeaderIn(bytes, c), PayloadIn(bytes, d)
  PROVE  c.offset <= d.offset \/ End(d) <= c.offset \/ c.offset < d.offset + ArenaHeader
<1> USE DescriptorIs
<1>1. SUFFICES ASSUME c.offset >= d.offset + ArenaHeader, c.offset < End(d)  PROVE FALSE
  OBVIOUS
<1> DEFINE y == c.offset - d.offset - ArenaHeader
<1>2. 0 \in 0..ArenaHeader - 1 /\ y \in 0..d.len - 1 /\ d.offset + ArenaHeader + y = c.offset + 0
  BY <1>1 DEF End
<1>3. B!HeaderByte(c, 0) = B!PayloadByte(d, y)
  BY <1>2 DEF HeaderIn, PayloadIn
<1> QED  BY <1>3, PartsDiffer

\* A region written from a position on, up to another one.
Written(bytes, new, lo, hi) == \A i \in 0..ArenaCapacity - 1 : i < lo \/ i >= hi => new[i] = bytes[i]

\* A header, or a payload, beside what is written stays as it is.
LEMMA HeaderKept ==
  ASSUME NEW bytes, NEW new, NEW lo \in Int, NEW hi \in Int, Written(bytes, new, lo, hi),
         NEW d \in ArenaDescriptors, End(d) <= ArenaCapacity, d.offset + ArenaHeader <= lo \/ hi <= d.offset
  PROVE  HeaderIn(bytes, d) <=> HeaderIn(new, d)
<1> USE DescriptorIs
<1>1. ASSUME NEW i \in 0..ArenaHeader - 1  PROVE new[d.offset + i] = bytes[d.offset + i]
  <2>1. d.offset + i \in 0..ArenaCapacity - 1 /\ (d.offset + i < lo \/ d.offset + i >= hi)
    BY DEF End
  <2> QED  BY <2>1 DEF Written
<1> QED  BY <1>1 DEF HeaderIn

LEMMA PayloadKept ==
  ASSUME NEW bytes, NEW new, NEW lo \in Int, NEW hi \in Int, Written(bytes, new, lo, hi),
         NEW d \in ArenaDescriptors, End(d) <= ArenaCapacity, End(d) <= lo \/ hi <= d.offset + ArenaHeader
  PROVE  PayloadIn(bytes, d) <=> PayloadIn(new, d)
<1> USE DescriptorIs
<1>1. ASSUME NEW i \in 0..d.len - 1  PROVE new[d.offset + ArenaHeader + i] = bytes[d.offset + ArenaHeader + i]
  <2>1. /\ d.offset + ArenaHeader + i \in 0..ArenaCapacity - 1
        /\ d.offset + ArenaHeader + i < lo \/ d.offset + ArenaHeader + i >= hi
    BY DEF End
  <2> QED  BY <2>1 DEF Written
<1> QED  BY <1>1 DEF PayloadIn

LEMMA ArenaInit == B!Init => ArenaInv
<1> SUFFICES ASSUME B!Init  PROVE ArenaInv
  OBVIOUS
<1>1. ArenaTypes
  BY ArenaAssumption DEF B!Init, ArenaTypes, ArenaAssumption
<1> QED  BY <1>1 DEF B!Init, ArenaInv, WritingHeld, LastStays

LEMMA MintedIs ==
  ASSUME ArenaTypes, NEW i \in 1..Len(bMinted)
  PROVE  bMinted[i] \in ArenaDescriptors
  BY DEF ArenaTypes

\* Where a spill begins: what is beside the offset is beside it too.
LEMMA WrappedIs ==
  ASSUME ArenaTypes, NEW n \in ArenaLengths
  PROVE  /\ B!Wrapped(n) \in 0..ArenaCapacity - 1
         /\ ~B!Stays(n) => B!Wrapped(n) + ArenaHeader + n <= ArenaCapacity
         /\ \A d \in ArenaDescriptors : Beside(d, bOffset) => B!Wrapped(n) <= d.offset \/ End(d) <= B!Wrapped(n)
<1>0. n \in Nat /\ bOffset \in 0..ArenaCapacity - 1 /\ ArenaHeader \in Nat /\ ArenaCapacity \in Nat
  BY ArenaAssumption DEF ArenaAssumption, ArenaTypes
<1>1. B!Wrapped(n) \in {0, bOffset}
  BY DEF B!Wrapped
<1>2. ~B!Stays(n) => ArenaHeader + n <= ArenaCapacity
  BY <1>0 DEF B!Stays
<1>3. ~B!Stays(n) => B!Wrapped(n) + ArenaHeader + n <= ArenaCapacity
  BY <1>0, <1>2 DEF B!Wrapped, B!TotalLen
<1>4. ASSUME NEW d \in ArenaDescriptors, Beside(d, bOffset)  PROVE B!Wrapped(n) <= d.offset \/ End(d) <= B!Wrapped(n)
  BY <1>1, <1>4, DescriptorIs DEF Beside
<1> QED  BY <1>0, <1>1, <1>3, <1>4

LEMMA InlineStep ==
  ASSUME ArenaInv, NEW n \in ArenaLengths, B!StayInline(n)
  PROVE  ArenaInv'
<1>1. bOffset' \in {bOffset, B!Wrapped(n)} /\ bWriting = None
      /\ UNCHANGED <<bRegion, bGeneration, bEpochs, bWriting, bMinted>>
  BY DEF B!StayInline
<1>2. ArenaTypes'
  BY <1>1, WrappedIs DEF ArenaInv, ArenaTypes
<1>3. ASSUME NEW i \in 1..Len(bMinted')  PROVE Stored(bMinted'[i], bRegion', bOffset', bWriting')
  <2>1. bMinted' = bMinted /\ bMinted[i] \in ArenaDescriptors /\ Stored(bMinted[i], bRegion, bOffset, bWriting)
    BY <1>1, MintedIs DEF ArenaInv
  <2>2. Beside(bMinted[i], bOffset) => bOffset' <= bMinted[i].offset \/ End(bMinted[i]) <= bOffset'
    BY <1>1, <2>1, WrappedIs DEF ArenaInv, Beside
  <2> QED  BY <1>1, <2>1, <2>2 DEF Stored, Beside
<1>4. WritingHeld' /\ LastStays'
  BY <1>1 DEF ArenaInv, WritingHeld, LastStays
<1> QED  BY <1>2, <1>3, <1>4 DEF ArenaInv

LEMMA EpochStep ==
  ASSUME ArenaInv, B!AdvanceEpoch \/ B!ReceiverAdvances \/ UNCHANGED arenaVars
  PROVE  ArenaInv'
<1>1. UNCHANGED <<bRegion, bOffset, bGeneration, bWriting, bMinted>>
  BY DEF B!AdvanceEpoch, B!ReceiverAdvances, arenaVars
<1>2. bEpochs' \in [{"producer", "receiver"} -> Nat]
  BY DEF ArenaInv, ArenaTypes, B!AdvanceEpoch, B!ReceiverAdvances, arenaVars
<1> QED  BY <1>1, <1>2 DEF ArenaInv, ArenaTypes, WritingHeld, LastStays, Stored, Beside

LEMMA CreateStep == ArenaInv /\ B!Create => ArenaInv'
<1> SUFFICES ASSUME ArenaInv, B!Create  PROVE ArenaInv'
  OBVIOUS
<1>1. /\ bRegion' = [i \in DOMAIN bRegion |-> None] /\ bOffset' = 0 /\ bGeneration' = 1
      /\ bEpochs' = [producer |-> 0, receiver |-> 0] /\ bWriting' = None /\ bMinted' = bMinted
  BY DEF B!Create
<1>2. ArenaTypes'
  BY <1>1, ArenaAssumption DEF ArenaInv, ArenaTypes, ArenaAssumption
<1>3. ASSUME NEW d \in ArenaDescriptors, End(d) <= ArenaCapacity  PROVE ~HeaderIn(bRegion', d)
  <2>1. d.offset + 0 \in DOMAIN bRegion /\ 0 \in 0..ArenaHeader - 1
    BY <1>3, DescriptorIs DEF End, ArenaInv, ArenaTypes
  <2>2. bRegion'[d.offset + 0] = None
    BY <1>1, <2>1
  <2>3. B!HeaderByte(d, 0) # None
    BY ArenaAssumption DEF ArenaAssumption, B!HeaderByte
  <2> QED  BY <2>1, <2>2, <2>3 DEF HeaderIn
<1>4. ASSUME NEW i \in 1..Len(bMinted')  PROVE Stored(bMinted'[i], bRegion', bOffset', bWriting')
  BY <1>1, <1>3, MintedIs DEF ArenaInv, Stored
<1>5. WritingHeld' /\ LastStays'
  BY <1>1 DEF WritingHeld, LastStays
<1> QED  BY <1>2, <1>4, <1>5 DEF ArenaInv

LEMMA BlobHeaderStep ==
  ASSUME ArenaInv, NEW v \in ArenaValues, NEW n \in ArenaLengths, B!WriteHeader(v, n)
  PROVE  ArenaInv'
<1> DEFINE o == B!Wrapped(n)
           d == [offset |-> o, len |-> n, generation |-> bGeneration, epoch |-> bEpochs.producer, checksum |-> v]
<1>1. /\ bWriting = None /\ ~B!Stays(n) /\ bGeneration' = bGeneration + 1 /\ bWriting' = d /\ bOffset' = o
      /\ bRegion' = [i \in DOMAIN bRegion |-> IF i \in o..o + ArenaHeader - 1 THEN B!HeaderByte(d, i - o) ELSE bRegion[i]]
      /\ UNCHANGED <<bEpochs, bMinted>>
  BY DEF B!WriteHeader
<1>2. /\ o \in 0..ArenaCapacity - 1 /\ o + ArenaHeader + n <= ArenaCapacity
      /\ \A c \in ArenaDescriptors : Beside(c, bOffset) => o <= c.offset \/ End(c) <= o
  BY <1>1, WrappedIs DEF ArenaInv
<1>3. d \in ArenaDescriptors /\ d.offset = o /\ d.len = n
  BY <1>2, ArenaAssumption DEF ArenaInv, ArenaTypes, ArenaDescriptors, ArenaAssumption
<1> HIDE DEF o, d
<1>4. ArenaTypes'
  BY <1>1, <1>2, <1>3 DEF ArenaInv, ArenaTypes
<1>5. n \in Nat /\ ArenaHeader \in Nat /\ ArenaHeader >= 1 /\ ArenaCapacity \in Nat
  BY ArenaAssumption DEF ArenaAssumption
<1>6. Written(bRegion, bRegion', o, o + ArenaHeader)
  BY <1>1, <1>2, <1>5 DEF Written, ArenaInv, ArenaTypes
<1>7. HeaderIn(bRegion', d)
  <2>1. ASSUME NEW i \in 0..ArenaHeader - 1  PROVE bRegion'[o + i] = B!HeaderByte(d, i)
    <3>1. o + i \in DOMAIN bRegion /\ o + i \in o..o + ArenaHeader - 1 /\ (o + i) - o = i
      BY <1>2, <1>5 DEF ArenaInv, ArenaTypes
    <3> QED  BY <1>1, <3>1
  <2> QED  BY <1>3, <2>1 DEF HeaderIn
<1>8. End(d) <= ArenaCapacity
  BY <1>2, <1>3 DEF End
<1>9. WritingHeld'
  BY <1>1, <1>3, <1>7, <1>8 DEF WritingHeld
<1>10. ASSUME NEW i \in 1..Len(bMinted')  PROVE Stored(bMinted'[i], bRegion', bOffset', bWriting')
  <2> DEFINE c == bMinted[i]
  <2>1. bMinted'[i] = c /\ c \in ArenaDescriptors /\ Stored(c, bRegion, bOffset, bWriting)
    BY <1>1, MintedIs DEF ArenaInv
  <2> HIDE DEF c
  <2>2. SUFFICES ASSUME HeaderIn(bRegion', c)
                 PROVE  (o <= c.offset \/ End(c) <= o) /\ (c # d => PayloadIn(bRegion', c))
    BY <1>1, <2>1 DEF Stored, Beside
  <2>3. CASE c = d
    BY <1>2, <1>3, <2>3
  <2>4. CASE c # d
    <3>1. c.offset + ArenaHeader <= o \/ o + ArenaHeader <= c.offset
      BY <1>3, <1>7, <2>1, <2>2, <2>4, HeadersApart
    <3>2. HeaderIn(bRegion, c)
      BY <1>2, <1>5, <1>6, <2>1, <2>2, <3>1, HeaderKept DEF Stored
    <3>3. Beside(c, bOffset) /\ PayloadIn(bRegion, c)
      BY <1>1, <2>1, <3>2, DescriptorIs DEF Stored
    <3>4. o <= c.offset \/ End(c) <= o
      BY <1>2, <2>1, <3>3
    <3>5. End(c) <= o \/ o + ArenaHeader <= c.offset + ArenaHeader
      BY <1>2, <1>5, <2>1, <3>4, DescriptorIs
    <3>6. PayloadIn(bRegion', c)
      BY <1>2, <1>5, <1>6, <2>1, <3>3, <3>5, PayloadKept DEF Stored
    <3> QED  BY <3>4, <3>6
  <2> QED  BY <2>3, <2>4
<1>11. LastStays'
  BY <1>1, <1>3, DescriptorIs DEF LastStays
<1> QED  BY <1>4, <1>9, <1>10, <1>11 DEF ArenaInv

LEMMA BlobPayloadStep == ArenaInv /\ B!WritePayload => ArenaInv'
<1> SUFFICES ASSUME ArenaInv, B!WritePayload  PROVE ArenaInv'
  OBVIOUS
<1> DEFINE d == bWriting
           first == d.offset + ArenaHeader
<1>1. /\ d # None /\ bWriting' = None /\ bMinted' = Append(bMinted, d) /\ bOffset' = B!NextOffset(d)
      /\ bRegion' = [i \in DOMAIN bRegion |-> IF i \in first..first + d.len - 1 THEN B!PayloadByte(d, i - first) ELSE bRegion[i]]
      /\ UNCHANGED <<bGeneration, bEpochs>>
  BY DEF B!WritePayload
<1>2. d \in ArenaDescriptors /\ d.offset = bOffset /\ End(d) <= ArenaCapacity /\ HeaderIn(bRegion, d)
  BY <1>1 DEF ArenaInv, ArenaTypes, WritingHeld
<1>3. /\ d.offset \in Nat /\ d.len \in Nat /\ ArenaHeader \in Nat /\ ArenaHeader >= 1 /\ ArenaCapacity \in Nat
      /\ ArenaCapacity > ArenaHeader /\ first \in Nat /\ End(d) = first + d.len /\ End(d) \in Nat
  BY <1>2, DescriptorIs DEF End
<1>4. bOffset' \in 0..ArenaCapacity - 1 /\ (bOffset' = 0 \/ bOffset' = End(d))
  <2>1. bOffset + B!TotalLen(d.len) = End(d)
    BY <1>2, <1>3 DEF B!TotalLen, End
  <2>2. bOffset' = IF End(d) = ArenaCapacity THEN 0 ELSE End(d)
    BY <1>1, <2>1 DEF B!NextOffset
  <2> QED  BY <1>2, <1>3, <2>2
<1> HIDE DEF d, first
<1>5. ArenaTypes'
  BY <1>1, <1>2, <1>4 DEF ArenaInv, ArenaTypes
<1>6. Written(bRegion, bRegion', first, End(d))
  BY <1>1, <1>2, <1>3 DEF Written, ArenaInv, ArenaTypes
<1>7. PayloadIn(bRegion', d)
  <2>1. ASSUME NEW i \in 0..d.len - 1  PROVE bRegion'[first + i] = B!PayloadByte(d, i)
    <3>1. first + i \in DOMAIN bRegion /\ first + i \in first..first + d.len - 1 /\ (first + i) - first = i
      BY <1>2, <1>3 DEF ArenaInv, ArenaTypes
    <3> QED  BY <1>1, <3>1
  <2> QED  BY <2>1 DEF PayloadIn, first
<1>8. HeaderIn(bRegion', d)
  BY <1>2, <1>3, <1>6, HeaderKept DEF first
<1>9. ASSUME NEW c \in ArenaDescriptors, Stored(c, bRegion, bOffset, bWriting), HeaderIn(bRegion', c), c # d
      PROVE  (bOffset' <= c.offset \/ End(c) <= bOffset') /\ PayloadIn(bRegion', c)
  <2>1. /\ c.offset \in Nat /\ c.len \in Nat /\ End(c) = c.offset + ArenaHeader + c.len /\ End(c) <= ArenaCapacity
    BY <1>9, DescriptorIs DEF End, Stored
  <2>2. c.offset + ArenaHeader <= d.offset \/ d.offset + ArenaHeader <= c.offset
    BY <1>2, <1>8, <1>9, HeadersApart
  <2>3. c.offset <= d.offset \/ End(d) <= c.offset \/ c.offset < d.offset + ArenaHeader
    BY <1>2, <1>7, <1>9, PayloadApart
  <2>4. c.offset + ArenaHeader <= d.offset \/ End(d) <= c.offset
    BY <1>3, <2>1, <2>2, <2>3
  <2>5. first = d.offset + ArenaHeader
    BY DEF first
  <2>6. c.offset + ArenaHeader <= first \/ End(d) <= c.offset
    BY <1>3, <2>1, <2>4, <2>5
  <2>7. HeaderIn(bRegion, c)
    BY <1>3, <1>6, <1>9, <2>1, <2>6, HeaderKept
  <2>8. Beside(c, bOffset) /\ PayloadIn(bRegion, c)
    BY <1>9, <2>7 DEF Stored, d
  <2>9. End(c) <= d.offset \/ End(d) <= c.offset
    BY <1>2, <1>3, <2>1, <2>4, <2>8 DEF Beside
  <2>10. End(c) <= first \/ End(d) <= c.offset + ArenaHeader
    BY <1>3, <2>1, <2>5, <2>9
  <2>11. PayloadIn(bRegion', c)
    BY <1>3, <1>6, <1>9, <2>1, <2>8, <2>10, PayloadKept
  <2>12. bOffset' <= c.offset \/ End(c) <= bOffset'
    BY <1>3, <1>4, <2>1, <2>5, <2>9
  <2> QED  BY <2>11, <2>12
<1>10. ASSUME NEW i \in 1..Len(bMinted')  PROVE Stored(bMinted'[i], bRegion', bOffset', bWriting')
  <2> DEFINE c == bMinted'[i]
  <2>1. c = d \/ (c \in ArenaDescriptors /\ Stored(c, bRegion, bOffset, bWriting))
    <3>1. bMinted \in Seq(ArenaDescriptors)
      BY DEF ArenaInv, ArenaTypes
    <3>2. CASE i \in 1..Len(bMinted)
      BY <1>1, <3>1, <3>2, MintedIs DEF ArenaInv
    <3>3. CASE i \notin 1..Len(bMinted)
      BY <1>1, <3>1, <3>3
    <3> QED  BY <3>2, <3>3
  <2> HIDE DEF c
  <2>2. CASE c = d
    <3>1. bOffset' <= d.offset \/ End(d) <= bOffset'
      BY <1>3, <1>4
    <3>2. Stored(d, bRegion', bOffset', bWriting')
      BY <1>2, <1>7, <3>1 DEF Stored, Beside
    <3> QED  BY <2>2, <3>2 DEF c
  <2>3. CASE c # d
    <3>1. End(c) <= ArenaCapacity /\ (HeaderIn(bRegion', c) => (bOffset' <= c.offset \/ End(c) <= bOffset') /\ PayloadIn(bRegion', c))
      BY <1>9, <2>1, <2>3 DEF Stored
    <3> QED  BY <3>1 DEF Stored, Beside, c
  <2> QED  BY <2>2, <2>3
<1>11. WritingHeld'
  BY <1>1 DEF WritingHeld
<1>12. LastStays'
  <2>1. bMinted' # << >> /\ bMinted'[Len(bMinted')] = d
    BY <1>1, <1>2 DEF ArenaInv, ArenaTypes
  <2> QED  BY <1>7, <1>8, <2>1 DEF LastStays
<1> QED  BY <1>5, <1>10, <1>11, <1>12 DEF ArenaInv

LEMMA ArenaStep == ArenaInv /\ (B!Next \/ UNCHANGED arenaVars) => ArenaInv'
  BY InlineStep, BlobHeaderStep, BlobPayloadStep, EpochStep, CreateStep DEF B!Next

LEMMA ArenaHeld == ArenaInv => B!BlobsIntact
<1> SUFFICES ASSUME ArenaInv  PROVE B!BlobsIntact
  OBVIOUS
<1>1. \A d : /\ B!HeaderAt(d.offset, d) <=> HeaderIn(bRegion, d)
             /\ B!PayloadAt(d) <=> PayloadIn(bRegion, d)
  BY DEF B!HeaderAt, B!PayloadAt, HeaderIn, PayloadIn
<1>2. ASSUME NEW i \in DOMAIN bMinted
      PROVE  LET d == bMinted[i]
             IN (B!HeaderAt(d.offset, d) /\ d # bWriting => B!PayloadAt(d)) /\ d.offset + B!TotalLen(d.len) <= ArenaCapacity
  <2>1. i \in 1..Len(bMinted) /\ bMinted[i] \in ArenaDescriptors /\ Stored(bMinted[i], bRegion, bOffset, bWriting)
    BY MintedIs DEF ArenaInv, ArenaTypes
  <2>2. bMinted[i].offset + B!TotalLen(bMinted[i].len) = End(bMinted[i])
    BY <2>1, DescriptorIs DEF End, B!TotalLen
  <2> QED  BY <1>1, <2>1, <2>2 DEF Stored
<1>3. bOffset < ArenaCapacity
  BY ArenaAssumption DEF ArenaInv, ArenaTypes, ArenaAssumption
<1>4. LET last == bMinted[Len(bMinted)]
      IN bMinted # << >> /\ bWriting = None /\ bGeneration > 1 => B!Resolves(last, last.epoch)
  BY <1>1 DEF ArenaInv, LastStays, B!Resolves
<1> QED  BY <1>2, <1>3, <1>4 DEF B!BlobsIntact

LEMMA ArenaStays == [Next]_vars => B!Next \/ UNCHANGED arenaVars
  BY DEF Next, vars, Stays

\* For any capacity that holds a header and a byte, any payloads and bounds, and
\* through every wrap, restart of the producer and epoch: a blob whose header is in
\* place has its own bytes behind it, unless they are being written; the last one is
\* there until the next write; none reaches over the end (ShmBlobArena.write_blob,
\* read_view).
THEOREM BlobsStayIntact == Spec => []BlobsIntact
<1>1. Init => ArenaInv
  BY ArenaInit DEF Init
<1>2. ArenaInv /\ [Next]_vars => ArenaInv'
  BY ArenaStays, ArenaStep
<1>3. ArenaInv => BlobsIntact
  BY ArenaHeld DEF BlobsIntact
<1> QED  BY <1>1, <1>2, <1>3, PTL DEF Spec
==============================================================================
