-------------------------------- MODULE Mirror --------------------------------
(***************************************************************************)
(* The mirror of a local graph (projection.py): snapshots and deltas by    *)
(* epoch, filtered by what a peer may read (ipc.py), over a connection that *)
(* loses frames.  A peer applies the next delta and asks for a snapshot    *)
(* when there is a gap (_delta_semantics.py).  Edges are left out.         *)
(***************************************************************************)
EXTENDS Integers, Sequences, FiniteSets

CONSTANTS Node, Payload, Peer, MaxEpoch, MaxFrames, None

VARIABLES
  entries,    \* StateMirror._nodes: [payload, published], None while untracked
  epoch,      \* _epoch
  sets,       \* _pending_cell_sets: node -> payload, None
  stale,      \* _pending_invalidations
  allowed,    \* PeerPermissions: peer -> nodes it may read
  frames,     \* deltas on their way to a peer
  copies,     \* what a peer holds: [epoch, nodes], None before a snapshot
  flushed,    \* a delta of this epoch has been made
  missed      \* ghost: peer -> nodes whose last change no delta will tell it of
vars == <<entries, epoch, sets, stale, allowed, frames, copies, flushed, missed>>

Tracked == {n \in Node : entries[n] # None}
Pending == {n \in Node : sets[n] # None} \cup stale

Init ==
  /\ entries = [n \in Node |-> None] /\ epoch = 0
  /\ sets = [n \in Node |-> None] /\ stale = {}
  /\ allowed = [p \in Peer |-> {}] /\ frames = [p \in Peer |-> <<>>]
  /\ copies = [p \in Peer |-> None] /\ flushed = FALSE /\ missed = [p \in Peer |-> {}]

\* Ghost: a change that no delta will carry; one that the next delta will.
Unheard(n) == missed' = [p \in Peer |-> missed[p] \cup {n}]
Due(n) == missed' = [p \in Peer |-> missed[p] \ {n}]

\* Registering an existing node again with a payload replaces it and tells
\* nobody.
Track(n, x) ==
  /\ IF entries[n] = None
     THEN entries' = [entries EXCEPT ![n] = [payload |-> x, published |-> -1]] /\ UNCHANGED missed
     ELSE /\ x # None /\ entries' = [entries EXCEPT ![n].payload = x]
          /\ IF x = entries[n].payload THEN UNCHANGED missed ELSE Unheard(n)
  /\ UNCHANGED <<epoch, sets, stale, allowed, frames, copies, flushed>>

PublishCell(n, x) ==
  /\ n \in Tracked /\ entries' = [entries EXCEPT ![n].payload = x] /\ sets' = [sets EXCEPT ![n] = x]
  /\ Due(n) /\ UNCHANGED <<epoch, stale, allowed, frames, copies, flushed>>

\* Without a payload the one of before stays.
InvalidateSlot(n, x) ==
  /\ n \in Tracked /\ stale' = stale \cup {n}
  /\ entries' = IF x = None THEN entries ELSE [entries EXCEPT ![n].payload = x]
  /\ Due(n) /\ UNCHANGED <<epoch, sets, allowed, frames, copies, flushed>>

\* A payload flushed at this epoch is not flushed at it again.
Suppressed(n) == entries[n].published = epoch /\ entries[n].payload = sets[n]
\* Mutant: a cell's set goes after its slot's invalidation.
SetsLast == [n \in stale \cup {m \in Node : sets[m] # None /\ ~Suppressed(m)} |->
               IF sets[n] # None THEN sets[n] ELSE entries[n].payload]
\* The ops of a flush; a slot's op comes after the cell's.
Ops == [n \in stale \cup {m \in Node : sets[m] # None /\ ~Suppressed(m)} |->
          IF n \in stale THEN entries[n].payload ELSE sets[n]]
Readable(p, ns) == ns \cap allowed[p]

\* Every peer is sent its part.  The host makes one delta of an epoch: a
\* second would have the numbers of the first.
Flush(next) ==
  /\ ~flushed /\ \A p \in Peer : Len(frames[p]) < MaxFrames
  /\ frames' = [p \in Peer |-> Append(frames[p],
       [base |-> epoch, ops |-> [n \in Readable(p, DOMAIN Ops) |-> Ops[n]]])]
  /\ entries' = [n \in Node |-> IF n \in DOMAIN Ops THEN [entries[n] EXCEPT !.published = epoch] ELSE entries[n]]
  /\ sets' = [n \in Node |-> None] /\ stale' = {} /\ epoch' = next /\ flushed' = (next = epoch)
  /\ missed' = [p \in Peer |-> missed[p] \cup (Pending \ allowed[p])]
  /\ UNCHANGED <<allowed, copies>>
FlushDelta == Flush(epoch)
FlushAndBump == epoch < MaxEpoch /\ Flush(epoch + 1)
BumpEpoch ==
  /\ epoch < MaxEpoch /\ epoch' = epoch + 1 /\ flushed' = FALSE
  /\ UNCHANGED <<entries, sets, stale, allowed, frames, copies, missed>>

SnapshotFor(p) ==
  /\ copies' = [copies EXCEPT ![p] =
       [epoch |-> epoch, nodes |-> [n \in Readable(p, Tracked) |-> entries[n].payload]]]
  /\ missed' = [missed EXCEPT ![p] =
       (Tracked \ allowed[p]) \cup {n \in @ : flushed \/ sets[n] # None}]
  /\ UNCHANGED <<entries, epoch, sets, stale, allowed, frames, flushed>>

Allow(p, n) ==
  /\ n \notin allowed[p] /\ allowed' = [allowed EXCEPT ![p] = @ \cup {n}]
  /\ UNCHANGED <<entries, epoch, sets, stale, frames, copies, flushed, missed>>
Revoke(p, n) ==
  /\ n \in allowed[p] /\ allowed' = [allowed EXCEPT ![p] = @ \ {n}]
  /\ UNCHANGED <<entries, epoch, sets, stale, frames, copies, flushed, missed>>

\* The peer applies exactly the next delta and otherwise needs a snapshot.
IsNextAfter(delta, last) == delta.base = last
Receive(p) == LET delta == Head(frames[p]) IN
  /\ copies[p] # None /\ frames[p] # <<>> /\ frames' = [frames EXCEPT ![p] = Tail(@)]
  /\ copies' = [copies EXCEPT ![p] =
       IF IsNextAfter(delta, @.epoch)
       THEN [epoch |-> delta.base + 1,
             nodes |-> [n \in DOMAIN @.nodes |-> IF n \in DOMAIN delta.ops THEN delta.ops[n] ELSE @.nodes[n]]]
       ELSE None]
  /\ UNCHANGED <<entries, epoch, sets, stale, allowed, flushed, missed>>
Lose(p) ==
  /\ frames[p] # <<>> /\ frames' = [frames EXCEPT ![p] = Tail(@)]
  /\ UNCHANGED <<entries, epoch, sets, stale, allowed, copies, flushed, missed>>

Next ==
  \/ \E n \in Node, x \in Payload \cup {None} : Track(n, x) \/ InvalidateSlot(n, x)
  \/ \E n \in Node, x \in Payload : PublishCell(n, x)
  \/ FlushDelta \/ FlushAndBump \/ BumpEpoch
  \/ \E p \in Peer : SnapshotFor(p) \/ Receive(p) \/ Lose(p)
  \/ \E p \in Peer, n \in Node : Allow(p, n) \/ Revoke(p, n)
Spec == Init /\ [][Next]_vars

-----------------------------------------------------------------------------
\* Once everything is flushed and a peer has caught up with the epoch, each
\* node it may read shows it the payload of the source, whatever deltas were
\* lost on the way, unless the node is one of those missed.
MirrorFollows ==
  \A p \in Peer :
    (/\ copies[p] # None /\ copies[p].epoch = (IF flushed THEN epoch + 1 ELSE epoch)
     /\ frames[p] = <<>> /\ Pending = {}) =>
      \A n \in DOMAIN copies[p].nodes \cap (allowed[p] \ missed[p]) : copies[p].nodes[n] = entries[n].payload
=============================================================================
