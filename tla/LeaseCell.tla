----------------------------- MODULE LeaseCell -----------------------------
(***************************************************************************)
(* coordination.py: the single-writer lease with its fencing token, and    *)
(* the three cells built on it: LeaseCell, LeaderCell and LockCell.  The   *)
(* callers share one clock; each remembers what its last grant told it,    *)
(* and may come back with it long after.                                   *)
(***************************************************************************)
EXTENDS Naturals

CONSTANTS Peer, None, Ttl, MaxTime, MaxFence

VARIABLES
  now,      \* the clock every caller reads
  holder,   \* LeaseCore._holder
  expiry,   \* LeaseCore._expiry
  fence,    \* LeaseCore._fence
  shown,    \* the holder the cell projects; LockCell shows shown # None
  grants    \* what each caller was told last: its fence and until when

vars == <<now, holder, expiry, fence, shown, grants>>

IsExpired == holder # None /\ now >= expiry
IsHeld == holder # None /\ ~IsExpired
Holder == IF IsHeld THEN holder ELSE None

Role(me) == CASE Holder = None -> "Candidate"
              [] Holder = me -> "Leader"
              [] OTHER -> "Follower"
Validate(f) == fence = f

Init ==
  /\ now = 0 /\ holder = None /\ expiry = 0 /\ fence = 0 /\ shown = None
  /\ grants = [p \in Peer |-> [fence |-> 0, until |-> 0]]

Refresh == shown' = Holder'
Told(p, f, until) == grants' = [grants EXCEPT ![p] = [fence |-> f, until |-> until]]

Grant(p, ttl) ==
  /\ holder = None \/ IsExpired
  /\ fence < MaxFence
  /\ fence' = fence + 1 /\ holder' = p /\ expiry' = now + ttl
  /\ Told(p, fence + 1, now + ttl)

Extend(p, ttl) ==
  /\ IsHeld /\ holder = p
  /\ expiry' = now + ttl /\ Told(p, fence, now + ttl)
  /\ UNCHANGED <<fence, holder>>

Refuse(p) ==
  /\ IsHeld /\ holder # p
  /\ UNCHANGED <<fence, holder, expiry, grants>>

Acquire(p, ttl) ==
  /\ Grant(p, ttl) \/ Extend(p, ttl) \/ Refuse(p)
  /\ UNCHANGED now /\ Refresh

Renew(p, ttl) ==
  /\ \/ Extend(p, ttl)
     \/ ~(IsHeld /\ holder = p) /\ UNCHANGED <<fence, holder, expiry, grants>>
  /\ UNCHANGED now /\ Refresh

\* Mutant: a release that does not ask who holds the lease.
ReleaseAnyones(p) ==
  /\ holder' = None
  /\ grants' = [grants EXCEPT ![p].until = 0]
  /\ UNCHANGED <<now, expiry, fence>> /\ Refresh

\* A caller that releases stops believing in its grant, whoever holds it now.
Release(p) ==
  /\ holder' = IF holder = p THEN None ELSE holder
  /\ grants' = [grants EXCEPT ![p].until = 0]
  /\ UNCHANGED <<now, expiry, fence>> /\ Refresh

Tick ==
  /\ holder' = IF IsExpired THEN None ELSE holder
  /\ UNCHANGED <<now, expiry, fence, grants>> /\ Refresh

Time == now < MaxTime /\ now' = now + 1 /\ UNCHANGED <<holder, expiry, fence, shown, grants>>

Next ==
  \/ \E p \in Peer : \E ttl \in Ttl : Acquire(p, ttl) \/ Renew(p, ttl)
  \/ \E p \in Peer : Release(p)
  \/ Tick
  \/ Time

Believes(p) == now < grants[p].until

(***************************************************************************)
(* A caller inside the time it was granted is the only one there is: its   *)
(* fence validates, it is the leader and the others follow, whatever late  *)
(* releases, renewals and acquisitions the other callers made.  No two     *)
(* callers ever hold the same fence (LeaseCore.acquire, release, tick).    *)
(***************************************************************************)
LeaseExclusive ==
  /\ \A p \in Peer : Believes(p) =>
       Validate(grants[p].fence) /\ \A q \in Peer : Role(q) = IF q = p THEN "Leader" ELSE "Follower"
  /\ \A p, q \in Peer : p # q /\ grants[p].fence = grants[q].fence => grants[p].fence = 0
=============================================================================
