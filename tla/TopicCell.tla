------------------------------- MODULE TopicCell -------------------------------
(***************************************************************************)
(* The broadcast topic of lazily-py (queue.py TopicCell), alone or behind  *)
(* the mutex of queue_flavors.py: a log with one absolute cursor per       *)
(* subscriber, collected up to the slowest durable one.  Values are        *)
(* numbered in the order they were published.                              *)
(***************************************************************************)
EXTENDS Integers, Sequences, FiniteSets, FiniteSetsExt

CONSTANTS
  Subscriber,
  MaxValues,  \* bound: values published
  None        \* no subscription; a stream that is not cached

VARIABLES
  base,     \* _base_offset
  elements, \* _elements
  subs,     \* _subscriptions
  streams,  \* the reader slots of _readers
  saved,    \* the last snapshot
  log       \* every value published, of which elements is the retained part

vars == <<base, elements, subs, streams, saved, log>>

Durability == {"durable", "ephemeral"}
Subscription(cursor, durability, connected) ==
  [cursor |-> cursor, durability |-> durability, connected |-> connected]

Tail_offset == base + Len(elements)
Subscribed == {s \in Subscriber : subs[s] # None}
Durable == {s \in Subscribed : subs[s].durability = "durable"}
Connected == {s \in Subscribed : subs[s].connected}

Snapshot == [base |-> base, elements |-> elements, subs |-> subs]

Init ==
  /\ base = 0 /\ elements = <<>> /\ log = <<>>
  /\ subs = [s \in Subscriber |-> None]
  /\ streams = [s \in Subscriber |-> None]
  /\ saved = Snapshot

(***************************************************************************)
(* Reading.  Python's list[start:] counts a negative start from the end.   *)
(***************************************************************************)
From(list, start) ==
  LET i == IF start >= 0 THEN start ELSE IF start + Len(list) > 0 THEN start + Len(list) ELSE 0
  IN  SubSeq(list, i + 1, Len(list))

ReadUntracked(s) == IF s \in Connected THEN From(elements, subs[s].cursor - base) ELSE <<>>

Reset(S) == streams' = [s \in Subscriber |-> IF s \in S THEN None ELSE streams[s]]

ReadStream(s) ==
  /\ streams[s] = None
  /\ streams' = [streams EXCEPT ![s] = ReadUntracked(s)]
  /\ UNCHANGED <<base, elements, subs, saved, log>>

(***************************************************************************)
(* Subscriptions.                                                          *)
(***************************************************************************)
Subscribe(s, durability) ==
  /\ s \notin Subscribed
  /\ subs' = [subs EXCEPT ![s] = Subscription(Tail_offset, durability, TRUE)]
  /\ Reset({s})
  /\ UNCHANGED <<base, elements, saved, log>>

\* reconnect, or subscribe of a disconnected subscriber.
Reconnect(s) ==
  /\ s \in Durable \ Connected
  /\ subs' = [subs EXCEPT ![s].connected = TRUE]
  /\ Reset({s})
  /\ UNCHANGED <<base, elements, saved, log>>

Disconnect(s) ==
  /\ s \in Connected
  /\ subs' = [subs EXCEPT ![s] = IF s \in Durable THEN [@ EXCEPT !.connected = FALSE] ELSE None]
  /\ Reset({s})
  /\ UNCHANGED <<base, elements, saved, log>>

(***************************************************************************)
(* The log.                                                                *)
(***************************************************************************)
Publish ==
  /\ Len(log) < MaxValues
  /\ elements' = Append(elements, Len(log))
  /\ log' = Append(log, Len(log))
  /\ Reset(Connected)
  /\ UNCHANGED <<base, subs, saved>>

\* Mutant: the cached stream survives the advance.
AdvanceQuietly(s, count) ==
  /\ s \in Connected /\ count > 0 /\ subs[s].cursor + count <= Tail_offset
  /\ subs[s].cursor - base + Len(elements) >= 0
  /\ subs' = [subs EXCEPT ![s].cursor = @ + count]
  /\ UNCHANGED <<base, elements, streams, saved, log>>
\* An index before the start of the list raises.
Advance(s, count) ==
  /\ s \in Connected /\ count > 0 /\ subs[s].cursor + count <= Tail_offset
  /\ subs[s].cursor - base + Len(elements) >= 0
  /\ subs' = [subs EXCEPT ![s].cursor = @ + count]
  /\ Reset({s})
  /\ UNCHANGED <<base, elements, saved, log>>

Frontier == Min({subs[s].cursor : s \in Durable} \cup {Tail_offset})

Gc ==
  /\ Frontier > base
  /\ elements' = SubSeq(elements, Frontier - base + 1, Len(elements))
  /\ base' = Frontier
  /\ UNCHANGED <<subs, streams, saved, log>>

(***************************************************************************)
(* A snapshot is taken, and a new topic built from the last one.  Values   *)
(* published since are gone with the process.                              *)
(***************************************************************************)
Save == saved' = Snapshot /\ UNCHANGED <<base, elements, subs, streams, log>>

Restorable(snapshot) ==
  \A s \in Subscriber : snapshot.subs[s] # None =>
    snapshot.subs[s].cursor \in snapshot.base .. snapshot.base + Len(snapshot.elements)

Restore ==
  /\ Restorable(saved)
  /\ base' = saved.base /\ elements' = saved.elements /\ subs' = saved.subs
  /\ streams' = [s \in Subscriber |-> None]
  /\ log' = SubSeq(log, 1, saved.base + Len(saved.elements))
  /\ UNCHANGED saved

Next ==
  \/ \E s \in Subscriber :
       \/ \E d \in Durability : Subscribe(s, d)
       \/ Reconnect(s) \/ Disconnect(s) \/ ReadStream(s)
       \/ \E count \in 1..Len(elements) : Advance(s, count)
  \/ Publish \/ Gc \/ Save \/ Restore

Spec == Init /\ [][Next]_vars

(***************************************************************************)
(* Properties.                                                             *)
(***************************************************************************)
Unread(s) == SubSeq(log, subs[s].cursor + 1, Len(log))

\* A durable subscriber reads, whenever it is connected, exactly the values
\* published after its cursor, whatever was collected, disconnected or restored
\* in between ("durable offline replay", "safe prefix GC at the slowest durable
\* cursor").
DurableReplay ==
  \A s \in Durable : From(elements, subs[s].cursor - base) = Unread(s)

\* s is an ephemeral subscriber left behind the collected prefix.
Behind(s) == s \in Subscribed \ Durable /\ subs[s].cursor < base

\* A cached stream is what the subscriber has yet to read, unless it is an
\* ephemeral one behind the collected prefix.
StreamsCoherent ==
  \A s \in Subscriber : streams[s] # None /\ ~Behind(s) =>
    streams[s] = IF s \in Connected THEN Unread(s) ELSE <<>>
=============================================================================
