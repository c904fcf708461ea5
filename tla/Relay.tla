------------------------------- MODULE Relay -------------------------------
(***************************************************************************)
(* relay.py over merge.py: producers send into the shards of a keyed relay *)
(* (an Outbox is the one with one key); a paced egress drains their        *)
(* windows to a framed transport; an Inbox with credits takes them in; the *)
(* application spills what it consumed to a paged store, and an egress     *)
(* that may crash hands the pages on.                                      *)
(* A window is the sequence of the operations merged into it, as RawFifo   *)
(* merges: whatever an associative merge computes is a function of it.     *)
(***************************************************************************)
EXTENDS Naturals, Sequences, SequencesExt

CONSTANTS Key, HighWater, FrameSize, MaxCredits, Capacity, PageSize, MaxOps, Modes,
          MaxRepeated   \* length of the downstream up to which the egress may crash

VARIABLES
  overflow,            \* BackpressurePolicy.overflow, a cell that may be set at any time
  heads, pendings,     \* the hot head of each shard, and its count
  tokens,              \* RatePolicy
  wire,                \* FramedTransport._buf
  inHead, credits,     \* Inbox
  mode, pages, openFill, nextId, acked,   \* SpillStore
  handed,              \* pages the egress has handed on since it started
  downstream,          \* what it handed them to
  sent                 \* operations of each key the relay merged and kept

vars == <<overflow, heads, pendings, tokens, wire, inHead, credits, mode, pages, openFill,
          nextId, acked, handed, downstream, sent>>
outVars == <<overflow, heads, pendings, sent>>
storeVars == <<mode, pages, openFill, nextId, acked>>
egressVars == <<handed, downstream>>

Lesser(x, y) == IF x <= y THEN x ELSE y
Merge(old, op) == old \o op
OfKey(k, s) == SelectSeq(s, LAMBDA op : op[1] = k)
Count(k) == Len(sent[k].all)

Init ==
  /\ overflow \in {"Block", "DropNewest", "DropOldest", "Conflate"}
  /\ heads = [k \in Key |-> << >>] /\ pendings = [k \in Key |-> 0]
  /\ tokens = Capacity /\ wire = << >> /\ inHead = << >> /\ credits = MaxCredits
  /\ mode \in Modes /\ pages = << >> /\ openFill = 0 /\ nextId = 0 /\ acked = 0
  /\ handed = 0 /\ downstream = << >>
  /\ sent = [k \in Key |-> [all |-> << >>, kept |-> << >>]]

IsFull(k) == pendings[k] >= HighWater

MergeIntoHead(k, op) ==
  /\ heads' = [heads EXCEPT ![k] = Merge(@, <<op>>)]
  /\ pendings' = [pendings EXCEPT ![k] = @ + 1]
  /\ sent' = [sent EXCEPT ![k] = [all |-> Append(@.all, op), kept |-> Append(@.kept, op)]]

\* Mutant: the window counts from this operation and keeps what it held.
RestartKeeps(k, op) ==
  /\ heads' = [heads EXCEPT ![k] = Merge(@, <<op>>)]
  /\ pendings' = [pendings EXCEPT ![k] = 1]
  /\ sent' = [sent EXCEPT ![k] =
       [all |-> Append(@.all, op),
        kept |-> Append(SubSeq(@.kept, 1, Len(@.kept) - Len(heads[k])), op)]]

\* The window starts over from this operation; what it held is gone.
Restart(k, op) ==
  /\ heads' = [heads EXCEPT ![k] = <<op>>]
  /\ pendings' = [pendings EXCEPT ![k] = 1]
  /\ sent' = [sent EXCEPT ![k] =
       [all |-> Append(@.all, op),
        kept |-> Append(SubSeq(@.kept, 1, Len(@.kept) - Len(heads[k])), op)]]

Ingress(k) ==
  LET op == <<k, Count(k) + 1>>
  IN /\ Count(k) < MaxOps
     /\ IF IsFull(k) /\ overflow \in {"Block", "DropNewest"}
        THEN /\ sent' = [sent EXCEPT ![k].all = Append(@, op)]
             /\ UNCHANGED <<heads, pendings>>
        ELSE IF IsFull(k) /\ overflow = "DropOldest" THEN Restart(k, op)
        ELSE MergeIntoHead(k, op)
     /\ UNCHANGED <<overflow, tokens, wire, inHead, credits, storeVars, egressVars>>

Retune(o) ==
  /\ overflow' = o
  /\ UNCHANGED <<heads, pendings, sent, tokens, wire, inHead, credits, storeVars, egressVars>>

\* drain, when the rate policy gives a token, into the transport.
Drain(k) ==
  /\ heads[k] # << >> /\ tokens > 0 /\ tokens' = tokens - 1
  /\ wire' = Append(wire, heads[k])
  /\ heads' = [heads EXCEPT ![k] = << >>] /\ pendings' = [pendings EXCEPT ![k] = 0]
  /\ UNCHANGED <<overflow, sent, inHead, credits, storeVars, egressVars>>

Refill ==
  /\ tokens' = Lesser(tokens + 1, Capacity)
  /\ UNCHANGED <<outVars, wire, inHead, credits, storeVars, egressVars>>

\* poll hands over a frame when the inbox is ready; a frame longer than the
\* credits left still applies, and leaves none.
Poll ==
  LET n == Lesser(FrameSize, Len(wire))
  IN /\ credits > 0 /\ n > 0
     /\ inHead' = Merge(inHead, FlattenSeq(SubSeq(wire, 1, n)))
     /\ wire' = SubSeq(wire, n + 1, Len(wire))
     /\ credits' = IF credits > n THEN credits - n ELSE 0
     /\ UNCHANGED <<outVars, tokens, storeVars, egressVars>>

PushPage(window) ==
  /\ pages' = Append(pages, [id |-> nextId, summary |-> window]) /\ nextId' = nextId + 1

Spill(window) ==
  \/ mode = "AppendCompact" /\ PushPage(window) /\ UNCHANGED openFill
  \/ mode = "CompactOnWrite" /\ (openFill >= PageSize \/ pages = << >>)
     /\ PushPage(window) /\ openFill' = 1
  \/ mode = "CompactOnWrite" /\ openFill < PageSize /\ pages # << >>
     /\ pages' = [pages EXCEPT ![Len(pages)].summary = Merge(@, window)]
     /\ openFill' = openFill + 1 /\ UNCHANGED nextId

Consume(replenish) ==
  /\ inHead # << >> /\ inHead' = << >>
  /\ credits' = Lesser(credits + replenish, MaxCredits)
  /\ Spill(inHead)
  /\ UNCHANGED <<outVars, tokens, wire, mode, acked, egressVars>>

\* The egress hands on a page that takes no more windows.
Sealed(i) == mode = "AppendCompact" \/ i < Len(pages) \/ openFill >= PageSize

HandOn ==
  /\ handed < Len(pages) /\ Sealed(handed + 1)
  /\ handed' = handed + 1
  /\ downstream' = Merge(downstream, pages[handed + 1].summary)
  /\ UNCHANGED <<outVars, tokens, wire, inHead, credits, storeVars>>

AckThrough(i) ==
  /\ acked < i /\ i <= handed /\ acked' = i
  /\ UNCHANGED <<outVars, tokens, wire, inHead, credits, mode, pages, openFill, nextId, egressVars>>

Reclaim ==
  /\ acked > 0 /\ acked' = 0
  /\ pages' = SubSeq(pages, acked + 1, Len(pages)) /\ handed' = handed - acked
  /\ UNCHANGED <<outVars, tokens, wire, inHead, credits, mode, openFill, nextId, downstream>>

\* After a crash the egress starts again at the first page that is not acked.
Crash ==
  /\ handed # acked /\ Len(downstream) <= MaxRepeated /\ handed' = acked
  /\ UNCHANGED <<outVars, tokens, wire, inHead, credits, storeVars, downstream>>

Next ==
  \/ \E k \in Key : Ingress(k) \/ Drain(k)
  \/ \E o \in {"Block", "DropNewest", "DropOldest", "Conflate"} : Retune(o)
  \/ Refill \/ Poll
  \/ \E n \in {0, MaxCredits} : Consume(n)
  \/ HandOn \/ Reclaim \/ Crash
  \/ \E i \in DOMAIN pages : AckThrough(i)

\* Everything between the producers and the downstream, oldest first.
Summaries == FlattenSeq([i \in DOMAIN pages |-> pages[i].summary])
Pipeline(k) == OfKey(k, downstream \o Summaries \o inHead \o FlattenSeq(wire) \o heads[k])
FirstTimes(s) == FoldLeft(LAMBDA seen, op : IF Contains(seen, op) THEN seen ELSE Append(seen, op), << >>, s)

(***************************************************************************)
(* Whatever the drains, frames, credits, pages, acks, reclaims and crashes,*)
(* the operations of a key a relay kept are all there, in the order they   *)
(* were sent; a crash repeats pages and loses none (RelayCell.ingress and  *)
(* drain, Inbox.receive, SpillStore.spill, ack_through, reclaim and        *)
(* replay_unacked).                                                        *)
(***************************************************************************)
KeptInOrder == \A k \in Key : FirstTimes(Pipeline(k)) = sent[k].kept
=============================================================================
