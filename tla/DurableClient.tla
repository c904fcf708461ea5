--------------------------- MODULE DurableClient ---------------------------
(***************************************************************************)
(* durable_client.py: the advisory projection of one owner, kept by a      *)
(* client over an IngressCore with the default policy, whatever order the  *)
(* broker delivers the events of the owner's incarnations in; and the      *)
(* client's record of the envelopes and host receipts it saw.              *)
(***************************************************************************)
EXTENDS Integers, Sequences

CONSTANTS Incarnation, Position, Fingerprint, Message, Window

VARIABLES
  scope,      \* the IngressCore scope of the owner
  identities, \* fingerprint of each <<generation, position>> seen
  latest,     \* the projection handed to the application
  applied,    \* applied_source_positions
  messages, receipts

vars == <<scope, identities, latest, applied, messages, receipts>>

Core == INSTANCE Ingress WITH
  Generation <- Incarnation, Sequence <- Position, Horizon <- 1000, HighWater <- 64, ReorderWindow <- Window,
  RetryBase <- 10, RetryCeiling <- 10000, MaxTime <- 0, MaxErrors <- 0,
  overflow <- "Conflate", now <- 0, change <- {}, taken <- << >>

Unseen == << >>
Put(f, x, y) == [z \in DOMAIN f \cup {x} |-> IF z = x THEN y ELSE f[z]]

Init ==
  /\ scope = Core!Unknown /\ latest = Unseen /\ applied = << >>
  /\ identities = [i \in {} |-> 0] /\ messages = [m \in {} |-> 0] /\ receipts = [m \in {} |-> 0]

Through(sc) == IF sc = Core!Unknown THEN -1 ELSE sc.through

\* An identity seen with another fingerprint raises and changes nothing.
ObserveProjection(g, p, f) ==
  LET id == <<g, p>>
      e == [generation |-> g, sequence |-> p - 1, stamp |-> p]
      old == IF scope = Core!Unknown THEN Core!NewScope(g) ELSE scope
      new == Core!Admitted(old, e)
      before == Through(scope)
  IN /\ id \in DOMAIN identities => identities[id] = f
     /\ identities' = Put(identities, id, f)
     /\ applied' = applied \o [i \in 1..(IF new.through > before THEN new.through - before ELSE 0) |-> before + i + 1]
     /\ latest' = IF new.window # << >> THEN new.window[Len(new.window)] ELSE latest
     /\ scope' = Core!ClearWindow(new)
     /\ UNCHANGED <<messages, receipts>>

\* The first content of a message id is kept; another is a conflict.
ObserveIngress(m, f) ==
  /\ messages' = IF m \in DOMAIN messages THEN messages ELSE Put(messages, m, f)
  /\ UNCHANGED <<scope, identities, latest, applied, receipts>>

ObserveHostReceipt(m, f) ==
  /\ m \in DOMAIN receipts => receipts[m] = f
  /\ receipts' = Put(receipts, m, f)
  /\ UNCHANGED <<scope, identities, latest, applied, messages>>

Next ==
  \/ \E g \in Incarnation, p \in Position, f \in Fingerprint : ObserveProjection(g, p, f)
  \/ \E m \in Message, f \in Fingerprint : ObserveIngress(m, f) \/ ObserveHostReceipt(m, f)

\* latest is an <<incarnation, sequence>>.
Newer(x, y) == x[1] > y[1] \/ (x[1] = y[1] /\ x[2] > y[2])

(***************************************************************************)
(* The projection the application reads never goes back, to an older       *)
(* position or to an older incarnation of the owner, and stands on a       *)
(* complete history: every position of its incarnation up to its own was   *)
(* observed; and while the owner keeps its incarnation, what is recorded   *)
(* as applied has no gap and no repetition ("complete_history",            *)
(* observe_projection).                                                    *)
(***************************************************************************)
KeepsHistory ==
  /\ latest' # latest /\ latest # Unseen => Newer(latest', latest)
  /\ latest' # Unseen => \A s \in 0..latest'[2] : <<latest'[1], s + 1>> \in DOMAIN identities'
  /\ (\A i, h \in DOMAIN identities' : i[1] = h[1]) => \A i \in DOMAIN applied' : applied'[i] = i
=============================================================================
