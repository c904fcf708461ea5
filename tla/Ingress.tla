------------------------------ MODULE Ingress ------------------------------
(***************************************************************************)
(* ingress_core.py and the shells of ingress.py and ingress_flavors.py:    *)
(* one keyed scope admitting the envelopes of successive incarnations of a *)
(* producer, in any order, late or repeated, across suspensions,           *)
(* reconnects and closes.  Scopes are independent: one is enough.  The     *)
(* receipt log is left out.                                                *)
(***************************************************************************)
EXTENDS Integers, Sequences, FiniteSetsExt

CONSTANTS Generation, Sequence, Horizon, HighWater, ReorderWindow,
          RetryBase, RetryCeiling, MaxTime, MaxErrors

VARIABLES
  overflow, \* IngressPolicy.overflow, fixed when the core is built
  scope,    \* the _Scope record, or Unknown
  now,      \* IngressCore._observed_now
  change,   \* the readers the last transition marked (IngressScopeChange)
  taken     \* every payload delivered since the scope was built

vars == <<overflow, scope, now, change, taken>>

Unknown == [lifecycle |-> "unknown"]
Known == scope # Unknown
NewScope(g) == [lifecycle |-> "opening", generation |-> g, through |-> -1, stamp |-> 0,
                pending |-> [s \in {} |-> 0], window |-> << >>, errors |-> 0]
Larger(x, y) == IF x >= y THEN x ELSE y
Lesser(x, y) == IF x <= y THEN x ELSE y

\* The derives a shell's readers compute from a scope at a time.
Fresh(sc, t) == t - sc.stamp <= Horizon
Readiness(sc, t) ==
  CASE sc.lifecycle \in {"unknown", "closed", "suspended"} -> sc.lifecycle
    [] sc.lifecycle = "opening" \/ sc.through = -1 -> "warming"
    [] OTHER -> IF Fresh(sc, t) THEN "ready" ELSE "stale"
Authority(sc) == IF sc.lifecycle \in {"unknown", "closed"} THEN << >> ELSE <<sc.generation, sc.through, sc.stamp>>
NextExpected(sc) == sc.through + 1
Retry(sc) ==
  IF sc.lifecycle = "unknown" \/ (sc.lifecycle # "unknown" /\ sc.errors = 0) THEN << >>
  ELSE <<sc.errors, Lesser(RetryBase * 2^Lesser(31, sc.errors - 1), RetryCeiling), NextExpected(sc)>>
Peek(sc) == IF sc.lifecycle = "unknown" THEN << >> ELSE sc.window

LiveOrOpening(sc) == IF sc.through # -1 THEN "live" ELSE "opening"
ClearWindow(sc) == [sc EXCEPT !.window = << >>]
\* Mutant: a handoff keeps the successors buffered for the old producer.
FenceKeepsPending(sc, g) == [sc EXCEPT !.generation = g, !.through = -1]

Fence(sc, g) == [sc EXCEPT !.generation = g, !.through = -1, !.pending = [s \in {} |-> 0]]
Handoff(sc, g) == ClearWindow(Fence(sc, g))
If(b, S) == IF b THEN S ELSE {}
Creation == {"readiness", "authority"}

Init ==
  /\ overflow \in {"Block", "DropNewest", "DropOldest", "Conflate"}
  /\ scope = Unknown /\ now = 0 /\ change = {} /\ taken = << >>

\* open: a suspended scope keeps its watermark, a closed one starts over.
Open(g) ==
  LET resumed == [scope EXCEPT !.lifecycle = LiveOrOpening(scope)]
      opened == IF ~Known \/ scope.lifecycle = "closed" THEN NewScope(g)
                ELSE IF g > scope.generation THEN Fence(resumed, g) ELSE resumed
  IN /\ scope' = opened
     /\ change' = IF ~Known THEN Creation
                  ELSE IF <<opened.lifecycle, opened.generation, opened.through>>
                          # <<scope.lifecycle, scope.generation, scope.through>>
                  THEN {"authority"} \cup If(opened.lifecycle # scope.lifecycle, {"readiness"})
                  ELSE {}
     /\ taken' = IF Known /\ scope.lifecycle = "closed" THEN << >> ELSE taken
     /\ UNCHANGED now

Suspend ==
  /\ Known /\ scope.lifecycle \notin {"suspended", "closed"}
  /\ scope' = [scope EXCEPT !.lifecycle = "suspended"]
  /\ change' = {"readiness"} /\ UNCHANGED <<now, taken>>

Reconnect(g) ==
  LET old == IF Known THEN scope ELSE NewScope(g)
      handoff == g > old.generation
      fenced == IF handoff THEN Handoff(old, g) ELSE old
      lifecycle == LiveOrOpening(fenced)
  IN /\ scope' = [fenced EXCEPT !.lifecycle = lifecycle, !.errors = 0]
     /\ change' = If(handoff /\ old.window # << >>, {"value"}) \cup If(old.lifecycle # lifecycle, {"readiness"})
                    \cup If(handoff, {"authority"}) \cup If(old.errors > 0, {"retry"}) \cup If(~Known, Creation)
     /\ UNCHANGED <<now, taken>>

Close ==
  /\ Known /\ scope.lifecycle # "closed"
  /\ scope' = [ClearWindow(scope) EXCEPT !.lifecycle = "closed", !.pending = [s \in {} |-> 0], !.errors = 0]
  /\ change' = If(scope.window # << >>, {"value"}) \cup Creation \cup If(scope.errors > 0, {"retry"})
  /\ UNCHANGED <<now, taken>>

Tick ==
  /\ now < MaxTime /\ now' = now + 1
  /\ change' = If(Readiness(scope, now) # Readiness(scope, now'), {"readiness"})
  /\ UNCHANGED <<scope, taken>>

Fail ==
  LET old == IF Known THEN scope ELSE NewScope(0)
  IN /\ old.errors < MaxErrors
     /\ scope' = [old EXCEPT !.errors = @ + 1]
     /\ change' = {"retry"} \cup If(~Known, Creation)
     /\ UNCHANGED <<now, taken>>

\* Mutant: a drain that tells nobody.
DrainQuietly ==
  /\ Known /\ scope.window # << >>
  /\ scope' = ClearWindow(scope) /\ change' = {} /\ UNCHANGED <<now, taken>>

\* A drain is an egress, not an acknowledgement: the watermark stays.
Drain ==
  /\ Known /\ scope.window # << >>
  /\ scope' = ClearWindow(scope) /\ change' = {"value"} /\ UNCHANGED <<now, taken>>

MergeInto(sc, s, stamp) ==
  [sc EXCEPT !.window = Append(@, <<sc.generation, s>>), !.stamp = Larger(@, stamp), !.through = s]

\* The buffered successors an in-order delivery lets through.
Unblocked(sc) == {s \in DOMAIN sc.pending : \A t \in NextExpected(sc)..s : t \in DOMAIN sc.pending}
Flush(sc) ==
  LET ready == Unblocked(sc)
      last == sc.through + Cardinality(ready)
  IN [sc EXCEPT !.window = @ \o [i \in 1..Cardinality(ready) |-> <<sc.pending[sc.through + i].generation, sc.through + i>>],
                !.stamp = FoldSet(LAMBDA s, top : Larger(sc.pending[s].stamp, top), @, ready),
                !.through = last,
                !.pending = [s \in DOMAIN @ \ ready |-> @[s]]]

Refused(sc, e) ==
  \/ sc.lifecycle = "closed"
  \/ e.generation < sc.generation
  \/ now - e.stamp > Horizon

\* The scope the ordering decision is made on: after the handoff, if there is one.
Base(sc, e) == IF e.generation > sc.generation THEN Handoff(sc, e.generation) ELSE sc

Buffers(b, e) ==
  e.sequence > NextExpected(b) /\ e.sequence \notin DOMAIN b.pending /\ Cardinality(DOMAIN b.pending) < ReorderWindow
Full(b) == Len(b.window) >= HighWater
Delivers(b, e) == e.sequence = NextExpected(b) /\ (Full(b) => overflow \notin {"Block", "DropNewest"})

Delivered(b, e) ==
  LET room == IF Full(b) /\ overflow = "DropOldest" THEN ClearWindow(b) ELSE b
      merged == MergeInto(room, e.sequence, e.stamp)
  IN Flush([merged EXCEPT !.lifecycle = "live", !.errors = 0])

LastOf(s, n) == SubSeq(s, Len(s) - n + 1, Len(s))

\* The scope an envelope leaves.  A duplicate, an overflow of the reorder
\* window or a full window are refused or blocked after the handoff.
Admitted(old, e) ==
  LET b == Base(old, e)
  IN IF Refused(old, e) THEN old
     ELSE IF Buffers(b, e)
     THEN [b EXCEPT !.pending = [s \in DOMAIN @ \cup {e.sequence} |-> IF s = e.sequence THEN e ELSE @[s]]]
     ELSE IF Delivers(b, e) THEN Delivered(b, e) ELSE b

Admit(e) ==
  LET old == IF Known THEN scope ELSE NewScope(e.generation)
      b == Base(old, e)
      new == Admitted(old, e)
      n == IF Delivers(b, e) THEN new.through - b.through ELSE 0
  IN /\ UNCHANGED now
     /\ \/ /\ ~Refused(old, e) /\ Buffers(b, e)
           /\ scope' = new /\ UNCHANGED taken
           /\ change' = IF ~Known THEN Creation
                ELSE If((old.window # << >>) # (new.window # << >>), {"value"})
                       \cup If((old.through = -1) # (new.through = -1), {"readiness"})
                       \cup If(old.generation # new.generation \/ old.through # new.through, {"authority"})
        \/ /\ ~Refused(old, e) /\ Delivers(b, e)
           /\ scope' = new /\ taken' = taken \o LastOf(new.window, n)
           /\ change' = {"value", "readiness", "authority", "retry"}
        \/ /\ Refused(old, e) \/ (~Buffers(b, e) /\ ~Delivers(b, e))
           /\ scope' = (IF Known THEN new ELSE Unknown)
           /\ change' = {} /\ UNCHANGED taken

Envelope == [generation : Generation, sequence : Sequence, stamp : 0..now]

Next ==
  /\ UNCHANGED overflow
  /\ \/ \E g \in Generation : Open(g) \/ Reconnect(g)
     \/ Suspend \/ Close \/ Tick \/ Fail \/ Drain
     \/ \E e \in Envelope : Admit(e)

(***************************************************************************)
(* What a scope delivered, whatever came late, twice or out of order: the  *)
(* sequences of one generation without a gap from 0 on, each once, and a   *)
(* newer generation never followed by an older one; and the watermark is   *)
(* the last of them (IngressCore._decide, reconnect, open, close).         *)
(***************************************************************************)
DeliveredInOrder ==
  /\ \A i \in DOMAIN taken :
       LET before == IF i = 1 THEN <<-1, 0>> ELSE taken[i - 1]
       IN taken[i] = <<before[1], before[2] + 1>> \/ (taken[i][1] > before[1] /\ taken[i][2] = 0)
  /\ Known /\ scope.through # -1 => taken # << >> /\ taken[Len(taken)] = <<scope.generation, scope.through>>
  /\ Known => \A s \in DOMAIN scope.pending : s > NextExpected(scope)

Views(sc, t) == [value |-> Peek(sc), readiness |-> Readiness(sc, t), authority |-> Authority(sc), retry |-> Retry(sc)]
\* The readers that keep what they cached although the step changes what they show.
Missed ==
  LET before == Views(scope, now)
      after == Views(scope', now')
  IN {r \in DOMAIN before : before[r] # after[r]} \ change'

(***************************************************************************)
(* A reader whose value a transition changes is told so, or it keeps what  *)
(* it cached for ever.  The code misses two cases: a closed scope says     *)
(* nothing of the authority it has again when it is reconnected, nor of    *)
(* the retry it loses when it is opened, and a change of generation        *)
(* nothing of a readiness or a retry that moves with the watermark         *)
(* (IngressChange, IngressCore.open, reconnect, admit).                    *)
(***************************************************************************)
TellsReaders ==
  Missed \subseteq If(Known /\ scope.lifecycle = "closed", {"authority", "retry"})
                  \cup If(Known /\ scope'.generation # scope.generation, {"readiness", "retry"})
=============================================================================
