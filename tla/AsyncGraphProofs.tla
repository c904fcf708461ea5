--------------------------- MODULE AsyncGraphProofs ---------------------------
(***************************************************************************)
(* Theorems about the asyncio graph, for any graph of sources, slots and   *)
(* effects, any clients and computations in flight, whatever is written,   *)
(* cleared, raised and disposed meanwhile: how an effect and its context   *)
(* are torn down, and that the values slots and effects hold are fresh.    *)
(***************************************************************************)
EXTENDS AsyncGraph, SequenceTheorems, FiniteSetTheorems, TLAPS

(***************************************************************************)
(* The inductive invariant.                                                *)
(***************************************************************************)
Places == {"no", "release", "task", "cleanup", "await", "done"}
Awaiting == [slot : Slot, on : Task \cup {"loop", "raise"}]

TypeOK ==
  /\ gone \subseteq Node \cup Effect /\ closed \in {"open", "closing", "closed"}
  /\ awaited \subseteq Effect
  /\ dependents \in [Node -> SUBSET (Slot \cup Effect)]
  /\ status \in [Slot -> {"empty", "computing", "resolved", "error"}]
  /\ future \in [Slot -> Task \cup {None}]
  /\ task \in [Task -> Slot \cup {None}] /\ ready \in Seq(Task)
  /\ wait \in [Caller -> {None} \cup Awaiting]
  /\ flush \in [Effect -> {"none", "new", "cleanup", "body", "release"}]
  /\ pending \in [Effect -> BOOLEAN] /\ armed \in [Effect -> BOOLEAN] /\ dead \in [Effect -> BOOLEAN]
  /\ disposal \in [Effect -> [Disposer -> Places]]

\* A released effect is dead and gone; once gone its flush comes to rest before
\* the first call goes past it, and no node leads to it when its calls returned.
Called(e) == \E d \in Disposer : disposal[e][d] # "no"
Waited(e) == \E d \in Disposer : disposal[e][d] = "task"
Returned(e) == \A d \in Disposer : disposal[e][d] \in {"no", "done"}
DisposalOf(e) ==
  /\ \A d \in Disposer : disposal[e][d] \in {"cleanup", "await", "done"} => dead[e]
  /\ dead[e] => ~armed[e] /\ e \in gone
  /\ Called(e) <=> e \in gone
  /\ e \in gone => flush[e] = "none" \/ Waited(e)
  /\ e \in gone /\ Returned(e) => \A n \in Node : e \notin dependents[n]
Disposal == \A e \in Effect : DisposalOf(e)

\* The resource of an effect is held by its body, by a cleanup of flush or of one
\* call, or by nobody and it is retained.
HoldingOf(e) ==
  /\ flush[e] \in {"cleanup", "body", "release"} => ~armed[e]
  /\ \A d \in Disposer : disposal[e][d] = "cleanup" =>
       /\ flush[e] \notin {"cleanup", "body", "release"}
       /\ \A c \in Disposer : disposal[e][c] = "cleanup" => c = d
  /\ wait[e] # None => flush[e] = "body"
Holding == \A e \in Effect : HoldingOf(e)

\* The context awaits every effect that no one had disposed.
Closing ==
  /\ closed = "open" => awaited = {}
  /\ closed # "open" => Effect \subseteq awaited \cup gone
  /\ \A e \in Effect \ awaited : disposal[e]["context"] = "no"
  /\ closed = "closed" => \A e \in awaited : disposal[e]["context"] = "done"

\* Once the context is disposed a slot waits only for a computation that has not
\* started, and that will find it disposed.
Publishing ==
  /\ \A s \in Slot : future[s] # None => task[future[s]] = s
  /\ closed = "closed" => \A s \in Slot \ gone :
       /\ status[s] # "resolved"
       /\ future[s] # None => \E i \in DOMAIN ready : ready[i] = future[s]

IInv == TypeOK /\ Disposal /\ Holding /\ Closing /\ Publishing

(***************************************************************************)
(* Steps that leave an effect, the slots or the closing alone.             *)
(***************************************************************************)
QuietEffect(e) ==
  /\ flush'[e] = flush[e] \/ (flush[e] = "none" /\ flush'[e] = "new" /\ e \notin gone)
  /\ armed'[e] = armed[e] /\ dead'[e] = dead[e] /\ disposal'[e] = disposal[e]
  /\ e \in gone' <=> e \in gone
  /\ wait'[e] # None => wait[e] # None \/ flush[e] = "body"
  /\ \A n \in Node : e \in dependents'[n] => e \in dependents[n] \/ flush[e] = "body"

LEMMA QuietEffectHolds ==
  ASSUME NEW e \in Effect, QuietEffect(e), DisposalOf(e), HoldingOf(e)
  PROVE  DisposalOf(e)' /\ HoldingOf(e)'
<1>1. /\ Called(e)' <=> Called(e)
      /\ Waited(e)' <=> Waited(e)
      /\ Returned(e)' <=> Returned(e)
  BY DEF QuietEffect, Called, Waited, Returned
<1>2. Returned(e) => ~Waited(e)
  BY DEF Returned, Waited
<1>3. DisposalOf(e)'
  BY <1>1, <1>2 DEF QuietEffect, DisposalOf
<1>4. HoldingOf(e)'
  BY DEF QuietEffect, HoldingOf
<1> QED  BY <1>3, <1>4

QuietSlots ==
  /\ closed' = closed \/ closed' # "closed"
  /\ Slot \ gone' \subseteq Slot \ gone
  /\ task' = task /\ ready' = ready
  /\ \A s \in Slot : /\ future'[s] = None \/ future'[s] = future[s]
                     /\ status'[s] = "resolved" => status[s] = "resolved"

LEMMA QuietSlotsHold ==
  ASSUME QuietSlots, Publishing
  PROVE  Publishing'
  BY DEF QuietSlots, Publishing

QuietClosing == closed' = closed /\ awaited' = awaited /\ gone \subseteq gone' /\ disposal' = disposal

LEMMA QuietClosingHolds ==
  ASSUME QuietClosing, Closing
  PROVE  Closing'
  BY DEF QuietClosing, Closing

(***************************************************************************)
(* What the operators of the model do.                                     *)
(***************************************************************************)
LEMMA Edges ==
  ASSUME TypeOK, NEW r \in Slot \cup Effect, NEW d
  PROVE  /\ Tracked(d, r) \in [Node -> SUBSET (Slot \cup Effect)]
         /\ Detached(r) \in [Node -> SUBSET (Slot \cup Effect)]
         /\ \A n \in Node : /\ Tracked(d, r)[n] \subseteq dependents[n] \cup {r}
                            /\ Detached(r)[n] = dependents[n] \ {r}
  BY DEF TypeOK, Tracked, Detached

LEMMA InvalidatedLeaves ==
  ASSUME TypeOK, NEW S, Invalidated(S)
  PROVE  /\ status' \in [Slot -> {"empty", "computing", "resolved", "error"}]
         /\ future' \in [Slot -> Task \cup {None}]
         /\ \A s \in Slot : /\ future'[s] = None \/ future'[s] = future[s]
                            /\ status'[s] = "resolved" => status[s] = "resolved"
  BY DEF TypeOK, Invalidated

LEMMA ScheduledLeaves ==
  ASSUME TypeOK, NEW S, Scheduled(S)
  PROVE  /\ pending' \in [Effect -> BOOLEAN]
         /\ flush' \in [Effect -> {"none", "new", "cleanup", "body", "release"}]
         /\ \A e \in Effect :
              flush'[e] = flush[e] \/ (flush[e] = "none" /\ flush'[e] = "new" /\ e \notin gone)
  BY DEF TypeOK, Scheduled

LEMMA DriveEndsLeaves ==
  ASSUME TypeOK, Publishing, NEW t \in Task, NEW raises \in BOOLEAN, DriveEnds(t, raises)
  PROVE  /\ status' \in [Slot -> {"empty", "computing", "resolved", "error"}]
         /\ future' \in [Slot -> Task \cup {None}]
         /\ task' \in [Task -> Slot \cup {None}]
         /\ wait' \in [Caller -> {None} \cup Awaiting]
         /\ \A u \in Task : u # t => task'[u] = task[u]
         /\ \A c \in Caller : wait[c] = None => wait'[c] = None
         /\ \A s \in Slot : /\ future'[s] = None \/ (future'[s] = future[s] /\ future[s] # t)
                            /\ status'[s] = "resolved" =>
                                 status[s] = "resolved" \/ (~raises /\ future[s] = t)
<1> USE DEF TypeOK
<1>1. \A s \in Slot : future[s] = t => task[t] = s
  BY NodesAssumption DEF Publishing
<1>2. /\ status' \in [Slot -> {"empty", "computing", "resolved", "error"}]
      /\ future' \in [Slot -> Task \cup {None}]
      /\ \A s \in Slot : /\ future'[s] = None \/ (future'[s] = future[s] /\ future[s] # t)
                         /\ status'[s] = "resolved" =>
                              status[s] = "resolved" \/ (~raises /\ future[s] = t)
  <2>1. CASE Current(t)
    <3>1. /\ status' = [status EXCEPT ![task[t]] = IF raises THEN "error" ELSE "resolved"]
          /\ future' = [future EXCEPT ![task[t]] = None]
      BY <2>1 DEF DriveEnds
    <3> QED  BY <1>1, <2>1, <3>1 DEF Current
  <2>2. CASE ~Current(t)
    BY <1>1, <2>2 DEF DriveEnds, Current, slotVars
  <2> QED  BY <2>1, <2>2
<1>4. task' \in [Task -> Slot \cup {None}] /\ \A u \in Task : u # t => task'[u] = task[u]
  BY DEF DriveEnds
<1>5. /\ wait' \in [Caller -> {None} \cup Awaiting]
      /\ \A c \in Caller : wait[c] = None => wait'[c] = None
  <2> DEFINE w == [wait EXCEPT ![t] = None]
             o == IF raises /\ Current(t) THEN "raise" ELSE "loop"
  <2>1. wait' = Woken(w, t, o)
    BY DEF DriveEnds
  <2>2. w \in [Caller -> {None} \cup Awaiting] /\ \A c \in Caller : wait[c] = None => w[c] = None
    OBVIOUS
  <2>3. o \in {"loop", "raise"}
    OBVIOUS
  <2> HIDE DEF w, o
  <2>4. ASSUME NEW c \in Caller, w[c] # None PROVE [w[c] EXCEPT !.on = o] \in Awaiting
    <3>1. w[c] \in Awaiting /\ o \in Task \cup {"loop", "raise"}
      BY <2>2, <2>3, <2>4
    <3> QED  BY <3>1 DEF Awaiting
  <2> QED  BY <2>1, <2>2, <2>4 DEF Woken
<1> QED  BY <1>2, <1>4, <1>5

LEMMA EntersLeaves ==
  ASSUME TypeOK, NEW e \in Effect, NEW deps \in [Node -> SUBSET (Slot \cup Effect)],
         NEW more \in BOOLEAN, Enters(e, deps, more)
  PROVE  /\ pending' \in [Effect -> BOOLEAN]
         /\ flush' \in [Effect -> {"none", "new", "cleanup", "body", "release"}]
         /\ dependents' \in [Node -> SUBSET (Slot \cup Effect)]
         /\ \A n \in Node : dependents'[n] \subseteq deps[n]
         /\ \A f \in Effect : f # e => flush'[f] = flush[f]
         /\ flush'[e] = "none" \/ (flush'[e] = "body" /\ e \notin gone)
<1> USE DEF TypeOK
<1>1. CASE e \in gone \/ closed # "open"
  BY <1>1 DEF Enters
<1>2. CASE ~(e \in gone \/ closed # "open")
  <2>1. /\ flush' = [flush EXCEPT ![e] = "body"] /\ pending' = [pending EXCEPT ![e] = more]
        /\ dependents' = [d \in Node |-> deps[d] \ {e}]
    BY <1>2 DEF Enters
  <2>2. /\ dependents' \in [Node -> SUBSET (Slot \cup Effect)]
        /\ \A n \in Node : dependents'[n] \subseteq deps[n]
    BY <2>1
  <2> QED  BY <1>2, <2>1, <2>2
<1> QED  BY <1>1, <1>2

\* flush comes to rest, or goes to a cleanup or a body with nothing retained.
LEMMA FlushLoopLeaves ==
  ASSUME TypeOK, NEW e \in Effect, NEW deps \in [Node -> SUBSET (Slot \cup Effect)],
         NEW retained \in BOOLEAN, FlushLoop(e, retained, deps)
  PROVE  /\ pending' \in [Effect -> BOOLEAN] /\ armed' \in [Effect -> BOOLEAN]
         /\ flush' \in [Effect -> {"none", "new", "cleanup", "body", "release"}]
         /\ dependents' \in [Node -> SUBSET (Slot \cup Effect)]
         /\ \A n \in Node : dependents'[n] \subseteq deps[n]
         /\ \A f \in Effect : f # e => flush'[f] = flush[f] /\ armed'[f] = armed[f]
         /\ flush'[e] = "none" \/ (flush'[e] \in {"cleanup", "body"} /\ ~armed'[e] /\ ~dead[e])
         /\ armed'[e] => retained
<1> USE DEF TypeOK
<1>1. CASE dead[e] \/ ~pending[e]
  BY <1>1 DEF FlushLoop
<1>2. CASE ~dead[e] /\ pending[e] /\ retained
  <2>1. /\ flush' = [flush EXCEPT ![e] = "cleanup"] /\ pending' = [pending EXCEPT ![e] = FALSE]
        /\ armed' = [armed EXCEPT ![e] = FALSE] /\ dependents' = deps
    BY <1>2 DEF FlushLoop
  <2>2. flush'[e] = "cleanup" /\ ~armed'[e]
    BY <2>1
  <2> QED  BY <1>2, <2>1, <2>2
<1>3. CASE ~(dead[e] \/ ~pending[e]) /\ ~retained
  <2>1. armed' = [armed EXCEPT ![e] = FALSE] /\ Enters(e, deps, FALSE)
    BY <1>3 DEF FlushLoop
  <2> QED  BY <1>3, <2>1, EntersLeaves
<1> QED  BY <1>1, <1>2, <1>3

LEMMA BodyEndsLeaves ==
  ASSUME TypeOK, NEW e \in Effect, NEW deps \in [Node -> SUBSET (Slot \cup Effect)],
         NEW cleanup \in BOOLEAN, NEW read, BodyEnds(e, cleanup, read, deps),
         HoldingOf(e), flush[e] = "body"
  PROVE  /\ pending' \in [Effect -> BOOLEAN] /\ armed' \in [Effect -> BOOLEAN]
         /\ flush' \in [Effect -> {"none", "new", "cleanup", "body", "release"}]
         /\ dependents' \in [Node -> SUBSET (Slot \cup Effect)]
         /\ wait' = [wait EXCEPT ![e] = None] /\ dead' = dead /\ disposal' = disposal
         /\ \A n \in Node : dependents'[n] \subseteq deps[n]
         /\ \A f \in Effect : f # e => flush'[f] = flush[f] /\ armed'[f] = armed[f]
         /\ \/ flush'[e] = "none" \/ (flush'[e] = "release" /\ ~armed'[e])
            \/ flush'[e] \in {"cleanup", "body"} /\ ~armed'[e] /\ ~dead[e]
         /\ armed'[e] => ~dead[e]
<1> USE DEF TypeOK
<1>1. wait' = [wait EXCEPT ![e] = None] /\ dead' = dead /\ disposal' = disposal
  BY DEF BodyEnds
<1>2. CASE dead[e]
  <2>1. /\ flush' = [flush EXCEPT ![e] = IF cleanup THEN "release" ELSE "none"]
        /\ dependents' = deps /\ pending' = pending /\ armed' = armed
    BY <1>2 DEF BodyEnds
  <2>2. ~armed[e]
    BY DEF HoldingOf
  <2> QED  BY <1>1, <2>1, <2>2
<1>3. CASE ~dead[e]
  <2>1. FlushLoop(e, cleanup, deps)
    BY <1>3 DEF BodyEnds
  <2> QED  BY <1>1, <1>3, <2>1, FlushLoopLeaves
<1> QED  BY <1>2, <1>3

\* A step of the flush of e keeps what holds of it.
LEMMA FlushMoves ==
  ASSUME NEW e \in Effect, DisposalOf(e), HoldingOf(e), flush[e] # "none",
         disposal'[e] = disposal[e], dead'[e] = dead[e], e \in gone' <=> e \in gone,
         wait'[e] = None,
         \A n \in Node : e \in dependents'[n] => e \in dependents[n] \/ flush[e] = "body",
         \/ flush'[e] = "none"
         \/ flush'[e] = "release" /\ ~armed'[e] /\ flush[e] = "body"
         \/ flush'[e] \in {"cleanup", "body"} /\ ~armed'[e] /\ ~dead[e],
         armed'[e] => armed[e] \/ ~dead[e]
  PROVE  DisposalOf(e)' /\ HoldingOf(e)'
<1>1. /\ Called(e)' <=> Called(e)
      /\ Waited(e)' <=> Waited(e)
      /\ Returned(e)' <=> Returned(e)
  BY DEF Called, Waited, Returned
<1>2. Returned(e) => ~Waited(e)
  BY DEF Returned, Waited
<1>3. DisposalOf(e)'
  BY <1>1, <1>2 DEF DisposalOf
<1>4. HoldingOf(e)'
  BY DEF DisposalOf, HoldingOf
<1> QED  BY <1>3, <1>4

LEMMA Assembled ==
  ASSUME IInv, TypeOK', QuietSlots, QuietClosing,
         \A e \in Effect : QuietEffect(e) \/ (DisposalOf(e)' /\ HoldingOf(e)')
  PROVE  IInv'
<1>1. \A e \in Effect : DisposalOf(e)' /\ HoldingOf(e)'
  BY QuietEffectHolds DEF IInv, Disposal, Holding
<1>2. Publishing' /\ Closing'
  BY QuietSlotsHold, QuietClosingHolds DEF IInv
<1> QED  BY <1>1, <1>2 DEF IInv, Disposal, Holding

(***************************************************************************)
(* get_async.                                                              *)
(***************************************************************************)
\* A caller goes on from where it looks at a slot.
LEMMA CallerGoesOn ==
  ASSUME TypeOK, NEW c \in Caller, NEW s \in Slot, Looks(c, s), NEW t \in Task,
         wait' = [wait EXCEPT ![c] = None] \/ wait' = [wait EXCEPT ![c].on = t]
  PROVE  /\ wait' \in [Caller -> {None} \cup Awaiting]
         /\ \A b \in Caller : wait[b] = None => wait'[b] = None
<1>1. [wait[c] EXCEPT !.on = t] \in Awaiting /\ wait[c] # None
  BY DEF Looks, Awaiting
<1> QED  BY <1>1 DEF TypeOK

LEMMA StepOfGet ==
  ASSUME IInv, NEW c \in Caller, Get(c)
  PROVE  IInv'
<1> USE DEF IInv
<1>1. PICK s \in Slot : GetResolved(c, s) \/ GetAttaches(c, s) \/ GetSpawns(c, s)
  BY DEF Get
<1>2. CASE GetResolved(c, s) \/ GetAttaches(c, s)
  <2>1. Looks(c, s) /\ \/ wait' = [wait EXCEPT ![c] = None]
                       \/ future[s] \in Task /\ wait' = [wait EXCEPT ![c].on = future[s]]
    BY <1>2 DEF GetResolved, GetAttaches, TypeOK
  <2>2. /\ wait' \in [Caller -> {None} \cup Awaiting]
        /\ \A b \in Caller : wait[b] = None => wait'[b] = None
    <3>1. CASE wait' = [wait EXCEPT ![c] = None]
      BY <3>1 DEF TypeOK
    <3>2. CASE future[s] \in Task /\ wait' = [wait EXCEPT ![c].on = future[s]]
      BY <2>1, <3>2, CallerGoesOn
    <3> QED  BY <2>1, <3>1, <3>2
  <2>3. UNCHANGED <<graphVars, dependents, slotVars, taskVars, effectVars>>
    BY <1>2 DEF GetResolved, GetAttaches
  <2>4. TypeOK'
    BY <2>2, <2>3 DEF TypeOK, graphVars, slotVars, taskVars, effectVars
  <2>5. QuietSlots /\ QuietClosing
    BY <2>3 DEF QuietSlots, QuietClosing, graphVars, slotVars, taskVars, effectVars
  <2>6. \A e \in Effect : QuietEffect(e)
    BY <2>2, <2>3 DEF QuietEffect, graphVars, effectVars, Caller, Body
  <2> QED  BY <2>4, <2>5, <2>6, Assembled
<1>3. CASE GetSpawns(c, s)
  <2>1. PICK t \in Free :
          /\ task' = [task EXCEPT ![t] = s] /\ ready' = Append(ready, t)
          /\ status' = [status EXCEPT ![s] = "computing"]
          /\ future' = [future EXCEPT ![s] = t]
          /\ wait' = [wait EXCEPT ![c].on = t]
    BY <1>3 DEF GetSpawns
  <2>2. t \in Task /\ task[t] = None /\ Looks(c, s) /\ future[s] = None
    BY <1>3, <2>1 DEF Free, GetSpawns
  <2>3. /\ wait' \in [Caller -> {None} \cup Awaiting]
        /\ \A b \in Caller : wait[b] = None => wait'[b] = None
    BY <2>1, <2>2, CallerGoesOn
  <2>4. UNCHANGED <<graphVars, dependents, effectVars>>
    BY <1>3 DEF GetSpawns
  <2>5. ready' \in Seq(Task) /\ \A u \in Task :
          ((\E i \in DOMAIN ready : ready[i] = u) \/ u = t) => \E i \in DOMAIN ready' : ready'[i] = u
    <3>1. ready \in Seq(Task)
      BY DEF TypeOK
    <3>2. /\ Append(ready, t) \in Seq(Task) /\ Len(Append(ready, t)) = Len(ready) + 1 /\ Len(ready) \in Nat
          /\ \A i \in 1..Len(ready) : Append(ready, t)[i] = ready[i]
          /\ Append(ready, t)[Len(ready) + 1] = t
      BY <2>2, <3>1, AppendProperties, LenProperties
    <3>3. DOMAIN ready = 1..Len(ready) /\ DOMAIN Append(ready, t) = 1 .. Len(ready) + 1
      BY <3>1, <3>2, LenProperties
    <3> QED  BY <2>1, <3>2, <3>3
  <2>6. TypeOK'
    BY <2>1, <2>2, <2>3, <2>4, <2>5 DEF TypeOK, graphVars, effectVars
  <2>7. \A e \in Effect : QuietEffect(e)
    BY <2>3, <2>4 DEF QuietEffect, graphVars, effectVars, Caller, Body
  <2>8. QuietClosing
    BY <2>4 DEF QuietClosing, graphVars, effectVars
  <2>9. Publishing'
    <3>1. \A r \in Slot : future'[r] # None => task'[future'[r]] = r
      BY <2>1, <2>2, NodesAssumption DEF Publishing, TypeOK
    <3>2. ASSUME closed' = "closed", NEW r \in Slot \ gone'
          PROVE  status'[r] # "resolved"
                 /\ (future'[r] # None => \E i \in DOMAIN ready' : ready'[i] = future'[r])
      <4>1. closed = "closed" /\ r \notin gone
        BY <2>4, <3>2 DEF graphVars
      <4>2. CASE r = s
        BY <2>1, <2>2, <2>5, <4>2 DEF TypeOK
      <4>3. CASE r # s
        <5>1. status'[r] = status[r] /\ future'[r] = future[r] /\ future[r] \in Task \cup {None}
          BY <2>1, <4>3 DEF TypeOK
        <5> QED  BY <2>5, <4>1, <5>1 DEF Publishing
      <4> QED  BY <4>2, <4>3
    <3> QED  BY <3>1, <3>2 DEF Publishing
  <2>10. \A e \in Effect : DisposalOf(e)' /\ HoldingOf(e)'
    BY <2>7, QuietEffectHolds DEF Disposal, Holding
  <2> QED  BY <2>6, <2>8, <2>9, <2>10, QuietClosingHolds DEF Disposal, Holding
<1> QED  BY <1>1, <1>2, <1>3

(***************************************************************************)
(* Computations.                                                           *)
(***************************************************************************)
\* A computation ends with a result that is published only if the context is
\* open or the computation had not waited in vain.
LEMMA DriveEndsHolds ==
  ASSUME IInv, NEW t \in Task, NEW raises \in BOOLEAN, DriveEnds(t, raises),
         UNCHANGED <<graphVars, effectVars>>,
         \/ ready' = ready /\ (raises \/ \A i \in DOMAIN ready : ready[i] # t)
         \/ raises /\ ready # <<>> /\ Head(ready) = t /\ ready' = Tail(ready),
         dependents' \in [Node -> SUBSET (Slot \cup Effect)],
         \A n \in Node, e \in Effect : e \in dependents'[n] => e \in dependents[n]
  PROVE  IInv'
<1> USE DEF IInv, graphVars, effectVars
<1>1. ready' \in Seq(Task) /\ \A u \in Task :
        (\E i \in DOMAIN ready : ready[i] = u) /\ u # t => \E i \in DOMAIN ready' : ready'[i] = u
  <2>1. ready \in Seq(Task)
    BY DEF TypeOK
  <2>2. ASSUME ready # <<>>, Head(ready) = t
        PROVE  Tail(ready) \in Seq(Task) /\ \A u \in Task :
                 (\E i \in DOMAIN ready : ready[i] = u) /\ u # t
                   => \E i \in DOMAIN Tail(ready) : Tail(ready)[i] = u
    <3>1. /\ Tail(ready) \in Seq(Task) /\ Head(ready) = ready[1]
          /\ DOMAIN ready = 1..Len(ready) /\ DOMAIN Tail(ready) = 1 .. Len(ready) - 1
          /\ Len(ready) \in Nat /\ \A i \in 1 .. Len(ready) - 1 : Tail(ready)[i] = ready[i + 1]
      BY <2>1, <2>2, HeadTailProperties, LenProperties
    <3>2. ASSUME NEW i \in DOMAIN ready, ready[i] # t
          PROVE  \E j \in DOMAIN Tail(ready) : Tail(ready)[j] = ready[i]
      <4>1. i - 1 \in 1 .. Len(ready) - 1 /\ Tail(ready)[i - 1] = ready[i]
        BY <2>2, <3>1, <3>2
      <4> QED  BY <3>1, <4>1
    <3> QED  BY <3>1, <3>2
  <2> QED  BY <2>1, <2>2
<1>2. TypeOK'
  BY <1>1, DriveEndsLeaves DEF TypeOK
<1>3. \A e \in Effect : QuietEffect(e)
  BY DriveEndsLeaves DEF QuietEffect, Caller, Body
<1>4. QuietClosing
  BY DEF QuietClosing
<1>5. Publishing'
  <2>1. ASSUME NEW s \in Slot, future'[s] # None PROVE task'[future'[s]] = s
    <3>1. future'[s] = future[s] /\ future[s] # t
      BY <2>1, DriveEndsLeaves
    <3>2. future[s] \in Task
      BY <2>1, <3>1 DEF TypeOK
    <3> QED  BY <2>1, <3>1, <3>2, DriveEndsLeaves DEF Publishing
  <2>2. ASSUME closed = "closed", NEW s \in Slot \ gone
        PROVE  status'[s] # "resolved"
               /\ (future'[s] # None => \E i \in DOMAIN ready' : ready'[i] = future'[s])
    <3>1. status[s] # "resolved" /\ (future[s] # None => \E i \in DOMAIN ready : ready[i] = future[s])
      BY <2>2 DEF Publishing
    <3>2. status'[s] = "resolved" => ~raises /\ future[s] = t
      BY <3>1, DriveEndsLeaves
    <3>3. t # None
      BY NodesAssumption
    <3>4. future'[s] # None => future'[s] = future[s] /\ future[s] # t /\ future[s] \in Task
      BY DriveEndsLeaves DEF TypeOK
    <3> QED  BY <1>1, <3>1, <3>2, <3>3, <3>4
  <2> QED  BY <2>1, <2>2 DEF Publishing
<1>6. \A e \in Effect : DisposalOf(e)' /\ HoldingOf(e)'
  BY <1>3, QuietEffectHolds DEF Disposal, Holding
<1> QED  BY <1>2, <1>4, <1>5, <1>6, QuietClosingHolds DEF Disposal, Holding

LEMMA StepOfTask ==
  ASSUME IInv, NEW t \in Task, StartTask(t) \/ SlotReturns(t)
  PROVE  IInv'
<1> USE DEF IInv
<1>1. CASE StartTask(t) /\ closed = "open"
  <2>1. /\ ready # <<>> /\ ready' = Tail(ready) /\ dependents' = Detached(task[t])
        /\ UNCHANGED <<graphVars, slotVars, task, bodyVars, effectVars>>
    BY <1>1 DEF StartTask
  <2>2. ready' \in Seq(Task)
    BY <2>1, HeadTailProperties DEF TypeOK
  <2>3. dependents' \in [Node -> SUBSET (Slot \cup Effect)]
        /\ \A n \in Node : dependents'[n] \subseteq dependents[n]
    BY <2>1 DEF Detached, TypeOK
  <2>4. TypeOK'
    BY <2>1, <2>2, <2>3 DEF TypeOK, graphVars, slotVars, bodyVars, effectVars
  <2>5. \A e \in Effect : QuietEffect(e)
    BY <2>1, <2>3 DEF QuietEffect, graphVars, bodyVars, effectVars
  <2>6. QuietClosing
    BY <2>1 DEF QuietClosing, graphVars, effectVars
  <2>7. Publishing'
    BY <1>1, <2>1 DEF Publishing, graphVars, slotVars
  <2>8. \A e \in Effect : DisposalOf(e)' /\ HoldingOf(e)'
    BY <2>5, QuietEffectHolds DEF Disposal, Holding
  <2> QED  BY <2>4, <2>6, <2>7, <2>8, QuietClosingHolds DEF Disposal, Holding
<1>2. CASE StartTask(t) /\ closed # "open"
  <2>1. /\ ready # <<>> /\ Head(ready) = t /\ ready' = Tail(ready) /\ DriveEnds(t, TRUE)
        /\ UNCHANGED <<graphVars, effectVars>> /\ dependents' = dependents
    BY <1>2 DEF StartTask
  <2>2. dependents' \in [Node -> SUBSET (Slot \cup Effect)]
    BY <2>1 DEF TypeOK
  <2> QED  BY <2>1, <2>2, DriveEndsHolds
<1>3. CASE SlotReturns(t)
  <2>1. /\ \A i \in DOMAIN ready : ready[i] # t
        /\ DriveEnds(t, FALSE) /\ ready' = ready /\ dependents' = dependents
        /\ UNCHANGED <<graphVars, effectVars>>
    BY <1>3 DEF SlotReturns, Running
  <2>2. dependents' \in [Node -> SUBSET (Slot \cup Effect)]
    BY <2>1 DEF TypeOK
  <2> QED  BY <2>1, <2>2, DriveEndsHolds
<1> QED  BY <1>1, <1>2, <1>3

(***************************************************************************)
(* Bodies.                                                                 *)
(***************************************************************************)
LEMMA Owners ==
  ASSUME TypeOK, NEW b \in Body, Running(b)
  PROVE  Owner(b) \in Slot \cup Effect /\ \A e \in Effect : Owner(b) = e => b = e
  BY NodesAssumption DEF TypeOK, Body, Running, Owner, Node

\* The body of an effect ends, in whichever way.
LEMMA BodyEndsHolds ==
  ASSUME IInv, NEW e \in Effect, NEW deps \in [Node -> SUBSET (Slot \cup Effect)],
         NEW cleanup \in BOOLEAN, NEW read, BodyEnds(e, cleanup, read, deps), flush[e] = "body",
         UNCHANGED <<graphVars, slotVars, taskVars>>,
         \A n \in Node, f \in Effect : f \in deps[n] => f \in dependents[n] \/ f = e
  PROVE  IInv'
<1> USE DEF IInv, graphVars, slotVars, taskVars
<1>0. HoldingOf(e) /\ DisposalOf(e) /\ e \in Caller
  BY DEF Holding, Disposal, Caller, Body
<1>1. TypeOK'
  <2>1. /\ flush' \in [Effect -> {"none", "new", "cleanup", "body", "release"}]
        /\ pending' \in [Effect -> BOOLEAN] /\ armed' \in [Effect -> BOOLEAN]
        /\ dependents' \in [Node -> SUBSET (Slot \cup Effect)]
    BY <1>0, BodyEndsLeaves
  <2>2. wait' = [wait EXCEPT ![e] = None] /\ UNCHANGED <<dead, disposal>>
    BY DEF BodyEnds
  <2>3. wait' \in [Caller -> {None} \cup Awaiting]
    BY <2>2 DEF TypeOK
  <2> QED  BY <2>1, <2>2, <2>3 DEF TypeOK
<1>2. QuietSlots /\ QuietClosing
  BY <1>0, BodyEndsLeaves DEF QuietSlots, QuietClosing
<1>3. ASSUME NEW f \in Effect, f # e PROVE QuietEffect(f)
  <2>1. flush'[f] = flush[f] /\ armed'[f] = armed[f] /\ wait'[f] = wait[f]
    BY <1>0, <1>3, BodyEndsLeaves DEF TypeOK, Caller, Body
  <2>2. dead' = dead /\ disposal' = disposal /\ \A n \in Node : dependents'[n] \subseteq deps[n]
    BY <1>0, BodyEndsLeaves
  <2> QED  BY <1>3, <2>1, <2>2 DEF QuietEffect
<1>4. DisposalOf(e)' /\ HoldingOf(e)'
  <2>1. wait'[e] = None /\ dead'[e] = dead[e] /\ disposal'[e] = disposal[e]
    BY <1>0, BodyEndsLeaves DEF TypeOK
  <2>2. /\ \/ flush'[e] = "none" \/ (flush'[e] = "release" /\ ~armed'[e])
           \/ flush'[e] \in {"cleanup", "body"} /\ ~armed'[e] /\ ~dead[e]
        /\ armed'[e] => ~dead[e]
    BY <1>0, BodyEndsLeaves
  <2> QED  BY <1>0, <2>1, <2>2, FlushMoves
<1> QED  BY <1>1, <1>2, <1>3, <1>4, Assembled

LEMMA FailsHolds ==
  ASSUME IInv, NEW b \in Body, NEW deps \in [Node -> SUBSET (Slot \cup Effect)], Fails(b, deps),
         b \notin Task => flush[b] = "body",
         \A n \in Node, e \in Effect : e \in deps[n] => e \in dependents[n] \/ e = b
  PROVE  IInv'
<1>1. CASE b \in Task
  <2>1. /\ DriveEnds(b, TRUE) /\ dependents' = deps /\ ready' = ready
        /\ UNCHANGED <<graphVars, effectVars>>
    BY <1>1 DEF Fails
  <2>2. \A n \in Node, e \in Effect : e \in deps[n] => e \in dependents[n]
    BY <1>1, NodesAssumption
  <2> QED  BY <1>1, <2>1, <2>2, DriveEndsHolds
<1>2. CASE b \notin Task
  <2>1. b \in Effect
    BY <1>2 DEF Body
  <2>2. /\ BodyEnds(b, FALSE, None, deps)
        /\ UNCHANGED <<graphVars, slotVars, taskVars>>
    BY <1>2 DEF Fails, taskVars
  <2> QED  BY <1>2, <2>1, <2>2, BodyEndsHolds
<1> QED  BY <1>1, <1>2

LEMMA StepOfBody ==
  ASSUME IInv, NEW b \in Body, BodyStep(b) \/ BodyRaises(b)
  PROVE  IInv'
<1> USE DEF IInv
<1>0. b \in Caller /\ dependents \in [Node -> SUBSET (Slot \cup Effect)]
  BY DEF Caller, TypeOK
<1>1. CASE Get(b)
  BY <1>0, <1>1, StepOfGet
<1>2. CASE AwaitRaises(b)
  <2>1. b \notin Task => flush[b] = "body"
    BY <1>2 DEF AwaitRaises, Holding, HoldingOf, Body
  <2> QED  BY <1>0, <1>2, <2>1, FailsHolds DEF AwaitRaises
<1>3. CASE BodyRaises(b)
  BY <1>0, <1>3, FailsHolds DEF BodyRaises, Running
<1>4. CASE ReadFails(b)
  <2>1. Running(b) /\ Fails(b, Tracked(NextRead(b), Owner(b)))
    BY <1>4 DEF ReadFails
  <2>2. /\ Owner(b) \in Slot \cup Effect /\ \A e \in Effect : Owner(b) = e => b = e
        /\ Tracked(NextRead(b), Owner(b)) \in [Node -> SUBSET (Slot \cup Effect)]
        /\ \A n \in Node : Tracked(NextRead(b), Owner(b))[n] \subseteq dependents[n] \cup {Owner(b)}
    BY <2>1, Owners, Edges
  <2>3. b \notin Task => flush[b] = "body"
    BY <2>1 DEF Running
  <2> HIDE DEF IInv
  <2> QED  BY <2>1, <2>2, <2>3, FailsHolds
<1>5. ASSUME \/ \E x \in Source : ReadSource(b, x)
             \/ \E s \in Slot : ReadSlot(b, s)
      PROVE  IInv'
  <2>1. /\ Running(b) /\ \E d \in Node : dependents' = Tracked(d, Owner(b))
        /\ UNCHANGED <<graphVars, slotVars, taskVars, effectVars>>
        /\ wait' = wait \/ \E s \in Slot : wait' = [wait EXCEPT ![b] = [slot |-> s, on |-> "loop"]]
    BY <1>5 DEF ReadSource, ReadSlot, Node
  <2>2. /\ dependents' \in [Node -> SUBSET (Slot \cup Effect)]
        /\ \A n \in Node, e \in Effect : e \in dependents'[n] => e \in dependents[n] \/ e = b
    BY <2>1, Owners, Edges
  <2>3. wait' \in [Caller -> {None} \cup Awaiting] /\ \A c \in Caller : c # b => wait'[c] = wait[c]
    BY <1>0, <2>1 DEF TypeOK, Awaiting
  <2>4. TypeOK'
    BY <2>1, <2>2, <2>3 DEF TypeOK, graphVars, slotVars, taskVars, effectVars
  <2>5. \A e \in Effect : QuietEffect(e)
    <3>1. \A e \in Effect : e = b => flush[e] = "body"
      BY <2>1, NodesAssumption DEF Running
    <3> QED  BY <2>1, <2>2, <2>3, <3>1 DEF QuietEffect, graphVars, effectVars, Caller, Body
  <2>6. QuietSlots /\ QuietClosing
    BY <2>1 DEF QuietSlots, QuietClosing, graphVars, slotVars, taskVars, effectVars
  <2> QED  BY <2>4, <2>5, <2>6, Assembled
<1> QED  BY <1>1, <1>2, <1>3, <1>4, <1>5 DEF BodyStep

LEMMA StepOfEffect ==
  ASSUME IInv, NEW e \in Effect, FlushStart(e) \/ CleanupEnds(e) \/ EffectReturns(e) \/ ReleaseEnds(e)
  PROVE  IInv'
<1> USE DEF IInv
<1>0. /\ HoldingOf(e) /\ DisposalOf(e) /\ e \in Caller /\ armed[e] \in BOOLEAN /\ pending[e] \in BOOLEAN
      /\ dependents \in [Node -> SUBSET (Slot \cup Effect)]
  BY DEF Holding, Disposal, Caller, Body, TypeOK
<1>1. CASE EffectReturns(e)
  <2>1. PICK cleanup \in BOOLEAN : BodyEnds(e, cleanup, args[e], dependents)
    BY <1>1 DEF EffectReturns
  <2>2. flush[e] = "body" /\ UNCHANGED <<graphVars, slotVars, taskVars>>
    BY <1>1, NodesAssumption DEF EffectReturns, Running
  <2> HIDE DEF IInv
  <2> QED  BY <1>0, <2>1, <2>2, BodyEndsHolds
<1>2. ASSUME flush[e] \in {"new", "cleanup", "release"},
             UNCHANGED <<graphVars, slotVars, taskVars, bodyVars, dead, disposal>>,
             pending' \in [Effect -> BOOLEAN], armed' \in [Effect -> BOOLEAN],
             flush' \in [Effect -> {"none", "new", "cleanup", "body", "release"}],
             dependents' \in [Node -> SUBSET (Slot \cup Effect)],
             \A n \in Node : dependents'[n] \subseteq dependents[n],
             \A f \in Effect : f # e => flush'[f] = flush[f] /\ armed'[f] = armed[f],
             flush'[e] = "none" \/ (flush'[e] \in {"cleanup", "body"} /\ ~armed'[e] /\ ~dead[e]),
             armed'[e] => armed[e]
      PROVE  IInv'
  <2>1. TypeOK'
    BY <1>2 DEF TypeOK, graphVars, slotVars, taskVars, bodyVars
  <2>2. QuietSlots /\ QuietClosing
    BY <1>2 DEF QuietSlots, QuietClosing, graphVars, slotVars, taskVars
  <2>3. \A f \in Effect : f # e => QuietEffect(f)
    BY <1>2 DEF QuietEffect, graphVars, bodyVars
  <2>4. wait'[e] = None /\ (e \in gone' <=> e \in gone)
    BY <1>0, <1>2 DEF HoldingOf, bodyVars, graphVars
  <2>5. DisposalOf(e)' /\ HoldingOf(e)'
    <3>1. flush[e] # "none" /\ disposal'[e] = disposal[e] /\ dead'[e] = dead[e]
      BY <1>2
    <3>2. \A n \in Node : e \in dependents'[n] => e \in dependents[n] \/ flush[e] = "body"
      BY <1>2
    <3>3. \/ flush'[e] = "none"
          \/ flush'[e] \in {"cleanup", "body"} /\ ~armed'[e] /\ ~dead[e]
      BY <1>2
    <3> HIDE DEF IInv
    <3> QED  BY <1>0, <1>2, <2>4, <3>1, <3>2, <3>3, FlushMoves
  <2> QED  BY <2>1, <2>2, <2>3, <2>5, Assembled
<1>3. CASE FlushStart(e)
  <2>1. FlushLoop(e, armed[e], dependents)
    BY <1>3 DEF FlushStart
  <2> QED  BY <1>0, <1>2, <1>3, <2>1, FlushLoopLeaves DEF FlushStart
<1>4. CASE CleanupEnds(e)
  <2>1. CASE dead[e]
    BY <1>0, <1>2, <1>4, <2>1 DEF CleanupEnds, TypeOK
  <2>2. CASE ~dead[e]
    <3>1. Enters(e, dependents, pending[e]) /\ armed' = armed /\ ~armed[e]
      BY <1>0, <1>4, <2>2 DEF CleanupEnds, HoldingOf
    <3> QED  BY <1>0, <1>2, <1>4, <2>2, <3>1, EntersLeaves DEF CleanupEnds, TypeOK
  <2> QED  BY <2>1, <2>2
<1>5. CASE ReleaseEnds(e)
  BY <1>0, <1>2, <1>5 DEF ReleaseEnds, TypeOK
<1> QED  BY <1>1, <1>3, <1>4, <1>5

(***************************************************************************)
(* Clients.                                                                *)
(***************************************************************************)
LEMMA StepOfClient ==
  ASSUME IInv, NEW c \in Client, CallRaises(c) \/ \E s \in Slot : Call(c, s)
  PROVE  IInv'
<1> USE DEF IInv
<1>1. /\ wait' = [wait EXCEPT ![c] = None]
         \/ \E s \in Slot : wait' = [wait EXCEPT ![c] = [slot |-> s, on |-> "loop"]]
      /\ UNCHANGED <<graphVars, dependents, slotVars, taskVars, effectVars>>
  BY DEF CallRaises, Call
<1>2. wait' \in [Caller -> {None} \cup Awaiting] /\ \A e \in Effect : wait'[e] = wait[e]
  <2>1. c \in Caller /\ c \notin Effect /\ Effect \subseteq Caller
    BY NodesAssumption DEF Caller, Body
  <2>2. wait \in [Caller -> {None} \cup Awaiting]
    BY DEF TypeOK
  <2>3. CASE wait' = [wait EXCEPT ![c] = None]
    BY <2>1, <2>2, <2>3
  <2>4. CASE \E s \in Slot : wait' = [wait EXCEPT ![c] = [slot |-> s, on |-> "loop"]]
    <3>1. PICK s \in Slot : wait' = [wait EXCEPT ![c] = [slot |-> s, on |-> "loop"]]
      BY <2>4
    <3>2. [slot |-> s, on |-> "loop"] \in Awaiting
      BY DEF Awaiting
    <3> QED  BY <2>1, <2>2, <3>1, <3>2
  <2> QED  BY <1>1, <2>3, <2>4
<1>3. TypeOK'
  BY <1>1, <1>2 DEF TypeOK, graphVars, slotVars, taskVars, effectVars
<1>4. QuietSlots /\ QuietClosing
  BY <1>1 DEF QuietSlots, QuietClosing, graphVars, slotVars, taskVars, effectVars
<1>5. \A e \in Effect : QuietEffect(e)
  BY <1>1, <1>2 DEF QuietEffect, graphVars, effectVars
<1> QED  BY <1>3, <1>4, <1>5, Assembled

\* A change invalidates slots and schedules effects that are not gone.
LEMMA ChangeHolds ==
  ASSUME IInv,
         UNCHANGED <<closed, awaited, taskVars, wait, armed, dead, disposal>>,
         gone' = gone \/ \E n \in Node : gone' = gone \cup {n},
         dependents' \in [Node -> SUBSET (Slot \cup Effect)],
         \A n \in Node : dependents'[n] \subseteq dependents[n],
         status' \in [Slot -> {"empty", "computing", "resolved", "error"}],
         future' \in [Slot -> Task \cup {None}],
         \A s \in Slot : /\ future'[s] = None \/ future'[s] = future[s]
                         /\ status'[s] = "resolved" => status[s] = "resolved",
         UNCHANGED <<pending, flush>> \/ \E S : Scheduled(S)
  PROVE  IInv'
<1> USE DEF IInv
<1>1. /\ pending' \in [Effect -> BOOLEAN]
      /\ flush' \in [Effect -> {"none", "new", "cleanup", "body", "release"}]
      /\ \A e \in Effect :
           flush'[e] = flush[e] \/ (flush[e] = "none" /\ flush'[e] = "new" /\ e \notin gone)
  BY ScheduledLeaves DEF TypeOK
<1>2. gone \subseteq gone' /\ gone' \subseteq Node \cup Effect /\ gone' \cap Effect = gone \cap Effect
  BY NodesAssumption DEF TypeOK
<1>3. TypeOK'
  BY <1>1, <1>2 DEF TypeOK, taskVars
<1>4. QuietSlots /\ QuietClosing
  BY <1>2 DEF QuietSlots, QuietClosing, taskVars
<1>5. \A e \in Effect : QuietEffect(e)
  BY <1>1, <1>2 DEF QuietEffect
<1> QED  BY <1>3, <1>4, <1>5, Assembled

LEMMA StepOfChange ==
  ASSUME IInv,
         \/ Write
         \/ \E s \in Slot : InvalidateSlot(s) \/ HardClear(s) \/ DisposeSlot(s)
         \/ \E x \in Source : DisposeSource(x)
  PROVE  IInv'
<1>0. TypeOK /\ dependents \in [Node -> SUBSET (Slot \cup Effect)]
  BY DEF IInv, TypeOK
<1>1. CASE Write
  <2>1. PICK new \in [Source -> Val] :
          IF closed = "open"
          THEN Invalidates(UNION {dependents[x] : x \in {y \in Source : new[y] # value[y]}})
          ELSE UNCHANGED <<slotVars, pending, flush>>
    BY <1>1 DEF Write
  <2>2. /\ UNCHANGED <<gone, closed, awaited, dependents, taskVars, wait, armed, dead, disposal>>
        /\ UNCHANGED <<pending, flush>> \/ \E S : Scheduled(S)
        /\ UNCHANGED slotVars \/ \E S : Invalidated(S)
    BY <1>1, <2>1 DEF Write, Invalidates, bodyVars
  <2>3. /\ status' \in [Slot -> {"empty", "computing", "resolved", "error"}]
        /\ future' \in [Slot -> Task \cup {None}]
        /\ \A s \in Slot : /\ future'[s] = None \/ future'[s] = future[s]
                           /\ status'[s] = "resolved" => status[s] = "resolved"
    BY <1>0, <2>2, InvalidatedLeaves DEF slotVars, TypeOK
  <2> QED  BY <1>0, <2>2, <2>3, ChangeHolds
<1>2. ASSUME NEW s \in Slot, InvalidateSlot(s) PROVE IInv'
  <2>1. /\ UNCHANGED <<gone, closed, awaited, dependents, taskVars, wait, armed, dead, disposal>>
        /\ UNCHANGED <<pending, flush>> \/ \E S : Scheduled(S)
        /\ \E S : Invalidated(S)
    BY <1>2 DEF InvalidateSlot, graphVars, bodyVars
  <2> QED  BY <1>0, <2>1, InvalidatedLeaves, ChangeHolds
<1>3. ASSUME NEW s \in Slot, HardClear(s) PROVE IInv'
  <2>1. /\ UNCHANGED <<gone, closed, awaited, dependents, taskVars, wait, armed, dead, disposal>>
        /\ UNCHANGED <<pending, flush>>
        /\ status' = [status EXCEPT ![s] = "empty"] /\ future' = [future EXCEPT ![s] = None]
    BY <1>3 DEF HardClear, graphVars, bodyVars, effectVars
  <2> QED  BY <1>0, <2>1, ChangeHolds DEF TypeOK
<1>4. ASSUME NEW s \in Slot, DisposeSlot(s) PROVE IInv'
  <2>1. /\ UNCHANGED <<closed, awaited, taskVars, wait, armed, dead, disposal, pending, flush>>
        /\ gone' = gone \cup {s} /\ dependents' = [Detached(s) EXCEPT ![s] = {}]
    BY <1>4 DEF DisposeSlot, bodyVars, effectVars
  <2>2. /\ dependents' \in [Node -> SUBSET (Slot \cup Effect)]
        /\ \A n \in Node : dependents'[n] \subseteq dependents[n]
    BY <1>0, <2>1 DEF Detached
  <2>3. /\ status' \in [Slot -> {"empty", "computing", "resolved", "error"}]
        /\ future' \in [Slot -> Task \cup {None}]
        /\ \A n \in Slot : /\ future'[n] = None \/ future'[n] = future[n]
                           /\ status'[n] = "resolved" => status[n] = "resolved"
    BY <1>0, <1>4 DEF DisposeSlot, TypeOK
  <2> QED  BY <2>1, <2>2, <2>3, ChangeHolds DEF Node
<1>5. ASSUME NEW x \in Source, DisposeSource(x) PROVE IInv'
  <2>1. /\ UNCHANGED <<closed, awaited, taskVars, wait, armed, dead, disposal, pending, flush>>
        /\ gone' = gone \cup {x} /\ dependents' = [dependents EXCEPT ![x] = {}]
        /\ \E S : Invalidated(S)
    BY <1>5 DEF DisposeSource, bodyVars, effectVars
  <2>2. /\ dependents' \in [Node -> SUBSET (Slot \cup Effect)]
        /\ \A n \in Node : dependents'[n] \subseteq dependents[n]
    BY <1>0, <2>1
  <2> QED  BY <1>0, <2>1, <2>2, InvalidatedLeaves, ChangeHolds DEF Node
<1> QED  BY <1>1, <1>2, <1>3, <1>4, <1>5

(***************************************************************************)
(* dispose_async.                                                          *)
(***************************************************************************)
\* A call of dispose_async goes on, and what holds of its effect is kept.
LEMMA CallMoves ==
  ASSUME IInv, NEW e \in Effect, NEW d \in Disposer, NEW place \in Places,
         Goes(e, d, place), disposal[e][d] # "done", d = "context" => e \in awaited,
         UNCHANGED <<closed, awaited, flush, wait, slotVars, taskVars>>,
         gone' = gone \/ gone' = gone \cup {e},
         pending' \in [Effect -> BOOLEAN], armed' \in [Effect -> BOOLEAN], dead' \in [Effect -> BOOLEAN],
         \A f \in Effect : f # e => armed'[f] = armed[f] /\ dead'[f] = dead[f],
         dependents' = dependents \/ dependents' = Detached(e),
         DisposalOf(e)', HoldingOf(e)'
  PROVE  IInv'
<1> USE DEF IInv, slotVars, taskVars
<1>1. /\ disposal' \in [Effect -> [Disposer -> Places]]
      /\ \A f \in Effect : f # e => disposal'[f] = disposal[f]
      /\ \A c \in Disposer : c # d => disposal'[e][c] = disposal[e][c]
  BY DEF Goes, TypeOK
<1>2. /\ dependents' \in [Node -> SUBSET (Slot \cup Effect)]
      /\ \A n \in Node : dependents'[n] \subseteq dependents[n]
  BY DEF TypeOK, Detached
<1>3. TypeOK'
  BY <1>1, <1>2 DEF TypeOK
<1>4. Slot \ gone' = Slot \ gone
  BY NodesAssumption DEF Node
<1>5. QuietSlots
  BY <1>4 DEF QuietSlots
<1>6. Closing'
  <2>1. \A f \in Effect \ awaited : disposal'[f]["context"] = disposal[f]["context"]
    BY <1>1 DEF Disposer
  <2>2. closed = "closed" => \A f \in awaited : disposal'[f]["context"] = "done"
    <3>1. ASSUME closed = "closed", NEW f \in awaited PROVE disposal'[f]["context"] = "done"
      <4>1. disposal[f]["context"] = "done" /\ f \in Effect /\ "context" \in Disposer
        BY <3>1 DEF Closing, TypeOK, Disposer
      <4>2. CASE f = e
        BY <1>1, <4>1, <4>2
      <4>3. CASE f # e
        BY <1>1, <4>1, <4>3
      <4> QED  BY <4>2, <4>3
    <3> QED  BY <3>1
  <2>3. gone \subseteq gone'
    OBVIOUS
  <2> QED  BY <2>1, <2>2, <2>3 DEF Closing
<1>7. \A f \in Effect : f # e => QuietEffect(f)
  BY <1>1, <1>2 DEF QuietEffect
<1>8. \A f \in Effect : DisposalOf(f)' /\ HoldingOf(f)'
  BY <1>7, QuietEffectHolds DEF Disposal, Holding
<1> QED  BY <1>3, <1>5, <1>6, <1>8, QuietSlotsHold DEF Disposal, Holding

LEMMA StepOfDispose ==
  ASSUME IInv, NEW e \in Effect, NEW d \in Disposer, DisposeEffect(e, d) \/ DisposeStep(e, d)
  PROVE  IInv'
<1>0. /\ HoldingOf(e) /\ DisposalOf(e)
      /\ disposal \in [Effect -> [Disposer -> Places]] /\ dead \in [Effect -> BOOLEAN]
      /\ pending \in [Effect -> BOOLEAN] /\ armed \in [Effect -> BOOLEAN]
      /\ dependents \in [Node -> SUBSET (Slot \cup Effect)]
      /\ gone \subseteq Node \cup Effect
  BY DEF IInv, Holding, Disposal, TypeOK
<1>1. d = "context" /\ disposal[e][d] # "no" => e \in awaited
  BY DEF IInv, Closing
<1>2. CASE DisposeEffect(e, d)
  <2> DEFINE place == IF e \in gone THEN "release" ELSE "task"
  <2>1. /\ disposal[e][d] = "no" /\ Goes(e, d, place) /\ gone' = gone \cup {e}
        /\ d = "context" => e \in awaited
        /\ UNCHANGED <<closed, awaited, dependents, slotVars, taskVars, wait, flush, pending, armed, dead>>
    BY <1>2 DEF DisposeEffect, At, Disposer, bodyVars
  <2>2. /\ disposal'[e][d] = place
        /\ \A c \in Disposer : c # d => disposal'[e][c] = disposal[e][c]
    BY <1>0, <2>1 DEF Goes
  <2>3. DisposalOf(e)'
    <3>1. Called(e)' /\ e \in gone'
      BY <2>1, <2>2 DEF Called
    <3>2. ~Returned(e)'
      BY <2>2 DEF Returned
    <3>3. flush[e] = "none" \/ Waited(e)'
      BY <1>0, <2>1, <2>2 DEF Waited, DisposalOf
    <3>4. \A c \in Disposer : disposal'[e][c] \in {"cleanup", "await", "done"} => dead[e]
      BY <1>0, <2>1, <2>2 DEF DisposalOf
    <3> QED  BY <1>0, <2>1, <3>1, <3>2, <3>3, <3>4 DEF DisposalOf
  <2>4. HoldingOf(e)'
    BY <1>0, <2>1, <2>2 DEF HoldingOf
  <2>5. place \in Places
    BY DEF Places
  <2> HIDE DEF place
  <2> QED  BY <1>0, <2>1, <2>3, <2>4, <2>5, CallMoves
<1>3. CASE DisposeReleases(e, d)
  <2>1. /\ disposal[e][d] = "release" \/ (disposal[e][d] = "task" /\ flush[e] = "none")
        /\ dead' = [dead EXCEPT ![e] = TRUE] /\ pending' = [pending EXCEPT ![e] = FALSE]
        /\ UNCHANGED <<graphVars, slotVars, taskVars, wait, flush>>
    BY <1>3 DEF DisposeReleases, At, bodyVars
  <2>2. PICK place \in {"await", "cleanup", "done"} :
          /\ Goes(e, d, place)
          /\ place = "cleanup" => armed[e] /\ armed' = [armed EXCEPT ![e] = FALSE]
          /\ place # "cleanup" => ~armed[e] /\ armed' = armed
          /\ IF place = "done" THEN dependents' = Detached(e) ELSE dependents' = dependents
    <3>1. CASE flush[e] = "cleanup"
      BY <1>0, <1>3, <3>1 DEF DisposeReleases, HoldingOf
    <3>2. CASE flush[e] # "cleanup" /\ armed[e]
      BY <1>3, <3>2 DEF DisposeReleases
    <3>3. CASE flush[e] # "cleanup" /\ ~armed[e]
      BY <1>3, <3>3 DEF DisposeReleases
    <3> QED  BY <3>1, <3>2, <3>3
  <2>3. /\ disposal'[e][d] = place
        /\ \A c \in Disposer : c # d => disposal'[e][c] = disposal[e][c]
    BY <1>0, <2>2 DEF Goes
  <2>4. dead'[e] /\ ~armed'[e] /\ e \in gone /\ gone' = gone /\ flush' = flush /\ wait' = wait
    BY <1>0, <2>1, <2>2 DEF DisposalOf, Called, graphVars
  <2>5. DisposalOf(e)'
    <3>1. Called(e)' /\ (Waited(e) => Waited(e)' \/ flush[e] = "none")
      BY <2>1, <2>2, <2>3 DEF Called, Waited
    <3>2. Returned(e)' => \A n \in Node : e \notin dependents'[n]
      BY <2>2, <2>3 DEF Returned, Detached
    <3> QED  BY <1>0, <2>4, <3>1, <3>2 DEF DisposalOf
  <2>6. HoldingOf(e)'
    <3>1. \A c \in Disposer : disposal[e][c] = "cleanup" => ~armed[e]
      BY <1>0 DEF DisposalOf
    <3> QED  BY <1>0, <2>2, <2>3, <2>4, <3>1 DEF HoldingOf
  <2>7. place \in Places /\ armed' \in [Effect -> BOOLEAN] /\ dead' \in [Effect -> BOOLEAN]
        /\ pending' \in [Effect -> BOOLEAN]
        /\ \A f \in Effect : f # e => armed'[f] = armed[f] /\ dead'[f] = dead[f]
    BY <1>0, <2>1, <2>2 DEF Places
  <2> QED  BY <1>1, <2>1, <2>2, <2>5, <2>6, <2>7, CallMoves DEF graphVars
<1>4. CASE DisposeEnds(e, d)
  <2>1. /\ disposal[e][d] \in {"cleanup", "await"} /\ Goes(e, d, "done")
        /\ dependents' = Detached(e)
        /\ UNCHANGED <<graphVars, slotVars, taskVars, wait, flush, pending, armed, dead>>
    BY <1>4 DEF DisposeEnds, At, bodyVars
  <2>2. /\ disposal'[e][d] = "done"
        /\ \A c \in Disposer : c # d => disposal'[e][c] = disposal[e][c]
    BY <1>0, <2>1 DEF Goes
  <2>3. DisposalOf(e)'
    <3>1. Called(e) /\ Called(e)' /\ (Waited(e) => Waited(e)')
      BY <2>1, <2>2 DEF Called, Waited
    <3>2. \A n \in Node : e \notin dependents'[n]
      BY <2>1 DEF Detached
    <3>3. dead[e]
      BY <1>0, <2>1 DEF DisposalOf
    <3> QED  BY <1>0, <2>1, <2>2, <3>1, <3>2, <3>3 DEF DisposalOf, graphVars
  <2>4. HoldingOf(e)'
    BY <1>0, <2>1, <2>2 DEF HoldingOf
  <2>5. "done" \in Places
    BY DEF Places
  <2> QED  BY <1>0, <1>1, <2>1, <2>3, <2>4, <2>5, CallMoves DEF graphVars
<1> QED  BY <1>2, <1>3, <1>4 DEF DisposeStep

LEMMA StepOfContext ==
  ASSUME IInv, DisposeContext \/ ContextDisposed
  PROVE  IInv'
<1> USE DEF IInv
<1>1. CASE DisposeContext
  <2>1. /\ closed' = "closing" /\ awaited' = Effect \ gone /\ closed = "open"
        /\ UNCHANGED <<gone, dependents, slotVars, taskVars, bodyVars, effectVars>>
    BY <1>1 DEF DisposeContext
  <2>2. TypeOK'
    BY <2>1 DEF TypeOK, slotVars, taskVars, bodyVars, effectVars
  <2>3. QuietSlots
    BY <2>1 DEF QuietSlots, slotVars, taskVars
  <2>4. Closing'
    BY <2>1 DEF Closing, effectVars
  <2>5. \A e \in Effect : DisposalOf(e)' /\ HoldingOf(e)'
    <3>1. \A e \in Effect : QuietEffect(e)
      BY <2>1 DEF QuietEffect, effectVars, bodyVars
    <3> QED  BY <3>1, QuietEffectHolds DEF Disposal, Holding
  <2> QED  BY <2>2, <2>3, <2>4, <2>5, QuietSlotsHold DEF Disposal, Holding
<1>2. CASE ContextDisposed
  <2>1. /\ closed' = "closed" /\ closed = "closing" /\ dependents' = NoDependents
        /\ \A e \in awaited : disposal[e]["context"] = "done"
        /\ status' = [s \in Slot |-> IF s \in gone THEN status[s] ELSE "empty"]
        /\ future' = [s \in Slot |-> IF s \in gone THEN future[s] ELSE None]
        /\ UNCHANGED <<gone, awaited, taskVars, bodyVars, effectVars>>
    BY <1>2 DEF ContextDisposed, At
  <2>2. TypeOK'
    BY <2>1 DEF TypeOK, NoDependents, taskVars, bodyVars, effectVars
  <2>3. Publishing'
    BY <2>1 DEF Publishing, taskVars
  <2>4. Closing'
    BY <2>1 DEF Closing, effectVars
  <2>5. \A e \in Effect : DisposalOf(e)' /\ HoldingOf(e)'
    <3>1. \A e \in Effect : QuietEffect(e)
      BY <2>1 DEF QuietEffect, effectVars, bodyVars, NoDependents
    <3> QED  BY <3>1, QuietEffectHolds DEF Disposal, Holding
  <2> QED  BY <2>2, <2>3, <2>4, <2>5 DEF Disposal, Holding
<1> QED  BY <1>1, <1>2

(***************************************************************************)
(* The theorems.                                                           *)
(***************************************************************************)
LEMMA InvariantInit == Init => IInv
<1> SUFFICES ASSUME Init PROVE IInv
  OBVIOUS
<1>1. TypeOK
  <2>1. <<>> \in Seq(Task)
    BY EmptySeq
  <2> QED  BY <2>1 DEF Init, TypeOK, NoDependents, Places
<1>2. Disposal
  BY DEF Init, Disposal, DisposalOf, Called, Disposer
<1>3. Holding
  BY DEF Init, Holding, HoldingOf, Caller, Body
<1>4. Closing /\ Publishing
  BY DEF Init, Closing, Publishing, Disposer
<1> QED  BY <1>1, <1>2, <1>3, <1>4 DEF IInv

LEMMA InvariantHeld == IInv /\ [Next]_vars => IInv'
<1> SUFFICES ASSUME IInv, [Next]_vars PROVE IInv'
  OBVIOUS
<1>1. CASE UNCHANGED vars
  BY <1>1 DEF vars, graphVars, slotVars, taskVars, bodyVars, effectVars, IInv, TypeOK, Disposal,
              DisposalOf, Called, Waited, Returned, Holding, HoldingOf, Closing, Publishing
<1>2. CASE \E t \in Task : TaskStep(t) \/ BodyRaises(t)
  BY <1>2, StepOfTask, StepOfBody DEF TaskStep, Body
<1>3. CASE \E e \in Effect : EffectStep(e) \/ BodyRaises(e)
  BY <1>3, StepOfEffect, StepOfBody DEF EffectStep, Body
<1>4. CASE \E c \in Client : ClientStep(c) \/ \E s \in Slot : Call(c, s)
  BY <1>4, StepOfClient, StepOfGet DEF ClientStep, Caller
<1>5. CASE \E e \in Effect, d \in Disposer : DisposeEffect(e, d) \/ DisposeStep(e, d)
  BY <1>5, StepOfDispose
<1> QED  BY <1>1, <1>2, <1>3, <1>4, <1>5, StepOfContext, StepOfChange DEF Next

LEMMA InvariantAlways == Spec => []IInv
  BY InvariantInit, InvariantHeld, PTL DEF Spec

\* The variables stay in their types, and a suspended caller, a computation and a
\* call of dispose_async are always at one of the places the code gives them.
THEOREM TypeCorrect == Spec => []TypeOK
<1>1. IInv => TypeOK
  BY DEF IInv
<1> QED  BY <1>1, InvariantAlways, PTL

\* What holds the resource of an effect is its body, one cleanup, or nobody while
\* it is retained: no schedule of reruns and of the calls that dispose it
\* releases twice what one run acquired (AsyncEffect.flush and dispose).
THEOREM NeverReleasedTwice == Spec => []ReleasedOnce
<1>1. ASSUME IInv, NEW e \in Effect
      PROVE  Cardinality(Releasing(e)) <= 1 /\ (flush[e] = "body" => Releasing(e) = {})
  <2>1. HoldingOf(e) /\ DisposalOf(e)
    BY <1>1 DEF IInv, Holding, Disposal
  <2>2. \A x, y \in Releasing(e) : x = y
    BY <2>1 DEF Releasing, At, HoldingOf, DisposalOf, Disposer
  <2>3. Releasing(e) = {} \/ \E x : Releasing(e) = {x}
    BY <2>2
  <2>4. Cardinality(Releasing(e)) <= 1
    <3>1. Cardinality({}) = 0
      BY FS_EmptySet
    <3>2. \A x : Cardinality({x}) = 1
      BY FS_Singleton
    <3>3. Cardinality(Releasing(e)) = 0 \/ Cardinality(Releasing(e)) = 1
      BY <2>3, <3>1, <3>2
    <3> QED  BY <3>3
  <2>5. flush[e] = "body" => Releasing(e) = {}
    BY <2>1 DEF Releasing, At, HoldingOf
  <2> QED  BY <2>4, <2>5
<1>2. IInv => ReleasedOnce
  BY <1>1 DEF ReleasedOnce
<1> QED  BY <1>2, InvariantAlways, PTL

\* When the calls that dispose an effect have returned it is at rest, holds no
\* resource and no node leads to it, and a disposed context publishes nothing
\* more, whatever was suspended when it was disposed
\* (AsyncEffectHandle.dispose_async, AsyncContext.dispose_async).
THEOREM TeardownStaysFinal == Spec => []TeardownIsFinal
<1>1. ASSUME IInv, NEW e \in Effect, e \in gone, Returned(e)
      PROVE  flush[e] = "none" /\ Releasing(e) = {} /\ \A n \in Node : e \notin dependents[n]
  <2>1. HoldingOf(e) /\ DisposalOf(e)
    BY <1>1 DEF IInv, Holding, Disposal
  <2>2. ~Waited(e) /\ Called(e)
    BY <1>1, <2>1 DEF Waited, Returned, DisposalOf
  <2>3. dead[e]
    BY <1>1, <2>1, <2>2 DEF DisposalOf, Called, Returned
  <2>4. flush[e] = "none" /\ ~armed[e]
    BY <1>1, <2>1, <2>2, <2>3 DEF DisposalOf
  <2> QED  BY <1>1, <2>1, <2>4 DEF DisposalOf, Releasing, At, Returned
<1>2. IInv => DisposedIsDetached
  BY <1>1 DEF DisposedIsDetached, Returned
<1>3. ASSUME IInv, closed = "closed", NEW e \in Effect, disposal[e]["client"] \in {"no", "done"}
      PROVE  flush[e] = "none" /\ Releasing(e) = {}
  <2>1. disposal[e]["context"] \in {"no", "done"}
    BY <1>3 DEF IInv, Closing
  <2>2. Returned(e)
    BY <1>3, <2>1 DEF Returned, Disposer
  <2>3. e \in gone
    <3>1. e \in awaited => Called(e)
      BY <1>3 DEF IInv, Closing, Called, Disposer
    <3> QED  BY <1>3, <3>1 DEF IInv, Closing, Disposal, DisposalOf
  <2> QED  BY <1>1, <1>3, <2>2, <2>3
<1>4. IInv => ClosedIsQuiet
  BY <1>3 DEF ClosedIsQuiet, IInv, Publishing
<1>5. IInv => TeardownIsFinal
  BY <1>2, <1>4 DEF TeardownIsFinal
<1> QED  BY <1>5, InvariantAlways, PTL

(***************************************************************************)
(* What slots and effects hold is fresh.  What a slot or an effect has     *)
(* read, and the value a slot is left with, agree one read at a time with  *)
(* what the nodes show, for as long as the edges that would bring a change *)
(* are there; reading a graph without cycles upwards, what is shown is     *)
(* what recomputing would give.                                            *)
(***************************************************************************)
\* What r reads, and a sequence of anything.
Reading(r) == {Reads[r][i] : i \in DOMAIN Reads[r]}
IsSeq(a) == a \in Seq({a[i] : i \in DOMAIN a})

\* No slot reads itself through others.
Acyclic ==
  \A U \in SUBSET Slot : U # {} => \E s \in U : Reading(s) \cap U = {}

\* Nobody reads a slot that hard_clear is called on.
Unread == \A r \in Slot \cup Effect : Reading(r) \cap Clearable = {}

\* The nodes that read a disposed one, directly or through others.
DeadBound(S) == gone \cap Node \subseteq S /\ \A s \in Slot : Reading(s) \cap S # {} => s \in S
Dead == {n \in Node : \A S \in SUBSET Node : DeadBound(S) => n \in S}

\* What d shows its readers; a slot's link with a node it read, and an effect's.
Shows(d, v) == IF d \in Source THEN value[d] = v ELSE status[d] = "resolved" /\ val[d] = v
Linked(s, d, v) == d \notin gone /\ s \in dependents[d] /\ Shows(d, v)
Heard(e, d, v) == d \notin Dead => e \in dependents[d] /\ Shows(d, v)

\* Edges lead to readers; a body that is not running has read nothing; a slot
\* with a future is computing.
Sound ==
  /\ \A d \in Node : \A r \in dependents[d] : d \in Reading(r)
  /\ \A b \in Body : IsSeq(args[b])
  /\ \A t \in Task : (task[t] = None \/ \E i \in DOMAIN ready : ready[i] = t) =>
       args[t] = <<>> /\ wait[t] = None
  /\ \A e \in Effect : flush[e] # "body" => args[e] = <<>>
  /\ \A s \in Slot : future[s] # None => status[s] = "computing"

\* A slot with a computation that has not started is not resolved, and what it
\* waits for has not started either.
Queued ==
  \A i \in DOMAIN ready : LET s == task[ready[i]] IN
    s # None => /\ status[s] # "resolved"
                /\ future[s] # None => \E j \in DOMAIN ready : i <= j /\ ready[j] = future[s]

SlotRun(s) ==
  LET t == future[s] IN t # None =>
    /\ Len(args[t]) <= Len(Reads[s])
    /\ \A i \in 1 .. Len(args[t]) : Linked(s, Reads[s][i], args[t][i])
    /\ wait[t] # None =>
         /\ Len(args[t]) < Len(Reads[s])
         /\ wait[t].slot = Reads[s][Len(args[t]) + 1]
         /\ wait[t].slot \notin gone /\ s \in dependents[wait[t].slot]
SlotRest(s) ==
  status[s] = "resolved" =>
    /\ IsSeq(val[s]) /\ Len(val[s]) = Len(Reads[s])
    /\ \A i \in 1 .. Len(Reads[s]) : Linked(s, Reads[s][i], val[s][i])

EffectRun(e) ==
  flush[e] = "body" /\ ~pending[e] =>
    /\ Len(args[e]) <= Len(Reads[e])
    /\ \A i \in 1 .. Len(args[e]) : Heard(e, Reads[e][i], args[e][i])
    /\ wait[e] # None =>
         /\ Len(args[e]) < Len(Reads[e])
         /\ wait[e].slot = Reads[e][Len(args[e]) + 1]
         /\ wait[e].slot \notin Dead => e \in dependents[wait[e].slot]
EffectRest(e) ==
  /\ flush[e] = "none" => ~pending[e]
  /\ flush[e] = "new" => pending[e]
  /\ flush[e] # "release"
  /\ flush[e] = "none" /\ seen[e] # None =>
       /\ IsSeq(seen[e]) /\ Len(seen[e]) <= Len(Reads[e])
       /\ \A i \in 1 .. Len(seen[e]) : Heard(e, Reads[e][i], seen[e][i])

Fed ==
  closed = "open" =>
    /\ Queued
    /\ \A s \in Slot : SlotRun(s) /\ SlotRest(s)
    /\ \A e \in Effect \ gone : EffectRun(e) /\ EffectRest(e)

Shaped == DOMAIN args = Body /\ DOMAIN val = Slot /\ DOMAIN seen = Effect

FInv == Shaped /\ Sound /\ Fed

(***************************************************************************)
(* What recomputing means: the recursive definitions of the model unfold.  *)
(***************************************************************************)
LEMMA ReadsAre ==
  ASSUME NEW r \in Slot \cup Effect
  PROVE  /\ Reads[r] \in Seq(Node) /\ Len(Reads[r]) \in Nat /\ DOMAIN Reads[r] = 1..Len(Reads[r])
         /\ Reading(r) \subseteq Node
         /\ \A i \in 1..Len(Reads[r]) : Reads[r][i] \in Node /\ Reads[r][i] \in Reading(r)
<1>1. Reads[r] \in Seq(Node)
  BY NodesAssumption
<1>2. /\ Len(Reads[r]) \in Nat /\ DOMAIN Reads[r] = 1..Len(Reads[r])
      /\ \A i \in 1..Len(Reads[r]) : Reads[r][i] \in Node
  BY <1>1, LenProperties, ElementOfSeq
<1> QED  BY <1>1, <1>2 DEF Reading

\* The dead are the least set, and death only spreads.
LeastDead ==
  /\ Dead \subseteq Node /\ gone \cap Node \subseteq Dead
  /\ \A s \in Slot : Reading(s) \cap Dead # {} => s \in Dead
LEMMA DeadIs == LeastDead
<1>1. Dead \subseteq Node /\ gone \cap Node \subseteq Dead
  BY DEF Dead, DeadBound
<1>2. ASSUME NEW s \in Slot, Reading(s) \cap Dead # {} PROVE s \in Dead
  <2>1. PICK d \in Reading(s) : d \in Dead
    BY <1>2
  <2>2. ASSUME NEW S \in SUBSET Node, DeadBound(S) PROVE s \in S
    <3>1. d \in S
      BY <2>1, <2>2 DEF Dead
    <3> QED  BY <2>1, <2>2, <3>1 DEF DeadBound
  <2>3. s \in Node
    BY DEF Node
  <2> QED  BY <2>2, <2>3 DEF Dead
<1> QED  BY <1>1, <1>2 DEF LeastDead

LEMMA DeadClosed ==
  /\ Dead \subseteq Node /\ gone \cap Node \subseteq Dead
  /\ \A s \in Slot : Reading(s) \cap Dead # {} => s \in Dead
  BY DeadIs DEF LeastDead

LEMMA NextDead == LeastDead'
  BY DeadIs, PTL

LEMMA DeadGrows ==
  ASSUME gone \cap Node \subseteq gone'
  PROVE  Dead \subseteq Dead'
<1>1. ASSUME NEW S \in SUBSET Node, DeadBound(S)' PROVE DeadBound(S)
  BY <1>1 DEF DeadBound
<1>2. Dead' = {n \in Node : \A S \in SUBSET Node : DeadBound(S)' => n \in S}
  BY DEF Dead
<1> QED  BY <1>1, <1>2 DEF Dead

LEMMA AliveUnfolds ==
  \A n \in Node : Alive[n] <=> n \notin gone /\ (n \in Slot => \A i \in DOMAIN Reads[n] : Alive[Reads[n][i]])
<1> DEFINE Rule(f, n) == n \notin gone /\ (n \in Slot => \A i \in DOMAIN Reads[n] : f[Reads[n][i]])
           F == [n \in Node |-> n \notin Dead]
<1>1. ASSUME NEW n \in Node PROVE F[n] = Rule(F, n)
  <2>1. F[n] \in BOOLEAN /\ Rule(F, n) \in BOOLEAN
    OBVIOUS
  <2>2. CASE n \in Slot
    <3>1. \A i \in DOMAIN Reads[n] : Reads[n][i] \in Node /\ (F[Reads[n][i]] <=> Reads[n][i] \notin Dead)
      BY <2>2, ReadsAre
    <3>2. Reading(n) \cap Dead = {} <=> \A i \in DOMAIN Reads[n] : Reads[n][i] \notin Dead
      BY DEF Reading
    <3>3. ASSUME n \notin gone, Reading(n) \cap Dead = {} PROVE n \notin Dead
      <4> DEFINE S == Dead \ {n}
      <4>1. S \in SUBSET Node /\ gone \cap Node \subseteq S
        BY <3>3, DeadClosed
      <4>2. \A s \in Slot : Reading(s) \cap S # {} => s \in S
        BY <3>3, DeadClosed
      <4>3. DeadBound(S)
        BY <4>1, <4>2 DEF DeadBound
      <4> QED  BY <4>1, <4>3 DEF Dead
    <3>4. n \notin Dead => n \notin gone /\ Reading(n) \cap Dead = {}
      BY <2>2, DeadClosed
    <3>5. Rule(F, n) <=> n \notin gone /\ \A i \in DOMAIN Reads[n] : Reads[n][i] \notin Dead
      BY <2>2, <3>1
    <3>6. F[n] <=> n \notin Dead
      OBVIOUS
    <3> HIDE DEF F, Rule
    <3> QED  BY <2>1, <3>2, <3>3, <3>4, <3>5, <3>6
  <2>3. CASE n \notin Slot
    <3>1. n \notin gone => n \notin Dead
      <4> DEFINE S == Dead \ {n}
      <4>1. n \notin gone => S \in SUBSET Node /\ DeadBound(S)
        BY <2>3, DeadClosed DEF DeadBound
      <4> QED  BY <4>1 DEF Dead
    <3>2. n \in gone => n \in Dead
      BY DeadClosed
    <3>3. F[n] <=> n \notin Dead
      OBVIOUS
    <3>4. Rule(F, n) <=> n \notin gone
      BY <2>3
    <3> HIDE DEF F, Rule
    <3> QED  BY <2>1, <3>1, <3>2, <3>3, <3>4
  <2> QED  BY <2>2, <2>3
<1>2. F = [n \in Node |-> Rule(F, n)]
  <2>1. F = [n \in Node |-> F[n]]
    OBVIOUS
  <2> HIDE DEF F, Rule
  <2> QED  BY <1>1, <2>1
<1>3. Alive = CHOOSE f : f = [n \in Node |-> Rule(f, n)]
  BY DEF Alive
<1>4. Alive = [n \in Node |-> Rule(Alive, n)]
  <2> HIDE DEF F, Rule
  <2> QED  BY <1>2, <1>3
<1>5. ASSUME NEW n \in Node PROVE Alive[n] = Rule(Alive, n)
  <2> HIDE DEF F, Rule
  <2> QED  BY <1>4
<1> QED  BY <1>5

\* What a live node reads is alive too.
LEMMA LiveIsNotDead ==
  \A n \in Node : Alive[n] => n \notin Dead
<1> DEFINE S == {n \in Node : ~Alive[n]}
<1>1. gone \cap Node \subseteq S
  BY AliveUnfolds
<1>2. ASSUME NEW s \in Slot, Reading(s) \cap S # {} PROVE s \in S
  <2>1. PICK i \in DOMAIN Reads[s] : Reads[s][i] \in S
    BY <1>2 DEF Reading
  <2>2. s \in Node
    BY DEF Node
  <2> QED  BY <2>1, <2>2, AliveUnfolds
<1>3. DeadBound(S)
  BY <1>1, <1>2 DEF DeadBound
<1> QED  BY <1>3 DEF Dead

(***************************************************************************)
(* Fresh has no set of results to be found in, so it is built upwards: a   *)
(* run on a set that is closed under reading follows the definition there, *)
(* two runs agree, and the nodes that some run covers are all nodes.       *)
(***************************************************************************)
Given(f, n) == IF n \in Source THEN value[n] ELSE [i \in DOMAIN Reads[n] |-> f[Reads[n][i]]]
Closed(S) == S \subseteq Node /\ \A s \in S \cap Slot : Reading(s) \subseteq S
Runs(f, S) == Closed(S) /\ \A n \in S : f[n] = Given(f, n)

LEMMA GivenAgrees ==
  ASSUME NEW f, NEW g, NEW n \in Node, n \in Slot => \A d \in Reading(n) : f[d] = g[d]
  PROVE  Given(f, n) = Given(g, n)
<1>1. CASE n \in Source
  BY <1>1 DEF Given
<1>2. CASE n \notin Source
  <2>1. \A i \in DOMAIN Reads[n] : f[Reads[n][i]] = g[Reads[n][i]]
    BY <1>2 DEF Node, Reading
  <2> QED  BY <1>2, <2>1 DEF Given
<1> QED  BY <1>1, <1>2

LEMMA RunsAgree ==
  ASSUME Acyclic, NEW f, NEW g, NEW S, NEW T, Runs(f, S), Runs(g, T), NEW n \in S \cap T
  PROVE  f[n] = g[n]
<1> DEFINE U == {m \in S \cap T : f[m] # g[m]}
<1>1. ASSUME NEW m \in U PROVE m \in Slot /\ \E d \in Reading(m) : d \in U
  <2>1. m \in Node /\ f[m] = Given(f, m) /\ g[m] = Given(g, m)
    BY DEF Runs, Closed
  <2>2. ~(m \in Slot => \A d \in Reading(m) : f[d] = g[d])
    BY <2>1, GivenAgrees
  <2>3. m \in Slot => Reading(m) \subseteq S \cap T
    BY DEF Runs, Closed
  <2> QED  BY <2>2, <2>3
<1>2. U \in SUBSET Slot /\ \A s \in U : Reading(s) \cap U # {}
  <2> HIDE DEF U
  <2> QED  BY <1>1
<1>3. U = {}
  <2> HIDE DEF U
  <2> QED  BY <1>2 DEF Acyclic
<1> QED  BY <1>3

LEMMA FreshUnfolds ==
  ASSUME Acyclic
  PROVE  \A n \in Node : Fresh[n] = Given(Fresh, n)
<1> DEFINE Covers(f, n) == \E S \in SUBSET Node : n \in S /\ Runs(f, S)
           G == {n \in Node : \E f : Covers(f, n)}
           V == [n \in Node |-> (CHOOSE f : Covers(f, n))[n]]
<1>1. ASSUME NEW n \in Node, NEW f, Covers(f, n) PROVE V[n] = f[n]
  <2> DEFINE g == CHOOSE h : Covers(h, n)
  <2>1. Covers(g, n)
    <3> HIDE DEF Covers
    <3> QED  BY <1>1
  <2>2. V[n] = g[n]
    OBVIOUS
  <2> HIDE DEF g, V
  <2>3. PICK S \in SUBSET Node : n \in S /\ Runs(g, S)
    BY <2>1
  <2>4. PICK T \in SUBSET Node : n \in T /\ Runs(f, T)
    BY <1>1
  <2>5. g[n] = f[n]
    BY <2>3, <2>4, RunsAgree
  <2> QED  BY <2>2, <2>5
<1> HIDE DEF V
<1>2. ASSUME NEW n \in G PROVE /\ V[n] = Given(V, n)
                               /\ n \in Slot => Reading(n) \subseteq G
  <2>1. PICK f : Covers(f, n)
    OBVIOUS
  <2>2. PICK S \in SUBSET Node : n \in S /\ Runs(f, S)
    BY <2>1
  <2>3. \A m \in S : m \in G /\ V[m] = f[m]
    BY <1>1, <2>2
  <2>4. n \in Slot => Reading(n) \subseteq S
    BY <2>2 DEF Runs, Closed
  <2>5. Given(V, n) = Given(f, n)
    BY <2>2, <2>3, <2>4, GivenAgrees
  <2>6. V[n] = f[n] /\ f[n] = Given(f, n)
    BY <2>2, <2>3 DEF Runs
  <2> QED  BY <2>3, <2>4, <2>5, <2>6
<1>3. ASSUME NEW n \in Node, n \in Slot => Reading(n) \subseteq G PROVE n \in G
  <2> DEFINE h == [m \in Node |-> IF m \in G THEN V[m] ELSE Given(V, m)]
             T == G \cup {n}
  <2>1. T \in SUBSET Node /\ Closed(T)
    <3>1. G \subseteq Node
      OBVIOUS
    <3> HIDE DEF G
    <3> QED  BY <1>2, <1>3, <3>1 DEF Closed
  <2>2. \A m \in G : h[m] = V[m]
    OBVIOUS
  <2>3. ASSUME NEW m \in T PROVE h[m] = Given(h, m)
    <3>1. m \in Node /\ (m \in Slot => Reading(m) \subseteq G)
      <4>1. G \subseteq Node
        OBVIOUS
      <4> HIDE DEF G
      <4> QED  BY <1>2, <1>3, <2>3, <4>1
    <3>2. h[m] = Given(V, m)
      <4>1. h[m] = IF m \in G THEN V[m] ELSE Given(V, m)
        BY <3>1
      <4> HIDE DEF h, G
      <4> QED  BY <1>2, <4>1
    <3>3. Given(V, m) = Given(h, m)
      <4> HIDE DEF h, G
      <4> QED  BY <2>2, <3>1, GivenAgrees
    <3> QED  BY <3>2, <3>3
  <2>4. Runs(h, T)
    <3> HIDE DEF h, T
    <3> QED  BY <2>1, <2>3 DEF Runs
  <2>5. Covers(h, n)
    <3> HIDE DEF h
    <3> QED  BY <2>1, <2>4
  <2> HIDE DEF h
  <2> QED  BY <2>5
<1>4. Node \ G = {}
  <2> DEFINE U == Node \ G
  <2>1. \A m \in U : m \in Slot /\ ~(Reading(m) \subseteq G)
    <3> HIDE DEF G
    <3> QED  BY <1>3
  <2>2. \A m \in U : Reading(m) \subseteq Node
    BY <2>1, ReadsAre
  <2>3. U \in SUBSET Slot /\ \A m \in U : Reading(m) \cap U # {}
    <3> HIDE DEF G
    <3> QED  BY <2>1, <2>2
  <2> HIDE DEF U
  <2>4. U = {}
    BY <2>3 DEF Acyclic
  <2> QED  BY <2>4 DEF U
<1>5. V = [n \in Node |-> Given(V, n)]
  <2>1. V = [n \in Node |-> V[n]]
    BY DEF V
  <2>2. \A n \in Node : V[n] = Given(V, n)
    <3> HIDE DEF G
    <3> QED  BY <1>2, <1>4
  <2> QED  BY <2>1, <2>2
<1>6. Fresh = CHOOSE f : f = [n \in Node |-> Given(f, n)]
  BY DEF Fresh, Given
<1>7. Fresh = [n \in Node |-> Given(Fresh, n)]
  BY <1>5, <1>6
<1> QED  BY <1>7

(***************************************************************************)
(* The invariant is enough.                                                *)
(***************************************************************************)
LEMMA SeqAppend ==
  ASSUME NEW a, IsSeq(a), NEW v
  PROVE  /\ IsSeq(Append(a, v)) /\ Len(a) \in Nat /\ Len(Append(a, v)) = Len(a) + 1
         /\ \A i \in 1..Len(a) : Append(a, v)[i] = a[i]
         /\ Append(a, v)[Len(a) + 1] = v
<1> DEFINE R == {a[i] : i \in DOMAIN a} \cup {v}
           b == Append(a, v)
<1>1. a \in Seq(R)
  <2>1. /\ a = [i \in 1..Len(a) |-> a[i]] /\ Len(a) \in Nat /\ DOMAIN a = 1..Len(a)
    BY LenProperties DEF IsSeq
  <2> QED  BY <2>1
<1>2. /\ b \in Seq(R) /\ Len(b) = Len(a) + 1 /\ Len(a) \in Nat
      /\ \A i \in 1..Len(a) : b[i] = a[i]
      /\ b[Len(a) + 1] = v
  <2>1. v \in R
    OBVIOUS
  <2> HIDE DEF R
  <2> QED  BY <1>1, <2>1, AppendProperties, LenProperties
<1>3. IsSeq(b)
  <2>1. /\ b = [i \in 1..Len(b) |-> b[i]] /\ Len(b) \in Nat /\ DOMAIN b = 1..Len(b)
    <3> HIDE DEF R, b
    <3> QED  BY <1>2, LenProperties
  <2> HIDE DEF b
  <2>2. \A i \in 1..Len(b) : b[i] \in {b[j] : j \in DOMAIN b}
    BY <2>1
  <2> QED  BY <2>1, <2>2 DEF IsSeq
<1> QED  BY <1>2, <1>3

LEMMA SeqEmpty == IsSeq(<<>>) /\ Len(<<>>) = 0
  BY EmptySeq DEF IsSeq

LEMMA ShownIsFresh ==
  ASSUME Acyclic, FInv, closed = "open"
  PROVE  \A s \in Slot \ gone : status[s] = "resolved" => Alive[s] /\ val[s] = Fresh[s]
<1> DEFINE U == {s \in Slot \ gone : status[s] = "resolved" /\ ~(Alive[s] /\ val[s] = Fresh[s])}
<1>1. SUFFICES ASSUME U # {} PROVE FALSE
  OBVIOUS
<1>2. PICK s \in U : Reading(s) \cap U = {}
  <2>1. U \in SUBSET Slot
    OBVIOUS
  <2> HIDE DEF U
  <2> QED  BY <1>1, <2>1 DEF Acyclic
<1>3. s \in Slot /\ s \in Node /\ s \notin Source /\ s \notin gone
  BY NodesAssumption DEF Node
<1>4. /\ IsSeq(val[s]) /\ Len(val[s]) = Len(Reads[s])
      /\ \A i \in 1 .. Len(Reads[s]) : Linked(s, Reads[s][i], val[s][i])
  BY DEF FInv, Fed, SlotRest
<1>5. ASSUME NEW i \in 1 .. Len(Reads[s])
      PROVE  Alive[Reads[s][i]] /\ val[s][i] = Fresh[Reads[s][i]]
  <2> DEFINE d == Reads[s][i]
  <2>1. d \in Node /\ d \in Reading(s)
    BY <1>3, ReadsAre
  <2> HIDE DEF d
  <2>2. d \notin gone /\ Shows(d, val[s][i])
    BY <1>4 DEF Linked, d
  <2>3. CASE d \in Source
    <3>1. Fresh[d] = value[d]
      BY <2>1, <2>3, FreshUnfolds DEF Given
    <3>2. d \notin Slot
      BY <2>3, NodesAssumption
    <3> QED  BY <2>1, <2>2, <2>3, <3>1, <3>2, AliveUnfolds DEF Shows, d
  <2>4. CASE d \notin Source
    <3>1. d \in Slot /\ status[d] = "resolved" /\ val[d] = val[s][i]
      BY <2>1, <2>2, <2>4 DEF Node, Shows
    <3> QED  BY <1>2, <2>1, <2>2, <3>1 DEF d
  <2> QED  BY <2>3, <2>4
<1>6. Len(Reads[s]) \in Nat /\ DOMAIN Reads[s] = 1..Len(Reads[s])
  BY <1>3, ReadsAre
<1>7. Alive[s]
  BY <1>3, <1>5, <1>6, AliveUnfolds
<1>8. Fresh[s] = [i \in DOMAIN Reads[s] |-> Fresh[Reads[s][i]]]
  BY <1>3, FreshUnfolds DEF Given
<1>9. val[s] = [i \in 1 .. Len(Reads[s]) |-> val[s][i]]
  BY <1>4, LenProperties DEF IsSeq
<1> QED  BY <1>5, <1>6, <1>7, <1>8, <1>9

LEMMA FedIsFresh == Acyclic /\ FInv => ValuesFresh
<1> SUFFICES ASSUME Acyclic, FInv PROVE ValuesFresh
  OBVIOUS
<1>1. ResolvedIsFresh
  BY ShownIsFresh DEF ResolvedIsFresh
<1>2. ASSUME closed = "open", NEW e \in Effect \ gone, flush[e] = "none", seen[e] # None,
             NEW i \in DOMAIN seen[e], Alive[Reads[e][i]]
      PROVE  e \in dependents[Reads[e][i]] /\ seen[e][i] = Fresh[Reads[e][i]]
  <2> DEFINE d == Reads[e][i]
  <2>1. /\ IsSeq(seen[e]) /\ Len(seen[e]) <= Len(Reads[e])
        /\ \A j \in 1 .. Len(seen[e]) : Heard(e, Reads[e][j], seen[e][j])
    BY <1>2 DEF FInv, Fed, EffectRest
  <2>2. Len(seen[e]) \in Nat /\ DOMAIN seen[e] = 1..Len(seen[e])
    BY <2>1, LenProperties DEF IsSeq
  <2>3. i \in 1..Len(Reads[e]) /\ Len(Reads[e]) \in Nat /\ d \in Node
    BY <1>2, <2>1, <2>2, ReadsAre
  <2>4. Heard(e, d, seen[e][i])
    BY <1>2, <2>1, <2>2
  <2> HIDE DEF d
  <2>5. Alive[d] /\ d \notin Dead
    BY <1>2, <2>3, LiveIsNotDead DEF d
  <2>6. e \in dependents[d] /\ Shows(d, seen[e][i])
    BY <2>4, <2>5 DEF Heard
  <2>7. CASE d \in Source
    <3>1. Fresh[d] = value[d]
      BY <2>3, <2>7, FreshUnfolds DEF Given
    <3> QED  BY <2>6, <2>7, <3>1 DEF Shows, d
  <2>8. CASE d \notin Source
    <3>1. d \in Slot /\ status[d] = "resolved" /\ val[d] = seen[e][i] /\ d \notin gone
      BY <2>3, <2>5, <2>6, <2>8, AliveUnfolds DEF Node, Shows
    <3> QED  BY <1>2, <2>6, <3>1, ShownIsFresh DEF d
  <2> QED  BY <2>7, <2>8
<1>3. EffectIsFresh
  BY <1>2 DEF EffectIsFresh
<1> QED  BY <1>1, <1>3 DEF ValuesFresh

(***************************************************************************)
(* Steps that leave the nodes shown, a slot or an effect alone.            *)
(***************************************************************************)
SameWait(b) == wait'[b] = None \/ (wait[b] # None /\ wait'[b].slot = wait[b].slot)
SameBody(r, b) ==
  args'[b] = args[b] /\ SameWait(b) /\ \A d \in Node : r \in dependents[d] => r \in dependents'[d]

Steady ==
  /\ \A x \in Source : value'[x] = value[x]
  /\ \A s \in Slot : status[s] = "resolved" => status'[s] = "resolved" /\ val'[s] = val[s]
  /\ gone' \cap Node = gone \cap Node /\ gone \subseteq gone'
KeepsSlot(s) ==
  /\ future'[s] # None => future'[s] = future[s] /\ SameBody(s, future[s])
  /\ status'[s] = "resolved" =>
       /\ status[s] = "resolved" /\ val'[s] = val[s]
       /\ \A d \in Node : s \in dependents[d] => s \in dependents'[d]
KeepsEffect(e) ==
  /\ SameBody(e, e) /\ seen'[e] = seen[e]
  /\ \/ flush'[e] = flush[e] /\ pending'[e] = pending[e]
     \/ pending'[e] /\ flush'[e] \notin {"none", "release"}

LEMMA SteadyShows ==
  ASSUME Steady, NEW d \in Node
  PROVE  /\ \A v : Shows(d, v) => Shows(d, v)'
         /\ d \in gone' <=> d \in gone
         /\ Dead \subseteq Dead'
<1>1. d \notin Source => d \in Slot
  BY DEF Node
<1>2. Dead \subseteq Dead'
  BY DeadGrows DEF Steady
<1> QED  BY <1>1, <1>2 DEF Steady, Shows

\* The nodes that s is linked with show it what they did; and those e has heard.
LinksKept(s) ==
  \A d \in Node : d \notin gone /\ s \in dependents[d] =>
    d \notin gone' /\ s \in dependents'[d] /\ \A v : Shows(d, v) => Shows(d, v)'
StillHears(e) ==
  \A d \in Node : d \notin Dead' =>
    d \notin Dead /\ (e \in dependents[d] => e \in dependents'[d] /\ \A v : Shows(d, v) => Shows(d, v)')

LEMMA SlotKept ==
  ASSUME TypeOK, Sound, NEW s \in Slot, KeepsSlot(s), SlotRun(s), SlotRest(s),
         future'[s] # None \/ status'[s] = "resolved" => LinksKept(s)
  PROVE  SlotRun(s)' /\ SlotRest(s)'
<1>1. /\ Len(Reads[s]) \in Nat
      /\ \A i \in 1..Len(Reads[s]) : Reads[s][i] \in Node
  BY ReadsAre
<1>2. ASSUME LinksKept(s), NEW d \in Node, NEW v, Linked(s, d, v)
      PROVE  d \notin gone' /\ s \in dependents'[d] /\ Shows(d, v)'
  BY <1>2 DEF Linked, LinksKept
<1>3. ASSUME future'[s] # None PROVE SlotRun(s)'
  <2>0. PICK t : t = future[s]
    OBVIOUS
  <2>1. /\ future'[s] = t /\ t \in Task /\ t \in Body
        /\ args'[t] = args[t] /\ SameWait(t)
    BY <1>3, <2>0 DEF KeepsSlot, SameBody, TypeOK, Body
  <2>2. IsSeq(args[t]) /\ Len(args[t]) \in Nat
    BY <2>1, SeqAppend DEF Sound
  <2>3. /\ Len(args[t]) <= Len(Reads[s])
        /\ \A i \in 1 .. Len(args[t]) : Linked(s, Reads[s][i], args[t][i])
        /\ wait[t] # None =>
             /\ Len(args[t]) < Len(Reads[s])
             /\ wait[t].slot = Reads[s][Len(args[t]) + 1]
             /\ wait[t].slot \notin gone /\ s \in dependents[wait[t].slot]
    BY <1>3, <2>0, <2>1 DEF SlotRun
  <2>4. LinksKept(s)
    BY <1>3
  <2>5. \A i \in 1 .. Len(args[t]) : Linked(s, Reads[s][i], args[t][i])'
    <3>1. ASSUME NEW i \in 1 .. Len(args[t]) PROVE Linked(s, Reads[s][i], args[t][i])'
      <4>1. Reads[s][i] \in Node /\ Linked(s, Reads[s][i], args[t][i])
        BY <1>1, <2>2, <2>3
      <4>2. Reads[s][i] \notin gone' /\ s \in dependents'[Reads[s][i]] /\ Shows(Reads[s][i], args[t][i])'
        BY <1>2, <2>1, <2>4, <4>1 DEF Shows
      <4> QED  BY <4>2 DEF Linked
    <3> QED  BY <3>1
  <2>6. ASSUME wait'[t] # None
        PROVE  /\ Len(args[t]) < Len(Reads[s])
               /\ wait'[t].slot = Reads[s][Len(args[t]) + 1]
               /\ wait'[t].slot \notin gone' /\ s \in dependents'[wait'[t].slot]
    <3>1. wait[t] # None /\ wait'[t].slot = wait[t].slot
      BY <2>1, <2>6 DEF SameWait
    <3>2. wait[t].slot \in Node
      BY <1>1, <2>2, <2>3, <3>1
    <3> QED  BY <2>3, <2>4, <3>1, <3>2 DEF LinksKept
  <2> QED  BY <2>1, <2>3, <2>5, <2>6 DEF SlotRun
<1>4. SlotRun(s)'
  BY <1>3 DEF SlotRun
<1>5. ASSUME status'[s] = "resolved" PROVE SlotRest(s)'
  <2>1. status[s] = "resolved" /\ val'[s] = val[s]
    BY <1>5 DEF KeepsSlot
  <2>2. /\ IsSeq(val[s]) /\ Len(val[s]) = Len(Reads[s])
        /\ \A i \in 1 .. Len(Reads[s]) : Linked(s, Reads[s][i], val[s][i])
    BY <2>1 DEF SlotRest
  <2>3. ASSUME NEW i \in 1 .. Len(Reads[s]) PROVE Linked(s, Reads[s][i], val[s][i])'
    <3>1. Reads[s][i] \in Node /\ Linked(s, Reads[s][i], val[s][i])
      BY <1>1, <2>2
    <3>2. Reads[s][i] \notin gone' /\ s \in dependents'[Reads[s][i]] /\ Shows(Reads[s][i], val[s][i])'
      BY <1>2, <1>5, <2>1, <3>1 DEF Shows
    <3> QED  BY <3>2 DEF Linked
  <2> QED  BY <2>1, <2>2, <2>3 DEF SlotRest, IsSeq
<1>6. SlotRest(s)'
  BY <1>5 DEF SlotRest
<1> QED  BY <1>4, <1>6

LEMMA EffectKept ==
  ASSUME TypeOK, Sound, NEW e \in Effect, EffectRun(e), EffectRest(e), StillHears(e),
         args'[e] = args[e], SameWait(e), seen'[e] = seen[e], flush'[e] = flush[e], pending'[e] = pending[e]
  PROVE  EffectRun(e)' /\ EffectRest(e)'
<1>1. /\ Len(Reads[e]) \in Nat
      /\ \A i \in 1..Len(Reads[e]) : Reads[e][i] \in Node
  BY ReadsAre
<1>2. IsSeq(args[e]) /\ Len(args[e]) \in Nat
  BY SeqAppend DEF Sound, Body
<1>3. ASSUME NEW d \in Node, NEW v, Heard(e, d, v)
      PROVE  d \notin Dead' => e \in dependents'[d] /\ Shows(d, v)'
  BY <1>3 DEF Heard, StillHears
<1>4. ASSUME flush'[e] = "body", ~pending'[e] PROVE EffectRun(e)'
  <2>1. /\ Len(args[e]) <= Len(Reads[e])
        /\ \A i \in 1 .. Len(args[e]) : Heard(e, Reads[e][i], args[e][i])
        /\ wait[e] # None =>
             /\ Len(args[e]) < Len(Reads[e])
             /\ wait[e].slot = Reads[e][Len(args[e]) + 1]
             /\ wait[e].slot \notin Dead => e \in dependents[wait[e].slot]
    BY <1>4 DEF EffectRun
  <2>2. ASSUME NEW i \in 1 .. Len(args[e]) PROVE Heard(e, Reads[e][i], args[e][i])'
    <3>1. Reads[e][i] \in Node /\ Heard(e, Reads[e][i], args[e][i])
      BY <1>1, <1>2, <2>1
    <3>2. Reads[e][i] \notin Dead' => e \in dependents'[Reads[e][i]] /\ Shows(Reads[e][i], args[e][i])'
      BY <1>3, <3>1 DEF Shows
    <3> QED  BY <3>2 DEF Heard
  <2>3. ASSUME wait'[e] # None
        PROVE  /\ Len(args[e]) < Len(Reads[e])
               /\ wait'[e].slot = Reads[e][Len(args[e]) + 1]
               /\ wait'[e].slot \notin Dead' => e \in dependents'[wait'[e].slot]
    <3>1. wait[e] # None /\ wait'[e].slot = wait[e].slot
      BY <2>3 DEF SameWait
    <3>2. wait[e].slot \in Node
      BY <1>1, <1>2, <2>1, <3>1
    <3> QED  BY <2>1, <3>1, <3>2 DEF StillHears
  <2> QED  BY <2>1, <2>2, <2>3 DEF EffectRun
<1>5. EffectRun(e)'
  BY <1>4 DEF EffectRun
<1>6. ASSUME flush'[e] = "none", seen'[e] # None
      PROVE  /\ IsSeq(seen'[e]) /\ Len(seen'[e]) <= Len(Reads[e])
             /\ \A i \in 1 .. Len(seen'[e]) : Heard(e, Reads[e][i], seen[e][i])'
  <2>1. /\ IsSeq(seen[e]) /\ Len(seen[e]) <= Len(Reads[e])
        /\ \A i \in 1 .. Len(seen[e]) : Heard(e, Reads[e][i], seen[e][i])
    BY <1>6 DEF EffectRest
  <2>2. Len(seen[e]) \in Nat
    BY <2>1, SeqAppend
  <2>3. ASSUME NEW i \in 1 .. Len(seen[e]) PROVE Heard(e, Reads[e][i], seen[e][i])'
    <3>1. Reads[e][i] \in Node /\ Heard(e, Reads[e][i], seen[e][i])
      BY <1>1, <2>1, <2>2
    <3>2. Reads[e][i] \notin Dead' => e \in dependents'[Reads[e][i]] /\ Shows(Reads[e][i], seen[e][i])'
      BY <1>3, <3>1 DEF Shows
    <3> QED  BY <3>2 DEF Heard
  <2> QED  BY <2>1, <2>3
<1>7. (flush'[e] = "none" => ~pending'[e]) /\ (flush'[e] = "new" => pending'[e]) /\ flush'[e] # "release"
  BY DEF EffectRest
<1>8. EffectRest(e)'
  BY <1>6, <1>7 DEF EffectRest, IsSeq
<1> QED  BY <1>5, <1>8

LEMMA EffectQueued ==
  ASSUME NEW e \in Effect, pending'[e], flush'[e] \notin {"none", "release"}
  PROVE  EffectRun(e)' /\ EffectRest(e)'
  BY DEF EffectRun, EffectRest

\* A slot whose computation has read nothing, an effect that is to run again.
LEMMA SlotStarts ==
  ASSUME NEW s \in Slot, status'[s] # "resolved",
         future'[s] # None => args'[future'[s]] = <<>> /\ wait'[future'[s]] = None
  PROVE  SlotRun(s)' /\ SlotRest(s)'
<1>1. Len(<<>>) = 0 /\ Len(Reads[s]) \in Nat
  BY ReadsAre, SeqEmpty
<1>2. SlotRun(s)'
  BY <1>1 DEF SlotRun
<1> QED  BY <1>2 DEF SlotRest

LEMMA EffectStarts ==
  ASSUME NEW e \in Effect, flush'[e] \in {"cleanup", "body"},
         flush'[e] = "body" => args'[e] = <<>> /\ wait'[e] = None
  PROVE  EffectRun(e)' /\ EffectRest(e)'
<1>1. Len(<<>>) = 0 /\ Len(Reads[e]) \in Nat
  BY ReadsAre, SeqEmpty
<1>2. EffectRun(e)'
  BY <1>1 DEF EffectRun
<1> QED  BY <1>2 DEF EffectRest

\* A step that starts no computation.
QuietQueue ==
  /\ ready' = ready
  /\ \A i \in DOMAIN ready : task'[ready[i]] \in {None, task[ready[i]]}
  /\ \A s \in Slot : /\ future'[s] \in {None, future[s]}
                     /\ status'[s] = "resolved" =>
                          \/ status[s] = "resolved"
                          \/ future[s] # None /\ \A i \in DOMAIN ready : ready[i] # future[s]

LEMMA QueueKept ==
  ASSUME TypeOK, Queued, QuietQueue
  PROVE  Queued'
<1>1. ASSUME NEW i \in DOMAIN ready, task'[ready[i]] # None
      PROVE  LET s == task'[ready[i]] IN
             /\ status'[s] # "resolved"
             /\ future'[s] # None => \E j \in DOMAIN ready : i <= j /\ ready[j] = future'[s]
  <2> DEFINE s == task[ready[i]]
  <2>1. ready[i] \in Task
    BY ElementOfSeq, LenProperties DEF TypeOK
  <2>2. task'[ready[i]] = s /\ s \in Slot
    BY <1>1, <2>1 DEF QuietQueue, TypeOK
  <2>3. /\ status[s] # "resolved"
        /\ future[s] # None => \E j \in DOMAIN ready : i <= j /\ ready[j] = future[s]
    BY <1>1, <2>2 DEF Queued
  <2> HIDE DEF s
  <2> QED  BY <2>2, <2>3 DEF QuietQueue
<1> QED  BY <1>1 DEF Queued, QuietQueue

LEMMA FedKept ==
  ASSUME TypeOK, FInv, closed' = "open" => closed = "open", Steady, Queued',
         \A s \in Slot : KeepsSlot(s) \/ (SlotRun(s)' /\ SlotRest(s)'),
         \A e \in Effect \ gone' : KeepsEffect(e) \/ (EffectRun(e)' /\ EffectRest(e)')
  PROVE  Fed'
<1>1. SUFFICES ASSUME closed' = "open" PROVE Fed'
  BY DEF Fed
<1>2. ASSUME NEW s \in Slot, KeepsSlot(s) PROVE SlotRun(s)' /\ SlotRest(s)'
  <2>1. future'[s] # None \/ status'[s] = "resolved" => LinksKept(s)
    BY <1>2, SteadyShows DEF KeepsSlot, SameBody, LinksKept
  <2>2. SlotRun(s) /\ SlotRest(s) /\ Sound
    BY <1>1 DEF FInv, Fed
  <2> QED  BY <1>2, <2>1, <2>2, SlotKept
<1>3. ASSUME NEW e \in Effect \ gone', KeepsEffect(e) PROVE EffectRun(e)' /\ EffectRest(e)'
  <2>1. StillHears(e)
    BY <1>3, SteadyShows DEF KeepsEffect, SameBody, StillHears
  <2>2. EffectRun(e) /\ EffectRest(e) /\ Sound
    BY <1>1 DEF FInv, Fed, Steady
  <2>3. args'[e] = args[e] /\ SameWait(e) /\ seen'[e] = seen[e]
    BY <1>3 DEF KeepsEffect, SameBody
  <2> QED  BY <1>3, <2>1, <2>2, <2>3, EffectKept, EffectQueued DEF KeepsEffect
<1> QED  BY <1>2, <1>3 DEF Fed

LEMMA SoundKept ==
  ASSUME Sound, NEW B \in SUBSET Body,
         \A i \in DOMAIN ready' : \E j \in DOMAIN ready : ready[j] = ready'[i],
         \A d \in Node : \A r \in dependents'[d] : r \in dependents[d] \/ d \in Reading(r),
         \A b \in Body \ B :
           /\ args'[b] = args[b] /\ (wait[b] = None => wait'[b] = None)
           /\ b \in Task => task'[b] = task[b]
           /\ b \in Effect => flush'[b] = "body" \/ flush[b] # "body",
         \A b \in B :
           /\ IsSeq(args'[b])
           /\ b \in Task /\ (task'[b] = None \/ \E i \in DOMAIN ready : ready[i] = b) =>
                args'[b] = <<>> /\ wait'[b] = None
           /\ b \in Effect /\ flush'[b] # "body" => args'[b] = <<>>,
         \A s \in Slot : future'[s] # None => future'[s] = future[s] /\ status'[s] = status[s]
  PROVE  Sound'
<1>1. \A d \in Node : \A r \in dependents'[d] : d \in Reading(r)
  BY DEF Sound
<1>2. ASSUME NEW b \in Body PROVE IsSeq(args[b])'
  <2>1. IsSeq(args'[b])
    BY DEF Sound
  <2> QED  BY <2>1 DEF IsSeq
<1>3. ASSUME NEW t \in Task, task'[t] = None \/ \E i \in DOMAIN ready : ready[i] = t
      PROVE  args'[t] = <<>> /\ wait'[t] = None
  <2>1. t \in Body
    BY DEF Body
  <2>2. CASE t \in B
    BY <1>3, <2>2
  <2>3. CASE t \notin B
    <3>1. args'[t] = args[t] /\ (wait[t] = None => wait'[t] = None) /\ task'[t] = task[t]
      BY <2>1, <2>3
    <3> QED  BY <1>3, <3>1 DEF Sound
  <2> QED  BY <2>2, <2>3
<1>4. ASSUME NEW e \in Effect, flush'[e] # "body" PROVE args'[e] = <<>>
  <2>1. e \in Body
    BY DEF Body
  <2>2. CASE e \in B
    BY <1>4, <2>2
  <2>3. CASE e \notin B
    <3>1. args'[e] = args[e] /\ flush[e] # "body"
      BY <1>4, <2>1, <2>3
    <3> QED  BY <3>1 DEF Sound
  <2> QED  BY <2>2, <2>3
<1>5. \A s \in Slot : future'[s] # None => status'[s] = "computing"
  BY DEF Sound
<1>6. ASSUME NEW t \in Task, task'[t] = None \/ \E i \in DOMAIN ready' : ready'[i] = t
      PROVE  args'[t] = <<>> /\ wait'[t] = None
  BY <1>3, <1>6
<1> QED  BY <1>1, <1>2, <1>4, <1>5, <1>6 DEF Sound, Reading

\* A body goes on: what it read stands, and it reads or awaits one node more.
GoesOn(r, b, d, v) ==
  /\ Len(args[b]) < Len(Reads[r]) /\ d = Reads[r][Len(args[b]) + 1]
  /\ \A n \in Node : r \in dependents[n] => r \in dependents'[n]
  /\ \/ args'[b] = Append(args[b], v) /\ wait'[b] = None
     \/ args'[b] = args[b] /\ (wait'[b] # None => wait'[b].slot = d)

LEMMA SlotGoesOn ==
  ASSUME TypeOK, Sound, Steady, NEW s \in Slot, NEW t \in Task, future[s] = t, future'[s] = t,
         status'[s] # "resolved", SlotRun(s), NEW d, NEW v, GoesOn(s, t, d, v),
         d \notin gone' /\ s \in dependents'[d], args'[t] # args[t] => Shows(d, v)'
  PROVE  SlotRun(s)' /\ SlotRest(s)'
<1>1. /\ Len(Reads[s]) \in Nat
      /\ \A i \in 1..Len(Reads[s]) : Reads[s][i] \in Node
  BY ReadsAre
<1>2. t \in Body /\ t # None
  BY NodesAssumption DEF Body
<1>3. IsSeq(args[t])
  BY <1>2 DEF Sound
<1>4. Len(args[t]) \in Nat
  BY <1>3, SeqAppend
<1>5. ASSUME NEW i \in 1 .. Len(args[t]) PROVE Linked(s, Reads[s][i], args[t][i]) /\ Reads[s][i] \in Node
  BY <1>1, <1>2, <1>4 DEF SlotRun
<1>6. ASSUME NEW n \in Node, NEW u, Linked(s, n, u) PROVE Linked(s, n, u)'
  BY <1>6, SteadyShows DEF Linked, GoesOn
<1>7. CASE args'[t] = Append(args[t], v) /\ wait'[t] = None
  <2>1. /\ Len(args'[t]) = Len(args[t]) + 1
        /\ \A i \in 1..Len(args[t]) : args'[t][i] = args[t][i]
        /\ args'[t][Len(args[t]) + 1] = v
    BY <1>3, <1>7, SeqAppend
  <2>2. ASSUME NEW i \in 1 .. Len(args'[t]) PROVE Linked(s, Reads[s][i], args[t][i])'
    <3>1. CASE i \in 1 .. Len(args[t])
      <4>1. Linked(s, Reads[s][i], args[t][i]) /\ args'[t][i] = args[t][i] /\ Reads[s][i] \in Node
        BY <1>5, <2>1, <3>1
      <4>2. /\ Reads[s][i] \notin gone' /\ s \in dependents'[Reads[s][i]]
            /\ Shows(Reads[s][i], args[t][i])
        BY <1>6, <4>1 DEF Linked
      <4> QED  BY <4>1, <4>2, SteadyShows DEF Linked
    <3>2. CASE i \notin 1 .. Len(args[t])
      <4>1. i = Len(args[t]) + 1
        BY <1>4, <2>1, <3>2
      <4>2. args'[t] # args[t]
        BY <1>4, <2>1
      <4> QED  BY <2>1, <4>1, <4>2 DEF GoesOn, Linked
    <3> QED  BY <3>1, <3>2
  <2>3. Len(args'[t]) <= Len(Reads[s])
    BY <1>1, <1>4, <2>1 DEF GoesOn
  <2> QED  BY <1>7, <2>2, <2>3 DEF SlotRun, SlotRest
<1>8. CASE args'[t] = args[t] /\ (wait'[t] # None => wait'[t].slot = d)
  <2>1. ASSUME NEW i \in 1 .. Len(args'[t]) PROVE Linked(s, Reads[s][i], args[t][i])'
    <3>1. Linked(s, Reads[s][i], args[t][i]) /\ Reads[s][i] \in Node
      BY <1>5, <1>8
    <3>2. /\ Reads[s][i] \notin gone' /\ s \in dependents'[Reads[s][i]]
          /\ Shows(Reads[s][i], args[t][i])
      BY <1>6, <3>1 DEF Linked
    <3> QED  BY <1>8, <3>1, <3>2, SteadyShows DEF Linked
  <2>2. Len(args'[t]) <= Len(Reads[s])
    BY <1>1, <1>4, <1>8 DEF GoesOn
  <2>3. /\ Len(args'[t]) < Len(Reads[s]) /\ d = Reads[s][Len(args'[t]) + 1]
        /\ wait'[t] # None => wait'[t].slot = d
    <3>1. Len(args[t]) < Len(Reads[s]) /\ d = Reads[s][Len(args[t]) + 1]
      BY DEF GoesOn
    <3>2. Len(args'[t]) = Len(args[t])
      BY <1>8
    <3> QED  BY <1>8, <3>1, <3>2
  <2>4. CASE wait'[t] = None
    BY <2>1, <2>2, <2>4 DEF SlotRun, SlotRest
  <2>5. CASE wait'[t] # None
    BY <2>1, <2>2, <2>3, <2>5 DEF SlotRun, SlotRest
  <2> QED  BY <2>4, <2>5
<1> QED  BY <1>7, <1>8 DEF GoesOn

LEMMA EffectGoesOn ==
  ASSUME TypeOK, Sound, Steady, NEW e \in Effect, flush[e] = "body", flush'[e] = "body",
         pending'[e] = pending[e], EffectRun(e), NEW d, NEW v,
         ~pending[e] => GoesOn(e, e, d, v) /\ (d \notin Dead' => e \in dependents'[d]),
         args'[e] # args[e] /\ d \notin Dead' => Shows(d, v)'
  PROVE  EffectRun(e)' /\ EffectRest(e)'
<1>0. EffectRest(e)'
  BY DEF EffectRest
<1>1. SUFFICES ASSUME ~pending[e] PROVE EffectRun(e)'
  BY <1>0 DEF EffectRun
<1>2. /\ Len(Reads[e]) \in Nat
      /\ \A i \in 1..Len(Reads[e]) : Reads[e][i] \in Node
  BY ReadsAre
<1>3. IsSeq(args[e])
  BY DEF Sound, Body
<1>4. Len(args[e]) \in Nat
  BY <1>3, SeqAppend
<1>5. ASSUME NEW i \in 1 .. Len(args[e]) PROVE Heard(e, Reads[e][i], args[e][i]) /\ Reads[e][i] \in Node
  BY <1>1, <1>2, <1>4 DEF EffectRun
<1>6. ASSUME NEW n \in Node, NEW u, Heard(e, n, u)
      PROVE  n \notin Dead' => e \in dependents'[n] /\ Shows(n, u)'
  BY <1>1, <1>6, SteadyShows DEF Heard, GoesOn
<1>7. CASE args'[e] = Append(args[e], v) /\ wait'[e] = None
  <2>1. /\ Len(args'[e]) = Len(args[e]) + 1
        /\ \A i \in 1..Len(args[e]) : args'[e][i] = args[e][i]
        /\ args'[e][Len(args[e]) + 1] = v
    BY <1>3, <1>7, SeqAppend
  <2>2. ASSUME NEW i \in 1 .. Len(args'[e]) PROVE Heard(e, Reads[e][i], args[e][i])'
    <3>1. CASE i \in 1 .. Len(args[e])
      <4>1. Heard(e, Reads[e][i], args[e][i]) /\ args'[e][i] = args[e][i] /\ Reads[e][i] \in Node
        BY <1>5, <2>1, <3>1
      <4> QED  BY <1>6, <4>1 DEF Heard
    <3>2. CASE i \notin 1 .. Len(args[e])
      <4>1. i = Len(args[e]) + 1
        BY <1>4, <2>1, <3>2
      <4>2. args'[e] # args[e]
        BY <1>4, <2>1
      <4> QED  BY <1>1, <2>1, <4>1, <4>2 DEF GoesOn, Heard
    <3> QED  BY <3>1, <3>2
  <2>3. Len(args'[e]) <= Len(Reads[e])
    BY <1>1, <1>2, <1>4, <2>1 DEF GoesOn
  <2> QED  BY <1>7, <2>2, <2>3 DEF EffectRun
<1>8. CASE args'[e] = args[e] /\ (wait'[e] # None => wait'[e].slot = d)
  <2>1. ASSUME NEW i \in 1 .. Len(args'[e]) PROVE Heard(e, Reads[e][i], args[e][i])'
    <3>1. Heard(e, Reads[e][i], args[e][i]) /\ Reads[e][i] \in Node
      BY <1>5, <1>8
    <3> QED  BY <1>6, <1>8, <3>1 DEF Heard
  <2>2. Len(args'[e]) <= Len(Reads[e])
    BY <1>1, <1>2, <1>4, <1>8 DEF GoesOn
  <2>3. /\ Len(args'[e]) < Len(Reads[e]) /\ d = Reads[e][Len(args'[e]) + 1]
        /\ wait'[e] # None => wait'[e].slot = d
    <3>1. Len(args[e]) < Len(Reads[e]) /\ d = Reads[e][Len(args[e]) + 1]
      BY <1>1 DEF GoesOn
    <3>2. Len(args'[e]) = Len(args[e])
      BY <1>8
    <3> QED  BY <1>8, <3>1, <3>2
  <2>4. CASE wait'[e] = None
    BY <2>1, <2>2, <2>4 DEF EffectRun
  <2>5. CASE wait'[e] # None
    BY <1>1, <2>1, <2>2, <2>3, <2>5 DEF EffectRun
  <2> QED  BY <2>4, <2>5
<1> QED  BY <1>1, <1>7, <1>8 DEF GoesOn

\* The task a slot waits for.
LEMMA FutureTask ==
  ASSUME IInv, NEW s \in Slot, future[s] # None
  PROVE  /\ future[s] \in Task /\ future[s] \in Body /\ task[future[s]] = s
  BY DEF IInv, TypeOK, Publishing, Body

\* Who looks at a slot has its place in it.
LEMMA LooksAre ==
  ASSUME IInv, Sound, NEW c \in Caller, NEW s \in Slot, Looks(c, s)
  PROVE  /\ wait[c] # None /\ wait[c].slot = s
         /\ c \in Effect => flush[c] = "body"
         /\ c \in Task => task[c] # None /\ \A i \in DOMAIN ready : ready[i] # c
<1>1. wait[c] # None /\ wait[c].slot = s
  BY DEF Looks
<1> QED  BY <1>1 DEF IInv, Holding, HoldingOf, Sound

(***************************************************************************)
(* get_async keeps it.                                                     *)
(***************************************************************************)
LEMMA FreshGetResolved ==
  ASSUME IInv, FInv, NEW c \in Caller, NEW s \in Slot, GetResolved(c, s)
  PROVE  Sound' /\ Fed'
<1> USE DEF graphVars, slotVars, taskVars, effectVars
<1>1. /\ Looks(c, s) /\ status[s] = "resolved" /\ wait' = [wait EXCEPT ![c] = None]
      /\ args' = IF c \in Body THEN [args EXCEPT ![c] = Append(@, val[s])] ELSE args
      /\ UNCHANGED <<graphVars, dependents, slotVars, taskVars, effectVars>>
  BY DEF GetResolved
<1>2. TypeOK /\ Sound /\ Publishing
  BY DEF IInv, FInv
<1>3. /\ wait[c] # None /\ wait[c].slot = s
      /\ c \in Effect => flush[c] = "body"
      /\ c \in Task => task[c] # None /\ \A i \in DOMAIN ready : ready[i] # c
  BY <1>1, <1>2, LooksAre
<1>4. /\ wait'[c] = None /\ \A b \in Caller : b # c => wait'[b] = wait[b]
      /\ c \in Body => IsSeq(args[c]) /\ args'[c] = Append(args[c], val[s])
      /\ \A b \in Body : b # c => args'[b] = args[b]
  <2>1. wait'[c] = None /\ \A b \in Caller : b # c => wait'[b] = wait[b]
    BY <1>1, <1>2 DEF TypeOK
  <2>2. c \in Body => IsSeq(args[c])
    BY <1>2 DEF Sound
  <2> QED  BY <1>1, <1>2, <2>1, <2>2 DEF FInv, Shaped
<1>5. Sound'
  <2> DEFINE B == {c} \cap Body
  <2>1. ASSUME c \in Body PROVE IsSeq(args'[c])
    <3>1. IsSeq(args[c]) /\ args'[c] = Append(args[c], val[s])
      BY <1>4, <2>1
    <3>2. IsSeq(Append(args[c], val[s]))
      BY <3>1, SeqAppend
    <3> QED  BY <3>1, <3>2
  <2>2. ASSUME NEW b \in Body \ B
        PROVE  /\ args'[b] = args[b] /\ (wait[b] = None => wait'[b] = None)
               /\ b \in Task => task'[b] = task[b]
               /\ b \in Effect => flush'[b] = "body" \/ flush[b] # "body"
    BY <1>1, <1>4 DEF Caller
  <2>3. ASSUME NEW b \in B
        PROVE  /\ IsSeq(args'[b])
               /\ b \in Task /\ (task'[b] = None \/ \E i \in DOMAIN ready : ready[i] = b) =>
                    args'[b] = <<>> /\ wait'[b] = None
               /\ b \in Effect /\ flush'[b] # "body" => args'[b] = <<>>
    <3>1. b = c /\ c \in Body
      OBVIOUS
    <3> HIDE DEF B
    <3> QED  BY <1>1, <1>3, <2>1, <3>1
  <2>4. B \in SUBSET Body
    OBVIOUS
  <2> HIDE DEF B
  <2>5. \A q \in Slot : future'[q] # None => future'[q] = future[q] /\ status'[q] = status[q]
    BY <1>1
  <2>6. ready' = ready /\ \A d \in Node : \A r \in dependents'[d] : r \in dependents[d] \/ d \in Reading(r)
    BY <1>1
  <2> QED  BY <1>2, <2>2, <2>3, <2>4, <2>5, <2>6, SoundKept
<1>6. Steady
  BY <1>1 DEF Steady
<1>7. Queued' \/ closed' # "open"
  BY <1>1, <1>2, QueueKept DEF QuietQueue, FInv, Fed
<1>8. ASSUME closed = "open", NEW q \in Slot PROVE KeepsSlot(q) \/ (SlotRun(q)' /\ SlotRest(q)')
  <2>1. CASE future[q] = None \/ future[q] # c
    <3>1. future[q] # None => future[q] \in Body /\ args'[future[q]] = args[future[q]]
            /\ wait'[future[q]] = wait[future[q]]
      BY <1>4, <2>1, FutureTask DEF Caller
    <3>2. future[q] # None => SameBody(q, future[q])
      BY <1>1, <3>1 DEF SameBody, SameWait
    <3> QED  BY <1>1, <3>2 DEF KeepsSlot
  <2>2. CASE future[q] # None /\ future[q] = c
    <3>1. c \in Task /\ c \in Body
      BY <2>2, FutureTask
    <3>2. SlotRun(q) /\ status[q] = "computing"
      BY <1>2, <1>8, <2>2 DEF FInv, Fed, Sound
    <3>3. /\ Len(args[c]) < Len(Reads[q]) /\ s = Reads[q][Len(args[c]) + 1]
          /\ s \notin gone /\ q \in dependents[s]
      BY <1>3, <2>2, <3>2 DEF SlotRun
    <3>4. GoesOn(q, c, s, val[s])
      BY <1>1, <1>4, <3>1, <3>3 DEF GoesOn
    <3>5. Shows(s, val[s])'
      BY <1>1, NodesAssumption DEF Shows
    <3> QED  BY <1>1, <1>2, <1>6, <2>2, <3>1, <3>2, <3>3, <3>4, <3>5, SlotGoesOn
  <2> QED  BY <2>1, <2>2
<1>9. ASSUME closed = "open", NEW e \in Effect \ gone'
      PROVE  KeepsEffect(e) \/ (EffectRun(e)' /\ EffectRest(e)')
  <2>1. CASE e # c
    BY <1>1, <1>4, <2>1 DEF KeepsEffect, SameBody, SameWait, Caller, Body
  <2>2. CASE e = c
    <3>1. c \in Body /\ e \notin gone /\ EffectRun(e) /\ flush[e] = "body"
      BY <1>1, <1>3, <1>9, <2>2 DEF FInv, Fed, Body
    <3>2. ~pending[e] => /\ Len(args[e]) < Len(Reads[e]) /\ s = Reads[e][Len(args[e]) + 1]
                         /\ s \notin Dead => e \in dependents[s]
      BY <1>3, <2>2, <3>1 DEF EffectRun
    <3>3. ~pending[e] => GoesOn(e, e, s, val[s])
      BY <1>1, <1>4, <2>2, <3>1, <3>2 DEF GoesOn
    <3>4. Shows(s, val[s])'
      BY <1>1, NodesAssumption DEF Shows
    <3>5. s \notin Dead' => s \notin Dead
      BY <1>6, SteadyShows DEF Node
    <3> QED  BY <1>1, <1>2, <1>6, <2>2, <3>1, <3>2, <3>3, <3>4, <3>5, EffectGoesOn
  <2> QED  BY <2>1, <2>2
<1>10. Fed'
  BY <1>1, <1>2, <1>6, <1>7, <1>8, <1>9, FedKept DEF Fed
<1> QED  BY <1>5, <1>10

\* A step that leaves values, computations and bodies alone, and of the effects
\* only touches those that are disposed.
LEMMA FreshQuiet ==
  ASSUME IInv, FInv, UNCHANGED <<value, slotVars, taskVars, args, seen>>,
         closed' = "open" => closed = "open",
         gone \subseteq gone', gone' \cap Node = gone \cap Node,
         \A b \in Body : SameWait(b),
         \A d \in Node : /\ dependents'[d] \subseteq dependents[d]
                         /\ \A r \in dependents[d] : r \in dependents'[d] \/ r \in Effect \cap gone',
         \A e \in Effect : flush[e] = "body" => flush'[e] = "body",
         \A e \in Effect \ gone' : flush'[e] = flush[e] /\ pending'[e] = pending[e]
  PROVE  Sound' /\ Fed'
<1> USE DEF slotVars, taskVars
<1>1. TypeOK /\ Sound
  BY DEF IInv, FInv
<1>2. Sound'
  <2> DEFINE B == {b \in Body : FALSE}
  <2>1. B \in SUBSET Body /\ B = {}
    OBVIOUS
  <2>2. \A b \in Body : wait[b] = None => wait'[b] = None
    BY DEF SameWait
  <2> HIDE DEF B
  <2> QED  BY <1>1, <2>1, <2>2, SoundKept
<1>3. Steady
  BY DEF Steady
<1>4. closed = "open" => Queued'
  BY <1>1, QueueKept DEF QuietQueue, FInv, Fed
<1>5. ASSUME NEW s \in Slot PROVE KeepsSlot(s)
  <2>1. \A d \in Node : s \in dependents[d] => s \in dependents'[d]
    BY NodesAssumption DEF Node
  <2>2. future[s] # None => SameBody(s, future[s])
    BY <2>1, FutureTask DEF SameBody
  <2> QED  BY <2>1, <2>2 DEF KeepsSlot
<1>6. ASSUME NEW e \in Effect \ gone' PROVE KeepsEffect(e)
  BY DEF KeepsEffect, SameBody, Body
<1>7. Fed'
  BY <1>1, <1>3, <1>4, <1>5, <1>6, FedKept DEF Fed
<1> QED  BY <1>2, <1>7

LEMMA FreshGetAttaches ==
  ASSUME IInv, FInv, NEW c \in Caller, NEW s \in Slot, GetAttaches(c, s)
  PROVE  Sound' /\ Fed'
<1> USE DEF graphVars, effectVars
<1>1. /\ Looks(c, s) /\ wait' = [wait EXCEPT ![c].on = future[s]]
      /\ UNCHANGED <<graphVars, dependents, slotVars, taskVars, args, effectVars>>
  BY DEF GetAttaches
<1>2. ASSUME NEW b \in Body PROVE SameWait(b)
  <2>1. b \in Caller /\ wait \in [Caller -> {None} \cup Awaiting]
    BY DEF IInv, TypeOK, Caller
  <2>2. wait[c] # None => wait[c] \in Awaiting
    BY <2>1
  <2>3. wait[c] # None => [wait[c] EXCEPT !.on = future[s]].slot = wait[c].slot
    BY <2>2 DEF Awaiting
  <2> QED  BY <1>1, <2>1, <2>3 DEF SameWait, Looks
<1> QED  BY <1>1, <1>2, FreshQuiet

LEMMA FreshGetSpawns ==
  ASSUME IInv, FInv, NEW c \in Caller, NEW s \in Slot, GetSpawns(c, s)
  PROVE  Sound' /\ Fed'
<1> USE DEF graphVars, effectVars
<1>1. PICK t \in Free :
        /\ task' = [task EXCEPT ![t] = s] /\ ready' = Append(ready, t)
        /\ status' = [status EXCEPT ![s] = "computing"]
        /\ val' = [val EXCEPT ![s] = None]
        /\ future' = [future EXCEPT ![s] = t]
        /\ wait' = [wait EXCEPT ![c].on = t]
  BY DEF GetSpawns
<1>2. /\ Looks(c, s) /\ status[s] # "resolved" /\ future[s] = None
      /\ UNCHANGED <<graphVars, dependents, args, effectVars>>
  BY DEF GetSpawns
<1>3. TypeOK /\ Sound /\ Publishing /\ DOMAIN val = Slot
  BY DEF IInv, FInv, Shaped
<1>4. t \in Task /\ task[t] = None /\ t \in Body /\ t \in Caller /\ args[t] = <<>> /\ wait[t] = None
  BY <1>3 DEF Free, Body, Caller, Sound
<1>5. c # t /\ wait[c] # None
  BY <1>2, <1>4 DEF Looks
<1>6. /\ \A b \in Body : SameWait(b) /\ (wait[b] = None => wait'[b] = None)
      /\ wait'[t] = None
  <2>1. wait \in [Caller -> {None} \cup Awaiting] /\ wait[c] \in Awaiting
    BY <1>3, <1>5 DEF TypeOK
  <2>2. [wait[c] EXCEPT !.on = t].slot = wait[c].slot
    BY <2>1 DEF Awaiting
  <2>3. \A b \in Body : b # c => wait'[b] = wait[b]
    BY <1>1, <2>1 DEF Caller
  <2>4. c \in Body /\ wait'[c] # None => wait'[c].slot = wait[c].slot
    BY <1>1, <2>1, <2>2
  <2> QED  BY <1>4, <1>5, <2>3, <2>4 DEF SameWait
<1>7. /\ status'[s] = "computing" /\ future'[s] = t /\ task'[t] = s
      /\ \A q \in Slot : q # s => status'[q] = status[q] /\ val'[q] = val[q] /\ future'[q] = future[q]
      /\ \A u \in Task : u # t => task'[u] = task[u]
  BY <1>1, <1>3, <1>4 DEF TypeOK
<1>8. /\ Len(ready) \in Nat /\ DOMAIN ready = 1..Len(ready) /\ DOMAIN ready' = 1 .. Len(ready) + 1
      /\ \A i \in 1..Len(ready) : ready'[i] = ready[i] /\ ready[i] \in Task
      /\ ready'[Len(ready) + 1] = t
  <2>1. ready \in Seq(Task)
    BY <1>3 DEF TypeOK
  <2>2. /\ ready' \in Seq(Task) /\ Len(ready') = Len(ready) + 1 /\ Len(ready) \in Nat
        /\ \A i \in 1..Len(ready) : ready'[i] = ready[i]
        /\ ready'[Len(ready) + 1] = t
    BY <1>1, <1>4, <2>1, AppendProperties, LenProperties
  <2> QED  BY <2>1, <2>2, LenProperties, ElementOfSeq
<1>9. Sound'
  <2>1. \A d \in Node : \A r \in dependents'[d] : d \in Reading(r)
    BY <1>2, <1>3 DEF Sound
  <2>2. \A b \in Body : IsSeq(args[b])'
    BY <1>2, <1>3 DEF Sound, IsSeq
  <2>3. ASSUME NEW u \in Task, task'[u] = None \/ \E i \in DOMAIN ready' : ready'[i] = u
        PROVE  args'[u] = <<>> /\ wait'[u] = None
    <3>1. CASE u = t
      BY <1>2, <1>4, <1>6, <3>1
    <3>2. CASE u # t
      <4>1. task[u] = None \/ \E i \in DOMAIN ready : ready[i] = u
        BY <1>7, <1>8, <2>3, <3>2
      <4> QED  BY <1>2, <1>3, <1>6, <4>1 DEF Sound, Body
    <3> QED  BY <3>1, <3>2
  <2>4. \A e \in Effect : flush'[e] # "body" => args'[e] = <<>>
    BY <1>2, <1>3 DEF Sound
  <2>5. \A q \in Slot : future'[q] # None => status'[q] = "computing"
    BY <1>3, <1>7 DEF Sound
  <2> QED  BY <2>1, <2>2, <2>3, <2>4, <2>5 DEF Sound, Reading
<1>10. Steady
  BY <1>2, <1>7 DEF Steady
<1>11. ASSUME closed = "open" PROVE Queued'
  <2>1. ASSUME NEW i \in DOMAIN ready', task'[ready'[i]] # None
        PROVE  LET q == task'[ready'[i]] IN
               /\ status'[q] # "resolved"
               /\ future'[q] # None => \E j \in DOMAIN ready' : i <= j /\ ready'[j] = future'[q]
    <3> DEFINE q == task'[ready'[i]]
    <3>1. CASE q = s
      BY <1>7, <1>8, <3>1
    <3>2. CASE q # s
      <4>1. i \in DOMAIN ready /\ ready'[i] = ready[i] /\ ready[i] # t /\ ready[i] \in Task
        BY <1>7, <1>8, <3>2
      <4>2. q = task[ready[i]] /\ q \in Slot
        BY <1>3, <1>7, <2>1, <4>1 DEF TypeOK
      <4>3. /\ status[q] # "resolved"
            /\ future[q] # None => \E j \in DOMAIN ready : i <= j /\ ready[j] = future[q]
        BY <1>11, <2>1, <4>1, <4>2 DEF FInv, Fed, Queued
      <4> HIDE DEF q
      <4> QED  BY <1>7, <1>8, <3>2, <4>2, <4>3 DEF q
    <3> QED  BY <3>1, <3>2
  <2> QED  BY <2>1 DEF Queued
<1>12. ASSUME NEW q \in Slot PROVE KeepsSlot(q) \/ (SlotRun(q)' /\ SlotRest(q)')
  <2>1. CASE q = s
    BY <1>2, <1>4, <1>6, <1>7, <2>1, SlotStarts
  <2>2. CASE q # s
    <3>1. future[q] # None => SameBody(q, future[q])
      BY <1>2, <1>6, FutureTask DEF SameBody
    <3> QED  BY <1>2, <1>7, <2>2, <3>1 DEF KeepsSlot
  <2> QED  BY <2>1, <2>2
<1>13. \A e \in Effect : KeepsEffect(e)
  BY <1>2, <1>6 DEF KeepsEffect, SameBody, Body
<1>14. Fed'
  BY <1>2, <1>3, <1>10, <1>11, <1>12, <1>13, FedKept DEF Fed
<1> QED  BY <1>9, <1>14

(***************************************************************************)
(* Computations keep it.                                                   *)
(***************************************************************************)
LEMMA DriveEndsWakes ==
  ASSUME TypeOK, NEW t \in Task, NEW raises, DriveEnds(t, raises)
  PROVE  /\ wait'[t] = None
         /\ \A b \in Body : SameWait(b) /\ (wait[b] = None => wait'[b] = None)
<1> DEFINE w == [wait EXCEPT ![t] = None]
           o == IF raises /\ Current(t) THEN "raise" ELSE "loop"
<1>1. wait' = Woken(w, t, o)
  BY DEF DriveEnds
<1>2. /\ w[t] = None /\ \A b \in Caller : w[b] = wait[b] \/ w[b] = None
      /\ wait \in [Caller -> {None} \cup Awaiting] /\ t \in Caller /\ Body \subseteq Caller
  BY DEF TypeOK, Caller, Body
<1> HIDE DEF w, o
<1>3. \A b \in Caller : wait'[b] = IF w[b] # None /\ w[b].on = t THEN [w[b] EXCEPT !.on = o] ELSE w[b]
  BY <1>1 DEF Woken
<1>4. ASSUME NEW b \in Caller PROVE wait'[b] = None \/ (wait[b] # None /\ wait'[b].slot = wait[b].slot)
  <2>1. CASE w[b] = None
    BY <1>3, <2>1
  <2>2. CASE w[b] # None
    <3>1. w[b] = wait[b] /\ wait[b] \in Awaiting
      BY <1>2, <2>2
    <3>2. [wait[b] EXCEPT !.on = o].slot = wait[b].slot
      BY <3>1 DEF Awaiting
    <3> QED  BY <1>3, <2>2, <3>1, <3>2
  <2> QED  BY <2>1, <2>2
<1>5. wait'[t] = None
  BY <1>2, <1>3
<1> QED  BY <1>2, <1>4, <1>5 DEF SameWait

\* What a body that runs is.
LEMMA RunningIs ==
  ASSUME IInv, FInv, NEW b \in Body, Running(b)
  PROVE  /\ Owner(b) \in Slot \cup Effect /\ wait[b] = None /\ IsSeq(args[b])
         /\ b \in Task => Owner(b) = task[b] /\ task[b] # None /\ task[b] \in Slot
                          /\ \A i \in DOMAIN ready : ready[i] # b
         /\ b \in Effect => Owner(b) = b /\ flush[b] = "body"
<1>1. b \in Effect => b \notin Task
  BY NodesAssumption
<1> QED  BY <1>1 DEF Running, Owner, Body, IInv, TypeOK, FInv, Sound

LEMMA FreshDriveEnds ==
  ASSUME IInv, FInv, NEW t \in Task, NEW raises \in BOOLEAN, DriveEnds(t, raises),
         task[t] # None, \A i \in DOMAIN ready : ready[i] # t,
         raises \/ ~HasNext(t), UNCHANGED <<graphVars, effectVars, ready>>,
         \A d \in Node : /\ dependents[d] \subseteq dependents'[d]
                         /\ \A r \in dependents'[d] : r \in dependents[d] \/ d \in Reading(r)
  PROVE  Sound' /\ Fed'
<1> USE DEF graphVars, effectVars
<1>1. TypeOK /\ Sound /\ Publishing /\ DOMAIN val = Slot /\ DOMAIN args = Body
  BY DEF IInv, FInv, Shaped
<1>2. t \in Body /\ t # None
  BY NodesAssumption DEF Body
<1>3. IsSeq(args[t]) /\ task[t] \in Slot
  BY <1>1, <1>2 DEF Sound, TypeOK
<1>4. /\ wait'[t] = None
      /\ \A b \in Body : SameWait(b) /\ (wait[b] = None => wait'[b] = None)
  BY <1>1, DriveEndsWakes
<1>5. /\ args'[t] = <<>> /\ \A b \in Body : b # t => args'[b] = args[b]
      /\ task'[t] = None /\ \A u \in Task : u # t => task'[u] = task[u]
  BY <1>1, <1>2 DEF DriveEnds, TypeOK
<1>6. ASSUME NEW s \in Slot, future[s] # t
      PROVE  status'[s] = status[s] /\ val'[s] = val[s] /\ future'[s] = future[s]
  <2>1. CASE Current(t)
    <3>1. s # task[t]
      BY <1>6, <2>1 DEF Current
    <3> QED  BY <1>1, <2>1, <3>1 DEF DriveEnds, TypeOK
  <2>2. CASE ~Current(t)
    BY <2>2 DEF DriveEnds, slotVars
  <2> QED  BY <2>1, <2>2
<1>7. ASSUME NEW s \in Slot, future[s] = t
      PROVE  /\ task[t] = s /\ future'[s] = None
             /\ status'[s] = IF raises THEN "error" ELSE "resolved"
             /\ ~raises => val'[s] = args[t]
  <2>1. task[t] = s /\ Current(t)
    BY <1>1, <1>2, <1>7 DEF Publishing, Current
  <2> QED  BY <1>1, <2>1 DEF DriveEnds, TypeOK
<1>8. Sound'
  <2>1. {t} \in SUBSET Body
    BY <1>2
  <2>2. ASSUME NEW b \in Body \ {t}
        PROVE  /\ args'[b] = args[b] /\ (wait[b] = None => wait'[b] = None)
               /\ b \in Task => task'[b] = task[b]
               /\ b \in Effect => flush'[b] = "body" \/ flush[b] # "body"
    BY <1>4, <1>5
  <2>3. ASSUME NEW b \in {t}
        PROVE  /\ IsSeq(args'[b])
               /\ b \in Task /\ (task'[b] = None \/ \E i \in DOMAIN ready : ready[i] = b) =>
                    args'[b] = <<>> /\ wait'[b] = None
               /\ b \in Effect /\ flush'[b] # "body" => args'[b] = <<>>
    BY <1>4, <1>5, SeqEmpty
  <2>4. \A q \in Slot : future'[q] # None => future'[q] = future[q] /\ status'[q] = status[q]
    BY <1>6, <1>7
  <2>5. ready' = ready /\ \A d \in Node : \A r \in dependents'[d] : r \in dependents[d] \/ d \in Reading(r)
    OBVIOUS
  <2> QED  BY <1>1, <2>1, <2>2, <2>3, <2>4, <2>5, SoundKept
<1>9. Steady
  <2>1. \A s \in Slot : status[s] = "resolved" => future[s] # t
    BY <1>1, <1>2 DEF Sound
  <2> QED  BY <1>6, <2>1 DEF Steady
<1>10. closed = "open" => Queued'
  <2>1. \A i \in DOMAIN ready : ready[i] \in Task
    BY <1>1, LenProperties, ElementOfSeq DEF TypeOK
  <2>2. QuietQueue
    BY <1>2, <1>3, <1>5, <1>6, <1>7, <2>1 DEF QuietQueue
  <2> QED  BY <1>1, <2>2, QueueKept DEF FInv, Fed
<1>11. ASSUME closed = "open", NEW s \in Slot PROVE KeepsSlot(s) \/ (SlotRun(s)' /\ SlotRest(s)')
  <2>1. CASE future[s] # t
    <3>1. future[s] # None => SameBody(s, future[s])
      BY <1>4, <1>5, <2>1, FutureTask DEF SameBody
    <3> QED  BY <1>6, <2>1, <3>1 DEF KeepsSlot
  <2>2. CASE future[s] = t
    <3>1. SlotRun(s)'
      BY <1>7, <2>2 DEF SlotRun
    <3>2. CASE raises
      BY <1>7, <2>2, <3>1, <3>2 DEF SlotRest
    <3>3. CASE ~raises
      <4>1. /\ Len(args[t]) <= Len(Reads[s]) /\ Len(args[t]) \in Nat /\ Len(Reads[s]) \in Nat
            /\ \A i \in 1 .. Len(args[t]) : Linked(s, Reads[s][i], args[t][i])
            /\ \A i \in 1 .. Len(Reads[s]) : Reads[s][i] \in Node
        BY <1>2, <1>3, <1>11, <2>2, ReadsAre, SeqAppend DEF FInv, Fed, SlotRun
      <4>2. ~(Len(args[t]) < Len(Reads[s]))
        BY <1>7, <2>2, <3>3 DEF HasNext, Owner
      <4>3. Len(args[t]) = Len(Reads[s])
        BY <4>1, <4>2
      <4>4. PICK a : a = args[t]
        OBVIOUS
      <4>5. val'[s] = a
        BY <1>7, <2>2, <3>3, <4>4
      <4>6. ASSUME NEW i \in 1 .. Len(Reads[s]) PROVE Linked(s, Reads[s][i], a[i])'
        <5>1. Reads[s][i] \in Node /\ Linked(s, Reads[s][i], a[i])
          BY <4>1, <4>3, <4>4
        <5> QED  BY <1>9, <5>1, SteadyShows DEF Linked
      <4>7. IsSeq(val[s])'
        BY <1>3, <4>4, <4>5 DEF IsSeq
      <4>8. \A i \in 1 .. Len(Reads[s]) : Linked(s, Reads[s][i], val[s][i])'
        BY <4>5, <4>6 DEF Linked, Shows
      <4>9. SlotRest(s)'
        BY <4>3, <4>4, <4>5, <4>7, <4>8 DEF SlotRest
      <4> QED  BY <3>1, <4>9
    <3> QED  BY <3>2, <3>3
  <2> QED  BY <2>1, <2>2
<1>12. ASSUME NEW e \in Effect PROVE KeepsEffect(e)
  <2>1. e # t /\ e \in Body
    BY NodesAssumption DEF Body
  <2> QED  BY <1>4, <1>5, <2>1 DEF KeepsEffect, SameBody
<1>13. Fed'
  BY <1>1, <1>9, <1>10, <1>11, <1>12, FedKept DEF Fed
<1> QED  BY <1>8, <1>13

LEMMA FreshStartTask ==
  ASSUME IInv, FInv, NEW t \in Task, StartTask(t)
  PROVE  Sound' /\ Fed'
<1> USE DEF graphVars, effectVars, slotVars, bodyVars
<1>1. TypeOK /\ Sound /\ Publishing /\ DOMAIN args = Body
  BY DEF IInv, FInv, Shaped
<1>2. /\ ready # <<>> /\ Head(ready) = t /\ ready' = Tail(ready)
      /\ UNCHANGED <<graphVars, effectVars>>
  BY DEF StartTask
<1>3. /\ Len(ready) \in Nat /\ 1 \in DOMAIN ready /\ ready[1] = t
      /\ DOMAIN ready = 1..Len(ready) /\ DOMAIN ready' = 1 .. Len(ready) - 1
      /\ \A i \in 1 .. Len(ready) - 1 : ready'[i] = ready[i + 1]
      /\ \A i \in DOMAIN ready : ready[i] \in Task
  <2>1. ready \in Seq(Task)
    BY <1>1 DEF TypeOK
  <2>2. /\ Tail(ready) \in Seq(Task) /\ Head(ready) = ready[1] /\ Len(ready) \in Nat /\ Len(ready) # 0
        /\ Len(Tail(ready)) = Len(ready) - 1
        /\ \A i \in 1 .. Len(ready) - 1 : Tail(ready)[i] = ready[i + 1]
    BY <1>2, <2>1, HeadTailProperties, EmptySeq, LenProperties
  <2> QED  BY <1>2, <2>1, <2>2, LenProperties, ElementOfSeq
<1>4. \A i \in DOMAIN ready' : \E j \in DOMAIN ready : ready[j] = ready'[i]
  <2>1. \A i \in DOMAIN ready' : i + 1 \in DOMAIN ready /\ ready[i + 1] = ready'[i]
    BY <1>3
  <2> QED  BY <2>1
<1>5. t \in Body /\ args[t] = <<>> /\ wait[t] = None
  BY <1>1, <1>3 DEF Sound, Body
<1>6. CASE closed # "open"
  <2>1. DriveEnds(t, TRUE) /\ dependents' = dependents
    BY <1>6 DEF StartTask
  <2>2. wait'[t] = None /\ \A b \in Body : SameWait(b) /\ (wait[b] = None => wait'[b] = None)
    BY <1>1, <2>1, DriveEndsWakes
  <2>3. /\ args'[t] = <<>> /\ \A b \in Body : b # t => args'[b] = args[b]
        /\ \A u \in Task : u # t => task'[u] = task[u]
    BY <1>1, <1>5, <2>1 DEF DriveEnds, TypeOK
  <2>4. {t} \in SUBSET Body
    BY <1>5
  <2>5. ASSUME NEW b \in Body \ {t}
        PROVE  /\ args'[b] = args[b] /\ (wait[b] = None => wait'[b] = None)
               /\ b \in Task => task'[b] = task[b]
               /\ b \in Effect => flush'[b] = "body" \/ flush[b] # "body"
    BY <1>2, <2>2, <2>3
  <2>6. ASSUME NEW b \in {t}
        PROVE  /\ IsSeq(args'[b])
               /\ b \in Task /\ (task'[b] = None \/ \E i \in DOMAIN ready : ready[i] = b) =>
                    args'[b] = <<>> /\ wait'[b] = None
               /\ b \in Effect /\ flush'[b] # "body" => args'[b] = <<>>
    BY <2>2, <2>3, SeqEmpty
  <2>7. ASSUME NEW s \in Slot, future'[s] # None
        PROVE  future'[s] = future[s] /\ status'[s] = status[s]
    <3>1. CASE Current(t) /\ s = task[t]
      <4>1. future'[s] = None
        BY <1>1, <2>1, <3>1 DEF DriveEnds, TypeOK
      <4> QED  BY <2>7, <4>1
    <3>2. CASE Current(t) /\ s # task[t]
      BY <1>1, <2>1, <3>2 DEF DriveEnds, TypeOK
    <3>3. CASE ~Current(t)
      BY <2>1, <3>3 DEF DriveEnds
    <3> QED  BY <3>1, <3>2, <3>3
  <2>8. \A d \in Node : \A r \in dependents'[d] : r \in dependents[d] \/ d \in Reading(r)
    BY <2>1
  <2>9. Sound'
    BY <1>1, <1>4, <2>4, <2>5, <2>6, <2>7, <2>8, SoundKept
  <2> QED  BY <1>2, <1>6, <2>9 DEF Fed
<1>7. CASE closed = "open"
  <2>1. dependents' = Detached(task[t]) /\ UNCHANGED <<slotVars, task, bodyVars>>
    BY <1>7 DEF StartTask
  <2>2. task[t] \notin Effect /\ task[t] \in Slot \cup {None}
    BY <1>1, NodesAssumption DEF TypeOK, Node
  <2>3. \A d \in Node : dependents'[d] = dependents[d] \ {task[t]}
    BY <2>1 DEF Detached
  <2>4. Sound'
    <3>1. {b \in Body : FALSE} \in SUBSET Body /\ {b \in Body : FALSE} = {}
      OBVIOUS
    <3>2. \A d \in Node : \A r \in dependents'[d] : r \in dependents[d] \/ d \in Reading(r)
      BY <2>3
    <3>3. ASSUME NEW b \in Body
          PROVE  /\ args'[b] = args[b] /\ (wait[b] = None => wait'[b] = None)
                 /\ b \in Task => task'[b] = task[b]
                 /\ b \in Effect => flush'[b] = "body" \/ flush[b] # "body"
      BY <1>2, <2>1
    <3> QED  BY <1>1, <1>4, <2>1, <3>1, <3>2, <3>3, SoundKept
  <2>5. Steady
    BY <1>2, <2>1 DEF Steady
  <2>6. Queued
    BY <1>7 DEF FInv, Fed
  <2>7. Queued'
    <3>1. ASSUME NEW i \in DOMAIN ready', task'[ready'[i]] # None
          PROVE  LET q == task'[ready'[i]] IN
                 /\ status'[q] # "resolved"
                 /\ future'[q] # None => \E j \in DOMAIN ready' : i <= j /\ ready'[j] = future'[q]
      <4>1. PICK q : q = task[ready[i + 1]]
        OBVIOUS
      <4>2. i + 1 \in DOMAIN ready /\ ready'[i] = ready[i + 1] /\ i \in Nat
        BY <1>3
      <4>3. task'[ready'[i]] = q /\ q # None
        BY <2>1, <3>1, <4>1, <4>2
      <4>4. /\ status[q] # "resolved"
            /\ future[q] # None => \E j \in DOMAIN ready : i + 1 <= j /\ ready[j] = future[q]
        BY <2>6, <4>1, <4>2, <4>3 DEF Queued
      <4>5. ASSUME NEW j \in DOMAIN ready, i + 1 <= j, ready[j] = future[q]
            PROVE  \E k \in DOMAIN ready' : i <= k /\ ready'[k] = future[q]
        <5>1. j - 1 \in DOMAIN ready' /\ i <= j - 1 /\ ready'[j - 1] = ready[j]
          BY <1>3, <4>2, <4>5
        <5> QED  BY <4>5, <5>1
      <4> QED  BY <2>1, <4>3, <4>4, <4>5
    <3> QED  BY <3>1 DEF Queued
  <2>8. ASSUME NEW s \in Slot PROVE KeepsSlot(s) \/ (SlotRun(s)' /\ SlotRest(s)')
    <3>1. CASE s # task[t]
      <4>1. \A d \in Node : s \in dependents[d] => s \in dependents'[d]
        BY <2>3, <3>1
      <4>2. future[s] # None => SameBody(s, future[s])
        BY <2>1, <4>1, FutureTask DEF SameBody, SameWait
      <4> QED  BY <2>1, <4>1, <4>2 DEF KeepsSlot
    <3>2. CASE s = task[t]
      <4>1. s # None
        BY NodesAssumption
      <4>2. /\ status[s] # "resolved"
            /\ future[s] # None => \E j \in DOMAIN ready : ready[j] = future[s]
        BY <1>3, <2>6, <3>2, <4>1 DEF Queued
      <4>3. future[s] # None => args[future[s]] = <<>> /\ wait[future[s]] = None
        BY <1>1, <4>2, FutureTask DEF Sound
      <4> QED  BY <2>1, <4>2, <4>3, SlotStarts
    <3> QED  BY <3>1, <3>2
  <2>9. \A e \in Effect : KeepsEffect(e)
    BY <1>2, <2>1, <2>2, <2>3 DEF KeepsEffect, SameBody, SameWait
  <2>10. Fed'
    BY <1>1, <1>2, <2>5, <2>7, <2>8, <2>9, FedKept
  <2> QED  BY <2>4, <2>10
<1> QED  BY <1>6, <1>7

LEMMA FreshSlotReturns ==
  ASSUME IInv, FInv, NEW t \in Task, SlotReturns(t)
  PROVE  Sound' /\ Fed'
<1>1. /\ Running(t) /\ ~HasNext(t) /\ DriveEnds(t, FALSE)
      /\ UNCHANGED <<graphVars, dependents, ready, effectVars>>
  BY DEF SlotReturns
<1>2. task[t] # None /\ \A i \in DOMAIN ready : ready[i] # t
  BY <1>1, RunningIs DEF Body
<1> QED  BY <1>1, <1>2, FreshDriveEnds

(***************************************************************************)
(* Effects keep it.                                                        *)
(***************************************************************************)
\* Where the flush of e goes; the edges of e may go with it.
FlushGoes(e, deps) ==
  /\ \A f \in Effect : f # e => flush'[f] = flush[f] /\ pending'[f] = pending[f]
  /\ \A d \in Node : dependents'[d] \subseteq deps[d] /\ deps[d] \ {e} \subseteq dependents'[d]

LEMMA EntersGoes ==
  ASSUME TypeOK, NEW e \in Effect, NEW deps, NEW more, Enters(e, deps, more)
  PROVE  /\ FlushGoes(e, deps)
         /\ closed = "open" /\ e \notin gone => flush'[e] = "body"
<1>1. CASE e \in gone \/ closed # "open"
  BY <1>1 DEF Enters, TypeOK, FlushGoes
<1>2. CASE ~(e \in gone \/ closed # "open")
  BY <1>2 DEF Enters, TypeOK, FlushGoes
<1> QED  BY <1>1, <1>2

LEMMA FlushLoopGoes ==
  ASSUME TypeOK, NEW e \in Effect, NEW deps, NEW retained \in BOOLEAN, FlushLoop(e, retained, deps)
  PROVE  /\ FlushGoes(e, deps)
         /\ closed = "open" /\ e \notin gone /\ ~dead[e] =>
              IF pending[e] THEN flush'[e] \in {"cleanup", "body"}
              ELSE flush'[e] = "none" /\ pending'[e] = pending[e] /\ dependents' = deps
<1>1. CASE dead[e] \/ ~pending[e]
  BY <1>1 DEF FlushLoop, TypeOK, FlushGoes
<1>2. CASE ~dead[e] /\ pending[e] /\ retained
  BY <1>2 DEF FlushLoop, TypeOK, FlushGoes
<1>3. CASE ~(dead[e] \/ ~pending[e]) /\ ~retained
  <2>1. Enters(e, deps, FALSE)
    BY <1>3 DEF FlushLoop
  <2> QED  BY <1>3, <2>1, EntersGoes
<1> QED  BY <1>1, <1>2, <1>3

\* A step of the flush of e, after which e has been looked at.
LEMMA FreshFlush ==
  ASSUME IInv, FInv, NEW e \in Effect, NEW deps, FlushGoes(e, deps),
         UNCHANGED <<graphVars, slotVars, taskVars>>,
         \A d \in Node : /\ dependents[d] \subseteq deps[d]
                         /\ \A r \in deps[d] : r \in dependents[d] \/ d \in Reading(r),
         \A b \in Body : b # e => args'[b] = args[b] /\ wait'[b] = wait[b],
         \A f \in Effect : f # e => seen'[f] = seen[f],
         IsSeq(args'[e]), flush'[e] # "body" => args'[e] = <<>>,
         closed = "open" /\ e \notin gone => EffectRun(e)' /\ EffectRest(e)'
  PROVE  Sound' /\ Fed'
<1> USE DEF graphVars, slotVars, taskVars, FlushGoes
<1>1. TypeOK /\ Sound
  BY DEF IInv, FInv
<1>2. e \in Body /\ e \notin Task /\ e \notin Slot
  BY NodesAssumption DEF Body, Node
<1>3. Sound'
  <2>1. {e} \in SUBSET Body
    BY <1>2
  <2>2. ASSUME NEW b \in Body \ {e}
        PROVE  /\ args'[b] = args[b] /\ (wait[b] = None => wait'[b] = None)
               /\ b \in Task => task'[b] = task[b]
               /\ b \in Effect => flush'[b] = "body" \/ flush[b] # "body"
    OBVIOUS
  <2>3. ASSUME NEW b \in {e}
        PROVE  /\ IsSeq(args'[b])
               /\ b \in Task /\ (task'[b] = None \/ \E i \in DOMAIN ready : ready[i] = b) =>
                    args'[b] = <<>> /\ wait'[b] = None
               /\ b \in Effect /\ flush'[b] # "body" => args'[b] = <<>>
    BY <1>2
  <2>4. \A d \in Node : \A r \in dependents'[d] : r \in dependents[d] \/ d \in Reading(r)
    OBVIOUS
  <2> QED  BY <1>1, <2>1, <2>2, <2>3, <2>4, SoundKept
<1>4. Steady
  BY DEF Steady
<1>5. closed = "open" => Queued'
  BY <1>1, QueueKept DEF QuietQueue, FInv, Fed
<1>6. ASSUME NEW s \in Slot PROVE KeepsSlot(s)
  <2>1. \A d \in Node : s \in dependents[d] => s \in dependents'[d]
    BY <1>2
  <2>2. future[s] # None => SameBody(s, future[s])
    BY <1>2, <2>1, FutureTask DEF SameBody, SameWait
  <2> QED  BY <2>1, <2>2 DEF KeepsSlot
<1>7. ASSUME closed = "open", NEW f \in Effect \ gone'
      PROVE  KeepsEffect(f) \/ (EffectRun(f)' /\ EffectRest(f)')
  <2>1. CASE f = e
    BY <1>7, <2>1
  <2>2. CASE f # e
    <3>1. SameBody(f, f)
      BY <2>2 DEF SameBody, SameWait, Body
    <3> QED  BY <2>2, <3>1 DEF KeepsEffect
  <2> QED  BY <2>1, <2>2
<1>8. Fed'
  BY <1>1, <1>4, <1>5, <1>6, <1>7, FedKept DEF Fed
<1> QED  BY <1>3, <1>8

\* What an effect that is not in its body has read, and what it awaits.
LEMMA EffectIdle ==
  ASSUME IInv, FInv, NEW e \in Effect
  PROVE  /\ e \in Body /\ e \in Caller
         /\ flush[e] # "body" => args[e] = <<>> /\ wait[e] = None
         /\ dead[e] => e \in gone
  BY DEF IInv, FInv, Sound, Holding, HoldingOf, Disposal, DisposalOf, Body, Caller

LEMMA FreshFlushStart ==
  ASSUME IInv, FInv, NEW e \in Effect, FlushStart(e) \/ CleanupEnds(e)
  PROVE  Sound' /\ Fed'
<1> USE DEF graphVars, slotVars, taskVars, bodyVars
<1>1. TypeOK
  BY DEF IInv
<1>2. /\ UNCHANGED <<graphVars, slotVars, taskVars, bodyVars, seen>>
      /\ flush[e] # "body"
  BY DEF FlushStart, CleanupEnds
<1>3. /\ args[e] = <<>> /\ wait[e] = None /\ IsSeq(args[e]) /\ e \in Body
      /\ dead[e] => e \in gone
  BY <1>2, EffectIdle, SeqEmpty
<1>4. FlushGoes(e, dependents) /\ (closed = "open" /\ e \notin gone => flush'[e] \in {"cleanup", "body"})
  <2>1. CASE FlushStart(e)
    <3>1. FlushLoop(e, armed[e], dependents) /\ flush[e] = "new" /\ armed[e] \in BOOLEAN
      BY <1>1, <2>1 DEF FlushStart, TypeOK
    <3>2. closed = "open" /\ e \notin gone => pending[e]
      BY <3>1 DEF FInv, Fed, EffectRest
    <3> QED  BY <1>1, <1>3, <3>1, <3>2, FlushLoopGoes
  <2>2. CASE CleanupEnds(e) /\ dead[e]
    <3>1. /\ flush' = [flush EXCEPT ![e] = "none"] /\ pending' = pending /\ dependents' = dependents
          /\ e \in gone
      BY <1>3, <2>2 DEF CleanupEnds
    <3> QED  BY <1>1, <3>1 DEF FlushGoes, TypeOK
  <2>3. CASE CleanupEnds(e) /\ ~dead[e]
    <3>1. Enters(e, dependents, pending[e])
      BY <2>3 DEF CleanupEnds
    <3> QED  BY <1>1, <3>1, EntersGoes
  <2> QED  BY <2>1, <2>2, <2>3
<1>5. closed = "open" /\ e \notin gone => EffectRun(e)' /\ EffectRest(e)'
  BY <1>2, <1>3, <1>4, EffectStarts
<1> QED  BY <1>2, <1>3, <1>4, <1>5, FreshFlush

LEMMA FreshBodyEnds ==
  ASSUME IInv, FInv, NEW e \in Effect, NEW deps, NEW cleanup \in BOOLEAN, NEW read,
         BodyEnds(e, cleanup, read, deps), flush[e] = "body",
         UNCHANGED <<graphVars, slotVars, taskVars>>, read \in {None, args[e]},
         \A d \in Node : /\ dependents[d] \subseteq deps[d]
                         /\ \A r \in deps[d] : r \in dependents[d] \/ d \in Reading(r)
  PROVE  Sound' /\ Fed'
<1> USE DEF graphVars, slotVars, taskVars
<1>1. TypeOK /\ Sound /\ DOMAIN args = Body /\ DOMAIN seen = Effect /\ DOMAIN wait = Caller
  BY DEF IInv, FInv, Shaped, TypeOK
<1>2. e \in Body /\ e \in Caller /\ Body \subseteq Caller /\ (dead[e] => e \in gone)
  BY EffectIdle DEF Caller
<1>3. /\ args'[e] = <<>> /\ wait'[e] = None /\ seen'[e] = read
      /\ \A b \in Body : b # e => args'[b] = args[b] /\ wait'[b] = wait[b]
      /\ \A f \in Effect : f # e => seen'[f] = seen[f]
  BY <1>1, <1>2 DEF BodyEnds
<1>4. FlushGoes(e, deps)
  <2>1. CASE dead[e]
    BY <1>1, <2>1 DEF BodyEnds, FlushGoes, TypeOK
  <2>2. CASE ~dead[e]
    BY <1>1, <2>2, FlushLoopGoes DEF BodyEnds
  <2> QED  BY <2>1, <2>2
<1>5. ASSUME closed = "open", e \notin gone PROVE EffectRun(e)' /\ EffectRest(e)'
  <2>1. IF pending[e] THEN flush'[e] \in {"cleanup", "body"}
        ELSE flush'[e] = "none" /\ pending'[e] = pending[e] /\ dependents' = deps
    BY <1>1, <1>2, <1>5, FlushLoopGoes DEF BodyEnds
  <2>2. CASE pending[e]
    BY <1>3, <2>1, <2>2, EffectStarts
  <2>3. CASE ~pending[e]
    <3>1. EffectRun(e) /\ flush[e] = "body"
      BY <1>5 DEF FInv, Fed
    <3>2. /\ Len(args[e]) <= Len(Reads[e]) /\ Len(args[e]) \in Nat /\ Len(Reads[e]) \in Nat
          /\ \A i \in 1 .. Len(args[e]) : Heard(e, Reads[e][i], args[e][i])
          /\ \A i \in 1 .. Len(Reads[e]) : Reads[e][i] \in Node
          /\ IsSeq(args[e])
      BY <1>1, <1>2, <2>3, <3>1, ReadsAre, SeqAppend DEF EffectRun, Sound
    <3>3. Steady /\ \A d \in Node : e \in dependents[d] => e \in dependents'[d]
      BY <2>1, <2>3 DEF Steady
    <3>4. ASSUME read # None
          PROVE  /\ IsSeq(seen'[e]) /\ Len(seen'[e]) <= Len(Reads[e])
                 /\ \A i \in 1 .. Len(seen'[e]) : Heard(e, Reads[e][i], seen[e][i])'
      <4>1. PICK a : a = args[e]
        OBVIOUS
      <4>2. seen'[e] = a
        BY <1>3, <3>4, <4>1
      <4>3. ASSUME NEW i \in 1 .. Len(a) PROVE Heard(e, Reads[e][i], a[i])'
        <5>1. Reads[e][i] \in Node /\ Heard(e, Reads[e][i], a[i])
          BY <3>2, <4>1
        <5>2. Reads[e][i] \notin Dead' => Reads[e][i] \notin Dead
          BY <3>3, <5>1, SteadyShows
        <5> QED  BY <3>3, <5>1, <5>2, SteadyShows DEF Heard
      <4>4. \A i \in 1 .. Len(a) : Heard(e, Reads[e][i], seen[e][i])'
        BY <4>2, <4>3 DEF Heard, Shows
      <4> QED  BY <3>2, <4>1, <4>2, <4>4
    <3>5. EffectRest(e)'
      BY <1>3, <2>1, <2>3, <3>4 DEF EffectRest, IsSeq
    <3> QED  BY <2>1, <2>3, <3>5 DEF EffectRun
  <2> QED  BY <2>2, <2>3
<1> QED  BY <1>3, <1>4, <1>5, FreshFlush, SeqEmpty

(***************************************************************************)
(* Reading keeps it.                                                       *)
(***************************************************************************)
LEMMA FreshReads ==
  ASSUME IInv, FInv, NEW b \in Body, NEW d \in Node, NEW v, Running(b), HasNext(b), NextRead(b) = d,
         d \notin gone, dependents' = Tracked(d, Owner(b)),
         UNCHANGED <<graphVars, slotVars, taskVars, effectVars>>,
         \A c \in Body : c # b => args'[c] = args[c] /\ wait'[c] = wait[c],
         \/ args'[b] = Append(args[b], v) /\ wait'[b] = None /\ Shows(d, v)
         \/ args'[b] = args[b] /\ (wait'[b] # None => wait'[b].slot = d)
  PROVE  Sound' /\ Fed'
<1> USE DEF graphVars, slotVars, taskVars, effectVars
<1>1. TypeOK /\ Sound
  BY DEF IInv, FInv
<1>2. PICK r : r = Owner(b)
  OBVIOUS
<1>3. /\ r \in Slot \cup Effect /\ wait[b] = None /\ IsSeq(args[b])
      /\ b \in Task => r = task[b] /\ task[b] # None /\ task[b] \in Slot
                       /\ \A i \in DOMAIN ready : ready[i] # b
      /\ b \in Effect => r = b /\ flush[b] = "body"
  BY <1>2, RunningIs
<1>4. Len(args[b]) < Len(Reads[r]) /\ d = Reads[r][Len(args[b]) + 1] /\ d \in Reading(r)
  <2>1. Len(args[b]) < Len(Reads[r]) /\ d = Reads[r][Len(args[b]) + 1]
    BY <1>2 DEF HasNext, NextRead
  <2>2. Len(args[b]) \in Nat /\ Len(Reads[r]) \in Nat
    BY <1>3, SeqAppend, ReadsAre
  <2>3. Len(args[b]) + 1 \in 1..Len(Reads[r])
    BY <2>1, <2>2
  <2> QED  BY <1>3, <2>1, <2>3, ReadsAre
<1>5. /\ \A n \in Node : dependents[n] \subseteq dependents'[n]
      /\ \A n \in Node : \A q \in dependents'[n] : q \in dependents[n] \/ (n = d /\ q = r)
      /\ r \in dependents'[d]
  BY <1>1, <1>2 DEF Tracked, TypeOK
<1>6. Sound'
  <2>1. {b} \in SUBSET Body
    OBVIOUS
  <2>2. ASSUME NEW c \in Body \ {b}
        PROVE  /\ args'[c] = args[c] /\ (wait[c] = None => wait'[c] = None)
               /\ c \in Task => task'[c] = task[c]
               /\ c \in Effect => flush'[c] = "body" \/ flush[c] # "body"
    OBVIOUS
  <2>3. IsSeq(args'[b])
    <3>1. IsSeq(Append(args[b], v))
      BY <1>3, SeqAppend
    <3> QED  BY <1>3, <3>1
  <2>4. ASSUME NEW c \in {b}
        PROVE  /\ IsSeq(args'[c])
               /\ c \in Task /\ (task'[c] = None \/ \E i \in DOMAIN ready : ready[i] = c) =>
                    args'[c] = <<>> /\ wait'[c] = None
               /\ c \in Effect /\ flush'[c] # "body" => args'[c] = <<>>
    BY <1>3, <2>3
  <2>5. \A n \in Node : \A q \in dependents'[n] : q \in dependents[n] \/ n \in Reading(q)
    BY <1>4, <1>5
  <2> QED  BY <1>1, <2>1, <2>2, <2>4, <2>5, SoundKept
<1>7. Steady
  BY DEF Steady
<1>8. closed = "open" => Queued'
  BY <1>1, QueueKept DEF QuietQueue, FInv, Fed
<1>9. GoesOn(r, b, d, v) /\ (args'[b] # args[b] => Shows(d, v)')
  <2>1. Shows(d, v) => Shows(d, v)'
    BY DEF Shows
  <2> QED  BY <1>4, <1>5, <2>1 DEF GoesOn
<1>10. ASSUME closed = "open", NEW s \in Slot PROVE KeepsSlot(s) \/ (SlotRun(s)' /\ SlotRest(s)')
  <2>1. CASE future[s] = None \/ future[s] # b
    <3>1. future[s] # None => SameBody(s, future[s])
      BY <1>5, <2>1, FutureTask DEF SameBody, SameWait
    <3> QED  BY <1>5, <3>1 DEF KeepsSlot
  <2>2. CASE future[s] # None /\ future[s] = b
    <3>1. b \in Task /\ r = s
      BY <1>3, <2>2, FutureTask
    <3>2. SlotRun(s) /\ status[s] = "computing"
      BY <1>1, <1>10, <2>2 DEF FInv, Fed, Sound
    <3> QED  BY <1>1, <1>5, <1>7, <1>9, <2>2, <3>1, <3>2, SlotGoesOn
  <2> QED  BY <2>1, <2>2
<1>11. ASSUME closed = "open", NEW e \in Effect \ gone'
       PROVE  KeepsEffect(e) \/ (EffectRun(e)' /\ EffectRest(e)')
  <2>1. CASE e # b
    BY <1>5, <2>1 DEF KeepsEffect, SameBody, SameWait, Body
  <2>2. CASE e = b
    <3>1. e \notin gone /\ EffectRun(e) /\ flush[e] = "body" /\ r = e
      BY <1>3, <1>11, <2>2 DEF FInv, Fed
    <3> QED  BY <1>1, <1>5, <1>7, <1>9, <2>2, <3>1, EffectGoesOn
  <2> QED  BY <2>1, <2>2
<1>12. Fed'
  BY <1>1, <1>7, <1>8, <1>10, <1>11, FedKept DEF Fed
<1> QED  BY <1>6, <1>12

LEMMA FreshReadSource ==
  ASSUME IInv, FInv, NEW b \in Body, NEW x \in Source, ReadSource(b, x)
  PROVE  Sound' /\ Fed'
<1>1. /\ Running(b) /\ HasNext(b) /\ NextRead(b) = x /\ x \notin gone
      /\ dependents' = Tracked(x, Owner(b)) /\ args' = [args EXCEPT ![b] = Append(@, value[x])]
      /\ UNCHANGED <<graphVars, slotVars, taskVars, effectVars, wait>>
  BY DEF ReadSource
<1>2. wait'[b] = None /\ \A c \in Body : c # b => args'[c] = args[c] /\ wait'[c] = wait[c]
  BY <1>1, RunningIs DEF FInv, Shaped
<1>3. args'[b] = Append(args[b], value[x])
  BY <1>1 DEF FInv, Shaped
<1>4. Shows(x, value[x]) /\ x \in Node
  BY DEF Shows, Node
<1> QED  BY <1>1, <1>2, <1>3, <1>4, FreshReads

LEMMA FreshReadSlot ==
  ASSUME IInv, FInv, NEW b \in Body, NEW s \in Slot, ReadSlot(b, s)
  PROVE  Sound' /\ Fed'
<1>1. /\ Running(b) /\ HasNext(b) /\ NextRead(b) = s /\ s \notin gone
      /\ dependents' = Tracked(s, Owner(b)) /\ wait' = [wait EXCEPT ![b] = [slot |-> s, on |-> "loop"]]
      /\ UNCHANGED <<graphVars, slotVars, taskVars, effectVars, args>>
  BY DEF ReadSlot
<1>2. b \in Caller /\ Body \subseteq Caller /\ DOMAIN wait = Caller
  BY DEF Caller, IInv, TypeOK
<1>3. /\ \A c \in Body : c # b => args'[c] = args[c] /\ wait'[c] = wait[c]
      /\ args'[b] = args[b] /\ wait'[b].slot = s
  BY <1>1, <1>2
<1>4. s \in Node
  BY DEF Node
<1> QED  BY <1>1, <1>3, <1>4, FreshReads

LEMMA FreshFails ==
  ASSUME IInv, FInv, NEW b \in Body, ReadFails(b) \/ AwaitRaises(b) \/ BodyRaises(b)
  PROVE  Sound' /\ Fed'
<1> USE DEF graphVars, slotVars, taskVars, effectVars
<1>1. TypeOK /\ Sound
  BY DEF IInv, FInv
<1>2. /\ b \in Task => task[b] # None /\ \A i \in DOMAIN ready : ready[i] # b
      /\ b \in Effect => flush[b] = "body"
  <2>1. CASE Running(b)
    BY <2>1, RunningIs
  <2>2. CASE wait[b] # None
    BY <1>1, <2>2, EffectIdle DEF Sound
  <2> QED  BY <2>1, <2>2 DEF ReadFails, AwaitRaises, BodyRaises
<1>3. PICK deps :
        /\ Fails(b, deps)
        /\ \A d \in Node : /\ dependents[d] \subseteq deps[d]
                           /\ \A r \in deps[d] : r \in dependents[d] \/ d \in Reading(r)
  <2>1. CASE ReadFails(b)
    <3>1. Running(b) /\ HasNext(b) /\ Fails(b, Tracked(NextRead(b), Owner(b)))
      BY <2>1 DEF ReadFails
    <3>2. PICK r : r = Owner(b)
      OBVIOUS
    <3>3. r \in Slot \cup Effect /\ IsSeq(args[b])
      BY <3>1, <3>2, RunningIs
    <3>4. Len(args[b]) + 1 \in 1..Len(Reads[r]) /\ NextRead(b) = Reads[r][Len(args[b]) + 1]
      <4>1. Len(args[b]) < Len(Reads[r]) /\ NextRead(b) = Reads[r][Len(args[b]) + 1]
        BY <3>1, <3>2 DEF HasNext, NextRead
      <4>2. Len(args[b]) \in Nat /\ Len(Reads[r]) \in Nat
        BY <3>3, SeqAppend, ReadsAre
      <4> QED  BY <4>1, <4>2
    <3>5. NextRead(b) \in Node /\ NextRead(b) \in Reading(r)
      BY <3>3, <3>4, ReadsAre
    <3>6. ASSUME NEW d \in Node
          PROVE  /\ dependents[d] \subseteq Tracked(NextRead(b), r)[d]
                 /\ \A q \in Tracked(NextRead(b), r)[d] : q \in dependents[d] \/ d \in Reading(q)
      BY <1>1, <3>5 DEF Tracked, TypeOK
    <3> QED  BY <3>1, <3>2, <3>6
  <2>2. CASE AwaitRaises(b) \/ BodyRaises(b)
    BY <2>2 DEF AwaitRaises, BodyRaises
  <2> QED  BY <2>1, <2>2
<1>4. CASE b \in Task
  <2>1. /\ DriveEnds(b, TRUE) /\ dependents' = deps
        /\ UNCHANGED <<graphVars, effectVars, ready>>
    BY <1>3, <1>4 DEF Fails
  <2> QED  BY <1>2, <1>3, <1>4, <2>1, FreshDriveEnds
<1>5. CASE b \notin Task
  <2>1. b \in Effect
    BY <1>5 DEF Body
  <2>2. BodyEnds(b, FALSE, None, deps) /\ UNCHANGED <<graphVars, slotVars, taskVars>>
    BY <1>3, <1>5 DEF Fails
  <2> QED  BY <1>2, <1>3, <2>1, <2>2, FreshBodyEnds
<1> QED  BY <1>4, <1>5

LEMMA FreshEffectReturns ==
  ASSUME IInv, FInv, NEW e \in Effect, EffectReturns(e)
  PROVE  Sound' /\ Fed'
<1>1. PICK cleanup \in BOOLEAN : BodyEnds(e, cleanup, args[e], dependents)
  BY DEF EffectReturns
<1>2. Running(e) /\ UNCHANGED <<graphVars, slotVars, taskVars>>
  BY DEF EffectReturns
<1>3. flush[e] = "body"
  BY <1>2, RunningIs DEF Body
<1> QED  BY <1>1, <1>2, <1>3, FreshBodyEnds

(***************************************************************************)
(* Calls and the disposal of effects keep it.                              *)
(***************************************************************************)
LEMMA FreshCalls ==
  ASSUME IInv, FInv, NEW c \in Client, CallRaises(c) \/ \E s \in Slot : Call(c, s)
  PROVE  Sound' /\ Fed'
<1> USE DEF graphVars, effectVars
<1>1. UNCHANGED <<graphVars, dependents, slotVars, taskVars, args, effectVars>>
  BY DEF CallRaises, Call
<1>2. \A b \in Caller : b # c => wait'[b] = wait[b]
  BY DEF CallRaises, Call, IInv, TypeOK
<1>3. \A b \in Body : SameWait(b)
  BY <1>2, NodesAssumption DEF SameWait, Caller
<1> QED  BY <1>1, <1>3, FreshQuiet

LEMMA FreshDisposal ==
  ASSUME IInv, FInv, NEW e \in Effect, NEW d \in Disposer,
         DisposeEffect(e, d) \/ DisposeReleases(e, d) \/ DisposeEnds(e, d)
  PROVE  Sound' /\ Fed'
<1> USE DEF graphVars, slotVars, taskVars, bodyVars
<1>1. TypeOK /\ Disposal
  BY DEF IInv
<1>2. /\ UNCHANGED <<value, closed, slotVars, taskVars, bodyVars, flush, seen>>
      /\ gone' = gone \/ gone' = gone \cup {e}
      /\ \A f \in Effect : f # e => pending'[f] = pending[f]
  BY <1>1 DEF DisposeEffect, DisposeReleases, DisposeEnds, TypeOK
<1>3. e \in gone'
  <2>1. CASE DisposeEffect(e, d)
    BY <2>1 DEF DisposeEffect
  <2>2. CASE DisposeReleases(e, d) \/ DisposeEnds(e, d)
    <3>1. disposal[e][d] # "no" /\ gone' = gone
      BY <2>2 DEF DisposeReleases, DisposeEnds, At
    <3> QED  BY <1>1, <3>1 DEF Disposal, DisposalOf, Called
  <2> QED  BY <2>1, <2>2
<1>4. ASSUME NEW n \in Node
      PROVE  /\ dependents'[n] \subseteq dependents[n]
             /\ \A r \in dependents[n] : r \in dependents'[n] \/ r = e
  <2>1. dependents' = dependents \/ dependents' = Detached(e)
    BY DEF DisposeEffect, DisposeReleases, DisposeEnds
  <2> QED  BY <2>1 DEF Detached
<1>5. gone' \cap Node = gone \cap Node /\ gone \subseteq gone'
  BY <1>2, NodesAssumption
<1>6. \A b \in Body : SameWait(b)
  BY <1>2 DEF SameWait
<1> QED  BY <1>2, <1>3, <1>4, <1>5, <1>6, FreshQuiet

LEMMA FreshCloses ==
  ASSUME IInv, FInv, DisposeContext
  PROVE  Sound' /\ Fed'
<1> USE DEF slotVars, taskVars, bodyVars, effectVars
<1>1. /\ UNCHANGED <<value, gone, dependents, slotVars, taskVars, bodyVars, effectVars>>
      /\ closed' # "open"
  BY DEF DisposeContext
<1>2. \A b \in Body : SameWait(b)
  BY <1>1 DEF SameWait
<1> QED  BY <1>1, <1>2, FreshQuiet

LEMMA FreshContextDisposed ==
  ASSUME IInv, FInv, ContextDisposed
  PROVE  Sound' /\ Fed'
<1> USE DEF taskVars, bodyVars, effectVars
<1>1. /\ closed' = "closed" /\ dependents' = NoDependents
      /\ UNCHANGED <<taskVars, bodyVars, effectVars>>
      /\ status' = [s \in Slot |-> IF s \in gone THEN status[s] ELSE "empty"]
      /\ future' = [s \in Slot |-> IF s \in gone THEN future[s] ELSE None]
  BY DEF ContextDisposed
<1>2. {b \in Body : FALSE} \in SUBSET Body /\ {b \in Body : FALSE} = {}
  OBVIOUS
<1>3. \A d \in Node : dependents'[d] = {}
  BY <1>1 DEF NoDependents
<1>4. \A s \in Slot : future'[s] # None => future'[s] = future[s] /\ status'[s] = status[s]
  BY <1>1
<1>5. Sound'
  BY <1>1, <1>2, <1>3, <1>4, SoundKept DEF FInv
<1> QED  BY <1>1, <1>5 DEF Fed

LEMMA FreshReleaseEnds ==
  ASSUME IInv, FInv, NEW e \in Effect, ReleaseEnds(e)
  PROVE  Sound' /\ Fed'
<1> USE DEF graphVars, slotVars, taskVars, bodyVars
<1>1. /\ flush[e] = "release" /\ flush' = [flush EXCEPT ![e] = "none"]
      /\ UNCHANGED <<graphVars, dependents, slotVars, taskVars, bodyVars, pending, seen>>
  BY DEF ReleaseEnds
<1>2. FlushGoes(e, dependents)
  BY <1>1 DEF FlushGoes, IInv, TypeOK
<1>3. args'[e] = <<>>
  BY <1>1, EffectIdle
<1>4. closed = "open" /\ e \notin gone => FALSE
  BY <1>1 DEF FInv, Fed, EffectRest
<1> QED  BY <1>1, <1>2, <1>3, <1>4, SeqEmpty, FreshFlush

(***************************************************************************)
(* Writes, invalidations and disposals of nodes keep it: they strike the   *)
(* nodes X, and the cone K above them.                                     *)
(***************************************************************************)
LEMMA ConeIs ==
  ASSUME TypeOK, NEW roots \in SUBSET (Slot \cup Effect)
  PROVE  /\ Cone(roots) \subseteq Slot \cup Effect /\ roots \subseteq Cone(roots)
         /\ \A s \in Cone(roots) \cap Slot : dependents[s] \subseteq Cone(roots)
         /\ \A S \in SUBSET (Slot \cup Effect) :
              roots \subseteq S /\ (\A s \in S \cap Slot : dependents[s] \subseteq S) => Cone(roots) \subseteq S
<1>1. ASSUME NEW s \in Cone(roots) \cap Slot, NEW r \in dependents[s] PROVE r \in Cone(roots)
  <2>1. r \in Slot \cup Effect
    BY DEF TypeOK, Node
  <2>2. ASSUME NEW S \in SUBSET (Slot \cup Effect), roots \subseteq S,
               \A q \in S \cap Slot : dependents[q] \subseteq S
        PROVE  r \in S
    BY <1>1, <2>2 DEF Cone
  <2> QED  BY <2>1, <2>2 DEF Cone
<1>2. Cone(roots) \subseteq Slot \cup Effect /\ roots \subseteq Cone(roots)
  BY DEF Cone
<1>3. \A S \in SUBSET (Slot \cup Effect) :
        roots \subseteq S /\ (\A s \in S \cap Slot : dependents[s] \subseteq S) => Cone(roots) \subseteq S
  BY DEF Cone
<1> QED  BY <1>1, <1>2, <1>3

\* The cone above a disposed node is dead.
LEMMA ConeDies ==
  ASSUME TypeOK, Sound, NEW d \in Node, d \in gone', NEW s \in Cone(dependents[d]) \cap Slot
  PROVE  s \in Dead'
<1> DEFINE S == (Dead' \cap Slot) \cup Effect
<1>1. /\ Dead' \subseteq Node /\ gone' \cap Node \subseteq Dead'
      /\ \A q \in Slot : Reading(q) \cap Dead' # {} => q \in Dead'
  BY NextDead DEF LeastDead, Reading
<1>2. ASSUME NEW n \in Node, n \in Dead', NEW r \in dependents[n] PROVE r \in S
  <2>1. r \in Slot \cup Effect /\ n \in Reading(r)
    BY DEF TypeOK, Sound
  <2> QED  BY <1>1, <1>2, <2>1
<1>3. dependents[d] \subseteq S
  BY <1>1, <1>2
<1>4. \A q \in S \cap Slot : dependents[q] \subseteq S
  BY <1>2, NodesAssumption DEF Node
<1>5. dependents[d] \in SUBSET (Slot \cup Effect) /\ S \in SUBSET (Slot \cup Effect)
  BY DEF TypeOK
<1>6. s \in S
  <2> HIDE DEF S
  <2> QED  BY <1>3, <1>4, <1>5, ConeIs
<1> QED  BY <1>6, NodesAssumption DEF Node

Struck(X, K) ==
  /\ X \subseteq Node /\ K \subseteq Slot \cup Effect
  /\ \A d \in X : dependents[d] \subseteq K
  /\ \A s \in K \cap Slot : dependents[s] \subseteq K
  /\ \A x \in Source \ X : value'[x] = value[x]
  /\ \A s \in Slot :
       IF s \in X \cup K THEN future'[s] = None /\ status'[s] # "resolved"
       ELSE future'[s] = future[s] /\ status'[s] = status[s] /\ val'[s] = val[s]
  /\ gone \subseteq gone' /\ gone' \cap Node \subseteq gone \cup X
  /\ \A d \in Node : /\ dependents'[d] \subseteq dependents[d]
                     /\ \A r \in dependents[d] : r \in dependents'[d] \/ d \in X \/ r \in X
  /\ \A e \in Effect : flush[e] = "body" => flush'[e] = "body"
  /\ \A e \in Effect \ gone' :
       \/ pending'[e] /\ flush'[e] \notin {"none", "release"}
       \/ flush'[e] = flush[e] /\ pending'[e] = pending[e]
            /\ (e \in K => X \cup (K \cap Slot) \subseteq Dead')

LEMMA StruckKept ==
  ASSUME IInv, FInv, closed = "open", NEW X, NEW K, Struck(X, K),
         UNCHANGED <<closed, taskVars, bodyVars, seen>>
  PROVE  Sound' /\ Fed'
<1> USE DEF taskVars, bodyVars
<1>1. TypeOK /\ Sound
  BY DEF IInv, FInv
<1>2. {b \in Body : FALSE} \in SUBSET Body /\ {b \in Body : FALSE} = {}
  OBVIOUS
<1>3. Sound'
  <2>1. \A s \in Slot : future'[s] # None => future'[s] = future[s] /\ status'[s] = status[s]
    BY DEF Struck
  <2>2. \A d \in Node : \A r \in dependents'[d] : r \in dependents[d] \/ d \in Reading(r)
    BY DEF Struck
  <2>3. \A b \in Body : b \in Effect => flush'[b] = "body" \/ flush[b] # "body"
    BY DEF Struck
  <2> QED  BY <1>1, <1>2, <2>1, <2>2, <2>3, SoundKept
<1>4. ASSUME NEW r \in (Slot \cup Effect) \ (X \cup K), NEW d \in Node, r \in dependents[d]
      PROVE  /\ d \notin X \cup K /\ r \in dependents'[d] /\ (d \notin gone => d \notin gone')
             /\ \A v : Shows(d, v) => Shows(d, v)'
  <2>1. d \notin X /\ (d \in Slot => d \notin K)
    BY <1>4 DEF Struck
  <2>2. d \notin K
    BY <2>1, NodesAssumption DEF Struck, Node
  <2>3. r \in dependents'[d] /\ (d \notin gone => d \notin gone')
    BY <1>4, <2>1 DEF Struck
  <2>4. \A v : Shows(d, v) => Shows(d, v)'
    <3>1. CASE d \in Source
      BY <2>1, <3>1 DEF Struck, Shows
    <3>2. CASE d \notin Source
      <4>1. d \in Slot /\ status'[d] = status[d] /\ val'[d] = val[d]
        BY <2>1, <2>2, <3>2 DEF Struck, Node
      <4> QED  BY <3>2, <4>1 DEF Shows
    <3> QED  BY <3>1, <3>2
  <2> QED  BY <2>1, <2>2, <2>3, <2>4
<1>5. Queued'
  <2>1. QuietQueue
    BY DEF QuietQueue, Struck
  <2> QED  BY <1>1, <2>1, QueueKept DEF FInv, Fed
<1>6. ASSUME NEW s \in Slot PROVE SlotRun(s)' /\ SlotRest(s)'
  <2>1. CASE s \in X \cup K
    BY <2>1 DEF Struck, SlotRun, SlotRest
  <2>2. CASE s \notin X \cup K
    <3>1. future'[s] = future[s] /\ status'[s] = status[s] /\ val'[s] = val[s]
      BY <2>2 DEF Struck
    <3>2. LinksKept(s)
      BY <1>4, <2>2 DEF LinksKept
    <3>3. \A d \in Node : s \in dependents[d] => s \in dependents'[d]
      BY <1>4, <2>2
    <3>4. KeepsSlot(s)
      BY <3>1, <3>3 DEF KeepsSlot, SameBody, SameWait
    <3>5. SlotRun(s) /\ SlotRest(s)
      BY DEF FInv, Fed
    <3> QED  BY <1>1, <3>2, <3>4, <3>5, SlotKept
  <2> QED  BY <2>1, <2>2
<1>7. ASSUME NEW e \in Effect \ gone' PROVE EffectRun(e)' /\ EffectRest(e)'
  <2>1. CASE pending'[e] /\ flush'[e] \notin {"none", "release"}
    BY <2>1, EffectQueued
  <2>2. CASE ~(pending'[e] /\ flush'[e] \notin {"none", "release"})
    <3>1. flush'[e] = flush[e] /\ pending'[e] = pending[e] /\ (e \in K => X \cup (K \cap Slot) \subseteq Dead')
      BY <2>2 DEF Struck
    <3>2. gone \cap Node \subseteq gone' /\ e \notin gone /\ e \notin X
      BY NodesAssumption DEF Struck
    <3>3. StillHears(e)
      <4>1. ASSUME NEW d \in Node, d \notin Dead'
            PROVE  /\ d \notin Dead
                   /\ e \in dependents[d] => e \in dependents'[d] /\ \A v : Shows(d, v) => Shows(d, v)'
        <5>1. d \notin Dead
          BY <3>2, <4>1, DeadGrows
        <5>2. CASE e \notin K
          BY <1>4, <3>2, <5>1, <5>2
        <5>3. CASE e \in K
          <6>1. d \notin X /\ (d \in Slot => d \notin K)
            BY <3>1, <4>1, <5>3
          <6>2. e \in dependents[d] => e \in dependents'[d]
            BY <3>2, <6>1 DEF Struck
          <6>3. CASE d \in Source
            BY <5>1, <6>1, <6>2, <6>3 DEF Struck, Shows
          <6>4. CASE d \notin Source
            <7>1. d \in Slot /\ status'[d] = status[d] /\ val'[d] = val[d]
              BY <6>1, <6>4 DEF Struck, Node
            <7> QED  BY <5>1, <6>2, <6>4, <7>1 DEF Shows
          <6> QED  BY <6>3, <6>4
        <5> QED  BY <5>2, <5>3
      <4> QED  BY <4>1 DEF StillHears
    <3>4. EffectRun(e) /\ EffectRest(e)
      BY <3>2 DEF FInv, Fed
    <3> QED  BY <1>1, <3>1, <3>3, <3>4, EffectKept DEF SameWait
  <2> QED  BY <2>1, <2>2
<1> QED  BY <1>3, <1>5, <1>6, <1>7 DEF Fed

LEMMA FreshWrite ==
  ASSUME IInv, FInv, Write
  PROVE  Sound' /\ Fed'
<1>1. TypeOK /\ Sound
  BY DEF IInv, FInv
<1>2. PICK new \in [Source -> Val] :
        LET X == {x \in Source : new[x] # value[x]} IN
        /\ value' = new
        /\ IF closed = "open" THEN Invalidates(UNION {dependents[x] : x \in X})
           ELSE UNCHANGED <<slotVars, pending, flush>>
  BY DEF Write
<1>3. UNCHANGED <<gone, closed, awaited, dependents, taskVars, bodyVars, seen>>
  BY DEF Write
<1>4. PICK X : X = {x \in Source : new[x] # value[x]}
  OBVIOUS
<1>5. CASE closed = "open"
  <2>1. PICK roots : roots = UNION {dependents[x] : x \in X}
    OBVIOUS
  <2>2. roots \in SUBSET (Slot \cup Effect)
    BY <1>1, <1>4, <2>1 DEF TypeOK, Node
  <2>3. PICK K : K = Cone(roots)
    OBVIOUS
  <2>4. /\ K \subseteq Slot \cup Effect /\ roots \subseteq K
        /\ \A s \in K \cap Slot : dependents[s] \subseteq K
    BY <1>1, <2>2, <2>3, ConeIs
  <2>5. Invalidated(K \cap Slot) /\ Scheduled(K)
    BY <1>2, <1>4, <1>5, <2>1, <2>3 DEF Invalidates
  <2>6. Struck(X, K)
    <3>1. X \subseteq Node /\ \A d \in X : dependents[d] \subseteq K
      BY <1>4, <2>1, <2>4 DEF Node
    <3>2. \A x \in Source \ X : value'[x] = value[x]
      BY <1>2, <1>4
    <3>3. \A s \in Slot :
            IF s \in X \cup K THEN future'[s] = None /\ status'[s] # "resolved"
            ELSE future'[s] = future[s] /\ status'[s] = status[s] /\ val'[s] = val[s]
      <4>1. \A s \in Slot : s \notin X
        BY <1>4, NodesAssumption
      <4> QED  BY <2>5, <4>1 DEF Invalidated
    <3>4. \A e \in Effect : flush[e] = "body" => flush'[e] = "body"
      BY <2>5 DEF Scheduled
    <3>5. ASSUME NEW e \in Effect \ gone'
          PROVE  \/ pending'[e] /\ flush'[e] \notin {"none", "release"}
                 \/ flush'[e] = flush[e] /\ pending'[e] = pending[e] /\ e \notin K
      <4>1. flush[e] # "release" /\ e \notin gone /\ pending[e] \in BOOLEAN
        BY <1>1, <1>3, <1>5 DEF FInv, Fed, EffectRest, TypeOK
      <4>2. /\ pending'[e] = (pending[e] \/ e \in K \ gone)
            /\ flush'[e] = IF e \in K \ gone /\ flush[e] = "none" THEN "new" ELSE flush[e]
        BY <2>5 DEF Scheduled
      <4>3. CASE e \in K
        BY <4>1, <4>2, <4>3
      <4>4. CASE e \notin K
        BY <4>1, <4>2, <4>4
      <4> QED  BY <4>3, <4>4
    <3> QED  BY <1>3, <2>4, <3>1, <3>2, <3>3, <3>4, <3>5 DEF Struck
  <2> QED  BY <1>3, <1>5, <2>6, StruckKept
<1>6. CASE closed # "open"
  <2>1. UNCHANGED <<slotVars, pending, flush>>
    BY <1>2, <1>6
  <2>2. {b \in Body : FALSE} \in SUBSET Body /\ {b \in Body : FALSE} = {}
    OBVIOUS
  <2>3. Sound'
    BY <1>1, <1>3, <2>1, <2>2, SoundKept DEF slotVars, taskVars, bodyVars
  <2> QED  BY <1>3, <1>6, <2>3 DEF Fed
<1> QED  BY <1>5, <1>6

LEMMA FreshInvalidateSlot ==
  ASSUME IInv, FInv, NEW s \in Slot, InvalidateSlot(s)
  PROVE  Sound' /\ Fed'
<1>1. TypeOK /\ Sound
  BY DEF IInv, FInv
<1>2. UNCHANGED <<graphVars, dependents, taskVars, bodyVars, seen>>
  BY DEF InvalidateSlot
<1>3. CASE closed = "open"
  <2>1. PICK K : K = Cone(dependents[s])
    OBVIOUS
  <2>2. /\ K \subseteq Slot \cup Effect /\ dependents[s] \subseteq K
        /\ \A q \in K \cap Slot : dependents[q] \subseteq K
    <3>1. dependents[s] \in SUBSET (Slot \cup Effect)
      BY <1>1 DEF TypeOK, Node
    <3> QED  BY <1>1, <2>1, <3>1, ConeIs
  <2>3. Invalidated(({s} \cup K) \cap Slot) /\ Scheduled(K)
    BY <1>3, <2>1 DEF InvalidateSlot
  <2>4. Struck({s}, K)
    <3>1. {s} \subseteq Node
      BY DEF Node
    <3>2. \A q \in Slot :
            IF q \in {s} \cup K THEN future'[q] = None /\ status'[q] # "resolved"
            ELSE future'[q] = future[q] /\ status'[q] = status[q] /\ val'[q] = val[q]
      BY <2>3 DEF Invalidated
    <3>3. \A e \in Effect : flush[e] = "body" => flush'[e] = "body"
      BY <2>3 DEF Scheduled
    <3>4. ASSUME NEW e \in Effect \ gone'
          PROVE  \/ pending'[e] /\ flush'[e] \notin {"none", "release"}
                 \/ flush'[e] = flush[e] /\ pending'[e] = pending[e] /\ e \notin K
      <4>1. flush[e] # "release" /\ e \notin gone /\ pending[e] \in BOOLEAN
        BY <1>1, <1>2, <1>3 DEF FInv, Fed, EffectRest, TypeOK, graphVars
      <4>2. /\ pending'[e] = (pending[e] \/ e \in K \ gone)
            /\ flush'[e] = IF e \in K \ gone /\ flush[e] = "none" THEN "new" ELSE flush[e]
        BY <2>3 DEF Scheduled
      <4>3. CASE e \in K
        BY <4>1, <4>2, <4>3
      <4>4. CASE e \notin K
        BY <4>1, <4>2, <4>4
      <4> QED  BY <4>3, <4>4
    <3> QED  BY <1>2, <2>2, <3>1, <3>2, <3>3, <3>4 DEF Struck, graphVars
  <2> QED  BY <1>2, <1>3, <2>4, StruckKept DEF graphVars
<1>4. CASE closed # "open"
  <2>1. Invalidated({s}) /\ UNCHANGED <<pending, flush>>
    BY <1>4 DEF InvalidateSlot
  <2>2. {b \in Body : FALSE} \in SUBSET Body /\ {b \in Body : FALSE} = {}
    OBVIOUS
  <2>3. \A q \in Slot : future'[q] # None => future'[q] = future[q] /\ status'[q] = status[q]
    BY <2>1 DEF Invalidated
  <2>4. Sound'
    BY <1>1, <1>2, <2>1, <2>2, <2>3, SoundKept DEF taskVars, bodyVars
  <2> QED  BY <1>2, <1>4, <2>4 DEF Fed, graphVars
<1> QED  BY <1>3, <1>4

\* The disposals, and hard_clear, schedule no effect.
LEMMA FreshHardClear ==
  ASSUME Unread, IInv, FInv, NEW s \in Slot, HardClear(s)
  PROVE  Sound' /\ Fed'
<1> USE DEF effectVars, graphVars
<1>1. TypeOK /\ Sound
  BY DEF IInv, FInv
<1>2. /\ UNCHANGED <<graphVars, dependents, taskVars, bodyVars, effectVars>>
      /\ status' = [status EXCEPT ![s] = "empty"] /\ val' = [val EXCEPT ![s] = None]
      /\ future' = [future EXCEPT ![s] = None] /\ s \in Clearable
  BY DEF HardClear
<1>3. dependents[s] = {}
  <2>1. ASSUME NEW r \in dependents[s] PROVE FALSE
    <3>1. r \in Slot \cup Effect /\ s \in Reading(r)
      BY <1>1, <2>1 DEF TypeOK, Sound, Node
    <3> QED  BY <1>2, <3>1 DEF Unread
  <2> QED  BY <2>1
<1>4. \A q \in Slot :
        IF q = s THEN future'[q] = None /\ status'[q] # "resolved"
        ELSE future'[q] = future[q] /\ status'[q] = status[q] /\ val'[q] = val[q]
  BY <1>1, <1>2 DEF TypeOK, FInv, Shaped
<1>5. CASE closed = "open"
  <2>1. Struck({s}, {})
    BY <1>2, <1>3, <1>4 DEF Struck, Node
  <2> QED  BY <1>2, <1>5, <2>1, StruckKept
<1>6. CASE closed # "open"
  <2>1. {b \in Body : FALSE} \in SUBSET Body /\ {b \in Body : FALSE} = {}
    OBVIOUS
  <2>2. \A q \in Slot : future'[q] # None => future'[q] = future[q] /\ status'[q] = status[q]
    BY <1>4
  <2>3. Sound'
    BY <1>1, <1>2, <2>1, <2>2, SoundKept DEF taskVars, bodyVars
  <2> QED  BY <1>2, <1>6, <2>3 DEF Fed
<1> QED  BY <1>5, <1>6

LEMMA FreshDisposes ==
  ASSUME IInv, FInv, NEW d \in Node, (d \in Source /\ DisposeSource(d)) \/ (d \in Slot /\ DisposeSlot(d))
  PROVE  Sound' /\ Fed'
<1> USE DEF effectVars
<1>1. TypeOK /\ Sound
  BY DEF IInv, FInv
<1>2. gone' = gone \cup {d} /\ UNCHANGED <<value, closed, awaited, taskVars, bodyVars, effectVars>>
  BY DEF DisposeSource, DisposeSlot
<1>3. PICK K : K = Cone(dependents[d])
  OBVIOUS
<1>4. /\ K \subseteq Slot \cup Effect /\ dependents[d] \subseteq K
      /\ \A q \in K \cap Slot : dependents[q] \subseteq K
  <2>1. dependents[d] \in SUBSET (Slot \cup Effect)
    BY <1>1 DEF TypeOK
  <2> QED  BY <1>1, <1>3, <2>1, ConeIs
<1>5. ASSUME NEW n \in Node
      PROVE  /\ dependents'[n] \subseteq dependents[n]
             /\ \A r \in dependents[n] : r \in dependents'[n] \/ n = d \/ r = d
  <2>1. CASE d \in Source /\ DisposeSource(d)
    BY <1>1, <2>1 DEF DisposeSource, TypeOK
  <2>2. CASE d \in Slot /\ DisposeSlot(d)
    BY <1>1, <2>2 DEF DisposeSlot, Detached, TypeOK
  <2> QED  BY <2>1, <2>2
<1>6. ASSUME NEW q \in Slot
      PROVE  IF q = d \/ q \in K THEN future'[q] = None /\ status'[q] # "resolved"
             ELSE future'[q] = future[q] /\ status'[q] = status[q] /\ val'[q] = val[q]
  <2>1. CASE d \in Source /\ DisposeSource(d)
    <3>1. Invalidated(K \cap Slot) /\ q # d
      BY <1>3, <2>1, NodesAssumption DEF DisposeSource
    <3> QED  BY <3>1 DEF Invalidated
  <2>2. CASE d \in Slot /\ DisposeSlot(d)
    BY <1>3, <2>2 DEF DisposeSlot
  <2> QED  BY <2>1, <2>2
<1>7. CASE closed = "open"
  <2>1. {d} \cup (K \cap Slot) \subseteq Dead'
    <3>1. d \in gone' /\ gone' \cap Node \subseteq Dead'
      BY <1>2, NextDead DEF LeastDead
    <3> QED  BY <1>1, <1>3, <3>1, ConeDies
  <2>2. Struck({d}, K)
    BY <1>2, <1>4, <1>5, <1>6, <2>1 DEF Struck
  <2> QED  BY <1>2, <1>7, <2>2, StruckKept
<1>8. CASE closed # "open"
  <2>1. {b \in Body : FALSE} \in SUBSET Body /\ {b \in Body : FALSE} = {}
    OBVIOUS
  <2>2. \A q \in Slot : future'[q] # None => future'[q] = future[q] /\ status'[q] = status[q]
    BY <1>6
  <2>3. \A n \in Node : \A r \in dependents'[n] : r \in dependents[n] \/ n \in Reading(r)
    BY <1>5
  <2>4. Sound'
    BY <1>1, <1>2, <2>1, <2>2, <2>3, SoundKept DEF taskVars, bodyVars
  <2> QED  BY <1>2, <1>8, <2>4 DEF Fed
<1> QED  BY <1>7, <1>8

(***************************************************************************)
(* The invariant is kept.                                                  *)
(***************************************************************************)
LEMMA ShapedKept == Shaped /\ Next => Shaped'
<1> SUFFICES ASSUME Shaped, Next PROVE Shaped'
  OBVIOUS
<1> USE DEF slotVars, taskVars, bodyVars, effectVars
<1>1. ASSUME NEW t \in Task, NEW raises, DriveEnds(t, raises) PROVE DOMAIN args' = Body /\ DOMAIN val' = Slot
  BY <1>1 DEF DriveEnds, Shaped
<1>2. ASSUME NEW e \in Effect, NEW cleanup, NEW read, NEW deps, BodyEnds(e, cleanup, read, deps)
      PROVE  DOMAIN args' = Body /\ DOMAIN seen' = Effect
  BY <1>2 DEF BodyEnds, Shaped
<1>3. ASSUME NEW b \in Body, NEW deps, Fails(b, deps) PROVE Shaped'
  BY <1>1, <1>2, <1>3 DEF Fails, Shaped, Body
<1>4. ASSUME NEW c, Get(c) PROVE Shaped'
  BY <1>4 DEF Get, GetResolved, GetAttaches, GetSpawns, Shaped
<1>5. ASSUME NEW b \in Body, BodyStep(b) \/ BodyRaises(b) PROVE Shaped'
  <2>1. CASE Get(b) \/ AwaitRaises(b) \/ ReadFails(b) \/ BodyRaises(b)
    BY <1>3, <1>4, <2>1 DEF AwaitRaises, ReadFails, BodyRaises
  <2>2. CASE \E x \in Source : ReadSource(b, x)
    BY <2>2 DEF ReadSource, Shaped
  <2>3. CASE \E s \in Slot : ReadSlot(b, s)
    BY <2>3 DEF ReadSlot, Shaped
  <2> QED  BY <1>5, <2>1, <2>2, <2>3 DEF BodyStep
<1>6. ASSUME NEW t \in Task, TaskStep(t) \/ BodyRaises(t) PROVE Shaped'
  <2>1. CASE StartTask(t) \/ SlotReturns(t)
    BY <1>1, <2>1 DEF StartTask, SlotReturns, Shaped
  <2> QED  BY <1>5, <1>6, <2>1 DEF TaskStep, Body
<1>7. ASSUME NEW e \in Effect, EffectStep(e) \/ BodyRaises(e) PROVE Shaped'
  <2>1. CASE FlushStart(e) \/ CleanupEnds(e) \/ ReleaseEnds(e)
    BY <2>1 DEF FlushStart, CleanupEnds, ReleaseEnds, Shaped
  <2>2. CASE EffectReturns(e)
    BY <1>2, <2>2 DEF EffectReturns, Shaped
  <2> QED  BY <1>5, <1>7, <2>1, <2>2 DEF EffectStep, Body
<1>8. ASSUME NEW c \in Client, ClientStep(c) \/ \E s \in Slot : Call(c, s) PROVE Shaped'
  BY <1>4, <1>8 DEF ClientStep, CallRaises, Call, Shaped
<1>9. ASSUME NEW e \in Effect, NEW d \in Disposer, DisposeEffect(e, d) \/ DisposeStep(e, d) PROVE Shaped'
  BY <1>9 DEF DisposeEffect, DisposeStep, DisposeReleases, DisposeEnds, Shaped
<1>10. ASSUME DisposeContext \/ ContextDisposed PROVE Shaped'
  BY <1>10 DEF DisposeContext, ContextDisposed, Shaped
<1>11. ASSUME Write PROVE Shaped'
  BY <1>11 DEF Write, Invalidates, Invalidated, Shaped
<1>12. ASSUME NEW s \in Slot, InvalidateSlot(s) \/ HardClear(s) \/ DisposeSlot(s) PROVE Shaped'
  BY <1>12 DEF InvalidateSlot, HardClear, DisposeSlot, Invalidated, Shaped
<1>13. ASSUME NEW x \in Source, DisposeSource(x) PROVE Shaped'
  BY <1>13 DEF DisposeSource, Invalidated, Shaped
<1> QED  BY <1>6, <1>7, <1>8, <1>9, <1>10, <1>11, <1>12, <1>13 DEF Next

LEMMA FreshInit == Init => FInv
<1> SUFFICES ASSUME Init PROVE FInv
  OBVIOUS
<1>1. Shaped
  BY DEF Init, Shaped
<1>2. ready = <<>> /\ DOMAIN ready = {}
  BY DEF Init
<1>3. \A b \in Body : args[b] = <<>> /\ wait[b] = None
  BY DEF Init, Caller, Body
<1>4. Sound
  <2>1. \A d \in Node : dependents[d] = {}
    BY DEF Init, NoDependents
  <2>2. \A b \in Body : IsSeq(args[b])
    BY <1>3, SeqEmpty
  <2> QED  BY <1>3, <2>1, <2>2 DEF Init, Sound, Body
<1>5. Queued
  BY <1>2 DEF Queued
<1>6. \A s \in Slot : SlotRun(s) /\ SlotRest(s)
  BY DEF Init, SlotRun, SlotRest
<1>7. \A e \in Effect : EffectRun(e) /\ EffectRest(e)
  BY DEF Init, EffectRun, EffectRest
<1> QED  BY <1>1, <1>4, <1>5, <1>6, <1>7 DEF FInv, Fed

LEMMA FreshUnchanged ==
  ASSUME IInv, FInv, UNCHANGED vars
  PROVE  FInv'
<1> USE DEF vars, graphVars, slotVars, taskVars, bodyVars, effectVars
<1>1. \A b \in Body : SameWait(b)
  BY DEF SameWait
<1>2. Sound' /\ Fed'
  BY <1>1, FreshQuiet
<1> QED  BY <1>2 DEF FInv, Shaped

LEMMA FreshHeld ==
  ASSUME Unread, IInv, FInv, Next
  PROVE  FInv'
<1>1. ASSUME NEW c \in Caller, Get(c) PROVE Sound' /\ Fed'
  BY <1>1, FreshGetResolved, FreshGetAttaches, FreshGetSpawns DEF Get
<1>2. ASSUME NEW b \in Body, BodyStep(b) \/ BodyRaises(b) PROVE Sound' /\ Fed'
  BY <1>1, <1>2, FreshFails, FreshReadSource, FreshReadSlot DEF BodyStep, Caller
<1>3. ASSUME NEW t \in Task, TaskStep(t) \/ BodyRaises(t) PROVE Sound' /\ Fed'
  BY <1>2, <1>3, FreshStartTask, FreshSlotReturns DEF TaskStep, Body
<1>4. ASSUME NEW e \in Effect, EffectStep(e) \/ BodyRaises(e) PROVE Sound' /\ Fed'
  BY <1>2, <1>4, FreshFlushStart, FreshEffectReturns, FreshReleaseEnds DEF EffectStep, Body
<1>5. ASSUME NEW c \in Client, ClientStep(c) \/ \E s \in Slot : Call(c, s) PROVE Sound' /\ Fed'
  BY <1>1, <1>5, FreshCalls DEF ClientStep, Caller
<1>6. ASSUME NEW e \in Effect, NEW d \in Disposer, DisposeEffect(e, d) \/ DisposeStep(e, d)
      PROVE  Sound' /\ Fed'
  BY <1>6, FreshDisposal DEF DisposeStep
<1>7. ASSUME NEW s \in Slot, InvalidateSlot(s) \/ HardClear(s) \/ DisposeSlot(s) PROVE Sound' /\ Fed'
  BY <1>7, FreshInvalidateSlot, FreshHardClear, FreshDisposes DEF Node
<1>8. ASSUME NEW x \in Source, DisposeSource(x) PROVE Sound' /\ Fed'
  BY <1>8, FreshDisposes DEF Node
<1>9. Sound' /\ Fed'
  BY <1>3, <1>4, <1>5, <1>6, <1>7, <1>8, FreshWrite, FreshCloses, FreshContextDisposed DEF Next
<1> QED  BY <1>9, ShapedKept DEF FInv

\* In a graph without cycles, whose hard-cleared slots nobody reads, a resolved
\* slot holds what recomputing it would give and an effect at rest has seen the
\* present values: no write, invalidation, disposal or failure between two awaits
\* of a computation is ever lost, and no stale completion is published
\* (async_slot.py _drive, async_effect.py flush, async_context.py
\* _invalidate_dependents).
THEOREM ValuesStayFresh ==
  ASSUME Acyclic, Unread
  PROVE  Spec => []ValuesFresh
<1>1. Init => FInv
  BY FreshInit
<1>2. IInv /\ FInv /\ [Next]_vars => FInv'
  BY FreshHeld, FreshUnchanged
<1>3. FInv => ValuesFresh
  BY FedIsFresh
<1> QED  BY <1>1, <1>2, <1>3, InvariantAlways, PTL DEF Spec
===============================================================================
