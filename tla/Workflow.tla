------------------------------- MODULE Workflow -------------------------------
(***************************************************************************)
(* A durable workflow's context (workflow.py) with its engine-bound clock, *)
(* driving timers and one chart that projects an external authority        *)
(* (projected_chart.py).  Observations carry the authority's time and come *)
(* late and out of order; the engine's clock is read once per advance.     *)
(***************************************************************************)
EXTENDS Integers, Sequences, FiniteSets, SequencesExt

CONSTANTS
  Lifecycle,  \* declared state -> the states that may follow it
  Undeclared, \* states the authority may show that are not declared
  Deadline,   \* declared state -> its deadline, 0 for none
  Start,      \* the initial state
  Timer,      \* timer -> its fire_at
  Chart,      \* the chart, as a source
  MaxTime, MaxObservations

VARIABLES
  chart,     \* _state, _entered_at, _observed_at, _now, _violations, and the cells it publishes
  fired,     \* the timers that have fired
  sources,   \* WorkflowContext._sources
  last,      \* WorkflowClock._last
  told,      \* ghost: the sources whose edge an advance has returned
  failed,    \* ghost: an advance has raised between two sources
  delivered  \* ghost: the observations, in order of delivery
vars == <<chart, fired, sources, last, told, failed, delivered>>

Time == 0..MaxTime
Least(S) == CHOOSE x \in S : \A y \in S : x <= y
Larger(m, n) == IF m > n THEN m ELSE n

-----------------------------------------------------------------------------
\* The chart's own questions.
Allows(from, to) == from \in DOMAIN Lifecycle /\ to \in Lifecycle[from]
DeadlineOf(s) == IF s \in DOMAIN Lifecycle THEN Deadline[s] ELSE 0
OverdueBy(c) ==
  IF DeadlineOf(c.state) = 0 THEN 0 ELSE Larger(0, c.now - c.entered - DeadlineOf(c.state))
Wedged(c) == OverdueBy(c) > 0
Publish(c) == [c EXCEPT !.cells = <<c.state, Wedged(c), c.violations>>]

Kind(c, s, at) ==
  CASE at < c.observed -> "stale"
    [] at >= c.observed /\ s \notin DOMAIN Lifecycle -> "unknown_state"
    [] at >= c.observed /\ s \in DOMAIN Lifecycle /\ s = c.state -> "reaffirmed"
    [] OTHER -> IF Allows(c.state, s) THEN "entered" ELSE "illegal"
\* Mutant: a re-observation enters the state anew.
AdoptAnew(c, s, at) ==
  IF Kind(c, s, at) = "stale" THEN c
  ELSE [c EXCEPT !.observed = at, !.now = Larger(@, at), !.state = s, !.entered = at,
          !.violations = IF Kind(c, s, at) \in {"illegal", "unknown_state"} THEN @ + 1 ELSE @]
\* An observation is adopted whatever the lifecycle says of it; only one
\* that is not a re-observation enters the state anew.
Adopt(c, s, at) ==
  LET kind == Kind(c, s, at)
      clocked == [c EXCEPT !.observed = at, !.now = Larger(@, at)]
      entered == [clocked EXCEPT !.state = s, !.entered = at]
  IN CASE kind = "stale" -> c
       [] kind = "reaffirmed" -> clocked
       [] kind = "entered" -> entered
       [] OTHER -> [entered EXCEPT !.violations = @ + 1]

-----------------------------------------------------------------------------
\* Sources: when each fires next (none: the empty set), and what a tick does.
NextFire(s) ==
  CASE s = Chart -> IF DeadlineOf(chart.state) = 0 \/ Wedged(chart) THEN {}
                    ELSE {chart.entered + DeadlineOf(chart.state)}
    [] s # Chart -> IF s \in fired THEN {} ELSE {Timer[s]}
\* The delay handed to the engine's timer: 0 when something is already due.
Pending == UNION {NextFire(s) : s \in ToSet(sources)}
NextWakeup == IF Pending = {} THEN {} ELSE {Larger(0, Least(Pending) - last)}

\* Ticking in registration order.  The chart refuses a clock behind its own,
\* and the sources after it are not ticked, nor the edges before it returned.
Ticked(r) == LET i == CHOOSE j \in 1..Len(sources) + 1 :
                        /\ (j = Len(sources) + 1 \/ (sources[j] = Chart /\ r < chart.now))
                        /\ \A k \in 1..j - 1 : (sources[k] # Chart \/ r >= chart.now)
             IN {sources[k] : k \in 1..i - 1}
Edges(r) == {s \in Ticked(r) :
  IF s = Chart THEN ~Wedged(chart) /\ Wedged([chart EXCEPT !.now = r])
  ELSE s \notin fired /\ r >= Timer[s]}

-----------------------------------------------------------------------------
Init ==
  /\ chart = [state |-> Start, entered |-> 0, observed |-> 0, now |-> 0, violations |-> 0,
              cells |-> <<Start, FALSE, 0>>]
  /\ fired = {} /\ sources = <<>> /\ last = 0
  /\ told = {} /\ failed = FALSE /\ delivered = <<>>

Register(s) ==
  /\ s \notin ToSet(sources) /\ sources' = Append(sources, s)
  /\ UNCHANGED <<chart, fired, last, told, failed, delivered>>

Observe(s, at) ==
  /\ Len(delivered) < MaxObservations
  /\ chart' = Publish(Adopt(chart, s, at)) /\ delivered' = Append(delivered, <<s, at>>)
  /\ UNCHANGED <<fired, sources, last, told, failed>>

\* A reading behind the last one raises and ticks nothing.
Advance(r) ==
  /\ r >= last /\ last' = r
  /\ LET done == Ticked(r) = ToSet(sources) IN
     /\ fired' = fired \cup (Edges(r) \ {Chart})
     /\ chart' = IF Chart \in Ticked(r) THEN Publish([chart EXCEPT !.now = r]) ELSE chart
     /\ told' = IF done THEN told \cup Edges(r) ELSE told
     /\ failed' = (failed \/ ~done)
  /\ UNCHANGED <<sources, delivered>>

Next ==
  \/ \E s \in DOMAIN Timer \cup {Chart} : Register(s)
  \/ \E s \in DOMAIN Lifecycle \cup Undeclared, at \in Time : Observe(s, at)
  \/ \E r \in Time : Advance(r)
Spec == Init /\ [][Next]_vars

-----------------------------------------------------------------------------
\* Reference: the observations adopted are those no earlier delivery was
\* newer than; the state is the last of them, entered when it was first seen
\* without another state between.
Adopted == {0} \cup {i \in DOMAIN delivered : \A j \in 1..i - 1 : delivered[j][2] <= delivered[i][2]}
StateAt(i) == IF i = 0 THEN Start ELSE delivered[i][1]
AtOf(i) == IF i = 0 THEN 0 ELSE delivered[i][2]
NewestOf(S) == CHOOSE i \in S : \A j \in S : j <= i
Newest == NewestOf(Adopted)
Previous(i) == NewestOf({j \in Adopted : j < i})
Entries == {i \in Adopted : i = 0 \/ StateAt(i) # StateAt(Previous(i)) \/ StateAt(i) \in Undeclared}
Justified(i) == \/ StateAt(i) = StateAt(Previous(i)) /\ StateAt(i) \notin Undeclared
                \/ Allows(StateAt(Previous(i)), StateAt(i))

\* The chart says what the authority last said, counts every step the
\* lifecycle does not justify, and is wedged exactly when its clock is past
\* the deadline of the state since that state was first seen, however often
\* and however late it was seen again; and while no advance has raised, every
\* timer due by the last reading has been reported, and the engine is never
\* asked to sleep past a pending instant.
WorkflowFaithful ==
  LET entry == NewestOf(Entries) IN
  /\ chart.cells = <<StateAt(Newest),
       /\ DeadlineOf(StateAt(Newest)) > 0
       /\ chart.now > AtOf(entry) + DeadlineOf(StateAt(Newest)),
       Cardinality({i \in Adopted \ {0} : ~Justified(i)})>>
  /\ ~failed => fired = told \ {Chart}
  /\ \A d \in NextWakeup, f \in Pending : f > last => last + d <= f
  /\ \A s \in ToSet(sources) \cap fired : Timer[s] <= last
=============================================================================
