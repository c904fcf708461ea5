--------------------------- MODULE TimeOperators ---------------------------
(***************************************************************************)
(* temporal.py, rateshape.py and windowing.py: machines driven by a clock  *)
(* that may jump and by inputs.  One of each is fed the same history of    *)
(* inputs and ticks; an input is known by its place in the history, and a  *)
(* window is folded with concatenation, the merge that forgets nothing.    *)
(***************************************************************************)
EXTENDS Integers, Sequences, SequencesExt, FiniteSetsExt, Functions

CONSTANTS FireAt, Period, Cycle, Offsets, Quiet, Gate, Nth, Size, Slide, Gap,
          MaxEvents, MaxJump

VARIABLES
  events,   \* the inputs and ticks so far, each with its time
  ops,      \* the state of every operator; out is what its last call returned
  log       \* everything it emitted, and at which event

vars == <<events, ops, log>>

Now == IF events = << >> THEN 0 ELSE Last(events).t
Nothing == << >>
Hold(s) == [s EXCEPT !.out = Nothing]

\* temporal.py
TimerTick(s, t) == [s EXCEPT !.out = IF ~s.fired /\ t >= FireAt THEN <<t>> ELSE Nothing, !.fired = @ \/ t >= FireAt]

\* Mutant: a jump over several boundaries counts one too few.
BoundariesSkipped(next, t) == IF t < next THEN 0 ELSE (t - next) \div Period + (IF t - next < Period THEN 1 ELSE 0)

Boundaries(next, t) == IF t < next THEN 0 ELSE (t - next) \div Period + 1
IntervalTick(s, t) ==
  LET fires == Boundaries(s.next, t)
  IN [s EXCEPT !.count = @ + fires, !.next = @ + fires * Period]

CountUpto(n, o) == IF o = 0 THEN n \div Cycle ELSE IF o <= n THEN (n - o) \div Cycle + 1 ELSE 0
CronTick(s, t) ==
  IF t <= s.cursor THEN s
  ELSE [s EXCEPT !.cursor = t, !.count = @ +
          MapThenSumSet(LAMBDA o : CountUpto(t, o) - CountUpto(s.cursor, o), Offsets)]
CronNext(s) ==
  LET start == s.cursor + 1
      block(cyc) == (start \div Cycle) * Cycle + cyc * Cycle
  IN Min({block(cyc) + o : cyc \in 0..1, o \in Offsets} \ 0..(start - 1))

\* rateshape.py
DebounceInput(s, t, v) == [out |-> Nothing, pending |-> <<v>>, fireAt |-> t + Quiet]
DebounceTick(s, t) ==
  IF s.pending # Nothing /\ s.fireAt <= t THEN [s EXCEPT !.out = s.pending, !.pending = Nothing] ELSE Hold(s)

LeadingInput(s, t, v) == IF s.opened /\ t < s.end THEN Hold(s) ELSE [out |-> <<v>>, opened |-> TRUE, end |-> t + Gate]

TrailingInput(s, t, v) == [out |-> Nothing, pending |-> <<v>>, start |-> IF s.pending = Nothing THEN t ELSE s.start]
TrailingTick(s, t) ==
  IF s.pending # Nothing /\ t >= s.start + Gate THEN [s EXCEPT !.out = s.pending, !.pending = Nothing] ELSE Hold(s)

CountSampleInput(s, v) ==
  [counter |-> s.counter + 1, out |-> IF (s.counter + 1) % Nth = 0 THEN <<v>> ELSE Nothing]

TimeSampleInput(s, v) == [s EXCEPT !.out = Nothing, !.held = <<v>>]
TimeSampleTick(s, t) ==
  IF t < s.next THEN Hold(s)
  ELSE [s EXCEPT !.out = s.held, !.next = @ + Boundaries(@, t) * Period]

\* windowing.py
CountWindowInput(s, v) ==
  IF Len(s.acc) + 1 >= Nth THEN [out |-> <<Append(s.acc, v)>>, acc |-> << >>]
  ELSE [out |-> Nothing, acc |-> Append(s.acc, v)]

TimeWindowInput(s, v) == [s EXCEPT !.out = Nothing, !.acc = Append(@, v)]
TimeWindowTick(s, t) ==
  IF t < s.next THEN Hold(s)
  ELSE [out |-> IF s.acc = << >> THEN Nothing ELSE <<s.acc>>, acc |-> << >>, next |-> s.next + Boundaries(s.next, t) * Period]

Tail_of(s) == SubSeq(s, IF Len(s) > Size THEN Len(s) - Size + 1 ELSE 1, Len(s))
SlidingInput(s, v) ==
  LET buffer == Tail_of(Append(s.buffer, v))
  IN [buffer |-> buffer, since |-> IF s.since + 1 >= Slide THEN 0 ELSE s.since + 1,
      out |-> IF s.since + 1 >= Slide THEN <<buffer>> ELSE Nothing]

Idle(s, t) == s.acc # << >> /\ t - s.last > Gap
SessionInput(s, t, v) ==
  IF Idle(s, t) THEN [out |-> <<s.acc>>, acc |-> <<v>>, last |-> t]
  ELSE [out |-> Nothing, acc |-> Append(s.acc, v), last |-> t]
SessionFlush(s, t) == IF Idle(s, t) THEN [s EXCEPT !.out = <<s.acc>>, !.acc = << >>] ELSE Hold(s)

Init ==
  /\ events = << >>
  /\ ops = [timer |-> [out |-> Nothing, fired |-> FALSE],
            interval |-> [out |-> Nothing, count |-> 0, next |-> Period],
            cron |-> [out |-> Nothing, count |-> 0, cursor |-> 0],
            debounce |-> [out |-> Nothing, pending |-> Nothing, fireAt |-> 0],
            leading |-> [out |-> Nothing, opened |-> FALSE, end |-> 0],
            trailing |-> [out |-> Nothing, pending |-> Nothing, start |-> 0],
            countSample |-> [out |-> Nothing, counter |-> 0],
            timeSample |-> [out |-> Nothing, held |-> Nothing, next |-> Period],
            countWindow |-> [out |-> Nothing, acc |-> << >>],
            timeWindow |-> [out |-> Nothing, acc |-> << >>, next |-> Period],
            sliding |-> [out |-> Nothing, buffer |-> << >>, since |-> 0],
            session |-> [out |-> Nothing, acc |-> << >>, last |-> 0]]
  /\ log = [op \in DOMAIN ops |-> << >>]

Log == log' = [op \in DOMAIN log |->
  log[op] \o [i \in DOMAIN ops'[op].out |-> [at |-> Len(events'), value |-> ops'[op].out[i]]]]

Input(t) ==
  LET new == Len(events) + 1
  IN /\ events' = Append(events, [kind |-> "input", t |-> t])
     /\ ops' = [ops EXCEPT !.timer = Hold(@),
          !.debounce = DebounceInput(@, t, new), !.leading = LeadingInput(@, t, new), !.trailing = TrailingInput(@, t, new),
          !.countSample = CountSampleInput(@, new), !.timeSample = TimeSampleInput(@, new),
          !.countWindow = CountWindowInput(@, new), !.timeWindow = TimeWindowInput(@, new),
          !.sliding = SlidingInput(@, new), !.session = SessionInput(@, t, new)]
     /\ Log

Tick(t) ==
  /\ events' = Append(events, [kind |-> "tick", t |-> t])
  /\ ops' = [ops EXCEPT !.timer = TimerTick(@, t), !.interval = IntervalTick(@, t), !.cron = CronTick(@, t),
       !.debounce = DebounceTick(@, t), !.leading = Hold(@), !.trailing = TrailingTick(@, t),
       !.countSample = Hold(@), !.timeSample = TimeSampleTick(@, t),
       !.countWindow = Hold(@), !.timeWindow = TimeWindowTick(@, t),
       !.sliding = Hold(@), !.session = SessionFlush(@, t)]
  /\ Log

Next == Len(events) < MaxEvents /\ \E t \in Now..(Now + MaxJump) : Input(t) \/ Tick(t)

\* What the operators should have emitted, from the history alone.
Inputs == {i \in DOMAIN events : events[i].kind = "input"}
Ticks == {i \in DOMAIN events : events[i].kind = "tick"}
At(i) == events[i].t
Ticked == IF Ticks = {} THEN 0 ELSE At(Max(Ticks))
Ordered(S) == SetToSortSeq(S, <)
Emitted(op) == [i \in DOMAIN log[op] |-> log[op][i].value]
Before(i) == {j \in Inputs : j < i}
Joined(op) == FlattenSeq(Emitted(op))

TimersCount ==
  /\ ops.timer.fired <=> Ticked >= FireAt /\ Ticks # {}
  /\ Len(log.timer) <= 1
  /\ ops.interval.count = Cardinality({m \in 1..Ticked : m % Period = 0})
  /\ ops.cron.count = Cardinality({m \in 1..Ticked : m % Cycle \in Offsets})
  /\ CronNext(ops.cron) = Min({m \in (Ticked + 1)..(Ticked + 2 * Cycle) : m % Cycle \in Offsets})

\* Input j is let out at tick i: nothing came after it, and no earlier tick did it.
SettledAt(i, j) == j \in Before(i) /\ j = Max(Before(i)) /\ At(i) >= At(j) + Quiet
DebounceSettles ==
  {<<e.at, e.value>> : e \in Range(log.debounce)} =
    {w \in Ticks \X Inputs : SettledAt(w[1], w[2]) /\ \A k \in Ticks : k < w[1] => ~SettledAt(k, w[2])}

\* At most one emission a window, and nothing dropped but inside one.
ThrottleSpaced ==
  /\ \A a, b \in Range(log.leading) : a.value < b.value => At(b.value) >= At(a.value) + Gate
  /\ \A j \in Inputs : \E a \in Range(log.leading) : a.value <= j /\ (a.value = j \/ At(j) < At(a.value) + Gate)
  /\ \A e \in Range(log.trailing) : e.value = Max(Before(e.at))
  /\ \A i \in DOMAIN log.trailing \ {1} : At(log.trailing[i].at) >= At(log.trailing[i - 1].at) + Gate

SamplesTaken ==
  /\ Emitted("countSample") = [k \in 1..(Cardinality(Inputs) \div Nth) |-> Ordered(Inputs)[k * Nth]]
  /\ \A e \in Range(log.timeSample) : e.value = Max(Before(e.at))

WindowsPartition ==
  /\ Joined("countWindow") \o ops.countWindow.acc = Ordered(Inputs)
  /\ \A w \in Range(Emitted("countWindow")) : Len(w) = Nth
  /\ Joined("timeWindow") \o ops.timeWindow.acc = Ordered(Inputs)
  /\ \A e \in Range(log.timeWindow) : LET last == {k \in Ticks : k < e.at} IN
       At(e.at) \div Period > (IF last = {} THEN 0 ELSE At(Max(last)) \div Period)
  /\ Emitted("sliding") =
       [k \in 1..(Cardinality(Inputs) \div Slide) |-> Tail_of(SubSeq(Ordered(Inputs), 1, k * Slide))]
  /\ Joined("session") \o ops.session.acc = Ordered(Inputs)
  /\ \A w \in Range(Emitted("session")) \cup {ops.session.acc} :
       \A i \in 1..(Len(w) - 1) : At(w[i + 1]) - At(w[i]) <= Gap

(***************************************************************************)
(* However the clock jumps and wherever the ticks fall between the inputs, *)
(* every operator emitted what its definition over the whole history says: *)
(* no boundary missed or counted twice by a jump, no input lost, repeated  *)
(* or let out before its time (temporal.py, rateshape.py, windowing.py).   *)
(***************************************************************************)
OutputsFollowHistory == TimersCount /\ DebounceSettles /\ ThrottleSpaced /\ SamplesTaken /\ WindowsPartition
=============================================================================
