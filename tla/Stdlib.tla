-------------------------------- MODULE Stdlib --------------------------------
(***************************************************************************)
(* The caller-driven timer, timeout and revision barrier (stdlib.py).      *)
(* Every call brings its own clock reading.  The asynchronous polls begin  *)
(* under the lock, await the caller's adapters without it, and resolve     *)
(* under it again: other polls, advances and a disposal come between.      *)
(***************************************************************************)
EXTENDS Integers, FiniteSets

CONSTANTS Task, Start, Duration, Required, MaxU64, MaxTime, MaxRevision, None

VARIABLES
  timer,    \* Timer: _last_now, _fired_at
  timeout,  \* Timeout: _last_now, _terminal
  barrier,  \* RevisionBarrier: _last_now, _terminal, _revision, _generation
  polls,    \* task -> what it awaits outside the lock: "timeout", "barrier" or None
  given     \* ghost: what each of the three has answered, pending only after something else
vars == <<timer, timeout, barrier, polls, given>>

Time == 0..MaxTime
CheckedDeadline == IF Duration > MaxU64 - Start THEN None ELSE Start + Duration
Deadline == CheckedDeadline
Cancellation == {"pending", "cancelled", "unavailable"}
Operation == {"pending", "completed", "unavailable"}

\* What begins every poll: a latched answer stands, a clock behind the last
\* one is unavailable, a deadline reached is a time-out.
Begin(m, at) ==
  CASE m.terminal # None -> m
    [] m.terminal = None /\ at < m.now -> [m EXCEPT !.terminal = "clock_regression"]
    [] OTHER -> [m EXCEPT !.now = at, !.terminal = IF at >= Deadline THEN "timed_out" ELSE None]

\* What ends one: the operation's answer before the cancellation's, unless
\* another poll latched an answer first.
Resolve(m, op, cancel) ==
  IF m.terminal # None THEN m
  ELSE [m EXCEPT !.terminal =
          CASE op = "completed" -> "completed"
            [] op = "unavailable" -> "operation_unavailable"
            [] op = "pending" /\ cancel = "cancelled" -> "cancelled"
            [] op = "pending" /\ cancel = "unavailable" -> "cancellation_unavailable"
            [] OTHER -> None]

AcceptRevision(b, r) ==
  IF r > b.revision THEN [b EXCEPT !.revision = r, !.generation = @ + 1] ELSE b
Satisfy(b, predicate) ==
  IF b.terminal = None /\ predicate /\ b.revision >= Required
  THEN [b EXCEPT !.terminal = "satisfied"] ELSE b

\* The answer a caller is given, noted once something terminal was answered.
Answer(g, m) ==
  IF m.terminal # None THEN g \cup {m.terminal} ELSE IF g = {} THEN g ELSE g \cup {"pending"}
AnswerTimeout(m) == timeout' = m /\ given' = [given EXCEPT !.timeout = Answer(@, m)]
AnswerBarrier(m) == barrier' = m /\ given' = [given EXCEPT !.barrier = Answer(@, m)]

-----------------------------------------------------------------------------
Init ==
  /\ timer = [now |-> Start, terminal |-> None]
  /\ timeout = [now |-> Start, terminal |-> None]
  /\ barrier = [now |-> -1, terminal |-> None, revision |-> 0, generation |-> 0]
  /\ polls = [t \in Task |-> None]
  /\ given = [timer |-> {}, timeout |-> {}, barrier |-> {}]

\* A regressed clock is answered but does not latch: the timer fires later.
ObserveTimer(at) ==
  LET fired == [timer EXCEPT !.now = at, !.terminal = IF at >= Deadline THEN at ELSE None]
      seen == IF timer.terminal # None \/ at < timer.now THEN timer ELSE fired
  IN /\ timer' = seen /\ given' = [given EXCEPT !.timer = Answer(@, seen)]
     /\ UNCHANGED <<timeout, barrier, polls>>

Poll(at, op, cancel) ==
  AnswerTimeout(Resolve(Begin(timeout, at), op, cancel)) /\ UNCHANGED <<timer, barrier, polls>>
PollBegin(t, at) ==
  /\ polls[t] = None
  /\ LET m == Begin(timeout, at) IN
     IF m.terminal # None THEN AnswerTimeout(m) /\ UNCHANGED polls
     ELSE timeout' = m /\ polls' = [polls EXCEPT ![t] = "timeout"] /\ UNCHANGED given
  /\ UNCHANGED <<timer, barrier>>
PollEnd(t, op, cancel) ==
  /\ polls[t] = "timeout" /\ polls' = [polls EXCEPT ![t] = None]
  /\ AnswerTimeout(Resolve(timeout, op, cancel)) /\ UNCHANGED <<timer, barrier>>

Observe(at, predicate, cancel) ==
  /\ AnswerBarrier(Resolve(Satisfy(Begin(barrier, at), predicate), "pending", cancel))
  /\ UNCHANGED <<timer, timeout, polls>>
ObserveBegin(t, at, predicate) ==
  /\ polls[t] = None
  /\ LET m == Satisfy(Begin(barrier, at), predicate) IN
     IF m.terminal # None THEN AnswerBarrier(m) /\ UNCHANGED polls
     ELSE barrier' = m /\ polls' = [polls EXCEPT ![t] = "barrier"] /\ UNCHANGED given
  /\ UNCHANGED <<timer, timeout>>
ObserveEnd(t, cancel) ==
  /\ polls[t] = "barrier" /\ polls' = [polls EXCEPT ![t] = None]
  /\ AnswerBarrier(Resolve(barrier, "pending", cancel)) /\ UNCHANGED <<timer, timeout>>
RegisterRecheck(at, r, predicate) ==
  /\ LET m == Begin(barrier, at) IN
     AnswerBarrier(IF m.terminal # None THEN m ELSE Satisfy(AcceptRevision(m, r), predicate))
  /\ UNCHANGED <<timer, timeout, polls>>
Advance(r, predicate) ==
  /\ AnswerBarrier(IF barrier.terminal # None THEN barrier
                   ELSE Satisfy(AcceptRevision(barrier, r), predicate))
  /\ UNCHANGED <<timer, timeout, polls>>
Dispose ==
  /\ AnswerBarrier(IF barrier.terminal # None THEN barrier
                   ELSE [barrier EXCEPT !.terminal = "disposed"])
  /\ UNCHANGED <<timer, timeout, polls>>

\* An adapter raises: the awaiting call ends without an answer.
Abandon(t) ==
  /\ polls[t] # None /\ polls' = [polls EXCEPT ![t] = None]
  /\ UNCHANGED <<timer, timeout, barrier, given>>

Next ==
  \/ \E at \in Time : ObserveTimer(at)
  \/ \E at \in Time, op \in Operation, c \in Cancellation : Poll(at, op, c)
  \/ \E at \in Time, p \in BOOLEAN, c \in Cancellation : Observe(at, p, c)
  \/ \E at \in Time, r \in 0..MaxRevision, p \in BOOLEAN : RegisterRecheck(at, r, p)
  \/ \E r \in 0..MaxRevision, p \in BOOLEAN : Advance(r, p)
  \/ Dispose
  \/ \E t \in Task :
       \/ \E at \in Time : PollBegin(t, at)
       \/ \E op \in Operation, c \in Cancellation : PollEnd(t, op, c)
       \/ \E at \in Time, p \in BOOLEAN : ObserveBegin(t, at, p)
       \/ \E c \in Cancellation : ObserveEnd(t, c)
       \/ Abandon(t)
Spec == Init /\ [][Next]_vars

-----------------------------------------------------------------------------
\* Whatever polls overlap, each primitive gives one terminal answer and never
\* another or pending after it; what completed or was satisfied had not been
\* asked at its deadline before, and only a revision that reached the required
\* one satisfies, however many wake-ups came.
AnswersLatch ==
  /\ \A m \in DOMAIN given : Cardinality(given[m]) <= 1
  /\ timeout.terminal \in {"completed", "cancelled"} => timeout.now < Deadline
  /\ barrier.terminal = "satisfied" => barrier.revision >= Required /\ barrier.now < Deadline
  /\ timer.terminal # None => timer.terminal >= Deadline
  /\ barrier.generation <= barrier.revision
=============================================================================
