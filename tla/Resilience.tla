----------------------------- MODULE Resilience -----------------------------
(***************************************************************************)
(* resilience.py, and the semaphore of coordination.py: callers that take  *)
(* a permit, ask the breaker, run a call under a timeout and report its    *)
(* outcome when it comes, which may be long after the breaker moved on;    *)
(* and the delay a caller waits before it tries again.                     *)
(***************************************************************************)
EXTENDS Naturals, Sequences, SequencesExt, FiniteSets

CONSTANTS Caller, Capacity, Window, FailureThreshold, ResetTimeout, CallTimeout,
          Width,      \* bits of the delay: 64 in the code
          Bases, Cap,
          MaxTime, MaxOutcomes

VARIABLES
  now,
  state, outcomes, openUntil,   \* CircuitBreakerCore
  inUse,                        \* BulkheadCore._in_use, SemaphoreCore._acquired
  calls,                        \* the calls under way: one TimeoutCore each, armed
  base, attempt, delay,         \* RetryPolicyCore, and the delay it shows
  since                         \* every outcome since the breaker last closed

vars == <<now, state, outcomes, openUntil, inUse, calls, base, attempt, delay, since>>
retryVars == <<base, attempt, delay>>
breakerVars == <<state, outcomes, openUntil, since>>

Min2(x, y) == IF x <= y THEN x ELSE y
Failures(s) == Cardinality({i \in DOMAIN s : ~s[i]})
Newest(s) == SubSeq(s, IF Len(s) > Window THEN Len(s) - Window + 1 ELSE 1, Len(s))

\* The shift loses the high bits before the delay is capped.
DelayOf(n) == IF n >= Width THEN Cap ELSE Min2(Cap, (base * 2^n) % 2^Width)

Init ==
  /\ now = 0 /\ state = "Closed" /\ outcomes = << >> /\ openUntil = 0 /\ inUse = 0
  /\ calls = [c \in {} |-> 0]
  /\ base \in Bases /\ attempt = 0 /\ delay = 0 /\ since = << >>

\* allow: the first caller at the deadline half-opens the breaker.
Allow ==
  /\ \/ state \in {"Closed", "HalfOpen"} /\ UNCHANGED state
     \/ state = "Open" /\ now >= openUntil /\ state' = "HalfOpen"
  /\ UNCHANGED <<outcomes, openUntil, since>>

Acquire == inUse < Capacity /\ inUse' = inUse + 1
Release == inUse' = IF inUse > 0 THEN inUse - 1 ELSE inUse

Call(c) ==
  /\ c \notin DOMAIN calls
  /\ Acquire
  /\ Allow
  /\ calls' = [d \in DOMAIN calls \cup {c} |->
                 IF d = c THEN [deadline |-> now + CallTimeout, timedOut |-> FALSE] ELSE calls[d]]
  /\ UNCHANGED <<now, retryVars>>

Trip == state' = "Open" /\ openUntil' = now + ResetTimeout

\* Mutant: closing keeps the outcomes that opened the breaker.
CloseKeepsOutcomes(success) ==
  /\ state = "HalfOpen"
  /\ IF success THEN state' = "Closed" /\ since' = << >> /\ UNCHANGED <<outcomes, openUntil>>
                ELSE Trip /\ UNCHANGED <<outcomes, since>>

RecordHalfOpen(success) ==
  /\ state = "HalfOpen"
  /\ IF success THEN state' = "Closed" /\ outcomes' = << >> /\ since' = << >> /\ UNCHANGED openUntil
                ELSE Trip /\ UNCHANGED <<outcomes, since>>

RecordClosed(success) ==
  /\ state = "Closed"
  /\ outcomes' = Newest(Append(outcomes, success)) /\ since' = Append(since, success)
  /\ IF Failures(outcomes') >= FailureThreshold THEN Trip ELSE UNCHANGED <<state, openUntil>>

Record(success) ==
  \/ RecordHalfOpen(success)
  \/ RecordClosed(success)
  \/ state = "Open" /\ UNCHANGED breakerVars

Backoff ==
  /\ delay' = DelayOf(attempt) /\ attempt' = Min2(attempt + 1, Width + 1) /\ UNCHANGED base
Reset == attempt' = 0 /\ delay' = 0 /\ UNCHANGED base

\* The call ends: its permit is given back, its outcome reported, and the
\* caller's schedule moves on or starts over.  A late answer is a failure.
Finish(c, success) ==
  /\ c \in DOMAIN calls /\ Len(since) < MaxOutcomes
  /\ calls[c].timedOut => ~success
  /\ calls' = [d \in DOMAIN calls \ {c} |-> calls[d]]
  /\ Release
  /\ Record(success)
  /\ IF success THEN Reset ELSE Backoff
  /\ UNCHANGED now

\* tick of the timeout of a call: the edge comes once.
Expire(c) ==
  /\ c \in DOMAIN calls /\ ~calls[c].timedOut /\ now >= calls[c].deadline
  /\ calls' = [calls EXCEPT ![c].timedOut = TRUE]
  /\ UNCHANGED <<now, breakerVars, inUse, retryVars>>

\* Somebody asks the breaker and does not call.
Ask == Allow /\ UNCHANGED <<now, inUse, calls, retryVars>>

Time == now < MaxTime /\ now' = now + 1 /\ UNCHANGED <<breakerVars, inUse, calls, retryVars>>

Next ==
  \/ \E c \in Caller : Call(c) \/ Expire(c) \/ \E ok \in BOOLEAN : Finish(c, ok)
  \/ Ask
  \/ Time

(***************************************************************************)
(* The breaker opens on evidence only, and on enough of it: it is closed   *)
(* exactly while fewer than the threshold of the last window of outcomes   *)
(* since it last closed are failures, whichever calls they belong to       *)
(* (CircuitBreakerCore.record); the callers inside are as many as the      *)
(* permits that are out (BulkheadCore).                                    *)
(***************************************************************************)
BreakerEvidence ==
  /\ state = "Closed" <=> Failures(Newest(since)) < FailureThreshold
  /\ inUse = Cardinality(DOMAIN calls) /\ inUse <= Capacity

(***************************************************************************)
(* While the base, doubled once for every failure in a row, still fits in  *)
(* the width, the delay never shrinks from one failure to the next         *)
(* (RetryPolicyCore.delay).                                                *)
(***************************************************************************)
NeverShrinks == attempt' > attempt /\ base * 2^attempt < 2^Width => delay' >= delay
=============================================================================
