------------------------------- MODULE QueueCell -------------------------------
(***************************************************************************)
(* The FIFO queue of lazily-py (queue.py QueueCell over VecDequeStorage),  *)
(* alone or behind the mutex of queue_flavors.py, with the reader slots    *)
(* that an operation resets only when the count it passes makes it.        *)
(***************************************************************************)
EXTENDS Naturals, Sequences

CONSTANTS
  Val,
  Capacity,  \* None for an unbounded queue
  MaxLen,    \* bound: elements of an unbounded queue
  None

VARIABLES
  elements,  \* VecDequeStorage._elements
  closed,    \* VecDequeStorage._closed
  cached,    \* the reader slots, NotCached when reset
  handles    \* what the closed cell holds

vars == <<elements, closed, cached, handles>>

Reader == {"head", "len", "is_empty", "is_full"}
NotCached == <<"not cached">>

Full(s) == Capacity # None /\ Len(s) >= Capacity
Shows(r, s) ==
  CASE r = "head" -> <<"head", IF s = <<>> THEN None ELSE s[1]>>
    [] r = "len" -> <<"len", Len(s)>>
    [] r = "is_empty" -> <<"is_empty", s = <<>>>>
    [] r = "is_full" -> <<"is_full", Full(s)>>

Init ==
  /\ elements = <<>> /\ closed = FALSE /\ handles = FALSE
  /\ cached = [r \in Reader |-> NotCached]

Read(r) ==
  /\ cached[r] = NotCached
  /\ cached' = [cached EXCEPT ![r] = Shows(r, elements)]
  /\ UNCHANGED <<elements, closed, handles>>

\* Mutant: a push never moves the head.
InvalidatedByPop(before, after, headChanged) ==
  {"len"} \cup {r \in {"is_empty"} : (before = 0) # (after = 0)}
    \cup {r \in {"is_full"} : Capacity # None /\ (before >= Capacity) # (after >= Capacity)}
    \cup {r \in {"head"} : headChanged /\ after < before}
\* _invalidate_readers, from the lengths alone.
Invalidated(before, after, headChanged) ==
  {"len"} \cup {r \in {"is_empty"} : (before = 0) # (after = 0)}
    \cup {r \in {"is_full"} : Capacity # None /\ (before >= Capacity) # (after >= Capacity)}
    \cup {r \in {"head"} : headChanged}

Invalidate(after, headChanged) ==
  LET S == Invalidated(Len(elements), after, headChanged)
  IN  cached' = [r \in Reader |-> IF r \in S THEN NotCached ELSE cached[r]]

TryPush(v) ==
  /\ ~closed /\ ~Full(elements) /\ Len(elements) < MaxLen
  /\ elements' = Append(elements, v)
  /\ Invalidate(Len(elements) + 1, elements = <<>>)
  /\ UNCHANGED <<closed, handles>>

TryPop ==
  /\ elements # <<>>
  /\ elements' = Tail(elements)
  /\ Invalidate(Len(elements) - 1, TRUE)
  /\ UNCHANGED <<closed, handles>>

Close ==
  /\ ~closed
  /\ closed' = TRUE /\ handles' = TRUE
  /\ UNCHANGED <<elements, cached>>

Next == TryPop \/ Close \/ (\E v \in Val : TryPush(v)) \/ (\E r \in Reader : Read(r))

Spec == Init /\ [][Next]_vars

\* Each reader shows the queue as it is, and a push or pop leaves a reader's cache
\* alone when what it shows stays the same, except that a pop always moves the
\* head (queue.py: "invalidates by reader kind").
ShowsByKind ==
  \A r \in Reader : cached[r] # NotCached =>
    /\ cached[r] = Shows(r, elements)
    /\ IF r = "head" /\ Len(elements') < Len(elements) THEN cached'[r] = NotCached
       ELSE cached'[r] = NotCached <=> Shows(r, elements') # Shows(r, elements)
=============================================================================
