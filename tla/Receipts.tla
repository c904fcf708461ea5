------------------------------- MODULE Receipts -------------------------------
(***************************************************************************)
(* The outcome of one cause, folded from its receipts (ipc.py              *)
(* ReceiptProjection), which come in any order and more than once, and the *)
(* projection a later reader builds from all of them together.             *)
(***************************************************************************)
EXTENDS Integers, Sequences, FiniteSets, Functions, FiniteSetsExt

CONSTANTS Receipt, Generation, Outcome, Terminal, MaxFrames, None

VARIABLES
  content,     \* what each receipt says, [generation, outcome]
  current,     \* current_generation
  frames,      \* the receipts in the order they came
  projection   \* [seen, terminal, recorded, stale, conflicts]
vars == <<content, current, frames, projection>>

Empty == [seen |-> {}, terminal |-> None, recorded |-> <<>>, stale |-> <<>>, conflicts |-> <<>>]

Init ==
  /\ content \in [Receipt -> [generation : Generation, outcome : Outcome]] /\ current \in Generation
  /\ frames = <<>> /\ projection = Empty

\* Of a known receipt, another generation, a terminal outcome against the
\* first, and the rest.
Fold(p, r, generation) ==
  LET o == content[r].outcome
      s == [p EXCEPT !.seen = @ \cup {r}]
  IN CASE r \in p.seen -> p
       [] r \notin p.seen /\ content[r].generation # generation -> [s EXCEPT !.stale = Append(@, r)]
       [] OTHER ->
            IF o \in Terminal /\ p.terminal \notin {None, o} THEN [s EXCEPT !.conflicts = Append(@, r)]
            ELSE [s EXCEPT !.recorded = Append(@, r), !.terminal = IF o \in Terminal THEN o ELSE @]
Rebuilt(generation) ==
  LET after[n \in 0..Len(frames)] == IF n = 0 THEN Empty ELSE Fold(after[n - 1], frames[n], generation)
  IN after[Len(frames)]
\* Without an authority the highest generation there is.
FromReceipts == Rebuilt(Max({content[x].generation : x \in Range(frames)}))

Apply(r) ==
  /\ Len(frames) < MaxFrames /\ frames' = Append(frames, r)
  /\ projection' = Fold(projection, r, current) /\ UNCHANGED <<content, current>>
Next == \E r \in Receipt : Apply(r)
Spec == Init /\ [][Next]_vars

-----------------------------------------------------------------------------
\* In whatever order the receipts came: the cause has an outcome, or a
\* conflict, when the receipts of its generation say so, a duplicate changes
\* nothing, and what a later reader rebuilds agrees with it when it is of the
\* same generation.
ReceiptsAgree ==
  LET said == {content[r].outcome : r \in {x \in Range(frames) : content[x].generation = current}} \cap Terminal
      p == projection
  IN /\ (p.conflicts # <<>>) = (Cardinality(said) > 1)
     /\ IF said = {} THEN p.terminal = None ELSE p.terminal \in said
     /\ p.seen = Range(frames)
     /\ Len(p.recorded) + Len(p.stale) + Len(p.conflicts) = Cardinality(p.seen)
     /\ (frames # <<>>) =>
          ((current = Max({content[r].generation : r \in p.seen})) => FromReceipts = p)
=============================================================================
