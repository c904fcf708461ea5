---------------------------- MODULE MCAsyncGraph ----------------------------
(* Instances of AsyncGraph for TLC. *)
EXTENDS AsyncGraph
CONSTANTS x, A, B, e, k, t1, t2, t3, t4

\* A reads B, and the source below it.
Chain ==
  [n \in Slot \cup Effect |-> CASE n = B -> <<x>> [] n = A -> <<x, B>> [] n = e -> <<B>>]

\* A reads the source only through B.
Pipe == [n \in Slot \cup Effect |-> CASE n = B -> <<x>> [] n = A -> <<B>> [] n = e -> <<A>>]
=============================================================================
