--------------------------- MODULE MCReactiveGraph ---------------------------
(***************************************************************************)
(* Small graphs for TLC.  A graph is given by what each body reads: a      *)
(* sequence of nodes, cut after the first read when that read returned 0   *)
(* and the body is one of the guards, so that dependencies are dynamic.  A *)
(* body returns the parity of what it read, so that every change shows.    *)
(***************************************************************************)
EXTENDS ReactiveGraph, TLC

CONSTANTS x, y, a, b, m, k, h, g, e, f

GuardedRead(reads, guards, r, s) ==
  IF Len(s) >= Len(reads[r]) \/ (r \in guards /\ s = <<0>>) THEN Done
  ELSE reads[r][Len(s) + 1]

Parity(r, s) == Cardinality({i \in DOMAIN s : s[i] = 1}) % 2
AnyChange(c, old, new) == old # new
NoTarget == [i \in Effect |-> None]
Memos == [c \in Computed |-> IF c = h THEN m ELSE k]

\* Slots only: a reads x and, unless x is 0, y; b reads a and x; the effect e
\* reads b and x.
LazyNext(r, s) == GuardedRead((a :> <<x, y>>) @@ (b :> <<a, x>>) @@ (e :> <<b, x>>), {a}, r, s)

\* A chain through writes: the eager h copies x, the eager g reads h, the effect
\* e copies g into y, a reads y, and the effect f reads a and h.
CopyNext(r, s) ==
  GuardedRead((m :> <<x>>) @@ (k :> <<h>>) @@ (h :> <<m>>) @@ (g :> <<k>>)
              @@ (e :> <<g>>) @@ (a :> <<y>>) @@ (f :> <<a, h>>), {}, r, s)
CopyTarget == [i \in Effect |-> IF i = e THEN y ELSE None]

\* One computed h over x and, unless x is 0, y; a reads it and y, b reads a.
HandleNext(r, s) ==
  GuardedRead((m :> <<x, y>>) @@ (h :> <<m>>) @@ (a :> <<h, y>>) @@ (b :> <<a>>)
              @@ (e :> <<h, x>>), {m}, r, s)
=============================================================================
