---------------------------- MODULE CrdtRegisters ----------------------------
(***************************************************************************)
(* crdt_registers.py: a last-write-wins register behind a reactive cell, a *)
(* multi-value register and a counter, replicated by sending whole states  *)
(* that arrive late, twice, out of order or not at all.  Stamps come from  *)
(* the callers' clocks, which may be behind.                               *)
(***************************************************************************)
EXTENDS Integers, FiniteSetsExt

CONSTANTS Peer, Wall, MaxWrites, MaxSent

VARIABLES
  replica,  \* of each peer: the LWW register, its cell, the MV register, the counters
  heard,    \* the writes a peer's state has taken in
  past,     \* what the writer had heard when it made each write
  sent      \* states sent, with what they had taken in

vars == <<replica, heard, past, sent>>

\* A stamp is <<wall, peer>>: logical is 0, and no peer uses a wall twice.
After(s, t) == s[1] > t[1] \/ (s[1] = t[1] /\ s[2] > t[2])
Never == <<-1, 0>>
New == [lww |-> Never, cell |-> Never, entries |-> {}, observed |-> {},
        p |-> [x \in Peer |-> 0], n |-> [x \in Peer |-> 0]]

Init == replica = [x \in Peer |-> New] /\ heard = [x \in Peer |-> {}] /\ past = [w \in {} |-> {}] /\ sent = {}

\* The value written is the stamp itself.
Assign(r, w) == LET won == IF r.lww = Never \/ ~After(r.lww, w) THEN w ELSE r.lww
                IN [r EXCEPT !.lww = won, !.cell = IF won # r.lww THEN won ELSE @]
MvWrite(r, w) == [r EXCEPT !.observed = r.entries, !.entries = {w}]
\* A wall that is even adds, one that is odd takes away.
Count(r, w) == IF w[1] % 2 = 0 THEN [r EXCEPT !.p[w[2]] = @ + 1] ELSE [r EXCEPT !.n[w[2]] = @ + 1]

Write(x, wall) ==
  LET w == <<wall, x>>
  IN /\ w \notin DOMAIN past /\ Cardinality(DOMAIN past) < MaxWrites
     /\ replica' = [replica EXCEPT ![x] = Count(MvWrite(Assign(@, w), w), w)]
     /\ heard' = [heard EXCEPT ![x] = @ \cup {w}]
     /\ past' = [v \in DOMAIN past \cup {w} |-> IF v = w THEN heard[x] ELSE past[v]]
     /\ UNCHANGED sent

LwwMerge(r, o) == LET won == IF o.lww # Never /\ After(o.lww, r.lww) THEN o.lww ELSE r.lww
                  IN [r EXCEPT !.lww = won, !.cell = IF won # r.lww THEN won ELSE @]
MvMerge(r, o) ==
  LET observed == r.observed \cup o.observed
  IN [r EXCEPT !.observed = observed, !.entries = (r.entries \cup o.entries) \ observed]
PnMerge(r, o) == [r EXCEPT !.p = [x \in Peer |-> Max({@[x], o.p[x]})], !.n = [x \in Peer |-> Max({@[x], o.n[x]})]]

Send(x) ==
  /\ Cardinality(sent) < MaxSent
  /\ sent' = sent \cup {[state |-> replica[x], heard |-> heard[x]]} /\ UNCHANGED <<replica, heard, past>>

Merge(x, m) ==
  /\ replica' = [replica EXCEPT ![x] = PnMerge(MvMerge(LwwMerge(@, m.state), m.state), m.state)]
  /\ heard' = [heard EXCEPT ![x] = @ \cup m.heard]
  /\ UNCHANGED <<past, sent>>

Next ==
  \/ \E x \in Peer : Send(x) \/ \E wall \in Wall : Write(x, wall)
  \/ \E x \in Peer, m \in sent : Merge(x, m)

Newest(S) == CHOOSE w \in S : \A v \in S : v = w \/ After(w, v)
Concurrent(S) == {w \in S : \A v \in S : w \notin past[v]}
Of(S, x, parity) == Cardinality({w \in S : w[2] = x /\ w[1] % 2 = parity})

(***************************************************************************)
(* The register, its cell and the counter are functions of the writes a    *)
(* replica has taken in, whatever way they came: the newest, and each once *)
(* (LwwRegister.merge, CellCrdt.merge, PnCounter.merge).  The multi-value  *)
(* register is not: it keeps every write that no other one had seen, but   *)
(* one that was seen may come back beside them, and does only after the    *)
(* one that superseded it was superseded in its turn (MvRegister.write     *)
(* forgets what it observed before).                                       *)
(***************************************************************************)
RegistersConverge ==
  \A x \in Peer :
    LET r == replica[x]
    IN /\ heard[x] # {} => r.lww = Newest(heard[x])
       /\ r.cell = r.lww
       /\ \A y \in Peer : r.p[y] = Of(heard[x], y, 0) /\ r.n[y] = Of(heard[x], y, 1)
       /\ Concurrent(heard[x]) \subseteq r.entries /\ r.entries \subseteq heard[x]
       /\ \A e \in r.entries \ Concurrent(heard[x]) :
            \E v, w \in heard[x] : e \in past[v] /\ v \in past[w]
=============================================================================
