----------------------------- MODULE CallsProofs -----------------------------
(***************************************************************************)
(* Theorems about two machines of MCStreams, the calls and the receipts,   *)
(* for every value of their parameters.  As in StreamsProofs a behaviour   *)
(* is about one machine, its subject, and the invariants hold whichever it *)
(* is.                                                                     *)
(***************************************************************************)
EXTENDS MCStreams, SequenceTheorems, FiniteSetTheorems, WellFoundedInduction, TLAPS

(***************************************************************************)
(* The calls.  A status is further than another by its rank, and a frame   *)
(* joins the status it brings to the one there is.  Of the frames that     *)
(* were issued those of the owning authority are all in the server's       *)
(* table, so that the client's, which is made of such frames and of images *)
(* of the server's, is behind it and never elsewhere; and what it is       *)
(* behind by is on the link, in a frame or in the image at its head.       *)
(***************************************************************************)
Statuses == {"submitted", "accepted", "running", "applied", "cancelled"}
EventKinds == {"observed", "started", "cancelled"}
ReceiptKinds == {"accepted", "applied", "cancelled"}
FrameIds == {"event", "receipt", "other"} \X CommandIds \X (EventKinds \cup ReceiptKinds)
CommandGens == CommandOwn \cup CommandGenerations \cup {0}
Speech ==
  [type : {"event", "receipt"}, id : FrameIds, command : CommandIds,
   kind : EventKinds \cup ReceiptKinds, generation : CommandGens]
CommandEntries ==
  [status : Statuses, terminal : BOOLEAN, generation : CommandGens,
   receipt : FrameIds \cup {C!NoId}, event : FrameIds \cup {C!NoId}]
CommandTables == UNION {[S -> CommandEntries] : S \in SUBSET CommandIds}
Projections ==
  [generation : CommandGens, entries : CommandTables, seen : SUBSET FrameIds,
   cancels : SUBSET CommandIds, conflicts : SUBSET CommandIds]
Images == [type : {"image"}, generation : CommandGens, commands : CommandTables]
Requests == [type : {"submit", "cancel"}, command : CommandIds, generation : CommandGens]

\* The status a frame brings, and how far a status is.
Brought(f) == IF f.type = "event" THEN C!ProgressStatusOf[f.kind] ELSE f.kind
Below(s, t) == s = t \/ C!PhaseRank(s) < C!PhaseRank(t)
Joined(s, w) ==
  IF w # "none" /\ s \notin C!Terminal /\ C!PhaseRank(w) >= C!PhaseRank(s) THEN w ELSE s

LEMMA Ranks ==
  /\ C!PhaseRank("submitted") = 0 /\ C!PhaseRank("accepted") = 1 /\ C!PhaseRank("running") = 2
  /\ C!PhaseRank("applied") = 3 /\ C!PhaseRank("cancelled") = 3
  BY DEF C!PhaseRank

LEMMA Broughts ==
  ASSUME NEW f, (f.type = "event" /\ f.kind \in EventKinds) \/ (f.type = "receipt" /\ f.kind \in ReceiptKinds)
  PROVE  /\ Brought(f) \in Statuses \cup {"none"}
         /\ Brought(f) \in C!Terminal <=> f.type = "receipt" /\ f.kind \in C!Terminal
         /\ Brought(f) # "submitted"
  BY DEF Brought, EventKinds, ReceiptKinds, C!ProgressStatusOf, Statuses, C!Terminal

LEMMA BelowOrder ==
  /\ \A s \in Statuses : Below(s, s) /\ Below("submitted", s)
  /\ \A s, t \in Statuses : Below(s, t) /\ Below(t, s) => s = t
  /\ \A s, t \in Statuses : Below(s, t) /\ s \in C!Terminal => s = t
  /\ \A s, t, u \in Statuses : Below(s, t) /\ Below(t, u) => Below(s, u)
  /\ \A s \in Statuses : C!PhaseRank(s) \in 0..3 /\ (s \in C!Terminal <=> C!PhaseRank(s) = 3)
<1>1. \A s \in Statuses : C!PhaseRank(s) \in 0..3 /\ (s \in C!Terminal <=> C!PhaseRank(s) = 3)
  BY Ranks DEF Statuses, C!Terminal
<1>2. \A s \in Statuses : Below(s, s) /\ Below("submitted", s)
  BY Ranks DEF Below, Statuses
<1>3. \A s, t \in Statuses : Below(s, t) /\ Below(t, s) => s = t
  BY <1>1 DEF Below
<1>4. \A s, t \in Statuses : Below(s, t) /\ s \in C!Terminal => s = t
  BY <1>1 DEF Below
<1>5. \A s, t, u \in Statuses : Below(s, t) /\ Below(t, u) => Below(s, u)
  BY <1>1 DEF Below
<1> QED  BY <1>1, <1>2, <1>3, <1>4, <1>5

\* Statuses that are not terminal are told apart by their rank.
LEMMA JoinedIs ==
  ASSUME NEW s \in Statuses, NEW w \in Statuses \cup {"none"}
  PROVE  /\ Joined(s, w) \in Statuses /\ Below(s, Joined(s, w))
         /\ w # "none" /\ ~(s \in C!Terminal /\ w \in C!Terminal /\ s # w) => Below(w, Joined(s, w))
         /\ \A t \in Statuses : Below(s, t) /\ (w = "none" \/ Below(w, t)) => Below(Joined(s, w), t)
         /\ \A t \in Statuses : Below(s, t) /\ w = t => Joined(s, w) = t
<1>1. \A x, y \in Statuses : C!PhaseRank(x) = C!PhaseRank(y) /\ x \notin C!Terminal => x = y
  BY Ranks DEF Statuses, C!Terminal
<1>2. "none" \notin Statuses
  BY DEF Statuses
<1>3. CASE w = "none"
  <2>1. Joined(s, w) = s
    BY <1>3 DEF Joined
  <2> QED  BY <1>2, <1>3, <2>1, BelowOrder
<1>4. CASE w \in Statuses
  <2>1. C!PhaseRank(s) \in 0..3 /\ C!PhaseRank(w) \in 0..3
    BY <1>4, BelowOrder
  <2>2. CASE s \in C!Terminal
    BY <1>2, <1>4, <2>1, <2>2, BelowOrder DEF Joined, Below
  <2>3. CASE s \notin C!Terminal /\ C!PhaseRank(w) >= C!PhaseRank(s)
    BY <1>1, <1>2, <1>4, <2>1, <2>3, BelowOrder DEF Joined, Below
  <2>4. CASE s \notin C!Terminal /\ ~(C!PhaseRank(w) >= C!PhaseRank(s))
    BY <1>1, <1>2, <1>4, <2>1, <2>4, BelowOrder DEF Joined, Below
  <2> QED  BY <2>2, <2>3, <2>4
<1> QED  BY <1>3, <1>4

LEMMA TableIs ==
  ASSUME NEW e
  PROVE  e \in CommandTables <=> e \in [DOMAIN e -> CommandEntries] /\ DOMAIN e \subseteq CommandIds
  BY DEF CommandTables

LEMMA WithIs ==
  ASSUME NEW e \in CommandTables, NEW c \in CommandIds, NEW en \in CommandEntries
  PROVE  LET g == C!With(e, c, en)
         IN /\ g \in CommandTables /\ DOMAIN g = DOMAIN e \cup {c} /\ g[c] = en
            /\ \A d \in DOMAIN e \ {c} : g[d] = e[d]
<1> DEFINE g == C!With(e, c, en)
<1>1. /\ g \in [DOMAIN e \cup {c} -> CommandEntries] /\ DOMAIN g = DOMAIN e \cup {c} /\ g[c] = en
      /\ \A d \in DOMAIN e \ {c} : g[d] = e[d]
  BY TableIs DEF C!With
<1> HIDE DEF g
<1>2. DOMAIN g \subseteq CommandIds
  BY <1>1, TableIs
<1>3. g \in CommandTables
  BY <1>1, <1>2, TableIs
<1> QED  BY <1>1, <1>3 DEF g

LEMMA OverIs ==
  ASSUME NEW e \in CommandTables, NEW h \in CommandTables
  PROVE  LET g == C!Over(h, e)
         IN /\ g \in CommandTables /\ DOMAIN g = DOMAIN h \cup DOMAIN e
            /\ \A d \in DOMAIN h : g[d] = h[d]
            /\ \A d \in DOMAIN e \ DOMAIN h : g[d] = e[d]
<1> DEFINE g == C!Over(h, e)
<1>1. /\ g \in [DOMAIN h \cup DOMAIN e -> CommandEntries] /\ DOMAIN g = DOMAIN h \cup DOMAIN e
      /\ \A d \in DOMAIN h : g[d] = h[d]
      /\ \A d \in DOMAIN e \ DOMAIN h : g[d] = e[d]
  BY TableIs DEF C!Over
<1> HIDE DEF g
<1>2. DOMAIN g \subseteq CommandIds
  BY <1>1, TableIs
<1>3. g \in CommandTables
  BY <1>1, <1>2, TableIs
<1> QED  BY <1>1, <1>3 DEF g

\* A projection that tells its terminal entries by their status.
Shaped(f) ==
  /\ f \in Speech /\ f.id = <<f.type, f.command, f.kind>>
  /\ (f.type = "event" /\ f.kind \in EventKinds) \/ (f.type = "receipt" /\ f.kind \in ReceiptKinds)
Marked(e) == \A c \in DOMAIN e : e[c].terminal <=> e[c].status \in C!Terminal

\* What an entry becomes when it takes in the frame f.
Joins(en, f, next) ==
  /\ next \in CommandEntries /\ next.status = Joined(en.status, Brought(f))
  /\ next.terminal <=> next.status \in C!Terminal
  /\ next.generation = en.generation
  /\ next.event \in {en.event, f.id} /\ next.receipt \in {en.receipt, f.id}

LEMMA AdvanceIs ==
  ASSUME NEW en \in CommandEntries, en.terminal <=> en.status \in C!Terminal,
         NEW w \in (Statuses \ C!Terminal) \cup {"none"}
  PROVE  LET next == C!Advance(en, w)
         IN /\ next \in CommandEntries /\ next.status = Joined(en.status, w)
            /\ next.terminal <=> next.status \in C!Terminal
            /\ next.generation = en.generation /\ next.event = en.event /\ next.receipt = en.receipt
<1>1. en.status \in Statuses
  BY DEF CommandEntries
<1>2. CASE w # "none" /\ ~en.terminal /\ C!PhaseRank(w) >= C!PhaseRank(en.status)
  <2>1. C!Advance(en, w) = [en EXCEPT !.status = w] /\ Joined(en.status, w) = w
    BY <1>2 DEF C!Advance, Joined
  <2>2. w \in Statuses /\ w \notin C!Terminal
    BY <1>2
  <2> QED  BY <1>2, <2>1, <2>2 DEF CommandEntries
<1>3. CASE ~(w # "none" /\ ~en.terminal /\ C!PhaseRank(w) >= C!PhaseRank(en.status))
  <2>1. C!Advance(en, w) = en /\ Joined(en.status, w) = en.status
    BY <1>3 DEF C!Advance, Joined
  <2> QED  BY <2>1
<1> QED  BY <1>2, <1>3

\* Accepting a frame that decides nothing otherwise than it was decided.
LEMMA TakesIn ==
  ASSUME NEW p \in Projections, Marked(p.entries), NEW f, Shaped(f), C!Accepts(p, f),
         Brought(f) \in C!Terminal /\ p.entries[f.command].terminal => p.entries[f.command].status = f.kind
  PROVE  LET q == C!ApplyMessage(p, f)
         IN /\ q \in Projections /\ q.seen = p.seen \cup {f.id} /\ q.conflicts = p.conflicts
            /\ DOMAIN q.entries = DOMAIN p.entries
            /\ \A d \in DOMAIN p.entries : d # f.command => q.entries[d] = p.entries[d]
            /\ Joins(p.entries[f.command], f, q.entries[f.command])
<1> DEFINE c == f.command
           en == p.entries[c]
           q == C!ApplyMessage(p, f)
<1>1. /\ c \in DOMAIN p.entries /\ p.entries \in [DOMAIN p.entries -> CommandEntries] /\ DOMAIN p.entries \subseteq CommandIds
      /\ en \in CommandEntries /\ (en.terminal <=> en.status \in C!Terminal) /\ f.id \in FrameIds
  <2>1. p.entries \in CommandTables /\ c \in DOMAIN p.entries
    BY DEF Projections, C!Accepts, C!Knows
  <2>2. p.entries \in [DOMAIN p.entries -> CommandEntries] /\ DOMAIN p.entries \subseteq CommandIds
    BY <2>1, TableIs
  <2> QED  BY <2>1, <2>2 DEF Shaped, Speech, Marked
<1>2. ASSUME NEW next, Joins(en, f, next), NEW r, r = [[p EXCEPT !.seen = @ \cup {f.id}] EXCEPT !.entries[c] = next]
      PROVE  /\ r \in Projections /\ r.seen = p.seen \cup {f.id} /\ r.conflicts = p.conflicts
             /\ DOMAIN r.entries = DOMAIN p.entries
             /\ \A d \in DOMAIN p.entries : d # c => r.entries[d] = p.entries[d]
             /\ Joins(en, f, r.entries[c])
  <2> DEFINE g == [p.entries EXCEPT ![c] = next]
  <2>1. /\ g \in [DOMAIN p.entries -> CommandEntries] /\ DOMAIN g = DOMAIN p.entries /\ g[c] = next
        /\ \A d \in DOMAIN p.entries : d # c => g[d] = p.entries[d]
    BY <1>1, <1>2 DEF Joins
  <2>2. g \in CommandTables
    BY <1>1, <2>1 DEF CommandTables
  <2>3. /\ r.entries = g /\ r.seen = p.seen \cup {f.id} /\ r.conflicts = p.conflicts
        /\ r = [generation |-> p.generation, entries |-> g, seen |-> p.seen \cup {f.id},
                cancels |-> p.cancels, conflicts |-> p.conflicts]
    BY <1>2 DEF Projections
  <2> HIDE DEF g
  <2>4. r \in Projections
    BY <1>1, <2>2, <2>3 DEF Projections
  <2> QED  BY <1>2, <2>1, <2>3, <2>4
<1>3. CASE f.type = "event"
  <2>1. q = C!Event(p, f) /\ f.kind \in EventKinds
    BY <1>3 DEF C!ApplyMessage, Shaped
  <2> DEFINE told == [en EXCEPT !.event = f.id]
             next == C!Advance(told, C!ProgressStatusOf[f.kind])
  <2>2. q = [[p EXCEPT !.seen = @ \cup {f.id}] EXCEPT !.entries[c] = next]
    BY <2>1 DEF C!Event, Projections
  <2>3. C!ProgressStatusOf[f.kind] \in (Statuses \ C!Terminal) \cup {"none"} /\ C!ProgressStatusOf[f.kind] = Brought(f)
    <3>1. C!ProgressStatusOf[f.kind] = Brought(f)
      BY <1>3 DEF Brought
    <3>2. Brought(f) \in Statuses \cup {"none"} /\ (Brought(f) \in C!Terminal <=> f.type = "receipt" /\ f.kind \in C!Terminal)
      BY <1>3, <2>1, Broughts
    <3>3. Brought(f) \notin C!Terminal
      BY <1>3, <3>2
    <3> QED  BY <3>1, <3>2, <3>3
  <2>4. told \in CommandEntries /\ told.status = en.status /\ told.terminal = en.terminal
        /\ told.generation = en.generation /\ told.event = f.id /\ told.receipt = en.receipt
    BY <1>1 DEF CommandEntries
  <2> HIDE DEF told
  <2>5. Joins(en, f, next)
    BY <1>1, <2>3, <2>4, AdvanceIs DEF Joins
  <2> QED  BY <1>2, <2>2, <2>5
<1>4. CASE f.type = "receipt"
  <2>1. q = C!ObserveReceipt(p, f) /\ f.kind \in ReceiptKinds /\ Brought(f) = f.kind
    BY <1>4 DEF C!ApplyMessage, Shaped, Brought
  <2>2. CASE f.kind \notin C!Terminal
    <3>1. q = [[p EXCEPT !.seen = @ \cup {f.id}] EXCEPT !.entries[c] = C!Advance(en, "accepted")]
      BY <2>1, <2>2 DEF C!ObserveReceipt, Projections
    <3>2. f.kind = "accepted" /\ "accepted" \in Statuses \ C!Terminal
      BY <2>1, <2>2 DEF ReceiptKinds, C!Terminal, Statuses
    <3>3. Joins(en, f, C!Advance(en, "accepted"))
      BY <1>1, <2>1, <3>2, AdvanceIs DEF Joins
    <3> QED  BY <1>2, <3>1, <3>3
  <2>3. CASE f.kind \in C!Terminal /\ ~en.terminal
    <3> DEFINE next == [en EXCEPT !.terminal = TRUE, !.status = f.kind, !.receipt = f.id]
    <3>1. q = [[p EXCEPT !.seen = @ \cup {f.id}] EXCEPT !.entries[c] = next]
      BY <2>1, <2>3 DEF C!ObserveReceipt, Projections, C!TerminalStatusOf
    <3>2. f.kind \in Statuses /\ f.kind # "none" /\ C!PhaseRank(f.kind) >= C!PhaseRank(en.status)
      <4>1. f.kind \in Statuses /\ f.kind # "none" /\ en.status \in Statuses
        BY <1>1, <2>3 DEF Statuses, C!Terminal, CommandEntries
      <4> QED  BY <2>3, <4>1, BelowOrder
    <3>3. Joined(en.status, Brought(f)) = f.kind
      BY <1>1, <2>1, <2>3, <3>2 DEF Joined
    <3>4. Joins(en, f, next)
      BY <1>1, <2>3, <3>2, <3>3 DEF Joins, CommandEntries
    <3> QED  BY <1>2, <3>1, <3>4
  <2>4. CASE f.kind \in C!Terminal /\ en.terminal
    <3>1. q = [p EXCEPT !.seen = @ \cup {f.id}] /\ en.status = f.kind
      BY <2>1, <2>4 DEF C!ObserveReceipt, C!TerminalStatusOf
    <3>2. q = [[p EXCEPT !.seen = @ \cup {f.id}] EXCEPT !.entries[c] = en]
      BY <1>1, <3>1 DEF Projections
    <3>3. Joins(en, f, en)
      BY <1>1, <2>1, <3>1 DEF Joins, Joined
    <3> QED  BY <1>2, <3>2, <3>3
  <2> QED  BY <2>2, <2>3, <2>4
<1> QED  BY <1>3, <1>4 DEF Shaped

\* Anything else leaves the projection as it was.
LEMMA Ignores ==
  ASSUME NEW p, NEW f, f.type \in {"event", "receipt"}, ~C!Accepts(p, f)
  PROVE  C!ApplyMessage(p, f) = p
  BY DEF C!ApplyMessage, C!Event, C!ObserveReceipt

\* A submission adds a command that is not known; nothing else is touched.
LEMMA Submits ==
  ASSUME NEW p \in Projections, NEW f \in Requests, f.type = "submit"
  PROVE  LET q == C!ApplyMessage(p, f)
         IN /\ q \in Projections /\ q.seen = p.seen /\ q.conflicts = p.conflicts
            /\ DOMAIN q.entries = DOMAIN p.entries \cup {f.command}
            /\ \A d \in DOMAIN p.entries : q.entries[d] = p.entries[d]
            /\ f.command \notin DOMAIN p.entries =>
                 q.entries[f.command] = [status |-> "submitted", terminal |-> FALSE, generation |-> f.generation,
                                         receipt |-> C!NoId, event |-> C!NoId]
<1> DEFINE q == C!ApplyMessage(p, f)
<1>1. q = C!Submit(p, f)
  BY DEF C!ApplyMessage
<1>2. CASE f.command \in DOMAIN p.entries
  BY <1>1, <1>2 DEF C!Submit, C!Knows
<1>3. CASE f.command \notin DOMAIN p.entries
  <2> DEFINE en == [status |-> "submitted", terminal |-> FALSE, generation |-> f.generation,
                    receipt |-> C!NoId, event |-> C!NoId]
             g == C!With(p.entries, f.command, en)
  <2>1. en \in CommandEntries /\ f.command \in CommandIds /\ p.entries \in CommandTables
    BY DEF CommandEntries, Statuses, Requests, Projections
  <2> HIDE DEF en
  <2>2. /\ g \in CommandTables /\ DOMAIN g = DOMAIN p.entries \cup {f.command} /\ g[f.command] = en
        /\ \A d \in DOMAIN p.entries \ {f.command} : g[d] = p.entries[d]
    BY <2>1, WithIs
  <2>3. C!Larger(p.generation, f.generation) \in CommandGens
    BY DEF C!Larger, Projections, Requests
  <2> HIDE DEF g
  <2>4. q = [p EXCEPT !.generation = C!Larger(p.generation, f.generation), !.entries = g]
    BY <1>1, <1>3 DEF C!Submit, C!Knows, g, en
  <2>5. q \in Projections /\ q.entries = g /\ q.seen = p.seen /\ q.conflicts = p.conflicts
    BY <2>2, <2>3, <2>4 DEF Projections
  <2> QED  BY <1>3, <2>2, <2>5 DEF en
<1> QED  BY <1>2, <1>3

LEMMA Cancels ==
  ASSUME NEW p \in Projections, NEW f \in Requests, f.type = "cancel"
  PROVE  LET q == C!ApplyMessage(p, f)
         IN q \in Projections /\ q.seen = p.seen /\ q.conflicts = p.conflicts /\ q.entries = p.entries
<1>1. C!ApplyMessage(p, f) = C!Cancel(p, f)
  BY DEF C!ApplyMessage
<1> QED  BY <1>1 DEF C!Cancel, Projections, Requests

\* An image overwrites the commands it has, and what they name is known.
LEMMA TakesImage ==
  ASSUME NEW p \in Projections, NEW f \in Images
  PROVE  LET q == C!ApplyMessage(p, f)
         IN /\ q \in Projections /\ q.entries = C!Over(f.commands, p.entries) /\ q.conflicts = p.conflicts
            /\ \A x \in q.seen :
                 \/ x \in p.seen
                 \/ \E c \in DOMAIN f.commands : x # C!NoId /\ x \in {f.commands[c].event, f.commands[c].receipt}
<1> DEFINE q == C!ApplyMessage(p, f)
           ids == (p.seen \cup UNION {{f.commands[c].event, f.commands[c].receipt} : c \in DOMAIN f.commands}) \ {C!NoId}
           g == C!Over(f.commands, p.entries)
<1>1. q = C!ApplyProjection(p, f)
  BY DEF C!ApplyMessage, Images
<1>2. g \in CommandTables /\ C!Larger(p.generation, f.generation) \in CommandGens
  BY OverIs DEF Images, Projections, C!Larger
<1>3. ids \in SUBSET FrameIds
  <2>1. f.commands \in [DOMAIN f.commands -> CommandEntries]
    BY TableIs DEF Images
  <2>2. \A c \in DOMAIN f.commands : f.commands[c].event \in FrameIds \cup {C!NoId} /\ f.commands[c].receipt \in FrameIds \cup {C!NoId}
    BY <2>1 DEF CommandEntries
  <2> QED  BY <2>2 DEF Projections
<1>4. q = [p EXCEPT !.generation = C!Larger(p.generation, f.generation), !.entries = g, !.seen = ids]
  BY <1>1 DEF C!ApplyProjection
<1>5. \A x \in ids :
        \/ x \in p.seen
        \/ \E c \in DOMAIN f.commands : x # C!NoId /\ x \in {f.commands[c].event, f.commands[c].receipt}
  OBVIOUS
<1> HIDE DEF ids, g
<1>6. q \in Projections /\ q.entries = g /\ q.seen = ids /\ q.conflicts = p.conflicts
  BY <1>2, <1>3, <1>4 DEF Projections
<1> QED  BY <1>5, <1>6 DEF g

\* A frame of the authority that owns the command, whose table or projection
\* shows at least what the frame brings.
Own(f, subs) == f.generation = subs[f.command]
Shows(e, f) == f.command \in DOMAIN e /\ (Brought(f) = "none" \/ Below(Brought(f), e[f.command].status))
Told(e, x, said, subs) == \E f \in said : Own(f, subs) /\ f.id = x /\ Shows(e, f)
TableHeld(e, said, subs) ==
  /\ e \in CommandTables /\ Marked(e)
  /\ \A c \in DOMAIN e :
       /\ c \in DOMAIN subs /\ e[c].generation = subs[c]
       /\ e[c].event = C!NoId \/ Told(e, e[c].event, said, subs)
       /\ e[c].receipt = C!NoId \/ Told(e, e[c].receipt, said, subs)
ProjectionHeld(p, said, subs) ==
  /\ p \in Projections /\ TableHeld(p.entries, said, subs)
  /\ \A x \in p.seen : Told(p.entries, x, said, subs)

\* No command is further in e than in h.
Behind(e, h) == \A c \in DOMAIN e \cap DOMAIN h : Below(e[c].status, h[c].status)

\* What was said is of one authority or another, and the owner's is folded.
IssuedHeld(said, subs, e) ==
  \A f \in said :
    /\ f \in Speech /\ f.command \in DOMAIN subs
    /\ Own(f, subs) => Shaped(f) /\ Shows(e, f)

\* An image is the first frame of a link, and newer than what the client has.
ImageHeld(f, e, h, said, subs) ==
  /\ f \in Images /\ TableHeld(f.commands, said, subs)
  /\ Behind(e, f.commands) /\ Behind(f.commands, h) /\ DOMAIN f.commands \subseteq DOMAIN h
LinkHeld(link, e, h, said, subs) ==
  /\ link \in Seq(Images \cup Speech)
  /\ \A i \in 1..Len(link) : link[i] \in said \/ (i = 1 /\ ImageHeld(link[i], e, h, said, subs))

\* What the client does not show yet is on its way.
Brings(f, c, status) ==
  IF f.type = "image" THEN c \in DOMAIN f.commands /\ f.commands[c].status = status
  ELSE f.command = c /\ Brought(f) = status
Underway(link, e, h, subs) ==
  \A c \in DOMAIN h :
    /\ c \in DOMAIN e \/ (Len(link) > 0 /\ link[1].type = "image" /\ c \in DOMAIN link[1].commands)
    /\ \/ c \in DOMAIN e /\ e[c].status = h[c].status
       \/ \E i \in 1..Len(link) :
            /\ Brings(link[i], c, h[c].status)
            /\ link[i].type # "image" => Own(link[i], subs)

\* What the client asked for it has itself, and nobody else what it did not ask for.
AskedHeld(asked, e, subs) ==
  /\ asked \in Seq(Requests)
  /\ \A i \in 1..Len(asked) : asked[i].type = "submit" =>
       asked[i].command \in DOMAIN e /\ asked[i].generation = subs[asked[i].command]
Submitted(subs) == subs \in [DOMAIN subs -> CommandOwn] /\ DOMAIN subs \subseteq CommandIds

CommandInv ==
  /\ Submitted(cSubmitted) /\ cClient.conflicts = {}
  /\ ProjectionHeld(cClient, cIssued, cSubmitted) /\ ProjectionHeld(cServer, cIssued, cSubmitted)
  /\ IssuedHeld(cIssued, cSubmitted, cServer.entries)
  /\ Behind(cClient.entries, cServer.entries)
  /\ \A c \in DOMAIN cClient.entries \ DOMAIN cServer.entries : cClient.entries[c].status = "submitted"
  /\ LinkHeld(cToClient, cClient.entries, cServer.entries, cIssued, cSubmitted)
  /\ Underway(cToClient, cClient.entries, cServer.entries, cSubmitted)
  /\ AskedHeld(cToServer, cClient.entries, cSubmitted)

\* What grows: tables, and who submitted what.
Grows(e, e2) == DOMAIN e \subseteq DOMAIN e2 /\ \A c \in DOMAIN e : Below(e[c].status, e2[c].status)
Keeps(subs, subs2) == DOMAIN subs \subseteq DOMAIN subs2 /\ \A c \in DOMAIN subs : subs2[c] = subs[c]

LEMMA CommandEntryIs ==
  ASSUME NEW e \in CommandTables, NEW c \in DOMAIN e
  PROVE  c \in CommandIds /\ e[c] \in CommandEntries /\ e[c].status \in Statuses
<1>1. e \in [DOMAIN e -> CommandEntries] /\ DOMAIN e \subseteq CommandIds
  BY TableIs
<1> QED  BY <1>1 DEF CommandEntries

LEMMA ShowsOn ==
  ASSUME NEW e \in CommandTables, NEW e2 \in CommandTables, Grows(e, e2),
         NEW f, Shaped(f), Shows(e, f)
  PROVE  Shows(e2, f)
<1> DEFINE c == f.command
<1>1. c \in DOMAIN e /\ c \in DOMAIN e2 /\ Below(e[c].status, e2[c].status)
  BY DEF Shows, Grows
<1>2. e[c].status \in Statuses /\ e2[c].status \in Statuses
  BY <1>1, CommandEntryIs
<1>3. CASE Brought(f) = "none"
  BY <1>1, <1>3 DEF Shows
<1>4. CASE Brought(f) # "none"
  <2>1. Brought(f) \in Statuses /\ Below(Brought(f), e[c].status)
    BY <1>4, Broughts DEF Shows, Shaped
  <2>2. Below(Brought(f), e2[c].status)
    BY <1>1, <1>2, <2>1, BelowOrder
  <2> QED  BY <1>1, <2>2 DEF Shows
<1> QED  BY <1>3, <1>4

LEMMA IssuedOn ==
  ASSUME NEW said, NEW subs, NEW subs2, NEW e \in CommandTables, NEW e2 \in CommandTables,
         IssuedHeld(said, subs, e), Grows(e, e2), Keeps(subs, subs2)
  PROVE  IssuedHeld(said, subs2, e2)
<1> SUFFICES ASSUME NEW f \in said
             PROVE  f \in Speech /\ f.command \in DOMAIN subs2 /\ (Own(f, subs2) => Shaped(f) /\ Shows(e2, f))
  BY DEF IssuedHeld
<1>1. f \in Speech /\ f.command \in DOMAIN subs /\ (Own(f, subs) => Shaped(f) /\ Shows(e, f))
  BY DEF IssuedHeld
<1>2. f.command \in DOMAIN subs2 /\ (Own(f, subs2) <=> Own(f, subs))
  BY <1>1 DEF Keeps, Own
<1> QED  BY <1>1, <1>2, ShowsOn

LEMMA ToldOn ==
  ASSUME NEW said, NEW said2, NEW subs, NEW subs2, NEW h, NEW e \in CommandTables, NEW e2 \in CommandTables,
         IssuedHeld(said, subs, h), Grows(e, e2), Keeps(subs, subs2), said \subseteq said2,
         NEW x, Told(e, x, said, subs)
  PROVE  Told(e2, x, said2, subs2)
<1>1. PICK f \in said : Own(f, subs) /\ f.id = x /\ Shows(e, f)
  BY DEF Told
<1>2. Shaped(f) /\ f.command \in DOMAIN subs
  BY <1>1 DEF IssuedHeld
<1>3. Own(f, subs2) /\ Shows(e2, f) /\ f \in said2
  BY <1>1, <1>2, ShowsOn DEF Own, Keeps
<1> QED  BY <1>1, <1>3 DEF Told

\* A table that grew, whose new names were told as well, is held.
LEMMA TableOn ==
  ASSUME NEW said, NEW said2, NEW subs, NEW subs2, NEW h, NEW e, NEW e2 \in CommandTables,
         IssuedHeld(said, subs, h), Grows(e, e2), Keeps(subs, subs2), said \subseteq said2,
         TableHeld(e, said, subs), Marked(e2),
         \A c \in DOMAIN e2 :
           /\ c \in DOMAIN subs2 /\ e2[c].generation = subs2[c]
           /\ \/ e2[c].event = C!NoId \/ Told(e2, e2[c].event, said2, subs2)
              \/ c \in DOMAIN e /\ e2[c].event = e[c].event
           /\ \/ e2[c].receipt = C!NoId \/ Told(e2, e2[c].receipt, said2, subs2)
              \/ c \in DOMAIN e /\ e2[c].receipt = e[c].receipt
  PROVE  TableHeld(e2, said2, subs2)
<1>1. e \in CommandTables
  BY DEF TableHeld
<1> SUFFICES ASSUME NEW c \in DOMAIN e2
             PROVE  /\ e2[c].event = C!NoId \/ Told(e2, e2[c].event, said2, subs2)
                    /\ e2[c].receipt = C!NoId \/ Told(e2, e2[c].receipt, said2, subs2)
  BY DEF TableHeld
<1>2. ASSUME c \in DOMAIN e, e2[c].event = e[c].event
      PROVE  e2[c].event = C!NoId \/ Told(e2, e2[c].event, said2, subs2)
  BY <1>1, <1>2, ToldOn DEF TableHeld
<1>3. ASSUME c \in DOMAIN e, e2[c].receipt = e[c].receipt
      PROVE  e2[c].receipt = C!NoId \/ Told(e2, e2[c].receipt, said2, subs2)
  BY <1>1, <1>3, ToldOn DEF TableHeld
<1> QED  BY <1>2, <1>3

LEMMA TableStill ==
  ASSUME NEW said, NEW said2, NEW subs, NEW subs2, NEW h, NEW e,
         IssuedHeld(said, subs, h), Keeps(subs, subs2), said \subseteq said2,
         TableHeld(e, said, subs)
  PROVE  TableHeld(e, said2, subs2)
<1>1. e \in CommandTables /\ Marked(e)
  BY DEF TableHeld
<1>2. Grows(e, e)
  BY <1>1, CommandEntryIs, BelowOrder DEF Grows
<1>3. \A c \in DOMAIN e : c \in DOMAIN subs2 /\ e[c].generation = subs2[c]
  BY DEF TableHeld, Keeps
<1> QED  BY <1>1, <1>2, <1>3, TableOn

LEMMA ProjectionStill ==
  ASSUME NEW said, NEW said2, NEW subs, NEW subs2, NEW h, NEW p,
         IssuedHeld(said, subs, h), Keeps(subs, subs2), said \subseteq said2,
         ProjectionHeld(p, said, subs)
  PROVE  ProjectionHeld(p, said2, subs2)
<1>1. p \in Projections /\ TableHeld(p.entries, said, subs) /\ p.entries \in CommandTables
  BY DEF ProjectionHeld, TableHeld
<1>2. Grows(p.entries, p.entries)
  BY <1>1, CommandEntryIs, BelowOrder DEF Grows
<1>3. TableHeld(p.entries, said2, subs2)
  BY <1>1, TableStill
<1>4. \A x \in p.seen : Told(p.entries, x, said2, subs2)
  BY <1>1, <1>2, ToldOn DEF ProjectionHeld
<1> QED  BY <1>1, <1>3, <1>4 DEF ProjectionHeld

\* Folding an own frame keeps a projection held.
LEMMA ProjectionTakes ==
  ASSUME NEW said, NEW subs, NEW h, NEW p, NEW f, NEW q, q = C!ApplyMessage(p, f),
         NEW said2, said2 = said \cup {f},
         ProjectionHeld(p, said, subs), Shaped(f), Own(f, subs),
         IssuedHeld(said, subs, h), C!Accepts(p, f),
         Brought(f) \in C!Terminal /\ p.entries[f.command].terminal => p.entries[f.command].status = f.kind
  PROVE  LET c == f.command
         IN /\ ProjectionHeld(q, said2, subs) /\ q.conflicts = p.conflicts
            /\ DOMAIN q.entries = DOMAIN p.entries /\ c \in DOMAIN p.entries
            /\ \A d \in DOMAIN p.entries : d # c => q.entries[d] = p.entries[d]
            /\ q.entries[c].status = Joined(p.entries[c].status, Brought(f))
            /\ Grows(p.entries, q.entries) /\ Shows(q.entries, f)
<1> DEFINE c == f.command
           en == p.entries[c]
<1>1. /\ p \in Projections /\ p.entries \in CommandTables /\ Marked(p.entries) /\ TableHeld(p.entries, said, subs)
      /\ c \in DOMAIN p.entries
  BY DEF ProjectionHeld, TableHeld, C!Accepts, C!Knows
<1>2. /\ q \in Projections /\ q.seen = p.seen \cup {f.id} /\ q.conflicts = p.conflicts
      /\ DOMAIN q.entries = DOMAIN p.entries
      /\ \A d \in DOMAIN p.entries : d # c => q.entries[d] = p.entries[d]
      /\ Joins(en, f, q.entries[c])
  BY <1>1, TakesIn
<1>3. /\ en.status \in Statuses /\ Brought(f) \in Statuses \cup {"none"}
      /\ en.terminal <=> en.status \in C!Terminal
      /\ q.entries[c].status = Joined(en.status, Brought(f))
  BY <1>1, <1>2, CommandEntryIs, Broughts DEF Shaped, Marked, Joins
<1>4. Grows(p.entries, q.entries)
  <2> SUFFICES ASSUME NEW d \in DOMAIN p.entries PROVE Below(p.entries[d].status, q.entries[d].status)
    BY <1>2 DEF Grows
  <2>1. CASE d = c
    BY <1>3, <2>1, JoinedIs
  <2>2. CASE d # c
    BY <1>1, <1>2, <2>2, CommandEntryIs, BelowOrder
  <2> QED  BY <2>1, <2>2
<1>5. Shows(q.entries, f)
  <2>1. CASE Brought(f) = "none"
    BY <1>1, <1>2, <2>1 DEF Shows
  <2>2. CASE Brought(f) # "none"
    <3>1. Brought(f) \in C!Terminal => Brought(f) = f.kind
      BY Broughts DEF Shaped, Brought
    <3>2. ~(en.status \in C!Terminal /\ Brought(f) \in C!Terminal /\ en.status # Brought(f))
      BY <1>3, <3>1
    <3>3. Below(Brought(f), q.entries[c].status)
      BY <1>3, <2>2, <3>2, JoinedIs
    <3> QED  BY <1>1, <1>2, <3>3 DEF Shows
  <2> QED  BY <2>1, <2>2
<1>6. Marked(q.entries)
  <2> SUFFICES ASSUME NEW d \in DOMAIN q.entries PROVE q.entries[d].terminal <=> q.entries[d].status \in C!Terminal
    BY DEF Marked
  <2>1. CASE d = c
    BY <1>2, <2>1 DEF Joins
  <2>2. CASE d # c
    BY <1>1, <1>2, <2>2 DEF Marked
  <2> QED  BY <2>1, <2>2
<1>7. Told(q.entries, f.id, said2, subs)
  BY <1>5 DEF Told
<1>8. Keeps(subs, subs) /\ said \subseteq said2 /\ f \in said2
  BY DEF Keeps
<1>9. TableHeld(q.entries, said2, subs)
  <2>1. ASSUME NEW d \in DOMAIN q.entries
        PROVE  /\ d \in DOMAIN subs /\ q.entries[d].generation = subs[d]
               /\ q.entries[d].event \in {p.entries[d].event, f.id}
               /\ q.entries[d].receipt \in {p.entries[d].receipt, f.id}
    <3>1. d \in DOMAIN subs /\ p.entries[d].generation = subs[d] /\ d \in DOMAIN p.entries
      BY <1>1, <1>2 DEF TableHeld
    <3>2. CASE d = c
      BY <1>2, <3>1, <3>2 DEF Joins
    <3>3. CASE d # c
      BY <1>2, <3>1, <3>3
    <3> QED  BY <3>2, <3>3
  <2>2. q.entries \in CommandTables
    BY <1>2 DEF Projections
  <2>3. ASSUME NEW d \in DOMAIN q.entries
        PROVE  /\ d \in DOMAIN subs /\ q.entries[d].generation = subs[d]
               /\ \/ q.entries[d].event = C!NoId \/ Told(q.entries, q.entries[d].event, said2, subs)
                  \/ d \in DOMAIN p.entries /\ q.entries[d].event = p.entries[d].event
               /\ \/ q.entries[d].receipt = C!NoId \/ Told(q.entries, q.entries[d].receipt, said2, subs)
                  \/ d \in DOMAIN p.entries /\ q.entries[d].receipt = p.entries[d].receipt
    BY <1>2, <1>7, <2>1
  <2>4. TableHeld(p.entries, said, subs)
    BY <1>1
  <2> QED  BY <1>4, <1>6, <1>8, <2>2, <2>3, <2>4, TableOn
<1>10. \A x \in q.seen : Told(q.entries, x, said2, subs)
  <2>1. q.entries \in CommandTables
    BY <1>2 DEF Projections
  <2>2. \A x \in p.seen : Told(q.entries, x, said2, subs)
    BY <1>1, <1>4, <1>8, <2>1, ToldOn DEF ProjectionHeld
  <2> QED  BY <1>2, <1>7, <2>2
<1>11. ProjectionHeld(q, said2, subs)
  BY <1>2, <1>9, <1>10 DEF ProjectionHeld
<1> QED  BY <1>1, <1>2, <1>3, <1>4, <1>5, <1>11

\* Folding a submission keeps one held.
LEMMA ProjectionAsked ==
  ASSUME NEW said, NEW subs, NEW subs2, NEW h, NEW p, NEW f \in Requests, NEW q, q = C!ApplyMessage(p, f),
         ProjectionHeld(p, said, subs), IssuedHeld(said, subs, h), Keeps(subs, subs2),
         f.type = "submit", f.command \in DOMAIN subs2, f.generation = subs2[f.command]
  PROVE  /\ ProjectionHeld(q, said, subs2) /\ q.conflicts = p.conflicts
         /\ DOMAIN q.entries = DOMAIN p.entries \cup {f.command}
         /\ \A d \in DOMAIN p.entries : q.entries[d] = p.entries[d]
         /\ f.command \notin DOMAIN p.entries => q.entries[f.command].status = "submitted"
         /\ Grows(p.entries, q.entries)
<1> DEFINE c == f.command
<1>1. /\ p \in Projections /\ p.entries \in CommandTables /\ Marked(p.entries) /\ TableHeld(p.entries, said, subs)
  BY DEF ProjectionHeld, TableHeld
<1>2. /\ q \in Projections /\ q.seen = p.seen /\ q.conflicts = p.conflicts
      /\ DOMAIN q.entries = DOMAIN p.entries \cup {c}
      /\ \A d \in DOMAIN p.entries : q.entries[d] = p.entries[d]
      /\ c \notin DOMAIN p.entries =>
           q.entries[c] = [status |-> "submitted", terminal |-> FALSE, generation |-> f.generation,
                           receipt |-> C!NoId, event |-> C!NoId]
  BY <1>1, Submits
<1>3. q.entries \in CommandTables
  BY <1>2 DEF Projections
<1>4. Grows(p.entries, q.entries)
  BY <1>1, <1>2, CommandEntryIs, BelowOrder DEF Grows
<1>5. Marked(q.entries)
  BY <1>1, <1>2 DEF Marked, C!Terminal
<1>6. ASSUME NEW d \in DOMAIN q.entries
      PROVE  /\ d \in DOMAIN subs2 /\ q.entries[d].generation = subs2[d]
             /\ q.entries[d].event = C!NoId \/ (d \in DOMAIN p.entries /\ q.entries[d].event = p.entries[d].event)
             /\ q.entries[d].receipt = C!NoId \/ (d \in DOMAIN p.entries /\ q.entries[d].receipt = p.entries[d].receipt)
  <2>1. CASE d \in DOMAIN p.entries
    <3>1. d \in DOMAIN subs /\ p.entries[d].generation = subs[d]
      BY <1>1, <2>1 DEF TableHeld
    <3> QED  BY <1>2, <2>1, <3>1 DEF Keeps
  <2>2. CASE d \notin DOMAIN p.entries
    BY <1>2, <2>2
  <2> QED  BY <2>1, <2>2
<1>7. TableHeld(q.entries, said, subs2)
  BY <1>1, <1>3, <1>4, <1>5, <1>6, TableOn
<1>8. \A x \in q.seen : Told(q.entries, x, said, subs2)
  BY <1>1, <1>2, <1>3, <1>4, ToldOn DEF ProjectionHeld
<1>9. ProjectionHeld(q, said, subs2)
  BY <1>2, <1>7, <1>8 DEF ProjectionHeld
<1> QED  BY <1>2, <1>4, <1>9

\* The parts of the invariant that follow from what grows.
LEMMA BehindOn ==
  ASSUME NEW e \in CommandTables, NEW h \in CommandTables, NEW h2 \in CommandTables, Behind(e, h), Grows(h, h2),
         \A c \in DOMAIN e \ DOMAIN h : e[c].status = "submitted"
  PROVE  Behind(e, h2) /\ \A c \in DOMAIN e \ DOMAIN h2 : e[c].status = "submitted"
<1> SUFFICES ASSUME NEW c \in DOMAIN e \cap DOMAIN h2 PROVE Below(e[c].status, h2[c].status)
  BY DEF Behind, Grows
<1>1. e[c].status \in Statuses /\ h2[c].status \in Statuses
  BY CommandEntryIs
<1>2. CASE c \in DOMAIN h
  <2>1. Below(e[c].status, h[c].status) /\ Below(h[c].status, h2[c].status) /\ h[c].status \in Statuses
    BY <1>2, CommandEntryIs DEF Behind, Grows
  <2> QED  BY <1>1, <2>1, BelowOrder
<1>3. CASE c \notin DOMAIN h
  BY <1>1, <1>3, BelowOrder
<1> QED  BY <1>2, <1>3

LEMMA ImageOn ==
  ASSUME NEW f, NEW e, NEW e2 \in CommandTables, NEW h, NEW h2 \in CommandTables, NEW said, NEW said2, NEW subs, NEW subs2,
         ImageHeld(f, e, h, said, subs), IssuedHeld(said, subs, h), Keeps(subs, subs2), said \subseteq said2,
         h \in CommandTables, Grows(h, h2),
         \A c \in DOMAIN e2 : (c \in DOMAIN e /\ e2[c] = e[c]) \/ e2[c].status = "submitted"
  PROVE  ImageHeld(f, e2, h2, said2, subs2)
<1>1. /\ f \in Images /\ TableHeld(f.commands, said, subs) /\ f.commands \in CommandTables
      /\ Behind(e, f.commands) /\ Behind(f.commands, h) /\ DOMAIN f.commands \subseteq DOMAIN h
  BY DEF ImageHeld, TableHeld
<1>2. TableHeld(f.commands, said2, subs2)
  BY <1>1, TableStill
<1>3. Behind(f.commands, h2)
  BY <1>1, BehindOn
<1>4. Behind(e2, f.commands)
  <2> SUFFICES ASSUME NEW c \in DOMAIN e2 \cap DOMAIN f.commands PROVE Below(e2[c].status, f.commands[c].status)
    BY DEF Behind
  <2>1. f.commands[c].status \in Statuses
    BY <1>1, CommandEntryIs
  <2>2. CASE c \in DOMAIN e /\ e2[c] = e[c]
    BY <1>1, <2>2 DEF Behind
  <2>3. CASE e2[c].status = "submitted"
    BY <2>1, <2>3, BelowOrder
  <2> QED  BY <2>2, <2>3
<1>5. DOMAIN f.commands \subseteq DOMAIN h2
  BY <1>1 DEF Grows
<1> QED  BY <1>1, <1>2, <1>3, <1>4, <1>5 DEF ImageHeld

LEMMA LinkOn ==
  ASSUME NEW link, NEW e, NEW e2 \in CommandTables, NEW h, NEW h2 \in CommandTables, NEW said, NEW said2, NEW subs, NEW subs2,
         LinkHeld(link, e, h, said, subs), IssuedHeld(said, subs, h), Keeps(subs, subs2), said \subseteq said2,
         h \in CommandTables, Grows(h, h2),
         \A c \in DOMAIN e2 : (c \in DOMAIN e /\ e2[c] = e[c]) \/ e2[c].status = "submitted"
  PROVE  LinkHeld(link, e2, h2, said2, subs2)
<1>1. \A i \in 1..Len(link) : link[i] \in said2 \/ (i = 1 /\ ImageHeld(link[i], e2, h2, said2, subs2))
  BY ImageOn DEF LinkHeld
<1> QED  BY <1>1 DEF LinkHeld

\* A frame that was said is put on the link.
LEMMA LinkMore ==
  ASSUME NEW link, NEW e, NEW h, NEW said, NEW subs, NEW f,
         LinkHeld(link, e, h, said, subs), f \in said, f \in Speech
  PROVE  LinkHeld(Append(link, f), e, h, said, subs)
<1>1. /\ Append(link, f) \in Seq(Images \cup Speech) /\ Len(Append(link, f)) = Len(link) + 1 /\ Len(link) \in Nat
      /\ \A i \in 1..Len(link) : Append(link, f)[i] = link[i]
      /\ Append(link, f)[Len(link) + 1] = f
  BY AppendProperties, LenProperties DEF LinkHeld
<1>2. ASSUME NEW i \in 1..(Len(link) + 1)
      PROVE  Append(link, f)[i] \in said \/ (i = 1 /\ ImageHeld(Append(link, f)[i], e, h, said, subs))
  <2>1. CASE i = Len(link) + 1
    BY <1>1, <2>1
  <2>2. CASE i # Len(link) + 1
    <3>1. i \in 1..Len(link)
      BY <1>1, <2>2
    <3> QED  BY <1>1, <3>1 DEF LinkHeld
  <2> QED  BY <2>1, <2>2
<1> QED  BY <1>1, <1>2 DEF LinkHeld

LEMMA UnderwayMore ==
  ASSUME NEW link \in Seq(Images \cup Speech), NEW e, NEW h, NEW h2, NEW subs, NEW f \in Images \cup Speech,
         Underway(link, e, h, subs), DOMAIN h2 = DOMAIN h,
         \A c \in DOMAIN h : h2[c].status = h[c].status \/ (f.type # "image" /\ Own(f, subs) /\ Brings(f, c, h2[c].status))
  PROVE  Underway(Append(link, f), e, h2, subs)
<1> DEFINE more == Append(link, f)
<1>1. /\ Len(more) = Len(link) + 1 /\ Len(link) \in Nat
      /\ \A i \in 1..Len(link) : more[i] = link[i]
      /\ more[Len(link) + 1] = f
  BY AppendProperties, LenProperties
<1> HIDE DEF more
<1> SUFFICES ASSUME NEW c \in DOMAIN h
             PROVE  /\ c \in DOMAIN e \/ (Len(more) > 0 /\ more[1].type = "image" /\ c \in DOMAIN more[1].commands)
                    /\ \/ c \in DOMAIN e /\ e[c].status = h2[c].status
                       \/ \E i \in 1..Len(more) : Brings(more[i], c, h2[c].status) /\ (more[i].type # "image" => Own(more[i], subs))
  BY DEF Underway, more
<1>2. c \in DOMAIN e \/ (Len(more) > 0 /\ more[1].type = "image" /\ c \in DOMAIN more[1].commands)
  <2>1. CASE c \in DOMAIN e
    BY <2>1
  <2>2. CASE Len(link) > 0 /\ link[1].type = "image" /\ c \in DOMAIN link[1].commands
    <3>1. 1 \in 1..Len(link)
      BY <1>1, <2>2
    <3> QED  BY <1>1, <2>2, <3>1
  <2> QED  BY <2>1, <2>2 DEF Underway
<1>3. CASE h2[c].status = h[c].status
  <2>1. CASE \E i \in 1..Len(link) : Brings(link[i], c, h[c].status) /\ (link[i].type # "image" => Own(link[i], subs))
    <3>1. PICK i \in 1..Len(link) : Brings(link[i], c, h[c].status) /\ (link[i].type # "image" => Own(link[i], subs))
      BY <2>1
    <3>2. i \in 1..Len(more) /\ more[i] = link[i]
      BY <1>1
    <3> QED  BY <1>2, <1>3, <3>1, <3>2
  <2> QED  BY <1>2, <1>3, <2>1 DEF Underway
<1>4. CASE f.type # "image" /\ Own(f, subs) /\ Brings(f, c, h2[c].status)
  <2>1. Len(link) + 1 \in 1..Len(more)
    BY <1>1
  <2> QED  BY <1>1, <1>2, <1>4, <2>1
<1> QED  BY <1>3, <1>4

LEMMA AskedMore ==
  ASSUME NEW asked, NEW e, NEW e2, NEW subs, NEW subs2, NEW f \in Requests,
         AskedHeld(asked, e, subs), DOMAIN e \subseteq DOMAIN e2, Keeps(subs, subs2),
         \A c \in DOMAIN e : c \in DOMAIN subs,
         f.type = "submit" => f.command \in DOMAIN e2 /\ f.generation = subs2[f.command]
  PROVE  AskedHeld(Append(asked, f), e2, subs2)
<1>1. /\ Append(asked, f) \in Seq(Requests) /\ Len(Append(asked, f)) = Len(asked) + 1 /\ Len(asked) \in Nat
      /\ \A i \in 1..Len(asked) : Append(asked, f)[i] = asked[i]
      /\ Append(asked, f)[Len(asked) + 1] = f
  BY AppendProperties, LenProperties DEF AskedHeld
<1>2. ASSUME NEW i \in 1..(Len(asked) + 1), Append(asked, f)[i].type = "submit"
      PROVE  Append(asked, f)[i].command \in DOMAIN e2 /\ Append(asked, f)[i].generation = subs2[Append(asked, f)[i].command]
  <2>1. CASE i = Len(asked) + 1
    BY <1>1, <1>2, <2>1
  <2>2. CASE i # Len(asked) + 1
    <3>1. i \in 1..Len(asked)
      BY <1>1, <2>2
    <3>2. asked[i].command \in DOMAIN e /\ asked[i].generation = subs[asked[i].command]
      BY <1>1, <1>2, <3>1 DEF AskedHeld
    <3> QED  BY <1>1, <3>1, <3>2 DEF Keeps
  <2> QED  BY <2>1, <2>2
<1> QED  BY <1>1, <1>2 DEF AskedHeld

\* The tables and mappings of the invariant.
LEMMA CommandFacts ==
  ASSUME CommandInv
  PROVE  /\ cClient \in Projections /\ cServer \in Projections
         /\ cClient.entries \in CommandTables /\ cServer.entries \in CommandTables
         /\ TableHeld(cClient.entries, cIssued, cSubmitted) /\ TableHeld(cServer.entries, cIssued, cSubmitted)
         /\ Grows(cClient.entries, cClient.entries) /\ Grows(cServer.entries, cServer.entries)
         /\ Keeps(cSubmitted, cSubmitted)
         /\ \A c \in DOMAIN cClient.entries \cup DOMAIN cServer.entries : c \in DOMAIN cSubmitted /\ c \in CommandIds
         /\ \A c \in DOMAIN cSubmitted : c \in CommandIds /\ cSubmitted[c] \in CommandGens
<1>1. /\ cClient \in Projections /\ cServer \in Projections
      /\ TableHeld(cClient.entries, cIssued, cSubmitted) /\ TableHeld(cServer.entries, cIssued, cSubmitted)
  BY DEF CommandInv, ProjectionHeld
<1>2. cClient.entries \in CommandTables /\ cServer.entries \in CommandTables
  BY <1>1 DEF TableHeld
<1>3. Grows(cClient.entries, cClient.entries) /\ Grows(cServer.entries, cServer.entries)
  BY <1>2, CommandEntryIs, BelowOrder DEF Grows
<1>4. \A c \in DOMAIN cClient.entries \cup DOMAIN cServer.entries : c \in DOMAIN cSubmitted /\ c \in CommandIds
  BY <1>1, <1>2, CommandEntryIs DEF TableHeld
<1>5. \A c \in DOMAIN cSubmitted : c \in CommandIds /\ cSubmitted[c] \in CommandGens
  BY DEF CommandInv, Submitted, CommandGens
<1> QED  BY <1>1, <1>2, <1>3, <1>4, <1>5 DEF Keeps

LEMMA AskStep ==
  ASSUME CommandInv, NEW c, (c \in CommandIds /\ \E g \in CommandOwn : C!CallSubmit(c, g)) \/ C!CallCancel(c)
  PROVE  CommandInv'
<1>1. CASE c \in CommandIds /\ \E g \in CommandOwn : C!CallSubmit(c, g)
  <2>1. PICK g \in CommandOwn : C!CallSubmit(c, g)
    BY <1>1
  <2> DEFINE f == [type |-> "submit", command |-> c, generation |-> g]
  <2>2. /\ f \in Requests /\ f.type = "submit" /\ f.command = c /\ f.generation = g /\ c \in CommandIds
        /\ cSubmitted' = C!With(cSubmitted, c, g) /\ (c \in DOMAIN cSubmitted => cSubmitted[c] = g)
        /\ cToServer' = Append(cToServer, f) /\ cClient' = C!ApplyMessage(cClient, f)
        /\ UNCHANGED <<cServer, cToClient, cIssued>>
    BY <1>1, <2>1 DEF C!CallSubmit, C!Ask, Requests, CommandGens
  <2> HIDE DEF f
  <2>3. /\ Submitted(cSubmitted') /\ Keeps(cSubmitted, cSubmitted')
        /\ c \in DOMAIN cSubmitted' /\ cSubmitted'[c] = g
    BY <2>2 DEF CommandInv, Submitted, Keeps, C!With
  <2>4. /\ ProjectionHeld(cClient', cIssued, cSubmitted') /\ cClient'.conflicts = cClient.conflicts
        /\ DOMAIN cClient'.entries = DOMAIN cClient.entries \cup {c}
        /\ \A d \in DOMAIN cClient.entries : cClient'.entries[d] = cClient.entries[d]
        /\ c \notin DOMAIN cClient.entries => cClient'.entries[c].status = "submitted"
    <3>1. /\ ProjectionHeld(cClient, cIssued, cSubmitted) /\ IssuedHeld(cIssued, cSubmitted, cServer.entries)
          /\ f.command \in DOMAIN cSubmitted' /\ f.generation = cSubmitted'[f.command]
      BY <2>2, <2>3 DEF CommandInv
    <3>2. /\ ProjectionHeld(cClient', cIssued, cSubmitted') /\ cClient'.conflicts = cClient.conflicts
          /\ DOMAIN cClient'.entries = DOMAIN cClient.entries \cup {f.command}
          /\ \A d \in DOMAIN cClient.entries : cClient'.entries[d] = cClient.entries[d]
          /\ f.command \notin DOMAIN cClient.entries => cClient'.entries[f.command].status = "submitted"
      <4>1. f \in Requests /\ f.type = "submit" /\ cClient' = C!ApplyMessage(cClient, f) /\ Keeps(cSubmitted, cSubmitted')
        BY <2>2, <2>3
      <4> QED  BY <3>1, <4>1, ProjectionAsked
    <3> QED  BY <2>2, <3>2
  <2>5. cClient'.entries \in CommandTables
    BY <2>4 DEF ProjectionHeld, TableHeld
  <2>6. \A d \in DOMAIN cClient'.entries :
          (d \in DOMAIN cClient.entries /\ cClient'.entries[d] = cClient.entries[d]) \/ cClient'.entries[d].status = "submitted"
    BY <2>4
  <2>7. ProjectionHeld(cServer, cIssued, cSubmitted') /\ IssuedHeld(cIssued, cSubmitted', cServer.entries)
    BY <2>3, CommandFacts, ProjectionStill, IssuedOn DEF CommandInv
  <2>8. Behind(cClient'.entries, cServer.entries)
    <3> SUFFICES ASSUME NEW d \in DOMAIN cClient'.entries \cap DOMAIN cServer.entries
                 PROVE  Below(cClient'.entries[d].status, cServer.entries[d].status)
      BY DEF Behind
    <3>1. cServer.entries[d].status \in Statuses
      BY CommandFacts, CommandEntryIs
    <3>2. CASE d \in DOMAIN cClient.entries /\ cClient'.entries[d] = cClient.entries[d]
      BY <3>2 DEF CommandInv, Behind
    <3>3. CASE cClient'.entries[d].status = "submitted"
      BY <3>1, <3>3, BelowOrder
    <3> QED  BY <2>6, <3>2, <3>3
  <2>9. \A d \in DOMAIN cClient'.entries \ DOMAIN cServer.entries : cClient'.entries[d].status = "submitted"
    BY <2>6 DEF CommandInv
  <2>10. LinkHeld(cToClient, cClient'.entries, cServer.entries, cIssued, cSubmitted')
    BY <2>3, <2>5, <2>6, CommandFacts, LinkOn DEF CommandInv
  <2>11. Underway(cToClient, cClient'.entries, cServer.entries, cSubmitted')
    <3> SUFFICES ASSUME NEW d \in DOMAIN cServer.entries
                 PROVE  /\ d \in DOMAIN cClient'.entries \/ (Len(cToClient) > 0 /\ cToClient[1].type = "image" /\ d \in DOMAIN cToClient[1].commands)
                        /\ \/ d \in DOMAIN cClient'.entries /\ cClient'.entries[d].status = cServer.entries[d].status
                           \/ \E i \in 1..Len(cToClient) :
                                /\ Brings(cToClient[i], d, cServer.entries[d].status)
                                /\ cToClient[i].type # "image" => Own(cToClient[i], cSubmitted')
      BY DEF Underway
    <3>1. d \in DOMAIN cClient'.entries \/ (Len(cToClient) > 0 /\ cToClient[1].type = "image" /\ d \in DOMAIN cToClient[1].commands)
      BY <2>4 DEF CommandInv, Underway
    <3>2. ASSUME NEW i \in 1..Len(cToClient), cToClient[i].type # "image" => Own(cToClient[i], cSubmitted), cToClient[i].type # "image"
          PROVE  Own(cToClient[i], cSubmitted')
      <4>1. cToClient[i] \in cIssued
        BY <3>2 DEF CommandInv, LinkHeld, ImageHeld, Images
      <4>2. cToClient[i].command \in DOMAIN cSubmitted
        BY <4>1 DEF CommandInv, IssuedHeld
      <4> QED  BY <2>3, <3>2, <4>2 DEF Own, Keeps
    <3> QED  BY <2>4, <3>1, <3>2 DEF CommandInv, Underway
  <2>12. AskedHeld(cToServer', cClient'.entries, cSubmitted')
    BY <2>2, <2>3, <2>4, CommandFacts, AskedMore DEF CommandInv
  <2> QED  BY <2>2, <2>3, <2>4, <2>7, <2>8, <2>9, <2>10, <2>11, <2>12 DEF CommandInv
<1>2. CASE C!CallCancel(c)
  <2> DEFINE f == [type |-> "cancel", command |-> c, generation |-> cSubmitted[c]]
  <2>1. /\ f \in Requests /\ f.type = "cancel"
        /\ cSubmitted' = cSubmitted /\ cToServer' = Append(cToServer, f) /\ cClient' = C!ApplyMessage(cClient, f)
        /\ UNCHANGED <<cServer, cToClient, cIssued>>
    BY <1>2, CommandFacts DEF C!CallCancel, C!Ask, Requests
  <2> HIDE DEF f
  <2>2. cClient' \in Projections /\ cClient'.seen = cClient.seen /\ cClient'.conflicts = cClient.conflicts /\ cClient'.entries = cClient.entries
    BY <2>1, CommandFacts, Cancels
  <2>3. AskedHeld(cToServer', cClient.entries, cSubmitted)
    BY <2>1, CommandFacts, AskedMore DEF CommandInv
  <2>4. ProjectionHeld(cClient', cIssued, cSubmitted)
    BY <2>2 DEF CommandInv, ProjectionHeld
  <2> QED  BY <2>1, <2>2, <2>3, <2>4 DEF CommandInv
<1> QED  BY <1>1, <1>2

\* The first of a sequence, and the others by their places.
LEMMA Rest ==
  ASSUME NEW S, NEW s \in Seq(S), s # << >>
  PROVE  /\ Head(s) = s[1] /\ Head(s) \in S /\ Len(s) \in Nat \ {0} /\ 1 \in 1..Len(s)
         /\ Tail(s) \in Seq(S) /\ Len(Tail(s)) = Len(s) - 1
         /\ \A i \in 1..(Len(s) - 1) : Tail(s)[i] = s[i + 1] /\ i + 1 \in 1..Len(s)
  BY HeadTailProperties, EmptySeq, LenProperties, ElementOfSeq

LEMMA ServeStep ==
  ASSUME CommandInv, C!Serve
  PROVE  CommandInv'
<1> DEFINE f == Head(cToServer)
<1>1. /\ cToServer # << >> /\ cServer' = C!ApplyMessage(cServer, f) /\ cToServer' = Tail(cToServer)
      /\ UNCHANGED <<cClient, cToClient, cSubmitted, cIssued>>
  BY DEF C!Serve
<1>2. /\ f = cToServer[1] /\ f \in Requests /\ 1 \in 1..Len(cToServer)
      /\ Tail(cToServer) \in Seq(Requests) /\ Len(Tail(cToServer)) = Len(cToServer) - 1
      /\ \A i \in 1..(Len(cToServer) - 1) : Tail(cToServer)[i] = cToServer[i + 1] /\ i + 1 \in 1..Len(cToServer)
  BY <1>1, Rest DEF CommandInv, AskedHeld
<1>3. AskedHeld(cToServer', cClient.entries, cSubmitted)
  BY <1>1, <1>2 DEF CommandInv, AskedHeld
<1> HIDE DEF f
<1>4. CASE f.type = "submit"
  <2> DEFINE c == f.command
  <2>1. c \in DOMAIN cClient.entries /\ f.generation = cSubmitted[c] /\ c \in DOMAIN cSubmitted
    BY <1>2, <1>4, CommandFacts DEF CommandInv, AskedHeld
  <2>2. /\ ProjectionHeld(cServer', cIssued, cSubmitted)
        /\ DOMAIN cServer'.entries = DOMAIN cServer.entries \cup {c}
        /\ \A d \in DOMAIN cServer.entries : cServer'.entries[d] = cServer.entries[d]
        /\ c \notin DOMAIN cServer.entries => cServer'.entries[c].status = "submitted"
        /\ Grows(cServer.entries, cServer'.entries)
    <3>1. /\ ProjectionHeld(cServer, cIssued, cSubmitted) /\ IssuedHeld(cIssued, cSubmitted, cServer.entries)
          /\ Keeps(cSubmitted, cSubmitted) /\ f \in Requests
      BY <1>2, CommandFacts DEF CommandInv
    <3>2. cServer' = C!ApplyMessage(cServer, f)
      BY <1>1 DEF f
    <3> QED  BY <1>4, <2>1, <3>1, <3>2, ProjectionAsked
  <2>3. cServer'.entries \in CommandTables
    BY <2>2 DEF ProjectionHeld, TableHeld
  <2>4. IssuedHeld(cIssued, cSubmitted, cServer'.entries)
    BY <2>2, <2>3, CommandFacts, IssuedOn DEF CommandInv
  <2>5. Behind(cClient.entries, cServer'.entries) /\ \A d \in DOMAIN cClient.entries \ DOMAIN cServer'.entries : cClient.entries[d].status = "submitted"
    BY <2>2, <2>3, CommandFacts, BehindOn DEF CommandInv
  <2>6. LinkHeld(cToClient, cClient.entries, cServer'.entries, cIssued, cSubmitted)
    BY <2>2, <2>3, CommandFacts, LinkOn DEF CommandInv
  <2>7. Underway(cToClient, cClient.entries, cServer'.entries, cSubmitted)
    <3> SUFFICES ASSUME NEW d \in DOMAIN cServer'.entries, d \notin DOMAIN cServer.entries
                 PROVE  d \in DOMAIN cClient.entries /\ cClient.entries[d].status = cServer'.entries[d].status
      BY <2>2 DEF CommandInv, Underway
    <3> QED  BY <2>1, <2>2 DEF CommandInv
  <2> QED  BY <1>1, <1>3, <2>2, <2>4, <2>5, <2>6, <2>7 DEF CommandInv
<1>5. CASE f.type = "cancel"
  <2>1. cServer' \in Projections /\ cServer'.seen = cServer.seen /\ cServer'.entries = cServer.entries
    BY <1>1, <1>2, <1>5, CommandFacts, Cancels
  <2>2. ProjectionHeld(cServer', cIssued, cSubmitted)
    BY <2>1 DEF CommandInv, ProjectionHeld
  <2> QED  BY <1>1, <1>3, <2>1, <2>2 DEF CommandInv
<1> QED  BY <1>2, <1>4, <1>5 DEF Requests

\* A frame of the owner is told by its id.
LEMMA OneFrame ==
  ASSUME NEW f, NEW g, Shaped(f), Shaped(g), f.id = g.id, f.generation = g.generation
  PROVE  f = g
<1>1. f.type = g.type /\ f.command = g.command /\ f.kind = g.kind
  BY DEF Shaped
<1>2. f \in Speech /\ g \in Speech
  BY DEF Shaped
<1> QED  BY <1>1, <1>2 DEF Speech

LEMMA IssueStep ==
  ASSUME CommandInv, NEW c \in CommandIds,
         (\E kind \in DOMAIN C!ProgressStatusOf : C!Issue("event", c, kind))
         \/ (\E kind \in {"accepted"} \cup C!Terminal : C!Issue("receipt", c, kind))
  PROVE  CommandInv'
<1>1. PICK type \in {"event", "receipt"}, kind \in EventKinds \cup ReceiptKinds :
        /\ C!Issue(type, c, kind)
        /\ (type = "event" /\ kind \in EventKinds) \/ (type = "receipt" /\ kind \in ReceiptKinds)
  <2>1. DOMAIN C!ProgressStatusOf = EventKinds /\ {"accepted"} \cup C!Terminal = ReceiptKinds
    BY DEF C!ProgressStatusOf, EventKinds, ReceiptKinds, C!Terminal
  <2> QED  BY <2>1
<1> DEFINE f == [type |-> type, id |-> <<type, c, kind>>, command |-> c, kind |-> kind, generation |-> cSubmitted[c]]
<1>2. /\ C!Knows(cServer, c) /\ ~cServer.entries[c].terminal /\ f \notin cIssued
      /\ cServer' = C!ApplyMessage(cServer, f) /\ cToClient' = Append(cToClient, f) /\ cIssued' = cIssued \cup {f}
      /\ UNCHANGED <<cClient, cToServer, cSubmitted>>
  BY <1>1 DEF C!Issue, C!Says
<1>3. c \in DOMAIN cServer.entries /\ c \in DOMAIN cSubmitted /\ cSubmitted[c] \in CommandGens
  BY <1>2, CommandFacts DEF C!Knows
<1>4. Shaped(f) /\ Own(f, cSubmitted) /\ f.command = c /\ f \in Speech /\ f.type # "image"
  BY <1>1, <1>3 DEF Shaped, Speech, Own, FrameIds
<1> HIDE DEF f
<1>5. f.id \notin cServer.seen
  <2> SUFFICES ASSUME f.id \in cServer.seen PROVE FALSE
    OBVIOUS
  <2>1. PICK g \in cIssued : Own(g, cSubmitted) /\ g.id = f.id /\ Shows(cServer.entries, g)
    BY DEF CommandInv, ProjectionHeld, Told
  <2>2. Shaped(g)
    BY <2>1 DEF CommandInv, IssuedHeld
  <2>3. g.command = f.command
    BY <1>4, <2>1, <2>2 DEF Shaped
  <2>4. g = f
    BY <1>4, <2>1, <2>2, <2>3, OneFrame DEF Own
  <2> QED  BY <1>2, <2>1, <2>4
<1>6. C!Accepts(cServer, f)
  <2>1. cServer.entries[c].generation = cSubmitted[c]
    BY <1>3, CommandFacts DEF TableHeld
  <2> QED  BY <1>2, <1>4, <1>5, <2>1 DEF C!Accepts, Own
<1>7. /\ ProjectionHeld(cServer', cIssued', cSubmitted)
      /\ DOMAIN cServer'.entries = DOMAIN cServer.entries
      /\ \A d \in DOMAIN cServer.entries : d # c => cServer'.entries[d] = cServer.entries[d]
      /\ cServer'.entries[c].status = Joined(cServer.entries[c].status, Brought(f))
      /\ Grows(cServer.entries, cServer'.entries) /\ Shows(cServer'.entries, f)
  <2>1. ProjectionHeld(cServer, cIssued, cSubmitted) /\ IssuedHeld(cIssued, cSubmitted, cServer.entries)
    BY DEF CommandInv
  <2>2. cServer' = C!ApplyMessage(cServer, f) /\ ~cServer.entries[c].terminal /\ cIssued' = cIssued \cup {f}
    BY <1>2
  <2>3. Shaped(f) /\ Own(f, cSubmitted) /\ f.command = c /\ ~cServer.entries[f.command].terminal
    BY <1>4, <2>2
  <2>4. /\ ProjectionHeld(cServer', cIssued', cSubmitted)
        /\ DOMAIN cServer'.entries = DOMAIN cServer.entries
        /\ \A d \in DOMAIN cServer.entries : d # f.command => cServer'.entries[d] = cServer.entries[d]
        /\ cServer'.entries[f.command].status = Joined(cServer.entries[f.command].status, Brought(f))
        /\ Grows(cServer.entries, cServer'.entries) /\ Shows(cServer'.entries, f)
    <3>1. cServer' = C!ApplyMessage(cServer, f) /\ cIssued' = cIssued \cup {f}
      BY <2>2
    <3>2. Brought(f) \in C!Terminal /\ cServer.entries[f.command].terminal => cServer.entries[f.command].status = f.kind
      BY <2>3
    <3>3. Shaped(f) /\ Own(f, cSubmitted)
      BY <2>3
    <3> QED  BY <1>6, <2>1, <3>1, <3>2, <3>3, ProjectionTakes
  <2> QED  BY <2>2, <2>3, <2>4
<1>8. cServer'.entries \in CommandTables /\ cIssued \subseteq cIssued' /\ f \in cIssued'
  BY <1>2, <1>7 DEF ProjectionHeld, TableHeld
<1>9. IssuedHeld(cIssued', cSubmitted, cServer'.entries)
  <2>1. IssuedHeld(cIssued, cSubmitted, cServer'.entries)
    BY <1>7, <1>8, CommandFacts, IssuedOn DEF CommandInv
  <2> QED  BY <1>2, <1>3, <1>4, <1>7, <2>1 DEF IssuedHeld
<1>10. ProjectionHeld(cClient, cIssued', cSubmitted)
  BY <1>8, CommandFacts, ProjectionStill DEF CommandInv
<1>11. Behind(cClient.entries, cServer'.entries) /\ \A d \in DOMAIN cClient.entries \ DOMAIN cServer'.entries : cClient.entries[d].status = "submitted"
  BY <1>7, <1>8, CommandFacts, BehindOn DEF CommandInv
<1>12. LinkHeld(cToClient', cClient.entries, cServer'.entries, cIssued', cSubmitted)
  <2>1. LinkHeld(cToClient, cClient.entries, cServer'.entries, cIssued', cSubmitted)
    BY <1>7, <1>8, CommandFacts, LinkOn DEF CommandInv
  <2>2. cToClient' = Append(cToClient, f)
    BY <1>2
  <2> QED  BY <1>4, <1>8, <2>1, <2>2, LinkMore
<1>13. Underway(cToClient', cClient.entries, cServer'.entries, cSubmitted)
  <2>1. \A d \in DOMAIN cServer.entries :
          cServer'.entries[d].status = cServer.entries[d].status \/ (d = c /\ cServer'.entries[d].status = Brought(f))
    BY <1>7 DEF Joined
  <2>2. \A d \in DOMAIN cServer.entries :
          cServer'.entries[d].status = cServer.entries[d].status
          \/ (f.type # "image" /\ Own(f, cSubmitted) /\ Brings(f, d, cServer'.entries[d].status))
    BY <1>4, <2>1 DEF Brings
  <2>3. cToClient \in Seq(Images \cup Speech) /\ f \in Images \cup Speech /\ Underway(cToClient, cClient.entries, cServer.entries, cSubmitted)
        /\ DOMAIN cServer'.entries = DOMAIN cServer.entries /\ cToClient' = Append(cToClient, f)
    BY <1>2, <1>4, <1>7 DEF CommandInv, LinkHeld
  <2> QED  BY <2>2, <2>3, UnderwayMore
<1> QED  BY <1>2, <1>7, <1>9, <1>10, <1>11, <1>12, <1>13 DEF CommandInv

\* An authority that does not own the command, and a frame said again.
LEMMA SaysStep ==
  ASSUME CommandInv,
         (\E c \in CommandIds, g \in CommandGenerations, kind \in C!Terminal : C!Intrude(c, g, kind))
         \/ (\E f \in cIssued : C!Repeat(f))
  PROVE  CommandInv'
<1>1. PICK f \in Speech :
        /\ cToClient' = Append(cToClient, f) /\ cIssued' = cIssued \cup {f}
        /\ f \in cIssued \/ (~Own(f, cSubmitted) /\ f.command \in DOMAIN cSubmitted)
        /\ UNCHANGED <<cClient, cServer, cToServer, cSubmitted>>
  <2>1. CASE \E f \in cIssued : C!Repeat(f)
    <3>1. \A f \in cIssued : f \in Speech
      BY DEF CommandInv, IssuedHeld
    <3> QED  BY <2>1, <3>1 DEF C!Repeat, C!Says
  <2>2. CASE \E c \in CommandIds, g \in CommandGenerations, kind \in C!Terminal : C!Intrude(c, g, kind)
    <3>1. PICK c \in CommandIds, g \in CommandGenerations, kind \in C!Terminal : C!Intrude(c, g, kind)
      BY <2>2
    <3> DEFINE f == [type |-> "receipt", id |-> <<"other", c, kind>>, command |-> c, kind |-> kind, generation |-> g]
    <3>2. f \in Speech /\ f.command = c /\ f.generation = g
      BY DEF Speech, FrameIds, CommandGens, C!Terminal, EventKinds, ReceiptKinds
    <3>3. /\ cToClient' = Append(cToClient, f) /\ cIssued' = cIssued \cup {f}
          /\ c \in DOMAIN cSubmitted /\ g # cSubmitted[c]
          /\ UNCHANGED <<cClient, cServer, cToServer, cSubmitted>>
      BY <3>1 DEF C!Intrude, C!Says
    <3> HIDE DEF f
    <3> QED  BY <3>2, <3>3 DEF Own
  <2> QED  BY <2>1, <2>2
<1>2. cIssued \subseteq cIssued' /\ f \in cIssued'
  BY <1>1
<1>3. IssuedHeld(cIssued', cSubmitted, cServer.entries)
  BY <1>1 DEF CommandInv, IssuedHeld
<1>4. ProjectionHeld(cClient, cIssued', cSubmitted) /\ ProjectionHeld(cServer, cIssued', cSubmitted)
  BY <1>2, CommandFacts, ProjectionStill DEF CommandInv
<1>5. LinkHeld(cToClient', cClient.entries, cServer.entries, cIssued', cSubmitted)
  <2>1. LinkHeld(cToClient, cClient.entries, cServer.entries, cIssued', cSubmitted)
    BY <1>2, CommandFacts, LinkOn DEF CommandInv
  <2> QED  BY <1>1, <1>2, <2>1, LinkMore
<1>6. Underway(cToClient', cClient.entries, cServer.entries, cSubmitted)
  <2>1. cToClient \in Seq(Images \cup Speech) /\ f \in Images \cup Speech /\ Underway(cToClient, cClient.entries, cServer.entries, cSubmitted)
    BY DEF CommandInv, LinkHeld
  <2> QED  BY <1>1, <2>1, UnderwayMore
<1> QED  BY <1>1, <1>3, <1>4, <1>5, <1>6 DEF CommandInv

\* What remains on the link once its first frame was taken in.
LEMMA LinkTail ==
  ASSUME NEW link, link # << >>, NEW e, NEW e2, NEW h, NEW said, NEW subs, LinkHeld(link, e, h, said, subs)
  PROVE  LinkHeld(Tail(link), e2, h, said, subs)
<1>1. /\ Len(link) \in Nat \ {0} /\ Tail(link) \in Seq(Images \cup Speech) /\ Len(Tail(link)) = Len(link) - 1
      /\ \A i \in 1..(Len(link) - 1) : Tail(link)[i] = link[i + 1] /\ i + 1 \in 1..Len(link)
  BY Rest DEF LinkHeld
<1>2. \A i \in 1..(Len(link) - 1) : i + 1 # 1
  BY <1>1
<1> QED  BY <1>1, <1>2 DEF LinkHeld

\* What the first frame did not bring is underway still.
LEMMA UnderwayTail ==
  ASSUME NEW link \in Seq(Images \cup Speech), link # << >>, NEW e, NEW e2, NEW h, NEW subs,
         Underway(link, e, h, subs), DOMAIN h \subseteq DOMAIN e2,
         \A c \in DOMAIN h :
           (c \in DOMAIN e /\ e[c].status = h[c].status)
           \/ (Brings(link[1], c, h[c].status) /\ (link[1].type # "image" => Own(link[1], subs)))
           => e2[c].status = h[c].status
  PROVE  Underway(Tail(link), e2, h, subs)
<1>1. /\ Len(link) \in Nat \ {0} /\ Len(Tail(link)) = Len(link) - 1
      /\ \A i \in 1..(Len(link) - 1) : Tail(link)[i] = link[i + 1] /\ i + 1 \in 1..Len(link)
  BY Rest
<1> SUFFICES ASSUME NEW c \in DOMAIN h, e2[c].status # h[c].status
             PROVE  \E i \in 1..Len(Tail(link)) :
                      Brings(Tail(link)[i], c, h[c].status) /\ (Tail(link)[i].type # "image" => Own(Tail(link)[i], subs))
  BY DEF Underway
<1>2. PICK i \in 1..Len(link) : Brings(link[i], c, h[c].status) /\ (link[i].type # "image" => Own(link[i], subs))
  BY DEF Underway
<1>3. i # 1
  BY <1>2
<1>4. i - 1 \in 1..(Len(link) - 1) /\ (i - 1) + 1 = i
  BY <1>1, <1>3
<1>5. Tail(link)[i - 1] = link[i] /\ i - 1 \in 1..Len(Tail(link))
  BY <1>1, <1>4
<1> QED  BY <1>2, <1>5

LEMMA IngestFrame ==
  ASSUME CommandInv, C!Ingest, cToClient[1] \in cIssued
  PROVE  CommandInv'
<1> DEFINE f == cToClient[1]
           e == cClient.entries
           h == cServer.entries
           c == f.command
<1>1. /\ cToClient # << >> /\ cClient' = C!ApplyMessage(cClient, f) /\ cToClient' = Tail(cToClient)
      /\ UNCHANGED <<cServer, cToServer, cSubmitted, cIssued>>
      /\ f \in cIssued
  BY Rest DEF C!Ingest, CommandInv, LinkHeld
<1>2. f \in Speech /\ f.type \in {"event", "receipt"} /\ c \in DOMAIN cSubmitted
      /\ (Own(f, cSubmitted) => Shaped(f) /\ Shows(h, f))
  BY <1>1 DEF CommandInv, IssuedHeld, Speech
<1>3. /\ ProjectionHeld(cClient, cIssued, cSubmitted) /\ IssuedHeld(cIssued, cSubmitted, h)
      /\ Behind(e, h) /\ Underway(cToClient, e, h, cSubmitted) /\ cToClient \in Seq(Images \cup Speech)
      /\ cClient.conflicts = {}
  BY DEF CommandInv, LinkHeld
<1>4. DOMAIN h \subseteq DOMAIN e
  BY <1>2, <1>3 DEF Underway
<1>5. ASSUME NEW d \in DOMAIN h PROVE d \in DOMAIN e /\ e[d].status \in Statuses /\ h[d].status \in Statuses /\ Below(e[d].status, h[d].status)
  BY <1>3, <1>4, CommandFacts, CommandEntryIs DEF Behind
<1>6. LinkHeld(cToClient', cClient'.entries, h, cIssued, cSubmitted)
  BY <1>1, LinkTail DEF CommandInv
<1>7. ASSUME Own(f, cSubmitted), Brought(f) # "none"
      PROVE  c \in DOMAIN h /\ Brought(f) \in Statuses /\ Below(Brought(f), h[c].status)
  BY <1>2, <1>7, Broughts DEF Shows, Shaped
<1> HIDE DEF f, e, h
<1>8. CASE C!Accepts(cClient, f)
  <2>1. c \in DOMAIN e /\ Own(f, cSubmitted)
    BY <1>8, CommandFacts DEF C!Accepts, C!Knows, TableHeld, Own, e
  <2>2. Shaped(f) /\ Shows(h, f) /\ c \in DOMAIN h
    BY <1>2, <2>1 DEF Shows
  <2>3. ASSUME Brought(f) \in C!Terminal, e[c].terminal PROVE e[c].status = f.kind
    <3>1. e[c].status \in C!Terminal
      BY <2>1, <2>3, CommandFacts DEF TableHeld, Marked, e
    <3>2. Brought(f) = f.kind /\ Brought(f) # "none"
      BY <2>2, <2>3, Broughts DEF Shaped, Brought, C!Terminal
    <3>3. f.kind = h[c].status
      BY <1>5, <1>7, <2>1, <2>2, <2>3, <3>2, BelowOrder
    <3>4. e[c].status = h[c].status
      BY <1>5, <2>2, <3>1, BelowOrder
    <3> QED  BY <3>3, <3>4
  <2>4. cIssued = cIssued \cup {f}
    BY <1>1
  <2>5. /\ ProjectionHeld(cClient', cIssued, cSubmitted) /\ cClient'.conflicts = cClient.conflicts
        /\ DOMAIN cClient'.entries = DOMAIN e
        /\ \A d \in DOMAIN e : d # c => cClient'.entries[d] = e[d]
        /\ cClient'.entries[c].status = Joined(e[c].status, Brought(f))
    <3>1. cClient' = C!ApplyMessage(cClient, f)
      BY <1>1
    <3>2. Brought(f) \in C!Terminal /\ cClient.entries[f.command].terminal => cClient.entries[f.command].status = f.kind
      BY <2>3 DEF e
    <3>3. Shaped(f) /\ Own(f, cSubmitted)
      BY <2>1, <2>2
    <3>4. ProjectionHeld(cClient, cIssued, cSubmitted) /\ IssuedHeld(cIssued, cSubmitted, h)
      BY <1>3
    <3>5. ASSUME NEW q, q = C!ApplyMessage(cClient, f), NEW issued, issued = cIssued \cup {f}
          PROVE  /\ ProjectionHeld(q, issued, cSubmitted) /\ q.conflicts = cClient.conflicts
                 /\ DOMAIN q.entries = DOMAIN cClient.entries
                 /\ \A d \in DOMAIN cClient.entries : d # f.command => q.entries[d] = cClient.entries[d]
                 /\ q.entries[f.command].status = Joined(cClient.entries[f.command].status, Brought(f))
      BY <1>8, <3>2, <3>3, <3>4, <3>5, ProjectionTakes
    <3>6. ProjectionHeld(cClient', cIssued, cSubmitted)
      BY <2>4, <3>1, <3>5
    <3> QED  BY <3>1, <3>5, <3>6 DEF e
  <2>6. Brought(f) \in Statuses \cup {"none"}
    BY <2>2, Broughts DEF Shaped
  <2>7. Behind(cClient'.entries, h)
    <3> SUFFICES ASSUME NEW d \in DOMAIN e \cap DOMAIN h PROVE Below(cClient'.entries[d].status, h[d].status)
      BY <2>5 DEF Behind
    <3>1. CASE d = c
      BY <1>5, <1>7, <2>1, <2>5, <2>6, <3>1, JoinedIs
    <3>2. CASE d # c
      BY <1>5, <2>5, <3>2
    <3> QED  BY <3>1, <3>2
  <2>8. \A d \in DOMAIN cClient'.entries \ DOMAIN h : cClient'.entries[d].status = "submitted"
    BY <2>2, <2>5 DEF CommandInv, e, h
  <2>9. ASSUME NEW d \in DOMAIN h,
               (d \in DOMAIN e /\ e[d].status = h[d].status)
               \/ (Brings(f, d, h[d].status) /\ (f.type # "image" => Own(f, cSubmitted)))
        PROVE  cClient'.entries[d].status = h[d].status
    <3>1. CASE d # c
      BY <1>2, <1>5, <2>5, <2>9, <3>1 DEF Brings
    <3>2. CASE d = c /\ e[d].status = h[d].status
      <4>1. Below(h[c].status, Joined(h[c].status, Brought(f)))
        BY <1>5, <2>6, <3>2, JoinedIs
      <4>2. Below(h[c].status, h[c].status)
        BY <1>5, <3>2, BelowOrder
      <4>3. Below(Joined(h[c].status, Brought(f)), h[c].status)
        BY <1>5, <1>7, <2>1, <2>6, <3>2, <4>2, JoinedIs
      <4>4. Joined(h[c].status, Brought(f)) \in Statuses
        BY <1>5, <2>6, <3>2, JoinedIs
      <4> QED  BY <1>5, <2>5, <3>2, <4>1, <4>3, <4>4, BelowOrder
    <3>3. CASE d = c /\ Brings(f, d, h[d].status)
      <4>1. Brought(f) = h[c].status
        BY <1>2, <3>3 DEF Brings
      <4> QED  BY <1>5, <2>5, <2>6, <3>3, <4>1, JoinedIs
    <3> QED  BY <2>9, <3>1, <3>2, <3>3
  <2>10. Underway(cToClient', cClient'.entries, h, cSubmitted)
    <3>1. DOMAIN h \subseteq DOMAIN cClient'.entries
      BY <1>4, <2>5 DEF e, h
    <3> QED  BY <1>1, <1>3, <2>9, <3>1, UnderwayTail DEF f
  <2>11. AskedHeld(cToServer, cClient'.entries, cSubmitted)
    BY <2>5 DEF CommandInv, AskedHeld, e
  <2> QED  BY <1>1, <1>3, <1>6, <2>5, <2>7, <2>8, <2>10, <2>11 DEF CommandInv, h
<1>9. CASE ~C!Accepts(cClient, f)
  <2>1. cClient' = cClient
    BY <1>1, <1>2, <1>9, Ignores
  <2>2. ASSUME NEW d \in DOMAIN h, Brings(f, d, h[d].status), f.type # "image" => Own(f, cSubmitted)
        PROVE  e[d].status = h[d].status
    <3>1. f.command = d /\ Brought(f) = h[d].status /\ Own(f, cSubmitted) /\ d \in DOMAIN e
      BY <1>2, <1>5, <2>2 DEF Brings
    <3>2. f.id \in cClient.seen
      BY <1>9, <3>1, CommandFacts DEF C!Accepts, C!Knows, TableHeld, Own, e
    <3>3. PICK g \in cIssued : Own(g, cSubmitted) /\ g.id = f.id /\ Shows(e, g)
      BY <1>3, <3>2 DEF ProjectionHeld, Told, e
    <3>4. Shaped(g) /\ Shaped(f)
      BY <1>2, <3>1, <3>3 DEF CommandInv, IssuedHeld
    <3>5. g = f
      <4>1. g.command = f.command
        <5>1. <<g.type, g.command, g.kind>> = <<f.type, f.command, f.kind>>
          BY <3>3, <3>4 DEF Shaped
        <5> QED  BY <5>1
      <4> QED  BY <3>1, <3>3, <3>4, <4>1, OneFrame DEF Own
    <3>6. Brought(f) # "none"
      BY <1>5, <3>1 DEF Statuses
    <3>7. Below(h[d].status, e[d].status)
      BY <3>1, <3>3, <3>5, <3>6 DEF Shows
    <3> QED  BY <1>5, <3>7, BelowOrder
  <2>3. Underway(cToClient', e, h, cSubmitted)
    <3>1. DOMAIN h \subseteq DOMAIN e
      BY <1>5
    <3> QED  BY <1>1, <1>3, <2>2, <3>1, UnderwayTail DEF f
  <2> QED  BY <1>1, <1>6, <2>1, <2>3 DEF CommandInv, e, h
<1> QED  BY <1>8, <1>9

LEMMA IngestImage ==
  ASSUME CommandInv, C!Ingest, cToClient[1] \notin cIssued
  PROVE  CommandInv'
<1> DEFINE f == cToClient[1]
           e == cClient.entries
           h == cServer.entries
           e2 == cClient'.entries
<1>1. /\ cToClient # << >> /\ cClient' = C!ApplyMessage(cClient, f) /\ cToClient' = Tail(cToClient)
      /\ UNCHANGED <<cServer, cToServer, cSubmitted, cIssued>>
  BY Rest DEF C!Ingest, CommandInv, LinkHeld
<1>2. ImageHeld(f, e, h, cIssued, cSubmitted)
  BY <1>1, Rest DEF CommandInv, LinkHeld
<1>3. /\ ProjectionHeld(cClient, cIssued, cSubmitted) /\ IssuedHeld(cIssued, cSubmitted, h)
      /\ Behind(e, h) /\ Underway(cToClient, e, h, cSubmitted) /\ cToClient \in Seq(Images \cup Speech)
      /\ cClient \in Projections /\ e \in CommandTables /\ h \in CommandTables
      /\ TableHeld(e, cIssued, cSubmitted)
  BY CommandFacts DEF CommandInv, LinkHeld
<1> DEFINE im == f.commands
<1>4. /\ f \in Images /\ f.type = "image" /\ im \in CommandTables /\ TableHeld(im, cIssued, cSubmitted)
      /\ Behind(e, im) /\ Behind(im, h) /\ DOMAIN im \subseteq DOMAIN h
  BY <1>2 DEF ImageHeld, TableHeld, Images
<1>5. /\ cClient' \in Projections /\ e2 = C!Over(im, e) /\ cClient'.conflicts = cClient.conflicts
      /\ \A x \in cClient'.seen :
           \/ x \in cClient.seen
           \/ \E c \in DOMAIN im : x # C!NoId /\ x \in {im[c].event, im[c].receipt}
  BY <1>1, <1>3, <1>4, TakesImage
<1> HIDE DEF f, e, h, im, e2
<1>6. /\ e2 \in CommandTables /\ DOMAIN e2 = DOMAIN im \cup DOMAIN e
      /\ \A d \in DOMAIN im : e2[d] = im[d]
      /\ \A d \in DOMAIN e \ DOMAIN im : e2[d] = e[d]
  BY <1>3, <1>4, <1>5, OverIs
<1>7. Grows(e, e2)
  <2> SUFFICES ASSUME NEW d \in DOMAIN e PROVE Below(e[d].status, e2[d].status)
    BY <1>6 DEF Grows
  <2>1. CASE d \in DOMAIN im
    BY <1>4, <1>6, <2>1 DEF Behind
  <2>2. CASE d \notin DOMAIN im
    BY <1>3, <1>6, <2>2, CommandEntryIs, BelowOrder
  <2> QED  BY <2>1, <2>2
<1>8. Grows(im, e2)
  BY <1>4, <1>6, CommandEntryIs, BelowOrder DEF Grows
<1>9. Keeps(cSubmitted, cSubmitted) /\ cIssued \subseteq cIssued
  BY DEF Keeps
<1>10. ASSUME NEW x, Told(e, x, cIssued, cSubmitted) \/ Told(im, x, cIssued, cSubmitted)
       PROVE  Told(e2, x, cIssued, cSubmitted)
  BY <1>3, <1>4, <1>6, <1>7, <1>8, <1>9, <1>10, ToldOn
<1>11. Marked(e2)
  BY <1>3, <1>4, <1>6 DEF Marked, TableHeld
<1>12. ASSUME NEW d \in DOMAIN e2
       PROVE  /\ d \in DOMAIN cSubmitted /\ e2[d].generation = cSubmitted[d]
              /\ e2[d].event = C!NoId \/ Told(e2, e2[d].event, cIssued, cSubmitted)
              /\ e2[d].receipt = C!NoId \/ Told(e2, e2[d].receipt, cIssued, cSubmitted)
  <2>1. CASE d \in DOMAIN im
    BY <1>4, <1>6, <1>10, <2>1 DEF TableHeld
  <2>2. CASE d \in DOMAIN e \ DOMAIN im
    BY <1>3, <1>6, <1>10, <2>2 DEF TableHeld
  <2> QED  BY <1>6, <2>1, <2>2
<1>13. TableHeld(e2, cIssued, cSubmitted)
  BY <1>6, <1>11, <1>12 DEF TableHeld
<1>14. ASSUME NEW x \in cClient'.seen PROVE Told(e2, x, cIssued, cSubmitted)
  <2>1. CASE x \in cClient.seen
    BY <1>3, <1>10, <2>1 DEF ProjectionHeld, e
  <2>2. CASE \E c \in DOMAIN im : x # C!NoId /\ x \in {im[c].event, im[c].receipt}
    <3>1. PICK c \in DOMAIN im : x # C!NoId /\ x \in {im[c].event, im[c].receipt}
      BY <2>2
    <3>2. Told(im, x, cIssued, cSubmitted)
      BY <1>4, <3>1 DEF TableHeld
    <3> QED  BY <1>10, <3>2
  <2> QED  BY <1>5, <2>1, <2>2
<1>15. ProjectionHeld(cClient', cIssued, cSubmitted)
  BY <1>5, <1>13, <1>14 DEF ProjectionHeld, e2
<1>16. Behind(e2, h)
  <2> SUFFICES ASSUME NEW d \in DOMAIN e2 \cap DOMAIN h PROVE Below(e2[d].status, h[d].status)
    BY DEF Behind
  <2>1. CASE d \in DOMAIN im
    BY <1>4, <1>6, <2>1 DEF Behind
  <2>2. CASE d \in DOMAIN e \ DOMAIN im
    BY <1>3, <1>6, <2>2 DEF Behind
  <2> QED  BY <1>6, <2>1, <2>2
<1>17. \A d \in DOMAIN e2 \ DOMAIN h : e2[d].status = "submitted"
  BY <1>4, <1>6 DEF CommandInv, e, h
<1>18. LinkHeld(cToClient', e2, h, cIssued, cSubmitted)
  BY <1>1, LinkTail DEF CommandInv, h
<1>19. Underway(cToClient', e2, h, cSubmitted)
  <2>1. DOMAIN h \subseteq DOMAIN e2
    BY <1>3, <1>6 DEF Underway, im, f
  <2>2. ASSUME NEW d \in DOMAIN h,
               (d \in DOMAIN e /\ e[d].status = h[d].status)
               \/ (Brings(f, d, h[d].status) /\ (f.type # "image" => Own(f, cSubmitted)))
        PROVE  e2[d].status = h[d].status
    <3>1. CASE d \in DOMAIN im /\ Brings(f, d, h[d].status)
      BY <1>4, <1>6, <3>1 DEF Brings, im
    <3>2. CASE d \notin DOMAIN im /\ Brings(f, d, h[d].status)
      BY <1>4, <3>2 DEF Brings, im
    <3>3. CASE d \in DOMAIN im /\ d \in DOMAIN e /\ e[d].status = h[d].status
      <4>1. Below(e[d].status, im[d].status) /\ Below(im[d].status, h[d].status)
        BY <1>4, <3>3 DEF Behind
      <4>2. im[d].status \in Statuses /\ h[d].status \in Statuses
        BY <1>3, <1>4, <3>3, CommandEntryIs
      <4>3. im[d].status = h[d].status
        BY <3>3, <4>1, <4>2, BelowOrder
      <4> QED  BY <1>6, <3>3, <4>3
    <3>4. CASE d \notin DOMAIN im /\ d \in DOMAIN e /\ e[d].status = h[d].status
      BY <1>6, <3>4
    <3> QED  BY <2>2, <3>1, <3>2, <3>3, <3>4
  <2> QED  BY <1>1, <1>3, <2>1, <2>2, UnderwayTail DEF f
<1>20. AskedHeld(cToServer, e2, cSubmitted)
  BY <1>6 DEF CommandInv, AskedHeld, e
<1> QED  BY <1>1, <1>3, <1>5, <1>15, <1>16, <1>17, <1>18, <1>19, <1>20 DEF CommandInv, e2, h

\* Nothing is known of any command at first.
LEMMA EmptyHeld ==
  ASSUME NEW said, NEW subs
  PROVE  /\ ProjectionHeld(C!Empty, said, subs) /\ C!Empty.entries = C!NoEntries /\ DOMAIN C!NoEntries = {}
         /\ C!Empty.conflicts = {} /\ C!Empty \in Projections
<1>1. C!NoEntries \in [{} -> CommandEntries] /\ DOMAIN C!NoEntries = {}
  BY DEF C!NoEntries
<1>2. C!NoEntries \in CommandTables
  BY <1>1, TableIs
<1>3. C!Empty \in Projections /\ C!Empty.entries = C!NoEntries /\ C!Empty.seen = {} /\ C!Empty.conflicts = {}
  BY <1>2 DEF C!Empty, Projections, CommandGens
<1>4. TableHeld(C!NoEntries, said, subs)
  BY <1>1, <1>2 DEF TableHeld, Marked
<1> QED  BY <1>1, <1>3, <1>4 DEF ProjectionHeld

LEMMA LinksRenewed ==
  ASSUME CommandInv, C!Reconnect
  PROVE  CommandInv'
<1> DEFINE im == C!ToImage(cServer)
           h == cServer.entries
<1>1. /\ cClient' \in {cClient, C!Empty} /\ cServer' \in {cServer, C!ApplyProjection(C!Empty, im)}
      /\ cToServer' = << >> /\ cToClient' = <<im>> /\ UNCHANGED <<cSubmitted, cIssued>>
  BY DEF C!Reconnect
<1>2. /\ cServer \in Projections /\ h \in CommandTables /\ TableHeld(h, cIssued, cSubmitted) /\ Grows(h, h)
      /\ Keeps(cSubmitted, cSubmitted)
  BY CommandFacts
<1>3. im \in Images /\ im.commands = h /\ im.type = "image"
  BY <1>2 DEF C!ToImage, Images, Projections
<1> HIDE DEF im, h
<1>4. ProjectionHeld(cServer', cIssued, cSubmitted) /\ cServer'.entries = h
  <2>1. CASE cServer' = cServer
    BY <2>1 DEF CommandInv, h
  <2>2. CASE cServer' = C!ApplyProjection(C!Empty, im)
    <3>1. cServer' = C!ApplyMessage(C!Empty, im)
      BY <1>3, <2>2 DEF C!ApplyMessage
    <3>2. /\ cServer' \in Projections /\ cServer'.entries = C!Over(h, C!NoEntries)
          /\ \A x \in cServer'.seen : \E c \in DOMAIN h : x # C!NoId /\ x \in {h[c].event, h[c].receipt}
      <4>1. C!Empty \in Projections /\ C!Empty.entries = C!NoEntries /\ C!Empty.seen = {}
        BY EmptyHeld DEF C!Empty
      <4> QED  BY <1>3, <3>1, <4>1, TakesImage
    <3>3. C!Over(h, C!NoEntries) = h
      <4>1. h = [d \in DOMAIN h |-> h[d]]
        BY <1>2, TableIs
      <4> QED  BY <4>1, EmptyHeld DEF C!Over
    <3>4. \A x \in cServer'.seen : Told(h, x, cIssued, cSubmitted)
      BY <1>2, <3>2 DEF TableHeld
    <3> QED  BY <1>2, <3>2, <3>3, <3>4 DEF ProjectionHeld
  <2> QED  BY <1>1, <2>1, <2>2
<1>5. ProjectionHeld(cClient', cIssued, cSubmitted) /\ cClient'.conflicts = {}
  BY <1>1, EmptyHeld DEF CommandInv
<1>6. cClient'.entries = cClient.entries \/ DOMAIN cClient'.entries = {}
  BY <1>1, EmptyHeld
<1>7. Behind(cClient'.entries, h) /\ \A d \in DOMAIN cClient'.entries \ DOMAIN h : cClient'.entries[d].status = "submitted"
  BY <1>6 DEF CommandInv, Behind, h
<1>8. Len(<<im>>) = 1 /\ <<im>>[1] = im /\ <<im>> \in Seq(Images \cup Speech)
  BY <1>3
<1>9. Behind(h, h)
  BY <1>2 DEF Grows, Behind
<1>10. ImageHeld(im, cClient'.entries, h, cIssued, cSubmitted)
  BY <1>2, <1>3, <1>7, <1>9 DEF ImageHeld
<1>11. LinkHeld(<<im>>, cClient'.entries, h, cIssued, cSubmitted)
  BY <1>8, <1>10 DEF LinkHeld
<1>12. Underway(<<im>>, cClient'.entries, h, cSubmitted)
  BY <1>3, <1>8 DEF Underway, Brings
<1>13. AskedHeld(<< >>, cClient'.entries, cSubmitted)
  BY DEF AskedHeld
<1>14. IssuedHeld(cIssued, cSubmitted, h)
  BY DEF CommandInv, h
<1> QED  BY <1>1, <1>4, <1>5, <1>7, <1>11, <1>12, <1>13, <1>14 DEF CommandInv

LEMMA CommandInit == C!Init => CommandInv
<1> SUFFICES ASSUME C!Init PROVE CommandInv
  OBVIOUS
<1>1. /\ cClient = C!Empty /\ cServer = C!Empty /\ cToServer = << >> /\ cToClient = << >>
      /\ cSubmitted = C!NoEntries /\ cIssued = {}
  BY DEF C!Init
<1>2. Submitted(cSubmitted)
  BY <1>1 DEF Submitted, C!NoEntries
<1>3. Len(<< >>) = 0 /\ << >> \in Seq(Images \cup Speech) /\ << >> \in Seq(Requests)
  OBVIOUS
<1>4. LinkHeld(cToClient, cClient.entries, cServer.entries, cIssued, cSubmitted) /\ AskedHeld(cToServer, cClient.entries, cSubmitted)
  BY <1>1, <1>3 DEF LinkHeld, AskedHeld
<1> QED  BY <1>1, <1>2, <1>4, EmptyHeld DEF CommandInv, IssuedHeld, Behind, Underway

LEMMA CommandStep == CommandInv /\ (C!Next \/ UNCHANGED commandVars) => CommandInv'
<1>1. ASSUME CommandInv, UNCHANGED commandVars PROVE CommandInv'
  BY <1>1 DEF commandVars, CommandInv
<1>2. ASSUME CommandInv, C!Next PROVE CommandInv'
  <2>1. CASE C!Serve
    BY <1>2, <2>1, ServeStep
  <2>2. CASE C!Ingest
    BY <1>2, <2>2, IngestFrame, IngestImage
  <2>3. CASE C!Reconnect
    BY <1>2, <2>3, LinksRenewed
  <2>4. CASE \E f \in cIssued : C!Repeat(f)
    BY <1>2, <2>4, SaysStep
  <2>5. ASSUME NEW c \in CommandIds, C!CallCancel(c) \/ \E g \in CommandOwn : C!CallSubmit(c, g) PROVE CommandInv'
    BY <1>2, <2>5, AskStep
  <2>6. ASSUME NEW c \in CommandIds, \E g \in CommandGenerations, kind \in C!Terminal : C!Intrude(c, g, kind) PROVE CommandInv'
    BY <1>2, <2>6, SaysStep
  <2>7. ASSUME NEW c \in CommandIds,
               (\E kind \in DOMAIN C!ProgressStatusOf : C!Issue("event", c, kind))
               \/ (\E kind \in {"accepted"} \cup C!Terminal : C!Issue("receipt", c, kind))
        PROVE  CommandInv'
    BY <1>2, <2>7, IssueStep
  <2> QED  BY <1>2, <2>1, <2>2, <2>3, <2>4, <2>5, <2>6, <2>7 DEF C!Next
<1> QED  BY <1>1, <1>2

LEMMA CommandHeld == CommandInv => C!CallsResolveAsDecided
<1> SUFFICES ASSUME CommandInv PROVE C!CallsResolveAsDecided
  OBVIOUS
<1> DEFINE e == cClient.entries
           h == cServer.entries
<1>1. /\ e \in CommandTables /\ h \in CommandTables /\ TableHeld(e, cIssued, cSubmitted) /\ TableHeld(h, cIssued, cSubmitted)
  BY CommandFacts
<1>2. ASSUME NEW c \in DOMAIN e \cap DOMAIN h, e[c].status = h[c].status
      PROVE  C!View(cClient, c) = C!View(cServer, c)
  <2>1. (e[c].terminal <=> e[c].status \in C!Terminal) /\ (h[c].terminal <=> h[c].status \in C!Terminal)
    BY <1>1 DEF TableHeld, Marked
  <2>2. e[c].terminal \in BOOLEAN /\ h[c].terminal \in BOOLEAN
    BY <1>1, CommandEntryIs DEF CommandEntries
  <2> QED  BY <1>2, <2>1, <2>2 DEF C!View
<1>3. ASSUME NEW c \in C!Resolved(cClient)
      PROVE  C!Knows(cServer, c) /\ C!View(cClient, c) = C!View(cServer, c)
  <2>1. c \in DOMAIN e /\ e[c].terminal
    BY DEF C!Resolved
  <2>2. e[c].status \in C!Terminal
    BY <1>1, <2>1 DEF TableHeld, Marked
  <2>3. c \in DOMAIN h
    BY <2>1, <2>2 DEF CommandInv, C!Terminal
  <2>4. e[c].status \in Statuses /\ h[c].status \in Statuses /\ Below(e[c].status, h[c].status)
    BY <1>1, <2>1, <2>3, CommandEntryIs DEF CommandInv, Behind
  <2>5. e[c].status = h[c].status
    BY <2>2, <2>4, BelowOrder
  <2> QED  BY <1>2, <2>1, <2>3, <2>5 DEF C!Knows
<1>4. ASSUME cToClient = << >>, NEW c \in DOMAIN h
      PROVE  C!Knows(cClient, c) /\ C!View(cClient, c) = C!View(cServer, c)
  <2>1. Len(cToClient) = 0
    BY <1>4
  <2>2. c \in DOMAIN e /\ e[c].status = h[c].status
    BY <2>1 DEF CommandInv, Underway
  <2> QED  BY <1>2, <2>2 DEF C!Knows
<1> QED  BY <1>3, <1>4 DEF C!CallsResolveAsDecided, CommandInv

LEMMA CommandStays == [Next]_vars => C!Next \/ UNCHANGED commandVars
  BY DEF Next, vars, Stays

(***************************************************************************)
(* The receipts of one cause.  A projection has decided when the terminal  *)
(* outcome of its generation that came first is the one it holds and any   *)
(* other is a conflict; and it is the last of the projections that its     *)
(* frames pass through, which are the ones a later reader passes through.  *)
(***************************************************************************)
ReceiptSays == [generation : ReceiptGenerations, outcome : ReceiptOutcomes]
Outcomes ==
  [seen : SUBSET ReceiptIds, terminal : ReceiptOutcomes \cup {None},
   recorded : Seq(ReceiptIds), stale : Seq(ReceiptIds), conflicts : Seq(ReceiptIds)]
ReceiptTypes ==
  /\ fContent \in [ReceiptIds -> ReceiptSays] /\ fFrames \in Seq(ReceiptIds)
  /\ fProjection \in Outcomes

\* The terminal outcomes that the receipts of its generation gave.
Decisions(says, current, seen) ==
  {says[r].outcome : r \in {x \in seen : says[x].generation = current}} \cap ReceiptTerminal

\* The first decision stands, and the others are conflicts.
Decided(says, current, p) ==
  LET said == Decisions(says, current, p.seen)
  IN /\ IF said = {} THEN p.terminal = None ELSE p.terminal \in said
     /\ (p.conflicts # << >>) <=> (\E o \in said : o # p.terminal)

\* The projections that the frames went through, as a later reader does.
Passes(a, frames, generation) ==
  a = [n \in 0..Len(frames) |-> IF n = 0 THEN F!Empty ELSE F!Fold(a[n - 1], frames[n], generation)]

ReceiptsInv ==
  /\ ReceiptTypes
  /\ fProjection.seen = F!Range(fFrames) /\ IsFiniteSet(fProjection.seen)
  /\ Len(fProjection.recorded) + Len(fProjection.stale) + Len(fProjection.conflicts) = Cardinality(fProjection.seen)
  /\ Decided(fContent, fCurrent, fProjection)
  /\ \E a : Passes(a, fFrames, fCurrent) /\ a[Len(fFrames)] = fProjection

LEMMA SmallestNat ==
  ASSUME NEW S, S \subseteq Nat, S # {}
  PROVE  \E x \in S : \A y \in S : x <= y
<1> DEFINE order == OpToRel(<, Nat)
<1>1. IsWellFoundedOn(order, Nat)
  BY NatLessThanWellFounded
<1>2. \A x, y \in Nat : <<x, y>> \in order <=> x < y
  BY DEF OpToRel
<1> HIDE DEF order
<1>3. PICK x \in S : \A y \in S : ~(<<y, x>> \in order)
  BY <1>1, WFMin
<1>4. \A y \in S : ~(y < x)
  BY <1>2, <1>3
<1> QED  BY <1>4

\* A fold over the frames passes through one sequence of projections.
LEMMA PassesOnce ==
  ASSUME NEW a, NEW b, NEW frames, NEW generation, Len(frames) \in Nat,
         Passes(a, frames, generation), Passes(b, frames, generation)
  PROVE  a[Len(frames)] = b[Len(frames)]
<1> DEFINE Differ == {n \in 0..Len(frames) : a[n] # b[n]}
<1>1. ASSUME Differ # {} PROVE FALSE
  <2>0. Differ \subseteq Nat
    OBVIOUS
  <2> HIDE DEF Differ
  <2>1. PICK n \in Differ : \A x \in Differ : n <= x
    BY <1>1, <2>0, SmallestNat
  <2> USE DEF Differ
  <2>2. n \in 0..Len(frames) /\ a[n] # b[n]
    BY <2>1
  <2>3. /\ a[n] = IF n = 0 THEN F!Empty ELSE F!Fold(a[n - 1], frames[n], generation)
        /\ b[n] = IF n = 0 THEN F!Empty ELSE F!Fold(b[n - 1], frames[n], generation)
    BY <2>2 DEF Passes
  <2>4. n # 0 /\ n - 1 \in 0..Len(frames) /\ ~(n <= n - 1)
    BY <2>2, <2>3
  <2>5. a[n - 1] = b[n - 1]
    BY <2>1, <2>4
  <2> QED  BY <2>2, <2>3, <2>4, <2>5
<1>2. Len(frames) \in 0..Len(frames)
  OBVIOUS
<1> QED  BY <1>1, <1>2

\* One more frame, one more projection.
LEMMA PassesOn ==
  ASSUME NEW a, NEW frames \in Seq(ReceiptIds), NEW generation, NEW r \in ReceiptIds, Passes(a, frames, generation)
  PROVE  \E b : Passes(b, Append(frames, r), generation) /\ b[Len(Append(frames, r))] = F!Fold(a[Len(frames)], r, generation)
<1> DEFINE more == Append(frames, r)
           last == F!Fold(a[Len(frames)], r, generation)
           b == [n \in 0..Len(more) |-> IF n <= Len(frames) THEN a[n] ELSE last]
<1>1. /\ Len(frames) \in Nat /\ Len(more) = Len(frames) + 1
      /\ \A n \in 1..Len(frames) : more[n] = frames[n]
      /\ more[Len(frames) + 1] = r
  BY AppendProperties, LenProperties
<1> HIDE DEF more, last
<1>2. ASSUME NEW n \in 0..Len(more)
      PROVE  b[n] = IF n = 0 THEN F!Empty ELSE F!Fold(b[n - 1], more[n], generation)
  <2>1. CASE n = 0
    BY <1>1, <2>1 DEF Passes
  <2>2. CASE n # 0 /\ n <= Len(frames)
    <3>1. n \in 1..Len(frames) /\ n \in 0..Len(frames) /\ n - 1 \in 0..Len(more) /\ n - 1 <= Len(frames)
      BY <1>1, <2>2
    <3>2. b[n] = a[n] /\ b[n - 1] = a[n - 1] /\ more[n] = frames[n]
      BY <1>1, <2>2, <3>1
    <3>3. a[n] = F!Fold(a[n - 1], frames[n], generation)
      BY <2>2, <3>1 DEF Passes
    <3> QED  BY <2>2, <3>2, <3>3
  <2>3. CASE n > Len(frames)
    <3>1. n = Len(frames) + 1 /\ n - 1 = Len(frames) /\ n - 1 \in 0..Len(more) /\ n # 0
      BY <1>1, <2>3
    <3>2. b[n] = last /\ b[n - 1] = a[Len(frames)] /\ more[n] = r
      BY <1>1, <2>3, <3>1
    <3> QED  BY <3>1, <3>2 DEF last
  <2> QED  BY <1>1, <2>1, <2>2, <2>3
<1>3. Passes(b, more, generation)
  BY <1>2 DEF Passes
<1>4. b[Len(more)] = last
  BY <1>1
<1> QED  BY <1>3, <1>4 DEF more, last

\* The set of a sequence that was appended to.
LEMMA SetAppended ==
  ASSUME NEW s \in Seq(ReceiptIds), NEW r \in ReceiptIds
  PROVE  F!Range(Append(s, r)) = F!Range(s) \cup {r}
<1>1. /\ Len(s) \in Nat /\ Len(Append(s, r)) = Len(s) + 1
      /\ \A n \in 1..Len(s) : Append(s, r)[n] = s[n]
      /\ Append(s, r)[Len(s) + 1] = r
      /\ DOMAIN s = 1..Len(s) /\ DOMAIN Append(s, r) = 1..(Len(s) + 1)
  BY AppendProperties, LenProperties
<1>2. \A n \in 1..(Len(s) + 1) : n \in 1..Len(s) \/ n = Len(s) + 1
  BY <1>1
<1>3. Len(s) + 1 \in 1..(Len(s) + 1) /\ \A n \in 1..Len(s) : n \in 1..(Len(s) + 1)
  BY <1>1
<1> QED  BY <1>1, <1>2, <1>3 DEF F!Range

LEMMA ReceiptsStep == ReceiptsInv /\ (F!Next \/ UNCHANGED receiptVars) => ReceiptsInv'
<1>1. ASSUME ReceiptsInv, UNCHANGED receiptVars PROVE ReceiptsInv'
  <2>1. fContent' = fContent /\ fCurrent' = fCurrent /\ fFrames' = fFrames /\ fProjection' = fProjection
    BY <1>1 DEF receiptVars
  <2>2. ReceiptTypes' <=> ReceiptTypes
    BY <2>1 DEF ReceiptTypes, Outcomes, ReceiptSays
  <2>3. F!Range(fFrames)' = F!Range(fFrames)
    BY <2>1 DEF F!Range
  <2>4. Decided(fContent, fCurrent, fProjection)' <=> Decided(fContent, fCurrent, fProjection)
    BY <2>1 DEF Decided, Decisions
  <2>5. \A a : Passes(a, fFrames, fCurrent)' <=> Passes(a, fFrames, fCurrent)
    BY <2>1 DEF Passes, F!Fold, F!Empty
  <2> QED  BY <1>1, <2>1, <2>2, <2>3, <2>4, <2>5 DEF ReceiptsInv
<1>2. ASSUME ReceiptsInv, NEW r \in ReceiptIds, F!Apply(r) PROVE ReceiptsInv'
  <2> DEFINE p == fProjection
             q == fProjection'
             o == fContent[r].outcome
  <2>1. fFrames' = Append(fFrames, r) /\ q = F!Fold(p, r, fCurrent) /\ UNCHANGED <<fContent, fCurrent>>
    BY <1>2 DEF F!Apply
  <2>2. /\ p \in Outcomes /\ fFrames \in Seq(ReceiptIds) /\ fContent \in [ReceiptIds -> ReceiptSays]
        /\ p.seen = F!Range(fFrames) /\ IsFiniteSet(p.seen) /\ Decided(fContent, fCurrent, p)
        /\ Len(p.recorded) + Len(p.stale) + Len(p.conflicts) = Cardinality(p.seen)
    BY <1>2 DEF ReceiptsInv, ReceiptTypes
  <2>3. fFrames' \in Seq(ReceiptIds) /\ F!Range(fFrames') = p.seen \cup {r}
    BY <2>1, <2>2, SetAppended, AppendProperties
  <2>4. \E a : Passes(a, fFrames', fCurrent') /\ a[Len(fFrames')] = q
    <3>1. PICK a : Passes(a, fFrames, fCurrent) /\ a[Len(fFrames)] = p
      BY <1>2 DEF ReceiptsInv
    <3>2. \E b : Passes(b, Append(fFrames, r), fCurrent) /\ b[Len(Append(fFrames, r))] = F!Fold(a[Len(fFrames)], r, fCurrent)
      BY <2>2, <3>1, PassesOn
    <3> QED  BY <2>1, <3>1, <3>2
  <2>5. /\ ReceiptTypes' <=> (q \in Outcomes)
        /\ ReceiptsInv' <=>
             /\ q \in Outcomes /\ q.seen = p.seen \cup {r} /\ IsFiniteSet(q.seen)
             /\ Len(q.recorded) + Len(q.stale) + Len(q.conflicts) = Cardinality(q.seen)
             /\ Decided(fContent, fCurrent, q)
    <3>1. ReceiptTypes' <=> (q \in Outcomes)
      BY <2>1, <2>2, <2>3 DEF ReceiptTypes, Outcomes, ReceiptSays
    <3>2. F!Range(fFrames') = F!Range(fFrames)'
      BY DEF F!Range
    <3>3. (Decided(fContent, fCurrent, fProjection))' <=> Decided(fContent, fCurrent, q)
      BY <2>1 DEF Decided, Decisions
    <3>4. (\E a : Passes(a, fFrames, fCurrent) /\ a[Len(fFrames)] = fProjection)'
      <4>1. \A a : Passes(a, fFrames, fCurrent)' <=> Passes(a, fFrames', fCurrent')
        BY <2>1 DEF Passes, F!Fold, F!Empty
      <4> QED  BY <2>4, <4>1
    <3> QED  BY <2>3, <3>1, <3>2, <3>3, <3>4 DEF ReceiptsInv
  <2>6. CASE r \in p.seen
    <3>1. q = p /\ p.seen \cup {r} = p.seen
      BY <2>1, <2>6 DEF F!Fold
    <3> QED  BY <2>1, <2>2, <2>3, <2>4, <2>5, <3>1 DEF ReceiptsInv, ReceiptTypes
  <2>7. CASE r \notin p.seen
    <3>1. /\ IsFiniteSet(p.seen \cup {r}) /\ Cardinality(p.seen \cup {r}) = Cardinality(p.seen) + 1
          /\ o \in ReceiptOutcomes /\ fContent[r] \in ReceiptSays
      BY <2>2, <2>7, FS_AddElement DEF ReceiptSays
    <3>2. /\ p.recorded \in Seq(ReceiptIds) /\ p.stale \in Seq(ReceiptIds) /\ p.conflicts \in Seq(ReceiptIds)
          /\ p.seen \subseteq ReceiptIds /\ p.terminal \in ReceiptOutcomes \cup {None}
      BY <2>2 DEF Outcomes
    <3>3. ASSUME NEW s \in Seq(ReceiptIds)
          PROVE  Append(s, r) \in Seq(ReceiptIds) /\ Len(Append(s, r)) = Len(s) + 1 /\ Len(s) \in Nat /\ Append(s, r) # << >>
      BY AppendProperties, LenProperties
    <3> DEFINE a == Len(p.recorded)
               b == Len(p.stale)
               c == Len(p.conflicts)
               d == Cardinality(p.seen)
    <3>7. /\ a \in Nat /\ b \in Nat /\ c \in Nat /\ d \in Nat /\ a + b + c = d
          /\ Cardinality(p.seen \cup {r}) = d + 1
          /\ Len(Append(p.recorded, r)) = a + 1 /\ Len(Append(p.stale, r)) = b + 1
          /\ Len(Append(p.conflicts, r)) = c + 1
      BY <2>2, <3>1, <3>2, <3>3, FS_CardinalityType
    <3> HIDE DEF a, b, c, d
    <3>4. CASE fContent[r].generation # fCurrent
      <4>1. q = [[p EXCEPT !.seen = @ \cup {r}] EXCEPT !.stale = Append(@, r)]
        BY <2>1, <2>7, <3>4 DEF F!Fold
      <4>2. /\ q \in Outcomes /\ q.seen = p.seen \cup {r} /\ q.stale = Append(p.stale, r)
            /\ q.recorded = p.recorded /\ q.conflicts = p.conflicts /\ q.terminal = p.terminal
        BY <2>2, <3>2, <3>3, <4>1 DEF Outcomes
      <4>3. Decisions(fContent, fCurrent, q.seen) = Decisions(fContent, fCurrent, p.seen)
        BY <3>4, <4>2 DEF Decisions
      <4>4. Decided(fContent, fCurrent, q)
        BY <2>2, <4>2, <4>3 DEF Decided
      <4>5. Len(q.recorded) + Len(q.stale) + Len(q.conflicts) = Cardinality(q.seen)
        <5>1. Len(q.recorded) = a /\ Len(q.stale) = b + 1 /\ Len(q.conflicts) = c /\ Cardinality(q.seen) = d + 1
          BY <3>7, <4>2 DEF a, b, c, d
        <5> QED  BY <3>7, <5>1
      <4> QED  BY <2>1, <2>2, <2>3, <2>4, <2>5, <3>1, <4>2, <4>4, <4>5 DEF ReceiptsInv, ReceiptTypes
    <3>5. CASE fContent[r].generation = fCurrent /\ o \in ReceiptTerminal /\ p.terminal \notin {None, o}
      <4>1. q = [[p EXCEPT !.seen = @ \cup {r}] EXCEPT !.conflicts = Append(@, r)]
        BY <2>1, <2>7, <3>5 DEF F!Fold
      <4>2. /\ q \in Outcomes /\ q.seen = p.seen \cup {r} /\ q.conflicts = Append(p.conflicts, r)
            /\ q.recorded = p.recorded /\ q.stale = p.stale /\ q.terminal = p.terminal
        BY <2>2, <3>2, <3>3, <4>1 DEF Outcomes
      <4>3. Decisions(fContent, fCurrent, q.seen) = Decisions(fContent, fCurrent, p.seen) \cup {o}
        BY <3>5, <4>2 DEF Decisions
      <4>4. Decided(fContent, fCurrent, q)
        BY <2>2, <3>2, <3>3, <3>5, <4>2, <4>3 DEF Decided
      <4>5. Len(q.recorded) + Len(q.stale) + Len(q.conflicts) = Cardinality(q.seen)
        <5>1. Len(q.recorded) = a /\ Len(q.stale) = b /\ Len(q.conflicts) = c + 1 /\ Cardinality(q.seen) = d + 1
          BY <3>7, <4>2 DEF a, b, c, d
        <5> QED  BY <3>7, <5>1
      <4> QED  BY <2>1, <2>2, <2>3, <2>4, <2>5, <3>1, <4>2, <4>4, <4>5 DEF ReceiptsInv, ReceiptTypes
    <3>6. CASE fContent[r].generation = fCurrent /\ ~(o \in ReceiptTerminal /\ p.terminal \notin {None, o})
      <4> DEFINE t == IF o \in ReceiptTerminal THEN o ELSE p.terminal
      <4>1. q = [[p EXCEPT !.seen = @ \cup {r}] EXCEPT !.recorded = Append(@, r), !.terminal = IF o \in ReceiptTerminal THEN o ELSE @]
        BY <2>1, <2>7, <3>6 DEF F!Fold
      <4>2. /\ q \in Outcomes /\ q.seen = p.seen \cup {r} /\ q.recorded = Append(p.recorded, r)
            /\ q.conflicts = p.conflicts /\ q.stale = p.stale /\ q.terminal = t
        BY <2>2, <3>1, <3>2, <3>3, <4>1 DEF Outcomes
      <4>3. Decisions(fContent, fCurrent, q.seen) = Decisions(fContent, fCurrent, p.seen) \cup ({o} \cap ReceiptTerminal)
        BY <3>6, <4>2 DEF Decisions
      <4>4. Decided(fContent, fCurrent, q)
        <5>1. None \notin Decisions(fContent, fCurrent, p.seen)
          BY ReceiptAssumption DEF Decisions, ReceiptAssumption
        <5>2. CASE o \notin ReceiptTerminal
          BY <2>2, <4>2, <4>3, <5>2 DEF Decided
        <5>3. CASE o \in ReceiptTerminal /\ p.terminal = o
          BY <2>2, <4>2, <4>3, <5>3 DEF Decided
        <5>4. CASE o \in ReceiptTerminal /\ p.terminal = None
          <6>1. Decisions(fContent, fCurrent, p.seen) = {} /\ p.conflicts = << >>
            BY <2>2, <5>1, <5>4 DEF Decided
          <6> QED  BY <4>2, <4>3, <5>4, <6>1 DEF Decided
        <5> QED  BY <3>6, <5>2, <5>3, <5>4
      <4>5. Len(q.recorded) + Len(q.stale) + Len(q.conflicts) = Cardinality(q.seen)
        <5>1. Len(q.recorded) = a + 1 /\ Len(q.stale) = b /\ Len(q.conflicts) = c /\ Cardinality(q.seen) = d + 1
          BY <3>7, <4>2 DEF a, b, c, d
        <5> QED  BY <3>7, <5>1
      <4> QED  BY <2>1, <2>2, <2>3, <2>4, <2>5, <3>1, <4>2, <4>4, <4>5 DEF ReceiptsInv, ReceiptTypes
    <3> QED  BY <3>4, <3>5, <3>6
  <2> QED  BY <2>6, <2>7
<1> QED  BY <1>1, <1>2 DEF F!Next

LEMMA ReceiptsInit == F!Init => ReceiptsInv
<1> SUFFICES ASSUME F!Init PROVE ReceiptsInv
  OBVIOUS
<1>1. /\ fContent \in [ReceiptIds -> ReceiptSays] /\ fFrames = << >> /\ fProjection = F!Empty
  BY DEF F!Init, ReceiptSays
<1>2. /\ F!Empty.seen = {} /\ F!Empty.terminal = None /\ F!Empty.recorded = << >> /\ F!Empty.stale = << >>
      /\ F!Empty.conflicts = << >> /\ F!Empty \in Outcomes
  BY DEF F!Empty, Outcomes
<1>3. Len(<< >>) = 0 /\ F!Range(<< >>) = {} /\ << >> \in Seq(ReceiptIds)
  BY DEF F!Range
<1>4. IsFiniteSet({}) /\ Cardinality({}) = 0
  BY FS_EmptySet
<1>5. Decided(fContent, fCurrent, F!Empty)
  BY <1>2 DEF Decided, Decisions
<1>6. \E a : Passes(a, << >>, fCurrent) /\ a[Len(<< >>)] = F!Empty
  <2> DEFINE a == [n \in {0} |-> F!Empty]
  <2>1. 0..Len(<< >>) = {0}
    BY <1>3
  <2>2. a = [n \in 0..Len(<< >>) |-> IF n = 0 THEN F!Empty ELSE F!Fold(a[n - 1], << >>[n], fCurrent)]
    BY <2>1
  <2> QED  BY <1>3, <2>2 DEF Passes
<1>7. Len(F!Empty.recorded) + Len(F!Empty.stale) + Len(F!Empty.conflicts) = 0
  BY <1>2, <1>3
<1> QED  BY <1>1, <1>2, <1>3, <1>4, <1>5, <1>6, <1>7 DEF ReceiptsInv, ReceiptTypes

LEMMA ReceiptsHeld == ReceiptsInv => F!ReceiptsAgree
<1> SUFFICES ASSUME ReceiptsInv PROVE F!ReceiptsAgree
  OBVIOUS
<1> DEFINE p == fProjection
           said == Decisions(fContent, fCurrent, p.seen)
<1>1. p.seen = F!Range(fFrames) /\ IsFiniteSet(p.seen) /\ Decided(fContent, fCurrent, p) /\ fFrames \in Seq(ReceiptIds)
  BY DEF ReceiptsInv, ReceiptTypes
<1>2. said = {fContent[r].outcome : r \in {x \in F!Range(fFrames) : fContent[x].generation = fCurrent}} \cap ReceiptTerminal
  BY <1>1 DEF Decisions
<1>3. IsFiniteSet(said)
  <2> DEFINE all == {fContent[r].outcome : r \in p.seen}
  <2>1. IsFiniteSet(all)
    <3> DEFINE f == [r \in p.seen |-> fContent[r].outcome]
    <3>1. f \in Surjection(p.seen, all)
      BY DEF Surjection
    <3> QED  BY <1>1, <3>1, FS_Surjection
  <2>2. said \subseteq all
    BY DEF Decisions
  <2> QED  BY <2>1, <2>2, FS_Subset
<1>4. (p.conflicts # << >>) <=> (Cardinality(said) > 1)
  <2>1. CASE said = {}
    BY <1>1, <2>1, FS_EmptySet DEF Decided
  <2>2. CASE said # {}
    <3>1. p.terminal \in said
      BY <1>1, <2>2 DEF Decided
    <3>2. CASE said = {p.terminal}
      <4>1. Cardinality(said) = 1
        BY <3>2, FS_Singleton
      <4> QED  BY <1>1, <3>2, <4>1 DEF Decided
    <3>3. CASE said # {p.terminal}
      <4>1. PICK o \in said : o # p.terminal
        BY <3>1, <3>3
      <4>2. IsFiniteSet({o, p.terminal}) /\ Cardinality({o, p.terminal}) = 2
        <5>1. IsFiniteSet({o}) /\ Cardinality({o}) = 1
          BY FS_Singleton
        <5>2. {o, p.terminal} = {o} \cup {p.terminal}
          OBVIOUS
        <5> QED  BY <4>1, <5>1, <5>2, FS_AddElement
      <4>3. Cardinality({o, p.terminal}) <= Cardinality(said) /\ Cardinality(said) \in Nat
        BY <1>3, <3>1, FS_Subset, FS_CardinalityType
      <4> QED  BY <1>1, <4>1, <4>2, <4>3 DEF Decided
    <3> QED  BY <3>2, <3>3
  <2> QED  BY <2>1, <2>2
<1>5. F!Rebuilt(fCurrent) = p
  <2>1. PICK a : Passes(a, fFrames, fCurrent) /\ a[Len(fFrames)] = p
    BY DEF ReceiptsInv
  <2> DEFINE b == CHOOSE f : Passes(f, fFrames, fCurrent)
  <2>2. Passes(b, fFrames, fCurrent)
    BY <2>1
  <2>3. Len(fFrames) \in Nat
    BY <1>1, LenProperties
  <2>4. b[Len(fFrames)] = p
    BY <2>1, <2>2, <2>3, PassesOnce
  <2>5. F!Rebuilt(fCurrent) = b[Len(fFrames)]
    BY DEF F!Rebuilt, Passes
  <2> QED  BY <2>4, <2>5
<1>6. IF said = {} THEN p.terminal = None ELSE p.terminal \in said
  BY <1>1 DEF Decided
<1>7. Len(p.recorded) + Len(p.stale) + Len(p.conflicts) = Cardinality(p.seen)
  BY DEF ReceiptsInv
<1>8. (fCurrent = F!Max({fContent[r].generation : r \in p.seen})) => F!FromReceipts = p
  BY <1>1, <1>5 DEF F!FromReceipts
<1>9. (p.conflicts # << >>) = (Cardinality(said) > 1)
  BY <1>4
<1> HIDE DEF said, p
<1>10. /\ p = fProjection
       /\ (fFrames # << >>) =>
            ((fCurrent = F!Max({fContent[r].generation : r \in p.seen})) => F!FromReceipts = p)
  BY <1>8 DEF p
<1> DEFINE told == {fContent[r].outcome : r \in {x \in F!Range(fFrames) : fContent[x].generation = fCurrent}} \cap ReceiptTerminal
<1>11. said = told
  BY <1>2 DEF said, p
<1>12. /\ (fProjection.conflicts # << >>) = (Cardinality(told) > 1)
       /\ IF told = {} THEN fProjection.terminal = None ELSE fProjection.terminal \in told
       /\ fProjection.seen = F!Range(fFrames)
       /\ Len(fProjection.recorded) + Len(fProjection.stale) + Len(fProjection.conflicts) = Cardinality(fProjection.seen)
  BY <1>1, <1>6, <1>7, <1>9, <1>10, <1>11
<1> HIDE DEF told
<1>13. LET t == told
           q == fProjection
       IN /\ (q.conflicts # << >>) = (Cardinality(t) > 1)
          /\ IF t = {} THEN q.terminal = None ELSE q.terminal \in t
          /\ q.seen = F!Range(fFrames)
          /\ Len(q.recorded) + Len(q.stale) + Len(q.conflicts) = Cardinality(q.seen)
          /\ (fFrames # << >>) =>
               ((fCurrent = F!Max({fContent[r].generation : r \in q.seen})) => F!FromReceipts = q)
  BY <1>10, <1>12
<1>14. \A S : F!Cardinality(S) = Cardinality(S)
  BY DEF F!Cardinality, Cardinality
<1> QED  BY <1>13, <1>14 DEF F!ReceiptsAgree, told

LEMMA ReceiptsStay == [Next]_vars => F!Next \/ UNCHANGED receiptVars
  BY DEF Next, vars, Stays

\* For any commands, authorities, generations, outcomes and bounds: a call is resolved
\* as its authority decided it, through frames that are late, repeated, from another
\* generation or lost with their link, and the client that has caught up knows what the
\* server knows (CommandProjection.apply_message, apply_projection); and receipts in any
\* order give one outcome, which a later reader finds too (ReceiptProjection.apply,
\* from_receipts).
THEOREM CallsStayDecided == Spec => []CallsResolveAsDecided
<1>1. Init => CommandInv /\ ReceiptsInv
  BY CommandInit, ReceiptsInit DEF Init
<1>2. CommandInv /\ ReceiptsInv /\ [Next]_vars => (CommandInv /\ ReceiptsInv)'
  BY CommandStays, CommandStep, ReceiptsStay, ReceiptsStep
<1>3. CommandInv /\ ReceiptsInv => CallsResolveAsDecided
  BY CommandHeld, ReceiptsHeld DEF CallsResolveAsDecided
<1> QED  BY <1>1, <1>2, <1>3, PTL DEF Spec
==============================================================================
