------------------------------ MODULE Command ------------------------------
(***************************************************************************)
(* command.py: a CommandRpcClient and a serving authority, each folding    *)
(* into a CommandProjection, over links that repeat and reorder what the   *)
(* authority says and that a reconnect empties; the link then starts with  *)
(* the image of the server's projection.  Another authority, of a          *)
(* generation that does not own the command, talks to the client as well.  *)
(* The authority itself is outside of src/: it folds what it issues, and   *)
(* decides each command once.                                              *)
(***************************************************************************)
EXTENDS Naturals, Sequences

CONSTANTS Id, Generation,
          Own, \* the generations the client submits under
          MaxFrames, MaxRepeats, MaxReconnects

VARIABLES client, server, toServer, toClient,
          submitted,  \* the generation each command was submitted under
          issued,     \* every event and receipt sent to the client
          repeats, reconnects

vars == <<client, server, toServer, toClient, submitted, issued, repeats, reconnects>>

NoEntries == [c \in {} |-> 0]
NoId == << >>
Empty == [generation |-> 0, entries |-> NoEntries, seen |-> {}, cancels |-> {}, conflicts |-> {}]
\* The mapping f with c sent to x, and f where g says nothing.
With(f, c, x) == [d \in DOMAIN f \cup {c} |-> IF d = c THEN x ELSE f[d]]
Over(g, f) == [d \in DOMAIN g \cup DOMAIN f |-> IF d \in DOMAIN g THEN g[d] ELSE f[d]]
Larger(x, y) == IF x >= y THEN x ELSE y

Terminal == {"applied", "cancelled"}
TerminalStatusOf(outcome) == outcome
ProgressStatusOf == [observed |-> "accepted", started |-> "running", cancelled |-> "none"]
PhaseRank(status) ==
  CASE status = "submitted" -> 0 [] status = "accepted" -> 1 [] status = "running" -> 2 [] OTHER -> 3

Knows(p, c) == c \in DOMAIN p.entries
\* Mutant: a receipt of any generation counts.
AcceptsAnyGeneration(p, f) == f.id \notin p.seen /\ Knows(p, f.command)

\* A known id, an unknown command or another generation: nothing is recorded.
Accepts(p, f) ==
  /\ f.id \notin p.seen
  /\ Knows(p, f.command) /\ f.generation = p.entries[f.command].generation

Submit(p, f) ==
  IF Knows(p, f.command) THEN p
  ELSE [p EXCEPT !.generation = Larger(@, f.generation),
                 !.entries = With(@, f.command,
                   [status |-> "submitted", terminal |-> FALSE, generation |-> f.generation,
                    receipt |-> NoId, event |-> NoId])]

Advance(entry, status) ==
  IF status # "none" /\ ~entry.terminal /\ PhaseRank(status) >= PhaseRank(entry.status)
  THEN [entry EXCEPT !.status = status] ELSE entry

Event(p, f) ==
  IF Accepts(p, f)
  THEN [p EXCEPT !.seen = @ \cup {f.id},
                 !.entries[f.command] = Advance([@ EXCEPT !.event = f.id], ProgressStatusOf[f.kind])]
  ELSE p

Cancel(p, f) ==
  IF f.command \notin p.cancels /\ Knows(p, f.command) /\ f.generation = p.entries[f.command].generation
  THEN [p EXCEPT !.cancels = @ \cup {f.command}] ELSE p

ObserveReceipt(p, f) ==
  IF ~Accepts(p, f) THEN p
  ELSE LET entry == p.entries[f.command]
           incoming == TerminalStatusOf(f.kind)
           kept == [p EXCEPT !.seen = @ \cup {f.id}]
       IN IF f.kind \notin Terminal THEN [kept EXCEPT !.entries[f.command] = Advance(@, "accepted")]
          ELSE IF ~entry.terminal
          THEN [kept EXCEPT !.entries[f.command] = [@ EXCEPT !.terminal = TRUE, !.status = incoming, !.receipt = f.id]]
          ELSE IF entry.status = incoming THEN kept
          ELSE [p EXCEPT !.conflicts = @ \cup {f.command}]

ToImage(p) == [type |-> "image", generation |-> p.generation, commands |-> p.entries]
ApplyProjection(p, f) ==
  [p EXCEPT !.generation = Larger(@, f.generation),
            !.entries = Over(f.commands, @),
            !.seen = (@ \cup UNION {{f.commands[c].event, f.commands[c].receipt} : c \in DOMAIN f.commands}) \ {NoId}]

ApplyMessage(p, f) ==
  CASE f.type = "submit" -> Submit(p, f) [] f.type = "cancel" -> Cancel(p, f)
    [] f.type = "event" -> Event(p, f) [] f.type = "receipt" -> ObserveReceipt(p, f)
    [] f.type = "image" -> ApplyProjection(p, f)

Init ==
  /\ client = Empty /\ server = Empty /\ toServer = << >> /\ toClient = << >>
  /\ submitted = NoEntries /\ issued = {} /\ repeats = 0 /\ reconnects = 0

\* The client sends first and folds what it sent; a resubmission is the same frame.
Ask(f) ==
  /\ Len(toServer) < MaxFrames
  /\ toServer' = Append(toServer, f) /\ client' = ApplyMessage(client, f)
  /\ UNCHANGED <<server, toClient, issued, repeats, reconnects>>

CallSubmit(c, g) ==
  /\ c \in DOMAIN submitted => submitted[c] = g
  /\ submitted' = With(submitted, c, g)
  /\ Ask([type |-> "submit", command |-> c, generation |-> g])

CallCancel(c) ==
  /\ c \in DOMAIN submitted /\ UNCHANGED submitted
  /\ Ask([type |-> "cancel", command |-> c, generation |-> submitted[c]])

Serve ==
  /\ toServer # << >>
  /\ server' = ApplyMessage(server, Head(toServer)) /\ toServer' = Tail(toServer)
  /\ UNCHANGED <<client, toClient, submitted, issued, repeats, reconnects>>

Says(f) ==
  /\ Len(toClient) < MaxFrames
  /\ toClient' = Append(toClient, f) /\ issued' = issued \cup {f}
  /\ UNCHANGED <<client, toServer, submitted, reconnects>>

\* The owner folds what it issues, and cancels only what was cancelled in time.
Issue(type, c, kind) ==
  LET f == [type |-> type, id |-> <<type, c, kind>>, command |-> c, kind |-> kind, generation |-> submitted[c]]
  IN /\ Knows(server, c) /\ ~server.entries[c].terminal /\ f \notin issued
     /\ kind = "cancelled" => c \in server.cancels
     /\ server' = ApplyMessage(server, f) /\ Says(f) /\ UNCHANGED repeats

\* An authority of another generation answers too, to the client.
Intrude(c, g, kind) ==
  /\ c \in DOMAIN submitted /\ g # submitted[c] /\ repeats < MaxRepeats /\ repeats' = repeats + 1
  /\ Says([type |-> "receipt", id |-> <<"other", c, kind>>, command |-> c, kind |-> kind, generation |-> g])
  /\ UNCHANGED server

Repeat(f) ==
  /\ repeats < MaxRepeats /\ repeats' = repeats + 1
  /\ Says(f) /\ UNCHANGED server

Ingest ==
  /\ toClient # << >>
  /\ client' = ApplyMessage(client, Head(toClient)) /\ toClient' = Tail(toClient)
  /\ UNCHANGED <<server, toServer, submitted, issued, repeats, reconnects>>

\* Both links are lost; the client may have lost its projection with them,
\* and the server may be a successor built from the image alone.
Reconnect ==
  /\ reconnects < MaxReconnects /\ reconnects' = reconnects + 1
  /\ client' \in {client, Empty} /\ server' \in {server, ApplyProjection(Empty, ToImage(server))}
  /\ toServer' = << >> /\ toClient' = <<ToImage(server)>>
  /\ UNCHANGED <<submitted, issued, repeats>>

Next ==
  \/ \E c \in Id :
       \/ CallCancel(c)
       \/ \E g \in Own : CallSubmit(c, g)
       \/ \E g \in Generation, kind \in Terminal : Intrude(c, g, kind)
       \/ \E kind \in DOMAIN ProgressStatusOf : Issue("event", c, kind)
       \/ \E kind \in {"accepted"} \cup Terminal : Issue("receipt", c, kind)
  \/ \E f \in issued : Repeat(f)
  \/ Serve \/ Ingest \/ Reconnect

View(p, c) == [status |-> p.entries[c].status, terminal |-> p.entries[c].terminal]
Resolved(p) == {c \in DOMAIN p.entries : p.entries[c].terminal}

(***************************************************************************)
(* poll_call resolves a command as the authority decided it and no other   *)
(* way, whatever is late, repeated or from another generation; the client  *)
(* sees no conflict; and once it has taken everything, the image of a      *)
(* reconnect included, it knows every command exactly as the server does   *)
(* (CommandProjection, "Terminal authority is the receipt", "Generation    *)
(* guards", "Reconnect equivalence").                                      *)
(***************************************************************************)
CallsResolveAsDecided ==
  /\ client.conflicts = {}
  /\ \A c \in Resolved(client) : Knows(server, c) /\ View(client, c) = View(server, c)
  /\ toClient = << >> => \A c \in DOMAIN server.entries : Knows(client, c) /\ View(client, c) = View(server, c)
=============================================================================
