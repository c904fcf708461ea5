----------------------------- MODULE StateMachine -----------------------------
(***************************************************************************)
(* The flat state machine (state_machine.py): a cell, a transition         *)
(* function, and handlers that are effects over the cell, each with the    *)
(* value it saw last.  A client calls it outside of a batch or in one; a   *)
(* handler, while it is told of a transition, may call it too.  Outside a  *)
(* batch the effects run in the drain that the change started, in a batch  *)
(* in the second phase of its flush, where a change is deferred (batch.py).*)
(***************************************************************************)
EXTENDS Integers, Sequences, FiniteSets

CONSTANTS State, Initial, Event, Transition, Handler, MaxCalls, None

VARIABLES
  state,    \* the cell's value
  batch,    \* "none", "open" or "flush", its second phase
  written,  \* whether the cell is in _pending_cells
  linked,   \* the cell's dependents: who hears of its next change
  dirty,    \* the handlers' effects due to run in this drain or flush
  running,  \* the handler that is being told, None
  prev,     \* handler -> what its effect saw last, None when not registered
  calls     \* handler -> the (old, new) pairs it was called with
vars == <<state, batch, written, linked, dirty, running, prev, calls>>

Listening == {h \in Handler : prev[h] # None}

Init ==
  /\ state = Initial /\ batch = "none" /\ written = FALSE
  /\ linked = {} /\ dirty = {} /\ running = None
  /\ prev = [h \in Handler |-> None] /\ calls = [h \in Handler |-> <<>>]

\* Who calls: the handler that runs, or the client when no effect is due.
MayCall == running # None \/ (dirty = {} /\ batch # "flush")

\* A change is told at once or, at a depth, left to the flush of a batch.
Notify ==
  IF batch = "none" THEN dirty' = dirty \cup linked /\ linked' = {} /\ UNCHANGED written
  ELSE written' = TRUE /\ UNCHANGED <<linked, dirty>>

\* A rejected event, or one that leads to an equal state, disturbs nobody.
Send(e) ==
  LET next == Transition[state, e] IN
  /\ MayCall
  /\ state' = IF next = None THEN state ELSE next
  /\ IF state' # state THEN Notify ELSE UNCHANGED <<written, linked, dirty>>
  /\ UNCHANGED <<batch, running, prev, calls>>

\* The effect's first run seeds what it saw and links it.
OnTransition(h) ==
  /\ MayCall /\ prev[h] = None
  /\ prev' = [prev EXCEPT ![h] = state] /\ linked' = linked \cup {h}
  /\ UNCHANGED <<state, batch, written, dirty, running, calls>>
Dispose(h) ==
  /\ MayCall /\ prev[h] # None
  /\ prev' = [prev EXCEPT ![h] = None] /\ calls' = [calls EXCEPT ![h] = <<>>]
  /\ linked' = linked \ {h} /\ dirty' = dirty \ {h}
  /\ UNCHANGED <<state, batch, written, running>>

OpenBatch ==
  /\ MayCall /\ running = None /\ batch = "none" /\ batch' = "open"
  /\ UNCHANGED <<state, written, linked, dirty, running, prev, calls>>
\* The outermost exit: the wave queues who is linked to a cell that was written.
CloseBatch ==
  /\ MayCall /\ running = None /\ batch = "open"
  /\ batch' = "flush" /\ written' = FALSE
  /\ dirty' = (IF written THEN linked ELSE {}) /\ linked' = (IF written THEN {} ELSE linked)
  /\ UNCHANGED <<state, running, prev, calls>>
EndFlush ==
  /\ batch = "flush" /\ dirty = {} /\ running = None /\ batch' = "none"
  /\ UNCHANGED <<state, written, linked, dirty, running, prev, calls>>

\* A due effect reads the cell and, if it changed, calls its handler.
Run(h) ==
  /\ running = None /\ h \in dirty /\ Len(calls[h]) < MaxCalls
  /\ dirty' = dirty \ {h} /\ linked' = linked \cup {h} /\ prev' = [prev EXCEPT ![h] = state]
  /\ IF prev[h] # state
     THEN running' = h /\ calls' = [calls EXCEPT ![h] = Append(@, <<prev[h], state>>)]
     ELSE UNCHANGED <<running, calls>>
  /\ UNCHANGED <<state, batch, written>>
Return == running # None /\ running' = None /\ UNCHANGED <<state, batch, written, linked, dirty, prev, calls>>

Next ==
  \/ \E e \in Event : Send(e)
  \/ \E h \in Handler : OnTransition(h) \/ Dispose(h) \/ Run(h)
  \/ OpenBatch \/ CloseBatch \/ EndFlush \/ Return
Spec == Init /\ [][Next]_vars

-----------------------------------------------------------------------------
\* What a handler is told is an unbroken walk of real changes, and it ends at
\* the state whenever nothing is due and no written cell waits for the flush of
\* a batch, however sends, batches and the handlers' own sends interleave.  What
\* a handler sends during a flush waits for the next one: until then, or until
\* the next transition outside a batch, nobody is told of it
\* (StateMachine.on_transition, Effect._invalidate, batch._flush).
HandlersFollow == \A h \in Listening :
  /\ \A i \in DOMAIN calls[h] : calls[h][i][1] # calls[h][i][2]
  /\ \A i \in 1..Len(calls[h]) - 1 : calls[h][i][2] = calls[h][i + 1][1]
  /\ h \notin dirty /\ ~written => prev[h] = state
  /\ calls[h] # <<>> => calls[h][Len(calls[h])][2] = prev[h]
=============================================================================
