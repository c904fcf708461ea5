------------------------------- MODULE MCCells -------------------------------
(***************************************************************************)
(* The machines that live in one process, each checked by itself: subject  *)
(* is the one a behaviour is about, the others stay as they were built.    *)
(***************************************************************************)
EXTENDS Integers, Sequences, TLC

CONSTANTS a, b, c, d, u, v, Val, None

\* The parameters of the machines that CellsProofs is about; the cfg gives them values.
CONSTANTS
  LeasePeers, LeaseTtl,
  LeaseTime, LeaseFences,  \* bounds: ticks of the clock, grants
  Subscribers,
  MaxValues,               \* bound: values published
  BreakerCallers, BreakerCapacity, BreakerWindow, BreakerThreshold, BreakerReset, BreakerTimeout,
  TeardownNodes, TeardownEffects, TeardownScopes,
  TeardownCloses,          \* bound: calls of close
  MemberPeers, MemberSamples, MemberTimeout, MemberYSquare, MemberStdScale,
  MemberTime,              \* bound: ticks of the clock
  PresencePeers, PresenceValues, PresenceTtl,
  PresenceTime,            \* bound: ticks of the clock
  FlowLifecycle, FlowUndeclared, FlowDeadline, FlowStart, FlowTimers, FlowChart,
  FlowTime, FlowObservations, \* bounds: clock readings, observations
  ReplayLabels, ReplayObservations, ReplayStrides,
  ReplayMaxSeq,            \* bound: the largest seq
  StdTasks, StdStart, StdDuration, StdRequired, StdMaxU64,
  StdTime, StdRevision     \* bounds: clock readings, revisions

VARIABLES subject,
  qElements, qClosed, qCached, qHandles,
  oBase, oElements, oSubs, oStreams, oSaved, oLog,
  lNow, lHolder, lExpiry, lFence, lShown, lGrants,
  rNow, rState, rOutcomes, rOpenUntil, rInUse, rCalls, rBase, rAttempt, rDelay, rSince,
  mNow, mPeers, mShown, mTold,
  fClock, fEntries, fPresent, fSingle, fShown, fBeat, fAsked,
  eEvents, eOps, eLog,
  cConfig, cRecorded, cLast, cSeen,
  wChart, wFired, wSources, wLast, wTold, wFailed, wDelivered,
  sTimer, sTimeout, sBarrier, sPolls, sGiven,
  pLog, pFingerprint, pVerdict, pRecorded, pReplayed,
  hState, hBatch, hWritten, hLinked, hDirty, hRunning, hPrev, hCalls,
  nKind, nNodes, nKids, nReaders, nDerived, nDirty, nParents, nOps,
  dMode, dEffects, dOwned, dArmed, dCloses, dDisposed, dCleanups, dTaken, dSpared, dCalls,
  kPrior, kTarget, kChanged, kOps, kOrder, kTouched,
  xThreaded, xOrder, xEntries, xNodes, xVersions, xSignals, xReaders, xCalls, xHolder, xPending,
  xOps, xEnded, xUndone, xLinked, xReading, xCrossed

\* The callers, keys and threads of every machine below have no order.
Interchangeable == Permutations({a, b}) \cup Permutations({u, v})

\* A chart with a parallel state in a compound one, both histories, guarded
\* and internal transitions, and events that arm several regions at once.
StateNode(parent, declared, rank, on) ==
  [parent |-> parent, declared |-> declared, rank |-> rank, on |-> on,
   initial |-> None, history |-> None, parallel |-> FALSE, default |-> None]
To(target) == [target |-> target, guard |-> None, internal |-> FALSE]
When(g, target) == [To(target) EXCEPT !.guard = g]
Inside(target) == [To(target) EXCEPT !.internal = TRUE]
ChartDef ==
  [root |-> [StateNode(None, None, 0, <<>>) EXCEPT !.initial = "idle"],
   idle |-> StateNode("root", "atomic", 1, [go |-> To("W"), back |-> To("hW")]),
   W |-> [StateNode("root", None, 2, [out |-> To("idle"), reset |-> Inside("P")]) EXCEPT !.initial = "P"],
   P |-> [StateNode("W", "parallel", 3, [next |-> To("q"), back |-> To("P")]) EXCEPT !.parallel = TRUE],
   A |-> [StateNode("P", None, 4, [out |-> Inside("a1")]) EXCEPT !.initial = "a1"],
   a1 |-> StateNode("A", None, 5, [flip |-> To("a2")]),
   a2 |-> StateNode("A", None, 6, [flip |-> To("a1"), next |-> When("g", "q")]),
   B |-> [StateNode("P", None, 7, <<>>) EXCEPT !.initial = "b1"],
   b1 |-> StateNode("B", None, 8, [flip |-> When("g", "b2"), out |-> When("g", "idle")]),
   b2 |-> StateNode("B", None, 9, [flip |-> To("hB")]),
   hB |-> [StateNode("B", "history", 10, <<>>) EXCEPT !.history = "shallow", !.default = "b2"],
   q |-> StateNode("W", "final", 11, [go |-> To("P")]),
   hW |-> [StateNode("W", "history", 12, <<>>) EXCEPT !.history = "deep"]]

\* An authority that may take a step back, and one timer beside its chart.
Lifecycle == [queued |-> {"started"}, started |-> {"done", "queued"}, done |-> {}]
Deadlines == [queued |-> 2, started |-> 1, done |-> 0]
Alarm == [alarm |-> 2]

\* Two labels that change together, and one that is left out.
Sights == {[x |-> 1, y |-> 1], [x |-> 2, y |-> 2], [x |-> 1]}

Queue == INSTANCE QueueCell WITH
  Capacity <- 2, MaxLen <- 2,
  elements <- qElements, closed <- qClosed, cached <- qCached, handles <- qHandles
Topic == INSTANCE TopicCell WITH
  Subscriber <- Subscribers,
  base <- oBase, elements <- oElements, subs <- oSubs, streams <- oStreams, saved <- oSaved,
  log <- oLog
Lease == INSTANCE LeaseCell WITH
  Peer <- LeasePeers, Ttl <- LeaseTtl, MaxTime <- LeaseTime, MaxFence <- LeaseFences,
  now <- lNow, holder <- lHolder, expiry <- lExpiry, fence <- lFence, shown <- lShown,
  grants <- lGrants
Breaker == INSTANCE Resilience WITH
  Caller <- BreakerCallers, Capacity <- BreakerCapacity, Window <- BreakerWindow,
  FailureThreshold <- BreakerThreshold, ResetTimeout <- BreakerReset, CallTimeout <- BreakerTimeout,
  Width <- 4, Bases <- {1, 3}, Cap <- 9, MaxTime <- 5, MaxOutcomes <- 4,
  now <- rNow, state <- rState, outcomes <- rOutcomes, openUntil <- rOpenUntil, inUse <- rInUse,
  calls <- rCalls, base <- rBase, attempt <- rAttempt, delay <- rDelay, since <- rSince
Members == INSTANCE Membership WITH
  Peer <- MemberPeers, MaxTime <- MemberTime, MaxSamples <- MemberSamples,
  SuspectTimeout <- MemberTimeout, YSquare <- MemberYSquare, StdScale <- MemberStdScale,
  now <- mNow, peers <- mPeers, shown <- mShown, told <- mTold
Present == INSTANCE Presence WITH
  Peer <- PresencePeers, Value <- PresenceValues, Ttl <- PresenceTtl, MaxClock <- PresenceTime,
  clock <- fClock, entries <- fEntries, present <- fPresent, single <- fSingle, shown <- fShown,
  beat <- fBeat, asked <- fAsked
Time == INSTANCE TimeOperators WITH
  FireAt <- 2, Period <- 2, Cycle <- 3, Offsets <- {0, 2}, Quiet <- 1, Gate <- 2, Nth <- 2,
  Size <- 3, Slide <- 2, Gap <- 1, MaxEvents <- 5, MaxJump <- 4,
  events <- eEvents, ops <- eOps, log <- eLog
Harel == INSTANCE StateChart WITH
  Def <- ChartDef, Event <- {"go", "back", "out", "reset", "next", "flip"}, Guard <- {"g"},
  config <- cConfig, recorded <- cRecorded, last <- cLast, seen <- cSeen
Flow == INSTANCE Workflow WITH
  Lifecycle <- FlowLifecycle, Undeclared <- FlowUndeclared, Deadline <- FlowDeadline,
  Start <- FlowStart, Timer <- FlowTimers, Chart <- FlowChart,
  MaxTime <- FlowTime, MaxObservations <- FlowObservations,
  chart <- wChart, fired <- wFired, sources <- wSources, last <- wLast, told <- wTold,
  failed <- wFailed, delivered <- wDelivered
Std == INSTANCE Stdlib WITH
  Task <- StdTasks, Start <- StdStart, Duration <- StdDuration, Required <- StdRequired,
  MaxU64 <- StdMaxU64, MaxTime <- StdTime, MaxRevision <- StdRevision,
  timer <- sTimer, timeout <- sTimeout, barrier <- sBarrier, polls <- sPolls, given <- sGiven
Proof == INSTANCE Replay WITH
  Label <- ReplayLabels, Observation <- ReplayObservations, MaxSeq <- ReplayMaxSeq, Stride <- ReplayStrides,
  InitialSeq <- -1,
  log <- pLog, fingerprint <- pFingerprint, verdict <- pVerdict, recorded <- pRecorded,
  replayed <- pReplayed
Flat == INSTANCE StateMachine WITH
  State <- 1..3, Initial <- 1, Event <- {"step", "home"},
  Transition <- [t \in (1..3) \X {"step", "home"} |->
                     CASE t[2] = "home" -> 1 [] t[2] = "step" /\ t[1] < 3 -> t[1] + 1 [] OTHER -> None],
  Handler <- {a, b}, MaxCalls <- 3,
  state <- hState, batch <- hBatch, written <- hWritten, linked <- hLinked, dirty <- hDirty,
  running <- hRunning, prev <- hPrev, calls <- hCalls
Trees == INSTANCE KeyedTrees WITH
  Node <- {a, b, c}, Value <- {0, 1}, MaxOps <- 5,
  kind <- nKind, nodes <- nNodes, kids <- nKids, readers <- nReaders, derived <- nDerived,
  dirty <- nDirty, parents <- nParents, ops <- nOps
Scopes == INSTANCE Teardown WITH
  Node <- TeardownNodes, Scope <- TeardownScopes, MaxCloses <- TeardownCloses,
  mode <- dMode, effects <- dEffects, owned <- dOwned, armed <- dArmed, closes <- dCloses,
  disposed <- dDisposed, cleanups <- dCleanups, taken <- dTaken, spared <- dSpared, calls <- dCalls
Levels == INSTANCE Reconcile WITH
  Key <- {a, b, c, d},
  prior <- kPrior, target <- kTarget, changed <- kChanged, ops <- kOps, order <- kOrder,
  touched <- kTouched
Maps == INSTANCE KeyedMaps WITH
  Key <- {a, b}, Thread <- {u, v}, MaxOps <- 3, MaxOpsRead <- 2,
  threaded <- xThreaded, order <- xOrder, entries <- xEntries, nodes <- xNodes,
  versions <- xVersions, signals <- xSignals, readers <- xReaders, calls <- xCalls,
  holder <- xHolder, pending <- xPending, ops <- xOps, ended <- xEnded, undone <- xUndone,
  linked <- xLinked, reading <- xReading, crossed <- xCrossed

\* Nobody is no peer, and what is not there is no subscription.
LeaseAssumption == None \notin LeasePeers /\ LeaseTtl \subseteq Int
ASSUME LeaseAssumption
TopicAssumption == None \notin [cursor : Nat, durability : Topic!Durability, connected : BOOLEAN]
ASSUME TopicAssumption
\* The constructor raises both to at least one.
BreakerAssumption ==
  BreakerCapacity \in Nat /\ BreakerWindow \in Nat \ {0} /\ BreakerThreshold \in Nat \ {0}
ASSUME BreakerAssumption
TeardownAssumption == TeardownEffects \subseteq TeardownNodes
ASSUME TeardownAssumption
\* The constructor raises the samples to at least one.
MemberAssumption == MemberSamples \in Nat \ {0} /\ MemberTimeout \in Int
ASSUME MemberAssumption
\* What is not there is no entry.
PresenceAssumption == None \notin PresenceValues \X Int /\ PresenceTtl \in Int
ASSUME PresenceAssumption
\* A definition is refused unless it declares its initial state, every successor and
\* every state with a deadline; instants are natural numbers.
FlowAssumption ==
  /\ FlowStart \in DOMAIN FlowLifecycle /\ FlowUndeclared \cap DOMAIN FlowLifecycle = {}
  /\ \A s \in DOMAIN FlowLifecycle : FlowLifecycle[s] \subseteq DOMAIN FlowLifecycle
  /\ FlowDeadline \in [DOMAIN FlowLifecycle -> Nat]
  /\ FlowTimers \in [DOMAIN FlowTimers -> Nat] /\ FlowChart \notin DOMAIN FlowTimers
ASSUME FlowAssumption
\* A deadline that overflows is refused; no answer yet is no answer.
StdAssumption ==
  /\ StdStart \in Nat /\ StdDuration \in Nat /\ StdMaxU64 \in Nat /\ StdStart + StdDuration <= StdMaxU64
  /\ StdRequired \in Nat /\ None \notin Int
  /\ None \notin {"clock_regression", "timed_out", "completed", "operation_unavailable", "cancelled",
                 "cancellation_unavailable", "satisfied", "disposed", "timeout", "barrier"}
ASSUME StdAssumption
\* A graph shows some labels, each with a value; the harness refuses a stride of zero.
ReplayAssumption ==
  /\ \A o \in ReplayObservations :
       /\ o = [x \in DOMAIN o |-> o[x]] /\ DOMAIN o \subseteq ReplayLabels
       /\ \A x \in DOMAIN o : o[x] # None
  /\ ReplayStrides \subseteq Nat \ {0}
ASSUME ReplayAssumption

queueVars == <<qElements, qClosed, qCached, qHandles>>
topicVars == <<oBase, oElements, oSubs, oStreams, oSaved, oLog>>
leaseVars == <<lNow, lHolder, lExpiry, lFence, lShown, lGrants>>
breakerVars == <<rNow, rState, rOutcomes, rOpenUntil, rInUse, rCalls, rBase, rAttempt, rDelay,
  rSince>>
memberVars == <<mNow, mPeers, mShown, mTold>>
presenceVars == <<fClock, fEntries, fPresent, fSingle, fShown, fBeat, fAsked>>
timeVars == <<eEvents, eOps, eLog>>
chartVars == <<cConfig, cRecorded, cLast, cSeen>>
flowVars == <<wChart, wFired, wSources, wLast, wTold, wFailed, wDelivered>>
stdVars == <<sTimer, sTimeout, sBarrier, sPolls, sGiven>>
proofVars == <<pLog, pFingerprint, pVerdict, pRecorded, pReplayed>>
flatVars == <<hState, hBatch, hWritten, hLinked, hDirty, hRunning, hPrev, hCalls>>
nodeVars == <<nKind, nNodes, nKids, nReaders, nDerived, nDirty, nParents, nOps>>
scopeVars == <<dMode, dEffects, dOwned, dArmed, dCloses, dDisposed, dCleanups, dTaken, dSpared,
  dCalls>>
levelVars == <<kPrior, kTarget, kChanged, kOps, kOrder, kTouched>>
mapVars == <<xThreaded, xOrder, xEntries, xNodes, xVersions, xSignals, xReaders, xCalls, xHolder,
  xPending, xOps, xEnded, xUndone, xLinked, xReading, xCrossed>>
vars == <<subject, queueVars, topicVars, leaseVars, breakerVars, memberVars, presenceVars, timeVars,
  chartVars, flowVars, stdVars, proofVars, flatVars, nodeVars, scopeVars, levelVars, mapVars>>

Init ==
  /\ subject \in {"queue", "topic", "lease", "breaker", "membership", "presence", "time", "chart",
                  "workflow", "stdlib", "replay", "flat", "trees", "scopes", "levels", "maps"}
  /\ Breaker!Init /\ (subject # "breaker" => rBase = 1)
  /\ Trees!Init /\ (subject # "trees" => nKind = "sem")
  /\ Scopes!Init /\ (dEffects = TeardownEffects /\ (subject # "scopes" => dMode = "sync"))
  /\ Levels!Init /\ (subject # "levels" => kPrior = <<>> /\ kTarget = <<>> /\ kChanged = {})
  /\ Maps!Init /\ (subject # "maps" => ~xThreaded /\ DOMAIN xReaders = {})
  /\ Queue!Init /\ Topic!Init /\ Lease!Init /\ Members!Init /\ Present!Init /\ Time!Init
  /\ Harel!Init /\ Flow!Init /\ Std!Init /\ Proof!Init /\ Flat!Init

\* Every machine but the subject stays as it is.
Stays(machine, state) == IF subject = machine THEN TRUE ELSE UNCHANGED state
Next ==
  /\ UNCHANGED subject
  /\ Stays("queue", queueVars)
  /\ Stays("topic", topicVars)
  /\ Stays("lease", leaseVars)
  /\ Stays("breaker", breakerVars)
  /\ Stays("membership", memberVars)
  /\ Stays("presence", presenceVars)
  /\ Stays("time", timeVars)
  /\ Stays("chart", chartVars)
  /\ Stays("workflow", flowVars)
  /\ Stays("stdlib", stdVars)
  /\ Stays("replay", proofVars)
  /\ Stays("flat", flatVars)
  /\ Stays("trees", nodeVars)
  /\ Stays("scopes", scopeVars)
  /\ Stays("levels", levelVars)
  /\ Stays("maps", mapVars)
  /\ \/ subject = "queue" /\ Queue!Next
     \/ subject = "topic" /\ Topic!Next
     \/ subject = "lease" /\ Lease!Next
     \/ subject = "breaker" /\ Breaker!Next
     \/ subject = "membership" /\ Members!Next
     \/ subject = "presence" /\ Present!Next
     \/ subject = "time" /\ Time!Next
     \/ subject = "chart" /\ Harel!Next
     \/ subject = "workflow" /\ Flow!Next
     \/ subject = "stdlib" /\ Std!Next
     \/ subject = "replay" /\ Proof!Next
     \/ subject = "flat" /\ Flat!Next
     \/ subject = "trees" /\ Trees!Next
     \/ subject = "scopes" /\ Scopes!Next
     \/ subject = "levels" /\ Levels!Next
     \/ subject = "maps" /\ Maps!Next

Spec == Init /\ [][Next]_vars

\* The properties of the modules above, stated there. A machine that is
\* not the subject is in its initial state, which its own behaviours start in.
CellSteps ==
  [][(subject = "queue" => Queue!ShowsByKind) /\ (subject = "breaker" => Breaker!NeverShrinks)]_vars
TopicStreams ==
  /\ subject = "topic" => Topic!DurableReplay
  /\ subject = "topic" => Topic!StreamsCoherent
LeaseExclusive == subject = "lease" => Lease!LeaseExclusive
BreakerEvidence == subject = "breaker" => Breaker!BreakerEvidence
PeersWereHeard ==
  /\ subject = "membership" => Members!DeadWasSilent
  /\ subject = "presence" => Present!PresentIsLive
OutputsFollowHistory == subject = "time" => Time!OutputsFollowHistory
ChartsFaithful ==
  /\ subject = "chart" => Harel!ChartFaithful
  /\ subject = "flat" => Flat!HandlersFollow
WorkflowFaithful ==
  /\ subject = "workflow" => Flow!WorkflowFaithful
  /\ subject = "stdlib" => Std!AnswersLatch
ReplayCatches == subject = "replay" => Proof!ReplayCatches
TreesFold == subject = "trees" => Trees!TreesFold
TornDownInReverse == subject = "scopes" => Scopes!TornDownInReverse
MapsStayWhole == (subject = "levels" => Levels!Reconciles) /\ (subject = "maps" => Maps!MapsStayWhole)
==============================================================================
