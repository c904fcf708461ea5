------------------------------ MODULE MCStreams ------------------------------
(***************************************************************************)
(* The machines that carry values, commands or state from one party to     *)
(* another, and the replicated data types, each checked by itself: subject *)
(* is the one a behaviour is about, the others stay as they were built.    *)
(***************************************************************************)
EXTENDS Integers, Sequences

CONSTANTS j, k, m, None

\* The parameters of the machines that StreamsProofs and CallsProofs are about; the cfg gives them values.
CONSTANTS
  DurableKeys, DurableEpochs, DurableValues, DurableGenerations,
  MirrorNodes, MirrorPayloads, MirrorPeers, MirrorEpochs, MirrorFrames,
  IngressGenerations, IngressSequences, IngressHorizon, IngressHighWater, IngressReorder,
  IngressTime, IngressErrors,
  ArenaCapacity, ArenaHeader, ArenaValues, ArenaLengths, ArenaThreshold,
  ArenaGenerations, ArenaBlobs, ArenaEpochs,
  CommandIds, CommandGenerations, CommandOwn, CommandFrames, CommandRepeats, CommandReconnects,
  ReceiptIds, ReceiptGenerations, ReceiptOutcomes, ReceiptTerminal, ReceiptFrames,
  ClientIncarnations, ClientPositions, ClientFingerprints, ClientMessages, ClientWindow
DurableAssumption == DurableEpochs \subseteq Nat
ASSUME DurableAssumption

\* What the mirror holds of a node and a peer of the graph; None is neither.
MirrorEntries == [payload : MirrorPayloads \cup {None}, published : Int]
MirrorViews == UNION {[S -> MirrorPayloads \cup {None}] : S \in SUBSET MirrorNodes}
MirrorCopies == [epoch : Int, nodes : MirrorViews]
MirrorAssumption == None \notin MirrorPayloads \cup MirrorEntries \cup MirrorCopies
ASSUME MirrorAssumption

IngressAssumption == IngressGenerations \subseteq Nat /\ IngressSequences \subseteq Int
ASSUME IngressAssumption

ReceiptAssumption == None \notin ReceiptTerminal
ASSUME ReceiptAssumption

\* An event carries a positive incarnation and position, and the core's window is never empty.
ClientAssumption ==
  ClientIncarnations \subseteq Nat \ {0} /\ ClientPositions \subseteq Nat \ {0} /\ ClientWindow \in Nat \ {0}
ASSUME ClientAssumption

\* A region has room for a header and a byte (_SHM_BLOB_MIN_CAPACITY); None is no
\* descriptor and no byte of a header.
ArenaDescriptors == [offset : Nat, len : ArenaLengths, generation : Nat, epoch : Nat, checksum : ArenaValues]
ArenaAssumption ==
  /\ ArenaHeader \in Nat \ {0} /\ ArenaCapacity \in Nat /\ ArenaCapacity > ArenaHeader
  /\ ArenaLengths \subseteq Nat
  /\ None \notin ArenaDescriptors \cup [part : {"header"}, of : ArenaDescriptors, at : Nat]
ASSUME ArenaAssumption

VARIABLES subject,
  yOverflow, yHeads, yPendings, yTokens, yWire, yInHead, yCredits, yMode, yPages, yOpenFill,
  yNextId, yAcked, yHanded, yDownstream, ySent,
  iOverflow, iScope, iNow, iChange, iTaken,
  cClient, cServer, cToServer, cToClient, cSubmitted, cIssued, cRepeats, cReconnects,
  fContent, fCurrent, fFrames, fProjection,
  dThreads, dGeneration, dEntries, dShown, dReading, dAttempts, dApplied, dAccepted,
  hScope, hIdentities, hLatest, hApplied, hMessages, hReceipts,
  vEntries, vEpoch, vSets, vStale, vAllowed, vFrames, vCopies, vFlushed, vMissed,
  bShared, bRegion, bOffset, bGeneration, bEpochs, bWriting, bMinted,
  gReplica, gHeard, gPast, gSent,
  pPlane, pHeard, pPassed, pFrames,
  qReplica, qHeard, qSent, qOps,
  xReplica, xHeard, xSent, xOps,
  lReplica, lGot, lSent

Peers == {1, 2}
\* Each replica names one key or element; both use it once they have heard of it.
Named == [x \in Peers |-> IF x = 1 THEN {j} ELSE {k}]

R == INSTANCE Relay WITH
  Key <- {j, k}, HighWater <- 1, FrameSize <- 2, MaxCredits <- 1, Capacity <- 1, PageSize <- 2,
  MaxOps <- 2, MaxRepeated <- 2, Modes <- {"AppendCompact", "CompactOnWrite"},
  overflow <- yOverflow, heads <- yHeads, pendings <- yPendings, tokens <- yTokens, wire <- yWire,
  inHead <- yInHead, credits <- yCredits, mode <- yMode, pages <- yPages, openFill <- yOpenFill,
  nextId <- yNextId, acked <- yAcked, handed <- yHanded, downstream <- yDownstream, sent <- ySent
I == INSTANCE Ingress WITH
  Generation <- IngressGenerations, Sequence <- IngressSequences, Horizon <- IngressHorizon,
  HighWater <- IngressHighWater, ReorderWindow <- IngressReorder,
  RetryBase <- 1, RetryCeiling <- 2, MaxTime <- IngressTime, MaxErrors <- IngressErrors,
  overflow <- iOverflow, scope <- iScope, now <- iNow, change <- iChange, taken <- iTaken
C == INSTANCE Command WITH
  Id <- CommandIds, Generation <- CommandGenerations, Own <- CommandOwn, MaxFrames <- CommandFrames,
  MaxRepeats <- CommandRepeats, MaxReconnects <- CommandReconnects,
  client <- cClient, server <- cServer, toServer <- cToServer, toClient <- cToClient,
  submitted <- cSubmitted, issued <- cIssued, repeats <- cRepeats, reconnects <- cReconnects
F == INSTANCE Receipts WITH
  Receipt <- ReceiptIds, Generation <- ReceiptGenerations, Outcome <- ReceiptOutcomes,
  Terminal <- ReceiptTerminal, MaxFrames <- ReceiptFrames,
  content <- fContent, current <- fCurrent, frames <- fFrames, projection <- fProjection
D == INSTANCE LatestDurable WITH
  Key <- DurableKeys, Epoch <- DurableEpochs, Value <- DurableValues,
  Generations <- DurableGenerations, Shells <- BOOLEAN,
  threads <- dThreads, generation <- dGeneration, entries <- dEntries, shown <- dShown,
  reading <- dReading, attempts <- dAttempts, applied <- dApplied, accepted <- dAccepted
H == INSTANCE DurableClient WITH
  Incarnation <- ClientIncarnations, Position <- ClientPositions, Fingerprint <- ClientFingerprints,
  Message <- ClientMessages, Window <- ClientWindow,
  scope <- hScope, identities <- hIdentities, latest <- hLatest, applied <- hApplied,
  messages <- hMessages, receipts <- hReceipts
V == INSTANCE Mirror WITH
  Node <- MirrorNodes, Payload <- MirrorPayloads, Peer <- MirrorPeers,
  MaxEpoch <- MirrorEpochs, MaxFrames <- MirrorFrames,
  entries <- vEntries, epoch <- vEpoch, sets <- vSets, stale <- vStale, allowed <- vAllowed,
  frames <- vFrames, copies <- vCopies, flushed <- vFlushed, missed <- vMissed
B == INSTANCE BlobArena WITH
  Capacity <- ArenaCapacity, HeaderLen <- ArenaHeader, Value <- ArenaValues, Length <- ArenaLengths,
  Threshold <- ArenaThreshold, MaxGeneration <- ArenaGenerations, MaxBlobs <- ArenaBlobs, MaxEpoch <- ArenaEpochs,
  shared <- bShared, region <- bRegion, offset <- bOffset, generation <- bGeneration,
  epochs <- bEpochs, writing <- bWriting, minted <- bMinted
G == INSTANCE CrdtRegisters WITH
  Peer <- Peers, Wall <- 0..2, MaxWrites <- 4, MaxSent <- 2,
  replica <- gReplica, heard <- gHeard, past <- gPast, sent <- gSent
P == INSTANCE Plane WITH
  Peer <- Peers, Key <- {j, k}, Mints <- Named, Wall <- {1, 2}, MaxWrites <- 3, MaxFrames <- 2,
  plane <- pPlane, heard <- pHeard, passed <- pPassed, frames <- pFrames
Q == INSTANCE SeqCrdt WITH
  Peer <- Peers, Id <- {j, k}, Names <- Named, Wall <- {1, 2}, MaxOps <- 3, MaxSent <- 1, MaxLogical <- 2,
  replica <- qReplica, heard <- qHeard, sent <- qSent, ops <- qOps
X == INSTANCE TextCrdt WITH
  Peer <- Peers, MaxOps <- 4, MaxSent <- 2,
  replica <- xReplica, heard <- xHeard, sent <- xSent, ops <- xOps
L == INSTANCE LosslessTree WITH
  Peer <- Peers, MaxOps <- 2, MaxSent <- 2, MaxBuffered <- 1, EditsOfSplits <- FALSE,
  replica <- lReplica, got <- lGot, sent <- lSent

relayVars == <<yOverflow, yHeads, yPendings, yTokens, yWire, yInHead, yCredits, yMode, yPages,
  yOpenFill, yNextId, yAcked, yHanded, yDownstream, ySent>>
ingressVars == <<iOverflow, iScope, iNow, iChange, iTaken>>
commandVars == <<cClient, cServer, cToServer, cToClient, cSubmitted, cIssued, cRepeats,
  cReconnects>>
receiptVars == <<fContent, fCurrent, fFrames, fProjection>>
durableVars == <<dThreads, dGeneration, dEntries, dShown, dReading, dAttempts, dApplied, dAccepted>>
clientVars == <<hScope, hIdentities, hLatest, hApplied, hMessages, hReceipts>>
mirrorVars == <<vEntries, vEpoch, vSets, vStale, vAllowed, vFrames, vCopies, vFlushed, vMissed>>
arenaVars == <<bShared, bRegion, bOffset, bGeneration, bEpochs, bWriting, bMinted>>
registerVars == <<gReplica, gHeard, gPast, gSent>>
planeVars == <<pPlane, pHeard, pPassed, pFrames>>
seqVars == <<qReplica, qHeard, qSent, qOps>>
textVars == <<xReplica, xHeard, xSent, xOps>>
treeVars == <<lReplica, lGot, lSent>>
vars == <<subject, relayVars, ingressVars, commandVars, receiptVars, durableVars, clientVars,
  mirrorVars, arenaVars, registerVars, planeVars, seqVars, textVars, treeVars>>

Init ==
  /\ subject \in {"relay", "ingress", "command", "receipts", "durable", "client", "mirror", "arena",
                  "registers", "plane", "sequence", "text", "tree"}
  /\ R!Init /\ (subject # "relay" => yOverflow = "Block" /\ yMode = "AppendCompact")
  /\ I!Init /\ (subject # "ingress" => iOverflow = "Block")
  /\ F!Init /\ (subject # "receipts" => fCurrent = 1 /\ fContent = [x \in ReceiptIds |-> [generation |-> 1, outcome |-> "applied"]])
  /\ D!Init /\ (subject # "durable" => ~dThreads)
  /\ B!Init /\ (subject # "arena" => bShared)
  /\ C!Init /\ H!Init /\ V!Init /\ G!Init /\ P!Init /\ Q!Init
  /\ X!Init /\ L!Init

\* Every machine but the subject stays as it is.
Stays(machine, state) == IF subject = machine THEN TRUE ELSE UNCHANGED state
Next ==
  /\ UNCHANGED subject
  /\ Stays("relay", relayVars)
  /\ Stays("ingress", ingressVars)
  /\ Stays("command", commandVars)
  /\ Stays("receipts", receiptVars)
  /\ Stays("durable", durableVars)
  /\ Stays("client", clientVars)
  /\ Stays("mirror", mirrorVars)
  /\ Stays("arena", arenaVars)
  /\ Stays("registers", registerVars)
  /\ Stays("plane", planeVars)
  /\ Stays("sequence", seqVars)
  /\ Stays("text", textVars)
  /\ Stays("tree", treeVars)
  /\ \/ subject = "relay" /\ R!Next
     \/ subject = "ingress" /\ I!Next
     \/ subject = "command" /\ C!Next
     \/ subject = "receipts" /\ F!Next
     \/ subject = "durable" /\ D!Next
     \/ subject = "client" /\ H!Next
     \/ subject = "mirror" /\ V!Next
     \/ subject = "arena" /\ B!Next
     \/ subject = "registers" /\ G!Next
     \/ subject = "plane" /\ P!Next
     \/ subject = "sequence" /\ Q!Next
     \/ subject = "text" /\ X!Next
     \/ subject = "tree" /\ L!Next

Spec == Init /\ [][Next]_vars

\* The properties of the modules above, stated there. A machine that is
\* not the subject is in its initial state, which its own behaviours start in.
KeptInOrder == subject = "relay" => R!KeptInOrder
DeliveredInOrder == subject = "ingress" => I!DeliveredInOrder
CallsResolveAsDecided ==
  /\ subject = "command" => C!CallsResolveAsDecided
  /\ subject = "receipts" => F!ReceiptsAgree
DurableIsStored == subject = "durable" => D!DurableIsStored
MirrorFollows == subject = "mirror" => V!MirrorFollows
BlobsIntact == subject = "arena" => B!BlobsIntact
ChangesTold ==
  [][(subject = "ingress" => I!TellsReaders) /\ (subject = "client" => H!KeepsHistory)]_vars

(***************************************************************************)
(* Every replicated type is a function of what its replica has taken in:   *)
(* the properties of the five modules, stated there.                       *)
(***************************************************************************)
Converges ==
  /\ subject = "registers" => G!RegistersConverge
  /\ subject = "plane" => P!PlaneConverges
  /\ subject = "plane" => P!FamiliesConverge
  /\ subject = "sequence" => Q!SeqConverges
  /\ subject = "text" => X!TextConverges
  /\ subject = "tree" => L!TreeConverges
==============================================================================
