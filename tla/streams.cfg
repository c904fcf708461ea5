SPECIFICATION Spec
CONSTANTS
  j = j  k = k  m = m
  None = None
  DurableKeys = {j}  DurableEpochs = {0, 1, 2}  DurableValues = {j}  DurableGenerations = {0, 1}
  MirrorNodes = {j}  MirrorPayloads = {1, 2}  MirrorPeers = {k}  MirrorEpochs = 3  MirrorFrames = 2
  IngressGenerations = {0, 1}  IngressSequences = {0, 1, 2, 3}  IngressHorizon = 0
  IngressHighWater = 2  IngressReorder = 2  IngressTime = 1  IngressErrors = 1
  ArenaCapacity = 8  ArenaHeader = 2  ArenaValues = {1, 2}  ArenaLengths = {0, 1, 3, 7}  ArenaThreshold = 1
  ArenaGenerations = 4  ArenaBlobs = 4  ArenaEpochs = 1
  CommandIds = {j}  CommandGenerations = {1, 2}  CommandOwn = {1}
  CommandFrames = 2  CommandRepeats = 1  CommandReconnects = 1
  ReceiptIds = {j, k, m}  ReceiptGenerations = {1, 2}  ReceiptOutcomes = {"accepted", "applied", "rejected"}
  ReceiptTerminal = {"applied", "rejected"}  ReceiptFrames = 4
  ClientIncarnations = {1, 2}  ClientPositions = {1, 2, 3}  ClientFingerprints = {j, k}
  ClientMessages = {j}  ClientWindow = 2
CHECK_DEADLOCK FALSE
INVARIANTS
  KeptInOrder
  DeliveredInOrder
  CallsResolveAsDecided
  DurableIsStored
  MirrorFollows
  BlobsIntact
  Converges
PROPERTIES
  ChangesTold
