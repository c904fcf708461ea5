SPECIFICATION Spec
CONSTANTS
  a = a  b = b  c = c  d = d
  u = u  v = v
  Val = {0, 1}  None = None
  LeasePeers = {a, b, c}  LeaseTtl = {1, 2}  LeaseTime = 4  LeaseFences = 4
  Subscribers = {u, v}  MaxValues = 3
  BreakerCallers = {a, b, c}  BreakerCapacity = 2  BreakerWindow = 3  BreakerThreshold = 2
  BreakerReset = 2  BreakerTimeout = 1
  TeardownNodes = {a, b, c}  TeardownEffects = {a, b}  TeardownScopes = {u, v}  TeardownCloses = 2
  MemberPeers = {a, b}  MemberSamples = 2  MemberTimeout = 1  MemberYSquare = 28  MemberStdScale = 10
  MemberTime = 5
  PresencePeers = {a, b}  PresenceValues = {1, 2}  PresenceTtl = 2  PresenceTime = 5
  FlowLifecycle <- Lifecycle  FlowUndeclared = {"lost"}  FlowDeadline <- Deadlines
  FlowStart = "queued"  FlowTimers <- Alarm  FlowChart = "chart"  FlowTime = 3  FlowObservations = 3
  ReplayLabels = {"x", "y"}  ReplayObservations <- Sights  ReplayStrides = {1, 2}  ReplayMaxSeq = 2
  StdTasks = {a, b}  StdStart = 1  StdDuration = 1  StdRequired = 2  StdMaxU64 = 7
  StdTime = 2  StdRevision = 2
CHECK_DEADLOCK FALSE
SYMMETRY Interchangeable
INVARIANTS
  TopicStreams
  LeaseExclusive
  BreakerEvidence
  PeersWereHeard
  OutputsFollowHistory
  ChartsFaithful
  WorkflowFaithful
  ReplayCatches
  TreesFold
  TornDownInReverse
  MapsStayWhole
PROPERTIES
  CellSteps
