SPECIFICATION Spec
CONSTANTS
  x = x  y = y  a = a  b = b  m = m  k = k  h = h  g = g  e = e  f = f
  Val = {0, 1}  None = None  Done = Done
  Memo <- Memos  Result <- Parity  Propagates <- AnyChange
  Source = {x, y}
  Slot = {m, a, b}
  Computed = {h}
  Effect = {}
  NextRead <- HandleNext  Target <- NoTarget
  MayRaise = {}
  Disposable = {y, a}
  CanEager = {h}
  CanLazy = {h}
  MaxReads = 2
  MaxDepth = 1
  MaxLeft = 1
INVARIANTS
  TypeOK
  PullerSubscribed
  DisposalDirties
