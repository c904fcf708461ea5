SPECIFICATION Spec
CONSTANTS
  x = x  y = y  a = a  b = b  m = m  k = k  h = h  g = g  e = e  f = f
  Val = {0, 1}  None = None  Done = Done
  Memo <- Memos  Result <- Parity  Propagates <- AnyChange
  Source = {x, y}
  Slot = {m, k}
  Computed = {h, g}
  Effect = {}
  NextRead <- CopyNext  Target <- NoTarget
  MayRaise = {}
  Disposable = {}
  CanEager = {h, g}
  CanLazy = {}
  MaxReads = 2
  MaxDepth = 1
  MaxLeft = 1
INVARIANTS
  BatchRunsEffects
