SPECIFICATION FairSpec
CONSTANTS
  x = x  y = y  a = a  b = b  m = m  k = k  h = h  g = g  e = e  f = f
  Val = {0, 1}  None = None  Done = Done
  Memo <- Memos  Result <- Parity  Propagates <- AnyChange
  Source = {x, y}
  Slot = {m, k, a}
  Computed = {h, g}
  Effect = {e, f}
  NextRead <- CopyNext  Target <- CopyTarget
  MayRaise = {}
  Disposable = {}
  CanEager = {h, g}
  CanLazy = {}
  MaxReads = 2
  MaxDepth = 0
  MaxLeft = 1
INVARIANTS
  NodesFresh
PROPERTIES
  CallsReturn
