SPECIFICATION Spec
CONSTANTS
  x = x  y = y  a = a  b = b  m = m  k = k  h = h  g = g  e = e  f = f
  Val = {0, 1}  None = None  Done = Done
  Memo <- Memos  Result <- Parity  Propagates <- AnyChange
  Source = {x, y}
  Slot = {a, b}
  Computed = {}
  Effect = {e}
  NextRead <- LazyNext  Target <- NoTarget
  MayRaise = {e}
  Disposable = {e}
  CanEager = {}
  CanLazy = {}
  MaxReads = 2
  MaxDepth = 2
  MaxLeft = 1
INVARIANTS
  CacheCoherent
  NodesFresh
  FlushReadsFinal
PROPERTIES
  EffectsDetached
