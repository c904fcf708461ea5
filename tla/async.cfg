SPECIFICATION FairSpec
CONSTANTS
  x = x  A = A  B = B  e = e  k = k
  t1 = t1  t2 = t2  t3 = t3  t4 = t4
  Source = {x}  Slot = {A, B}  Effect = {e}  Client = {k}
  Task = {t1, t2, t3, t4}
  Val = {0, 1}  None = None
  Reads <- Chain
  MayRaise = {B}  Clearable = {A}  Disposable = {x, B, e}  Closable = TRUE
  MaxChanges = 2
CHECK_DEADLOCK FALSE
INVARIANTS
  ValuesFresh
  ReleasedOnce
  TeardownIsFinal
PROPERTIES
  CallsReturn
