SPECIFICATION Spec
CONSTANTS
  x = x  A = A  B = B  e = e  k = k
  t1 = t1  t2 = t2  t3 = t3  t4 = t4
  Source = {x}  Slot = {A, B}  Effect = {}  Client = {k}
  Task = {t1, t2, t3, t4}
  Val = {0, 1}  None = None
  Reads <- Pipe
  MayRaise = {}  Clearable = {B}  Disposable = {}  Closable = FALSE
  MaxChanges = 2
CHECK_DEADLOCK FALSE
INVARIANTS
  ResolvedIsFresh
