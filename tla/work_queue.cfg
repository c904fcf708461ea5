SPECIFICATION Spec
CONSTANTS
  Worker = {u, v}
  VisibilityTimeout = 1  MaxDeliveries = 2
  MaxItems = 2  MaxNow = 2
  None = None
CHECK_DEADLOCK FALSE
INVARIANTS
  Conserved
PROPERTIES
  KeepsPromise
  AnswersOwnDelivery
  ReadersExact
