SPECIFICATION Spec
CONSTANTS
  Peer = {s, r}  Writer = {s}  Enqueued = {"delta"}
  MaxEpoch = 2  MaxSpan = 1  
  Faults = {"break", "raise"}  MaxFaults = 2
INVARIANTS
  AppliedIsFolded
