SPECIFICATION FairSpec
CONSTANTS
  Peer = {s, r}  Writer = {s}  Enqueued = {"delta"}
  MaxEpoch = 2  MaxSpan = 2  
  Faults = {"break", "drop", "raise", "restart"}  MaxFaults = 2
INVARIANTS
  StreamIntact
PROPERTIES
  CursorAdvances
  DeliversOrWaits
