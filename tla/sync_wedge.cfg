SPECIFICATION FairSpec
CONSTANTS
  Peer = {s, r}  Writer = {s}  Enqueued = {"delta"}
  MaxEpoch = 2  MaxSpan = 1  
  Faults = {"break", "restart"}  MaxFaults = 2
PROPERTIES
  Delivers
