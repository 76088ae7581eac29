SPECIFICATION UDPSpec
CONSTANTS
  k1 = k1
  k2 = k2
  c1 = c1
  c2 = c2
  Key = {k1, k2}
  Hash <- MCHash
  KeyLen <- MCKeyLen
  KeyWords <- MCKeyWords
  N = 1
  MemSize = 10
  Client = {c1, c2}
  Active = {}
  Attached = {c1, c2}
  AlwaysInit = {}
  Jobs <- FaultJobs
  MaxJobs = 1
  p1 = p1
  p2 = p2
  Port = {p1, p2}
  FreshPorts = TRUE
  Tries = 2
  MaxTimeouts = 2
SYMMETRY Symmetry
INVARIANT FoundWasPut
CHECK_DEADLOCK FALSE
