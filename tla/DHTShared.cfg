SPECIFICATION LiveSpec
CONSTANTS
  k1 = k1
  k2 = k2
  k3 = k3
  c1 = c1
  c2 = c2
  c3 = c3
  Key = {k1, k2, k3}
  Hash <- MCHash
  KeyLen <- MCKeyLen
  KeyWords <- MCKeyWords
  N = 2
  MemSize = 12
  Client = {c1, c2, c3}
  Active = {c3}
  Attached = {}
  AlwaysInit = {c1}
  AttachAlone = TRUE
  Jobs <- AllJobs
  MaxJobs = 1
INVARIANTS TypeOK ChainOK RecordsApart
PROPERTIES IsMap CallsReturn
