SPECIFICATION LiveSpec
CONSTANTS
  c1 = c1
  c2 = c2
  c3 = c3
  Client = {c1}
  Locks = 2
  MemSize = 10
  MaxCalls = 1
PROPERTY ReleaseReturns
CHECK_DEADLOCK FALSE
