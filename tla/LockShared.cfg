SPECIFICATION Spec
CONSTANTS
  c1 = c1
  c2 = c2
  c3 = c3
  Client = {c1, c2, c3}
  Locks = 2
  MemSize = 10
  MaxCalls = 1
INVARIANTS TypeOK OneHolder
CHECK_DEADLOCK FALSE
