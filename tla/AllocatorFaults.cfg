SPECIFICATION Spec
CONSTANTS
  Client <- MCClient
  Port = {1, 2}
  FreshPorts = TRUE
  MemSize = 5
  FirstBlock = 2
  Tries = 2
  MaxTimeouts = 2
  Sizes = {2}
  Active = {2}
  MaxAllocs = 2
INVARIANTS IInv Disjoint CounterAhead BlockIntact NoLeak
PROPERTY CounterGrows
CHECK_DEADLOCK FALSE
