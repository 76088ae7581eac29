SPECIFICATION LiveSpec
CONSTANTS
  c1 = c1
  c2 = c2
  Client = {c1, c2}
  Port = {1, 2}
  FreshPorts = TRUE
  MemSize = 2
  Tries = 2
  MaxTimeouts = 3
  MaxCalls <- Calls
  Ops <- FewOps
INVARIANT TypeOK
PROPERTIES AnswerIsOfThisCall ExchangeEnds AtomicSpec
CHECK_DEADLOCK FALSE
