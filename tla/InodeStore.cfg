SPECIFICATION Spec
CONSTANTS
  c1 = c1
  c2 = c2
  c3 = c3
  a = a
  Client = {c1, c2, c3}
  Active = {c2}
  Name = {a}
  InitLen = 15
  Jobs <- MCJobs
  MaxJobs <- MCMaxJobs
  Page = 3
  Req = 2
  Chunk = 3
  MemSize = 21
INVARIANTS PagesApart StoredStays GetWasPut
PROPERTIES ActiveKeeps
