SPECIFICATION LiveSpec
CONSTANTS
  c1 = c1
  c2 = c2
  remote = remote
  active = active
  Client = {c1, c2}
  Lists = {remote, active}
  ActiveLists = {active}
  Jobs <- MCJobs
  MaxJobs = 3
  MaxDeaths = 1
  MemSize = 8
INVARIANT ListOK
PROPERTIES IsList CallsReturn
CHECK_DEADLOCK FALSE
