SPECIFICATION Spec
CONSTANTS
  c1 = c1
  c2 = c2
  root = root
  d = d
  f = f
  g = g
  Client = {c1, c2}
  Active = {c1, c2}
  Path = {root, d, f, g}
  Root = root
  Parent <- MCParent
  Jobs <- ActiveJobs
  MaxJobs = 3
  MaxUnits = 12
INVARIANT ActiveNeverRaces
PROPERTIES WriteStored IsTree
