SPECIFICATION Spec
CONSTANTS
  c1 = c1
  c2 = c2
  root = root
  d = d
  f = f
  g = g
  Client = {c1, c2}
  Active = {c2}
  Path = {root, d, f, g}
  Root = root
  Parent <- MCParent
  Jobs <- MixedJobs
  MaxJobs = 2
  MaxUnits = 8
INVARIANTS TypeOK LiveIsListed UniqueNames ListingTrue
