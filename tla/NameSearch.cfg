SPECIFICATION SearchSpec
CONSTANTS
  s1 = s1
  low = low
  zero = zero
  odd = odd
  last = last
  other = other
  Searcher = {s1}
  Name = {low, zero, odd, last, other}
  Bin <- MCBin
  Size <- MCSize
  Matching = {low, zero, odd, last}
  EmptyMatches = TRUE
  TableSize = 3
  MaxRet = 3
  MaxRecs = 4
INVARIANTS ListedOnce ListedAll
PROPERTIES SearchEnds
CHECK_DEADLOCK FALSE
