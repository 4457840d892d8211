\* Four entries for two nodes, calls three deep.
CONSTANTS
  Nodes = {n1, n2}
  Entries = {e1, e2, e3, e4}
  Null = Null
  MaxCalls = 3
SPECIFICATION Spec
SYMMETRY EntrySymmetry
INVARIANT ListSound
PROPERTY LatestCalled
CHECK_DEADLOCK FALSE
