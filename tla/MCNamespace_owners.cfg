\* Plain names; three nodes, three frames.
CONSTANTS
  A = A
  B = B
  Names = {A, B}
  Root = Root
  Null = Null
  Ids = {n1, n2, n3}
  Paths <- PlainNames
  MaxFrames = 3
SPECIFICATION Spec
SYMMETRY NodeSymmetry
INVARIANTS TreeSound SearchNearest
PROPERTY FailureDeletes
CHECK_DEADLOCK FALSE
