\* The four walks; two nodes beside the root and \_SB, loaded before or during the walk.
CONSTANTS
  Root = Root
  Sb = Sb
  Ids = {n1, n2}
  Null = Null
  Walks = {"init", "eisa", "string", "iterate"}
  MayHaveSta = {}
  MaxElements = 2
SPECIFICATION Spec
INVARIANTS Initialised Discovered
PROPERTY WalkEnds
CHECK_DEADLOCK FALSE
