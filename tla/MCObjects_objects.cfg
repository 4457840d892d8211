\* One name, a local and an argument; five objects between statements; a method that the
\* outermost code calls.
SPECIFICATION Spec
CONSTANTS
  NameList <- OneName
  Null = Null
  MaxObjects = 5
  MaxFrames = 2
  AmlMay = {}
INVARIANTS HeapSound StoresExact
CHECK_DEADLOCK FALSE
