\* An XSDT with a FACP, two SSDTs and another table; two buffers of AML.
CONSTANTS
  Root <- XsdtWords
  Wide = TRUE
  SigAt <- MCSigAt
  DsdtAt <- MCDsdtAt
  Beyond = 0
  Buffers = {b1, b2}
  MaxDepth = 3
  MaxFinds = 5
  AnySig = AnySig
  HostMay = {}
SPECIFICATION Spec
SYMMETRY BufferSymmetry
INVARIANTS ReferencesSound LoadedOnce
CHECK_DEADLOCK FALSE
