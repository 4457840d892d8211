\* Every layout in four bytes of two bits that the code gets right; a word has two bytes.
CONSTANTS
  ByteBits = 2
  WordBytes = 2
  RegionBytes = 4
  AccessSizes = {1, 2}
  Banks = {b1, b2}
  Contents <- MCContents
  Values <- MCValues
  AmlMay = {}
SPECIFICATION Spec
INVARIANTS FieldExact AccessedOnce
PROPERTY Ends
CHECK_DEADLOCK FALSE
