\* One block of GPEs with two registers of two: GPE 3 has a method and, like the edge
\* triggered GPE 2, a handler of the host; one fixed event; two workers.
CONSTANTS
  NativeGpes = {2, 3}
  AmlMethods <- L03
  EdgeGpes = {2}
  FixedEvents = {button}
  RegBits = 2
  BlockRegs <- OneBlock
  Gpe1Base = 4
  Workers = {w1, w2}
  HostMay = {}
  MaxRaises = 2
  MaxQueue = 1
  MaxChanges = 2
SPECIFICATION FairSpec
INVARIANTS WorkSound EventsKept EdgeOnce
PROPERTIES Served Quietens
CHECK_DEADLOCK FALSE
