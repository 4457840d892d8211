\* Two embedded-controller regions, the _REG of one of which fails, and one in memory
\* that belongs to a method.
CONSTANTS
  ec1 = ec1
  ec2 = ec2
  pci1 = pci1
  inMethod = inMethod
  inMemory = inMemory
  ecHandler = ecHandler
  ecHandler2 = ecHandler2
  pciHandler = pciHandler
  dev1 = dev1
  dev2 = dev2
  EC = EC
  PCI = PCI
  Null = Null
  Memory = Memory
  Spaces = {EC, PCI}
  SpaceOf <- MCSpaceOf
  Device <- MCDevice
  Devices = {dev1, dev2}
  BrokenReg = {dev2}
  Handlers = {ecHandler}
  InMethod = {inMemory}
  HostMay = {}
  Threads = {t1, t2}
  Regions = {ec1, ec2, inMemory}
  Copied = {inMemory}
  MaxClones = 2
SPECIFICATION Spec
INVARIANTS Connected AttachFirst MappingsSound
PROPERTY WalksEnd
CHECK_DEADLOCK FALSE
