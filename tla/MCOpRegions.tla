----------------------------- MODULE MCOpRegions -----------------------------
\* Small instances of OpRegions: two embedded-controller regions and a PCI one
\* of tables, one that a method makes and one in memory; dev2's _REG fails.
EXTENDS OpRegions, TLC

CONSTANTS ec1, ec2, pci1, inMethod, inMemory, ecHandler, pciHandler, ecHandler2,
          dev1, dev2, EC, PCI

MCSpaceOf ==
  [x \in Regions \cup Handlers |->
     CASE x \in {ec1, ec2, inMethod, ecHandler, ecHandler2} -> EC
       [] x \in {pci1, pciHandler} -> PCI
       [] OTHER -> Memory]
MCDevice == [r \in Regions |-> IF r = ec2 THEN dev2 ELSE dev1]

ThreadSymmetry == Permutations(Threads)
=============================================================================
