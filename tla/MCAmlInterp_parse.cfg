\* Three kinds of AML: few opcodes in deep programs, every opcode in shallow ones, and
\* calls and loads beyond the recursion limit.
SPECIFICATION FairSpec
CONSTANTS
  Programs <- ThreePrograms
  MaxDepth = 2
  MaxArgs = 1
INVARIANTS OperandsSound StacksAgree CallsBounded
PROPERTIES CallersOperandsKept Returns
CHECK_DEADLOCK FALSE
