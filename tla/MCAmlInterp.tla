---------------------------- MODULE MCAmlInterp ----------------------------
(* Small instances of AmlInterp for TLC.                                   *)
EXTENDS AmlInterp

\* Control statements, devices, calls and loads inside of each other, and errors outside
\* of Scope and Device blocks.
Control ==
  [bases |-> {"method", "table"},
   statements |-> {"If", "While", "Return", "Break", "Continue", "Call", "Load", "Device"},
   arguments |-> {"Object", "Call"},
   frames |-> 4, blocks |-> 1, body |-> 2, may |-> {"error"}]

\* Every opcode as a statement, and as operands what takes its own operands in the
\* different ways there are: names, calls, packages, mixed types.  Break and Continue
\* need a loop and have no operands.
EveryOpcode ==
  [bases |-> {"method"},
   statements |-> Handlers \ {"TermArg", "Break", "Continue"},
   arguments |-> {"Object", "Call", "VarPackage", "Match"},
   frames |-> 2, blocks |-> 2, body |-> 1, may |-> {"error", "leaveScope", "literals"}]

\* Calls and loads on top of each other, past the limit.
Deep ==
  [bases |-> {"method"},
   statements |-> {"Call", "Load", "Return"}, arguments |-> {"Call"},
   frames |-> 5, blocks |-> 1, body |-> 1, may |-> {"error", "loadAtLimit"}]

ThreePrograms == {Control, EveryOpcode, Deep}
=============================================================================
