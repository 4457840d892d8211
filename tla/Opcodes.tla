------------------------------ MODULE Opcodes ------------------------------
(***************************************************************************)
(* The opcode table and the operand discipline of the handlers.            *)
(*                                                                         *)
(* ops.cpp gives each opcode a script of operands, which parse() collects  *)
(* on the object stack, and a handler, which takes them off with           *)
(* get_unsafe, that is without looking at their types.  Opcodes with the   *)
(* same script and handler are one element of Handlers here.               *)
(***************************************************************************)
EXTENDS Naturals, Sequences

\* The types on the object stack.  A handler's operands are written bottom first.
ObjectKinds == {"len", "str", "obj", "args", "fields"}

Constants == {"Constant", "String", "Debug", "Revision", "Timer", "Arg", "Local"}
Arithmetic == {"Add", "Subtract", "Multiply", "Shl", "Shr", "And", "Nand", "Or", "Nor",
               "Xor", "Mod"}
Comparisons == {"LAnd", "LOr", "LEqual", "LGreater", "LLess"}
Conversions == {"ToBuffer", "ToDecimalString", "ToHexString", "ToInteger", "FromBcd", "ToBcd",
                "Not", "FindSetLeftBit", "FindSetRightBit"}
CreateFields == {"CreateBitField", "CreateByteField", "CreateWordField", "CreateDWordField",
                 "CreateQWordField"}

Expressions ==
  Constants \cup Arithmetic \cup Comparisons \cup Conversions \cup
  {"Store", "CopyObject", "Concat", "ConcatRes", "Index", "Divide", "Increment", "Decrement",
   "RefOf", "DerefOf", "CondRefOf", "LNot", "SizeOf", "ObjectType", "Match",
   "Buffer", "Package", "VarPackage", "Acquire", "Wait", "Load", "LoadTable"}
Scopes == {"Scope", "Device", "ThermalZone", "PowerRes", "Processor"}
NamedObjects ==
  CreateFields \cup Scopes \cup
  {"Name", "Alias", "Method", "External", "Mutex", "Event", "CreateField", "OpRegion",
   "DataRegion", "Field", "IndexField", "BankField"}
Statements ==
  {"If", "Else", "While", "Return", "Break", "Continue", "Noop", "BreakPoint", "Notify",
   "Stall", "Sleep", "Signal", "Reset", "Release", "Fatal"}

\* CALL_BLOCK and TERM_ARG_BLOCK are no opcodes: handle_name and the field lists use them.
Internal == {"Call", "TermArg"}
Handlers == Expressions \cup NamedObjects \cup Statements \cup Internal

-----------------------------------------------------------------------------
(* The scripts, without the CallHandler that ends each                     *)

T == <<"TermArg">>
S == <<"SuperName">>
N == <<"NameString">>
P == <<"PkgLength">>

ExpressionScript(h) ==
  CASE h \in Constants -> <<>>
    [] h \in Arithmetic \cup {"Concat", "ConcatRes", "Index"} -> T \o T \o S
    [] h \in Comparisons -> T \o T
    [] h \in Conversions \cup {"Store", "CopyObject"} -> T \o S
    [] h = "Divide" -> T \o T \o S \o S
    [] h \in {"Increment", "Decrement", "RefOf", "SizeOf", "ObjectType"} -> S
    [] h \in {"DerefOf", "LNot"} -> T
    [] h = "CondRefOf" -> <<"SuperNameUnresolved">> \o S
    [] h = "Match" -> T \o <<"Byte">> \o T \o <<"Byte">> \o T \o T
    [] h = "Buffer" -> P \o T
    [] h = "Package" -> P \o <<"Byte", "PkgElements">>
    [] h = "VarPackage" -> P \o T \o <<"VarPkgElements">>
    [] h = "Acquire" -> S \o <<"Word">>
    [] h = "Wait" -> S \o T
    [] h = "Load" -> N \o S
    [] h = "LoadTable" -> T \o T \o T \o T \o T \o T

NamedScript(h) ==
  CASE h \in CreateFields -> T \o T \o N
    [] h = "CreateField" -> T \o T \o T \o N
    [] h \in {"Scope", "Device", "ThermalZone"} -> P \o N
    [] h = "PowerRes" -> P \o N \o <<"Byte", "Word">>
    [] h = "Processor" -> P \o N \o <<"Byte", "DWord", "Byte">>
    [] h = "Name" -> N \o T
    [] h = "Alias" -> N \o N
    [] h = "Method" -> P \o N \o <<"Byte">>
    [] h = "External" -> N \o <<"Byte", "Byte">>
    [] h = "Mutex" -> N \o <<"Byte">>
    [] h = "Event" -> N
    [] h = "OpRegion" -> N \o <<"Byte">> \o T \o T
    [] h = "DataRegion" -> N \o T \o T \o T
    [] h = "Field" -> P \o N \o <<"Byte", "StartFieldList", "FieldList">>
    [] h = "IndexField" -> P \o N \o N \o <<"Byte", "StartFieldList", "FieldList">>
    [] h = "BankField" -> P \o N \o N \o T \o <<"Byte", "StartFieldList", "FieldList">>

StatementScript(h) ==
  CASE h \in {"If", "While"} -> P \o T
    [] h = "Else" -> P
    [] h \in {"Return", "Stall", "Sleep"} -> T
    [] h \in {"Break", "Continue", "Noop", "BreakPoint"} -> <<>>
    [] h = "Notify" -> S \o T
    [] h \in {"Signal", "Reset", "Release"} -> S
    [] h = "Fatal" -> <<"Byte", "DWord">> \o T

InternalScript(h) == IF h = "Call" THEN <<"MethodArgs">> ELSE T

Script_Swapped(h) ==
  CASE h = "Fatal" -> T \o <<"Byte", "DWord">>
    [] h \in Expressions -> ExpressionScript(h)
    [] h \in NamedObjects -> NamedScript(h)
    [] h \in Statements \ {"Fatal"} -> StatementScript(h)
    [] h \in Internal -> InternalScript(h)
Script(h) ==
  CASE h \in Expressions -> ExpressionScript(h)
    [] h \in NamedObjects -> NamedScript(h)
    [] h \in Statements -> StatementScript(h)
    [] h \in Internal -> InternalScript(h)

-----------------------------------------------------------------------------
(* What the handlers take off the stack.  Package and Call, whose number   *)
(* of operands varies, take one more thing each: see AmlInterp.            *)

ExpressionOperands(h) ==
  CASE h \in Constants -> <<>>
    [] h \in Arithmetic \cup {"Concat", "ConcatRes", "Index"} -> <<"obj", "obj", "obj">>
    [] h \in Comparisons \cup Conversions \cup {"Store", "CopyObject", "CondRefOf", "Wait"} ->
         <<"obj", "obj">>
    [] h = "Divide" -> <<"obj", "obj", "obj", "obj">>
    [] h \in {"Increment", "Decrement", "RefOf", "SizeOf", "ObjectType", "DerefOf", "LNot"} ->
         <<"obj">>
    [] h = "Match" -> <<"obj", "len", "obj", "len", "obj", "obj">>
    [] h = "Buffer" -> <<"len", "obj">>
    [] h \in {"Package", "VarPackage"} -> <<"len", "len">>
    [] h = "Acquire" -> <<"obj", "len">>
    [] h = "Load" -> <<"str", "obj">>
    [] h = "LoadTable" -> <<"obj", "obj", "obj", "obj", "obj", "obj">>

NamedOperands(h) ==
  CASE h \in CreateFields -> <<"obj", "obj", "str">>
    [] h = "CreateField" -> <<"obj", "obj", "obj", "str">>
    [] h \in {"Scope", "Device", "ThermalZone"} -> <<"len", "str">>
    [] h = "PowerRes" -> <<"len", "str", "len", "len">>
    [] h = "Processor" -> <<"len", "str", "len", "len", "len">>
    [] h = "Name" -> <<"str", "obj">>
    [] h = "Alias" -> <<"str", "str">>
    [] h = "Method" -> <<"len", "str", "len">>
    [] h = "External" -> <<"str", "len", "len">>
    [] h = "Mutex" -> <<"str", "len">>
    [] h = "Event" -> <<"str">>
    [] h = "OpRegion" -> <<"str", "len", "obj", "obj">>
    [] h = "DataRegion" -> <<"str", "obj", "obj", "obj">>
    [] h = "Field" -> <<"len", "str", "len", "fields">>
    [] h = "IndexField" -> <<"len", "str", "str", "len", "fields">>
    [] h = "BankField" -> <<"len", "str", "str", "obj", "len", "fields">>

StatementOperands(h) ==
  CASE h \in {"If", "While"} -> <<"len", "obj">>
    [] h = "Else" -> <<"len">>
    [] h \in {"Return", "Stall", "Sleep", "Signal", "Reset", "Release"} -> <<"obj">>
    [] h \in {"Break", "Continue", "Noop", "BreakPoint"} -> <<>>
    [] h = "Notify" -> <<"obj", "obj">>
    [] h = "Fatal" -> <<"len", "len", "obj">>

Operands(h) ==
  CASE h \in Expressions -> ExpressionOperands(h)
    [] h \in NamedObjects -> NamedOperands(h)
    [] h \in Statements -> StatementOperands(h)
    [] h \in Internal -> IF h = "Call" THEN <<"args">> ELSE <<>>

\* Whether the handler leaves a result: Debug and String always do, the other
\* expressions when one is wanted, the rest never.
Yields(h, wanted) == h \in {"Debug", "String"} \/ (h \in Expressions /\ wanted)
=============================================================================
