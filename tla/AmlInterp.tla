----------------------------- MODULE AmlInterp -----------------------------
(***************************************************************************)
(* The control of the AML interpreter: Interpreter::parse with its frames, *)
(* operation blocks, method frames and object stack, the control           *)
(* statements, method calls, table loads, and the unwinding of errors.     *)
(*                                                                         *)
(* One step is one iteration of parse()'s loop.  AML is not a given text:  *)
(* what the next opcode is, what a name stands for and how a predicate     *)
(* evaluates is chosen freely.  A frame's distance from ptr to end is the  *)
(* number of statements that are left in its body.                         *)
(*                                                                         *)
(* Objects are abstracted to their types; allocation always succeeds.      *)
(***************************************************************************)
EXTENDS Integers, Sequences, FiniteSets, Opcodes

CONSTANTS
  Programs, \* the kinds of AML that are looked at, see ProgramsAssumption
  MaxDepth, \* Context::max_callstack_depth
  MaxArgs   \* bound of the model: arguments of a method, fields of a list

AmlLiberties ==
  { "error",       \* operations fail
    "outerWhile",  \* While in the outermost frame
    "leaveScope",  \* leave a Scope or Device block by an error
    "literals",    \* literals as statements, which leave their object behind
    "loadAtLimit"} \* Load with MaxDepth method frames

\* bases: what is run, "method" (invoke_method) or "table" (execute).  statements: the
\* opcodes there are as statements; "Call" is a method's name.  arguments: those there are
\* as operands; "Object" is another name.  frames, blocks, body: the bounds of the model on
\* frames, on the operations nested in a frame, on the statements of a body.  may: the
\* liberties.
ASSUME ProgramsAssumption ==
  \A p \in Programs :
    /\ p.bases \subseteq {"method", "table"} /\ p.may \subseteq AmlLiberties
    /\ p.statements \subseteq Handlers \ {"TermArg"}
    /\ p.arguments \subseteq Expressions \cup {"Call", "Object"}
    /\ p.statements \cap {"Debug", "String"} # {} => "literals" \in p.may
    /\ {p.frames, p.blocks} \subseteq Nat \ {0} /\ p.body \in Nat
ASSUME LimitsAssumption == MaxDepth \in Nat \ {0} /\ MaxArgs \in Nat

VARIABLES
  program,      \* what kind of AML this is
  frames,       \* Interpreter::frames, bottom first
  methodFrames, \* Interpreter::method_frames: of a method or of a table being loaded
  objects,      \* Interpreter::objects
  scope,        \* current_scope, as the number of the frame that entered it
  status        \* "running", or how parse returned

vars == <<program, frames, methodFrames, objects, scope, status>>

StatementOps == program.statements
ArgumentOps == program.arguments
MaxFrames == program.frames
MaxBlocks == program.blocks
MaxBody == program.body
AmlMay == program.may

Types == {"Scope", "Package", "If", "While"}
Block == [op : Handlers, start : Nat, ip : Nat, processed : BOOLEAN, wanted : BOOLEAN]
Frame == [type : Types, isMethod : BOOLEAN, needResult : BOOLEAN, needLoad : BOOLEAN,
          parent : 0 .. MaxFrames, start : Nat, left : 0 .. MaxBody, again : BOOLEAN,
          end : -1 .. MaxBody, exp : 0 .. 1, prevEnd : -1 .. MaxBody, prevExp : 0 .. 1,
          blocks : Seq(Block)]
Object == [kind : ObjectKinds, count : 0 .. MaxArgs + 1, left : 0 .. MaxArgs]

TypeOK ==
  /\ program \in Programs
  /\ frames \in Seq(Frame)
  /\ methodFrames \in Seq({"method", "load"})
  /\ objects \in Seq(Object)
  /\ scope \in 0 .. MaxFrames
  /\ status \in {"running", "success", "failed", "internal"}

-----------------------------------------------------------------------------
(* Stacks                                                                  *)

Last(s) == s[Len(s)]
Below(s) == SubSeq(s, 1, Len(s) - 1)
Take(s, n) == SubSeq(s, 1, n)

Thing(k) == [kind |-> k, count |-> 0, left |-> 0]
Obj == Thing("obj")
If1(test, s) == IF test THEN s ELSE <<>>

Top == Last(frames)
Op == Last(Top.blocks)
SetTop(f) == frames' = [frames EXCEPT ![Len(frames)] = f]
SetOp(b) == SetTop([Top EXCEPT !.blocks[Len(Top.blocks)] = b])

NewFrame(type, sc, n) ==
  [type |-> type, isMethod |-> FALSE, needResult |-> FALSE, needLoad |-> FALSE,
   parent |-> sc, start |-> Len(objects), left |-> n, again |-> FALSE,
   end |-> -1, exp |-> 0, prevEnd |-> -1, prevExp |-> 0, blocks |-> <<>>]

NewBlock(op, wanted) ==
  [op |-> op, start |-> Len(objects), ip |-> 1, processed |-> FALSE, wanted |-> wanted]

\* execute and invoke_method.
Init ==
  /\ program \in Programs
  /\ \E n \in 0 .. MaxBody, base \in program.bases :
       /\ frames = << [type |-> "Scope", isMethod |-> base = "method",
                       needResult |-> base = "method", needLoad |-> FALSE, parent |-> 0,
                       start |-> 0, left |-> n, again |-> FALSE, end |-> -1, exp |-> 0,
                       prevEnd |-> -1, prevExp |-> 0, blocks |-> <<>>] >>
       /\ methodFrames = IF base = "method" THEN <<"method">> ELSE <<>>
       /\ scope = IF base = "method" THEN 1 ELSE 0
  /\ objects = <<>>
  /\ status = "running"

-----------------------------------------------------------------------------
(* unwind_stack                                                            *)

MethodsIn(fs, i, j) == {k \in i .. j : fs[k].isMethod}

\* The method frame that goes with frame i, counted from the top.
FrameOf(fs, ms, i) == ms[Len(ms) - Cardinality(MethodsIn(fs, i + 1, Len(fs)))]

Loads(fs, ms) == {i \in MethodsIn(fs, 2, Len(fs)) : FrameOf(fs, ms, i) = "load"}

\* The lowest frame to go: a table that is being loaded, or the one above the base.
Lowest(fs, ms) ==
  IF Loads(fs, ms) = {} THEN 2
  ELSE CHOOSE i \in Loads(fs, ms) : \A j \in Loads(fs, ms) : j <= i

\* The method frames that go, the lowest first to restore current_scope last.
Leaving(fs, ms) == MethodsIn(fs, Lowest(fs, ms), Len(fs))
ScopeAfter(fs, ms, sc) ==
  LET gone == Leaving(fs, ms) IN
  IF gone = {} THEN sc ELSE fs[CHOOSE i \in gone : \A j \in gone : i <= j].parent

\* A failed method called from the base leaves an Uninitialized as the base's result.
Gives(fs, ms) == Loads(fs, ms) = {} /\ fs[2].isMethod /\ fs[1].needResult

\* Frames above the base are popped with their objects.  Only method frames put
\* current_scope back.  A failed Load still yields its result.
Unwound(fs, ms, os, sc) ==
  IF Len(fs) = 1 THEN [frames |-> fs, methodFrames |-> ms, objects |-> os, scope |-> sc]
  ELSE
    LET low == Lowest(fs, ms)
        gives == Gives(fs, ms)
        loads == low \in Loads(fs, ms) /\ fs[low].needLoad
    IN [frames |-> IF gives THEN [Take(fs, 1) EXCEPT ![1].needResult = FALSE]
                   ELSE Take(fs, low - 1),
        methodFrames |-> Take(ms, Len(ms) - Cardinality(Leaving(fs, ms))),
        objects |-> Take(os, fs[low].start) \o If1(gives \/ loads, <<Obj>>),
        scope |-> ScopeAfter(fs, ms, sc)]

\* No Scope or Device block is left below the methods that are unwound.
KeepsScope(fs, ms) ==
  "leaveScope" \in AmlMay \/
  \A i \in Lowest(fs, ms) .. Len(fs) :
    (fs[i].type = "Scope" /\ ~fs[i].isMethod) => \E j \in Lowest(fs, ms) .. i : fs[j].isMethod

\* unwind_stack with the state as it is when it is called.
Unwind(fs, ms, os, sc) ==
  LET u == Unwound(fs, ms, os, sc) IN
  /\ Len(fs) > 1 => KeepsScope(fs, ms)
  /\ frames' = u.frames
  /\ methodFrames' = u.methodFrames
  /\ objects' = u.objects
  /\ scope' = u.scope

\* An error in parse(): unwind, unless it is in the base frame.
Error ==
  \/ /\ Len(frames) # 1
     /\ Unwind(frames, methodFrames, objects, scope)
     /\ UNCHANGED status
  \/ /\ Len(frames) = 1
     /\ status' = "failed"
     /\ UNCHANGED <<frames, methodFrames, objects, scope>>

\* An operation fails, or parse() returns at once: no memory, an unknown opcode.
Fail ==
  /\ status = "running" /\ frames # <<>> /\ "error" \in AmlMay
  /\ Top.blocks # <<>> \/ Top.left > 0
  /\ \/ Error
     \/ status' = "failed" /\ UNCHANGED <<frames, methodFrames, objects, scope>>

-----------------------------------------------------------------------------
(* Statements and operands                                                 *)

Running == status = "running" /\ frames # <<>>
AtStatement == Running /\ Top.blocks = <<>>
AtOperand == Running /\ Top.blocks # <<>> /\ Op.ip <= Len(Script(Op.op))
AtHandler == Running /\ Top.blocks # <<>> /\ Op.ip = Len(Script(Op.op)) + 1

\* AML is well formed: Break and Continue stay in a While of the same method.
InLoop ==
  \E i \in 1 .. Len(frames) :
    frames[i].type = "While" /\ \A j \in i .. Len(frames) : frames[j].type \in {"While", "If"}

\* What the statement that is fetched next may be.
MayFetch(h) ==
  /\ Top.again => h = "While"
  /\ h = "While" /\ Len(frames) = 1 => "outerWhile" \in AmlMay
  /\ h \in {"Break", "Continue"} => InLoop
  /\ h \in {"If", "While", "Package", "VarPackage", "Call", "Load", "LoadTable"} \cup Scopes =>
       Len(frames) < MaxFrames
  /\ h \in {"Load", "LoadTable"} =>
       Len(methodFrames) < MaxDepth \/ "loadAtLimit" \in AmlMay

\* handle_name and the opcodes: f is the frame after the fetch, os the objects.  A
\* name is a method to be called, or an object that is pushed when it is wanted.
Fetch(h, f, wanted, super, os) ==
  \/ /\ h \in Handlers \ {"Call"}
     /\ SetTop([f EXCEPT !.blocks = Append(@, [NewBlock(h, wanted) EXCEPT !.start = Len(os)])])
     /\ objects' = os
  \/ /\ h = "Object" \/ (h = "Call" /\ super)
     /\ SetTop(f)
     /\ objects' = os \o If1(wanted, <<Obj>>)
  \/ /\ h = "Call" /\ ~super
     /\ SetTop([f EXCEPT !.blocks = Append(@, [NewBlock(h, wanted) EXCEPT !.start = Len(os)])])
     /\ \E n \in 0 .. MaxArgs :
          objects' = Append(os, [kind |-> "args", count |-> n, left |-> n])

FetchStatement ==
  /\ AtStatement /\ Top.left > 0
  /\ LET package == Top.type = "Package"
         f == [Top EXCEPT !.left = @ - 1, !.again = FALSE]
     IN \E h \in (IF package THEN ArgumentOps ELSE StatementOps) :
          MayFetch(h) /\ Fetch(h, f, package, package, objects)
  /\ UNCHANGED <<methodFrames, scope, status>>

\* parse() at an operand of its block that has not been looked at.
Mark(p) == [Top EXCEPT !.blocks[Len(Top.blocks)].processed = p]

PlainOperand ==
  /\ AtOperand /\ ~Op.processed
  /\ \/ /\ Script(Op.op)[Op.ip] \in {"PkgLength", "Byte", "Word", "DWord"}
        /\ objects' = Append(objects, Thing("len"))
     \/ /\ Script(Op.op)[Op.ip] = "NameString"
        /\ objects' = Append(objects, Thing("str"))
     \/ /\ Script(Op.op)[Op.ip] = "StartFieldList"
        /\ \E n \in 0 .. MaxArgs : objects' = Append(objects, [Thing("fields") EXCEPT !.left = n])
  /\ SetTop(Mark(TRUE))
  /\ UNCHANGED <<methodFrames, scope, status>>

Nests(h) == h \in Handlers /\ Script(h) # <<>>
NestedOps(f) == {h \in ArgumentOps : MayFetch(h) /\ (Nests(h) => Len(f.blocks) < MaxBlocks)}

TermOperand ==
  /\ AtOperand /\ ~Op.processed
  /\ LET o == Script(Op.op)[Op.ip] IN
       /\ o \in {"TermArg", "SuperName", "SuperNameUnresolved"}
       /\ \E h \in NestedOps(Top) : Fetch(h, Mark(TRUE), TRUE, o # "TermArg", objects)
  /\ UNCHANGED <<methodFrames, scope, status>>

ArgsOperand ==
  /\ AtOperand /\ ~Op.processed /\ Script(Op.op)[Op.ip] = "MethodArgs"
  /\ LET i == Op.start + 1 IN
     \/ /\ objects[i].left = 0
        /\ SetTop(Mark(TRUE)) /\ UNCHANGED objects
     \/ /\ objects[i].left > 0
        /\ \E h \in NestedOps(Top) :
             Fetch(h, Top, TRUE, FALSE, [objects EXCEPT ![i].left = @ - 1])
  /\ UNCHANGED <<methodFrames, scope, status>>

ElementsOperand ==
  /\ AtOperand /\ ~Op.processed /\ Script(Op.op)[Op.ip] \in {"PkgElements", "VarPkgElements"}
  /\ LET os == IF Op.op = "Package" THEN objects ELSE Append(Below(objects), Thing("len")) IN
     /\ objects' = os
     /\ \E n \in 0 .. MaxBody :
          frames' = Append([frames EXCEPT ![Len(frames)] = Mark(TRUE)],
                           [NewFrame("Package", scope, n) EXCEPT !.needResult = TRUE,
                                                                 !.start = Len(os)])
  /\ UNCHANGED <<methodFrames, scope, status>>

\* A connection that has been evaluated goes from the stack into its list.
Connected(i) ==
  IF objects[i].count = 2 THEN [Below(objects) EXCEPT ![i].count = 0] ELSE objects

\* A list entry is a field, or a connection: a name (count 2), or a term that is
\* evaluated first (count 1, then 2).
FieldsOperand ==
  /\ AtOperand /\ ~Op.processed /\ Script(Op.op)[Op.ip] = "FieldList"
  /\ LET i == Op.start + 1
         list == objects[i]
     IN
     \/ /\ list.count = 1
        /\ objects' = [objects EXCEPT ![i].count = 2]
        /\ SetTop([Top EXCEPT !.blocks = Append(@, NewBlock("TermArg", TRUE))])
     \/ /\ list.count # 1
        /\ \/ /\ list.left = 0
              /\ objects' = Connected(i) /\ SetTop(Mark(TRUE))
           \/ /\ list.left > 0
              /\ LET os == [Connected(i) EXCEPT ![i].left = @ - 1] IN
                   \/ objects' = os
                   \/ objects' = [os EXCEPT ![i].count = 1]
                   \/ objects' = Append([os EXCEPT ![i].count = 2], Obj)
              /\ UNCHANGED frames
  /\ UNCHANGED <<methodFrames, scope, status>>

\* parse() at an operand that has been looked at: the stack must have grown by it.
Advances(o) == o \in {"PkgLength", "Byte", "Word", "DWord", "NameString", "TermArg",
                      "SuperName", "SuperNameUnresolved"}
Complete(o) ==
  CASE Advances(o) -> Len(objects) = Op.start + 1
    [] o = "MethodArgs" -> /\ objects[Op.start + 1].left = 0
                           /\ Len(objects) = Op.start + 1 + objects[Op.start + 1].count
    [] o = "FieldList" -> Last(objects).left = 0
    [] OTHER -> TRUE

OperandDone ==
  /\ AtOperand /\ Op.processed
  /\ LET o == Script(Op.op)[Op.ip] IN
     \/ /\ Complete(o)
        /\ SetOp([Op EXCEPT !.ip = @ + 1, !.processed = FALSE,
                            !.start = IF Advances(o) THEN @ + 1 ELSE @])
        /\ UNCHANGED <<methodFrames, objects, scope, status>>
     \/ /\ ~Complete(o)
        /\ Error

-----------------------------------------------------------------------------
(* Handlers                                                                *)

\* The stack without a handler's operands, and with its result.
Popped(h) == Take(objects, Len(objects) - Len(Operands(h)))
Result(h) == If1(Yields(h, Op.wanted), <<Obj>>)

\* After the handler, its block goes, if its frame is still there.
Done(fs) == IF Len(frames) <= Len(fs) THEN [fs EXCEPT ![Len(frames)].blocks = Below(@)] ELSE fs

Jumps == {"If", "While", "Return", "Break", "Continue", "Call", "Package", "VarPackage"}

\* A handler that leaves the frames alone.  Load, a scope that does not exist and a
\* duplicate Device may end like this too.
HandleOp ==
  /\ AtHandler /\ Op.op \notin Jumps
  /\ objects' = Popped(Op.op) \o Result(Op.op)
  /\ frames' = Done(frames)
  /\ UNCHANGED <<methodFrames, scope, status>>

\* Package takes the elements that its frame has left above its two numbers.
HandlePackage ==
  /\ AtHandler /\ Op.op \in {"Package", "VarPackage"}
  /\ objects' = Take(objects, Op.start - 2) \o Result(Op.op)
  /\ frames' = Done(frames)
  /\ UNCHANGED <<methodFrames, scope, status>>

\* Scope, Device, ThermalZone, PowerRes, Processor.
EnterScope ==
  /\ AtHandler /\ Op.op \in Scopes
  /\ objects' = Popped(Op.op)
  /\ \E n \in 1 .. MaxBody :
       frames' = Append(Done(frames),
                        [NewFrame("Scope", scope, n) EXCEPT !.start = Len(Popped(Op.op))])
  /\ scope' = Len(frames) + 1
  /\ UNCHANGED <<methodFrames, status>>

\* An Else that is entered runs in the frame of its If.
HandleIf ==
  /\ AtHandler /\ Op.op = "If"
  /\ objects' = Popped("If")
  /\ \/ frames' = Done(frames)
     \/ \E n \in 1 .. MaxBody :
          frames' = Append(Done(frames),
                           [NewFrame("If", 0, n) EXCEPT !.start = Len(Popped("If"))])
  /\ UNCHANGED <<methodFrames, scope, status>>

\* The predicate is true: ptr goes back to the While, and its body is a frame whose
\* expiration is taken over when the frame has just left the same loop's body.
WhileTrue ==
  /\ AtHandler /\ Op.op = "While"
  /\ LET back == [Top EXCEPT !.left = @ + 1, !.again = TRUE]
         os == Popped("While")
         same == Top.prevEnd = Top.left
         fs == [frames EXCEPT ![Len(frames)] = back]
     IN \/ /\ same /\ Top.prevExp = 0
           /\ Unwind(Done(fs), methodFrames, os, scope)
        \/ /\ ~(same /\ Top.prevExp = 0)
           /\ \E n \in 0 .. MaxBody :
                frames' = Append(Done(fs),
                                 [NewFrame("While", 0, n) EXCEPT
                                    !.start = Len(os), !.end = Top.left,
                                    !.exp = IF same THEN Top.prevExp ELSE 1])
           /\ objects' = os
           /\ UNCHANGED <<methodFrames, scope>>
  /\ UNCHANGED status

WhileFalse ==
  /\ AtHandler /\ Op.op = "While"
  /\ objects' = Popped("While")
  /\ frames' = Done(frames)
  /\ UNCHANGED <<methodFrames, scope, status>>

\* The frames from i on go, frame i goes to its end.
EndOf(f) == [f EXCEPT !.left = 0, !.again = FALSE]
LeaveTo(i) == [Take(frames, i) EXCEPT ![i] = EndOf(@)]

\* Return drops the frames above its method, or above the base when there is none,
\* and gives the method's result.
Returning == LET methods == MethodsIn(frames, 1, Len(frames)) IN
  IF methods = {} THEN 1 ELSE CHOOSE k \in methods : \A j \in methods : j <= k
Gave(f) == [f EXCEPT !.needResult = FALSE]

HandleReturn ==
  /\ AtHandler /\ Op.op = "Return"
  /\ LET i == Returning
         gives == frames[i].isMethod /\ frames[i].needResult
     IN /\ frames' = Done(IF gives THEN [LeaveTo(i) EXCEPT ![i] = Gave(@)] ELSE LeaveTo(i))
        /\ objects' = Popped("Return") \o If1(gives, <<Obj>>)
  /\ UNCHANGED <<methodFrames, scope, status>>

Loop == CHOOSE i \in 1 .. Len(frames) :
          /\ frames[i].type = "While"
          /\ \A j \in i + 1 .. Len(frames) : frames[j].type # "While"

\* Break also moves the frame below the loop's body past the While.
HandleBreak ==
  /\ AtHandler /\ Op.op = "Break"
  /\ frames' = Done([LeaveTo(Loop) EXCEPT ![Loop - 1].left = frames[Loop].end,
                                          ![Loop - 1].again = FALSE])
  /\ UNCHANGED <<methodFrames, objects, scope, status>>

HandleContinue ==
  /\ AtHandler /\ Op.op = "Continue"
  /\ frames' = Done(LeaveTo(Loop))
  /\ UNCHANGED <<methodFrames, objects, scope, status>>

AtLimit_Past == Len(methodFrames) > MaxDepth
AtLimit == Len(methodFrames) = MaxDepth

\* The called method's frame, whose objects begin where its arguments have been.
Callee_AboveArgs(n) ==
  [NewFrame("Scope", scope, n) EXCEPT !.isMethod = TRUE, !.needResult = Op.wanted]
Callee(n) ==
  [NewFrame("Scope", scope, n) EXCEPT !.isMethod = TRUE, !.needResult = Op.wanted,
                                      !.start = Op.start]

\* The arguments go to the new method frame; with MaxDepth method frames the call is
\* dropped and everything above the base with it.
HandleCall ==
  /\ AtHandler /\ Op.op = "Call"
  /\ \/ /\ AtLimit
        /\ Unwind(Done(frames), methodFrames, Take(objects, Op.start), scope)
     \/ /\ ~AtLimit
        /\ \E n \in 0 .. MaxBody : frames' = Append(Done(frames), Callee(n))
        /\ methodFrames' = Append(methodFrames, "method")
        /\ objects' = Take(objects, Op.start)
        /\ scope' = Len(frames) + 1
  /\ UNCHANGED status

\* Load and LoadTable with a table to execute: no limit is looked at.
HandleLoad ==
  /\ AtHandler /\ Op.op \in {"Load", "LoadTable"}
  /\ objects' = Popped(Op.op)
  /\ \E n \in 0 .. MaxBody :
       frames' = Append(Done(frames),
                        [NewFrame("Scope", scope, n) EXCEPT
                           !.isMethod = TRUE, !.needLoad = Op.wanted,
                           !.start = Len(Popped(Op.op))])
  /\ methodFrames' = Append(methodFrames, "load")
  /\ scope' = Len(frames) + 1
  /\ UNCHANGED status

-----------------------------------------------------------------------------
(* The end of a frame, and of parse()                                      *)

AtEnd == AtStatement /\ Top.left = 0

Parent_Forget(f) == Below(frames)
\* A While body leaves its end and its expiration with the frame below.
Parent(f) ==
  IF f.type = "While"
  THEN [Below(frames) EXCEPT ![Len(frames) - 1].prevEnd = f.end,
                             ![Len(frames) - 1].prevExp = f.exp]
  ELSE Below(frames)

EndFrame ==
  /\ AtEnd
  /\ LET load == Top.isMethod /\ Last(methodFrames) = "load"
         os == IF load THEN Take(objects, Top.start) \o If1(Top.needLoad, <<Obj>>) ELSE objects
     IN /\ objects' = os \o If1(Top.isMethod /\ Top.needResult, <<Obj>>)
        /\ methodFrames' = IF Top.isMethod THEN Below(methodFrames) ELSE methodFrames
  /\ frames' = Parent(Top)
  /\ scope' = IF Top.type = "Scope" THEN Top.parent ELSE scope
  /\ UNCHANGED status

LoadEndFails_KeepMethod ==
  /\ AtEnd /\ "error" \in AmlMay
  /\ Top.isMethod /\ Last(methodFrames) = "load" /\ Len(frames) # 1
  /\ Unwind(Below(frames), methodFrames, objects, Top.parent)
  /\ UNCHANGED status
\* A loaded table cannot store its result: the Load's frame goes without one, and
\* what is below it is unwound.
LoadEndFails ==
  /\ AtEnd /\ "error" \in AmlMay
  /\ Top.isMethod /\ Last(methodFrames) = "load" /\ Len(frames) # 1
  /\ Unwind(Below(frames), Below(methodFrames), objects, Top.parent)
  /\ UNCHANGED status

Finish ==
  /\ status = "running" /\ frames = <<>>
  /\ status' = IF Len(objects) > 1 \/ methodFrames # <<>> THEN "internal" ELSE "success"
  /\ UNCHANGED <<frames, methodFrames, objects, scope>>

\* Time: loops expire.
Tick ==
  /\ status = "running"
  /\ \E i \in 1 .. Len(frames) : frames[i].exp = 1 \/ frames[i].prevExp = 1
  /\ frames' = [i \in 1 .. Len(frames) |-> [frames[i] EXCEPT !.exp = 0, !.prevExp = 0]]
  /\ UNCHANGED <<methodFrames, objects, scope, status>>

Parse ==
  \/ FetchStatement \/ PlainOperand \/ TermOperand \/ ArgsOperand \/ ElementsOperand
  \/ FieldsOperand \/ OperandDone
  \/ HandleOp \/ HandlePackage \/ EnterScope \/ HandleIf \/ WhileTrue \/ WhileFalse
  \/ HandleReturn \/ HandleBreak \/ HandleContinue \/ HandleCall \/ HandleLoad
  \/ EndFrame \/ LoadEndFails \/ Finish \/ Fail

Next == (Parse \/ Tick) /\ UNCHANGED program

Spec == Init /\ [][Next]_vars

\* The interpreter runs, and time passes.
FairSpec == Spec /\ WF_vars(Parse /\ UNCHANGED program) /\ WF_vars(Tick /\ UNCHANGED program)

-----------------------------------------------------------------------------
(* Properties                                                              *)

Kinds(a, b) == [i \in 1 .. b - a + 1 |-> objects[a + i - 1].kind]
AllObj(a, b) == \A i \in a .. b : objects[i].kind = "obj"

\* Handlers take their operands with get_unsafe: when one is called, the top of the
\* object stack is what its opcode's script promised, in type and in number, after
\* any calls, results, loads and unwinding on the way.
OperandsMatch ==
  AtHandler =>
    LET n == Len(objects)
        k == Len(Operands(Op.op))
    IN CASE Op.op \in {"Package", "VarPackage"} ->
              /\ n >= Op.start /\ Op.start >= 2
              /\ Kinds(Op.start - 1, Op.start) = Operands(Op.op)
              /\ AllObj(Op.start + 1, n)
         [] Op.op = "Call" ->
              /\ n = Op.start + 1 + objects[Op.start + 1].count
              /\ objects[Op.start + 1].kind = "args"
              /\ AllObj(Op.start + 2, n)
         [] OTHER -> n >= k /\ Kinds(n - k + 1, n) = Operands(Op.op)

\* The traps of parse() are not reached: an operand that has been collected has the
\* type its place in the script asks for.
NoTrap ==
  AtOperand /\ Op.processed /\ Complete(Script(Op.op)[Op.ip]) =>
    LET o == Script(Op.op)[Op.ip] IN
    /\ o \in {"PkgLength", "Byte", "Word", "DWord"} => Last(objects).kind = "len"
    /\ o = "NameString" => Last(objects).kind = "str"
    /\ o \in {"TermArg", "SuperName", "SuperNameUnresolved"} => Last(objects).kind = "obj"
    /\ o = "MethodArgs" => objects[Op.start + 1].kind = "args"
    /\ o = "FieldList" => Last(objects).kind = "fields"

\* A statement leaves nothing on the object stack: between statements it is as high
\* as when the frame began, but for a method's result, one at most, when the method
\* is over; the base frame may have it earlier, from unwinding.
StatementsBalance ==
  AtStatement /\ Top.type # "Package" =>
    \/ Len(objects) = Top.start
    \/ /\ Len(objects) = Top.start + 1
       /\ Top.isMethod /\ ~Top.needResult
       /\ Top.left = 0 \/ Len(frames) = 1

\* There is a MethodFrame for every frame of a method or a load, and no more: what
\* Arg, Local, Return and the locks use as the current method is the right one.
FramesAgree == status = "running" =>
  Len(methodFrames) = Cardinality(MethodsIn(frames, 1, Len(frames)))

\* The assertions of parse() hold: when the last frame is gone, at most one object
\* and no method frame is left.
NoInternalError == status # "internal"

\* Names are looked up and created in the scope of the innermost Scope frame, if the AML
\* does not leave a Scope or Device block by an error.
ScopeAgrees ==
  "leaveScope" \notin AmlMay /\ Running /\ (Top.left > 0 \/ Top.blocks # <<>>) =>
    LET scopes == {i \in 1 .. Len(frames) : frames[i].type = "Scope"}
        inner == CHOOSE i \in scopes : \A j \in scopes : j <= i
    IN scope = IF inner = 1 /\ ~frames[1].isMethod THEN 0 ELSE inner

\* Recursion ends at max_callstack_depth: with frames of calls and of loads on top of
\* each other the first beyond the limit is never a call's.  It is a Load's, executed
\* with that many, if AML does that, and from there on nothing ends the recursion.
CallsBounded ==
  Len(methodFrames) > MaxDepth =>
    "loadAtLimit" \in AmlMay /\ methodFrames[MaxDepth + 1] = "load"

\* Evaluation ends: whatever the predicates of its loops, every loop is cut off
\* when its time is over, and recursion ends at the limit, if no Load is over it.
Returns == "loadAtLimit" \notin AmlMay => <>(status # "running")

\* What runs in a frame leaves the operands that the frames below it have collected:
\* no call, load, Return, unwinding or failed operation pops or alters an object
\* that was there when a frame began that is still there after the step.
CallersOperandsKept ==
  [][\A i \in 1 .. Len(frames) :
       LET n == frames[i].start IN
       i <= Len(frames') => Len(objects') >= n /\ Take(objects', n) = Take(objects, n)]_vars

\* The stacks of the interpreter fit together through calls, failing loads and
\* unwinding: frames, method frames and the current scope agree; statements leave the
\* object stack as they found it, but for the one result of a method, and parse never
\* finds it otherwise.
StacksAgree ==
  /\ TypeOK /\ FramesAgree /\ ScopeAgrees
  /\ "literals" \notin AmlMay => StatementsBalance /\ NoInternalError

\* What an operand script collects is what the handler takes unchecked, and no
\* handler finds an object of another type.
OperandsSound == OperandsMatch /\ NoTrap
=============================================================================
