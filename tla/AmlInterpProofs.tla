--------------------------- MODULE AmlInterpProofs ---------------------------
(***************************************************************************)
(* Proofs about AmlInterp, for any programs, limits and bounds.            *)
(*                                                                         *)
(* The object stack is shared out, from the bottom: each frame has what    *)
(* its statements or elements have left, then, for each operation that is  *)
(* nested in it, the operands collected so far and what the operand that   *)
(* is waited for may be.  Shape says so of any frames and objects, so that *)
(* it can be used of what unwinding makes of them.                         *)
(***************************************************************************)
EXTENDS AmlInterp, SequenceTheorems, FiniteSetTheorems,
        WellFoundedInduction, NaturalsInduction, TLAPS

-----------------------------------------------------------------------------
(* Numbers                                                                 *)

\* A set of natural numbers that is not empty has a least element.
LEMMA NatMin ==
  ASSUME NEW K, K \subseteq Nat, K # {}
  PROVE  \E x \in K : \A y \in K : x <= y
<1>1. PICK x \in K : \A y \in K : ~ (<<y, x>> \in OpToRel(<, Nat))
  BY NatLessThanWellFounded, WFMin
<1>2. ASSUME NEW y \in K, y < x
      PROVE  FALSE
  <2>1. <<y, x>> \in {ss \in Nat \X Nat : ss[1] < ss[2]}
    BY <1>2
  <2>2. <<y, x>> \in OpToRel(<, Nat)
    BY <2>1, Zenon DEF OpToRel
  <2>3. QED
    BY <1>1, <2>2
<1>3. \A y \in K : ~ (y < x)
  BY <1>2
<1>4. QED
  BY <1>3

-----------------------------------------------------------------------------
(* What the blocks and frames hold of the object stack                     *)

FieldOps == {"Field", "IndexField", "BankField"}
Packages == {"Package", "VarPackage"}

\* The operands that a script collects one by one, at its beginning
Adv(h) ==
  IF h \in FieldOps THEN Len(Script(h)) - 2
  ELSE IF h \in Packages \cup {"Call"} THEN Len(Script(h)) - 1
  ELSE Len(Script(h))

\* The type of what is collected for such an operand
KindOf(o) ==
  IF o \in {"PkgLength", "Byte", "Word", "DWord"} THEN "len"
  ELSE IF o = "NameString" THEN "str" ELSE "obj"

\* The height of the object stack below what a block has collected
Base(b) == b.start - (IF b.ip <= Adv(b.op) THEN b.ip - 1 ELSE Adv(b.op))

\* VarPackage replaces its number by another object, when its elements begin.
Want(b, n) ==
  IF b.op = "VarPackage" /\ n = 2 /\ (b.ip > 3 \/ (b.ip = 3 /\ b.processed)) THEN "len"
  ELSE KindOf(Script(b.op)[n])

Objs(os, a, b) == \A i \in a .. b : os[i].kind = "obj"

Collected(b, os) ==
  /\ b.op \in Handlers /\ b.ip \in 1 .. Len(Script(b.op)) + 1
  /\ b.processed => b.ip <= Len(Script(b.op))
  /\ 0 <= Base(b) /\ b.start <= Len(os)
  /\ \A n \in 1 .. b.start - Base(b) : os[Base(b) + n].kind = Want(b, n)

\* What is above the collected operands, up to h: the top, where the block is the
\* one that parse works on.
OperandHeight(b, os, h) ==
  IF ~ b.processed THEN h = b.start
  ELSE IF KindOf(Script(b.op)[b.ip]) = "obj" THEN Objs(os, b.start + 1, h)
  ELSE h = b.start + 1 /\ os[h].kind = KindOf(Script(b.op)[b.ip])
CallHeight(b, os, h) ==
  /\ b.start + 1 <= h /\ os[b.start + 1].kind = "args" /\ Objs(os, b.start + 2, h)
  /\ b.ip = 2 => h = b.start + 1 + os[b.start + 1].count
PackageHeight(b, os, h) ==
  IF b.ip = 3 /\ ~ b.processed THEN h = b.start ELSE Objs(os, b.start + 1, h)
FieldsHeight(b, os, h) ==
  IF b.ip = Adv(b.op) + 1 /\ ~ b.processed THEN h = b.start
  ELSE
    /\ b.start + 1 <= h /\ os[b.start + 1].kind = "fields"
    /\ b.ip = Adv(b.op) + 1 => os[b.start + 1].count = 0
    /\ IF b.ip = Adv(b.op) + 2 /\ ~ b.processed /\ os[b.start + 1].count = 2
       THEN h = b.start + 2 /\ os[h].kind = "obj"
       ELSE h = b.start + 1

Height(b, os, h) ==
  /\ b.start <= h
  /\ b.ip <= Adv(b.op) => OperandHeight(b, os, h)
  /\ b.ip > Adv(b.op) =>
       /\ b.op = "Call" => CallHeight(b, os, h)
       /\ b.op \in Packages => PackageHeight(b, os, h)
       /\ b.op \in FieldOps => FieldsHeight(b, os, h)
       /\ b.op \notin FieldOps \cup Packages \cup {"Call"} => h = b.start

\* The block waits for what is evaluated above h.
OperandWaits(b, os, h) ==
  b.ip <= Adv(b.op) /\ b.processed /\ KindOf(Script(b.op)[b.ip]) = "obj"
CallWaits(b, os, h) ==
  /\ b.op = "Call" /\ b.ip = 1 /\ ~ b.processed
  /\ b.start + 1 <= h /\ os[b.start + 1].kind = "args"
Waits(b, os, h) ==
  /\ b.start <= h
  /\ \/ OperandWaits(b, os, h) /\ Objs(os, b.start + 1, h)
     \/ CallWaits(b, os, h) /\ Objs(os, b.start + 2, h)
\* A list of fields waits for the term of a connection only.
FieldsWait(b, os, h) ==
  /\ b.op \in FieldOps /\ b.ip = Adv(b.op) + 2 /\ ~ b.processed
  /\ h = b.start + 1 /\ os[h].kind = "fields" /\ os[h].count = 2
\* A package waits for the frame of its elements only.
PackageWaits(b, os, h) ==
  /\ b.op \in Packages /\ b.ip = 3 /\ b.processed
  /\ b.start <= h /\ Objs(os, b.start + 1, h)

Level(f, h) == IF f.blocks = <<>> THEN h ELSE Base(f.blocks[1])

\* A frame of which the objects up to h are
FrameFine(f, os, h) ==
  /\ f.start <= Level(f, h) /\ h <= Len(os) /\ Objs(os, f.start + 1, Level(f, h))
  /\ \A j \in 1 .. Len(f.blocks) : Collected(f.blocks[j], os) /\ f.blocks[j].start <= h
  /\ \A j, k \in 1 .. Len(f.blocks) : j <= k => Base(f.blocks[j]) <= Base(f.blocks[k])
  /\ \A j \in 1 .. Len(f.blocks) - 1 :
       LET b == f.blocks[j]
           c == f.blocks[j + 1]
       IN Waits(b, os, Base(c)) \/ (FieldsWait(b, os, Base(c)) /\ c.op = "TermArg")

TopFine(f, os) ==
  /\ FrameFine(f, os, Len(os))
  /\ f.blocks # <<>> => Height(Last(f.blocks), os, Len(os))

LowerFine(f, os, h) ==
  /\ FrameFine(f, os, h)
  /\ f.blocks # <<>> => Waits(Last(f.blocks), os, h) \/ PackageWaits(Last(f.blocks), os, h)

Shape(fs, os) ==
  /\ \A i, k \in 1 .. Len(fs) : i <= k => fs[i].start <= fs[k].start
  /\ \A i \in 1 .. Len(fs) - 1 : LowerFine(fs[i], os, fs[i + 1].start)
  /\ fs # <<>> => TopFine(fs[Len(fs)], os)

-----------------------------------------------------------------------------
(* What the frames are to each other                                       *)

Framing == {"If", "While", "Package", "VarPackage", "Call", "Load", "LoadTable"} \cup Scopes

\* What a block is of, by its place.
BlockPlaced(f, j) ==
  LET b == f.blocks[j] IN
  IF j = 1 /\ f.type # "Package"
  THEN b.op \in StatementOps /\ ~ b.wanted /\ f.left < MaxBody
  ELSE b.op \in Expressions \cup {"Call", "TermArg"} /\ b.wanted

InLoopAt(fs, i) ==
  \E m \in 1 .. i : fs[m].type = "While" /\ \A j \in m .. i : fs[j].type \in {"While", "If"}

\* What there was room for when it was fetched
Roomy(fs, i, b) ==
  /\ b.op \in Framing => i < MaxFrames
  /\ b.op \in {"Load", "LoadTable"} =>
       Cardinality(MethodsIn(fs, 1, i)) < MaxDepth \/ "loadAtLimit" \in AmlMay
  /\ b.op \in {"Break", "Continue"} => InLoopAt(fs, i)

BlocksPlaced(fs) ==
  \A i \in 1 .. Len(fs) : \A j \in 1 .. Len(fs[i].blocks) :
    BlockPlaced(fs[i], j) /\ Roomy(fs, i, fs[i].blocks[j])

\* A statement's frame is on a frame between statements; a package's is not; what a
\* method or a load yields is waited for.
Linked(f, g) ==
  /\ g.type # "Package" /\ ~ g.isMethod => f.blocks = <<>> /\ f.type # "Package"
  /\ g.type = "Package" => f.blocks # <<>> /\ ~ g.isMethod
  /\ g.isMethod => g.type = "Scope"
  /\ g.isMethod /\ (g.needResult \/ g.needLoad) => f.blocks # <<>> \/ f.type = "Package"
  /\ g.type = "While" => g.end \in 0 .. MaxBody - 1

BaseFrame(f) ==
  f.type = "Scope" /\ ~ f.needLoad /\ (f.needResult => f.isMethod) /\ f.parent = 0 /\ f.start = 0

FramesLinked(fs) ==
  /\ Len(fs) <= MaxFrames
  /\ fs # <<>> => BaseFrame(fs[1])
  /\ \A i \in 1 .. Len(fs) - 1 : Linked(fs[i], fs[i + 1])
  /\ \A i, k \in 1 .. Len(fs) :
       i < k /\ fs[k].type # "Package" /\ (\A m \in i + 1 .. k : ~ fs[m].isMethod) =>
         \A m \in i .. k : fs[m].type # "Package"

MethodsFit(fs, ms) ==
  /\ Len(ms) = Cardinality(MethodsIn(fs, 1, Len(fs)))
  /\ \A i \in 1 .. Len(fs) :
       fs[i].isMethod /\ ms[Cardinality(MethodsIn(fs, 1, i))] = "load" => ~ fs[i].needResult

-----------------------------------------------------------------------------
(* How high a statement leaves the stack                                   *)

Extra(fs, i, h) ==
  LET f == fs[i] IN
  f.type # "Package" =>
    \/ Level(f, h) = f.start
    \/ /\ Level(f, h) = f.start + 1 /\ f.isMethod /\ ~ f.needResult
       /\ \/ i = 1
          \/ /\ i = Len(fs) /\ f.left = 0 /\ f.blocks = <<>>
             /\ fs[i - 1].blocks # <<>> \/ fs[i - 1].type = "Package"

Balanced(fs, os) ==
  /\ \A i \in 1 .. Len(fs) - 1 : Extra(fs, i, fs[i + 1].start)
  /\ fs # <<>> => Extra(fs, Len(fs), Len(os))
  /\ fs = <<>> => Len(os) <= 1
  /\ \A i, k \in 1 .. Len(fs) :
       i < k /\ (\A m \in i + 1 .. k : ~ fs[m].isMethod) /\ fs[k].type # "Package" =>
         fs[k].start = fs[i + 1].start

-----------------------------------------------------------------------------
(* The current scope                                                       *)

Innermost(fs, k) ==
  CHOOSE i \in 1 .. k : fs[i].type = "Scope" /\ \A j \in i + 1 .. k : fs[j].type # "Scope"
ScopeNumber(fs, k) ==
  IF Innermost(fs, k) = 1 /\ ~ fs[1].isMethod THEN 0 ELSE Innermost(fs, k)

ScopesFit(fs, sc) ==
  /\ \A i \in 2 .. Len(fs) : fs[i].type = "Scope" => fs[i].parent = ScopeNumber(fs, i - 1)
  /\ fs # <<>> =>
       LET f == fs[Len(fs)] IN
       f.left > 0 \/ f.blocks # <<>> \/ f.type # "Scope" => sc = ScopeNumber(fs, Len(fs))

-----------------------------------------------------------------------------
(* The invariant                                                           *)

\* A list has a connection only if it had an entry.
ListsFit(os) ==
  \A i \in 1 .. Len(os) : os[i].kind = "fields" /\ os[i].count > 0 =>
    MaxArgs > 0 /\ os[i].count <= 2

StacksTyped(fs, ms, os, sc) ==
  /\ fs \in Seq(Frame) /\ ms \in Seq({"method", "load"}) /\ os \in Seq(Object)
  /\ sc \in 0 .. MaxFrames

\* Only a Load can be the first method frame beyond the limit.
LimitKept(ms) ==
  Len(ms) > MaxDepth => "loadAtLimit" \in AmlMay /\ ms[MaxDepth + 1] = "load"

\* The stacks fit together, as they are between steps and where unwinding begins.
Fit(fs, ms, os, sc) ==
  /\ StacksTyped(fs, ms, os, sc) /\ ListsFit(os)
  /\ Shape(fs, os)
  /\ BlocksPlaced(fs) /\ FramesLinked(fs) /\ MethodsFit(fs, ms)
  /\ "literals" \notin AmlMay => Balanced(fs, os)
  /\ "leaveScope" \notin AmlMay => ScopesFit(fs, sc)
  /\ LimitKept(ms)

IInv ==
  /\ program \in Programs /\ status \in {"running", "success", "failed", "internal"}
  /\ Fit(frames, methodFrames, objects, scope)
  /\ "literals" \notin AmlMay => status # "internal"

-----------------------------------------------------------------------------
(* The scripts                                                             *)

\* What the proofs use of the script and of the operands of an opcode
ScriptFits(h, s, o, n) ==
  /\ Len(s) \in Nat /\ n \in 0 .. Len(s) /\ Len(o) \in Nat /\ o \in Seq(ObjectKinds)
  /\ \A i \in 1 .. n : Advances(s[i])
  /\ h \notin FieldOps \cup Packages \cup {"Call"} => n = Len(s)
  /\ h \in FieldOps => n = Len(s) - 2 /\ s[n + 1] = "StartFieldList" /\ s[n + 2] = "FieldList"
  /\ h = "Package" => n = 2 /\ Len(s) = 3 /\ s[1] = "PkgLength" /\ s[2] = "Byte"
                      /\ s[3] = "PkgElements"
  /\ h = "VarPackage" => n = 2 /\ Len(s) = 3 /\ s[1] = "PkgLength" /\ s[2] = "TermArg"
                         /\ s[3] = "VarPkgElements"
  /\ h = "Call" => n = 0 /\ Len(s) = 1 /\ s[1] = "MethodArgs"
  /\ h = "TermArg" => n = 1 /\ s[1] = "TermArg" /\ Len(o) = 0
  /\ h \notin Internal =>
       /\ Len(o) = IF h \in FieldOps THEN n + 1 ELSE n
       /\ \A i \in 1 .. n : o[i] = IF h = "VarPackage" /\ i = 2 THEN "len" ELSE KindOf(s[i])
  /\ h \in FieldOps => o[n + 1] = "fields"
Fits(h) == ScriptFits(h, Script(h), Operands(h), Adv(h))

\* Each operand advances and is of the type the handler takes.
Matches(s, o) ==
  /\ Len(s) \in Nat /\ Len(o) = Len(s) /\ o \in Seq(ObjectKinds)
  /\ \A i \in 1 .. Len(s) : Advances(s[i]) /\ o[i] = KindOf(s[i])

LEMMA MatchesFits ==
  ASSUME NEW h \in Handlers \ (FieldOps \cup Packages \cup Internal),
         Matches(Script(h), Operands(h))
  PROVE  Fits(h)
BY DEF Fits, ScriptFits, Matches, Adv, FieldOps, Packages, Internal

LEMMA ExpressionFits ==
  ASSUME NEW h \in Expressions \ Packages
  PROVE  Fits(h)
<1>1. Script(h) = ExpressionScript(h) /\ Operands(h) = ExpressionOperands(h)
  BY DEF Script, Operands, Expressions, NamedObjects, Statements, Internal,
         Constants, Arithmetic, Comparisons, Conversions, CreateFields, Scopes
<1>2. h \in Handlers \ (FieldOps \cup Packages \cup Internal)
  BY DEF Handlers, FieldOps, Packages, Expressions, NamedObjects, Statements, Internal,
         Constants, Arithmetic, Comparisons, Conversions, CreateFields, Scopes
<1>3. CASE h \in Constants
  <2>1. ExpressionScript(h) = <<>> /\ ExpressionOperands(h) = <<>>
    BY <1>3 DEF ExpressionScript, ExpressionOperands,
         Constants, Arithmetic, Comparisons, Conversions, CreateFields
  <2>2. Matches(<<>>, <<>>)
    BY DEF Matches, T, S, N, P, Advances, KindOf, ObjectKinds
  <2>3. QED
    BY <1>1, <1>2, <2>1, <2>2, MatchesFits
<1>4. CASE h \in Arithmetic \cup {"Concat", "ConcatRes", "Index"}
  <2>1. ExpressionScript(h) = T \o T \o S /\ ExpressionOperands(h) = <<"obj", "obj", "obj">>
    BY <1>4 DEF ExpressionScript, ExpressionOperands,
         Constants, Arithmetic, Comparisons, Conversions, CreateFields
  <2>2. Matches(T \o T \o S, <<"obj", "obj", "obj">>)
    BY DEF Matches, T, S, N, P, Advances, KindOf, ObjectKinds
  <2>3. QED
    BY <1>1, <1>2, <2>1, <2>2, MatchesFits
<1>5. CASE h \in Comparisons
  <2>1. ExpressionScript(h) = T \o T /\ ExpressionOperands(h) = <<"obj", "obj">>
    BY <1>5 DEF ExpressionScript, ExpressionOperands,
         Constants, Arithmetic, Comparisons, Conversions, CreateFields
  <2>2. Matches(T \o T, <<"obj", "obj">>)
    BY DEF Matches, T, S, N, P, Advances, KindOf, ObjectKinds
  <2>3. QED
    BY <1>1, <1>2, <2>1, <2>2, MatchesFits
<1>6. CASE h \in Conversions \cup {"Store", "CopyObject"}
  <2>1. ExpressionScript(h) = T \o S /\ ExpressionOperands(h) = <<"obj", "obj">>
    BY <1>6 DEF ExpressionScript, ExpressionOperands,
         Constants, Arithmetic, Comparisons, Conversions, CreateFields
  <2>2. Matches(T \o S, <<"obj", "obj">>)
    BY DEF Matches, T, S, N, P, Advances, KindOf, ObjectKinds
  <2>3. QED
    BY <1>1, <1>2, <2>1, <2>2, MatchesFits
<1>7. CASE h = "Divide"
  <2>1. ExpressionScript(h) = T \o T \o S \o S /\ ExpressionOperands(h) = <<"obj", "obj", "obj", "obj">>
    BY <1>7 DEF ExpressionScript, ExpressionOperands,
         Constants, Arithmetic, Comparisons, Conversions, CreateFields
  <2>2. Matches(T \o T \o S \o S, <<"obj", "obj", "obj", "obj">>)
    BY DEF Matches, T, S, N, P, Advances, KindOf, ObjectKinds
  <2>3. QED
    BY <1>1, <1>2, <2>1, <2>2, MatchesFits
<1>8. CASE h \in {"Increment", "Decrement", "RefOf", "SizeOf", "ObjectType"}
  <2>1. ExpressionScript(h) = S /\ ExpressionOperands(h) = <<"obj">>
    BY <1>8 DEF ExpressionScript, ExpressionOperands,
         Constants, Arithmetic, Comparisons, Conversions, CreateFields
  <2>2. Matches(S, <<"obj">>)
    BY DEF Matches, T, S, N, P, Advances, KindOf, ObjectKinds
  <2>3. QED
    BY <1>1, <1>2, <2>1, <2>2, MatchesFits
<1>9. CASE h \in {"DerefOf", "LNot"}
  <2>1. ExpressionScript(h) = T /\ ExpressionOperands(h) = <<"obj">>
    BY <1>9 DEF ExpressionScript, ExpressionOperands,
         Constants, Arithmetic, Comparisons, Conversions, CreateFields
  <2>2. Matches(T, <<"obj">>)
    BY DEF Matches, T, S, N, P, Advances, KindOf, ObjectKinds
  <2>3. QED
    BY <1>1, <1>2, <2>1, <2>2, MatchesFits
<1>10. CASE h = "CondRefOf"
  <2>1. ExpressionScript(h) = <<"SuperNameUnresolved">> \o S /\ ExpressionOperands(h) = <<"obj", "obj">>
    BY <1>10 DEF ExpressionScript, ExpressionOperands,
         Constants, Arithmetic, Comparisons, Conversions, CreateFields
  <2>2. Matches(<<"SuperNameUnresolved">> \o S, <<"obj", "obj">>)
    BY DEF Matches, T, S, N, P, Advances, KindOf, ObjectKinds
  <2>3. QED
    BY <1>1, <1>2, <2>1, <2>2, MatchesFits
<1>11. CASE h = "Match"
  <2>1. ExpressionScript(h) = T \o <<"Byte">> \o T \o <<"Byte">> \o T \o T /\ ExpressionOperands(h) = <<"obj", "len", "obj", "len", "obj", "obj">>
    BY <1>11 DEF ExpressionScript, ExpressionOperands,
         Constants, Arithmetic, Comparisons, Conversions, CreateFields
  <2>2. Matches(T \o <<"Byte">> \o T \o <<"Byte">> \o T \o T, <<"obj", "len", "obj", "len", "obj", "obj">>)
    BY DEF Matches, T, S, N, P, Advances, KindOf, ObjectKinds
  <2>3. QED
    BY <1>1, <1>2, <2>1, <2>2, MatchesFits
<1>12. CASE h = "Buffer"
  <2>1. ExpressionScript(h) = P \o T /\ ExpressionOperands(h) = <<"len", "obj">>
    BY <1>12 DEF ExpressionScript, ExpressionOperands,
         Constants, Arithmetic, Comparisons, Conversions, CreateFields
  <2>2. Matches(P \o T, <<"len", "obj">>)
    BY DEF Matches, T, S, N, P, Advances, KindOf, ObjectKinds
  <2>3. QED
    BY <1>1, <1>2, <2>1, <2>2, MatchesFits
<1>13. CASE h = "Acquire"
  <2>1. ExpressionScript(h) = S \o <<"Word">> /\ ExpressionOperands(h) = <<"obj", "len">>
    BY <1>13 DEF ExpressionScript, ExpressionOperands,
         Constants, Arithmetic, Comparisons, Conversions, CreateFields
  <2>2. Matches(S \o <<"Word">>, <<"obj", "len">>)
    BY DEF Matches, T, S, N, P, Advances, KindOf, ObjectKinds
  <2>3. QED
    BY <1>1, <1>2, <2>1, <2>2, MatchesFits
<1>14. CASE h = "Wait"
  <2>1. ExpressionScript(h) = S \o T /\ ExpressionOperands(h) = <<"obj", "obj">>
    BY <1>14 DEF ExpressionScript, ExpressionOperands,
         Constants, Arithmetic, Comparisons, Conversions, CreateFields
  <2>2. Matches(S \o T, <<"obj", "obj">>)
    BY DEF Matches, T, S, N, P, Advances, KindOf, ObjectKinds
  <2>3. QED
    BY <1>1, <1>2, <2>1, <2>2, MatchesFits
<1>15. CASE h = "Load"
  <2>1. ExpressionScript(h) = N \o S /\ ExpressionOperands(h) = <<"str", "obj">>
    BY <1>15 DEF ExpressionScript, ExpressionOperands,
         Constants, Arithmetic, Comparisons, Conversions, CreateFields
  <2>2. Matches(N \o S, <<"str", "obj">>)
    BY DEF Matches, T, S, N, P, Advances, KindOf, ObjectKinds
  <2>3. QED
    BY <1>1, <1>2, <2>1, <2>2, MatchesFits
<1>16. CASE h = "LoadTable"
  <2>1. ExpressionScript(h) = T \o T \o T \o T \o T \o T /\ ExpressionOperands(h) = <<"obj", "obj", "obj", "obj", "obj", "obj">>
    BY <1>16 DEF ExpressionScript, ExpressionOperands,
         Constants, Arithmetic, Comparisons, Conversions, CreateFields
  <2>2. Matches(T \o T \o T \o T \o T \o T, <<"obj", "obj", "obj", "obj", "obj", "obj">>)
    BY DEF Matches, T, S, N, P, Advances, KindOf, ObjectKinds
  <2>3. QED
    BY <1>1, <1>2, <2>1, <2>2, MatchesFits
<1>17. QED
  BY <1>3, <1>4, <1>5, <1>6, <1>7, <1>8, <1>9, <1>10, <1>11, <1>12, <1>13, <1>14, <1>15, <1>16 DEF FieldOps, Packages, Expressions, NamedObjects, Statements, Internal,
         Constants, Arithmetic, Comparisons, Conversions, CreateFields, Scopes

LEMMA NamedFits ==
  ASSUME NEW h \in NamedObjects \ FieldOps
  PROVE  Fits(h)
<1>1. Script(h) = NamedScript(h) /\ Operands(h) = NamedOperands(h)
  BY DEF Script, Operands, Expressions, NamedObjects, Statements, Internal,
         Constants, Arithmetic, Comparisons, Conversions, CreateFields, Scopes
<1>2. h \in Handlers \ (FieldOps \cup Packages \cup Internal)
  BY DEF Handlers, FieldOps, Packages, Expressions, NamedObjects, Statements, Internal,
         Constants, Arithmetic, Comparisons, Conversions, CreateFields, Scopes
<1>3. CASE h \in CreateFields
  <2>1. NamedScript(h) = T \o T \o N /\ NamedOperands(h) = <<"obj", "obj", "str">>
    BY <1>3 DEF NamedScript, NamedOperands,
         Constants, Arithmetic, Comparisons, Conversions, CreateFields
  <2>2. Matches(T \o T \o N, <<"obj", "obj", "str">>)
    BY DEF Matches, T, S, N, P, Advances, KindOf, ObjectKinds
  <2>3. QED
    BY <1>1, <1>2, <2>1, <2>2, MatchesFits
<1>4. CASE h = "CreateField"
  <2>1. NamedScript(h) = T \o T \o T \o N /\ NamedOperands(h) = <<"obj", "obj", "obj", "str">>
    BY <1>4 DEF NamedScript, NamedOperands,
         Constants, Arithmetic, Comparisons, Conversions, CreateFields
  <2>2. Matches(T \o T \o T \o N, <<"obj", "obj", "obj", "str">>)
    BY DEF Matches, T, S, N, P, Advances, KindOf, ObjectKinds
  <2>3. QED
    BY <1>1, <1>2, <2>1, <2>2, MatchesFits
<1>5. CASE h \in {"Scope", "Device", "ThermalZone"}
  <2>1. NamedScript(h) = P \o N /\ NamedOperands(h) = <<"len", "str">>
    BY <1>5 DEF NamedScript, NamedOperands,
         Constants, Arithmetic, Comparisons, Conversions, CreateFields
  <2>2. Matches(P \o N, <<"len", "str">>)
    BY DEF Matches, T, S, N, P, Advances, KindOf, ObjectKinds
  <2>3. QED
    BY <1>1, <1>2, <2>1, <2>2, MatchesFits
<1>6. CASE h = "PowerRes"
  <2>1. NamedScript(h) = P \o N \o <<"Byte", "Word">> /\ NamedOperands(h) = <<"len", "str", "len", "len">>
    BY <1>6 DEF NamedScript, NamedOperands,
         Constants, Arithmetic, Comparisons, Conversions, CreateFields
  <2>2. Matches(P \o N \o <<"Byte", "Word">>, <<"len", "str", "len", "len">>)
    BY DEF Matches, T, S, N, P, Advances, KindOf, ObjectKinds
  <2>3. QED
    BY <1>1, <1>2, <2>1, <2>2, MatchesFits
<1>7. CASE h = "Processor"
  <2>1. NamedScript(h) = P \o N \o <<"Byte", "DWord", "Byte">> /\ NamedOperands(h) = <<"len", "str", "len", "len", "len">>
    BY <1>7 DEF NamedScript, NamedOperands,
         Constants, Arithmetic, Comparisons, Conversions, CreateFields
  <2>2. Matches(P \o N \o <<"Byte", "DWord", "Byte">>, <<"len", "str", "len", "len", "len">>)
    BY DEF Matches, T, S, N, P, Advances, KindOf, ObjectKinds
  <2>3. QED
    BY <1>1, <1>2, <2>1, <2>2, MatchesFits
<1>8. CASE h = "Name"
  <2>1. NamedScript(h) = N \o T /\ NamedOperands(h) = <<"str", "obj">>
    BY <1>8 DEF NamedScript, NamedOperands,
         Constants, Arithmetic, Comparisons, Conversions, CreateFields
  <2>2. Matches(N \o T, <<"str", "obj">>)
    BY DEF Matches, T, S, N, P, Advances, KindOf, ObjectKinds
  <2>3. QED
    BY <1>1, <1>2, <2>1, <2>2, MatchesFits
<1>9. CASE h = "Alias"
  <2>1. NamedScript(h) = N \o N /\ NamedOperands(h) = <<"str", "str">>
    BY <1>9 DEF NamedScript, NamedOperands,
         Constants, Arithmetic, Comparisons, Conversions, CreateFields
  <2>2. Matches(N \o N, <<"str", "str">>)
    BY DEF Matches, T, S, N, P, Advances, KindOf, ObjectKinds
  <2>3. QED
    BY <1>1, <1>2, <2>1, <2>2, MatchesFits
<1>10. CASE h = "Method"
  <2>1. NamedScript(h) = P \o N \o <<"Byte">> /\ NamedOperands(h) = <<"len", "str", "len">>
    BY <1>10 DEF NamedScript, NamedOperands,
         Constants, Arithmetic, Comparisons, Conversions, CreateFields
  <2>2. Matches(P \o N \o <<"Byte">>, <<"len", "str", "len">>)
    BY DEF Matches, T, S, N, P, Advances, KindOf, ObjectKinds
  <2>3. QED
    BY <1>1, <1>2, <2>1, <2>2, MatchesFits
<1>11. CASE h = "External"
  <2>1. NamedScript(h) = N \o <<"Byte", "Byte">> /\ NamedOperands(h) = <<"str", "len", "len">>
    BY <1>11 DEF NamedScript, NamedOperands,
         Constants, Arithmetic, Comparisons, Conversions, CreateFields
  <2>2. Matches(N \o <<"Byte", "Byte">>, <<"str", "len", "len">>)
    BY DEF Matches, T, S, N, P, Advances, KindOf, ObjectKinds
  <2>3. QED
    BY <1>1, <1>2, <2>1, <2>2, MatchesFits
<1>12. CASE h = "Mutex"
  <2>1. NamedScript(h) = N \o <<"Byte">> /\ NamedOperands(h) = <<"str", "len">>
    BY <1>12 DEF NamedScript, NamedOperands,
         Constants, Arithmetic, Comparisons, Conversions, CreateFields
  <2>2. Matches(N \o <<"Byte">>, <<"str", "len">>)
    BY DEF Matches, T, S, N, P, Advances, KindOf, ObjectKinds
  <2>3. QED
    BY <1>1, <1>2, <2>1, <2>2, MatchesFits
<1>13. CASE h = "Event"
  <2>1. NamedScript(h) = N /\ NamedOperands(h) = <<"str">>
    BY <1>13 DEF NamedScript, NamedOperands,
         Constants, Arithmetic, Comparisons, Conversions, CreateFields
  <2>2. Matches(N, <<"str">>)
    BY DEF Matches, T, S, N, P, Advances, KindOf, ObjectKinds
  <2>3. QED
    BY <1>1, <1>2, <2>1, <2>2, MatchesFits
<1>14. CASE h = "OpRegion"
  <2>1. NamedScript(h) = N \o <<"Byte">> \o T \o T /\ NamedOperands(h) = <<"str", "len", "obj", "obj">>
    BY <1>14 DEF NamedScript, NamedOperands,
         Constants, Arithmetic, Comparisons, Conversions, CreateFields
  <2>2. Matches(N \o <<"Byte">> \o T \o T, <<"str", "len", "obj", "obj">>)
    BY DEF Matches, T, S, N, P, Advances, KindOf, ObjectKinds
  <2>3. QED
    BY <1>1, <1>2, <2>1, <2>2, MatchesFits
<1>15. CASE h = "DataRegion"
  <2>1. NamedScript(h) = N \o T \o T \o T /\ NamedOperands(h) = <<"str", "obj", "obj", "obj">>
    BY <1>15 DEF NamedScript, NamedOperands,
         Constants, Arithmetic, Comparisons, Conversions, CreateFields
  <2>2. Matches(N \o T \o T \o T, <<"str", "obj", "obj", "obj">>)
    BY DEF Matches, T, S, N, P, Advances, KindOf, ObjectKinds
  <2>3. QED
    BY <1>1, <1>2, <2>1, <2>2, MatchesFits
<1>16. QED
  BY <1>3, <1>4, <1>5, <1>6, <1>7, <1>8, <1>9, <1>10, <1>11, <1>12, <1>13, <1>14, <1>15 DEF FieldOps, Packages, Expressions, NamedObjects, Statements, Internal,
         Constants, Arithmetic, Comparisons, Conversions, CreateFields, Scopes

LEMMA StatementFits ==
  ASSUME NEW h \in Statements
  PROVE  Fits(h)
<1>1. Script(h) = StatementScript(h) /\ Operands(h) = StatementOperands(h)
  BY DEF Script, Operands, Expressions, NamedObjects, Statements, Internal,
         Constants, Arithmetic, Comparisons, Conversions, CreateFields, Scopes
<1>2. h \in Handlers \ (FieldOps \cup Packages \cup Internal)
  BY DEF Handlers, FieldOps, Packages, Expressions, NamedObjects, Statements, Internal,
         Constants, Arithmetic, Comparisons, Conversions, CreateFields, Scopes
<1>3. CASE h \in {"If", "While"}
  <2>1. StatementScript(h) = P \o T /\ StatementOperands(h) = <<"len", "obj">>
    BY <1>3 DEF StatementScript, StatementOperands,
         Constants, Arithmetic, Comparisons, Conversions, CreateFields
  <2>2. Matches(P \o T, <<"len", "obj">>)
    BY DEF Matches, T, S, N, P, Advances, KindOf, ObjectKinds
  <2>3. QED
    BY <1>1, <1>2, <2>1, <2>2, MatchesFits
<1>4. CASE h = "Else"
  <2>1. StatementScript(h) = P /\ StatementOperands(h) = <<"len">>
    BY <1>4 DEF StatementScript, StatementOperands,
         Constants, Arithmetic, Comparisons, Conversions, CreateFields
  <2>2. Matches(P, <<"len">>)
    BY DEF Matches, T, S, N, P, Advances, KindOf, ObjectKinds
  <2>3. QED
    BY <1>1, <1>2, <2>1, <2>2, MatchesFits
<1>5. CASE h \in {"Return", "Stall", "Sleep"}
  <2>1. StatementScript(h) = T /\ StatementOperands(h) = <<"obj">>
    BY <1>5 DEF StatementScript, StatementOperands,
         Constants, Arithmetic, Comparisons, Conversions, CreateFields
  <2>2. Matches(T, <<"obj">>)
    BY DEF Matches, T, S, N, P, Advances, KindOf, ObjectKinds
  <2>3. QED
    BY <1>1, <1>2, <2>1, <2>2, MatchesFits
<1>6. CASE h \in {"Break", "Continue", "Noop", "BreakPoint"}
  <2>1. StatementScript(h) = <<>> /\ StatementOperands(h) = <<>>
    BY <1>6 DEF StatementScript, StatementOperands,
         Constants, Arithmetic, Comparisons, Conversions, CreateFields
  <2>2. Matches(<<>>, <<>>)
    BY DEF Matches, T, S, N, P, Advances, KindOf, ObjectKinds
  <2>3. QED
    BY <1>1, <1>2, <2>1, <2>2, MatchesFits
<1>7. CASE h = "Notify"
  <2>1. StatementScript(h) = S \o T /\ StatementOperands(h) = <<"obj", "obj">>
    BY <1>7 DEF StatementScript, StatementOperands,
         Constants, Arithmetic, Comparisons, Conversions, CreateFields
  <2>2. Matches(S \o T, <<"obj", "obj">>)
    BY DEF Matches, T, S, N, P, Advances, KindOf, ObjectKinds
  <2>3. QED
    BY <1>1, <1>2, <2>1, <2>2, MatchesFits
<1>8. CASE h \in {"Signal", "Reset", "Release"}
  <2>1. StatementScript(h) = S /\ StatementOperands(h) = <<"obj">>
    BY <1>8 DEF StatementScript, StatementOperands,
         Constants, Arithmetic, Comparisons, Conversions, CreateFields
  <2>2. Matches(S, <<"obj">>)
    BY DEF Matches, T, S, N, P, Advances, KindOf, ObjectKinds
  <2>3. QED
    BY <1>1, <1>2, <2>1, <2>2, MatchesFits
<1>9. CASE h = "Fatal"
  <2>1. StatementScript(h) = <<"Byte", "DWord">> \o T /\ StatementOperands(h) = <<"len", "len", "obj">>
    BY <1>9 DEF StatementScript, StatementOperands,
         Constants, Arithmetic, Comparisons, Conversions, CreateFields
  <2>2. Matches(<<"Byte", "DWord">> \o T, <<"len", "len", "obj">>)
    BY DEF Matches, T, S, N, P, Advances, KindOf, ObjectKinds
  <2>3. QED
    BY <1>1, <1>2, <2>1, <2>2, MatchesFits
<1>10. QED
  BY <1>3, <1>4, <1>5, <1>6, <1>7, <1>8, <1>9 DEF FieldOps, Packages, Expressions, NamedObjects, Statements, Internal,
         Constants, Arithmetic, Comparisons, Conversions, CreateFields, Scopes

LEMMA ScriptsFit ==
  ASSUME NEW h \in Handlers
  PROVE  Fits(h)
<1>1. CASE h = "Field"
  <2>1. Script(h) = NamedScript(h) /\ Operands(h) = NamedOperands(h)
    BY <1>1 DEF Script, Operands, Expressions, NamedObjects, Statements, Internal,
         Constants, Arithmetic, Comparisons, Conversions, CreateFields, Scopes
  <2>2. NamedScript(h) = P \o N \o <<"Byte", "StartFieldList", "FieldList">> /\ NamedOperands(h) = <<"len", "str", "len", "fields">>
    BY <1>1 DEF NamedScript, NamedOperands, Constants, Arithmetic, Comparisons, Conversions, CreateFields
  <2>3. PICK s, o : s = Script(h) /\ o = Operands(h)
    OBVIOUS
  <2>4. Len(s) = 5 /\ s[1] = "PkgLength" /\ s[2] = "NameString" /\ s[3] = "Byte" /\ s[4] = "StartFieldList" /\ s[5] = "FieldList"
    <3>1. LET x == P \o N \o <<"Byte", "StartFieldList", "FieldList">> IN Len(x) = 5 /\ x[1] = "PkgLength" /\ x[2] = "NameString" /\ x[3] = "Byte" /\ x[4] = "StartFieldList" /\ x[5] = "FieldList"
      BY DEF T, S, N, P
    <3>2. QED
      BY <2>1, <2>2, <2>3, <3>1
  <2>5. o \in Seq(ObjectKinds) /\ Len(o) = 4
        /\ o[1] = "len" /\ o[2] = "str" /\ o[3] = "len" /\ o[4] = "fields"
    <3>1. LET x == <<"len", "str", "len", "fields">> IN x \in Seq(ObjectKinds) /\ Len(x) = 4
            /\ x[1] = "len" /\ x[2] = "str" /\ x[3] = "len" /\ x[4] = "fields"
      BY DEF ObjectKinds
    <3>2. QED
      BY <2>1, <2>2, <2>3, <3>1
  <2>6. Adv(h) = 3
    BY <1>1, <2>3, <2>4 DEF Adv, FieldOps, Packages
  <2>7. \A i \in 1 .. 3 : Advances(s[i]) /\ o[i] = IF h = "VarPackage" /\ i = 2 THEN "len" ELSE KindOf(s[i])
    BY <1>1, <2>4, <2>5 DEF Advances, KindOf
  <2>8. /\ h \in FieldOps /\ h \notin Internal
        /\ h # "Package" /\ h # "VarPackage" /\ h # "Call" /\ h # "TermArg" /\ h \in FieldOps \cup Packages \cup {"Call"}
    BY <1>1 DEF FieldOps, Internal, Packages
  <2>9. ScriptFits(h, s, o, 3)
    BY <1>1, <2>3, <2>4, <2>5, <2>6, <2>7, <2>8 DEF ScriptFits
  <2>10. QED
    BY <2>3, <2>6, <2>9 DEF Fits
<1>2. CASE h = "IndexField"
  <2>1. Script(h) = NamedScript(h) /\ Operands(h) = NamedOperands(h)
    BY <1>2 DEF Script, Operands, Expressions, NamedObjects, Statements, Internal,
         Constants, Arithmetic, Comparisons, Conversions, CreateFields, Scopes
  <2>2. NamedScript(h) = P \o N \o N \o <<"Byte", "StartFieldList", "FieldList">> /\ NamedOperands(h) = <<"len", "str", "str", "len", "fields">>
    BY <1>2 DEF NamedScript, NamedOperands, Constants, Arithmetic, Comparisons, Conversions, CreateFields
  <2>3. PICK s, o : s = Script(h) /\ o = Operands(h)
    OBVIOUS
  <2>4. Len(s) = 6 /\ s[1] = "PkgLength" /\ s[2] = "NameString" /\ s[3] = "NameString" /\ s[4] = "Byte" /\ s[5] = "StartFieldList" /\ s[6] = "FieldList"
    <3>1. LET x == P \o N \o N \o <<"Byte", "StartFieldList", "FieldList">> IN Len(x) = 6 /\ x[1] = "PkgLength" /\ x[2] = "NameString" /\ x[3] = "NameString" /\ x[4] = "Byte" /\ x[5] = "StartFieldList" /\ x[6] = "FieldList"
      BY DEF T, S, N, P
    <3>2. QED
      BY <2>1, <2>2, <2>3, <3>1
  <2>5. o \in Seq(ObjectKinds) /\ Len(o) = 5
        /\ o[1] = "len" /\ o[2] = "str" /\ o[3] = "str" /\ o[4] = "len" /\ o[5] = "fields"
    <3>1. LET x == <<"len", "str", "str", "len", "fields">> IN x \in Seq(ObjectKinds) /\ Len(x) = 5
            /\ x[1] = "len" /\ x[2] = "str" /\ x[3] = "str" /\ x[4] = "len" /\ x[5] = "fields"
      BY DEF ObjectKinds
    <3>2. QED
      BY <2>1, <2>2, <2>3, <3>1
  <2>6. Adv(h) = 4
    BY <1>2, <2>3, <2>4 DEF Adv, FieldOps, Packages
  <2>7. \A i \in 1 .. 4 : Advances(s[i]) /\ o[i] = IF h = "VarPackage" /\ i = 2 THEN "len" ELSE KindOf(s[i])
    BY <1>2, <2>4, <2>5 DEF Advances, KindOf
  <2>8. /\ h \in FieldOps /\ h \notin Internal
        /\ h # "Package" /\ h # "VarPackage" /\ h # "Call" /\ h # "TermArg" /\ h \in FieldOps \cup Packages \cup {"Call"}
    BY <1>2 DEF FieldOps, Internal, Packages
  <2>9. ScriptFits(h, s, o, 4)
    BY <1>2, <2>3, <2>4, <2>5, <2>6, <2>7, <2>8 DEF ScriptFits
  <2>10. QED
    BY <2>3, <2>6, <2>9 DEF Fits
<1>3. CASE h = "BankField"
  <2>1. Script(h) = NamedScript(h) /\ Operands(h) = NamedOperands(h)
    BY <1>3 DEF Script, Operands, Expressions, NamedObjects, Statements, Internal,
         Constants, Arithmetic, Comparisons, Conversions, CreateFields, Scopes
  <2>2. NamedScript(h) = P \o N \o N \o T \o <<"Byte", "StartFieldList", "FieldList">> /\ NamedOperands(h) = <<"len", "str", "str", "obj", "len", "fields">>
    BY <1>3 DEF NamedScript, NamedOperands, Constants, Arithmetic, Comparisons, Conversions, CreateFields
  <2>3. PICK s, o : s = Script(h) /\ o = Operands(h)
    OBVIOUS
  <2>4. Len(s) = 7 /\ s[1] = "PkgLength" /\ s[2] = "NameString" /\ s[3] = "NameString" /\ s[4] = "TermArg" /\ s[5] = "Byte" /\ s[6] = "StartFieldList" /\ s[7] = "FieldList"
    <3>1. LET x == P \o N \o N \o T \o <<"Byte", "StartFieldList", "FieldList">> IN Len(x) = 7 /\ x[1] = "PkgLength" /\ x[2] = "NameString" /\ x[3] = "NameString" /\ x[4] = "TermArg" /\ x[5] = "Byte" /\ x[6] = "StartFieldList" /\ x[7] = "FieldList"
      BY DEF T, S, N, P
    <3>2. QED
      BY <2>1, <2>2, <2>3, <3>1
  <2>5. o \in Seq(ObjectKinds) /\ Len(o) = 6
        /\ o[1] = "len" /\ o[2] = "str" /\ o[3] = "str" /\ o[4] = "obj" /\ o[5] = "len" /\ o[6] = "fields"
    <3>1. LET x == <<"len", "str", "str", "obj", "len", "fields">> IN x \in Seq(ObjectKinds) /\ Len(x) = 6
            /\ x[1] = "len" /\ x[2] = "str" /\ x[3] = "str" /\ x[4] = "obj" /\ x[5] = "len" /\ x[6] = "fields"
      BY DEF ObjectKinds
    <3>2. QED
      BY <2>1, <2>2, <2>3, <3>1
  <2>6. Adv(h) = 5
    BY <1>3, <2>3, <2>4 DEF Adv, FieldOps, Packages
  <2>7. \A i \in 1 .. 5 : Advances(s[i]) /\ o[i] = IF h = "VarPackage" /\ i = 2 THEN "len" ELSE KindOf(s[i])
    BY <1>3, <2>4, <2>5 DEF Advances, KindOf
  <2>8. /\ h \in FieldOps /\ h \notin Internal
        /\ h # "Package" /\ h # "VarPackage" /\ h # "Call" /\ h # "TermArg" /\ h \in FieldOps \cup Packages \cup {"Call"}
    BY <1>3 DEF FieldOps, Internal, Packages
  <2>9. ScriptFits(h, s, o, 5)
    BY <1>3, <2>3, <2>4, <2>5, <2>6, <2>7, <2>8 DEF ScriptFits
  <2>10. QED
    BY <2>3, <2>6, <2>9 DEF Fits
<1>4. CASE h = "Package"
  <2>1. Script(h) = ExpressionScript(h) /\ Operands(h) = ExpressionOperands(h)
    BY <1>4 DEF Script, Operands, Expressions, NamedObjects, Statements, Internal,
         Constants, Arithmetic, Comparisons, Conversions, CreateFields, Scopes
  <2>2. ExpressionScript(h) = P \o <<"Byte", "PkgElements">> /\ ExpressionOperands(h) = <<"len", "len">>
    BY <1>4 DEF ExpressionScript, ExpressionOperands, Constants, Arithmetic, Comparisons, Conversions, CreateFields
  <2>3. PICK s, o : s = Script(h) /\ o = Operands(h)
    OBVIOUS
  <2>4. Len(s) = 3 /\ s[1] = "PkgLength" /\ s[2] = "Byte" /\ s[3] = "PkgElements"
    <3>1. LET x == P \o <<"Byte", "PkgElements">> IN Len(x) = 3 /\ x[1] = "PkgLength" /\ x[2] = "Byte" /\ x[3] = "PkgElements"
      BY DEF T, S, N, P
    <3>2. QED
      BY <2>1, <2>2, <2>3, <3>1
  <2>5. o \in Seq(ObjectKinds) /\ Len(o) = 2
        /\ o[1] = "len" /\ o[2] = "len"
    <3>1. LET x == <<"len", "len">> IN x \in Seq(ObjectKinds) /\ Len(x) = 2
            /\ x[1] = "len" /\ x[2] = "len"
      BY DEF ObjectKinds
    <3>2. QED
      BY <2>1, <2>2, <2>3, <3>1
  <2>6. Adv(h) = 2
    BY <1>4, <2>3, <2>4 DEF Adv, FieldOps, Packages
  <2>7. \A i \in 1 .. 2 : Advances(s[i]) /\ o[i] = IF h = "VarPackage" /\ i = 2 THEN "len" ELSE KindOf(s[i])
    BY <1>4, <2>4, <2>5 DEF Advances, KindOf
  <2>8. /\ h \notin FieldOps /\ h \notin Internal
        /\ h # "VarPackage" /\ h # "Call" /\ h # "TermArg" /\ h \in FieldOps \cup Packages \cup {"Call"}
    BY <1>4 DEF FieldOps, Internal, Packages
  <2>9. ScriptFits(h, s, o, 2)
    BY <1>4, <2>3, <2>4, <2>5, <2>6, <2>7, <2>8 DEF ScriptFits
  <2>10. QED
    BY <2>3, <2>6, <2>9 DEF Fits
<1>5. CASE h = "VarPackage"
  <2>1. Script(h) = ExpressionScript(h) /\ Operands(h) = ExpressionOperands(h)
    BY <1>5 DEF Script, Operands, Expressions, NamedObjects, Statements, Internal,
         Constants, Arithmetic, Comparisons, Conversions, CreateFields, Scopes
  <2>2. ExpressionScript(h) = P \o T \o <<"VarPkgElements">> /\ ExpressionOperands(h) = <<"len", "len">>
    BY <1>5 DEF ExpressionScript, ExpressionOperands, Constants, Arithmetic, Comparisons, Conversions, CreateFields
  <2>3. PICK s, o : s = Script(h) /\ o = Operands(h)
    OBVIOUS
  <2>4. Len(s) = 3 /\ s[1] = "PkgLength" /\ s[2] = "TermArg" /\ s[3] = "VarPkgElements"
    <3>1. LET x == P \o T \o <<"VarPkgElements">> IN Len(x) = 3 /\ x[1] = "PkgLength" /\ x[2] = "TermArg" /\ x[3] = "VarPkgElements"
      BY DEF T, S, N, P
    <3>2. QED
      BY <2>1, <2>2, <2>3, <3>1
  <2>5. o \in Seq(ObjectKinds) /\ Len(o) = 2
        /\ o[1] = "len" /\ o[2] = "len"
    <3>1. LET x == <<"len", "len">> IN x \in Seq(ObjectKinds) /\ Len(x) = 2
            /\ x[1] = "len" /\ x[2] = "len"
      BY DEF ObjectKinds
    <3>2. QED
      BY <2>1, <2>2, <2>3, <3>1
  <2>6. Adv(h) = 2
    BY <1>5, <2>3, <2>4 DEF Adv, FieldOps, Packages
  <2>7. \A i \in 1 .. 2 : Advances(s[i]) /\ o[i] = IF h = "VarPackage" /\ i = 2 THEN "len" ELSE KindOf(s[i])
    BY <1>5, <2>4, <2>5 DEF Advances, KindOf
  <2>8. /\ h \notin FieldOps /\ h \notin Internal
        /\ h # "Package" /\ h # "Call" /\ h # "TermArg" /\ h \in FieldOps \cup Packages \cup {"Call"}
    BY <1>5 DEF FieldOps, Internal, Packages
  <2>9. ScriptFits(h, s, o, 2)
    BY <1>5, <2>3, <2>4, <2>5, <2>6, <2>7, <2>8 DEF ScriptFits
  <2>10. QED
    BY <2>3, <2>6, <2>9 DEF Fits
<1>6. CASE h = "Call"
  <2>1. Script(h) = InternalScript(h) /\ Operands(h) = <<"args">>
    BY <1>6 DEF Script, Operands, Expressions, NamedObjects, Statements, Internal,
         Constants, Arithmetic, Comparisons, Conversions, CreateFields, Scopes
  <2>2. InternalScript(h) = <<"MethodArgs">> /\ <<"args">> = <<"args">>
    BY <1>6 DEF InternalScript, Constants, Arithmetic, Comparisons, Conversions, CreateFields
  <2>3. PICK s, o : s = Script(h) /\ o = Operands(h)
    OBVIOUS
  <2>4. Len(s) = 1 /\ s[1] = "MethodArgs"
    <3>1. LET x == <<"MethodArgs">> IN Len(x) = 1 /\ x[1] = "MethodArgs"
      BY DEF T, S, N, P
    <3>2. QED
      BY <2>1, <2>2, <2>3, <3>1
  <2>5. o \in Seq(ObjectKinds) /\ Len(o) = 1
        /\ o[1] = "args"
    <3>1. LET x == <<"args">> IN x \in Seq(ObjectKinds) /\ Len(x) = 1
            /\ x[1] = "args"
      BY DEF ObjectKinds
    <3>2. QED
      BY <2>1, <2>2, <2>3, <3>1
  <2>6. Adv(h) = 0
    BY <1>6, <2>3, <2>4 DEF Adv, FieldOps, Packages
  <2>7. /\ h \notin FieldOps /\ h \in Internal
        /\ h # "Package" /\ h # "VarPackage" /\ h # "TermArg" /\ h \in FieldOps \cup Packages \cup {"Call"}
    BY <1>6 DEF FieldOps, Internal, Packages
  <2>8. ScriptFits(h, s, o, 0)
    BY <1>6, <2>3, <2>4, <2>5, <2>6, <2>7 DEF ScriptFits
  <2>9. QED
    BY <2>3, <2>6, <2>8 DEF Fits
<1>7. CASE h = "TermArg"
  <2>1. Script(h) = InternalScript(h) /\ Operands(h) = <<>>
    BY <1>7 DEF Script, Operands, Expressions, NamedObjects, Statements, Internal,
         Constants, Arithmetic, Comparisons, Conversions, CreateFields, Scopes
  <2>2. InternalScript(h) = T /\ <<>> = <<>>
    BY <1>7 DEF InternalScript, Constants, Arithmetic, Comparisons, Conversions, CreateFields
  <2>3. PICK s, o : s = Script(h) /\ o = Operands(h)
    OBVIOUS
  <2>4. Len(s) = 1 /\ s[1] = "TermArg"
    <3>1. LET x == T IN Len(x) = 1 /\ x[1] = "TermArg"
      BY DEF T, S, N, P
    <3>2. QED
      BY <2>1, <2>2, <2>3, <3>1
  <2>5. o \in Seq(ObjectKinds) /\ Len(o) = 0
    <3>1. LET x == <<>> IN x \in Seq(ObjectKinds) /\ Len(x) = 0
      BY DEF ObjectKinds
    <3>2. QED
      BY <2>1, <2>2, <2>3, <3>1
  <2>6. Adv(h) = 1
    BY <1>7, <2>3, <2>4 DEF Adv, FieldOps, Packages
  <2>7. \A i \in 1 .. 1 : Advances(s[i])
    BY <1>7, <2>4, <2>5 DEF Advances, KindOf
  <2>8. /\ h \notin FieldOps /\ h \in Internal
        /\ h # "Package" /\ h # "VarPackage" /\ h # "Call"
    BY <1>7 DEF FieldOps, Internal, Packages
  <2>9. ScriptFits(h, s, o, 1)
    BY <1>7, <2>3, <2>4, <2>5, <2>6, <2>7, <2>8 DEF ScriptFits
  <2>10. QED
    BY <2>3, <2>6, <2>9 DEF Fits
<1>8. QED
  BY <1>1, <1>2, <1>3, <1>4, <1>5, <1>6, <1>7, ExpressionFits, NamedFits, StatementFits
  DEF Handlers, FieldOps, Packages, Internal

-----------------------------------------------------------------------------
(* The shape of the object stack under changes above a height              *)

\* The same objects up to n
Same(os, w, n) == n <= Len(os) /\ n <= Len(w) /\ \A i \in 1 .. n : w[i] = os[i]

LEMMA Bases ==
  ASSUME NEW b \in Block
  PROVE  /\ Adv(b.op) \in Nat /\ Base(b) \in Int /\ b.start \in Nat /\ b.ip \in Nat
         /\ b.op \in Handlers /\ b.processed \in BOOLEAN /\ b.wanted \in BOOLEAN
         /\ b.ip >= 1 => Base(b) <= b.start
<1>1. b.op \in Handlers /\ b.start \in Nat /\ b.ip \in Nat /\ b.processed \in BOOLEAN
      /\ b.wanted \in BOOLEAN
  BY DEF Block
<1>2. Adv(b.op) \in Nat
  BY <1>1, ScriptsFit DEF Fits, ScriptFits
<1>3. QED
  BY <1>1, <1>2 DEF Base

LEMMA ObjsSame ==
  ASSUME NEW os, NEW w, NEW n \in Int, Same(os, w, n), NEW a \in Nat, NEW h \in Int,
         a >= 1, h <= n, Objs(os, a, h)
  PROVE  Objs(w, a, h)
BY DEF Same, Objs

LEMMA CollectedSame ==
  ASSUME NEW os, NEW w, NEW b \in Block, Collected(b, os), Same(os, w, b.start)
  PROVE  Collected(b, w)
<1>1. \A n \in 1 .. b.start - Base(b) : Base(b) + n \in 1 .. b.start
  BY Bases DEF Collected
<1>2. QED
  BY <1>1 DEF Collected, Same

LEMMA WaitsSame ==
  ASSUME NEW os, NEW w, NEW b \in Block, NEW h \in Int, Same(os, w, h)
  PROVE  /\ Waits(b, os, h) => Waits(b, w, h)
         /\ FieldsWait(b, os, h) => FieldsWait(b, w, h)
         /\ PackageWaits(b, os, h) => PackageWaits(b, w, h)
<1>1. b.start \in Nat
  BY Bases
<1>2. ASSUME Objs(os, b.start + 1, h)
      PROVE  Objs(w, b.start + 1, h)
  BY <1>1, <1>2, ObjsSame
<1>3. ASSUME Objs(os, b.start + 2, h)
      PROVE  Objs(w, b.start + 2, h)
  BY <1>1, <1>3, ObjsSame
<1>4. CallWaits(b, os, h) => CallWaits(b, w, h)
  BY <1>1 DEF CallWaits, Same
<1>5. FieldsWait(b, os, h) => FieldsWait(b, w, h)
  BY <1>1 DEF FieldsWait, Same
<1>6. QED
  BY <1>2, <1>3, <1>4, <1>5 DEF Waits, PackageWaits, OperandWaits

\* The types that the lemmas on frames need
Typed(f) == f.start \in Nat /\ f.blocks \in Seq(Block)

LEMMA FrameSame ==
  ASSUME NEW os, NEW w, NEW f, Typed(f), NEW h \in Int, FrameFine(f, os, h), Same(os, w, h)
  PROVE  FrameFine(f, w, h)
<1> DEFINE bs == f.blocks
<1>1. /\ f.start \in Nat /\ Len(bs) \in Nat
      /\ \A j \in 1 .. Len(bs) : bs[j] \in Block /\ Base(bs[j]) \in Int
  BY Bases DEF Typed
<1>2. ASSUME NEW j \in 1 .. Len(bs)
      PROVE  Collected(bs[j], w) /\ bs[j].start <= h /\ Base(bs[j]) <= h
  <2>1. bs[j] \in Block /\ bs[j].start \in Nat /\ Collected(bs[j], os) /\ bs[j].start <= h
    BY <1>1, Bases DEF FrameFine
  <2>2. Same(os, w, bs[j].start)
    BY <2>1 DEF Same
  <2>3. Base(bs[j]) <= bs[j].start
    BY <2>1, Bases DEF Collected
  <2>4. QED
    BY <1>1, <2>1, <2>2, <2>3, CollectedSame
<1>3. ASSUME NEW j \in 1 .. Len(bs) - 1
      PROVE  \/ Waits(bs[j], w, Base(bs[j + 1]))
             \/ FieldsWait(bs[j], w, Base(bs[j + 1])) /\ bs[j + 1].op = "TermArg"
  <2>1. j + 1 \in 1 .. Len(bs) /\ j \in 1 .. Len(bs)
    BY <1>1
  <2>2. Same(os, w, Base(bs[j + 1]))
    BY <1>1, <1>2, <2>1 DEF Same
  <2>3. \/ Waits(bs[j], os, Base(bs[j + 1]))
        \/ FieldsWait(bs[j], os, Base(bs[j + 1])) /\ bs[j + 1].op = "TermArg"
    BY DEF FrameFine
  <2>4. QED
    BY <1>1, <2>1, <2>2, <2>3, WaitsSame
<1>4. Level(f, h) \in Int /\ Level(f, h) <= h
  BY <1>1, <1>2 DEF Level
<1>5. Objs(w, f.start + 1, Level(f, h))
  BY <1>1, <1>4, ObjsSame DEF FrameFine
<1>6. f.start <= Level(f, h) /\ h <= Len(w)
  BY DEF FrameFine, Same
<1>7. \A j, k \in 1 .. Len(bs) : j <= k => Base(bs[j]) <= Base(bs[k])
  BY DEF FrameFine
<1> HIDE DEF bs
<1>8. QED
  BY <1>2, <1>3, <1>5, <1>6, <1>7 DEF FrameFine, bs

LEMMA LowerSame ==
  ASSUME NEW os, NEW w, NEW f, Typed(f), NEW h \in Int, LowerFine(f, os, h), Same(os, w, h)
  PROVE  LowerFine(f, w, h)
<1>1. FrameFine(f, w, h)
  BY FrameSame DEF LowerFine
<1>2. CASE f.blocks = <<>>
  BY <1>1, <1>2 DEF LowerFine
<1>3. CASE f.blocks # <<>>
  <2>1. Last(f.blocks) \in Block
    BY <1>3 DEF Last, Typed
  <2>2. QED
    BY <1>1, <2>1, WaitsSame DEF LowerFine
<1>4. QED
  BY <1>2, <1>3

\* What comes to a frame from above, objects only, completes what it waited for.
LEMMA Uncovered ==
  ASSUME NEW os, NEW w, Len(w) \in Nat, NEW f, Typed(f), NEW h \in Int, LowerFine(f, os, h),
         Same(os, w, h), Objs(w, h + 1, Len(w))
  PROVE  TopFine(f, w)
<1>1. LowerFine(f, w, h) /\ h <= Len(w)
  BY LowerSame DEF Same
<1>2. FrameFine(f, w, h)
  BY <1>1 DEF LowerFine
<1>3. f.start \in Nat /\ f.blocks \in Seq(Block) /\ Len(f.blocks) \in Nat
  BY DEF Typed
<1>4. CASE f.blocks = <<>>
  <2>1. f.start <= h /\ Objs(w, f.start + 1, h)
    BY <1>2, <1>4 DEF FrameFine, Level
  <2>2. Objs(w, f.start + 1, Len(w))
    BY <1>1, <1>3, <2>1 DEF Objs
  <2>3. QED
    BY <1>1, <1>2, <1>3, <1>4, <2>1, <2>2 DEF TopFine, FrameFine, Level
<1>5. CASE f.blocks # <<>>
  <2> DEFINE b == Last(f.blocks)
  <2>1. b \in Block /\ b.start \in Nat /\ b.start <= h /\ Collected(b, w)
    <3>1. Len(f.blocks) \in 1 .. Len(f.blocks) /\ b = f.blocks[Len(f.blocks)]
      BY <1>3, <1>5 DEF Last
    <3>2. b \in Block
      BY <1>3, <3>1
    <3>3. QED
      BY <1>2, <3>1, <3>2, Bases DEF FrameFine
  <2>2. Waits(b, w, h) \/ PackageWaits(b, w, h)
    BY <1>1, <1>5 DEF LowerFine
  <2> HIDE DEF b
  <2>3. Height(b, w, Len(w))
    <3>1. b.op \in Handlers /\ Fits(b.op)
      BY <2>1, Bases, ScriptsFit
    <3>2. CASE OperandWaits(b, w, h) /\ Objs(w, b.start + 1, h)
      <4>1. Objs(w, b.start + 1, Len(w))
        BY <1>1, <2>1, <3>2 DEF Objs
      <4>2. QED
        BY <1>1, <2>1, <3>2, <4>1, Bases DEF OperandWaits, Height, OperandHeight
    <3>3. CASE CallWaits(b, w, h) /\ Objs(w, b.start + 2, h)
      <4>1. Objs(w, b.start + 2, Len(w))
        BY <1>1, <2>1, <3>3 DEF Objs
      <4>2. QED
        BY <1>1, <2>1, <3>1, <3>3, <4>1
        DEF CallWaits, Height, CallHeight, Fits, ScriptFits, FieldOps, Packages
    <3>4. CASE PackageWaits(b, w, h)
      <4>1. Objs(w, b.start + 1, Len(w))
        BY <1>1, <2>1, <3>4 DEF Objs, PackageWaits
      <4>2. b.op \in Packages /\ b.ip = 3 /\ b.processed
        BY <3>4 DEF PackageWaits
      <4>3. ScriptFits(b.op, Script(b.op), Operands(b.op), Adv(b.op))
        BY <3>1 DEF Fits
      <4>4. Adv(b.op) = 2
        BY <4>2, <4>3 DEF ScriptFits, Packages
      <4>5. b.op \notin FieldOps /\ b.op # "Call"
        BY <4>2 DEF Packages, FieldOps
      <4>6. PackageHeight(b, w, Len(w))
        BY <4>1, <4>2 DEF PackageHeight
      <4>7. b.start <= Len(w)
        <5>1. b.start <= h /\ h <= Len(w)
          BY <1>1, <3>4 DEF PackageWaits, Same
        <5>2. QED
          BY <1>1, <2>1, <5>1
      <4>8. QED
        BY <4>2, <4>4, <4>5, <4>6, <4>7 DEF Height
    <3>5. QED
      BY <2>2, <3>2, <3>3, <3>4 DEF Waits
  <2>4. FrameFine(f, w, Len(w))
    <3>1. ASSUME NEW j \in 1 .. Len(f.blocks)
          PROVE  f.blocks[j].start <= Len(w)
      <4>1. f.blocks[j] \in Block /\ f.blocks[j].start <= h
        BY <1>2, <1>3 DEF FrameFine
      <4>2. QED
        BY <1>1, <4>1, Bases
    <3>2. Level(f, h) = Level(f, Len(w))
      BY <1>5 DEF Level
    <3>3. QED
      BY <1>2, <3>1, <3>2 DEF FrameFine
  <2>5. QED
    BY <2>3, <2>4 DEF TopFine, b
<1>6. QED
  BY <1>4, <1>5

-----------------------------------------------------------------------------
(* Blocks that come and go                                                 *)

\* What is left of a frame below h waits for an operation of the opcode h that begins
\* there, or is between statements.
Resting(f, os, h, op) ==
  /\ FrameFine(f, os, h)
  /\ f.blocks # <<>> =>
       \/ Waits(Last(f.blocks), os, h)
       \/ FieldsWait(Last(f.blocks), os, h) /\ op = "TermArg"

\* A sequence cut short
LEMMA Prefix ==
  ASSUME NEW Elem, NEW s \in Seq(Elem), NEW k \in 0 .. Len(s)
  PROVE  /\ Take(s, k) \in Seq(Elem) /\ Len(Take(s, k)) = k
         /\ \A i \in 1 .. k : Take(s, k)[i] = s[i]
<1>1. Len(s) \in Nat /\ 1 \in Int /\ k \in Int /\ \A i \in 1 .. k : s[i] \in Elem
  OBVIOUS
<1>2. PICK m : m = 1
  OBVIOUS
<1>3. m \in Int /\ \A i \in m .. k : s[i] \in Elem
  BY <1>1, <1>2
<1>4. /\ SubSeq(s, m, k) \in Seq(Elem) /\ Len(SubSeq(s, m, k)) = (IF m <= k THEN k - m + 1 ELSE 0)
      /\ \A i \in 1 .. k - m + 1 : SubSeq(s, m, k)[i] = s[m + i - 1]
  BY <1>1, <1>3, SubSeqProperties
<1>5. QED
  BY <1>1, <1>2, <1>4 DEF Take

LEMMA BlocksOf ==
  ASSUME NEW Elem, NEW bs \in Seq(Elem), bs # <<>>
  PROVE  /\ Len(bs) \in Nat /\ Len(bs) >= 1 /\ Last(bs) = bs[Len(bs)] /\ Last(bs) \in Elem
         /\ Below(bs) \in Seq(Elem) /\ Len(Below(bs)) = Len(bs) - 1
         /\ \A j \in 1 .. Len(bs) - 1 : Below(bs)[j] = bs[j]
<1>1. Len(bs) \in Nat /\ Len(bs) >= 1 /\ \A j \in 1 .. Len(bs) : bs[j] \in Elem
  OBVIOUS
<1>2. Len(bs) - 1 \in 0 .. Len(bs)
  BY <1>1
<1>3. Below(bs) = Take(bs, Len(bs) - 1)
  BY DEF Below, Take
<1>4. /\ Take(bs, Len(bs) - 1) \in Seq(Elem) /\ Len(Take(bs, Len(bs) - 1)) = Len(bs) - 1
      /\ \A i \in 1 .. Len(bs) - 1 : Take(bs, Len(bs) - 1)[i] = bs[i]
  BY <1>2, Prefix
<1>5. Last(bs) = bs[Len(bs)]
  BY DEF Last
<1>6. Last(bs) \in Elem
  BY <1>1, <1>5
<1>7. QED
  BY <1>1, <1>3, <1>4, <1>5, <1>6

LEMMA DropLast ==
  ASSUME NEW os, NEW w, NEW f, Typed(f), f.blocks # <<>>, TopFine(f, os),
         Same(os, w, Base(Last(f.blocks))),
         NEW g, g.start = f.start, g.blocks = Below(f.blocks)
  PROVE  Typed(g) /\ Resting(g, w, Base(Last(f.blocks)), Last(f.blocks).op)
<1> DEFINE bs == f.blocks
           n == Len(f.blocks)
           b == Last(f.blocks)
           h == Base(Last(f.blocks))
<1>1. /\ n \in Nat /\ n >= 1 /\ b = bs[n] /\ b \in Block /\ Len(g.blocks) = n - 1
      /\ g.blocks \in Seq(Block) /\ \A j \in 1 .. n - 1 : g.blocks[j] = bs[j]
      /\ f.start \in Nat /\ \A j \in 1 .. n : bs[j] \in Block /\ bs[j].start \in Nat
      /\ \A j \in 1 .. n : Base(bs[j]) \in Int
  <2>1. f.start \in Nat /\ bs \in Seq(Block) /\ bs # <<>>
    BY DEF Typed
  <2>2. /\ n \in Nat /\ n >= 1 /\ b = bs[n] /\ b \in Block /\ Len(g.blocks) = n - 1
        /\ g.blocks \in Seq(Block) /\ \A j \in 1 .. n - 1 : g.blocks[j] = bs[j]
    BY <2>1, BlocksOf
  <2>3. \A j \in 1 .. n : bs[j] \in Block
    BY <2>1
  <2>4. \A j \in 1 .. n : bs[j].start \in Nat /\ Base(bs[j]) \in Int
    BY <2>3, Bases
  <2>5. QED
    BY <2>1, <2>2, <2>3, <2>4
<1>2. FrameFine(f, os, Len(os))
  BY DEF TopFine
<1>3. h \in Int /\ h <= Len(os) /\ h <= Len(w)
  BY <1>1 DEF Same
<1>4. ASSUME NEW j \in 1 .. n - 1
      PROVE  /\ \/ Waits(bs[j], os, Base(bs[j + 1]))
                \/ FieldsWait(bs[j], os, Base(bs[j + 1])) /\ bs[j + 1].op = "TermArg"
             /\ bs[j].start <= h
  <2>1. \/ Waits(bs[j], os, Base(bs[j + 1]))
        \/ FieldsWait(bs[j], os, Base(bs[j + 1])) /\ bs[j + 1].op = "TermArg"
    BY <1>2 DEF FrameFine
  <2>2. j \in 1 .. n /\ j + 1 \in 1 .. n /\ n \in 1 .. n /\ j + 1 <= n
    BY <1>1
  <2>3. bs[j].start \in Nat /\ Base(bs[j + 1]) \in Int /\ Base(bs[n]) \in Int
    BY <1>1, <2>2
  <2>4. bs[j].start <= Base(bs[j + 1])
    BY <2>1, <2>3 DEF Waits, FieldsWait
  <2>5. Base(bs[j + 1]) <= Base(bs[n])
    BY <1>2, <2>2 DEF FrameFine
  <2>6. h = Base(bs[n])
    BY <1>1
  <2>7. QED
    BY <2>1, <2>3, <2>4, <2>5, <2>6
<1>5. FrameFine(g, os, h)
  <2>1. Level(g, h) = Level(f, Len(os))
    <3>1. CASE n = 1
      <4>1. g.blocks = <<>> /\ f.blocks # <<>> /\ f.blocks[1] = b
        BY <1>1, <3>1
      <4>2. QED
        BY <4>1 DEF Level
    <3>2. CASE n > 1
      <4>1. g.blocks # <<>> /\ g.blocks[1] = bs[1]
        BY <1>1, <3>2
      <4>2. QED
        BY <4>1 DEF Level
    <3>3. n = 1 \/ n > 1
      <4>1. n \in Nat /\ n >= 1
        BY <1>1, Zenon
      <4> HIDE DEF n
      <4>2. QED
        BY <4>1
    <3>4. QED
      BY <3>1, <3>2, <3>3, Zenon
  <2>2. ASSUME NEW j \in 1 .. n - 1
        PROVE  Collected(bs[j], os)
    <3>1. j \in 1 .. Len(f.blocks)
      BY <1>1
    <3>2. QED
      BY <1>2, <3>1 DEF FrameFine
  <2>3. ASSUME NEW j \in 1 .. n - 1, NEW k \in 1 .. n - 1, j <= k
        PROVE  Base(bs[j]) <= Base(bs[k])
    <3>1. j \in 1 .. Len(f.blocks) /\ k \in 1 .. Len(f.blocks)
      BY <1>1
    <3>2. QED
      BY <1>2, <2>3, <3>1 DEF FrameFine
  <2>4. ASSUME NEW j \in 1 .. (n - 1) - 1
        PROVE  \/ Waits(g.blocks[j], os, Base(g.blocks[j + 1]))
               \/ FieldsWait(g.blocks[j], os, Base(g.blocks[j + 1])) /\ g.blocks[j + 1].op = "TermArg"
    <3>1. j \in 1 .. n - 1 /\ j + 1 \in 1 .. n - 1
      BY <1>1
    <3>2. g.blocks[j] = bs[j] /\ g.blocks[j + 1] = bs[j + 1]
      BY <1>1, <3>1
    <3>3. QED
      BY <1>4, <3>1, <3>2
  <2>5. g.start <= Level(g, h) /\ h <= Len(os) /\ Objs(os, g.start + 1, Level(g, h))
    BY <1>2, <1>3, <2>1 DEF FrameFine
  <2>6. \A j \in 1 .. Len(g.blocks) : Collected(g.blocks[j], os) /\ g.blocks[j].start <= h
    BY <1>1, <1>4, <2>2
  <2>7. \A j, k \in 1 .. Len(g.blocks) : j <= k => Base(g.blocks[j]) <= Base(g.blocks[k])
    BY <1>1, <2>3
  <2>8. \A j \in 1 .. Len(g.blocks) - 1 :
          \/ Waits(g.blocks[j], os, Base(g.blocks[j + 1]))
          \/ FieldsWait(g.blocks[j], os, Base(g.blocks[j + 1])) /\ g.blocks[j + 1].op = "TermArg"
    BY <1>1, <2>4
  <2>9. QED
    BY <2>5, <2>6, <2>7, <2>8 DEF FrameFine
<1>6. Typed(g)
  BY <1>1 DEF Typed
<1>7. FrameFine(g, w, h)
  BY <1>3, <1>5, <1>6, FrameSame
<1>8. ASSUME g.blocks # <<>>
      PROVE  \/ Waits(Last(g.blocks), w, h)
             \/ FieldsWait(Last(g.blocks), w, h) /\ b.op = "TermArg"
  <2>1. n - 1 \in 1 .. n - 1 /\ Last(g.blocks) = bs[n - 1] /\ bs[n - 1] \in Block
    BY <1>1, <1>8 DEF Last
  <2>2. \/ Waits(bs[n - 1], os, h)
        \/ FieldsWait(bs[n - 1], os, h) /\ b.op = "TermArg"
    <3>1. bs[n - 1 + 1] = b /\ n - 1 + 1 = n
      BY <1>1
    <3>2. QED
      BY <1>4, <2>1, <3>1
  <2> HIDE DEF b, h, bs
  <2>3. QED
    BY <1>3, <2>1, <2>2, WaitsSame DEF b, h
<1>9. QED
  BY <1>6, <1>7, <1>8 DEF Resting

LEMMA RestsLower ==
  ASSUME NEW os, NEW f, NEW h, NEW op, op # "TermArg", Resting(f, os, h, op)
  PROVE  LowerFine(f, os, h)
BY DEF Resting, LowerFine

LEMMA AddBlock ==
  ASSUME NEW os, NEW f, Typed(f), NEW c \in Block, Resting(f, os, Base(c), c.op),
         Collected(c, os), NEW h \in Int, c.start <= h, h <= Len(os),
         NEW g, g.start = f.start, g.blocks = Append(f.blocks, c)
  PROVE  Typed(g) /\ FrameFine(g, os, h)
<1> DEFINE bs == f.blocks
           n == Len(f.blocks)
           e == Base(c)
<1>1. /\ n \in Nat /\ Len(g.blocks) = n + 1 /\ g.blocks \in Seq(Block)
      /\ g.blocks[n + 1] = c /\ \A j \in 1 .. n : g.blocks[j] = bs[j]
      /\ f.start \in Nat /\ \A j \in 1 .. n : bs[j] \in Block /\ bs[j].start \in Nat
      /\ \A j \in 1 .. n : Base(bs[j]) \in Int
  <2>1. f.start \in Nat /\ bs \in Seq(Block)
    BY DEF Typed
  <2>2. n \in Nat /\ \A j \in 1 .. n : bs[j] \in Block
    BY <2>1
  <2>3. g.blocks = Append(bs, c)
    OBVIOUS
  <2>4. /\ g.blocks \in Seq(Block) /\ Len(g.blocks) = n + 1 /\ g.blocks[n + 1] = c
        /\ \A j \in 1 .. n : g.blocks[j] = bs[j]
    BY <2>1, <2>3, AppendProperties
  <2>5. ASSUME NEW j \in 1 .. n
        PROVE  bs[j].start \in Nat /\ Base(bs[j]) \in Int
    BY <2>2, Bases
  <2>6. QED
    BY <2>1, <2>2, <2>4, <2>5
<1>2. e \in Int /\ c.start \in Nat /\ e <= c.start
  BY Bases DEF Collected
<1>3. FrameFine(f, os, e)
  BY DEF Resting
<1>4. ASSUME NEW j \in 1 .. n
      PROVE  Collected(bs[j], os) /\ bs[j].start <= e /\ Base(bs[j]) <= e
  <2>1. Collected(bs[j], os) /\ bs[j].start <= e
    BY <1>3 DEF FrameFine
  <2>2. Base(bs[j]) <= bs[j].start
    <3>1. PICK d : d = bs[j]
      OBVIOUS
    <3>2. d \in Block /\ Collected(d, os)
      BY <1>1, <2>1, <3>1
    <3>3. d.ip >= 1
      BY <3>2 DEF Collected
    <3>4. Base(d) <= d.start
      BY <3>2, <3>3, Bases
    <3>5. QED
      BY <3>1, <3>4
  <2>3. QED
    BY <1>1, <1>2, <2>1, <2>2
<1>5. Level(g, h) = Level(f, e)
  <2>1. CASE n = 0
    <3>1. f.blocks = <<>> /\ g.blocks # <<>> /\ g.blocks[1] = c
      <4>1. f.blocks \in Seq(Block) /\ Len(f.blocks) = 0
        BY <2>1 DEF Typed
      <4>2. f.blocks = <<>>
        BY <4>1
      <4>3. QED
        BY <1>1, <2>1, <4>2
    <3>2. QED
      BY <3>1 DEF Level
  <2>2. CASE n > 0
    <3>1. f.blocks # <<>> /\ g.blocks # <<>> /\ g.blocks[1] = bs[1]
      BY <1>1, <2>2
    <3>2. QED
      BY <3>1 DEF Level
  <2>3. QED
    BY <1>1, <2>1, <2>2
<1>6. f.start <= Level(f, e) /\ Objs(os, f.start + 1, Level(f, e))
  BY <1>3 DEF FrameFine
<1>7. ASSUME NEW j \in 1 .. n + 1
      PROVE  Collected(g.blocks[j], os) /\ g.blocks[j].start <= h
  <2>1. CASE j = n + 1
    BY <1>1, <2>1
  <2>2. CASE j # n + 1
    <3>1. j \in 1 .. n
      BY <1>1, <2>2
    <3>2. QED
      BY <1>1, <1>2, <1>4, <3>1
  <2>3. QED
    BY <2>1, <2>2
<1>8. ASSUME NEW j \in 1 .. n + 1, NEW k \in 1 .. n + 1, j <= k
      PROVE  Base(g.blocks[j]) <= Base(g.blocks[k])
  <2>1. CASE k = n + 1 /\ j = n + 1
    BY <1>1, <1>2, <2>1
  <2>2. CASE k = n + 1 /\ j # n + 1
    <3>1. j \in 1 .. n
      BY <1>1, <2>2
    <3>2. QED
      BY <1>1, <1>2, <1>4, <2>2, <3>1
  <2>3. CASE k # n + 1
    <3>1. j \in 1 .. n /\ k \in 1 .. n
      BY <1>1, <1>8, <2>3
    <3>2. QED
      BY <1>1, <1>3, <1>8, <3>1 DEF FrameFine
  <2>4. QED
    BY <2>1, <2>2, <2>3
<1>9. ASSUME NEW j \in 1 .. (n + 1) - 1
      PROVE  \/ Waits(g.blocks[j], os, Base(g.blocks[j + 1]))
             \/ FieldsWait(g.blocks[j], os, Base(g.blocks[j + 1])) /\ g.blocks[j + 1].op = "TermArg"
  <2>1. CASE j = n
    <3>1. f.blocks # <<>> /\ Last(f.blocks) = bs[n] /\ g.blocks[j] = bs[n] /\ g.blocks[j + 1] = c
      BY <1>1, <2>1 DEF Last
    <3>2. QED
      BY <3>1 DEF Resting
  <2>2. CASE j # n
    <3>1. j \in 1 .. n - 1 /\ j \in 1 .. n /\ j + 1 \in 1 .. n
      BY <1>1, <2>2
    <3>2. g.blocks[j] = bs[j] /\ g.blocks[j + 1] = bs[j + 1]
      BY <1>1, <3>1
    <3>3. QED
      BY <1>3, <3>1, <3>2 DEF FrameFine
  <2>3. QED
    BY <2>1, <2>2
<1>10. Typed(g)
  BY <1>1 DEF Typed
<1> HIDE DEF n, bs, e
<1>11. QED
  BY <1>1, <1>5, <1>6, <1>7, <1>8, <1>9, <1>10 DEF FrameFine

LEMMA Raise ==
  ASSUME NEW os, NEW f, Typed(f), f.blocks # <<>>, NEW h \in Int, NEW k \in Int, h <= k,
         k <= Len(os), FrameFine(f, os, h)
  PROVE  FrameFine(f, os, k)
<1>1. \A j \in 1 .. Len(f.blocks) : f.blocks[j] \in Block
  BY DEF Typed
<1>2. ASSUME NEW j \in 1 .. Len(f.blocks)
      PROVE  Collected(f.blocks[j], os) /\ f.blocks[j].start <= k
  <2>1. f.blocks[j].start \in Nat
    BY <1>1, Bases
  <2>2. Collected(f.blocks[j], os) /\ f.blocks[j].start <= h
    BY DEF FrameFine
  <2>3. QED
    BY <2>1, <2>2
<1>3. Level(f, k) = Level(f, h)
  BY DEF Level
<1>4. QED
  BY <1>2, <1>3 DEF FrameFine

LEMMA SameRefl ==
  ASSUME NEW os, NEW h, h <= Len(os)
  PROVE  Same(os, os, h)
BY DEF Same

\* An operation is over: its operands go and objects may come, one for a field list.
LEMMA PopBlock ==
  ASSUME NEW os, NEW w, Len(w) \in Nat, NEW f, Typed(f), f.blocks # <<>>, TopFine(f, os),
         Same(os, w, Base(Last(f.blocks))), Objs(w, Base(Last(f.blocks)) + 1, Len(w)),
         Last(f.blocks).op = "TermArg" => Len(w) = Base(Last(f.blocks)) + 1,
         NEW g, g.start = f.start, g.blocks = Below(f.blocks)
  PROVE  Typed(g) /\ TopFine(g, w)
<1>1. PICK h, op : h = Base(Last(f.blocks)) /\ op = Last(f.blocks).op
  OBVIOUS
<1>2. Typed(g) /\ Resting(g, w, h, op)
  BY <1>1, DropLast
<1>3. h \in Int /\ h <= Len(w) /\ Objs(w, h + 1, Len(w)) /\ (op = "TermArg" => Len(w) = h + 1)
  <2>1. Last(f.blocks) \in Block
    BY BlocksOf DEF Typed
  <2>2. QED
    BY <1>1, <2>1, Bases DEF Same
<1>4. CASE LowerFine(g, w, h)
  <2>1. Same(w, w, h)
    BY <1>3, SameRefl
  <2>2. QED
    BY <1>2, <1>3, <1>4, <2>1, Uncovered
<1>5. CASE g.blocks # <<>> /\ FieldsWait(Last(g.blocks), w, h) /\ op = "TermArg"
  <2>1. FrameFine(g, w, h)
    BY <1>2 DEF Resting
  <2>2. FrameFine(g, w, Len(w))
    BY <1>2, <1>3, <1>5, <2>1, Raise
  <2>3. PICK c : c = Last(g.blocks)
    OBVIOUS
  <2>4. c \in Block
    BY <1>2, <1>5, <2>3, BlocksOf DEF Typed
  <2>5. FieldsWait(c, w, h) /\ Len(w) = h + 1 /\ w[h + 1].kind = "obj"
    BY <1>3, <1>5, <2>3 DEF Objs
  <2>6. c.start \in Nat /\ Adv(c.op) \in Nat /\ c.op \in Handlers /\ Fits(c.op)
    BY <2>4, Bases, ScriptsFit
  <2>7. c.op \in FieldOps /\ c.op \notin Packages /\ c.op # "Call"
    BY <2>5 DEF FieldsWait, FieldOps, Packages
  <2>8. FieldsHeight(c, w, Len(w))
    BY <2>5, <2>6 DEF FieldsWait, FieldsHeight
  <2>9. Height(c, w, Len(w))
    BY <2>5, <2>6, <2>7, <2>8 DEF FieldsWait, Height
  <2>10. QED
    BY <1>2, <2>2, <2>3, <2>9 DEF TopFine
<1>6. QED
  BY <1>2, <1>4, <1>5 DEF Resting, LowerFine

LEMMA PutBlock ==
  ASSUME NEW w, Len(w) \in Nat, NEW f, Typed(f), NEW c \in Block,
         Resting(f, w, Base(c), c.op), Collected(c, w), Height(c, w, Len(w)),
         NEW g, g.start = f.start, g.blocks = Append(f.blocks, c)
  PROVE  Typed(g) /\ TopFine(g, w)
<1>1. c.start <= Len(w)
  BY DEF Collected
<1>2. Typed(g) /\ FrameFine(g, w, Len(w))
  BY <1>1, AddBlock
<1>3. Last(g.blocks) = c
  BY AppendProperties DEF Typed, Last
<1>4. QED
  BY <1>2, <1>3 DEF TopFine

WithLast(s, c) == [s EXCEPT ![Len(s)] = c]
LEMMA Replaced ==
  ASSUME NEW Elem, NEW bs \in Seq(Elem), bs # <<>>, NEW c \in Elem
  PROVE  WithLast(bs, c) = Append(Below(bs), c)
<1>1. PICK n : n = Len(bs)
  OBVIOUS
<1>2. PICK l, r : l = [bs EXCEPT ![n] = c] /\ r = Append(Below(bs), c)
  OBVIOUS
<1>3. n \in Nat /\ n >= 1 /\ n \in 1 .. Len(bs)
  BY <1>1
<1>4. l \in Seq(Elem) /\ Len(l) = n /\ \A j \in 1 .. n : l[j] = IF j = n THEN c ELSE bs[j]
  BY <1>1, <1>2, <1>3, ExceptSeq
<1>5. Below(bs) \in Seq(Elem) /\ Len(Below(bs)) = n - 1 /\ \A j \in 1 .. n - 1 : Below(bs)[j] = bs[j]
  BY <1>1, BlocksOf
<1>6. r \in Seq(Elem) /\ Len(r) = n /\ r[n] = c /\ \A j \in 1 .. n - 1 : r[j] = bs[j]
  BY <1>2, <1>3, <1>5, AppendProperties
<1>7. \A j \in 1 .. n : j = n \/ j \in 1 .. n - 1
  BY <1>3
<1>8. \A j \in 1 .. n : l[j] = r[j]
  BY <1>4, <1>6, <1>7
<1>9. l = r
  BY <1>4, <1>6, <1>8, SeqEqual
<1>10. QED
  BY <1>1, <1>2, <1>9, Zenon DEF WithLast

\* The block that parse works on has changed, and the objects above what it has collected.
LEMMA ReplaceBlock ==
  ASSUME NEW os, NEW w, Len(w) \in Nat, NEW f, Typed(f), f.blocks # <<>>, TopFine(f, os),
         NEW c \in Block, c.op = Last(f.blocks).op, Base(c) = Base(Last(f.blocks)),
         Same(os, w, Base(Last(f.blocks))), Collected(c, w), Height(c, w, Len(w)),
         NEW g, g.start = f.start, g.blocks = WithLast(f.blocks, c)
  PROVE  Typed(g) /\ TopFine(g, w)
<1>1. PICK e : e = [start |-> f.start, blocks |-> Below(f.blocks)]
  OBVIOUS
<1>2. e.start = f.start /\ e.blocks = Below(f.blocks)
  BY <1>1
<1>3. Typed(e) /\ Resting(e, w, Base(c), c.op)
  BY <1>2, DropLast
<1>4. g.blocks = Append(e.blocks, c)
  <2>1. f.blocks \in Seq(Block)
    BY DEF Typed
  <2>2. WithLast(f.blocks, c) = Append(Below(f.blocks), c)
    BY <2>1, Replaced, Zenon
  <2>3. QED
    BY <1>2, <2>2, Zenon
<1>5. QED
  BY <1>2, <1>3, <1>4, PutBlock

\* An operation is nested in another, which waits for it.
LEMMA NestBlock ==
  ASSUME NEW os, NEW w, Len(w) \in Nat, NEW f, Typed(f), f.blocks # <<>>, TopFine(f, os),
         NEW b \in Block, b.op = Last(f.blocks).op, Base(b) = Base(Last(f.blocks)),
         Same(os, w, Base(Last(f.blocks))), Collected(b, w),
         NEW c \in Block, b.start <= Base(c),
         Waits(b, w, Base(c)) \/ (FieldsWait(b, w, Base(c)) /\ c.op = "TermArg"),
         Collected(c, w), Height(c, w, Len(w)),
         NEW g, g.start = f.start,
         g.blocks = Append(WithLast(f.blocks, b), c)
  PROVE  Typed(g) /\ TopFine(g, w)
<1>1. PICK e : e = [start |-> f.start, blocks |-> Below(f.blocks)]
  OBVIOUS
<1>2. e.start = f.start /\ e.blocks = Below(f.blocks)
  BY <1>1
<1>3. Typed(e) /\ Resting(e, w, Base(b), b.op)
  BY <1>2, DropLast
<1>4. PICK d : d = [start |-> f.start, blocks |-> Append(e.blocks, b)]
  OBVIOUS
<1>5. d.start = e.start /\ d.blocks = Append(e.blocks, b)
  BY <1>2, <1>4
<1>6. Base(c) \in Int /\ Base(c) <= Len(w)
  <2>1. Base(c) \in Int /\ c.start \in Nat /\ Base(c) <= c.start /\ c.start <= Len(w)
    BY Bases DEF Collected
  <2>2. QED
    BY <2>1
<1>7. Typed(d) /\ FrameFine(d, w, Base(c))
  BY <1>3, <1>5, <1>6, AddBlock
<1>8. Last(d.blocks) = b
  BY <1>3, <1>5, AppendProperties DEF Typed, Last
<1>9. Resting(d, w, Base(c), c.op)
  BY <1>7, <1>8 DEF Resting
<1>10. g.blocks = Append(d.blocks, c)
  <2>1. f.blocks \in Seq(Block)
    BY DEF Typed
  <2>2. WithLast(f.blocks, b) = Append(Below(f.blocks), b)
    BY <2>1, Replaced, Zenon
  <2>3. QED
    BY <1>2, <1>5, <2>2, Zenon
<1>11. QED
  BY <1>2, <1>5, <1>7, <1>9, <1>10, PutBlock

\* A statement begins.
LEMMA FirstBlock ==
  ASSUME NEW os, NEW w, Len(w) \in Nat, NEW f, Typed(f), f.blocks = <<>>, TopFine(f, os),
         Len(os) \in Int, Same(os, w, Len(os)), NEW c \in Block, Base(c) = Len(os),
         Collected(c, w), Height(c, w, Len(w)),
         NEW g, g.start = f.start, g.blocks = Append(f.blocks, c)
  PROVE  Typed(g) /\ TopFine(g, w)
<1>1. FrameFine(f, w, Len(os))
  BY FrameSame DEF TopFine
<1>2. Resting(f, w, Base(c), c.op)
  BY <1>1 DEF Resting
<1>3. QED
  BY <1>2, PutBlock

-----------------------------------------------------------------------------
(* What parse does to the block that it works on                           *)

\* The block b at the top of the objects os may become c, with the objects w.
Follows(b, os, c, w) ==
  /\ c \in Block /\ c.op = b.op /\ Base(c) = Base(b)
  /\ Same(os, w, Base(b)) /\ Collected(c, w) /\ Height(c, w, Len(w))

\* What is known of that block
Current(b, os) ==
  b \in Block /\ os \in Seq(Object) /\ Collected(b, os) /\ Height(b, os, Len(os))

\* A block in numbers
LEMMA BlockFacts ==
  ASSUME NEW b, NEW os, Current(b, os)
  PROVE  /\ b.start \in Nat /\ b.ip \in 1 .. Len(Script(b.op)) + 1 /\ b.op \in Handlers
         /\ Adv(b.op) \in 0 .. Len(Script(b.op)) /\ Len(Script(b.op)) \in Nat
         /\ Len(os) \in Nat /\ b.start <= Len(os) /\ Base(b) \in Nat /\ Base(b) <= b.start
         /\ b.processed \in BOOLEAN
         /\ ScriptFits(b.op, Script(b.op), Operands(b.op), Adv(b.op))
<1>1. b \in Block /\ b.op \in Handlers /\ Fits(b.op)
  BY Bases, ScriptsFit DEF Current
<1>2. os \in Seq(Object) /\ Len(os) \in Nat
  BY DEF Current
<1>3. ScriptFits(b.op, Script(b.op), Operands(b.op), Adv(b.op))
  BY <1>1 DEF Fits
<1>4. Len(Script(b.op)) \in Nat /\ Adv(b.op) \in 0 .. Len(Script(b.op))
  BY <1>3 DEF ScriptFits
<1>5. Collected(b, os)
  BY DEF Current
<1>6. b.start \in Nat /\ Base(b) \in Int /\ b.ip \in Nat /\ b.processed \in BOOLEAN
      /\ (b.ip >= 1 => Base(b) <= b.start)
  BY <1>1, Bases
<1>7. b.ip \in 1 .. Len(Script(b.op)) + 1 /\ 0 <= Base(b) /\ b.start <= Len(os)
  BY <1>5 DEF Collected
<1>8. QED
  BY <1>1, <1>2, <1>3, <1>4, <1>6, <1>7

\* An operand that is collected one by one is complete.
LEMMA AdvanceFollows ==
  ASSUME NEW b, NEW os, Current(b, os), b.processed, b.ip <= Adv(b.op), Len(os) = b.start + 1,
         NEW c \in Block, c.op = b.op, c.ip = b.ip + 1, ~ c.processed, c.start = b.start + 1
  PROVE  Follows(b, os, c, os)
<1>1. PICK s, n : s = Script(b.op) /\ n = Adv(b.op)
  OBVIOUS
<1>2. /\ b.start \in Nat /\ b.ip \in 1 .. Len(s) + 1 /\ n \in 0 .. Len(s) /\ Len(s) \in Nat
      /\ Base(b) \in Nat /\ Base(b) <= b.start /\ Len(os) \in Nat /\ b.op \in Handlers
  BY <1>1, BlockFacts, Zenon
<1>3. Base(b) = b.start - (b.ip - 1) /\ Base(c) = Base(b)
  <2>1. PICK i, st : i = b.ip /\ st = b.start
    OBVIOUS
  <2>2. i \in Nat /\ st \in Nat /\ n \in Nat /\ i <= n /\ c.ip = i + 1 /\ c.start = st + 1
    BY <1>1, <1>2, <2>1
  <2>3. Base(b) = st - (i - 1)
    BY <1>1, <2>1, <2>2 DEF Base
  <2>4. Base(c) = st + 1 - (IF i + 1 <= n THEN i + 1 - 1 ELSE n)
    BY <1>1, <2>2 DEF Base
  <2>5. (IF i + 1 <= n THEN i + 1 - 1 ELSE n) = i
    BY <2>2
  <2>6. QED
    BY <2>1, <2>2, <2>3, <2>4, <2>5
<1>10. PICK st, ip, base : st = b.start /\ ip = b.ip /\ base = Base(b)
  OBVIOUS
<1>11. /\ st \in Nat /\ ip \in Nat /\ base \in Nat /\ base = st - (ip - 1) /\ base <= st
       /\ ip <= n /\ n \in Nat /\ n <= Len(s)
       /\ Base(c) = base /\ c.start = st + 1 /\ c.ip = ip + 1 /\ b.start = st /\ b.ip = ip
  BY <1>1, <1>2, <1>3, <1>10
<1>4. OperandHeight(b, os, Len(os))
  BY DEF Current, Height
<1>5. os[b.start + 1].kind = KindOf(s[b.ip])
  BY <1>1, <1>2, <1>4 DEF OperandHeight, Objs
<1>6. Collected(c, os)
  <2>1. ASSUME NEW m \in 1 .. c.start - Base(c)
        PROVE  os[Base(c) + m].kind = Want(c, m)
    <3>4. c.start - Base(c) = ip
      BY <1>11
    <3>5. m \in 1 .. ip /\ b.start - Base(b) = ip - 1
      BY <1>10, <1>11, <3>4
    <3>1. CASE m = c.start - Base(c)
      <4>1. m = b.ip /\ Base(c) + m = b.start + 1
        BY <1>11, <3>1, <3>4
      <4>2. Want(c, m) = KindOf(s[b.ip])
        <5>1. c.op = "VarPackage" => n = 2
          BY <1>1, BlockFacts DEF ScriptFits
        <5>2. QED
          BY <1>1, <1>2, <4>1, <5>1 DEF Want
      <4>3. QED
        BY <1>5, <4>1, <4>2
    <3>2. CASE m # c.start - Base(c)
      <4>1. m \in 1 .. b.start - Base(b)
        BY <1>11, <3>2, <3>4, <3>5
      <4>2. os[Base(b) + m].kind = Want(b, m)
        BY <4>1 DEF Current, Collected
      <4>3. Want(c, m) = Want(b, m)
        <5>1. c.op = "VarPackage" => n = 2
          BY <1>1, BlockFacts DEF ScriptFits
        <5>2. QED
          BY <1>1, <1>2, <5>1 DEF Want
      <4>4. QED
        BY <1>3, <4>2, <4>3
    <3>3. QED
      BY <3>1, <3>2
  <2>2. c.op \in Handlers /\ c.ip \in 1 .. Len(Script(c.op)) + 1 /\ 0 <= Base(c) /\ c.start <= Len(os)
    BY <1>1, <1>2, <1>11
  <2>3. QED
    BY <2>1, <2>2 DEF Collected
<1>7. Height(c, os, Len(os))
  <2>1. CASE c.ip <= n
    BY <1>1, <1>2, <2>1 DEF Height, OperandHeight
  <2>2. CASE c.ip > n
    <3>1. c.ip = n + 1 /\ n >= 1
      BY <1>11, <1>2, <2>2
    <3>2. c.op # "Call" /\ (c.op \in Packages => n = 2)
      BY <1>1, <3>1, BlockFacts DEF ScriptFits, Packages
    <3>3. QED
      BY <1>1, <1>2, <3>1, <3>2 DEF Height, PackageHeight, FieldsHeight
  <2>3. QED
    BY <1>2, <2>1, <2>2
<1>8. Same(os, os, Base(b))
  BY <1>2 DEF Same
<1>9. QED
  BY <1>3, <1>6, <1>7, <1>8 DEF Follows

\* The scripts whose operands are not all collected one by one
LEMMA FieldScript ==
  ASSUME NEW h \in FieldOps
  PROVE  /\ h \in Handlers /\ h \notin Packages /\ h # "Call" /\ h # "TermArg"
         /\ Adv(h) \in Nat /\ Len(Script(h)) = Adv(h) + 2
         /\ Script(h)[Adv(h) + 1] = "StartFieldList" /\ Script(h)[Adv(h) + 2] = "FieldList"
<1>1. h \in Handlers /\ h \notin Packages /\ h # "Call" /\ h # "TermArg"
  BY DEF FieldOps, Packages, Handlers, NamedObjects
<1>2. ScriptFits(h, Script(h), Operands(h), Adv(h))
  BY <1>1, ScriptsFit DEF Fits
<1>3. QED
  BY <1>1, <1>2 DEF ScriptFits

LEMMA PackageScript ==
  ASSUME NEW h \in Packages
  PROVE  /\ h \in Handlers /\ h \notin FieldOps /\ h # "Call" /\ h # "TermArg"
         /\ Adv(h) = 2 /\ Len(Script(h)) = 3 /\ Script(h)[1] = "PkgLength"
         /\ Script(h)[2] = IF h = "Package" THEN "Byte" ELSE "TermArg"
         /\ Script(h)[3] = IF h = "Package" THEN "PkgElements" ELSE "VarPkgElements"
<1>1. h \in Handlers /\ h \notin FieldOps /\ h # "Call" /\ h # "TermArg"
  BY DEF FieldOps, Packages, Handlers, Expressions
<1>2. ScriptFits(h, Script(h), Operands(h), Adv(h))
  BY <1>1, ScriptsFit DEF Fits
<1>3. CASE h = "Package"
  BY <1>1, <1>2, <1>3 DEF ScriptFits
<1>4. CASE h = "VarPackage"
  BY <1>1, <1>2, <1>4 DEF ScriptFits
<1>5. QED
  BY <1>3, <1>4 DEF Packages

LEMMA CallScript ==
  /\ "Call" \in Handlers /\ "Call" \notin Packages /\ "Call" \notin FieldOps
  /\ Adv("Call") = 0 /\ Len(Script("Call")) = 1 /\ Script("Call")[1] = "MethodArgs"
<1>1. "Call" \in Handlers /\ "Call" \notin Packages /\ "Call" \notin FieldOps
  BY DEF FieldOps, Packages, Handlers, Internal
<1>2. ScriptFits("Call", Script("Call"), Operands("Call"), Adv("Call"))
  BY <1>1, ScriptsFit DEF Fits
<1>3. QED
  BY <1>1, <1>2 DEF ScriptFits

\* All operands of the others are collected one by one.
LEMMA OtherScript ==
  ASSUME NEW h \in Handlers, h \notin FieldOps, h \notin Packages, h # "Call"
  PROVE  Adv(h) = Len(Script(h)) /\ Len(Script(h)) \in Nat
<1>1. ScriptFits(h, Script(h), Operands(h), Adv(h))
  BY ScriptsFit DEF Fits
<1>2. QED
  BY <1>1 DEF ScriptFits

LEMMA AdvancesThere ==
  ASSUME NEW h \in Handlers, NEW n \in 1 .. Adv(h)
  PROVE  Advances(Script(h)[n])
<1>1. ScriptFits(h, Script(h), Operands(h), Adv(h))
  BY ScriptsFit DEF Fits
<1>2. QED
  BY <1>1 DEF ScriptFits

\* What has been collected stays so when the block's place in its script changes.
LEMMA Keeps ==
  ASSUME NEW b, NEW os, Current(b, os), NEW w, Same(os, w, b.start),
         NEW c \in Block, c.op = b.op, c.start = b.start,
         c.ip = b.ip \/ (b.ip > Adv(b.op) /\ c.ip > Adv(b.op)),
         c.ip \in 1 .. Len(Script(b.op)) + 1, c.processed => c.ip <= Len(Script(b.op)),
         c.op # "VarPackage" \/ (c.ip < 3 /\ b.ip < 3) \/ (c.ip = 4 /\ b.ip = 3 /\ b.processed)
  PROVE  Base(c) = Base(b) /\ Same(os, w, Base(b)) /\ Collected(c, w)
<1>1. PICK n, st, base : n = Adv(b.op) /\ st = b.start /\ base = Base(b)
  OBVIOUS
<1>2. n \in Nat /\ st \in Nat /\ base \in Nat /\ base <= st /\ st <= Len(os) /\ b.op \in Handlers
      /\ b.ip \in Nat /\ c.ip \in Nat
  BY <1>1, BlockFacts, Bases
<1>3. Base(c) = Base(b)
  BY <1>1, <1>2 DEF Base
<1>4. Same(os, w, Base(b))
  BY <1>1, <1>2 DEF Same
<1>5. ASSUME NEW m \in 1 .. c.start - Base(c)
      PROVE  w[Base(c) + m].kind = Want(c, m)
  <2>1. m \in 1 .. st - base /\ base + m \in 1 .. st
    BY <1>1, <1>2, <1>3
  <2>2. os[base + m].kind = Want(b, m) /\ w[base + m] = os[base + m]
    BY <1>1, <2>1 DEF Current, Collected, Same
  <2>3. Want(c, m) = Want(b, m)
    BY <1>2 DEF Want
  <2>4. QED
    BY <1>1, <1>3, <2>2, <2>3
<1>6. 0 <= Base(c) /\ c.start <= Len(w)
  BY <1>1, <1>2, <1>3 DEF Same
<1>7. QED
  BY <1>2, <1>3, <1>4, <1>5, <1>6 DEF Collected

\* One thing more on the stack
Grown(os, w, x) == Len(w) = Len(os) + 1 /\ w[Len(w)] = x /\ Same(os, w, Len(os))

\* An operand that is read at once, or a name of an object
LEMMA PlainFollows ==
  ASSUME NEW b, NEW os, Current(b, os), ~ b.processed, b.ip <= Adv(b.op),
         NEW w, NEW x, Grown(os, w, x), x.kind = KindOf(Script(b.op)[b.ip]),
         NEW c \in Block, c.op = b.op, c.ip = b.ip, c.processed, c.start = b.start
  PROVE  Follows(b, os, c, w)
<1>1. /\ b.start \in Nat /\ b.ip \in Nat /\ Adv(b.op) \in 0 .. Len(Script(b.op)) /\ Len(os) \in Nat
      /\ b.ip \in 1 .. Len(Script(b.op)) + 1
      /\ Len(Script(b.op)) \in Nat /\ b.ip <= Len(Script(b.op))
      /\ (b.op = "VarPackage" => b.ip < 3)
  <2>1. b.op = "VarPackage" => Adv(b.op) = 2
    BY PackageScript DEF Packages
  <2>2. QED
    BY <2>1, BlockFacts
<1>2. Len(os) = b.start
  BY DEF Current, Height, OperandHeight
<1>3. Same(os, w, b.start)
  BY <1>2 DEF Grown
<1>4. Base(c) = Base(b) /\ Same(os, w, Base(b)) /\ Collected(c, w)
  BY <1>1, <1>3, Keeps
<1>5. OperandHeight(c, w, Len(w))
  BY <1>1, <1>2 DEF OperandHeight, Grown, Objs
<1>6. Height(c, w, Len(w))
  BY <1>1, <1>2, <1>5 DEF Height, Grown
<1>7. QED
  BY <1>4, <1>6 DEF Follows

\* A list of fields begins.
LEMMA ListFollows ==
  ASSUME NEW b, NEW os, Current(b, os), ~ b.processed, b.op \in FieldOps, b.ip = Adv(b.op) + 1,
         NEW w, NEW x, Grown(os, w, x), x.kind = "fields", x.count = 0,
         NEW c \in Block, c.op = b.op, c.ip = b.ip, c.processed, c.start = b.start
  PROVE  Follows(b, os, c, w)
<1>1. /\ b.start \in Nat /\ b.ip \in Nat /\ Adv(b.op) \in Nat /\ Len(os) \in Nat
      /\ b.ip \in 1 .. Len(Script(b.op)) + 1 /\ b.ip <= Len(Script(b.op))
      /\ Len(Script(b.op)) = Adv(b.op) + 2 /\ b.op \notin Packages /\ b.op # "Call"
      /\ b.op # "VarPackage"
  BY BlockFacts, FieldScript DEF Packages
<1>2. Len(os) = b.start
  BY <1>1 DEF Current, Height, FieldsHeight
<1>3. Same(os, w, b.start)
  BY <1>2 DEF Grown
<1>4. Base(c) = Base(b) /\ Same(os, w, Base(b)) /\ Collected(c, w)
  BY <1>1, <1>3, Keeps
<1>5. FieldsHeight(c, w, Len(w))
  BY <1>1, <1>2 DEF FieldsHeight, Grown
<1>6. Height(c, w, Len(w))
  BY <1>1, <1>2, <1>5 DEF Height, Grown
<1>7. QED
  BY <1>4, <1>6 DEF Follows

\* The operands that are not collected one by one are complete.
LEMMA LaterFollows ==
  ASSUME NEW b, NEW os, Current(b, os), b.processed, b.ip > Adv(b.op),
         b.op = "Call" => Len(os) = b.start + 1 + os[b.start + 1].count,
         NEW c \in Block, c.op = b.op, c.ip = b.ip + 1, ~ c.processed, c.start = b.start
  PROVE  Follows(b, os, c, os)
<1>1. /\ b.start \in Nat /\ b.ip \in Nat /\ Adv(b.op) \in Nat /\ Len(os) \in Nat
      /\ b.ip \in 1 .. Len(Script(b.op)) + 1 /\ Len(Script(b.op)) \in Nat /\ b.start <= Len(os)
      /\ b.ip <= Len(Script(b.op))
  BY BlockFacts DEF Current, Collected
<1>2. Same(os, os, b.start)
  BY <1>1 DEF Same
<1>3. \/ b.op \in FieldOps /\ b.op \notin Packages /\ b.op # "Call"
         /\ b.ip \in {Adv(b.op) + 1, Adv(b.op) + 2}
      \/ b.op \in Packages /\ b.op \notin FieldOps /\ b.op # "Call" /\ b.ip = 3 /\ Adv(b.op) = 2
      \/ b.op = "Call" /\ b.op \notin FieldOps \cup Packages /\ b.ip = 1 /\ Adv(b.op) = 0
  <2>1. CASE b.op \in FieldOps
    BY <1>1, <2>1, FieldScript
  <2>2. CASE b.op \in Packages
    <3>1. Adv(b.op) = 2 /\ Len(Script(b.op)) = 3 /\ b.op \notin FieldOps /\ b.op # "Call"
      BY <2>2, PackageScript
    <3>2. b.ip = 3
      BY <1>1, <3>1
    <3>3. QED
      BY <2>2, <3>1, <3>2
  <2>3. CASE b.op = "Call"
    <3>1. Adv(b.op) = 0 /\ Len(Script(b.op)) = 1 /\ b.op \notin FieldOps /\ b.op \notin Packages
      BY <2>3, CallScript
    <3>2. b.ip = 1
      BY <1>1, <3>1
    <3>3. QED
      BY <2>3, <3>1, <3>2
  <2>4. QED
    <3>1. b.op \in Handlers
      BY BlockFacts
    <3>2. QED
      BY <1>1, <2>1, <2>2, <2>3, <3>1, OtherScript
<1>4. Base(c) = Base(b) /\ Same(os, os, Base(b)) /\ Collected(c, os)
  <2>1. c.ip \in 1 .. Len(Script(b.op)) + 1 /\ (c.processed => c.ip <= Len(Script(b.op)))
    BY <1>1, <1>2, <1>3
  <2>2. b.ip > Adv(b.op) /\ c.ip > Adv(b.op)
    BY <1>1, <1>2, <1>3
  <2>3. c.op # "VarPackage" \/ (c.ip = 4 /\ b.ip = 3 /\ b.processed)
    BY <1>1, <1>2, <1>3 DEF Packages
  <2>4. Same(os, os, b.start)
    BY <1>1, <1>2
  <2>5. QED
    BY <2>1, <2>2, <2>3, <2>4, Keeps
<1>5. Height(b, os, Len(os))
  BY DEF Current
<1>6. Height(c, os, Len(os))
  <2>1. CASE b.op \in FieldOps
    BY <1>1, <1>3, <1>5, <2>1 DEF Height, FieldsHeight
  <2>2. CASE b.op \in Packages
    BY <1>1, <1>3, <1>5, <2>2 DEF Height, PackageHeight
  <2>3. CASE b.op = "Call"
    BY <1>1, <1>3, <1>5, <2>3 DEF Height, CallHeight
  <2>4. QED
    BY <1>3, <2>1, <2>2, <2>3
<1>7. QED
  BY <1>4, <1>6 DEF Follows

\* No argument is left to evaluate.
LEMMA ArgsFollow ==
  ASSUME NEW b, NEW os, Current(b, os), ~ b.processed, b.op = "Call", b.ip = 1,
         NEW c \in Block, c.op = b.op, c.ip = b.ip, c.processed, c.start = b.start
  PROVE  Follows(b, os, c, os)
<1>1. b.start \in Nat /\ Len(os) \in Nat /\ b.start <= Len(os)
  BY BlockFacts
<1>2. Adv(b.op) = 0 /\ Len(Script(b.op)) = 1 /\ b.op \notin FieldOps /\ b.op \notin Packages
  BY CallScript
<1>3. Base(c) = Base(b) /\ Same(os, os, Base(b)) /\ Collected(c, os)
  <2>1. Same(os, os, b.start)
    BY <1>1 DEF Same
  <2>2. c.ip \in 1 .. Len(Script(b.op)) + 1 /\ c.ip <= Len(Script(b.op))
    BY <1>2
  <2>3. QED
    BY <2>1, <2>2, Keeps
<1>4. Height(b, os, Len(os))
  BY DEF Current
<1>5. Height(c, os, Len(os))
  BY <1>1, <1>2, <1>4 DEF Height, CallHeight
<1>6. QED
  BY <1>3, <1>5 DEF Follows

\* What the args object says about a call under evaluation
Taken(os, w, i) ==
  /\ Len(w) = Len(os) /\ \A j \in 1 .. Len(os) : j # i => w[j] = os[j]
  /\ w[i].kind = os[i].kind

\* An argument that is a name of an object
LEMMA ArgFollows ==
  ASSUME NEW b, NEW os, Current(b, os), ~ b.processed, b.op = "Call", b.ip = 1,
         NEW v, Taken(os, v, b.start + 1), NEW w, NEW x, Grown(v, w, x), x.kind = "obj"
  PROVE  Follows(b, os, b, w)
<1>1. b.start \in Nat /\ Len(os) \in Nat /\ b.start <= Len(os) /\ b \in Block
  BY BlockFacts DEF Current
<1>2. Adv(b.op) = 0 /\ Len(Script(b.op)) = 1 /\ b.op \notin FieldOps /\ b.op \notin Packages
  BY CallScript
<1>3. CallHeight(b, os, Len(os))
  BY <1>1, <1>2 DEF Current, Height
<1>4. b.start + 1 <= Len(os) /\ os[b.start + 1].kind = "args" /\ Objs(os, b.start + 2, Len(os))
  BY <1>3 DEF CallHeight
<1>5. /\ Len(w) = Len(os) + 1 /\ w[Len(w)].kind = "obj" /\ w[b.start + 1].kind = "args"
      /\ \A j \in 1 .. Len(os) : j # b.start + 1 => w[j] = os[j]
  BY <1>1, <1>4 DEF Taken, Grown, Same
<1>6. Base(b) = Base(b) /\ Same(os, w, Base(b)) /\ Collected(b, w)
  <2>1. Same(os, w, b.start)
    <3>1. ASSUME NEW j \in 1 .. b.start
          PROVE  w[j] = os[j]
      <4>1. j \in 1 .. Len(os) /\ j # b.start + 1
        BY <1>1
      <4>2. QED
        BY <1>5, <4>1
    <3>2. b.start <= Len(os) /\ b.start <= Len(w)
      BY <1>1, <1>5
    <3>3. QED
      BY <3>1, <3>2 DEF Same
  <2>2. b.ip \in 1 .. Len(Script(b.op)) + 1 /\ b.ip <= Len(Script(b.op))
    <3>1. PICK l : l = Len(Script(b.op))
      OBVIOUS
    <3>2. l = 1
      BY <1>2, <3>1
    <3>3. b.ip \in 1 .. l + 1 /\ b.ip <= l
      BY <3>2
    <3>4. QED
      BY <3>1, <3>3
  <2>3. QED
    BY <1>1, <2>1, <2>2, Keeps
<1>7. Objs(w, b.start + 2, Len(w))
  BY <1>1, <1>4, <1>5 DEF Objs
<1>8. CallHeight(b, w, Len(w))
  BY <1>1, <1>4, <1>5, <1>7 DEF CallHeight
<1>9. Height(b, w, Len(w))
  BY <1>1, <1>2, <1>5, <1>8 DEF Height
<1>10. QED
  BY <1>1, <1>6, <1>9 DEF Follows

\* A package's elements begin, VarPackage's with its number of them.
LEMMA ElementsFollow ==
  ASSUME NEW b, NEW os, Current(b, os), ~ b.processed, b.op \in Packages, b.ip = 3,
         NEW w, b.op = "Package" => w = os,
         b.op = "VarPackage" =>
           /\ Len(w) = Len(os) /\ w[Len(os)].kind = "len"
           /\ \A j \in 1 .. Len(os) - 1 : w[j] = os[j],
         NEW c \in Block, c.op = b.op, c.ip = b.ip, c.processed, c.start = b.start
  PROVE  Follows(b, os, c, w) /\ Len(w) = Len(os) /\ PackageWaits(c, w, Len(w))
<1>1. b.start \in Nat /\ Len(os) \in Nat /\ b.start <= Len(os) /\ Base(b) \in Nat
  BY BlockFacts
<1>2. Adv(b.op) = 2 /\ Len(Script(b.op)) = 3 /\ b.op \notin FieldOps /\ b.op # "Call"
  BY PackageScript
<1>3. Len(os) = b.start /\ Len(w) = Len(os)
  BY <1>1, <1>2 DEF Current, Height, PackageHeight, Packages
<1>4. Base(b) = b.start - 2 /\ Base(c) = b.start - 2
  BY <1>2 DEF Base
<1>5. Same(os, w, Base(b))
  BY <1>1, <1>3, <1>4 DEF Same, Packages
<1>6. Collected(c, w)
  <2>1. ASSUME NEW m \in 1 .. c.start - Base(c)
        PROVE  w[Base(c) + m].kind = Want(c, m)
    <3>1. m \in {1, 2} /\ c.start = b.start /\ b.start - Base(b) = 2
      BY <1>1, <1>4
    <3>2. os[Base(b) + m].kind = Want(b, m)
      BY <3>1 DEF Current, Collected
    <3>3. CASE b.op = "VarPackage" /\ m = 2
      <4>1. Base(c) + m = Len(os) /\ Want(c, m) = "len"
        BY <1>1, <1>3, <1>4, <3>3 DEF Want
      <4>2. QED
        BY <3>3, <4>1
    <3>4. CASE ~ (b.op = "VarPackage" /\ m = 2)
      <4>1. Want(c, m) = Want(b, m)
        BY <3>4 DEF Want
      <4>2. w[Base(b) + m] = os[Base(b) + m]
        <5>1. CASE b.op = "Package"
          BY <5>1
        <5>2. CASE b.op = "VarPackage"
          <6>1. m = 1 /\ Base(b) + m \in 1 .. Len(os) - 1
            BY <1>1, <1>3, <1>4, <3>1, <3>4, <5>2
          <6>2. QED
            BY <5>2, <6>1
        <5>3. QED
          BY <5>1, <5>2 DEF Packages
      <4>3. QED
        BY <1>4, <3>2, <4>1, <4>2
    <3>5. QED
      BY <3>3, <3>4
  <2>2. c.op \in Handlers /\ c.ip \in 1 .. Len(Script(c.op)) + 1 /\ c.ip <= Len(Script(c.op))
    BY <1>2 DEF Current, Collected
  <2>3. 0 <= Base(c) /\ c.start <= Len(w)
    BY <1>1, <1>3, <1>4
  <2>4. QED
    BY <2>1, <2>2, <2>3 DEF Collected
<1>7. Objs(w, c.start + 1, Len(w))
  BY <1>1, <1>3 DEF Objs
<1>8. Height(c, w, Len(w))
  BY <1>1, <1>2, <1>3, <1>7 DEF Height, PackageHeight
<1>9. QED
  BY <1>1, <1>3, <1>4, <1>5, <1>6, <1>7, <1>8 DEF Follows, PackageWaits

\* The state of a field list that is read: what has become of its object
FieldsAt(b, w) ==
  /\ b.start + 1 <= Len(w) /\ w[b.start + 1].kind = "fields"
  /\ IF ~ b.processed /\ w[b.start + 1].count = 2
     THEN Len(w) = b.start + 2 /\ w[Len(w)].kind = "obj"
     ELSE Len(w) = b.start + 1

LEMMA FieldsNow ==
  ASSUME NEW b, NEW os, Current(b, os), ~ b.processed, b.op \in FieldOps, b.ip = Adv(b.op) + 2
  PROVE  FieldsAt(b, os)
<1>1. Adv(b.op) \in Nat /\ b.op \notin Packages /\ b.op # "Call"
  BY FieldScript
<1>2. FieldsHeight(b, os, Len(os))
  BY <1>1 DEF Current, Height
<1>3. QED
  BY <1>1, <1>2 DEF FieldsHeight, FieldsAt

\* A field or a connection has been read, or the list is at its end.
LEMMA FieldsFollow ==
  ASSUME NEW b, NEW os, Current(b, os), ~ b.processed, b.op \in FieldOps, b.ip = Adv(b.op) + 2,
         NEW w, Same(os, w, b.start), Len(w) \in Nat,
         NEW c \in Block, c.op = b.op, c.ip = b.ip, c.start = b.start, FieldsAt(c, w)
  PROVE  Follows(b, os, c, w)
<1>1. /\ Adv(b.op) \in Nat /\ b.op \notin Packages /\ b.op # "Call" /\ b.op # "VarPackage"
      /\ Len(Script(b.op)) = Adv(b.op) + 2 /\ b.start \in Nat
  BY FieldScript, BlockFacts DEF Packages
<1>2. Base(c) = Base(b) /\ Same(os, w, Base(b)) /\ Collected(c, w)
  <2>1. c.ip \in 1 .. Len(Script(b.op)) + 1 /\ c.ip <= Len(Script(b.op))
    BY <1>1
  <2>2. QED
    BY <1>1, <2>1, Keeps
<1>3. FieldsHeight(c, w, Len(w))
  BY <1>1 DEF FieldsHeight, FieldsAt
<1>4. Height(c, w, Len(w))
  BY <1>1, <1>3 DEF Height, FieldsAt
<1>5. QED
  BY <1>2, <1>4 DEF Follows

\* An operation that begins at the height of the stack
LEMMA Fresh ==
  ASSUME NEW w, Len(w) \in Nat, NEW c \in Block, c.ip = 1, ~ c.processed,
         \/ c.op # "Call" /\ c.start = Len(w)
         \/ c.op = "Call" /\ Len(w) = c.start + 1 /\ w[Len(w)].kind = "args"
  PROVE  Base(c) = c.start /\ Collected(c, w) /\ Height(c, w, Len(w))
<1>1. c.start \in Nat /\ c.op \in Handlers /\ Len(Script(c.op)) \in Nat /\ Adv(c.op) \in Nat
  <2>1. c.op \in Handlers /\ c.start \in Nat
    BY Bases
  <2>2. QED
    BY <2>1, ScriptsFit DEF Fits, ScriptFits
<1>2. Base(c) = c.start
  BY <1>1 DEF Base
<1>3. Collected(c, w)
  <2>1. c.start <= Len(w)
    BY <1>1
  <2>2. 1 .. c.start - Base(c) = {}
    BY <1>1, <1>2
  <2>3. QED
    BY <1>1, <1>2, <2>1, <2>2 DEF Collected
<1>4. Height(c, w, Len(w))
  <2>1. CASE c.op = "Call"
    <3>1. Adv(c.op) = 0 /\ c.op \notin FieldOps /\ c.op \notin Packages
      BY <2>1, CallScript
    <3>2. Objs(w, c.start + 2, Len(w))
      BY <1>1, <2>1 DEF Objs
    <3>3. CallHeight(c, w, Len(w))
      BY <1>1, <2>1, <3>2 DEF CallHeight
    <3>4. QED
      BY <1>1, <2>1, <3>1, <3>3 DEF Height
  <2>2. CASE c.op # "Call"
    <3>1. c.op \in FieldOps => Adv(c.op) >= 1
      <4>1. ASSUME c.op \in FieldOps, Adv(c.op) = 0
            PROVE  FALSE
        <5>1. Script(c.op)[1] = "StartFieldList"
          BY <4>1, FieldScript
        <5>2. c.op = "Field" \/ c.op = "IndexField" \/ c.op = "BankField"
          BY <4>1 DEF FieldOps
        <5>3. Len(Script(c.op)) >= 3
          BY <4>1, <5>2 DEF Script, NamedScript, T, S, N, P, Expressions, NamedObjects, Statements, Internal, Constants, Arithmetic, Comparisons, Conversions, CreateFields, Scopes
        <5>4. QED
          BY <4>1, <5>3, FieldScript
      <4>2. QED
        BY <1>1, <4>1
    <3>2. c.op \in Packages => Adv(c.op) = 2
      BY PackageScript
    <3>3. QED
      BY <1>1, <2>2, <3>1, <3>2 DEF Height, OperandHeight
  <2>3. QED
    BY <2>1, <2>2
<1>5. QED
  BY <1>2, <1>3, <1>4

\* What is nested in the current block b, which is c while it waits
Nested(b, os, c, d, w) ==
  /\ c \in Block /\ c.op = b.op /\ Base(c) = Base(b) /\ Same(os, w, Base(b)) /\ Collected(c, w)
  /\ d \in Block /\ c.start <= Base(d) /\ Collected(d, w) /\ Height(d, w, Len(w))
  /\ Waits(c, w, Base(d)) \/ (FieldsWait(c, w, Base(d)) /\ d.op = "TermArg")

LEMMA TermNests ==
  ASSUME NEW b, NEW os, Current(b, os), ~ b.processed, b.ip <= Adv(b.op),
         KindOf(Script(b.op)[b.ip]) = "obj",
         NEW c \in Block, c.op = b.op, c.ip = b.ip, c.processed, c.start = b.start,
         NEW d \in Block, d.ip = 1, ~ d.processed, d.start = Len(os), NEW w,
         \/ d.op # "Call" /\ w = os
         \/ d.op = "Call" /\ \E x : Grown(os, w, x) /\ x.kind = "args"
  PROVE  Nested(b, os, c, d, w)
<1>1. /\ b.start \in Nat /\ b.ip \in Nat /\ Adv(b.op) \in 0 .. Len(Script(b.op)) /\ Len(os) \in Nat
      /\ b.ip \in 1 .. Len(Script(b.op)) + 1
      /\ Len(Script(b.op)) \in Nat /\ b.ip <= Len(Script(b.op))
      /\ (b.op = "VarPackage" => b.ip < 3)
  <2>1. b.op = "VarPackage" => Adv(b.op) = 2
    BY PackageScript DEF Packages
  <2>2. QED
    BY <2>1, BlockFacts
<1>2. Len(os) = b.start
  BY DEF Current, Height, OperandHeight
<1>3. Len(w) \in Nat /\ Same(os, w, Len(os))
  BY <1>1 DEF Grown, Same
<1>4. Base(d) = d.start /\ Collected(d, w) /\ Height(d, w, Len(w))
  <2>1. \/ d.op # "Call" /\ d.start = Len(w)
        \/ d.op = "Call" /\ Len(w) = d.start + 1 /\ w[Len(w)].kind = "args"
    BY DEF Grown
  <2>2. QED
    BY <1>3, <2>1, Fresh
<1>5. Base(c) = Base(b) /\ Same(os, w, Base(b)) /\ Collected(c, w)
  <2>1. Same(os, w, b.start)
    BY <1>2, <1>3
  <2>2. QED
    BY <1>1, <2>1, Keeps
<1>6. Objs(w, c.start + 1, Base(d))
  BY <1>1, <1>2, <1>4 DEF Objs
<1>7. OperandWaits(c, w, Base(d))
  BY DEF OperandWaits
<1>8. c.start <= Base(d)
  BY <1>1, <1>2, <1>4
<1>9. QED
  BY <1>4, <1>5, <1>6, <1>7, <1>8 DEF Nested, Waits

LEMMA ArgNests ==
  ASSUME NEW b, NEW os, Current(b, os), ~ b.processed, b.op = "Call", b.ip = 1,
         NEW v, Taken(os, v, b.start + 1),
         NEW d \in Block, d.ip = 1, ~ d.processed, d.start = Len(os), NEW w,
         \/ d.op # "Call" /\ w = v
         \/ d.op = "Call" /\ \E x : Grown(v, w, x) /\ x.kind = "args"
  PROVE  Nested(b, os, b, d, w)
<1>1. b.start \in Nat /\ Len(os) \in Nat /\ b.start <= Len(os) /\ b \in Block
  BY BlockFacts DEF Current
<1>2. Adv(b.op) = 0 /\ Len(Script(b.op)) = 1 /\ b.op \notin FieldOps /\ b.op \notin Packages
  BY CallScript
<1>3. CallHeight(b, os, Len(os))
  BY <1>1, <1>2 DEF Current, Height
<1>4. b.start + 1 <= Len(os) /\ os[b.start + 1].kind = "args" /\ Objs(os, b.start + 2, Len(os))
  BY <1>3 DEF CallHeight
<1>5. /\ Len(w) \in Nat /\ Len(os) <= Len(w) /\ w[b.start + 1].kind = "args"
      /\ \A j \in 1 .. Len(os) : j # b.start + 1 => w[j] = os[j]
  BY <1>1, <1>4 DEF Taken, Grown, Same
<1>6. Base(d) = d.start /\ Collected(d, w) /\ Height(d, w, Len(w))
  <2>1. \/ d.op # "Call" /\ d.start = Len(w)
        \/ d.op = "Call" /\ Len(w) = d.start + 1 /\ w[Len(w)].kind = "args"
    BY DEF Taken, Grown
  <2>2. QED
    BY <1>5, <2>1, Fresh
<1>7. Base(b) = Base(b) /\ Same(os, w, Base(b)) /\ Collected(b, w)
  <2>1. Same(os, w, b.start)
    <3>1. ASSUME NEW j \in 1 .. b.start
          PROVE  w[j] = os[j]
      <4>1. j \in 1 .. Len(os) /\ j # b.start + 1
        BY <1>1
      <4>2. QED
        BY <1>5, <4>1
    <3>2. b.start <= Len(os) /\ b.start <= Len(w)
      BY <1>1, <1>5
    <3>3. QED
      BY <3>1, <3>2 DEF Same
  <2>2. b.ip \in 1 .. Len(Script(b.op)) + 1 /\ b.ip <= Len(Script(b.op))
    <3>1. PICK l : l = Len(Script(b.op))
      OBVIOUS
    <3>2. l = 1
      BY <1>2, <3>1
    <3>3. b.ip \in 1 .. l + 1 /\ b.ip <= l
      BY <3>2
    <3>4. QED
      BY <3>1, <3>3
  <2>3. QED
    BY <1>1, <2>1, <2>2, Keeps
<1>8. Objs(w, b.start + 2, Base(d))
  BY <1>1, <1>4, <1>5, <1>6 DEF Objs
<1>9. CallWaits(b, w, Base(d)) /\ b.start <= Base(d)
  BY <1>1, <1>4, <1>5, <1>6 DEF CallWaits
<1>10. QED
  BY <1>1, <1>6, <1>7, <1>8, <1>9 DEF Nested, Waits

\* The term of a connection
LEMMA FieldNests ==
  ASSUME NEW b, NEW os, Current(b, os), ~ b.processed, b.op \in FieldOps, b.ip = Adv(b.op) + 2,
         os[b.start + 1].count # 2, NEW w, Taken(os, w, b.start + 1), w[b.start + 1].count = 2,
         NEW d \in Block, d.ip = 1, ~ d.processed, d.start = Len(os), d.op = "TermArg"
  PROVE  Nested(b, os, b, d, w)
<1>1. /\ Adv(b.op) \in Nat /\ b.op \notin Packages /\ b.op # "Call" /\ b.op # "VarPackage"
      /\ Len(Script(b.op)) = Adv(b.op) + 2 /\ b.start \in Nat /\ b \in Block /\ Len(os) \in Nat
  BY FieldScript, BlockFacts DEF Packages, Current
<1>2. Len(os) = b.start + 1 /\ os[b.start + 1].kind = "fields"
  BY FieldsNow DEF FieldsAt
<1>3. Len(w) = Len(os) /\ w[b.start + 1].kind = "fields" /\ Same(os, w, b.start)
  BY <1>1, <1>2 DEF Taken, Same
<1>4. Base(d) = d.start /\ Collected(d, w) /\ Height(d, w, Len(w))
  BY <1>1, <1>3, Fresh
<1>5. Base(b) = Base(b) /\ Same(os, w, Base(b)) /\ Collected(b, w)
  <2>1. b.ip \in 1 .. Len(Script(b.op)) + 1 /\ b.ip <= Len(Script(b.op))
    BY <1>1
  <2>2. QED
    BY <1>1, <1>3, <2>1, Keeps
<1>6. FieldsWait(b, w, Base(d)) /\ b.start <= Base(d)
  BY <1>1, <1>2, <1>3, <1>4 DEF FieldsWait
<1>7. QED
  BY <1>1, <1>4, <1>5, <1>6 DEF Nested

\* When a handler is called, its operands are on the stack.
LEMMA HandlerTakes ==
  ASSUME NEW b, NEW os, Current(b, os), b.ip = Len(Script(b.op)) + 1,
         b.op \notin Packages, b.op # "Call", b.op # "TermArg"
  PROVE  /\ Len(Operands(b.op)) \in Nat /\ Len(os) - Len(Operands(b.op)) = Base(b)
         /\ \A i \in 1 .. Len(Operands(b.op)) : os[Base(b) + i].kind = Operands(b.op)[i]
<1>1. PICK s, o, n : s = Script(b.op) /\ o = Operands(b.op) /\ n = Adv(b.op)
  OBVIOUS
<1>2. ScriptFits(b.op, s, o, n)
  BY <1>1, BlockFacts
<1>3. PICK st, base : st = b.start /\ base = Base(b)
  OBVIOUS
<1>4. /\ st \in Nat /\ base \in Nat /\ base <= st /\ n \in 0 .. Len(s) /\ Len(s) \in Nat
      /\ Len(os) \in Nat /\ b.op \in Handlers /\ b.ip = Len(s) + 1
  BY <1>1, <1>3, BlockFacts
<1>5. base = st - n
  BY <1>1, <1>3, <1>4 DEF Base
<1>6. b.op \notin Internal /\ b.op # "VarPackage"
  BY DEF Internal, Packages
<1>7. \A i \in 1 .. n : o[i] = KindOf(s[i])
  BY <1>2, <1>6 DEF ScriptFits
<1>8. \A i \in 1 .. n : os[base + i].kind = o[i]
  <2>1. \A i \in 1 .. n : i \in 1 .. st - base
    BY <1>4, <1>5
  <2>2. \A i \in 1 .. n : os[base + i].kind = Want(b, i)
    BY <1>3, <2>1 DEF Current, Collected
  <2>3. \A i \in 1 .. n : Want(b, i) = KindOf(s[i])
    BY <1>1, <1>6 DEF Want
  <2>4. QED
    BY <1>7, <2>2, <2>3
<1>9. CASE b.op \in FieldOps
  <2>1. n = Len(s) - 2 /\ b.op # "Call"
    BY <1>1, <1>9, FieldScript
  <2>2. FieldsHeight(b, os, Len(os))
    BY <1>1, <1>4, <1>9, <2>1 DEF Current, Height
  <2>3. Len(os) = st + 1 /\ os[st + 1].kind = "fields"
    BY <1>1, <1>3, <1>4, <2>1, <2>2 DEF FieldsHeight
  <2>4. Len(o) = n + 1 /\ o[n + 1] = "fields"
    BY <1>2, <1>6, <1>9 DEF ScriptFits
  <2>5. st + 1 = base + (n + 1)
    BY <1>4, <1>5
  <2>6. ASSUME NEW i \in 1 .. n + 1
        PROVE  os[base + i].kind = o[i]
    <3>1. i \in 1 .. n \/ i = n + 1
      BY <1>4
    <3>2. QED
      BY <1>8, <2>3, <2>4, <2>5, <3>1
  <2>7. Len(os) - Len(o) = base /\ Len(o) \in Nat
    BY <1>4, <2>3, <2>4, <2>5
  <2>8. QED
    BY <1>1, <1>3, <2>4, <2>6, <2>7
<1>10. CASE b.op \notin FieldOps
  <2>1. n = Len(s)
    BY <1>1, <1>4, <1>10, OtherScript
  <2>2. Len(os) = st
    BY <1>1, <1>3, <1>4, <1>10, <2>1 DEF Current, Height
  <2>3. Len(o) = n
    BY <1>2, <1>6, <1>10 DEF ScriptFits
  <2>4. Len(os) - Len(o) = base /\ Len(o) \in Nat
    BY <1>4, <1>5, <2>2, <2>3
  <2>5. QED
    BY <1>1, <1>3, <1>8, <2>3, <2>4
<1>11. QED
  BY <1>9, <1>10

LEMMA TermTakes ==
  ASSUME NEW b, NEW os, Current(b, os), b.ip = Len(Script(b.op)) + 1, b.op = "TermArg"
  PROVE  Len(Operands(b.op)) = 0 /\ Len(os) = Base(b) + 1 /\ os[Base(b) + 1].kind = "obj"
<1>1. PICK s, o, n : s = Script(b.op) /\ o = Operands(b.op) /\ n = Adv(b.op)
  OBVIOUS
<1>2. ScriptFits(b.op, s, o, n)
  BY <1>1, BlockFacts
<1>3. b.op \notin FieldOps /\ b.op \notin Packages /\ b.op # "Call" /\ b.op # "VarPackage"
  BY DEF FieldOps, Packages
<1>4. n = 1 /\ Len(s) = 1 /\ s[1] = "TermArg" /\ Len(o) = 0
  BY <1>2, <1>3 DEF ScriptFits
<1>5. b.ip = 2 /\ b.start \in Nat /\ Len(os) \in Nat
  <2>1. b.ip = Len(s) + 1
    BY <1>1
  <2>2. b.ip = 2
    BY <1>4, <2>1
  <2>3. QED
    BY <2>2, BlockFacts
<1>6. Base(b) = b.start - 1 /\ Len(os) = b.start
  BY <1>1, <1>3, <1>4, <1>5 DEF Base, Current, Height
<1>7. os[Base(b) + 1].kind = Want(b, 1)
  BY <1>5, <1>6 DEF Current, Collected
<1>8. Want(b, 1) = "obj"
  BY <1>1, <1>3, <1>4 DEF Want, KindOf
<1>9. QED
  BY <1>1, <1>4, <1>5, <1>6, <1>7, <1>8

LEMMA PackageTakes ==
  ASSUME NEW b, NEW os, Current(b, os), b.ip = Len(Script(b.op)) + 1, b.op \in Packages
  PROVE  /\ Base(b) = b.start - 2 /\ Base(b) \in Nat /\ b.start <= Len(os)
         /\ os[b.start - 1].kind = "len" /\ os[b.start].kind = "len"
         /\ Objs(os, b.start + 1, Len(os))
<1>1. /\ Adv(b.op) = 2 /\ Len(Script(b.op)) = 3 /\ Script(b.op)[1] = "PkgLength"
      /\ Script(b.op)[2] = (IF b.op = "Package" THEN "Byte" ELSE "TermArg")
      /\ b.op \notin FieldOps /\ b.op # "Call"
  BY PackageScript
<1>2. b.ip = 4 /\ b.start \in Nat /\ Len(os) \in Nat /\ Base(b) \in Nat /\ b.start <= Len(os)
  BY <1>1, BlockFacts
<1>3. Base(b) = b.start - 2
  BY <1>1, <1>2 DEF Base
<1>4. os[Base(b) + 1].kind = Want(b, 1) /\ os[Base(b) + 2].kind = Want(b, 2)
  <2>1. 1 \in 1 .. b.start - Base(b) /\ 2 \in 1 .. b.start - Base(b)
    BY <1>2, <1>3
  <2>2. QED
    BY <2>1 DEF Current, Collected
<1>5. Want(b, 1) = "len" /\ Want(b, 2) = "len"
  BY <1>1, <1>2 DEF Want, KindOf, Packages
<1>6. Objs(os, b.start + 1, Len(os))
  BY <1>1, <1>2 DEF Current, Height, PackageHeight
<1>7. Base(b) + 1 = b.start - 1 /\ Base(b) + 2 = b.start
  BY <1>2, <1>3
<1>8. QED
  BY <1>2, <1>3, <1>4, <1>5, <1>6, <1>7

LEMMA CallTakes ==
  ASSUME NEW b, NEW os, Current(b, os), b.ip = Len(Script(b.op)) + 1, b.op = "Call"
  PROVE  /\ Base(b) = b.start /\ b.start \in Nat
         /\ Len(os) = b.start + 1 + os[b.start + 1].count /\ b.start + 1 <= Len(os)
         /\ os[b.start + 1].kind = "args" /\ Objs(os, b.start + 2, Len(os))
<1>1. Adv(b.op) = 0 /\ Len(Script(b.op)) = 1 /\ b.op \notin FieldOps /\ b.op \notin Packages
  BY CallScript
<1>2. PICK l : l = Len(Script(b.op))
  OBVIOUS
<1>3. l = 1 /\ b.ip = l + 1
  BY <1>1, <1>2
<1>4. b.ip = 2 /\ b.start \in Nat /\ Len(os) \in Nat
  BY <1>3, BlockFacts
<1>5. Base(b) = b.start
  BY <1>1, <1>4 DEF Base
<1>6. CallHeight(b, os, Len(os))
  BY <1>1, <1>4 DEF Current, Height
<1>7. QED
  BY <1>4, <1>5, <1>6 DEF CallHeight

\* What a handler leaves: the objects below its operands, and its result
LEMMA HandlerLeaves ==
  ASSUME NEW b, NEW os, Current(b, os), b.ip = Len(Script(b.op)) + 1, b.op \notin Packages,
         b.op # "Call", b.op # "TermArg"
  PROVE  /\ Base(b) \in 0 .. Len(os)
         /\ Take(os, Len(os) - Len(Operands(b.op))) = Take(os, Base(b))
<1>1. Base(b) \in Nat /\ Base(b) <= b.start /\ b.start <= Len(os) /\ b.start \in Nat /\ Len(os) \in Nat
  BY BlockFacts
<1>2. Len(os) - Len(Operands(b.op)) = Base(b)
  BY HandlerTakes
<1>3. QED
  BY <1>1, <1>2

-----------------------------------------------------------------------------
(* The shape of the object stack under changes of the frames               *)

LEMMA Greatest ==
  ASSUME NEW n \in Nat, NEW Set, Set \subseteq 0 .. n, Set # {}
  PROVE  \E x \in Set : \A y \in Set : y <= x
<1> DEFINE U == {n - y : y \in Set}
<1>1. U \subseteq Nat /\ U # {}
  OBVIOUS
<1> HIDE DEF U
<1>2. PICK u \in U : \A v \in U : u <= v
  BY <1>1, NatMin, Zenon
<1>3. PICK x \in Set : u = n - x
  BY DEF U
<1>4. ASSUME NEW y \in Set
      PROVE  y <= x
  <2>1. n - y \in U
    BY DEF U
  <2>2. u <= n - y
    BY <1>2, <2>1
  <2>3. x \in 0 .. n /\ y \in 0 .. n
    OBVIOUS
  <2>4. QED
    BY <1>3, <2>2, <2>3
<1>5. QED
  BY <1>4

AllTyped(fs) == Len(fs) \in Nat /\ \A i \in 1 .. Len(fs) : Typed(fs[i])

\* Frames that have the same to do with the object stack
Kin(f, g) == g.start = f.start /\ g.blocks = f.blocks

LEMMA KinFine ==
  ASSUME NEW f, NEW g, Kin(f, g), NEW os, NEW h
  PROVE  /\ LowerFine(f, os, h) => LowerFine(g, os, h)
         /\ TopFine(f, os) => TopFine(g, os)
<1>1. Level(g, h) = Level(f, h) /\ Level(g, Len(os)) = Level(f, Len(os))
  BY DEF Level, Kin
<1>2. FrameFine(f, os, h) => FrameFine(g, os, h)
  BY <1>1 DEF FrameFine, Kin
<1>3. FrameFine(f, os, Len(os)) => FrameFine(g, os, Len(os))
  BY <1>1 DEF FrameFine, Kin
<1>4. QED
  BY <1>2, <1>3 DEF LowerFine, TopFine, Kin

\* The frames below have what they had.
Kept(fs, os, gs, w) == \A i \in 1 .. Len(fs) : i <= Len(gs) => Same(os, w, fs[i].start)

LEMMA ShapeFacts ==
  ASSUME NEW fs, NEW os, AllTyped(fs), Shape(fs, os), Len(os) \in Nat
  PROVE  /\ \A i, k \in 1 .. Len(fs) : i <= k => fs[i].start <= fs[k].start
         /\ \A i \in 1 .. Len(fs) : fs[i].start \in Nat /\ fs[i].start <= Len(os)
         /\ \A i \in 1 .. Len(fs) - 1 : LowerFine(fs[i], os, fs[i + 1].start)
         /\ Len(fs) >= 1 => TopFine(fs[Len(fs)], os)
<1>1. Len(fs) \in Nat /\ \A i \in 1 .. Len(fs) : fs[i].start \in Nat /\ fs[i].blocks \in Seq(Block)
  BY DEF AllTyped, Typed
<1>2. Len(fs) >= 1 => TopFine(fs[Len(fs)], os)
  <2>1. Len(fs) >= 1 => fs # <<>>
    OBVIOUS
  <2>2. QED
    BY <2>1 DEF Shape
<1>3. ASSUME NEW i \in 1 .. Len(fs)
      PROVE  fs[i].start <= Len(os)
  <2>1. Len(fs) \in 1 .. Len(fs) /\ i <= Len(fs)
    BY <1>1
  <2>2. fs[i].start <= fs[Len(fs)].start
    BY <2>1 DEF Shape
  <2>3. PICK f : f = fs[Len(fs)]
    OBVIOUS
  <2>4. TopFine(f, os) /\ Typed(f)
    BY <1>1, <1>2, <2>1, <2>3 DEF AllTyped
  <2>5. f.start <= Len(os)
    <3>1. f.start <= Level(f, Len(os))
      BY <2>4 DEF TopFine, FrameFine
    <3>2. CASE f.blocks = <<>>
      BY <3>1, <3>2 DEF Level
    <3>3. CASE f.blocks # <<>>
      <4>1. 1 \in 1 .. Len(f.blocks) /\ f.blocks[1] \in Block
        BY <2>4, <3>3 DEF Typed
      <4>2. Collected(f.blocks[1], os)
        BY <2>4, <4>1 DEF TopFine, FrameFine
      <4>3. Base(f.blocks[1]) \in Int /\ f.blocks[1].start \in Nat /\ Base(f.blocks[1]) <= f.blocks[1].start
        BY <4>1, <4>2, Bases DEF Collected
      <4>4. f.blocks[1].start <= Len(os)
        BY <4>2 DEF Collected
      <4>5. f.start <= Base(f.blocks[1]) /\ f.start \in Nat
        BY <2>4, <3>1, <3>3 DEF Level, Typed
      <4>6. QED
        BY <4>3, <4>4, <4>5
    <3>4. QED
      BY <3>2, <3>3
  <2>6. fs[i].start \in Nat /\ f.start \in Nat /\ fs[i].start <= f.start
    BY <1>1, <2>1, <2>2, <2>3
  <2>7. QED
    BY <2>5, <2>6
<1>4. QED
  BY <1>1, <1>2, <1>3 DEF Shape

\* The frame that parse works on has changed.
LEMMA ShapeTop ==
  ASSUME NEW fs, NEW gs, NEW os, NEW w, AllTyped(fs), Shape(fs, os), Len(os) \in Nat,
         NEW n \in Nat, n >= 1, Len(fs) = n, Len(gs) = n,
         \A i \in 1 .. n - 1 : Kin(fs[i], gs[i]),
         gs[n].start = fs[n].start, Same(os, w, fs[n].start), TopFine(gs[n], w)
  PROVE  Shape(gs, w) /\ Kept(fs, os, gs, w)
<1>1. /\ \A i, k \in 1 .. n : i <= k => fs[i].start <= fs[k].start
      /\ \A i \in 1 .. n : fs[i].start \in Nat
      /\ \A i \in 1 .. n - 1 : LowerFine(fs[i], os, fs[i + 1].start)
  BY ShapeFacts
<1>2. \A i \in 1 .. n : gs[i].start = fs[i].start
  <2>1. \A i \in 1 .. n : i \in 1 .. n - 1 \/ i = n
    OBVIOUS
  <2>2. QED
    BY <2>1 DEF Kin
<1>3. ASSUME NEW i \in 1 .. n
      PROVE  Same(os, w, fs[i].start)
  <2>1. n \in 1 .. n /\ i <= n
    OBVIOUS
  <2>2. fs[i].start <= fs[n].start /\ fs[i].start \in Nat /\ fs[n].start \in Nat
    BY <1>1, <2>1
  <2>3. PICK x, y : x = fs[i].start /\ y = fs[n].start
    OBVIOUS
  <2>4. Same(os, w, y) /\ x \in Nat /\ y \in Nat /\ x <= y
    BY <2>2, <2>3
  <2>5. Len(os) \in Nat /\ y <= Len(w)
    BY <2>4 DEF Same
  <2>6. Same(os, w, x)
    BY <2>4, <2>5 DEF Same
  <2>7. QED
    BY <2>3, <2>6
<1>4. ASSUME NEW i \in 1 .. n - 1
      PROVE  LowerFine(gs[i], w, gs[i + 1].start)
  <2>1. i \in 1 .. n /\ i + 1 \in 1 .. n
    OBVIOUS
  <2>2. Typed(fs[i]) /\ fs[i + 1].start \in Int
    BY <1>1, <2>1 DEF AllTyped
  <2>3. LowerFine(fs[i], w, fs[i + 1].start)
    BY <1>1, <1>3, <2>1, <2>2, LowerSame
  <2>4. QED
    BY <1>2, <2>1, <2>3, KinFine
<1>5. QED
  BY <1>1, <1>2, <1>3, <1>4 DEF Shape, Kept

\* A frame comes.
LEMMA ShapePush ==
  ASSUME NEW fs, NEW gs, NEW os, NEW w, AllTyped(fs), Shape(fs, os), Len(os) \in Nat,
         NEW n \in Nat, n >= 1, Len(fs) = n, Len(gs) = n + 1,
         \A i \in 1 .. n - 1 : Kin(fs[i], gs[i]),
         gs[n].start = fs[n].start, Same(os, w, fs[n].start),
         LowerFine(gs[n], w, gs[n + 1].start),
         gs[n + 1].start = Len(w), Len(w) \in Nat, gs[n + 1].blocks = <<>>
  PROVE  Shape(gs, w) /\ Kept(fs, os, gs, w)
<1>1. /\ \A i, k \in 1 .. n : i <= k => fs[i].start <= fs[k].start
      /\ \A i \in 1 .. n : fs[i].start \in Nat
      /\ \A i \in 1 .. n - 1 : LowerFine(fs[i], os, fs[i + 1].start)
  BY ShapeFacts
<1>2. \A i \in 1 .. n : gs[i].start = fs[i].start
  <2>1. \A i \in 1 .. n : i \in 1 .. n - 1 \/ i = n
    OBVIOUS
  <2>2. QED
    BY <2>1 DEF Kin
<1>3. ASSUME NEW i \in 1 .. n
      PROVE  Same(os, w, fs[i].start) /\ fs[i].start <= Len(w)
  <2>1. n \in 1 .. n /\ i <= n
    OBVIOUS
  <2>2. fs[i].start <= fs[n].start /\ fs[i].start \in Nat /\ fs[n].start \in Nat
    BY <1>1, <2>1
  <2>3. PICK x, y : x = fs[i].start /\ y = fs[n].start
    OBVIOUS
  <2>4. Same(os, w, y) /\ x \in Nat /\ y \in Nat /\ x <= y
    BY <2>2, <2>3
  <2>5. Len(os) \in Nat /\ y <= Len(w)
    BY <2>4 DEF Same
  <2>6. Same(os, w, x)
    BY <2>4, <2>5 DEF Same
  <2>7. QED
    BY <2>3, <2>4, <2>5, <2>6
<1>4. ASSUME NEW i \in 1 .. n - 1
      PROVE  LowerFine(gs[i], w, gs[i + 1].start)
  <2>1. i \in 1 .. n /\ i + 1 \in 1 .. n
    OBVIOUS
  <2>2. Typed(fs[i]) /\ fs[i + 1].start \in Int
    BY <1>1, <2>1 DEF AllTyped
  <2>3. LowerFine(fs[i], w, fs[i + 1].start)
    BY <1>1, <1>3, <2>1, <2>2, LowerSame
  <2>4. QED
    BY <1>2, <2>1, <2>3, KinFine
<1>5. \A i \in 1 .. (n + 1) - 1 : LowerFine(gs[i], w, gs[i + 1].start)
  <2>1. \A i \in 1 .. (n + 1) - 1 : i \in 1 .. n - 1 \/ i = n
    OBVIOUS
  <2>2. QED
    BY <1>4, <2>1
<1>6. ASSUME NEW i \in 1 .. n + 1, NEW k \in 1 .. n + 1, i <= k
      PROVE  gs[i].start <= gs[k].start
  <2>1. CASE k = n + 1 /\ i = n + 1
    BY <2>1
  <2>2. CASE k = n + 1 /\ i # n + 1
    <3>1. i \in 1 .. n
      BY <2>2
    <3>2. QED
      BY <1>2, <1>3, <2>2, <3>1
  <2>3. CASE k # n + 1
    <3>1. i \in 1 .. n /\ k \in 1 .. n
      BY <1>6, <2>3
    <3>2. QED
      BY <1>1, <1>2, <1>6, <3>1
  <2>4. QED
    BY <2>1, <2>2, <2>3
<1>7. TopFine(gs[n + 1], w)
  BY DEF TopFine, FrameFine, Level, Objs
<1>8. QED
  BY <1>3, <1>5, <1>6, <1>7 DEF Shape, Kept

\* Frames go, with what they had but objects for the frame below.
LEMMA ShapeCut ==
  ASSUME NEW fs, NEW gs, NEW os, NEW w, AllTyped(fs), Shape(fs, os), Len(os) \in Nat,
         NEW n \in Nat, Len(fs) = n, NEW k \in 1 .. n - 1, Len(gs) = k,
         \A i \in 1 .. k : Kin(fs[i], gs[i]),
         Same(os, w, fs[k + 1].start), Objs(w, fs[k + 1].start + 1, Len(w)), Len(w) \in Nat
  PROVE  Shape(gs, w) /\ Kept(fs, os, gs, w)
<1>1. /\ \A i, j \in 1 .. n : i <= j => fs[i].start <= fs[j].start
      /\ \A i \in 1 .. n : fs[i].start \in Nat
      /\ \A i \in 1 .. n - 1 : LowerFine(fs[i], os, fs[i + 1].start)
  BY ShapeFacts
<1>2. k + 1 \in 1 .. n
  OBVIOUS
<1>3. ASSUME NEW i \in 1 .. k + 1
      PROVE  Same(os, w, fs[i].start)
  <2>1. i \in 1 .. n /\ i <= k + 1
    OBVIOUS
  <2>2. fs[i].start <= fs[k + 1].start /\ fs[i].start \in Nat /\ fs[k + 1].start \in Nat
    BY <1>1, <1>2, <2>1
  <2>3. PICK x, y : x = fs[i].start /\ y = fs[k + 1].start
    OBVIOUS
  <2>4. Same(os, w, y) /\ x \in Nat /\ y \in Nat /\ x <= y
    BY <2>2, <2>3
  <2>5. Len(os) \in Nat /\ y <= Len(w)
    BY <2>4 DEF Same
  <2>6. Same(os, w, x)
    BY <2>4, <2>5 DEF Same
  <2>7. QED
    BY <2>3, <2>6
<1>4. ASSUME NEW i \in 1 .. k - 1
      PROVE  LowerFine(gs[i], w, gs[i + 1].start)
  <2>1. i \in 1 .. n - 1 /\ i \in 1 .. k /\ i + 1 \in 1 .. k /\ i \in 1 .. n /\ i + 1 \in 1 .. n /\ i + 1 \in 1 .. k + 1
    OBVIOUS
  <2>2. Typed(fs[i]) /\ fs[i + 1].start \in Int
    BY <1>1, <2>1 DEF AllTyped
  <2>3. LowerFine(fs[i], w, fs[i + 1].start)
    BY <1>1, <1>3, <2>1, <2>2, LowerSame
  <2>4. gs[i + 1].start = fs[i + 1].start /\ Kin(fs[i], gs[i])
    BY <2>1 DEF Kin
  <2>5. QED
    BY <2>3, <2>4, KinFine
<1>5. TopFine(gs[k], w)
  <2>1. k \in 1 .. n - 1 /\ k \in 1 .. n /\ k \in 1 .. k
    OBVIOUS
  <2>2. Typed(fs[k]) /\ fs[k + 1].start \in Int /\ LowerFine(fs[k], os, fs[k + 1].start)
    BY <1>1, <1>2, <2>1 DEF AllTyped
  <2>3. TopFine(fs[k], w)
    BY <2>2, Uncovered
  <2>4. QED
    BY <2>1, <2>3, KinFine
<1>6. ASSUME NEW i \in 1 .. k, NEW j \in 1 .. k, i <= j
      PROVE  gs[i].start <= gs[j].start
  <2>1. gs[i].start = fs[i].start /\ gs[j].start = fs[j].start /\ i \in 1 .. n /\ j \in 1 .. n
    BY DEF Kin
  <2>2. QED
    BY <1>1, <1>6, <2>1
<1>7. ASSUME NEW i \in 1 .. n, i <= k
      PROVE  Same(os, w, fs[i].start)
  <2>1. i \in 1 .. k + 1
    BY <1>7
  <2>2. QED
    BY <1>3, <2>1
<1>8. QED
  BY <1>4, <1>5, <1>6, <1>7 DEF Shape, Kept

\* The frames between statements have nothing but objects above the one below.
LEMMA ObjsAbove ==
  ASSUME NEW fs, NEW os, AllTyped(fs), Shape(fs, os), Len(os) \in Nat,
         NEW n \in Nat, Len(fs) = n, NEW k \in 1 .. n - 1,
         \A i \in k + 1 .. n - 1 : fs[i].blocks = <<>>
  PROVE  Objs(os, fs[k + 1].start + 1, Level(fs[n], Len(os)))
<1>1. /\ \A i \in 1 .. n : fs[i].start \in Nat
      /\ \A i \in 1 .. n - 1 : LowerFine(fs[i], os, fs[i + 1].start)
      /\ TopFine(fs[n], os)
  BY ShapeFacts
<1>2. SUFFICES ASSUME NEW x \in fs[k + 1].start + 1 .. Level(fs[n], Len(os))
               PROVE  os[x].kind = "obj"
  BY DEF Objs
<1>3. k + 1 \in 1 .. n /\ n \in 1 .. n
  OBVIOUS
<1>4. fs[k + 1].start \in Nat /\ fs[n].start \in Nat
  BY <1>1, <1>3
<1>5. x \in Nat /\ x >= fs[k + 1].start + 1
  BY <1>4
<1>6. CASE x >= fs[n].start + 1
  <2>1. Objs(os, fs[n].start + 1, Level(fs[n], Len(os)))
    BY <1>1 DEF TopFine, FrameFine
  <2>2. QED
    BY <1>4, <1>5, <1>6, <2>1 DEF Objs
<1>7. CASE ~ (x >= fs[n].start + 1)
  <2> DEFINE U == {i \in k + 1 .. n : fs[i].start < x}
  <2>1. U \subseteq 0 .. n /\ k + 1 \in U
    BY <1>3, <1>4, <1>5
  <2>2. PICK i \in U : \A j \in U : j <= i
    BY <2>1, Greatest
  <2>3. i \in k + 1 .. n /\ fs[i].start < x
    OBVIOUS
  <2>4. i # n
    BY <1>4, <1>5, <1>7, <2>3
  <2>5. i \in k + 1 .. n - 1 /\ i \in 1 .. n - 1 /\ i + 1 \in k + 1 .. n /\ i \in 1 .. n /\ i + 1 \in 1 .. n
    BY <2>3, <2>4
  <2>6. ~ (fs[i + 1].start < x)
    BY <2>2, <2>5
  <2>7. fs[i].blocks = <<>> /\ LowerFine(fs[i], os, fs[i + 1].start)
    BY <1>1, <2>5
  <2>8. Objs(os, fs[i].start + 1, fs[i + 1].start)
    BY <2>7 DEF LowerFine, FrameFine, Level
  <2>9. fs[i].start \in Nat /\ fs[i + 1].start \in Nat
    BY <1>1, <2>5
  <2>10. x \in fs[i].start + 1 .. fs[i + 1].start
    BY <1>5, <2>3, <2>6, <2>9
  <2>11. QED
    BY <2>8, <2>10 DEF Objs
<1>8. QED
  BY <1>6, <1>7

-----------------------------------------------------------------------------
(* The other parts of the invariant under changes of the frames.  In a     *)
(* Change from fs to gs the frames up to k are as they were, but for what  *)
(* frame k, the top of gs or the one below it, has of its own.             *)

Twin(f, g) ==
  /\ Kin(f, g) /\ g.type = f.type /\ g.isMethod = f.isMethod /\ g.needResult = f.needResult
  /\ g.needLoad = f.needLoad /\ g.parent = f.parent /\ g.end = f.end
  /\ g.left = f.left \/ f.blocks = <<>>
Alike(f, g) ==
  /\ g.start = f.start /\ g.type = f.type /\ g.isMethod = f.isMethod
  /\ (g.needResult => f.needResult)
  /\ g.needLoad = f.needLoad /\ g.parent = f.parent /\ g.end = f.end

Change(fs, gs, k) ==
  /\ k \in 1 .. Len(fs) /\ k <= Len(gs)
  /\ \A i \in 1 .. k - 1 : Twin(fs[i], gs[i])
  /\ Alike(fs[k], gs[k])

LEMMA ChangeFacts ==
  ASSUME NEW fs, NEW gs, NEW k \in Nat, Len(fs) \in Nat, Change(fs, gs, k)
  PROVE  /\ k >= 1 /\ k <= Len(fs) /\ k <= Len(gs)
         /\ \A i \in 1 .. k :
              /\ gs[i].type = fs[i].type /\ gs[i].isMethod = fs[i].isMethod
              /\ gs[i].start = fs[i].start /\ gs[i].parent = fs[i].parent
              /\ gs[i].end = fs[i].end /\ gs[i].needLoad = fs[i].needLoad
              /\ (gs[i].needResult => fs[i].needResult) /\ Alike(fs[i], gs[i])
         /\ \A i \in 1 .. k - 1 : Kin(fs[i], gs[i]) /\ Twin(fs[i], gs[i])
<1>1. \A i \in 1 .. k : i \in 1 .. k - 1 \/ i = k
  OBVIOUS
<1>2. \A f, g : Twin(f, g) => Alike(f, g) /\ Kin(f, g)
  BY DEF Twin, Kin, Alike
<1>3. \A i \in 1 .. k : Alike(fs[i], gs[i])
  BY <1>1, <1>2 DEF Change
<1>4. QED
  BY <1>2, <1>3 DEF Change, Alike

LEMMA LinkedCut ==
  ASSUME NEW fs, NEW gs, NEW k \in Nat, Len(fs) \in Nat, Change(fs, gs, k), Len(gs) = k,
         FramesLinked(fs), MaxFrames \in Nat
  PROVE  FramesLinked(gs)
<1>1. PICK n : n = Len(fs)
  OBVIOUS
<1>2. n \in Nat /\ k >= 1 /\ k <= n
  BY <1>1, ChangeFacts
<1>3. \A i \in 1 .. k :
        /\ gs[i].type = fs[i].type /\ gs[i].isMethod = fs[i].isMethod
        /\ gs[i].start = fs[i].start /\ gs[i].parent = fs[i].parent
        /\ gs[i].end = fs[i].end /\ gs[i].needLoad = fs[i].needLoad
        /\ (gs[i].needResult => fs[i].needResult)
  BY ChangeFacts
<1>4. \A i \in 1 .. k - 1 : gs[i].blocks = fs[i].blocks
  BY ChangeFacts DEF Kin
<1>5. BaseFrame(gs[1])
  <2>1. 1 \in 1 .. k /\ fs # <<>>
    BY <1>1, <1>2
  <2>2. BaseFrame(fs[1])
    BY <2>1 DEF FramesLinked
  <2>3. QED
    BY <1>3, <2>1, <2>2 DEF BaseFrame
<1>6. ASSUME NEW i \in 1 .. k - 1
      PROVE  Linked(gs[i], gs[i + 1])
  <2>1. i \in 1 .. n - 1 /\ i \in 1 .. k /\ i + 1 \in 1 .. k
    BY <1>2
  <2>2. Linked(fs[i], fs[i + 1])
    BY <1>1, <2>1 DEF FramesLinked
  <2>3. QED
    BY <1>3, <1>4, <2>1, <2>2 DEF Linked
<1>7. ASSUME NEW i \in 1 .. k, NEW j \in 1 .. k, i < j, gs[j].type # "Package",
             \A m \in i + 1 .. j : ~ gs[m].isMethod,
             NEW m \in i .. j
      PROVE  gs[m].type # "Package"
  <2>1. i \in 1 .. n /\ j \in 1 .. n /\ m \in 1 .. k
    BY <1>2
  <2>2. \A l \in i + 1 .. j : l \in 1 .. k
    OBVIOUS
  <2>3. \A l \in i + 1 .. j : ~ fs[l].isMethod
    BY <1>3, <1>7, <2>2
  <2>4. fs[j].type # "Package"
    BY <1>3, <1>7
  <2>5. fs[m].type # "Package"
    BY <1>1, <1>7, <2>1, <2>3, <2>4 DEF FramesLinked
  <2>6. QED
    BY <1>3, <2>1, <2>5
<1>8. Len(gs) <= MaxFrames
  BY <1>1, <1>2 DEF FramesLinked
<1>9. QED
  BY <1>5, <1>6, <1>7, <1>8 DEF FramesLinked

LEMMA LinkedPush ==
  ASSUME NEW fs, NEW gs, NEW n \in Nat, Len(fs) = n, Change(fs, gs, n), Len(gs) = n + 1,
         FramesLinked(fs), n < MaxFrames, MaxFrames \in Nat, Linked(gs[n], gs[n + 1])
  PROVE  FramesLinked(gs)
<1>1. n >= 1
  BY ChangeFacts
<1>2. PICK hs : hs = [i \in 1 .. n |-> gs[i]]
  OBVIOUS
<1>3. hs \in Seq({gs[i] : i \in 1 .. n}) /\ Len(hs) = n /\ \A i \in 1 .. n : hs[i] = gs[i]
  BY <1>2
<1>4. Change(fs, hs, n)
  BY <1>1, <1>3 DEF Change
<1>5. FramesLinked(hs)
  BY <1>3, <1>4, LinkedCut
<1>6. BaseFrame(gs[1])
  <2>1. hs # <<>> /\ hs[1] = gs[1]
    BY <1>1, <1>3
  <2>2. QED
    BY <1>5, <2>1 DEF FramesLinked
<1>7. ASSUME NEW i \in 1 .. (n + 1) - 1
      PROVE  Linked(gs[i], gs[i + 1])
  <2>1. CASE i = n
    BY <2>1
  <2>2. CASE i # n
    <3>1. i \in 1 .. n - 1 /\ i \in 1 .. n /\ i + 1 \in 1 .. n
      BY <2>2
    <3>2. Linked(hs[i], hs[i + 1])
      BY <1>3, <1>5, <3>1 DEF FramesLinked
    <3>3. QED
      BY <1>3, <3>1, <3>2
  <2>3. QED
    BY <2>1, <2>2
<1>8. ASSUME NEW i \in 1 .. n + 1, NEW j \in 1 .. n + 1, i < j, gs[j].type # "Package",
             \A m \in i + 1 .. j : ~ gs[m].isMethod,
             NEW m \in i .. j
      PROVE  gs[m].type # "Package"
  <2>1. CASE j # n + 1
    <3>1. i \in 1 .. n /\ j \in 1 .. n /\ m \in 1 .. n
      BY <1>8, <2>1
    <3>2. \A l \in i + 1 .. j : l \in 1 .. n
      BY <3>1
    <3>3. hs[j].type # "Package" /\ \A l \in i + 1 .. j : ~ hs[l].isMethod
      BY <1>3, <1>8, <3>1, <3>2
    <3>4. hs[m].type # "Package"
      BY <1>3, <1>5, <1>8, <3>1, <3>3 DEF FramesLinked
    <3>5. QED
      BY <1>3, <3>1, <3>4
  <2>2. CASE j = n + 1
    <3>1. ~ gs[n + 1].isMethod
      BY <1>8, <2>2
    <3>2. gs[n].type # "Package"
      BY <1>8, <2>2, <3>1 DEF Linked
    <3>3. CASE m = n + 1
      BY <1>8, <2>2, <3>3
    <3>4. CASE m = n
      BY <3>2, <3>4
    <3>5. CASE m # n + 1 /\ m # n
      <4>1. i \in 1 .. n /\ i < n /\ m \in i .. n /\ n \in 1 .. n /\ m \in 1 .. n
        BY <1>1, <3>5
      <4>2. \A l \in i + 1 .. n : l \in i + 1 .. j /\ l \in 1 .. n
        BY <2>2
      <4>3. hs[n].type # "Package" /\ \A l \in i + 1 .. n : ~ hs[l].isMethod
        BY <1>3, <1>8, <3>2, <4>1, <4>2
      <4>4. hs[m].type # "Package"
        BY <1>3, <1>5, <4>1, <4>3 DEF FramesLinked
      <4>5. QED
        BY <1>3, <4>1, <4>4
    <3>6. QED
      BY <3>3, <3>4, <3>5
  <2>3. QED
    BY <2>1, <2>2
<1>9. Len(gs) <= MaxFrames
  OBVIOUS
<1>10. QED
  BY <1>6, <1>7, <1>8, <1>9 DEF FramesLinked

LEMMA MethodsCount ==
  ASSUME NEW fs, NEW k \in Nat, NEW j \in 0 .. k
  PROVE  /\ Cardinality(MethodsIn(fs, 1, j)) \in Nat /\ Cardinality(MethodsIn(fs, j + 1, k)) \in Nat
         /\ Cardinality(MethodsIn(fs, 1, k)) =
              Cardinality(MethodsIn(fs, 1, j)) + Cardinality(MethodsIn(fs, j + 1, k))
         /\ Cardinality(MethodsIn(fs, j + 1, k)) = 0 <=> MethodsIn(fs, j + 1, k) = {}
<1> DEFINE A == MethodsIn(fs, 1, j)
           B == MethodsIn(fs, j + 1, k)
<1>1. IsFiniteSet(A) /\ IsFiniteSet(B)
  <2>1. IsFiniteSet(1 .. j) /\ IsFiniteSet(j + 1 .. k)
    BY FS_Interval
  <2>2. A \in SUBSET (1 .. j) /\ B \in SUBSET (j + 1 .. k)
    BY DEF MethodsIn
  <2> HIDE DEF A, B
  <2>3. QED
    BY <2>1, <2>2, FS_Subset
<1>2. A \cup B = MethodsIn(fs, 1, k) /\ A \cap B = {}
  BY DEF MethodsIn
<1> HIDE DEF A, B
<1>3. Cardinality(A \cup B) = Cardinality(A) + Cardinality(B) - Cardinality(A \cap B)
  BY <1>1, FS_Union
<1>4. Cardinality(A \cap B) = 0
  BY <1>2, FS_EmptySet
<1>5. Cardinality(A) \in Nat /\ Cardinality(B) \in Nat
  BY <1>1, FS_CardinalityType
<1>6. Cardinality(B) = 0 <=> B = {}
  BY <1>1, FS_EmptySet
<1>7. Cardinality(MethodsIn(fs, 1, k)) = Cardinality(A) + Cardinality(B)
  <2>1. Cardinality(A \cup B) = Cardinality(A) + Cardinality(B)
    BY <1>3, <1>4, <1>5
  <2>2. QED
    BY <1>2, <2>1, Zenon
<1>8. QED
  BY <1>5, <1>6, <1>7 DEF A, B

\* One frame
LEMMA MethodsOne ==
  ASSUME NEW fs, NEW k \in Nat
  PROVE  Cardinality(MethodsIn(fs, k, k)) = IF fs[k].isMethod THEN 1 ELSE 0
<1>1. CASE fs[k].isMethod
  <2>1. MethodsIn(fs, k, k) = {k}
    BY <1>1 DEF MethodsIn
  <2>2. QED
    BY <1>1, <2>1, FS_Singleton
<1>2. CASE ~ fs[k].isMethod
  <2>1. MethodsIn(fs, k, k) = {}
    BY <1>2 DEF MethodsIn
  <2>2. QED
    BY <1>2, <2>1, FS_EmptySet
<1>3. QED
  BY <1>1, <1>2

LEMMA MethodPlace ==
  ASSUME NEW fs, NEW k \in Nat, NEW i \in 1 .. k, fs[i].isMethod
  PROVE  Cardinality(MethodsIn(fs, 1, i)) \in 1 .. Cardinality(MethodsIn(fs, 1, k))
<1>1. PICK c, d, e, j : /\ c = Cardinality(MethodsIn(fs, 1, i)) /\ d = Cardinality(MethodsIn(fs, 1, k))
                        /\ j = i - 1 /\ e = Cardinality(MethodsIn(fs, 1, j))
  OBVIOUS
<1>2. i \in 0 .. k /\ i \in Nat /\ j \in 0 .. i /\ j + 1 = i
  BY <1>1
<1>3. c \in Nat /\ d = c + Cardinality(MethodsIn(fs, i + 1, k)) /\ Cardinality(MethodsIn(fs, i + 1, k)) \in Nat
  BY <1>1, <1>2, MethodsCount
<1>4. e \in Nat /\ c = e + Cardinality(MethodsIn(fs, j + 1, i))
  BY <1>1, <1>2, MethodsCount
<1>5. Cardinality(MethodsIn(fs, j + 1, i)) = 1
  BY <1>2, MethodsOne
<1>6. c \in 1 .. d
  BY <1>3, <1>4, <1>5
<1>7. QED
  BY <1>1, <1>6

LEMMA MethodsCut ==
  ASSUME NEW fs, NEW gs, NEW k \in Nat, Len(fs) \in Nat, Change(fs, gs, k), Len(gs) = k,
         NEW ms, MethodsFit(fs, ms), NEW ls,
         Len(ls) = Cardinality(MethodsIn(fs, 1, k)), \A i \in 1 .. Len(ls) : ls[i] = ms[i]
  PROVE  MethodsFit(gs, ls)
<1>1. k >= 1 /\ k <= Len(fs)
  BY ChangeFacts
<1>2. \A i \in 1 .. k :
        gs[i].isMethod = fs[i].isMethod /\ (gs[i].needResult => fs[i].needResult)
  BY ChangeFacts
<1>3. ASSUME NEW i \in 1 .. k
      PROVE  MethodsIn(gs, 1, i) = MethodsIn(fs, 1, i)
  <2>1. \A j \in 1 .. i : j \in 1 .. k
    OBVIOUS
  <2>2. \A j \in 1 .. i : gs[j].isMethod = fs[j].isMethod
    BY <1>2, <2>1
  <2>3. 1 \in Nat /\ i \in Nat
    OBVIOUS
  <2>4. QED
    BY <2>2, <2>3 DEF MethodsIn
<1>4. Len(ls) = Cardinality(MethodsIn(gs, 1, Len(gs)))
  BY <1>1, <1>3
<1>5. ASSUME NEW i \in 1 .. k, gs[i].isMethod, ls[Cardinality(MethodsIn(gs, 1, i))] = "load"
      PROVE  ~ gs[i].needResult
  <2>1. PICK c : c = Cardinality(MethodsIn(fs, 1, i))
    OBVIOUS
  <2>2. c \in 1 .. Len(ls)
    <3>1. fs[i].isMethod
      BY <1>2, <1>5
    <3>2. QED
      BY <2>1, <3>1, MethodPlace
  <2>3. ms[c] = "load" /\ fs[i].isMethod
    BY <1>2, <1>3, <1>5, <2>1, <2>2
  <2>4. i \in 1 .. Len(fs)
    BY <1>1
  <2>5. ~ fs[i].needResult
    BY <2>1, <2>3, <2>4 DEF MethodsFit
  <2>6. QED
    BY <1>2, <2>5
<1>6. QED
  BY <1>4, <1>5 DEF MethodsFit

LEMMA MethodsPush ==
  ASSUME NEW fs, NEW gs, NEW n \in Nat, Len(fs) = n, Change(fs, gs, n), Len(gs) = n + 1,
         NEW ms, MethodsFit(fs, ms), NEW ls,
         \/ ~ gs[n + 1].isMethod /\ ls = ms
         \/ /\ gs[n + 1].isMethod /\ Len(ls) = Len(ms) + 1
            /\ \A i \in 1 .. Len(ms) : ls[i] = ms[i]
            /\ ls[Len(ls)] = "load" => ~ gs[n + 1].needResult
  PROVE  MethodsFit(gs, ls)
<1>1. n >= 1 /\ \A i \in 1 .. n :
        gs[i].isMethod = fs[i].isMethod /\ (gs[i].needResult => fs[i].needResult)
  BY ChangeFacts
<1>2. ASSUME NEW i \in 1 .. n
      PROVE  MethodsIn(gs, 1, i) = MethodsIn(fs, 1, i)
  <2>1. \A j \in 1 .. i : j \in 1 .. n
    OBVIOUS
  <2>2. \A j \in 1 .. i : gs[j].isMethod = fs[j].isMethod
    BY <1>1, <2>1
  <2>3. 1 \in Nat /\ i \in Nat
    OBVIOUS
  <2>4. PICK k : k = i
    OBVIOUS
  <2>5. k \in Nat /\ \A j \in 1 .. k : gs[j].isMethod = fs[j].isMethod
    BY <2>2, <2>3, <2>4
  <2>6. MethodsIn(gs, 1, k) = MethodsIn(fs, 1, k)
    BY ONLY <2>5 DEF MethodsIn
  <2>7. QED
    BY <2>4, <2>6
<1>3. Len(ms) = Cardinality(MethodsIn(gs, 1, n)) /\ Len(ms) \in Nat
  <2>1. n \in 1 .. n /\ n \in 0 .. n
    BY <1>1
  <2>2. QED
    BY <1>2, <2>1, MethodsCount DEF MethodsFit
<1>4. Cardinality(MethodsIn(gs, 1, n + 1)) = Len(ms) + IF gs[n + 1].isMethod THEN 1 ELSE 0
  <2>1. n \in 0 .. n + 1 /\ n + 1 \in Nat
    OBVIOUS
  <2>2. Cardinality(MethodsIn(gs, 1, n + 1)) = Len(ms) + Cardinality(MethodsIn(gs, n + 1, n + 1))
    BY <1>3, <2>1, MethodsCount
  <2>3. QED
    BY <2>1, <2>2, MethodsOne
<1>5. Len(ls) = Cardinality(MethodsIn(gs, 1, n + 1))
  BY <1>3, <1>4
<1>6. ASSUME NEW i \in 1 .. n + 1, gs[i].isMethod, ls[Cardinality(MethodsIn(gs, 1, i))] = "load"
      PROVE  ~ gs[i].needResult
  <2>1. CASE i = n + 1
    BY <1>3, <1>5, <1>6, <2>1
  <2>2. CASE i # n + 1
    <3>1. i \in 1 .. n /\ i \in 0 .. n /\ i \in Nat /\ i - 1 \in 0 .. i /\ i - 1 + 1 = i
      BY <2>2
    <3>2. PICK c : c = Cardinality(MethodsIn(fs, 1, i))
      OBVIOUS
    <3>3. c \in 1 .. Len(ms)
      <4>1. fs[i].isMethod
        BY <1>1, <1>6, <3>1
      <4>2. QED
        BY <3>1, <3>2, <4>1, MethodPlace DEF MethodsFit
    <3>4. ls[c] = ms[c]
      BY <3>3
    <3>5. ms[c] = "load" /\ fs[i].isMethod
      BY <1>1, <1>2, <1>6, <3>1, <3>2, <3>4
    <3>6. ~ fs[i].needResult
      BY <3>1, <3>2, <3>5 DEF MethodsFit
    <3>7. QED
      BY <1>1, <3>1, <3>6
  <2>3. QED
    BY <2>1, <2>2
<1>7. QED
  BY <1>5, <1>6 DEF MethodsFit

LEMMA RoomySame ==
  ASSUME NEW fs, NEW gs, NEW i \in Nat, NEW b, NEW c, c.op = b.op, Roomy(fs, i, b),
         \A m \in 1 .. i : gs[m].type = fs[m].type /\ gs[m].isMethod = fs[m].isMethod
  PROVE  Roomy(gs, i, c)
<1>1. MethodsIn(gs, 1, i) = MethodsIn(fs, 1, i)
  BY DEF MethodsIn
<1>2. InLoopAt(fs, i) => InLoopAt(gs, i)
  <2>1. SUFFICES ASSUME InLoopAt(fs, i)
                 PROVE  InLoopAt(gs, i)
    OBVIOUS
  <2>2. PICK m \in 1 .. i : fs[m].type = "While" /\ \A j \in m .. i : fs[j].type \in {"While", "If"}
    BY <2>1 DEF InLoopAt
  <2>3. \A j \in m .. i : j \in 1 .. i
    OBVIOUS
  <2>4. gs[m].type = "While" /\ \A j \in m .. i : gs[j].type \in {"While", "If"}
    BY <2>2, <2>3
  <2>5. QED
    BY <2>4 DEF InLoopAt
<1>3. QED
  BY <1>1, <1>2 DEF Roomy

\* The blocks of the frames up to k are where they may be, and none is above.
LEMMA PlacedChange ==
  ASSUME NEW fs, NEW gs, NEW k \in Nat, Len(fs) \in Nat, Change(fs, gs, k),
         \/ Len(gs) = k
         \/ Len(gs) = k + 1 /\ gs[k + 1].blocks = <<>>,
         BlocksPlaced(fs),
         \A j \in 1 .. Len(gs[k].blocks) :
           BlockPlaced(gs[k], j) /\ Roomy(fs, k, gs[k].blocks[j])
  PROVE  BlocksPlaced(gs)
<1>1. k >= 1 /\ k <= Len(fs)
  BY ChangeFacts
<1>2. \A i \in 1 .. k : gs[i].type = fs[i].type /\ gs[i].isMethod = fs[i].isMethod
  BY ChangeFacts
<1>3. ASSUME NEW i \in 1 .. Len(gs), NEW j \in 1 .. Len(gs[i].blocks)
      PROVE  BlockPlaced(gs[i], j) /\ Roomy(gs, i, gs[i].blocks[j])
  <2>1. CASE i = k
    <3>1. BlockPlaced(gs[i], j) /\ Roomy(fs, i, gs[i].blocks[j])
      BY <2>1
    <3>2. i \in Nat /\ \A m \in 1 .. i : gs[m].type = fs[m].type /\ gs[m].isMethod = fs[m].isMethod
      BY <1>2, <2>1
    <3>3. PICK c : c = gs[i].blocks[j]
      OBVIOUS
    <3>4. Roomy(fs, i, c)
      BY <3>1, <3>3
    <3>5. Roomy(gs, i, c)
      BY <3>2, <3>4, RoomySame
    <3>6. QED
      BY <3>1, <3>3, <3>5
  <2>2. CASE i > k
    <3>1. gs[i].blocks = <<>>
      BY <1>1, <2>2
    <3>2. QED
      BY <3>1
  <2>3. CASE i < k
    <3>1. i \in 1 .. k - 1 /\ i \in 1 .. Len(fs) /\ i \in Nat
      BY <1>1, <2>3
    <3>2. Twin(fs[i], gs[i])
      BY <3>1 DEF Change
    <3>13. gs[i].blocks # <<>>
      OBVIOUS
    <3>3. gs[i].blocks = fs[i].blocks /\ gs[i].type = fs[i].type /\ gs[i].left = fs[i].left
      BY <3>2, <3>13 DEF Twin, Kin
    <3>4. BlockPlaced(fs[i], j) /\ Roomy(fs, i, fs[i].blocks[j])
      BY <3>1, <3>3 DEF BlocksPlaced
    <3>5. BlockPlaced(gs[i], j)
      BY <3>3, <3>4 DEF BlockPlaced
    <3>6. \A m \in 1 .. i : m \in 1 .. k
      BY <1>1, <2>3, <3>1
    <3>9. \A m \in 1 .. i : gs[m].type = fs[m].type /\ gs[m].isMethod = fs[m].isMethod
      BY <1>2, <3>6
    <3>10. PICK c : c = gs[i].blocks[j]
      OBVIOUS
    <3>11. Roomy(fs, i, c)
      BY <3>3, <3>4, <3>10
    <3>12. Roomy(gs, i, c)
      BY <3>1, <3>9, <3>11, RoomySame
    <3>7. Roomy(gs, i, gs[i].blocks[j])
      BY <3>10, <3>12
    <3>8. QED
      BY <3>5, <3>7
  <2>4. QED
    BY <1>1, <2>1, <2>2, <2>3
<1>4. QED
  BY <1>3 DEF BlocksPlaced

LEMMA StillPlaced ==
  ASSUME NEW f, NEW g, NEW j, BlockPlaced(f, j), g.type = f.type,
         f.left \in Int, g.left \in Int, g.left <= f.left, MaxBody \in Int,
         g.blocks[j].op = f.blocks[j].op, g.blocks[j].wanted = f.blocks[j].wanted
  PROVE  BlockPlaced(g, j)
BY DEF BlockPlaced

-----------------------------------------------------------------------------
(* How high statements leave the stack, under changes of the frames        *)

LEMMA ExtraSame ==
  ASSUME NEW fs, NEW gs, NEW i \in Nat, NEW h, Twin(fs[i], gs[i]), Extra(fs, i, h),
         i # Len(fs)
  PROVE  Extra(gs, i, h)
<1>1. Level(gs[i], h) = Level(fs[i], h)
  BY DEF Level, Twin, Kin
<1>2. QED
  BY <1>1 DEF Extra, Twin, Kin

\* Frames go, or the one that parse works on has changed.
LEMMA BalancedCut ==
  ASSUME NEW fs, NEW gs, NEW k \in Nat, Len(fs) \in Nat, Change(fs, gs, k), Len(gs) = k,
         NEW os, NEW w, Balanced(fs, os), Extra(gs, k, Len(w))
  PROVE  Balanced(gs, w)
<1>1. PICK n : n = Len(fs)
  OBVIOUS
<1>2. n \in Nat /\ k >= 1 /\ k <= n
  BY <1>1, ChangeFacts
<1>3. \A i \in 1 .. k :
        /\ gs[i].type = fs[i].type /\ gs[i].isMethod = fs[i].isMethod /\ gs[i].start = fs[i].start
  BY ChangeFacts
<1>4. ASSUME NEW i \in 1 .. k - 1
      PROVE  Extra(gs, i, gs[i + 1].start)
  <2>1. i \in 1 .. n - 1 /\ i # n /\ i \in Nat /\ i + 1 \in 1 .. k
    BY <1>2
  <2>2. Extra(fs, i, fs[i + 1].start)
    BY <1>1, <2>1 DEF Balanced
  <2>3. Twin(fs[i], gs[i])
    BY DEF Change
  <2>4. Extra(gs, i, fs[i + 1].start)
    BY <1>1, <2>1, <2>2, <2>3, ExtraSame
  <2>5. QED
    BY <1>3, <2>1, <2>4
<1>5. ASSUME NEW i \in 1 .. k, NEW j \in 1 .. k, i < j, gs[j].type # "Package",
             \A m \in i + 1 .. j : ~ gs[m].isMethod
      PROVE  gs[j].start = gs[i + 1].start
  <2>1. i \in 1 .. n /\ j \in 1 .. n /\ i + 1 \in 1 .. k
    BY <1>2, <1>5
  <2>2. \A m \in i + 1 .. j : m \in 1 .. k
    OBVIOUS
  <2>3. \A m \in i + 1 .. j : ~ fs[m].isMethod
    BY <1>3, <1>5, <2>2
  <2>4. fs[j].start = fs[i + 1].start
    BY <1>1, <1>3, <1>5, <2>1, <2>3 DEF Balanced
  <2>5. QED
    BY <1>3, <2>1, <2>4
<1>6. gs # <<>>
  BY <1>2
<1>7. QED
  BY <1>4, <1>5, <1>6 DEF Balanced

LEMMA BalancedPush ==
  ASSUME NEW fs, NEW gs, NEW n \in Nat, Len(fs) = n, Change(fs, gs, n), Len(gs) = n + 1,
         NEW os, NEW w, Balanced(fs, os), Linked(gs[n], gs[n + 1]), FramesLinked(fs),
         Extra(gs, n, gs[n + 1].start), gs[n + 1].start = Len(w), gs[n + 1].blocks = <<>>,
         ~ gs[n + 1].isMethod /\ gs[n + 1].type # "Package" /\ ~ gs[n].isMethod =>
           gs[n + 1].start = gs[n].start
  PROVE  Balanced(gs, w)
<1>1. n >= 1
  BY ChangeFacts
<1>2. \A i \in 1 .. n :
        /\ gs[i].type = fs[i].type /\ gs[i].isMethod = fs[i].isMethod /\ gs[i].start = fs[i].start
  BY ChangeFacts
<1>3. ASSUME NEW i \in 1 .. (n + 1) - 1
      PROVE  Extra(gs, i, gs[i + 1].start)
  <2>1. CASE i = n
    BY <2>1
  <2>2. CASE i # n
    <3>1. i \in 1 .. n - 1 /\ i # n /\ i \in Nat /\ i + 1 \in 1 .. n
      BY <2>2
    <3>2. Extra(fs, i, fs[i + 1].start)
      BY <3>1 DEF Balanced
    <3>3. Twin(fs[i], gs[i])
      BY <3>1 DEF Change
    <3>4. Extra(gs, i, fs[i + 1].start)
      BY <3>1, <3>2, <3>3, ExtraSame
    <3>5. QED
      BY <1>2, <3>1, <3>4
  <2>3. QED
    BY <2>1, <2>2
<1>4. Extra(gs, n + 1, Len(w))
  BY DEF Extra, Level
<1>5. ASSUME NEW i \in 1 .. n + 1, NEW j \in 1 .. n + 1, i < j, gs[j].type # "Package",
             \A m \in i + 1 .. j : ~ gs[m].isMethod
      PROVE  gs[j].start = gs[i + 1].start
  <2>1. CASE j # n + 1
    <3>1. i \in 1 .. n /\ j \in 1 .. n /\ i + 1 \in 1 .. n
      BY <1>5, <2>1
    <3>2. \A m \in i + 1 .. j : m \in 1 .. n
      BY <3>1
    <3>3. \A m \in i + 1 .. j : ~ fs[m].isMethod
      BY <1>2, <1>5, <3>2
    <3>4. fs[j].start = fs[i + 1].start
      BY <1>2, <1>5, <3>1, <3>3 DEF Balanced
    <3>5. QED
      BY <1>2, <3>1, <3>4
  <2>2. CASE j = n + 1 /\ i = n
    BY <2>2
  <2>3. CASE j = n + 1 /\ i # n
    <3>1. i \in 1 .. n /\ i < n /\ n \in 1 .. n /\ i + 1 \in 1 .. n
      BY <1>1, <1>5, <2>3
    <3>2. \A m \in i + 1 .. n : m \in i + 1 .. j /\ m \in 1 .. n
      BY <2>3
    <3>3. \A m \in i + 1 .. n : ~ fs[m].isMethod
      BY <1>2, <1>5, <3>2
    <3>4. n \in i + 1 .. j /\ n + 1 \in i + 1 .. j
      BY <2>3, <3>1
    <3>5. ~ gs[n].isMethod /\ ~ gs[n + 1].isMethod
      BY <1>5, <3>4
    <3>6. gs[n].type # "Package" /\ gs[n + 1].start = gs[n].start
      BY <1>5, <2>3, <3>5 DEF Linked
    <3>7. fs[n].start = fs[i + 1].start
      BY <1>2, <3>1, <3>3, <3>6 DEF Balanced
    <3>8. QED
      BY <1>2, <2>3, <3>1, <3>6, <3>7
  <2>4. QED
    BY <2>1, <2>2, <2>3
<1>6. gs # <<>>
  BY <1>1
<1>7. QED
  BY <1>3, <1>4, <1>5, <1>6 DEF Balanced

-----------------------------------------------------------------------------
(* The current scope under changes of the frames                           *)

IsInner(fs, k, i) ==
  /\ i \in 1 .. k /\ fs[i].type = "Scope"
  /\ \A j \in i + 1 .. k : fs[j].type # "Scope"

LEMMA InnerIs ==
  ASSUME NEW fs, NEW k \in Nat, NEW i, IsInner(fs, k, i)
  PROVE  Innermost(fs, k) = i
<1>1. ASSUME NEW m \in 1 .. k, fs[m].type = "Scope", \A j \in m + 1 .. k : fs[j].type # "Scope"
      PROVE  m = i
  <2>1. i \in 1 .. k
    BY DEF IsInner
  <2>2. ~ i < m
    <3>1. SUFFICES ASSUME i < m PROVE FALSE
      OBVIOUS
    <3>2. m \in i + 1 .. k
      BY <2>1, <3>1
    <3>3. QED
      BY <1>1, <3>2 DEF IsInner
  <2>3. ~ m < i
    <3>1. SUFFICES ASSUME m < i PROVE FALSE
      OBVIOUS
    <3>2. i \in m + 1 .. k
      BY <2>1, <3>1
    <3>3. QED
      BY <1>1, <3>2 DEF IsInner
  <2>4. QED
    BY <2>1, <2>2, <2>3
<1>2. i \in 1 .. k /\ fs[i].type = "Scope" /\ \A j \in i + 1 .. k : fs[j].type # "Scope"
  BY DEF IsInner
<1>3. QED
  BY <1>1, <1>2 DEF Innermost

LEMMA InnerExists ==
  ASSUME NEW fs, NEW k \in Nat, k >= 1, fs[1].type = "Scope"
  PROVE  \E i : IsInner(fs, k, i)
<1>1. PICK X : X = {i \in 1 .. k : fs[i].type = "Scope"}
  OBVIOUS
<1>2. X \subseteq 0 .. k /\ 1 \in X
  BY <1>1
<1>3. PICK x \in X : \A y \in X : y <= x
  BY <1>2, Greatest
<1>4. x \in 1 .. k /\ fs[x].type = "Scope"
  BY <1>1
<1>5. ASSUME NEW j \in x + 1 .. k
      PROVE  fs[j].type # "Scope"
  <2>1. j \in 1 .. k /\ ~ j <= x
    BY <1>4
  <2>2. QED
    BY <1>1, <1>3, <2>1
<1>6. QED
  BY <1>4, <1>5 DEF IsInner

LEMMA ScopeSame ==
  ASSUME NEW fs, NEW gs, NEW k \in Nat, k >= 1, fs[1].type = "Scope",
         \A i \in 1 .. k : gs[i].type = fs[i].type, gs[1].isMethod = fs[1].isMethod
  PROVE  ScopeNumber(gs, k) = ScopeNumber(fs, k)
<1>1. PICK i : IsInner(fs, k, i)
  BY InnerExists
<1>2. i \in 1 .. k
  BY <1>1 DEF IsInner
<1>3. \A j \in i + 1 .. k : j \in 1 .. k
  BY <1>2
<1>4. IsInner(gs, k, i)
  BY <1>1, <1>2, <1>3 DEF IsInner
<1>5. Innermost(fs, k) = i /\ Innermost(gs, k) = i
  BY <1>1, <1>4, InnerIs
<1>6. QED
  BY <1>5 DEF ScopeNumber

\* Frames that are no scopes do not count.
LEMMA ScopeSkip ==
  ASSUME NEW fs, NEW k \in Nat, NEW m \in 1 .. k, fs[1].type = "Scope",
         \A j \in m + 1 .. k : fs[j].type # "Scope"
  PROVE  ScopeNumber(fs, k) = ScopeNumber(fs, m)
<1>1. m \in Nat /\ m >= 1
  OBVIOUS
<1>2. PICK i : IsInner(fs, m, i)
  BY <1>1, InnerExists
<1>3. i \in 1 .. m /\ i \in 1 .. k
  BY <1>2 DEF IsInner
<1>4. \A j \in i + 1 .. k : j \in i + 1 .. m \/ j \in m + 1 .. k
  BY <1>3
<1>5. IsInner(fs, k, i)
  BY <1>2, <1>3, <1>4 DEF IsInner
<1>6. Innermost(fs, k) = i /\ Innermost(fs, m) = i
  BY <1>1, <1>2, <1>5, InnerIs
<1>7. QED
  BY <1>6 DEF ScopeNumber

LEMMA ScopeHere ==
  ASSUME NEW fs, NEW k \in Nat, k >= 1, fs[k].type = "Scope"
  PROVE  ScopeNumber(fs, k) = IF k = 1 /\ ~ fs[1].isMethod THEN 0 ELSE k
<1>1. IsInner(fs, k, k)
  BY DEF IsInner
<1>2. Innermost(fs, k) = k
  BY <1>1, InnerIs
<1>3. QED
  BY <1>2 DEF ScopeNumber

\* Frames go, or the one that parse works on has changed.
LEMMA ScopesCut ==
  ASSUME NEW fs, NEW gs, NEW k \in Nat, Len(fs) \in Nat, Change(fs, gs, k), Len(gs) = k,
         FramesLinked(fs), NEW sc, ScopesFit(fs, sc), NEW sd,
         gs[k].left > 0 \/ gs[k].blocks # <<>> \/ gs[k].type # "Scope" => sd = ScopeNumber(fs, k)
  PROVE  ScopesFit(gs, sd)
<1>1. k >= 1 /\ k <= Len(fs)
  BY ChangeFacts
<1>2. \A i \in 1 .. k : /\ gs[i].type = fs[i].type /\ gs[i].isMethod = fs[i].isMethod
                        /\ gs[i].parent = fs[i].parent
  BY ChangeFacts
<1>3. fs # <<>>
  BY <1>1
<1>4. fs[1].type = "Scope" /\ gs[1].isMethod = fs[1].isMethod
  BY <1>1, <1>2, <1>3 DEF FramesLinked, BaseFrame
<1>5. ASSUME NEW m \in Nat, m >= 1, m <= k
      PROVE  ScopeNumber(gs, m) = ScopeNumber(fs, m)
  <2>1. \A i \in 1 .. m : gs[i].type = fs[i].type
    BY <1>2, <1>5
  <2>2. QED
    BY <1>4, <1>5, <2>1, ScopeSame
<1>6. ASSUME NEW i \in 2 .. k, gs[i].type = "Scope"
      PROVE  gs[i].parent = ScopeNumber(gs, i - 1)
  <2>1. i \in 1 .. k /\ i \in 2 .. Len(fs) /\ i - 1 \in Nat /\ i - 1 >= 1 /\ i - 1 <= k
    BY <1>1
  <2>2. gs[i].parent = fs[i].parent /\ fs[i].type = "Scope"
    BY <1>2, <1>6, <2>1
  <2>3. fs[i].parent = ScopeNumber(fs, i - 1)
    BY <2>1, <2>2 DEF ScopesFit
  <2>4. ScopeNumber(gs, i - 1) = ScopeNumber(fs, i - 1)
    BY <1>5, <2>1
  <2>5. QED
    BY <2>2, <2>3, <2>4
<1>7. ScopeNumber(gs, k) = ScopeNumber(fs, k)
  BY <1>1, <1>5
<1>8. QED
  BY <1>6, <1>7 DEF ScopesFit

\* A frame comes.
LEMMA ScopesPush ==
  ASSUME NEW fs, NEW gs, NEW n \in Nat, Len(fs) = n, Change(fs, gs, n), Len(gs) = n + 1,
         FramesLinked(fs), NEW sc, ScopesFit(fs, sc), NEW sd,
         gs[n + 1].type = "Scope" => gs[n + 1].parent = ScopeNumber(fs, n) /\ sd = n + 1,
         gs[n + 1].type # "Scope" => sd = ScopeNumber(fs, n)
  PROVE  ScopesFit(gs, sd)
<1>1. n >= 1
  BY ChangeFacts
<1>2. \A i \in 1 .. n : /\ gs[i].type = fs[i].type /\ gs[i].isMethod = fs[i].isMethod
                        /\ gs[i].parent = fs[i].parent
  BY ChangeFacts
<1>3. fs # <<>>
  BY <1>1
<1>4. fs[1].type = "Scope" /\ gs[1].isMethod = fs[1].isMethod /\ gs[1].type = "Scope"
  BY <1>1, <1>2, <1>3 DEF FramesLinked, BaseFrame
<1>5. ASSUME NEW m \in Nat, m >= 1, m <= n
      PROVE  ScopeNumber(gs, m) = ScopeNumber(fs, m)
  <2>1. \A i \in 1 .. m : gs[i].type = fs[i].type
    BY <1>2, <1>5
  <2>2. QED
    BY <1>4, <1>5, <2>1, ScopeSame
<1>6. ASSUME NEW i \in 2 .. n + 1, gs[i].type = "Scope"
      PROVE  gs[i].parent = ScopeNumber(gs, i - 1)
  <2>1. CASE i = n + 1
    <3>1. gs[i].parent = ScopeNumber(fs, n)
      BY <1>6, <2>1
    <3>2. ScopeNumber(gs, n) = ScopeNumber(fs, n)
      BY <1>1, <1>5
    <3>3. QED
      BY <2>1, <3>1, <3>2
  <2>2. CASE i # n + 1
    <3>1. i \in 1 .. n /\ i \in 2 .. n /\ i - 1 \in Nat /\ i - 1 >= 1 /\ i - 1 <= n
      BY <2>2
    <3>2. gs[i].parent = fs[i].parent /\ fs[i].type = "Scope"
      BY <1>2, <1>6, <3>1
    <3>3. fs[i].parent = ScopeNumber(fs, i - 1)
      BY <3>1, <3>2 DEF ScopesFit
    <3>4. ScopeNumber(gs, i - 1) = ScopeNumber(fs, i - 1)
      BY <1>5, <3>1
    <3>5. QED
      BY <3>2, <3>3, <3>4
  <2>3. QED
    BY <2>1, <2>2
<1>7. sd = ScopeNumber(gs, n + 1)
  <2>1. n + 1 \in Nat /\ n + 1 >= 1 /\ n + 1 # 1
    BY <1>1
  <2>2. CASE gs[n + 1].type = "Scope"
    <3>1. ScopeNumber(gs, n + 1) = n + 1
      BY <2>1, <2>2, ScopeHere
    <3>2. QED
      BY <2>2, <3>1
  <2>3. CASE gs[n + 1].type # "Scope"
    <3>1. n \in 1 .. n + 1 /\ \A j \in n + 1 .. n + 1 : gs[j].type # "Scope"
      BY <1>1, <2>3
    <3>2. ScopeNumber(gs, n + 1) = ScopeNumber(gs, n)
      BY <1>4, <2>1, <3>1, ScopeSkip
    <3>3. ScopeNumber(gs, n) = ScopeNumber(fs, n)
      BY <1>1, <1>5
    <3>4. QED
      BY <2>3, <3>2, <3>3
  <2>4. QED
    BY <2>2, <2>3
<1>8. QED
  BY <1>6, <1>7 DEF ScopesFit

-----------------------------------------------------------------------------
(* The stacks fit after frames have changed, gone or come                  *)

LEMMA Limits ==
  ASSUME program \in Programs
  PROVE  /\ MaxFrames \in Nat /\ MaxFrames >= 1 /\ MaxBody \in Nat
         /\ StatementOps \subseteq Handlers \ {"TermArg"}
         /\ ArgumentOps \subseteq Expressions \cup {"Call", "Object"}
         /\ (StatementOps \cap {"Debug", "String"} # {} => "literals" \in AmlMay)
<1>1. PICK p \in Programs : p = program
  OBVIOUS
<1>2. /\ p.statements \subseteq Handlers \ {"TermArg"}
      /\ p.arguments \subseteq Expressions \cup {"Call", "Object"}
      /\ p.statements \cap {"Debug", "String"} # {} => "literals" \in p.may
      /\ {p.frames, p.blocks} \subseteq Nat \ {0} /\ p.body \in Nat
  BY ProgramsAssumption
<1>3. p.frames \in Nat /\ p.frames >= 1
  BY <1>2
<1>4. QED
  BY <1>1, <1>2, <1>3 DEF MaxFrames, MaxBody, StatementOps, ArgumentOps, AmlMay

\* What a frame's fields may be
LEMMA FrameTypes ==
  ASSUME NEW f \in Frame
  PROVE  /\ Typed(f) /\ f.left \in 0 .. MaxBody /\ f.end \in -1 .. MaxBody
         /\ f.isMethod \in BOOLEAN /\ f.needResult \in BOOLEAN /\ f.needLoad \in BOOLEAN
         /\ f.type \in Types /\ f.parent \in 0 .. MaxFrames
         /\ f.start \in Nat /\ f.blocks \in Seq(Block)
BY DEF Frame, Typed

LEMMA FramesTyped ==
  ASSUME NEW fs \in Seq(Frame)
  PROVE  AllTyped(fs) /\ Len(fs) \in Nat /\ \A i \in 1 .. Len(fs) : fs[i] \in Frame
<1>1. Len(fs) \in Nat /\ \A i \in 1 .. Len(fs) : fs[i] \in Frame
  OBVIOUS
<1>2. QED
  BY <1>1, FrameTypes DEF AllTyped

LEMMA LimitPrefix ==
  ASSUME NEW ms, NEW ls, LimitKept(ms), Len(ms) \in Nat, Len(ls) \in Nat, Len(ls) <= Len(ms),
         \A i \in 1 .. Len(ls) : ls[i] = ms[i]
  PROVE  LimitKept(ls)
BY LimitsAssumption DEF LimitKept

LEMMA LimitPush ==
  ASSUME NEW ms, NEW ls, LimitKept(ms), Len(ms) \in Nat, Len(ls) = Len(ms) + 1,
         \A i \in 1 .. Len(ms) : ls[i] = ms[i],
         Len(ms) # MaxDepth \/ ("loadAtLimit" \in AmlMay /\ ls[Len(ls)] = "load")
  PROVE  LimitKept(ls)
<1>1. MaxDepth \in Nat /\ MaxDepth + 1 \in Nat
  BY LimitsAssumption
<1>2. CASE Len(ms) > MaxDepth
  <2>1. MaxDepth + 1 \in 1 .. Len(ms)
    BY <1>1, <1>2
  <2>2. ls[MaxDepth + 1] = ms[MaxDepth + 1]
    BY <2>1
  <2>3. QED
    BY <1>2, <2>2 DEF LimitKept
<1>3. CASE Len(ms) = MaxDepth
  <2>1. Len(ls) = MaxDepth + 1
    BY <1>3
  <2>2. QED
    BY <1>3, <2>1 DEF LimitKept
<1>4. CASE Len(ms) < MaxDepth
  <2>1. ~ (Len(ls) > MaxDepth)
    BY <1>1, <1>4
  <2>2. QED
    BY <2>1 DEF LimitKept
<1>5. QED
  BY <1>1, <1>2, <1>3, <1>4

\* Frames go, or the one that parse works on has changed.
LEMMA FitCut ==
  ASSUME program \in Programs,
         NEW fs, NEW ms, NEW os, NEW sc, Fit(fs, ms, os, sc),
         NEW gs, NEW ls, NEW w, NEW sd, StacksTyped(gs, ls, w, sd), ListsFit(w),
         NEW n \in Nat, Len(fs) = n, NEW k \in Nat, Change(fs, gs, k), Len(gs) = k,
         \/ k = n /\ Same(os, w, fs[n].start) /\ TopFine(gs[n], w)
         \/ /\ k < n /\ Kin(fs[k], gs[k])
            /\ Same(os, w, fs[k + 1].start) /\ Objs(w, fs[k + 1].start + 1, Len(w)),
         \A j \in 1 .. Len(gs[k].blocks) :
           BlockPlaced(gs[k], j) /\ Roomy(fs, k, gs[k].blocks[j]),
         Len(ls) = Cardinality(MethodsIn(fs, 1, k)), \A i \in 1 .. Len(ls) : ls[i] = ms[i],
         "literals" \notin AmlMay => Extra(gs, k, Len(w)),
         "leaveScope" \notin AmlMay =>
           (gs[k].left > 0 \/ gs[k].blocks # <<>> \/ gs[k].type # "Scope" =>
              sd = ScopeNumber(fs, k))
  PROVE  Fit(gs, ls, w, sd) /\ Kept(fs, os, gs, w)
<1>1. fs \in Seq(Frame) /\ os \in Seq(Object) /\ w \in Seq(Object) /\ gs \in Seq(Frame)
  BY DEF Fit, StacksTyped
<1>2. AllTyped(fs) /\ Len(os) \in Nat /\ Len(w) \in Nat
  BY <1>1, FramesTyped
<1>3. k >= 1 /\ k <= n /\ \A i \in 1 .. k - 1 : Kin(fs[i], gs[i])
  BY ChangeFacts
<1>4. gs[k].start = fs[k].start
  BY DEF Change, Alike
<1>5. Shape(fs, os) /\ BlocksPlaced(fs) /\ FramesLinked(fs) /\ MethodsFit(fs, ms)
  BY DEF Fit
<1>6. Shape(gs, w) /\ Kept(fs, os, gs, w)
  <2>1. CASE k = n /\ Same(os, w, fs[n].start) /\ TopFine(gs[n], w)
    <3>1. n >= 1 /\ Len(gs) = n /\ gs[n].start = fs[n].start /\ \A i \in 1 .. n - 1 : Kin(fs[i], gs[i])
      BY <1>3, <1>4, <2>1
    <3>2. QED
      BY <1>2, <1>5, <2>1, <3>1, ShapeTop
  <2>2. CASE /\ k < n /\ Kin(fs[k], gs[k])
             /\ Same(os, w, fs[k + 1].start) /\ Objs(w, fs[k + 1].start + 1, Len(w))
    <3>1. k \in 1 .. n - 1
      BY <1>3, <2>2
    <3>2. ASSUME NEW i \in 1 .. k
          PROVE  Kin(fs[i], gs[i])
      <4>1. CASE i = k
        BY <2>2, <4>1
      <4>2. CASE i # k
        <5>1. i \in 1 .. k - 1
          BY <4>2
        <5>2. QED
          BY <1>3, <5>1
      <4>3. QED
        BY <4>1, <4>2
    <3>3. QED
      BY <1>2, <1>5, <2>2, <3>1, <3>2, ShapeCut
  <2>3. QED
    BY <2>1, <2>2
<1>7. BlocksPlaced(gs)
  BY <1>5, PlacedChange
<1>8. FramesLinked(gs)
  BY <1>5, Limits, LinkedCut
<1>9. MethodsFit(gs, ls)
  BY <1>5, MethodsCut
<1>10. ASSUME "literals" \notin AmlMay
       PROVE  Balanced(gs, w)
  <2>1. Balanced(fs, os) /\ Extra(gs, k, Len(w))
    BY <1>10 DEF Fit
  <2>2. QED
    BY <2>1, BalancedCut
<1>11. ASSUME "leaveScope" \notin AmlMay
       PROVE  ScopesFit(gs, sd)
  <2>1. ScopesFit(fs, sc)
    BY <1>11 DEF Fit
  <2>2. gs[k].left > 0 \/ gs[k].blocks # <<>> \/ gs[k].type # "Scope" => sd = ScopeNumber(fs, k)
    BY <1>11
  <2>3. QED
    BY <1>5, <2>1, <2>2, ScopesCut
<1>12. LimitKept(ls)
  <2>1. LimitKept(ms) /\ Len(ms) = Cardinality(MethodsIn(fs, 1, n))
    BY <1>5 DEF Fit, MethodsFit
  <2>2. k \in 0 .. n
    BY <1>3
  <2>3. PICK a, b, c : /\ a = Cardinality(MethodsIn(fs, 1, k)) /\ b = Cardinality(MethodsIn(fs, k + 1, n))
                       /\ c = Cardinality(MethodsIn(fs, 1, n))
    OBVIOUS
  <2>4. a \in Nat /\ b \in Nat /\ c = a + b
    BY <2>2, <2>3, MethodsCount
  <2>5. Len(ls) = a /\ Len(ms) = c /\ a <= c /\ a \in Nat /\ c \in Nat
    BY <2>1, <2>3, <2>4
  <2>6. QED
    BY <2>1, <2>5, LimitPrefix
<1>13. QED
  BY <1>6, <1>7, <1>8, <1>9, <1>10, <1>11, <1>12 DEF Fit

\* The method frames when the frame e comes
Called(ms, ls, e) ==
  \/ ~ e.isMethod /\ ls = ms
  \/ /\ e.isMethod /\ Len(ls) = Len(ms) + 1
     /\ \A i \in 1 .. Len(ms) : ls[i] = ms[i]
     /\ ls[Len(ls)] = "load" => ~ e.needResult
     /\ Len(ms) # MaxDepth \/ ("loadAtLimit" \in AmlMay /\ ls[Len(ls)] = "load")

\* A frame comes.
LEMMA FitPush ==
  ASSUME program \in Programs,
         NEW fs, NEW ms, NEW os, NEW sc, Fit(fs, ms, os, sc),
         NEW gs, NEW ls, NEW w, NEW sd, StacksTyped(gs, ls, w, sd), ListsFit(w),
         NEW n \in Nat, Len(fs) = n, Change(fs, gs, n), Len(gs) = n + 1, n < MaxFrames,
         Same(os, w, fs[n].start), LowerFine(gs[n], w, Len(w)),
         gs[n + 1].start = Len(w), gs[n + 1].blocks = <<>>, Linked(gs[n], gs[n + 1]),
         \A j \in 1 .. Len(gs[n].blocks) :
           BlockPlaced(gs[n], j) /\ Roomy(fs, n, gs[n].blocks[j]),
         Called(ms, ls, gs[n + 1]),
         "literals" \notin AmlMay =>
           /\ Extra(gs, n, Len(w))
           /\ (~ gs[n + 1].isMethod /\ gs[n + 1].type # "Package" /\ ~ gs[n].isMethod =>
                 Len(w) = gs[n].start),
         "leaveScope" \notin AmlMay =>
           /\ gs[n + 1].type = "Scope" => gs[n + 1].parent = ScopeNumber(fs, n) /\ sd = n + 1
           /\ gs[n + 1].type # "Scope" => sd = ScopeNumber(fs, n)
  PROVE  Fit(gs, ls, w, sd) /\ Kept(fs, os, gs, w)
<1>1. fs \in Seq(Frame) /\ os \in Seq(Object) /\ w \in Seq(Object) /\ gs \in Seq(Frame)
  BY DEF Fit, StacksTyped
<1>2. AllTyped(fs) /\ Len(os) \in Nat /\ Len(w) \in Nat /\ Len(ms) \in Nat
  BY <1>1, FramesTyped DEF Fit, StacksTyped
<1>3. n >= 1 /\ \A i \in 1 .. n - 1 : Kin(fs[i], gs[i])
  BY ChangeFacts
<1>4. gs[n].start = fs[n].start
  BY DEF Change, Alike
<1>5. Shape(fs, os) /\ BlocksPlaced(fs) /\ FramesLinked(fs) /\ MethodsFit(fs, ms)
  BY DEF Fit
<1>6. Shape(gs, w) /\ Kept(fs, os, gs, w)
  <2>1. LowerFine(gs[n], w, gs[n + 1].start)
    OBVIOUS
  <2>2. QED
    BY <1>2, <1>3, <1>4, <1>5, <2>1, ShapePush
<1>7. BlocksPlaced(gs)
  BY <1>5, PlacedChange
<1>8. FramesLinked(gs)
  BY <1>5, Limits, LinkedPush
<1>9. MethodsFit(gs, ls)
  <2>1. \/ ~ gs[n + 1].isMethod /\ ls = ms
        \/ /\ gs[n + 1].isMethod /\ Len(ls) = Len(ms) + 1
           /\ \A i \in 1 .. Len(ms) : ls[i] = ms[i]
           /\ ls[Len(ls)] = "load" => ~ gs[n + 1].needResult
    BY DEF Called
  <2>2. QED
    BY <1>5, <2>1, MethodsPush
<1>10. ASSUME "literals" \notin AmlMay
       PROVE  Balanced(gs, w)
  <2>1. Balanced(fs, os) /\ Extra(gs, n, gs[n + 1].start)
    BY <1>10 DEF Fit
  <2>2. ~ gs[n + 1].isMethod /\ gs[n + 1].type # "Package" /\ ~ gs[n].isMethod =>
          gs[n + 1].start = gs[n].start
    BY <1>10
  <2>3. QED
    BY <1>5, <2>1, <2>2, BalancedPush
<1>11. ASSUME "leaveScope" \notin AmlMay
       PROVE  ScopesFit(gs, sd)
  <2>1. ScopesFit(fs, sc)
    BY <1>11 DEF Fit
  <2>2. /\ gs[n + 1].type = "Scope" => gs[n + 1].parent = ScopeNumber(fs, n) /\ sd = n + 1
        /\ gs[n + 1].type # "Scope" => sd = ScopeNumber(fs, n)
    BY <1>11
  <2>3. QED
    BY <1>5, <2>1, <2>2, ScopesPush
<1>12. LimitKept(ls)
  <2>1. LimitKept(ms)
    BY DEF Fit
  <2>2. CASE ls = ms
    BY <2>1, <2>2
  <2>3. CASE /\ Len(ls) = Len(ms) + 1 /\ \A i \in 1 .. Len(ms) : ls[i] = ms[i]
             /\ Len(ms) # MaxDepth \/ ("loadAtLimit" \in AmlMay /\ ls[Len(ls)] = "load")
    BY <1>2, <2>1, <2>3, LimitPush
  <2>4. QED
    BY <2>2, <2>3 DEF Called
<1>13. QED
  BY <1>6, <1>7, <1>8, <1>9, <1>10, <1>11, <1>12 DEF Fit

-----------------------------------------------------------------------------
(* Unwinding                                                               *)

\* The lowest frame to go, and whether it is that of a load
LEMMA LowestIs ==
  ASSUME NEW fs, NEW ms, NEW n \in Nat, Len(fs) = n, n >= 2
  PROVE  /\ Lowest(fs, ms) \in 2 .. n
         /\ Loads(fs, ms) = {} => Lowest(fs, ms) = 2
         /\ Loads(fs, ms) # {} => Lowest(fs, ms) \in Loads(fs, ms)
         /\ \A i \in Loads(fs, ms) : i \in 2 .. n /\ fs[i].isMethod
<1>1. \A i \in Loads(fs, ms) : i \in 2 .. n /\ fs[i].isMethod
  BY DEF Loads, MethodsIn
<1>2. CASE Loads(fs, ms) = {}
  BY <1>1, <1>2 DEF Lowest
<1>3. CASE Loads(fs, ms) # {}
  <2>1. PICK L : L = Loads(fs, ms)
    OBVIOUS
  <2>2. L \subseteq 0 .. n /\ L # {}
    BY <1>1, <1>3, <2>1
  <2>3. \E i \in L : \A j \in L : j <= i
    BY <2>2, Greatest
  <2>4. Lowest(fs, ms) = CHOOSE i \in L : \A j \in L : j <= i
    BY <1>3, <2>1 DEF Lowest
  <2>5. Lowest(fs, ms) \in L
    BY <2>3, <2>4
  <2>6. QED
    BY <1>1, <1>3, <2>1, <2>5
<1>4. QED
  BY <1>2, <1>3

\* The current scope is that of the frame below the ones that go.
LEMMA UnwoundScope ==
  ASSUME NEW fs, NEW ms, NEW sc, NEW n \in Nat, Len(fs) = n, n >= 2, FramesLinked(fs),
         ScopesFit(fs, sc), NEW low, low = Lowest(fs, ms),
         \A i \in low .. n :
           (fs[i].type = "Scope" /\ ~ fs[i].isMethod) => \E j \in low .. i : fs[j].isMethod
  PROVE  ScopeAfter(fs, ms, sc) = ScopeNumber(fs, low - 1)
<1>1. low \in 2 .. n
  BY LowestIs
<1>2. fs[1].type = "Scope"
  <2>1. fs # <<>>
    OBVIOUS
  <2>2. QED
    BY <2>1 DEF FramesLinked, BaseFrame
<1>3. PICK G : G = MethodsIn(fs, low, n)
  OBVIOUS
<1>4. \A i : i \in G <=> i \in low .. n /\ fs[i].isMethod
  BY <1>3 DEF MethodsIn
<1>5. CASE G = {}
  <2>1. ScopeAfter(fs, ms, sc) = sc
    BY <1>3, <1>5 DEF ScopeAfter, Leaving
  <2>2. ASSUME NEW i \in low .. n
        PROVE  fs[i].type # "Scope"
    <3>1. ~ fs[i].isMethod /\ \A j \in low .. i : ~ fs[j].isMethod
      BY <1>1, <1>4, <1>5
    <3>2. QED
      BY <3>1
  <2>3. fs[n].type # "Scope" /\ fs # <<>>
    BY <1>1, <2>2
  <2>4. sc = ScopeNumber(fs, n)
    BY <2>3 DEF ScopesFit
  <2>5. low - 1 \in 1 .. n /\ \A j \in (low - 1) + 1 .. n : fs[j].type # "Scope"
    BY <1>1, <2>2
  <2>6. ScopeNumber(fs, n) = ScopeNumber(fs, low - 1)
    BY <1>2, <2>5, ScopeSkip
  <2>7. QED
    BY <2>1, <2>4, <2>6
<1>6. CASE G # {}
  <2>1. G \subseteq Nat
    BY <1>1, <1>4
  <2>2. \E i \in G : \A j \in G : i <= j
    BY <1>6, <2>1, NatMin
  <2>3. PICK m : m = CHOOSE i \in G : \A j \in G : i <= j
    OBVIOUS
  <2>4. m \in G /\ \A j \in G : m <= j
    BY <2>2, <2>3
  <2>5. ScopeAfter(fs, ms, sc) = fs[m].parent
    BY <1>3, <1>6, <2>3 DEF ScopeAfter, Leaving
  <2>6. m \in low .. n /\ fs[m].isMethod
    BY <1>4, <2>4
  <2>7. PICK l : l = m - 1
    OBVIOUS
  <2>8. l \in 1 .. n - 1 /\ l + 1 = m /\ m \in 2 .. n /\ l \in Nat
    BY <1>1, <2>6, <2>7
  <2>9. Linked(fs[l], fs[m])
    BY <2>8 DEF FramesLinked
  <2>10. fs[m].type = "Scope"
    BY <2>6, <2>9 DEF Linked
  <2>11. fs[m].parent = ScopeNumber(fs, l)
    BY <2>7, <2>8, <2>10 DEF ScopesFit
  <2>12. ASSUME NEW i \in low .. l
         PROVE  fs[i].type # "Scope"
    <3>1. \A j \in low .. i : j \in low .. n /\ ~ m <= j
      BY <1>1, <2>8
    <3>2. \A j \in low .. i : ~ fs[j].isMethod
      BY <1>4, <2>4, <3>1
    <3>3. i \in low .. i /\ i \in low .. n
      BY <1>1, <2>8
    <3>4. QED
      BY <3>2, <3>3
  <2>13. low - 1 \in 1 .. l /\ \A j \in (low - 1) + 1 .. l : fs[j].type # "Scope"
    BY <1>1, <2>6, <2>8, <2>12
  <2>14. ScopeNumber(fs, l) = ScopeNumber(fs, low - 1)
    BY <1>2, <2>8, <2>13, ScopeSkip
  <2>15. QED
    BY <2>5, <2>11, <2>14
<1>7. QED
  BY <1>5, <1>6

LEMMA ConcatOne ==
  ASSUME NEW Elem, NEW s \in Seq(Elem), NEW x \in Elem
  PROVE  /\ s \o <<x>> \in Seq(Elem) /\ Len(s \o <<x>>) = Len(s) + 1
         /\ (s \o <<x>>)[Len(s) + 1] = x /\ \A i \in 1 .. Len(s) : (s \o <<x>>)[i] = s[i]
         /\ s \o <<>> = s
<1>1. <<x>> \in Seq(Elem) /\ Len(<<x>>) = 1 /\ <<x>>[1] = x
  OBVIOUS
<1>2. PICK u, n : u = <<x>> /\ n = Len(s)
  OBVIOUS
<1>3. n \in Nat
  BY <1>2
<1>4. /\ s \o u \in Seq(Elem) /\ Len(s \o u) = n + Len(u)
      /\ \A i \in 1 .. n + Len(u) : (s \o u)[i] = IF i <= n THEN s[i] ELSE u[i - n]
  BY <1>1, <1>2, ConcatProperties
<1>5. n + 1 \in 1 .. n + Len(u) /\ ~ n + 1 <= n /\ (n + 1) - n = 1
  BY <1>1, <1>2, <1>3
<1>6. (s \o u)[n + 1] = x
  BY <1>1, <1>2, <1>4, <1>5
<1>7. \A i \in 1 .. n : (s \o u)[i] = s[i]
  BY <1>1, <1>2, <1>3, <1>4
<1>8. s \o <<>> = s
  BY ConcatEmptySeq
<1>9. QED
  BY <1>1, <1>2, <1>4, <1>6, <1>7, <1>8

\* The objects of the frames that go are dropped, and one may come.
Leaves(os, a, test, w) == w = Take(os, a) \o If1(test, <<Obj>>)

LeftOver(os, a, test, w) ==
  /\ w \in Seq(Object) /\ ListsFit(w) /\ Same(os, w, a) /\ Objs(w, a + 1, Len(w))
  /\ Len(w) = IF test THEN a + 1 ELSE a

LEMMA Dropped ==
  ASSUME NEW os \in Seq(Object), ListsFit(os), NEW a \in 0 .. Len(os), NEW test \in BOOLEAN,
         NEW w, Leaves(os, a, test, w)
  PROVE  LeftOver(os, a, test, w)
<1>1. PICK t : t = Take(os, a)
  OBVIOUS
<1>2. t \in Seq(Object) /\ Len(t) = a /\ \A i \in 1 .. a : t[i] = os[i]
  BY <1>1, Prefix
<1>3. Obj \in Object /\ Obj.kind = "obj"
  BY LimitsAssumption DEF Obj, Thing, Object, ObjectKinds
<1>4. PICK x : x = Obj
  OBVIOUS
<1>5. CASE test
  <2>1. w = t \o <<x>>
    BY <1>1, <1>4, <1>5 DEF If1, Leaves
  <2>8. x \in Object /\ a \in Nat /\ Len(os) \in Nat /\ a <= Len(os)
    BY <1>3, <1>4
  <2>9. /\ w \in Seq(Object) /\ Len(w) = Len(t) + 1
        /\ w[Len(t) + 1] = x /\ \A i \in 1 .. Len(t) : w[i] = t[i]
    <3>1. t \in Seq(Object) /\ x \in Object
      BY <1>2, <2>8
    <3>2. /\ t \o <<x>> \in Seq(Object) /\ Len(t \o <<x>>) = Len(t) + 1
          /\ (t \o <<x>>)[Len(t) + 1] = x /\ \A i \in 1 .. Len(t) : (t \o <<x>>)[i] = t[i]
      BY <3>1, ConcatOne
    <3>3. QED
      BY <2>1, <3>2
  <2>2. w \in Seq(Object) /\ Len(w) = a + 1 /\ w[a + 1] = x /\ \A i \in 1 .. a : w[i] = os[i]
    BY <1>2, <2>9
  <2>3. Same(os, w, a)
    BY <2>2, <2>8 DEF Same
  <2>4. \A i \in a + 1 .. a + 1 : i = a + 1
    OBVIOUS
  <2>5. Objs(w, a + 1, Len(w))
    BY <1>3, <1>4, <2>2, <2>4 DEF Objs
  <2>6. ListsFit(w)
    <3>1. ASSUME NEW i \in 1 .. Len(w), w[i].kind = "fields", w[i].count > 0
          PROVE  MaxArgs > 0 /\ w[i].count <= 2
      <4>1. i # a + 1
        BY <1>3, <1>4, <2>2, <3>1
      <4>2. i \in 1 .. a /\ i \in 1 .. Len(os)
        BY <2>2, <4>1
      <4>3. QED
        BY <2>2, <3>1, <4>2 DEF ListsFit
    <3>2. QED
      BY <3>1 DEF ListsFit
  <2>7. QED
    BY <1>5, <2>2, <2>3, <2>5, <2>6 DEF LeftOver
<1>6. CASE ~ test
  <2>1. w = t \o <<>>
    BY <1>1, <1>6 DEF If1, Leaves
  <2>8. w = t
    BY <1>2, <1>3, <2>1, ConcatOne
  <2>2. w \in Seq(Object) /\ Len(w) = a /\ \A i \in 1 .. a : w[i] = os[i]
    BY <1>2, <2>8
  <2>9. a \in Nat /\ Len(os) \in Nat /\ a <= Len(os) /\ \A i \in 1 .. a : i \in 1 .. Len(os)
    OBVIOUS
  <2>5. Same(os, w, a) /\ Objs(w, a + 1, Len(w))
    BY <2>2, <2>9 DEF Same, Objs
  <2>6. ListsFit(w)
    BY <2>2, <2>9 DEF ListsFit
  <2>3. Same(os, w, a) /\ Objs(w, a + 1, Len(w)) /\ ListsFit(w)
    BY <2>5, <2>6
  <2>4. QED
    BY <1>6, <2>2, <2>3 DEF LeftOver
<1>7. QED
  BY <1>5, <1>6

\* How high the frame below those that go leaves the stack
LEMMA UnwoundExtra ==
  ASSUME NEW fs, NEW os, NEW gs, NEW w, NEW n \in Nat, Len(fs) = n, NEW k \in 1 .. n - 1,
         AllTyped(fs), Balanced(fs, os), FramesLinked(fs), Change(fs, gs, k), Len(gs) = k,
         Kin(fs[k], gs[k]), gs[k].left = fs[k].left,
         \/ Len(w) = fs[k + 1].start /\ gs[k].needResult = fs[k].needResult
         \/ /\ Len(w) = fs[k + 1].start + 1 /\ fs[k + 1].needLoad /\ fs[k + 1].isMethod
            /\ gs[k].needResult = fs[k].needResult
         \/ /\ Len(w) = fs[k + 1].start + 1 /\ k = 1 /\ fs[1].needResult /\ ~ gs[1].needResult
  PROVE  Extra(gs, k, Len(w))
<1>1. k \in 1 .. n /\ k + 1 \in 1 .. n /\ k # n
  OBVIOUS
<1>2. PICK h : h = fs[k + 1].start
  OBVIOUS
<1>3. h \in Nat /\ fs[k].start \in Nat
  BY <1>1, <1>2 DEF AllTyped, Typed
<1>4. Extra(fs, k, h) /\ Linked(fs[k], fs[k + 1])
  BY <1>2 DEF Balanced, FramesLinked
<1>5. PICK f, g : f = fs[k] /\ g = gs[k]
  OBVIOUS
<1>6. g.type = f.type /\ g.isMethod = f.isMethod /\ g.start = f.start /\ g.blocks = f.blocks
  BY <1>5 DEF Change, Alike, Kin
<1>7. f.type # "Package" =>
        \/ Level(f, h) = f.start
        \/ Level(f, h) = f.start + 1 /\ f.isMethod /\ ~ f.needResult /\ k = 1
  BY <1>1, <1>4, <1>5 DEF Extra
<1>8. SUFFICES ASSUME f.type # "Package"
               PROVE  \/ Level(g, Len(w)) = g.start
                      \/ Level(g, Len(w)) = g.start + 1 /\ g.isMethod /\ ~ g.needResult /\ k = 1
  BY <1>5, <1>6 DEF Extra
<1>9. CASE Len(w) = h /\ g.needResult = f.needResult
  <2>1. Level(g, Len(w)) = Level(f, h)
    BY <1>6, <1>9 DEF Level
  <2>2. QED
    BY <1>6, <1>7, <1>8, <1>9, <2>1
<1>10. CASE f.blocks # <<>> /\ (g.needResult => f.needResult)
  <2>1. Level(g, Len(w)) = Level(f, h)
    BY <1>6, <1>10 DEF Level
  <2>2. QED
    BY <1>6, <1>7, <1>8, <1>10, <2>1
<1>11. CASE /\ Len(w) = h + 1 /\ fs[k + 1].needLoad /\ fs[k + 1].isMethod
            /\ g.needResult = f.needResult
  <2>1. f.blocks # <<>>
    BY <1>4, <1>5, <1>8, <1>11 DEF Linked
  <2>2. QED
    BY <1>10, <1>11, <2>1
<1>12. CASE Len(w) = h + 1 /\ k = 1 /\ f.needResult /\ ~ g.needResult /\ f.blocks = <<>>
  <2>1. fs # <<>>
    BY <1>1
  <2>2. f.isMethod
    BY <1>5, <1>12, <2>1 DEF FramesLinked, BaseFrame
  <2>3. Level(f, h) = f.start
    BY <1>7, <1>8, <1>12
  <2>4. h = f.start /\ Level(g, Len(w)) = h + 1
    BY <1>6, <1>12, <2>3 DEF Level
  <2>5. QED
    BY <1>6, <1>12, <2>2, <2>4
<1>13. QED
  <2>1. \/ Len(w) = h /\ g.needResult = f.needResult
        \/ /\ Len(w) = h + 1 /\ fs[k + 1].needLoad /\ fs[k + 1].isMethod
           /\ g.needResult = f.needResult
        \/ Len(w) = h + 1 /\ k = 1 /\ f.needResult /\ ~ g.needResult
    BY <1>2, <1>5
  <2>2. QED
    BY <1>9, <1>10, <1>11, <1>12, <2>1

UnwindsTo(fs, ms, os, sc, gs, ls, w, sd) ==
  LET u == Unwound(fs, ms, os, sc) IN
  gs = u.frames /\ ls = u.methodFrames /\ w = u.objects /\ sd = u.scope

\* What is left of the frames
Remains(fs, k, gives, gs) ==
  gs = IF gives THEN [Take(fs, 1) EXCEPT ![1].needResult = FALSE] ELSE Take(fs, k)

LEMMA UnwoundFrames ==
  ASSUME NEW fs \in Seq(Frame), NEW k \in 1 .. Len(fs), NEW gives \in BOOLEAN, gives => k = 1,
         NEW gs, Remains(fs, k, gives, gs)
  PROVE  /\ gs \in Seq(Frame) /\ Len(gs) = k
         /\ \A i \in 1 .. k - 1 : gs[i] = fs[i]
         /\ gs[k] \in Frame /\ Kin(fs[k], gs[k]) /\ Alike(fs[k], gs[k])
         /\ gs[k].left = fs[k].left
         /\ (gives => ~ gs[k].needResult) /\ (~ gives => gs[k].needResult = fs[k].needResult)
<1>1. PICK f : f = fs[k]
  OBVIOUS
<1>2. f \in Frame
  BY <1>1
<1>3. CASE ~ gives
  <2>1. gs = Take(fs, k) /\ k \in 0 .. Len(fs)
    BY <1>3 DEF Remains
  <2>2. gs \in Seq(Frame) /\ Len(gs) = k /\ \A i \in 1 .. k : gs[i] = fs[i]
    BY <2>1, Prefix
  <2>3. gs[k] = f /\ \A i \in 1 .. k - 1 : gs[i] = fs[i]
    BY <1>1, <2>2
  <2>4. QED
    BY <1>1, <1>2, <1>3, <2>2, <2>3 DEF Kin, Alike
<1>4. CASE gives
  <2>1. PICK t : t = Take(fs, 1)
    OBVIOUS
  <2>2. k = 1 /\ 1 \in 0 .. Len(fs)
    BY <1>4
  <2>10. /\ t \in Seq(Frame) /\ Len(t) = 1 /\ \A i \in 1 .. 1 : t[i] = fs[i]
    BY <2>1, <2>2, Prefix
  <2>11. t[1] = fs[1] /\ f = fs[1]
    BY <1>1, <2>2, <2>10
  <2>3. t \in Seq(Frame) /\ Len(t) = 1 /\ t[1] = f
    BY <2>10, <2>11
  <2>4. PICK g : g = [f EXCEPT !.needResult = FALSE]
    OBVIOUS
  <2>5. g \in Frame /\ g.start = f.start /\ g.blocks = f.blocks /\ g.left = f.left
        /\ g.needResult = FALSE
    BY <1>2, <2>4 DEF Frame
  <2>6. Alike(f, g) /\ Kin(f, g)
    BY <1>2, <2>4, <2>5 DEF Frame, Alike, Kin
  <2>7. gs = [t EXCEPT ![1] = g]
    BY <1>4, <2>1, <2>3, <2>4 DEF Remains
  <2>8. gs \in Seq(Frame) /\ Len(gs) = 1 /\ gs[1] = g
    BY <2>3, <2>5, <2>7
  <2>9. k = 1 /\ gs[k] = g /\ fs[k] = f /\ ~ g.needResult /\ \A i \in 1 .. k - 1 : gs[i] = fs[i]
    BY <1>1, <2>2, <2>5, <2>8
  <2>12. QED
    BY <1>4, <2>5, <2>6, <2>8, <2>9
<1>5. QED
  BY <1>3, <1>4

LEMMA UnwindFits ==
  ASSUME program \in Programs, NEW fs, NEW ms, NEW os, NEW sc, Fit(fs, ms, os, sc),
         Len(fs) >= 1, Len(fs) > 1 => KeepsScope(fs, ms),
         NEW gs, NEW ls, NEW w, NEW sd, UnwindsTo(fs, ms, os, sc, gs, ls, w, sd)
  PROVE  Fit(gs, ls, w, sd) /\ Kept(fs, os, gs, w) /\ Len(gs) <= Len(fs)
<1>1. PICK n : n = Len(fs)
  OBVIOUS
<1>2. /\ fs \in Seq(Frame) /\ os \in Seq(Object) /\ ms \in Seq({"method", "load"})
      /\ sc \in 0 .. MaxFrames /\ Shape(fs, os) /\ BlocksPlaced(fs) /\ FramesLinked(fs)
      /\ MethodsFit(fs, ms) /\ ListsFit(os)
  BY DEF Fit, StacksTyped
<1>3. n \in Nat /\ n >= 1 /\ AllTyped(fs) /\ \A i \in 1 .. n : fs[i] \in Frame
  BY <1>1, <1>2, FramesTyped
<1>4. Len(os) \in Nat /\ \A i \in 1 .. n : fs[i].start \in Nat /\ fs[i].start <= Len(os)
  BY <1>1, <1>2, <1>3, ShapeFacts
<1>5. CASE n = 1
  <2>1. gs = fs /\ ls = ms /\ w = os /\ sd = sc
    BY <1>1, <1>5 DEF UnwindsTo, Unwound
  <2>2. Kept(fs, os, gs, w)
    BY <1>1, <1>4, <2>1, SameRefl DEF Kept
  <2>3. Len(gs) <= Len(fs)
    BY <1>1, <1>5, <2>1
  <2>4. QED
    BY <2>1, <2>2, <2>3
<1>6. CASE n # 1
  <2>1. n >= 2
    BY <1>3, <1>6
  <2>2. PICK low : low = Lowest(fs, ms)
    OBVIOUS
  <2>3. PICK gives \in BOOLEAN : gives <=> Gives(fs, ms)
    OBVIOUS
  <2>4. PICK loads \in BOOLEAN : loads <=> (low \in Loads(fs, ms) /\ fs[low].needLoad)
    OBVIOUS
  <2>5. /\ low \in 2 .. n /\ (Loads(fs, ms) = {} => low = 2)
        /\ \A i \in Loads(fs, ms) : i \in 2 .. n /\ fs[i].isMethod
    BY <1>1, <1>3, <2>1, <2>2, LowestIs
  <2>6. PICK k : k = low - 1
    OBVIOUS
  <2>7. k \in 1 .. n - 1 /\ k + 1 = low /\ k \in 1 .. n /\ low \in 1 .. n /\ k < n /\ k \in Nat
    BY <1>3, <2>5, <2>6
  <2>8. gives \in BOOLEAN /\ (gives => Loads(fs, ms) = {} /\ fs[1].needResult /\ k = 1)
    BY <2>3, <2>5, <2>6 DEF Gives
  <2>9. loads \in BOOLEAN /\ (loads => fs[low].isMethod /\ fs[low].needLoad /\ ~ gives)
    BY <2>4, <2>5, <2>8
  <2>10. Remains(fs, k, gives, gs)
    BY <1>1, <1>6, <2>2, <2>3, <2>6 DEF UnwindsTo, Unwound, Remains
  <2>11. /\ gs \in Seq(Frame) /\ Len(gs) = k
         /\ \A i \in 1 .. k - 1 : gs[i] = fs[i]
         /\ gs[k] \in Frame /\ Kin(fs[k], gs[k]) /\ Alike(fs[k], gs[k])
         /\ gs[k].left = fs[k].left
         /\ (gives => ~ gs[k].needResult) /\ (~ gives => gs[k].needResult = fs[k].needResult)
    <3>1. fs \in Seq(Frame) /\ k \in 1 .. Len(fs) /\ (gives => k = 1)
      BY <1>1, <1>2, <2>7, <2>8
    <3>2. QED
      BY <2>10, <3>1, UnwoundFrames
  <2>12. Change(fs, gs, k)
    BY <1>1, <2>7, <2>11 DEF Change, Twin, Kin
  <2>13. PICK a : a = fs[low].start
    OBVIOUS
  <2>14. a \in 0 .. Len(os)
    BY <1>4, <2>7, <2>13
  <2>15. PICK test \in BOOLEAN : test <=> gives \/ loads
    OBVIOUS
  <2>16. test \in BOOLEAN
    BY <2>15
  <2>17. Leaves(os, a, test, w)
    BY <1>1, <1>6, <2>2, <2>3, <2>4, <2>13, <2>15 DEF UnwindsTo, Unwound, Leaves, If1
  <2>18. /\ w \in Seq(Object) /\ ListsFit(w) /\ Same(os, w, a) /\ Objs(w, a + 1, Len(w))
         /\ Len(w) = IF test THEN a + 1 ELSE a
    <3>1. LeftOver(os, a, test, w)
      BY <1>2, <2>14, <2>16, <2>17, Dropped
    <3>2. QED
      BY <3>1 DEF LeftOver
  <2>19. PICK below, gone : /\ below = Cardinality(MethodsIn(fs, 1, k))
                            /\ gone = Cardinality(MethodsIn(fs, low, n))
    OBVIOUS
  <2>20. below \in Nat /\ gone \in Nat /\ Len(ms) = below + gone
    <3>1. k \in 0 .. n
      BY <2>7
    <3>2. PICK all : all = Cardinality(MethodsIn(fs, 1, n))
      OBVIOUS
    <3>3. MethodsIn(fs, k + 1, n) = MethodsIn(fs, low, n)
      BY <2>7
    <3>4. below \in Nat /\ gone \in Nat /\ all = below + gone
      BY <1>3, <2>19, <3>1, <3>2, <3>3, MethodsCount
    <3>5. Len(ms) = all
      BY <1>1, <1>2, <3>2 DEF MethodsFit
    <3>6. QED
      BY <3>4, <3>5
  <2>21. ls = Take(ms, Len(ms) - gone)
    BY <1>1, <1>6, <2>2, <2>19 DEF UnwindsTo, Unwound, Leaving
  <2>22. Len(ms) - gone = below /\ below \in 0 .. Len(ms)
    BY <2>20
  <2>23. /\ ls \in Seq({"method", "load"}) /\ Len(ls) = below
         /\ \A i \in 1 .. below : ls[i] = ms[i]
    BY <1>2, <2>21, <2>22, Prefix
  <2>24. sd = ScopeAfter(fs, ms, sc)
    BY <1>1, <1>6 DEF UnwindsTo, Unwound
  <2>25. sd \in 0 .. MaxFrames
    <3>1. PICK G : G = MethodsIn(fs, low, n)
      OBVIOUS
    <3>2. G \subseteq 1 .. n
      BY <2>7, <3>1 DEF MethodsIn
    <3>3. CASE G = {}
      BY <1>1, <1>2, <2>2, <2>24, <3>1, <3>3 DEF ScopeAfter, Leaving
    <3>4. CASE G # {}
      <4>1. G \subseteq Nat
        BY <3>2
      <4>2. \E i \in G : \A j \in G : i <= j
        BY <3>4, <4>1, NatMin
      <4>3. PICK m : m = CHOOSE i \in G : \A j \in G : i <= j
        OBVIOUS
      <4>4. m \in G
        BY <4>2, <4>3
      <4>5. sd = fs[m].parent
        BY <1>1, <2>2, <2>24, <3>1, <3>4, <4>3 DEF ScopeAfter, Leaving
      <4>6. fs[m] \in Frame
        BY <1>3, <3>2, <4>4
      <4>7. QED
        BY <4>5, <4>6, FrameTypes
    <3>5. QED
      BY <3>3, <3>4
  <2>26. StacksTyped(gs, ls, w, sd)
    BY <2>11, <2>18, <2>23, <2>25 DEF StacksTyped
  <2>27. ASSUME NEW j \in 1 .. Len(gs[k].blocks)
         PROVE  BlockPlaced(gs[k], j) /\ Roomy(fs, k, gs[k].blocks[j])
    <3>1. gs[k].blocks = fs[k].blocks /\ gs[k].type = fs[k].type /\ gs[k].left = fs[k].left
      BY <2>11 DEF Kin, Alike
    <3>2. BlockPlaced(fs[k], j) /\ Roomy(fs, k, fs[k].blocks[j])
      BY <1>1, <1>2, <2>7, <3>1 DEF BlocksPlaced
    <3>3. BlockPlaced(gs[k], j)
      BY <3>1, <3>2 DEF BlockPlaced
    <3>4. QED
      BY <3>1, <3>2, <3>3
  <2>28. ASSUME "literals" \notin AmlMay
         PROVE  Extra(gs, k, Len(w))
    <3>1. Balanced(fs, os)
      BY <2>28 DEF Fit
    <3>2. \/ Len(w) = fs[k + 1].start /\ gs[k].needResult = fs[k].needResult
          \/ /\ Len(w) = fs[k + 1].start + 1 /\ fs[k + 1].needLoad /\ fs[k + 1].isMethod
             /\ gs[k].needResult = fs[k].needResult
          \/ /\ Len(w) = fs[k + 1].start + 1 /\ k = 1 /\ fs[1].needResult /\ ~ gs[1].needResult
      <4>1. CASE gives
        BY <2>7, <2>8, <2>11, <2>13, <2>15, <2>18, <4>1
      <4>2. CASE loads
        BY <2>7, <2>9, <2>11, <2>13, <2>15, <2>18, <4>2
      <4>3. CASE ~ gives /\ ~ loads
        BY <2>7, <2>11, <2>13, <2>15, <2>18, <4>3
      <4>4. QED
        BY <4>1, <4>2, <4>3
    <3>3. QED
      BY <1>1, <1>2, <1>3, <2>7, <2>11, <2>12, <3>1, <3>2, UnwoundExtra
  <2>29. ASSUME "leaveScope" \notin AmlMay
         PROVE  sd = ScopeNumber(fs, k)
    <3>1. ScopesFit(fs, sc)
      BY <2>29 DEF Fit
    <3>2. \A i \in low .. n :
            (fs[i].type = "Scope" /\ ~ fs[i].isMethod) => \E j \in low .. i : fs[j].isMethod
      BY <1>1, <2>1, <2>2, <2>29 DEF KeepsScope
    <3>3. QED
      BY <1>1, <1>2, <1>3, <2>1, <2>2, <2>6, <2>24, <3>1, <3>2, UnwoundScope
  <2>30. Same(os, w, fs[k + 1].start) /\ Objs(w, fs[k + 1].start + 1, Len(w))
    BY <2>7, <2>13, <2>18
  <2>31. Len(ls) = Cardinality(MethodsIn(fs, 1, k)) /\ \A i \in 1 .. Len(ls) : ls[i] = ms[i]
    BY <2>19, <2>23
  <2>32. "leaveScope" \notin AmlMay =>
           (gs[k].left > 0 \/ gs[k].blocks # <<>> \/ gs[k].type # "Scope" =>
              sd = ScopeNumber(fs, k))
    BY <2>29
  <2>33. Fit(gs, ls, w, sd) /\ Kept(fs, os, gs, w)
    BY <1>1, <1>3, <2>7, <2>11, <2>12, <2>18, <2>26, <2>27, <2>28, <2>30, <2>31, <2>32, FitCut
  <2>34. Len(gs) <= Len(fs)
    BY <1>1, <1>3, <2>7, <2>11
  <2>35. QED
    BY <2>33, <2>34
<1>7. QED
  BY <1>5, <1>6

-----------------------------------------------------------------------------
(* What parse does to the frame at the top                                 *)

\* The frame f at the top of frames that fit
Tops(fs, ms, os, sc, n, f) ==
  /\ program \in Programs /\ Fit(fs, ms, os, sc)
  /\ n \in Nat /\ n >= 1 /\ Len(fs) = n /\ f = fs[n]

LEMMA TopFacts ==
  ASSUME NEW fs, NEW ms, NEW os, NEW sc, NEW n, NEW f, Tops(fs, ms, os, sc, n, f)
  PROVE  /\ n \in Nat /\ n >= 1 /\ Len(fs) = n /\ f = fs[n] /\ n <= MaxFrames
         /\ fs \in Seq(Frame) /\ f \in Frame /\ Typed(f) /\ os \in Seq(Object)
         /\ ms \in Seq({"method", "load"}) /\ sc \in 0 .. MaxFrames /\ ListsFit(os)
         /\ TopFine(f, os) /\ Len(os) \in Nat /\ f.start \in Nat /\ f.start <= Len(os)
         /\ f.start <= Level(f, Len(os))
         /\ \A j \in 1 .. Len(f.blocks) : BlockPlaced(f, j) /\ Roomy(fs, n, f.blocks[j])
         /\ Len(ms) = Cardinality(MethodsIn(fs, 1, n))
         /\ ("literals" \notin AmlMay => Extra(fs, n, Len(os)))
         /\ ("leaveScope" \notin AmlMay /\ (f.left > 0 \/ f.blocks # <<>> \/ f.type # "Scope") =>
               sc = ScopeNumber(fs, n))
<1>1. /\ program \in Programs /\ Fit(fs, ms, os, sc)
      /\ n \in Nat /\ n >= 1 /\ Len(fs) = n /\ f = fs[n]
  BY DEF Tops
<1>2. /\ fs \in Seq(Frame) /\ ms \in Seq({"method", "load"}) /\ os \in Seq(Object)
      /\ sc \in 0 .. MaxFrames /\ Shape(fs, os) /\ BlocksPlaced(fs) /\ FramesLinked(fs)
      /\ MethodsFit(fs, ms) /\ ListsFit(os)
  BY <1>1 DEF Fit, StacksTyped
<1>3. AllTyped(fs) /\ Len(os) \in Nat /\ f \in Frame /\ n \in 1 .. n /\ fs # <<>>
  BY <1>1, <1>2, FramesTyped
<1>4. Typed(f) /\ f.start \in Nat
  BY <1>3, FrameTypes
<1>5. TopFine(f, os) /\ f.start <= Len(os)
  BY <1>1, <1>2, <1>3, ShapeFacts
<1>6. f.start <= Level(f, Len(os))
  BY <1>5 DEF TopFine, FrameFine
<1>7. \A j \in 1 .. Len(f.blocks) : BlockPlaced(f, j) /\ Roomy(fs, n, f.blocks[j])
  BY <1>1, <1>2, <1>3 DEF BlocksPlaced
<1>8. Len(ms) = Cardinality(MethodsIn(fs, 1, n)) /\ n <= MaxFrames
  BY <1>1, <1>2 DEF MethodsFit, FramesLinked
<1>9. "literals" \notin AmlMay => Extra(fs, n, Len(os))
  BY <1>1, <1>3 DEF Fit, Balanced
<1>10. "leaveScope" \notin AmlMay /\ (f.left > 0 \/ f.blocks # <<>> \/ f.type # "Scope") =>
               sc = ScopeNumber(fs, n)
  BY <1>1, <1>3 DEF Fit, ScopesFit
<1>11. QED
  BY <1>1, <1>2, <1>3, <1>4, <1>5, <1>6, <1>7, <1>8, <1>9, <1>10

\* The blocks of the frame g at place n are where they may be.
PlacedAt(fs, n, g) ==
  \A j \in 1 .. Len(g.blocks) : BlockPlaced(g, j) /\ Roomy(fs, n, g.blocks[j])

\* The frame g in place of the one at the top
LEMMA TopReplaced ==
  ASSUME NEW fs \in Seq(Frame), NEW n \in Nat, Len(fs) = n, n >= 1, NEW g \in Frame
  PROVE  /\ WithLast(fs, g) \in Seq(Frame) /\ Len(WithLast(fs, g)) = n
         /\ WithLast(fs, g)[n] = g /\ \A i \in 1 .. n - 1 : WithLast(fs, g)[i] = fs[i]
BY DEF WithLast

PutsTop(fs, n, g, hs) ==
  fs \in Seq(Frame) /\ n \in Nat /\ Len(fs) = n /\ n >= 1 /\ g \in Frame /\ hs = WithLast(fs, g)
LEMMA TopPut ==
  ASSUME NEW fs, NEW n, NEW g, NEW hs, PutsTop(fs, n, g, hs)
  PROVE  hs \in Seq(Frame) /\ Len(hs) = n /\ hs[n] = g /\ \A i \in 1 .. n - 1 : hs[i] = fs[i]
<1>1. fs \in Seq(Frame) /\ n \in Nat /\ Len(fs) = n /\ n >= 1 /\ g \in Frame
  BY DEF PutsTop
<1>2. hs = WithLast(fs, g)
  BY DEF PutsTop
<1>3. /\ WithLast(fs, g) \in Seq(Frame) /\ Len(WithLast(fs, g)) = n
      /\ WithLast(fs, g)[n] = g /\ \A i \in 1 .. n - 1 : WithLast(fs, g)[i] = fs[i]
  BY ONLY <1>1, TopReplaced
<1>4. QED
  BY <1>2, <1>3

LEMMA TopMove ==
  ASSUME NEW fs, NEW ms, NEW os, NEW sc, NEW n, NEW f, Tops(fs, ms, os, sc, n, f),
         NEW g \in Frame, Alike(f, g), NEW gs, gs = WithLast(fs, g),
         NEW w \in Seq(Object), ListsFit(w), Same(os, w, f.start), TopFine(g, w),
         f.left > 0 \/ f.blocks # <<>>,
         PlacedAt(fs, n, g), "literals" \notin AmlMay => Extra(gs, n, Len(w))
  PROVE  Fit(gs, ms, w, sc) /\ Kept(fs, os, gs, w)
<1>1. /\ program \in Programs /\ Fit(fs, ms, os, sc)
      /\ n \in Nat /\ n >= 1 /\ Len(fs) = n /\ f = fs[n]
  BY DEF Tops
<1>2. /\ fs \in Seq(Frame) /\ ms \in Seq({"method", "load"}) /\ sc \in 0 .. MaxFrames
      /\ Len(ms) = Cardinality(MethodsIn(fs, 1, n))
      /\ ("leaveScope" \notin AmlMay /\ (f.left > 0 \/ f.blocks # <<>> \/ f.type # "Scope") =>
               sc = ScopeNumber(fs, n))
  BY TopFacts
<1>4. gs \in Seq(Frame) /\ Len(gs) = n /\ gs[n] = g /\ \A i \in 1 .. n - 1 : gs[i] = fs[i]
  <2>1. PutsTop(fs, n, g, gs)
    BY <1>1, <1>2 DEF PutsTop
  <2>2. QED
    BY <2>1, TopPut
<1>5. Change(fs, gs, n)
  BY <1>1, <1>4 DEF Change, Twin, Kin
<1>6. StacksTyped(gs, ms, w, sc)
  BY <1>2, <1>4 DEF StacksTyped
<1>7. \A j \in 1 .. Len(gs[n].blocks) : BlockPlaced(gs[n], j) /\ Roomy(fs, n, gs[n].blocks[j])
  BY <1>4 DEF PlacedAt
<1>8. n = n /\ Same(os, w, fs[n].start) /\ TopFine(gs[n], w)
  BY <1>1, <1>4
<1>9. "leaveScope" \notin AmlMay =>
           (gs[n].left > 0 \/ gs[n].blocks # <<>> \/ gs[n].type # "Scope" =>
              sc = ScopeNumber(fs, n))
  BY <1>2
<1>10. \A i \in 1 .. Len(ms) : ms[i] = ms[i]
  OBVIOUS
<1>11. QED
  BY <1>1, <1>2, <1>4, <1>5, <1>6, <1>7, <1>8, <1>9, <1>10, FitCut

\* The statement of a frame begins where it did.
LEMMA ExtraLevel ==
  ASSUME NEW fs, NEW gs, NEW n, Len(fs) = n, NEW f, NEW g, f = fs[n], g = gs[n],
         NEW h, NEW k, Extra(fs, n, h), Alike(f, g), g.needResult = f.needResult,
         Level(g, k) = Level(f, h), f.left > 0 \/ f.blocks # <<>>, f.left \in Nat
  PROVE  Extra(gs, n, k)
<1>1. f.type # "Package" =>
        \/ Level(f, h) = f.start
        \/ Level(f, h) = f.start + 1 /\ f.isMethod /\ ~ f.needResult /\ n = 1
  BY DEF Extra
<1>2. g.type = f.type /\ g.start = f.start /\ g.isMethod = f.isMethod
  BY DEF Alike
<1>3. QED
  BY <1>1, <1>2 DEF Extra

\* The block at the top is c instead of b, and the objects are w.
LEMMA BlockMove ==
  ASSUME NEW fs, NEW ms, NEW os, NEW sc, NEW n, NEW f, Tops(fs, ms, os, sc, n, f),
         f.blocks # <<>>, NEW b, b = Last(f.blocks),
         NEW c, NEW w \in Seq(Object), ListsFit(w), Follows(b, os, c, w), c.wanted = b.wanted,
         NEW g \in Frame, Alike(f, g), g.needResult = f.needResult, g.left = f.left,
         g.blocks = WithLast(f.blocks, c), NEW gs, gs = WithLast(fs, g)
  PROVE  Fit(gs, ms, w, sc) /\ Kept(fs, os, gs, w)
<1>1. /\ n \in Nat /\ n >= 1 /\ Len(fs) = n /\ f = fs[n] /\ fs \in Seq(Frame) /\ f \in Frame
      /\ Typed(f) /\ TopFine(f, os) /\ os \in Seq(Object) /\ f.start \in Nat
      /\ f.start <= Level(f, Len(os))
      /\ (\A j \in 1 .. Len(f.blocks) : BlockPlaced(f, j) /\ Roomy(fs, n, f.blocks[j]))
      /\ ("literals" \notin AmlMay => Extra(fs, n, Len(os)))
  BY TopFacts
<1>2. PICK bs, m : bs = f.blocks /\ m = Len(f.blocks)
  OBVIOUS
<1>3. bs \in Seq(Block) /\ bs # <<>>
  BY <1>1, <1>2 DEF Typed
<1>4. m \in Nat /\ m >= 1 /\ b = bs[m] /\ b \in Block
  BY <1>2, <1>3, BlocksOf
<1>5. c \in Block /\ c.op = b.op /\ Base(c) = Base(b) /\ Same(os, w, Base(b))
  BY DEF Follows
<1>6. WithLast(bs, c) = Append(Below(bs), c)
  BY <1>3, <1>5, Replaced
<1>7. PICK cs : cs = g.blocks
  OBVIOUS
<1>8. cs = [bs EXCEPT ![m] = c]
  BY <1>2, <1>7 DEF WithLast
<1>9. Len(cs) = m /\ cs[m] = c /\ \A j \in 1 .. m - 1 : cs[j] = bs[j]
  BY <1>2, <1>3, <1>4, <1>8
<1>10. Base(cs[1]) = Base(bs[1])
  <2>1. CASE m = 1
    BY <1>4, <1>5, <1>9, <2>1
  <2>2. CASE m # 1
    <3>1. 1 \in 1 .. m - 1
      BY <1>4, <2>2
    <3>2. cs[1] = bs[1]
      BY <1>9, <3>1
    <3>3. QED
      BY <3>2
  <2>3. QED
    BY <2>1, <2>2
<1>11. cs # <<>>
  BY <1>4, <1>9
<1>12. \A h : Level(f, h) = Base(bs[1]) /\ Level(g, h) = Base(bs[1])
  BY <1>2, <1>3, <1>7, <1>10, <1>11 DEF Level
<1>13. f.start <= Base(b)
  <2>1. f.start <= Base(bs[1])
    BY <1>1, <1>12
  <2>2. Base(bs[1]) <= Base(bs[m])
    <3>1. 1 \in 1 .. m /\ m \in 1 .. m
      BY <1>4
    <3>2. QED
      BY <1>1, <1>2, <1>4, <3>1 DEF TopFine, FrameFine
  <2>3. bs[1] \in Block
    BY <1>2, <1>3, <1>4
  <2>4. Base(b) \in Int /\ Base(bs[1]) \in Int
    BY <1>4, <2>3, Bases
  <2>5. QED
    BY <1>1, <1>4, <2>1, <2>2, <2>4
<1>14. Same(os, w, f.start)
  <2>1. Base(b) \in Int
    BY <1>4, Bases
  <2>2. QED
    BY <1>1, <1>5, <1>13, <2>1 DEF Same
<1>15. Typed(g) /\ TopFine(g, w)
  <2>1. Len(w) \in Nat /\ g.start = f.start
    BY DEF Alike
  <2>2. Collected(c, w) /\ Height(c, w, Len(w))
    BY DEF Follows
  <2>3. c.op = Last(f.blocks).op /\ Base(c) = Base(Last(f.blocks)) /\ Same(os, w, Base(Last(f.blocks)))
    BY <1>5
  <2>4. QED
    BY <1>1, <1>5, <2>1, <2>2, <2>3, ReplaceBlock
<1>16. ASSUME NEW j \in 1 .. Len(g.blocks)
       PROVE  BlockPlaced(g, j) /\ Roomy(fs, n, g.blocks[j])
  <2>1. j \in 1 .. Len(f.blocks) /\ j \in 1 .. m
    BY <1>2, <1>7, <1>9
  <2>2. BlockPlaced(f, j) /\ Roomy(fs, n, f.blocks[j])
    BY <1>1, <2>1
  <2>3. g.blocks[j].op = f.blocks[j].op /\ g.blocks[j].wanted = f.blocks[j].wanted
    BY <1>2, <1>4, <1>5, <1>7, <1>9, <2>1
  <2>4. g.type = f.type /\ g.left = f.left
    BY DEF Alike
  <2>5. QED
    BY <2>2, <2>3, <2>4 DEF BlockPlaced, Roomy
<1>17. ASSUME "literals" \notin AmlMay
       PROVE  Extra(gs, n, Len(w))
  <2>1. gs[n] = g
    <3>1. PutsTop(fs, n, g, gs)
      BY <1>1 DEF PutsTop
    <3>2. QED
      BY <3>1, TopPut
  <2>2. Extra(fs, n, Len(os)) /\ f.left \in Nat
    BY <1>1, <1>17, Limits, FrameTypes DEF Tops
  <2>3. Level(g, Len(w)) = Level(f, Len(os))
    BY <1>12
  <2>4. QED
    BY <1>1, <2>1, <2>2, <2>3, ExtraLevel
<1>18. PlacedAt(fs, n, g) /\ (f.left > 0 \/ f.blocks # <<>>)
  BY <1>16 DEF PlacedAt
<1>19. QED
  BY <1>14, <1>15, <1>17, <1>18, TopMove

\* An operation d is nested in the block at the top, which becomes c.
LEMMA NestMove ==
  ASSUME NEW fs, NEW ms, NEW os, NEW sc, NEW n, NEW f, Tops(fs, ms, os, sc, n, f),
         f.blocks # <<>>, NEW b, b = Last(f.blocks),
         NEW c, NEW d, NEW w \in Seq(Object), ListsFit(w), Nested(b, os, c, d, w),
         c.wanted = b.wanted, d.wanted, d.op \in Expressions \cup {"Call", "TermArg"},
         Roomy(fs, n, d),
         NEW g \in Frame, Alike(f, g), g.needResult = f.needResult, g.left = f.left,
         g.blocks = Append(WithLast(f.blocks, c), d), NEW gs, gs = WithLast(fs, g)
  PROVE  Fit(gs, ms, w, sc) /\ Kept(fs, os, gs, w)
<1>1. /\ n \in Nat /\ n >= 1 /\ Len(fs) = n /\ f = fs[n] /\ fs \in Seq(Frame) /\ f \in Frame
      /\ Typed(f) /\ TopFine(f, os) /\ os \in Seq(Object) /\ f.start \in Nat
      /\ f.start <= Level(f, Len(os))
      /\ (\A j \in 1 .. Len(f.blocks) : BlockPlaced(f, j) /\ Roomy(fs, n, f.blocks[j]))
      /\ ("literals" \notin AmlMay => Extra(fs, n, Len(os)))
  BY TopFacts
<1>2. PICK bs, m : bs = f.blocks /\ m = Len(f.blocks)
  OBVIOUS
<1>3. bs \in Seq(Block) /\ bs # <<>>
  BY <1>1, <1>2 DEF Typed
<1>4. m \in Nat /\ m >= 1 /\ b = bs[m] /\ b \in Block
  BY <1>2, <1>3, BlocksOf
<1>5. /\ c \in Block /\ c.op = b.op /\ Base(c) = Base(b) /\ Same(os, w, Base(b)) /\ Collected(c, w)
      /\ d \in Block /\ c.start <= Base(d) /\ Collected(d, w) /\ Height(d, w, Len(w))
      /\ (Waits(c, w, Base(d)) \/ (FieldsWait(c, w, Base(d)) /\ d.op = "TermArg"))
  BY DEF Nested
<1>7. PICK cs : cs = WithLast(bs, c)
  OBVIOUS
<1>8. cs = [bs EXCEPT ![m] = c]
  BY <1>2, <1>7 DEF WithLast
<1>9. cs \in Seq(Block) /\ Len(cs) = m /\ cs[m] = c /\ \A j \in 1 .. m - 1 : cs[j] = bs[j]
  BY <1>2, <1>3, <1>4, <1>5, <1>8
<1>10. PICK ds : ds = Append(cs, d)
  OBVIOUS
<1>11. ds = g.blocks
  BY <1>2, <1>7, <1>10
<1>12. ds \in Seq(Block) /\ Len(ds) = m + 1 /\ ds[m + 1] = d /\ \A j \in 1 .. m : ds[j] = cs[j]
  BY <1>5, <1>9, <1>10
<1>13. Base(ds[1]) = Base(bs[1])
  <2>1. ds[1] = cs[1]
    BY <1>4, <1>12
  <2>2. CASE m = 1
    BY <1>4, <1>5, <1>9, <2>1, <2>2
  <2>3. CASE m # 1
    <3>1. 1 \in 1 .. m - 1
      BY <1>4, <2>3
    <3>2. cs[1] = bs[1]
      BY <1>9, <3>1
    <3>3. QED
      BY <2>1, <3>2
  <2>4. QED
    BY <2>2, <2>3
<1>14. ds # <<>>
  BY <1>4, <1>12
<1>15. \A h : Level(f, h) = Base(bs[1]) /\ Level(g, h) = Base(bs[1])
  BY <1>2, <1>3, <1>11, <1>13, <1>14 DEF Level
<1>16. f.start <= Base(b)
  <2>1. f.start <= Base(bs[1])
    BY <1>1, <1>15
  <2>2. Base(bs[1]) <= Base(bs[m])
    <3>1. 1 \in 1 .. m /\ m \in 1 .. m
      BY <1>4
    <3>2. QED
      BY <1>1, <1>2, <1>4, <3>1 DEF TopFine, FrameFine
  <2>3. bs[1] \in Block
    BY <1>2, <1>3, <1>4
  <2>4. Base(b) \in Int /\ Base(bs[1]) \in Int
    BY <1>4, <2>3, Bases
  <2>5. QED
    BY <1>1, <1>4, <2>1, <2>2, <2>4
<1>17. Same(os, w, f.start)
  <2>1. Base(b) \in Int
    BY <1>4, Bases
  <2>2. QED
    BY <1>1, <1>5, <1>16, <2>1 DEF Same
<1>18. Typed(g) /\ TopFine(g, w)
  <2>1. Len(w) \in Nat /\ g.start = f.start
    BY DEF Alike
  <2>2. c.op = Last(f.blocks).op /\ Base(c) = Base(Last(f.blocks)) /\ Same(os, w, Base(Last(f.blocks)))
    BY <1>5
  <2>3. QED
    BY <1>1, <1>5, <2>1, <2>2, NestBlock
<1>19. ASSUME NEW j \in 1 .. Len(g.blocks)
       PROVE  BlockPlaced(g, j) /\ Roomy(fs, n, g.blocks[j])
  <2>1. g.type = f.type /\ g.left = f.left
    BY DEF Alike
  <2>2. CASE j = m + 1
    <3>1. j # 1 /\ g.blocks[j] = d
      BY <1>4, <1>11, <1>12, <2>2
    <3>2. QED
      BY <3>1 DEF BlockPlaced
  <2>3. CASE j # m + 1
    <3>1. j \in 1 .. m /\ j \in 1 .. Len(f.blocks)
      BY <1>2, <1>4, <1>11, <1>12, <2>3
    <3>2. BlockPlaced(f, j) /\ Roomy(fs, n, f.blocks[j])
      BY <1>1, <3>1
    <3>3. g.blocks[j].op = f.blocks[j].op /\ g.blocks[j].wanted = f.blocks[j].wanted
      <4>1. g.blocks[j] = cs[j]
        BY <1>11, <1>12, <3>1
      <4>2. CASE j = m
        BY <1>2, <1>4, <1>5, <1>9, <4>1, <4>2
      <4>3. CASE j # m
        <5>1. j \in 1 .. m - 1
          BY <1>4, <3>1, <4>3
        <5>2. cs[j] = bs[j]
          BY <1>9, <5>1
        <5>3. QED
          BY <1>2, <4>1, <5>2
      <4>4. QED
        BY <4>2, <4>3
    <3>4. QED
      BY <2>1, <3>2, <3>3 DEF BlockPlaced, Roomy
  <2>4. QED
    BY <2>2, <2>3
<1>20. ASSUME "literals" \notin AmlMay
       PROVE  Extra(gs, n, Len(w))
  <2>1. gs[n] = g
    <3>1. PutsTop(fs, n, g, gs)
      BY <1>1 DEF PutsTop
    <3>2. QED
      BY <3>1, TopPut
  <2>2. Extra(fs, n, Len(os)) /\ f.left \in Nat
    BY <1>1, <1>20, Limits, FrameTypes DEF Tops
  <2>3. Level(g, Len(w)) = Level(f, Len(os))
    BY <1>15
  <2>4. QED
    BY <1>1, <2>1, <2>2, <2>3, ExtraLevel
<1>21. PlacedAt(fs, n, g) /\ (f.left > 0 \/ f.blocks # <<>>)
  BY <1>19 DEF PlacedAt
<1>22. QED
  BY <1>17, <1>18, <1>20, <1>21, TopMove

\* What the block at the top has to do with its frame
LEMMA TopBlock ==
  ASSUME NEW fs, NEW ms, NEW os, NEW sc, NEW n, NEW f, Tops(fs, ms, os, sc, n, f),
         f.blocks # <<>>, NEW b, b = Last(f.blocks)
  PROVE  /\ b \in Block /\ Current(b, os) /\ Len(f.blocks) \in Nat /\ Len(f.blocks) >= 1
         /\ b = f.blocks[Len(f.blocks)] /\ f.start <= Base(b) /\ Base(b) <= Len(os)
         /\ Base(b) \in Nat /\ f.start \in Nat /\ Len(os) \in Nat
         /\ BlockPlaced(f, Len(f.blocks)) /\ Roomy(fs, n, b)
<1>1. /\ Typed(f) /\ TopFine(f, os) /\ os \in Seq(Object) /\ f.start \in Nat
      /\ f.start <= Level(f, Len(os)) /\ Len(os) \in Nat
      /\ (\A j \in 1 .. Len(f.blocks) : BlockPlaced(f, j) /\ Roomy(fs, n, f.blocks[j]))
  BY TopFacts
<1>2. PICK bs, m : bs = f.blocks /\ m = Len(f.blocks)
  OBVIOUS
<1>3. bs \in Seq(Block) /\ bs # <<>>
  BY <1>1, <1>2 DEF Typed
<1>4. m \in Nat /\ m >= 1 /\ b = bs[m] /\ b \in Block /\ m \in 1 .. m /\ 1 \in 1 .. m
  <2>1. m \in Nat /\ m >= 1 /\ b = bs[m] /\ b \in Block
    BY <1>2, <1>3, BlocksOf
  <2>2. QED
    BY <2>1
<1>5. Collected(b, os) /\ Height(b, os, Len(os)) /\ Base(bs[1]) <= Base(bs[m])
  BY <1>1, <1>2, <1>3, <1>4 DEF TopFine, FrameFine
<1>6. Current(b, os)
  BY <1>1, <1>4, <1>5 DEF Current
<1>7. Base(b) \in Nat /\ Base(b) <= b.start /\ b.start \in Nat /\ b.start <= Len(os)
  BY <1>6, BlockFacts
<1>8. Level(f, Len(os)) = Base(bs[1])
  BY <1>2, <1>3 DEF Level
<1>9. bs[1] \in Block
  BY <1>2, <1>3, <1>4
<1>10. Base(bs[1]) \in Int
  BY <1>9, Bases
<1>11. f.start <= Base(b) /\ Base(b) <= Len(os)
  BY <1>1, <1>4, <1>5, <1>7, <1>8, <1>10
<1>12. BlockPlaced(f, m) /\ Roomy(fs, n, b)
  BY <1>1, <1>2, <1>4
<1>13. QED
  BY <1>1, <1>2, <1>4, <1>6, <1>7, <1>11, <1>12

\* Without its block at the top, a frame's blocks are where they may be.
LEMMA BelowPlaced ==
  ASSUME NEW fs, NEW ms, NEW os, NEW sc, NEW n, NEW f, Tops(fs, ms, os, sc, n, f),
         f.blocks # <<>>, NEW g \in Frame, g.type = f.type,
         Len(f.blocks) = 1 \/ g.left <= f.left, g.blocks = Below(f.blocks)
  PROVE  PlacedAt(fs, n, g)
<1>1. /\ f \in Frame /\ Typed(f)
      /\ (\A j \in 1 .. Len(f.blocks) : BlockPlaced(f, j) /\ Roomy(fs, n, f.blocks[j]))
  BY TopFacts
<1>2. PICK bs, m, cs : bs = f.blocks /\ m = Len(f.blocks) /\ cs = g.blocks
  OBVIOUS
<1>3. bs \in Seq(Block) /\ bs # <<>>
  BY <1>1, <1>2 DEF Typed
<1>4. m \in Nat /\ Len(cs) = m - 1 /\ \A j \in 1 .. m - 1 : cs[j] = bs[j]
  BY <1>2, <1>3, BlocksOf
<1>5. MaxBody \in Nat /\ f.left \in 0 .. MaxBody /\ g.left \in 0 .. MaxBody
  BY <1>1, Limits, FrameTypes DEF Tops
<1>6. ASSUME NEW j \in 1 .. Len(g.blocks)
      PROVE  BlockPlaced(g, j) /\ Roomy(fs, n, g.blocks[j])
  <2>1. j \in 1 .. m - 1 /\ j \in 1 .. Len(f.blocks)
    BY <1>2, <1>4
  <2>2. BlockPlaced(f, j) /\ Roomy(fs, n, f.blocks[j])
    BY <1>1, <2>1
  <2>3. g.blocks[j] = f.blocks[j]
    BY <1>2, <1>4, <2>1
  <2>4. m # 1
    BY <2>1
  <2>5. f.left \in Int /\ g.left \in Int /\ g.left <= f.left /\ MaxBody \in Int
    BY <1>2, <1>5, <2>4
  <2>6. BlockPlaced(g, j)
    BY <2>2, <2>3, <2>5, StillPlaced
  <2>7. QED
    BY <2>2, <2>3, <2>6
<1>7. QED
  BY <1>6 DEF PlacedAt

LEMMA BelowLevel ==
  ASSUME NEW f, Typed(f), f.blocks # <<>>, NEW g, g.blocks = Below(f.blocks), NEW h, NEW k,
         Len(f.blocks) = 1 => k = Base(Last(f.blocks))
  PROVE  Level(g, k) = Level(f, h)
<1>1. PICK bs, m, cs : bs = f.blocks /\ m = Len(f.blocks) /\ cs = g.blocks
  OBVIOUS
<1>2. bs \in Seq(Block) /\ bs # <<>>
  BY <1>1 DEF Typed
<1>3. m \in Nat /\ m >= 1 /\ Len(cs) = m - 1 /\ \A j \in 1 .. m - 1 : cs[j] = bs[j]
  BY <1>1, <1>2, BlocksOf
<1>4. Level(f, h) = Base(bs[1])
  BY <1>1, <1>2 DEF Level
<1>5. CASE m = 1
  <2>1. g.blocks = <<>>
    BY <1>1, <1>2, <1>3, <1>5, BlocksOf, EmptySeq
  <2>2. Level(g, k) = k
    BY <2>1 DEF Level
  <2>3. Last(f.blocks) = bs[1]
    BY <1>1, <1>5 DEF Last
  <2>4. QED
    BY <1>1, <1>4, <1>5, <2>2, <2>3
<1>6. CASE m # 1
  <2>1. 1 \in 1 .. m - 1 /\ Len(cs) # 0
    BY <1>3, <1>6
  <2>2. g.blocks # <<>> /\ g.blocks[1] = bs[1]
    BY <1>1, <1>3, <2>1
  <2>3. QED
    BY <1>4, <2>2 DEF Level
<1>7. QED
  BY <1>5, <1>6

\* The operation at the top is over.
LEMMA DoneMove ==
  ASSUME NEW fs, NEW ms, NEW os, NEW sc, NEW n, NEW f, Tops(fs, ms, os, sc, n, f),
         f.blocks # <<>>, NEW b, b = Last(f.blocks), NEW w \in Seq(Object), ListsFit(w),
         Same(os, w, Base(b)), Objs(w, Base(b) + 1, Len(w)),
         b.op = "TermArg" => Len(w) = Base(b) + 1,
         "literals" \notin AmlMay /\ Len(f.blocks) = 1 /\ f.type # "Package" => Len(w) = Base(b),
         NEW g \in Frame, Alike(f, g), g.needResult = f.needResult,
         Len(f.blocks) = 1 \/ g.left <= f.left,
         g.blocks = Below(f.blocks), NEW gs, gs = WithLast(fs, g)
  PROVE  Fit(gs, ms, w, sc) /\ Kept(fs, os, gs, w)
<1>1. /\ n \in Nat /\ n >= 1 /\ Len(fs) = n /\ f = fs[n] /\ fs \in Seq(Frame) /\ f \in Frame
      /\ Typed(f) /\ TopFine(f, os) /\ os \in Seq(Object) /\ f.start \in Nat
      /\ (\A j \in 1 .. Len(f.blocks) : BlockPlaced(f, j) /\ Roomy(fs, n, f.blocks[j]))
      /\ ("literals" \notin AmlMay => Extra(fs, n, Len(os)))
  BY TopFacts
<1>2. /\ b \in Block /\ Len(f.blocks) \in Nat /\ Len(f.blocks) >= 1
      /\ b = f.blocks[Len(f.blocks)] /\ f.start <= Base(b) /\ Base(b) <= Len(os)
      /\ Base(b) \in Nat
  BY TopBlock
<1>6. g.start = f.start /\ g.type = f.type
  BY DEF Alike
<1>7. Same(os, w, f.start)
  BY <1>1, <1>2 DEF Same
<1>8. Typed(g) /\ TopFine(g, w)
  <2>1. Len(w) \in Nat
    OBVIOUS
  <2>2. /\ Same(os, w, Base(Last(f.blocks))) /\ Objs(w, Base(Last(f.blocks)) + 1, Len(w))
        /\ Last(f.blocks).op = "TermArg" => Len(w) = Base(Last(f.blocks)) + 1
    OBVIOUS
  <2>3. QED
    BY <1>1, <1>6, <2>1, <2>2, PopBlock
<1>9. f.left \in Nat
  BY <1>1, Limits, FrameTypes DEF Tops
<1>12. ASSUME "literals" \notin AmlMay, f.type # "Package"
       PROVE  Level(g, Len(w)) = Level(f, Len(os))
  <2>1. PICK k, h : k = Len(w) /\ h = Len(os)
    OBVIOUS
  <2>2. Len(f.blocks) = 1 => k = Base(Last(f.blocks))
    BY <1>12, <2>1
  <2>3. Typed(f) /\ f.blocks # <<>> /\ g.blocks = Below(f.blocks)
    BY <1>1
  <2>4. Level(g, k) = Level(f, h)
    BY <2>2, <2>3, BelowLevel
  <2>5. QED
    BY <2>1, <2>4
<1>13. ASSUME "literals" \notin AmlMay
       PROVE  Extra(gs, n, Len(w))
  <2>1. gs[n] = g
    <3>1. PutsTop(fs, n, g, gs)
      BY <1>1 DEF PutsTop
    <3>2. QED
      BY <3>1, TopPut
  <2>2. Extra(fs, n, Len(os)) /\ f.left \in Nat
    BY <1>1, <1>9, <1>13
  <2>3. CASE f.type = "Package"
    BY <1>6, <2>1, <2>3 DEF Extra
  <2>4. CASE f.type # "Package"
    <3>1. Level(g, Len(w)) = Level(f, Len(os))
      BY <1>12, <1>13, <2>4
    <3>2. QED
      BY <1>1, <2>1, <2>2, <3>1, ExtraLevel
  <2>5. QED
    BY <2>3, <2>4
<1>14. PlacedAt(fs, n, g) /\ (f.left > 0 \/ f.blocks # <<>>)
  BY <1>6, BelowPlaced
<1>15. QED
  BY <1>7, <1>8, <1>13, <1>14, TopMove

\* The frame e that comes on the frame g at place n, and what comes with it
Coming(g, e, w, n, ms, ls, sc, sd) ==
  /\ e \in Frame /\ e.start = Len(w) /\ e.blocks = <<>> /\ Linked(g, e) /\ n < MaxFrames
  /\ ls \in Seq({"method", "load"}) /\ Called(ms, ls, e)
  /\ e.type = "Scope" => e.parent = sc /\ sd = n + 1
  /\ e.type # "Scope" => sd = sc

\* A frame e comes on the one at the top, which becomes g.
LEMMA PushMove ==
  ASSUME NEW fs, NEW ms, NEW os, NEW sc, NEW n, NEW f, Tops(fs, ms, os, sc, n, f),
         f.left > 0 \/ f.blocks # <<>>,
         NEW g \in Frame, Alike(f, g), g.needResult = f.needResult, NEW e,
         NEW gs, gs = Append(WithLast(fs, g), e),
         NEW w \in Seq(Object), ListsFit(w), Same(os, w, f.start), LowerFine(g, w, Len(w)),
         PlacedAt(fs, n, g),
         "literals" \notin AmlMay /\ f.type # "Package" => Level(g, Len(w)) = Level(f, Len(os)),
         NEW ls, NEW sd, Coming(g, e, w, n, ms, ls, sc, sd)
  PROVE  Fit(gs, ls, w, sd) /\ Kept(fs, os, gs, w)
<1>1. /\ program \in Programs /\ Fit(fs, ms, os, sc)
      /\ n \in Nat /\ n >= 1 /\ Len(fs) = n /\ f = fs[n]
  BY DEF Tops
<1>2. /\ fs \in Seq(Frame) /\ sc \in 0 .. MaxFrames
      /\ ("literals" \notin AmlMay => Extra(fs, n, Len(os)))
      /\ ("leaveScope" \notin AmlMay /\ (f.left > 0 \/ f.blocks # <<>> \/ f.type # "Scope") =>
               sc = ScopeNumber(fs, n))
  BY TopFacts
<1>3. MaxFrames \in Nat /\ f \in Frame /\ f.left \in Nat
  BY <1>1, <1>2, TopFacts, Limits, FrameTypes
<1>19. /\ e \in Frame /\ e.start = Len(w) /\ e.blocks = <<>> /\ Linked(g, e) /\ n < MaxFrames
       /\ ls \in Seq({"method", "load"}) /\ Called(ms, ls, e)
       /\ e.type = "Scope" => e.parent = sc /\ sd = n + 1
       /\ e.type # "Scope" => sd = sc
  BY DEF Coming
<1>4. PICK hs : hs = WithLast(fs, g)
  OBVIOUS
<1>5. hs \in Seq(Frame) /\ Len(hs) = n /\ hs[n] = g /\ \A i \in 1 .. n - 1 : hs[i] = fs[i]
  <2>1. PutsTop(fs, n, g, hs)
    BY <1>1, <1>2, <1>4 DEF PutsTop
  <2>2. QED
    BY <2>1, TopPut
<1>6. gs = Append(hs, e)
  BY <1>4
<1>7. /\ gs \in Seq(Frame) /\ Len(gs) = n + 1 /\ gs[n + 1] = e
      /\ \A i \in 1 .. n : gs[i] = hs[i]
  BY <1>1, <1>5, <1>6, <1>19
<1>8. gs[n] = g /\ \A i \in 1 .. n - 1 : gs[i] = fs[i]
  <2>1. n \in 1 .. n /\ \A i \in 1 .. n - 1 : i \in 1 .. n
    BY <1>1
  <2>2. gs[n] = hs[n] /\ \A i \in 1 .. n - 1 : gs[i] = hs[i]
    BY <1>7, <2>1
  <2>3. QED
    BY <1>5, <2>2
<1>9. Change(fs, gs, n)
  BY <1>1, <1>7, <1>8 DEF Change, Twin, Kin
<1>10. sd \in 0 .. MaxFrames
  BY <1>1, <1>2, <1>3, <1>19
<1>11. StacksTyped(gs, ls, w, sd)
  BY <1>7, <1>10, <1>19 DEF StacksTyped
<1>12. \A j \in 1 .. Len(gs[n].blocks) : BlockPlaced(gs[n], j) /\ Roomy(fs, n, gs[n].blocks[j])
  BY <1>8 DEF PlacedAt
<1>13. g.start = f.start /\ g.isMethod = f.isMethod /\ g.type = f.type
  BY DEF Alike
<1>14. ASSUME "literals" \notin AmlMay
       PROVE  /\ Extra(gs, n, Len(w))
              /\ (~ gs[n + 1].isMethod /\ gs[n + 1].type # "Package" /\ ~ gs[n].isMethod =>
                    Len(w) = gs[n].start)
  <2>1. Extra(fs, n, Len(os))
    BY <1>2, <1>14
  <2>2. Extra(gs, n, Len(w))
    <3>1. CASE f.type = "Package"
      BY <1>8, <1>13, <3>1 DEF Extra
    <3>2. CASE f.type # "Package"
      <4>1. Level(g, Len(w)) = Level(f, Len(os))
        BY <1>14, <3>2
      <4>2. QED
        BY <1>1, <1>3, <1>8, <2>1, <4>1, ExtraLevel
    <3>3. QED
      BY <3>1, <3>2
  <2>3. ASSUME ~ e.isMethod, e.type # "Package", ~ g.isMethod
        PROVE  Len(w) = g.start
    <3>1. g.blocks = <<>> /\ g.type # "Package"
      BY <1>19, <2>3 DEF Linked
    <3>2. Level(g, Len(w)) = Len(w)
      BY <3>1 DEF Level
    <3>3. Level(f, Len(os)) = f.start
      BY <1>1, <1>13, <2>1, <2>3, <3>1 DEF Extra
    <3>4. QED
      BY <1>13, <1>14, <3>1, <3>2, <3>3
  <2>4. QED
    BY <1>7, <1>8, <2>2, <2>3
<1>15. ASSUME "leaveScope" \notin AmlMay
       PROVE  /\ gs[n + 1].type = "Scope" => gs[n + 1].parent = ScopeNumber(fs, n) /\ sd = n + 1
              /\ gs[n + 1].type # "Scope" => sd = ScopeNumber(fs, n)
  BY <1>2, <1>7, <1>15, <1>19
<1>16. /\ Same(os, w, fs[n].start) /\ LowerFine(gs[n], w, Len(w))
       /\ gs[n + 1].start = Len(w) /\ gs[n + 1].blocks = <<>> /\ Linked(gs[n], gs[n + 1])
  BY <1>1, <1>7, <1>8, <1>19
<1>17. Called(ms, ls, gs[n + 1])
  BY <1>7, <1>19
<1>20. program \in Programs /\ Fit(fs, ms, os, sc) /\ n \in Nat /\ Len(fs) = n /\ f = fs[n]
  BY <1>1
<1>21. Len(gs) = n + 1 /\ n < MaxFrames
  BY <1>7, <1>19
<1>18. QED
  BY <1>9, <1>11, <1>12, <1>14, <1>15, <1>16, <1>17, <1>20, <1>21, FitPush

\* The operation at the top is over, and a frame e comes in its place.
LEMMA EnterMove ==
  ASSUME NEW fs, NEW ms, NEW os, NEW sc, NEW n, NEW f, Tops(fs, ms, os, sc, n, f),
         f.blocks # <<>>, NEW b, b = Last(f.blocks), b.op # "TermArg",
         NEW w \in Seq(Object), ListsFit(w), Same(os, w, Base(b)), Len(w) = Base(b),
         NEW g \in Frame, Alike(f, g), g.needResult = f.needResult,
         Len(f.blocks) = 1 \/ g.left <= f.left, g.blocks = Below(f.blocks),
         NEW e, NEW gs, gs = Append(WithLast(fs, g), e),
         NEW ls, NEW sd, Coming(g, e, w, n, ms, ls, sc, sd)
  PROVE  Fit(gs, ls, w, sd) /\ Kept(fs, os, gs, w)
<1>1. Typed(f) /\ TopFine(f, os)
  BY TopFacts
<1>2. /\ b \in Block /\ Len(f.blocks) \in Nat /\ Len(f.blocks) >= 1
      /\ b = f.blocks[Len(f.blocks)] /\ f.start <= Base(b) /\ Base(b) <= Len(os)
      /\ Base(b) \in Nat /\ f.start \in Nat
  BY TopBlock
<1>3. g.start = f.start /\ g.type = f.type
  BY DEF Alike
<1>4. Same(os, w, f.start)
  BY <1>2 DEF Same
<1>5. LowerFine(g, w, Len(w))
  <2>1. Same(os, w, Base(Last(f.blocks)))
    OBVIOUS
  <2>2. Resting(g, w, Base(Last(f.blocks)), Last(f.blocks).op)
    BY <1>1, <1>3, <2>1, DropLast
  <2>3. QED
    BY <2>2, RestsLower
<1>6. PlacedAt(fs, n, g)
  BY <1>3, BelowPlaced
<1>7. Level(g, Len(w)) = Level(f, Len(os))
  BY <1>1, BelowLevel
<1>8. f.left > 0 \/ f.blocks # <<>>
  OBVIOUS
<1>9. "literals" \notin AmlMay /\ f.type # "Package" => Level(g, Len(w)) = Level(f, Len(os))
  BY <1>7
<1>10. QED
  BY <1>4, <1>5, <1>6, <1>8, <1>9, PushMove

\* A statement begins, or an element of a package.
LEMMA StatementMove ==
  ASSUME NEW fs, NEW ms, NEW os, NEW sc, NEW n, NEW f, Tops(fs, ms, os, sc, n, f),
         f.blocks = <<>>, f.left > 0, NEW c \in Block, c.ip = 1, ~ c.processed, c.start = Len(os),
         NEW w \in Seq(Object), ListsFit(w),
         \/ c.op # "Call" /\ w = os
         \/ c.op = "Call" /\ \E x : Grown(os, w, x) /\ x.kind = "args",
         NEW g \in Frame, Alike(f, g), g.needResult = f.needResult, g.blocks = <<c>>,
         BlockPlaced(g, 1), Roomy(fs, n, c), NEW gs, gs = WithLast(fs, g)
  PROVE  Fit(gs, ms, w, sc) /\ Kept(fs, os, gs, w)
<1>1. /\ n \in Nat /\ n >= 1 /\ Len(fs) = n /\ f = fs[n] /\ fs \in Seq(Frame) /\ f \in Frame
      /\ Typed(f) /\ TopFine(f, os) /\ os \in Seq(Object) /\ f.start \in Nat /\ Len(os) \in Nat
      /\ f.start <= Len(os)
      /\ ("literals" \notin AmlMay => Extra(fs, n, Len(os)))
  BY TopFacts
<1>2. Len(w) \in Nat
  OBVIOUS
<1>3. /\ Same(os, w, Len(os))
      /\ \/ c.op # "Call" /\ c.start = Len(w)
         \/ c.op = "Call" /\ Len(w) = c.start + 1 /\ w[Len(w)].kind = "args"
  <2>1. CASE c.op # "Call" /\ w = os
    BY <1>1, <2>1, SameRefl
  <2>2. CASE c.op = "Call" /\ \E x : Grown(os, w, x) /\ x.kind = "args"
    <3>1. PICK x : Grown(os, w, x) /\ x.kind = "args"
      BY <2>2
    <3>2. QED
      BY <2>2, <3>1 DEF Grown
  <2>3. QED
    BY <2>1, <2>2
<1>4. Base(c) = c.start /\ Collected(c, w) /\ Height(c, w, Len(w))
  BY <1>2, <1>3, Fresh
<1>5. g.start = f.start /\ g.blocks = Append(f.blocks, c)
  BY DEF Alike
<1>6. Typed(g) /\ TopFine(g, w)
  <2>1. Len(os) \in Int /\ Base(c) = Len(os)
    BY <1>1, <1>4
  <2>2. QED
    BY <1>1, <1>2, <1>3, <1>4, <1>5, <2>1, FirstBlock
<1>7. Same(os, w, f.start)
  BY <1>1, <1>3 DEF Same
<1>8. PlacedAt(fs, n, g)
  <2>1. \A j \in 1 .. Len(g.blocks) : j = 1
    OBVIOUS
  <2>2. g.blocks[1] = c
    OBVIOUS
  <2>3. QED
    BY <2>1, <2>2 DEF PlacedAt
<1>9. ASSUME "literals" \notin AmlMay
      PROVE  Extra(gs, n, Len(w))
  <2>1. gs[n] = g
    <3>1. PutsTop(fs, n, g, gs)
      BY <1>1 DEF PutsTop
    <3>2. QED
      BY <3>1, TopPut
  <2>2. Extra(fs, n, Len(os)) /\ f.left \in Nat
    BY <1>1, <1>9, Limits, FrameTypes DEF Tops
  <2>3. g.blocks # <<>> /\ g.blocks[1] = c
    OBVIOUS
  <2>4. Level(g, Len(w)) = Level(f, Len(os))
    BY <1>4, <2>3 DEF Level
  <2>5. QED
    BY <1>1, <2>1, <2>2, <2>4, ExtraLevel
<1>10. QED
  BY <1>6, <1>7, <1>8, <1>9, TopMove

\* An element of a package that is a name
LEMMA ElementMove ==
  ASSUME NEW fs, NEW ms, NEW os, NEW sc, NEW n, NEW f, Tops(fs, ms, os, sc, n, f),
         f.blocks = <<>>, f.left > 0, f.type = "Package",
         NEW w \in Seq(Object), ListsFit(w), NEW x, Grown(os, w, x), x.kind = "obj",
         NEW g \in Frame, Alike(f, g), g.blocks = <<>>, NEW gs, gs = WithLast(fs, g)
  PROVE  Fit(gs, ms, w, sc) /\ Kept(fs, os, gs, w)
<1>1. /\ n \in Nat /\ n >= 1 /\ Len(fs) = n /\ f = fs[n] /\ fs \in Seq(Frame)
      /\ Typed(f) /\ TopFine(f, os) /\ os \in Seq(Object) /\ f.start \in Nat /\ Len(os) \in Nat
      /\ f.start <= Len(os)
  BY TopFacts
<1>2. Len(w) = Len(os) + 1 /\ w[Len(w)] = x /\ Same(os, w, Len(os)) /\ Len(w) \in Nat
  BY DEF Grown
<1>3. g.start = f.start /\ g.type = f.type
  BY DEF Alike
<1>4. Same(os, w, f.start)
  BY <1>1, <1>2 DEF Same
<1>5. Level(f, Len(os)) = Len(os) /\ Level(g, Len(w)) = Len(w)
  BY DEF Level
<1>6. Objs(os, f.start + 1, Len(os))
  BY <1>1, <1>5 DEF TopFine, FrameFine
<1>7. Objs(w, g.start + 1, Len(w))
  <2>1. ASSUME NEW i \in f.start + 1 .. Len(w)
        PROVE  w[i].kind = "obj"
    <3>1. CASE i = Len(w)
      BY <1>2, <3>1
    <3>2. CASE i # Len(w)
      <4>1. i \in f.start + 1 .. Len(os) /\ i \in 1 .. Len(os)
        BY <1>1, <1>2, <3>2
      <4>2. w[i] = os[i] /\ os[i].kind = "obj"
        BY <1>2, <1>6, <4>1 DEF Same, Objs
      <4>3. QED
        BY <4>2
    <3>3. QED
      BY <3>1, <3>2
  <2>2. QED
    BY <1>3, <2>1 DEF Objs
<1>8. TopFine(g, w)
  <2>1. g.start <= Level(g, Len(w)) /\ Len(w) <= Len(w) /\ Len(g.blocks) = 0
    BY <1>1, <1>2, <1>3, <1>5
  <2>2. FrameFine(g, w, Len(w))
    BY <1>5, <1>7, <2>1 DEF FrameFine
  <2>3. QED
    BY <2>2 DEF TopFine
<1>9. PlacedAt(fs, n, g)
  BY DEF PlacedAt
<1>10. Extra(gs, n, Len(w))
  <2>1. gs[n] = g
    <3>1. PutsTop(fs, n, g, gs)
      BY <1>1 DEF PutsTop
    <3>2. QED
      BY <3>1, TopPut
  <2>2. QED
    BY <1>3, <2>1 DEF Extra
<1>11. f.left > 0 \/ f.blocks # <<>>
  OBVIOUS
<1>12. QED
  BY <1>4, <1>8, <1>9, <1>10, <1>11, TopMove

-----------------------------------------------------------------------------
(* What the actions do to the stacks                                       *)

\* A step leaves stacks that fit, and the frames below with what they had.
Moves ==
  /\ Fit(frames', methodFrames', objects', scope')
  /\ Kept(frames, objects, frames', objects')

\* That the stacks fit does not depend on anything but the program.
LEMMA Settles ==
  ASSUME IInv, Moves, UNCHANGED program,
         status' \in {"running", "success", "failed", "internal"},
         "literals" \notin AmlMay => status' # "internal"
  PROVE  IInv'
<1>1. program' = program /\ Fit(frames', methodFrames', objects', scope') /\ program \in Programs
  BY DEF Moves, IInv
<1>2. /\ MaxFrames' = MaxFrames /\ MaxBody' = MaxBody /\ AmlMay' = AmlMay
      /\ StatementOps' = StatementOps
  BY <1>1 DEF MaxFrames, MaxBody, AmlMay, StatementOps
<1>3. Frame' = Frame
  BY <1>2 DEF Frame
<1>4. StacksTyped(frames, methodFrames, objects, scope)'
  BY <1>1, <1>2, <1>3 DEF Fit, StacksTyped
<1>5. BlocksPlaced(frames)'
  <2>1. BlocksPlaced(frames')
    BY <1>1 DEF Fit
  <2>2. QED
    BY <1>2, <2>1 DEF BlocksPlaced, BlockPlaced, Roomy
<1>6. FramesLinked(frames)'
  <2>1. FramesLinked(frames')
    BY <1>1 DEF Fit
  <2>2. QED
    BY <1>2, <2>1 DEF FramesLinked, Linked
<1>7. LimitKept(methodFrames)'
  BY <1>1, <1>2 DEF Fit, LimitKept
<1>8. QED
  BY <1>1, <1>2, <1>4, <1>5, <1>6, <1>7 DEF IInv, Fit

LEMMA AtTop ==
  ASSUME IInv, frames # <<>>, NEW n, n = Len(frames), NEW f, f = Top
  PROVE  Tops(frames, methodFrames, objects, scope, n, f)
<1>1. program \in Programs /\ Fit(frames, methodFrames, objects, scope)
  BY DEF IInv
<1>2. frames \in Seq(Frame)
  BY <1>1 DEF Fit, StacksTyped
<1>3. n \in Nat /\ n >= 1 /\ Len(frames) = n /\ f = frames[n]
  BY <1>2 DEF Top, Last
<1>4. QED
  BY <1>1, <1>3 DEF Tops

WithBlocks(f, bs) == [f EXCEPT !.blocks = bs]

LEMMA LastPut ==
  ASSUME NEW B, NEW s \in Seq(B), s # <<>>, NEW c \in B
  PROVE  WithLast(s, c) \in Seq(B)
<1>1. Below(s) \in Seq(B)
  BY BlocksOf
<1>2. Append(Below(s), c) \in Seq(B)
  BY <1>1
<1>3. QED
  BY <1>2, Replaced

LEMMA BlocksPut ==
  ASSUME NEW f \in Frame, NEW bs \in Seq(Block), NEW g, g = WithBlocks(f, bs)
  PROVE  /\ g \in Frame /\ Alike(f, g) /\ g.needResult = f.needResult /\ g.left = f.left
         /\ g.blocks = bs
BY DEF WithBlocks, Frame, Alike

\* The place of the block at the top is looked at.
LEMMA Marked ==
  ASSUME NEW f \in Frame, f.blocks # <<>>, NEW b, b = Last(f.blocks),
         NEW c, c = [b EXCEPT !.processed = TRUE]
  PROVE  /\ c \in Block /\ c.op = b.op /\ c.ip = b.ip /\ c.start = b.start /\ c.wanted = b.wanted
         /\ c.processed /\ WithLast(f.blocks, c) \in Seq(Block)
<1>1. f.blocks \in Seq(Block)
  BY FrameTypes
<1>2. b \in Block
  BY <1>1, BlocksOf
<1>3. /\ c \in Block /\ c.op = b.op /\ c.ip = b.ip /\ c.start = b.start /\ c.wanted = b.wanted
      /\ c.processed
  BY <1>2 DEF Block
<1>4. WithLast(f.blocks, c) \in Seq(Block)
  BY <1>1, <1>3 DEF WithLast
<1>5. QED
  BY <1>3, <1>4

LEMMA MarkIs ==
  ASSUME NEW f, f = Top, NEW b, b = Last(f.blocks),
         NEW c, c = [b EXCEPT !.processed = TRUE]
  PROVE  Mark(TRUE) = WithBlocks(f, WithLast(f.blocks, c))
BY DEF Mark, WithBlocks, WithLast, Last

\* One object of any kind comes.
LEMMA ObjectComes ==
  ASSUME NEW os \in Seq(Object), ListsFit(os), NEW x \in Object,
         x.kind = "fields" => x.count = 0, NEW w, w = Append(os, x)
  PROVE  w \in Seq(Object) /\ ListsFit(w) /\ Grown(os, w, x)
<1>1. /\ w \in Seq(Object) /\ Len(w) = Len(os) + 1 /\ w[Len(w)] = x /\ Len(os) \in Nat
      /\ \A i \in 1 .. Len(os) : w[i] = os[i]
  OBVIOUS
<1>2. Grown(os, w, x)
  BY <1>1 DEF Grown, Same
<1>3. ASSUME NEW i \in 1 .. Len(w), w[i].kind = "fields", w[i].count > 0
      PROVE  MaxArgs > 0 /\ w[i].count <= 2
  <2>1. CASE i = Len(w)
    BY <1>1, <1>3, <2>1
  <2>2. CASE i # Len(w)
    <3>1. i \in 1 .. Len(os) /\ w[i] = os[i]
      BY <1>1, <2>2
    <3>2. QED
      BY <1>3, <3>1 DEF ListsFit
  <2>3. QED
    BY <2>1, <2>2
<1>4. QED
  BY <1>1, <1>2, <1>3 DEF ListsFit

LEMMA Things ==
  ASSUME NEW k \in ObjectKinds
  PROVE  Thing(k) \in Object /\ Thing(k).kind = k /\ Thing(k).count = 0
BY LimitsAssumption DEF Thing, Object

\* The operation h that begins in the frame f, with the objects os
NewBlockAt(h, wanted, n) == [NewBlock(h, wanted) EXCEPT !.start = n]
LEMMA BlockBegins ==
  ASSUME NEW h \in Handlers, NEW wanted \in BOOLEAN, NEW n \in Nat,
         NEW d, d = NewBlockAt(h, wanted, n)
  PROVE  d \in Block /\ d.op = h /\ d.ip = 1 /\ ~ d.processed /\ d.start = n /\ d.wanted = wanted
<1>1. d = [op |-> h, start |-> n, ip |-> 1, processed |-> FALSE, wanted |-> wanted]
  BY DEF NewBlockAt, NewBlock
<1>2. QED
  BY <1>1 DEF Block

\* Where the operands that are not collected one by one are
LEMMA OperandPlaces ==
  ASSUME NEW h \in Handlers, NEW k \in 1 .. Len(Script(h)), NEW o, o = Script(h)[k]
  PROVE  /\ k <= Adv(h) <=> Advances(o)
         /\ o = "StartFieldList" => h \in FieldOps /\ k = Adv(h) + 1
         /\ o = "FieldList" => h \in FieldOps /\ k = Adv(h) + 2
         /\ o \in {"PkgElements", "VarPkgElements"} => h \in Packages /\ k = 3
         /\ o = "MethodArgs" => h = "Call" /\ k = 1
<1>1. Adv(h) \in Nat /\ Len(Script(h)) \in Nat /\ k \in Nat /\ k <= Len(Script(h))
  BY ScriptsFit DEF Fits, ScriptFits
<1>2. k <= Adv(h) => Advances(o)
  BY <1>1, AdvancesThere
<1>3. k > Adv(h) =>
        \/ h \in FieldOps /\ k = Adv(h) + 1 /\ o = "StartFieldList"
        \/ h \in FieldOps /\ k = Adv(h) + 2 /\ o = "FieldList"
        \/ h \in Packages /\ k = 3 /\ o \in {"PkgElements", "VarPkgElements"}
        \/ h = "Call" /\ k = 1 /\ o = "MethodArgs"
  <2>1. CASE h \in FieldOps
    BY <1>1, <2>1, FieldScript
  <2>2. CASE h \in Packages
    BY <1>1, <2>2, PackageScript
  <2>3. CASE h = "Call"
    BY <1>1, <2>3, CallScript
  <2>4. CASE h \notin FieldOps /\ h \notin Packages /\ h # "Call"
    BY <1>1, <2>4, OtherScript
  <2>5. QED
    BY <2>1, <2>2, <2>3, <2>4
<1>4. CASE k <= Adv(h)
  BY <1>2, <1>4 DEF Advances
<1>5. CASE k > Adv(h)
  BY <1>1, <1>3, <1>5 DEF Advances
<1>6. QED
  BY <1>1, <1>4, <1>5

\* The operation that parse works on
Works(n, f, b) ==
  /\ Tops(frames, methodFrames, objects, scope, n, f) /\ n = Len(frames) /\ f = Top
  /\ f.blocks # <<>> /\ b = Last(f.blocks) /\ b = Op
LEMMA AtBlock ==
  ASSUME IInv, frames # <<>>, Top.blocks # <<>>, NEW n, n = Len(frames), NEW f, f = Top,
         NEW b, b = Op
  PROVE  /\ Works(n, f, b) /\ Tops(frames, methodFrames, objects, scope, n, f)
         /\ f.blocks # <<>> /\ b = Last(f.blocks) /\ f \in Frame /\ b \in Block
         /\ Current(b, objects) /\ objects \in Seq(Object) /\ ListsFit(objects)
         /\ frames \in Seq(Frame) /\ n \in Nat /\ n >= 1 /\ Len(frames) = n
<1>1. Tops(frames, methodFrames, objects, scope, n, f)
  BY AtTop
<1>2. b = Last(f.blocks)
  BY DEF Op
<1>3. /\ f \in Frame /\ objects \in Seq(Object) /\ ListsFit(objects)
      /\ frames \in Seq(Frame) /\ n \in Nat /\ n >= 1 /\ Len(frames) = n
  BY <1>1, TopFacts
<1>4. b \in Block /\ Current(b, objects)
  BY <1>1, <1>2, TopBlock
<1>5. Works(n, f, b)
  BY <1>1, <1>2 DEF Works
<1>6. QED
  BY <1>1, <1>2, <1>3, <1>4, <1>5

LEMMA PlainMoves ==
  ASSUME IInv, PlainOperand
  PROVE  Moves
<1>1. PICK n, f, b : n = Len(frames) /\ f = Top /\ b = Op
  OBVIOUS
<1>2. /\ frames # <<>> /\ Top.blocks # <<>> /\ ~ b.processed /\ b.ip <= Len(Script(b.op))
      /\ frames' = WithLast(frames, Mark(TRUE)) /\ methodFrames' = methodFrames
      /\ scope' = scope
  BY <1>1 DEF PlainOperand, AtOperand, Running, SetTop, WithLast
<1>3. /\ Tops(frames, methodFrames, objects, scope, n, f)
      /\ f.blocks # <<>> /\ b = Last(f.blocks) /\ f \in Frame /\ b \in Block
      /\ Current(b, objects) /\ objects \in Seq(Object) /\ ListsFit(objects)
  BY <1>1, <1>2, AtBlock
<1>4. PICK o : o = Script(b.op)[b.ip]
  OBVIOUS
<1>5. PICK x : /\ objects' = Append(objects, x)
               /\ \/ o \in {"PkgLength", "Byte", "Word", "DWord"} /\ x = Thing("len")
                  \/ o = "NameString" /\ x = Thing("str")
                  \/ o = "StartFieldList" /\ \E k \in 0 .. MaxArgs : x = [Thing("fields") EXCEPT !.left = k]
  BY <1>1, <1>4 DEF PlainOperand
<1>6. /\ x \in Object /\ (x.kind = "fields" => x.count = 0)
      /\ o = "StartFieldList" => x.kind = "fields"
      /\ o # "StartFieldList" => x.kind = KindOf(o)
  <2>1. CASE o \in {"PkgLength", "Byte", "Word", "DWord"}
    <3>1. "len" \in ObjectKinds
      BY DEF ObjectKinds
    <3>2. x = Thing("len") /\ KindOf(o) = "len"
      BY <1>5, <2>1 DEF KindOf
    <3>3. QED
      BY <2>1, <3>1, <3>2, Things
  <2>2. CASE o = "NameString"
    <3>1. "str" \in ObjectKinds
      BY DEF ObjectKinds
    <3>2. x = Thing("str") /\ KindOf(o) = "str"
      BY <1>5, <2>2 DEF KindOf
    <3>3. QED
      BY <2>2, <3>1, <3>2, Things
  <2>3. CASE o = "StartFieldList"
    <3>1. PICK k \in 0 .. MaxArgs : x = [Thing("fields") EXCEPT !.left = k]
      BY <1>5, <2>3
    <3>2. x = [kind |-> "fields", count |-> 0, left |-> k]
      BY <3>1 DEF Thing
    <3>3. x \in Object /\ x.kind = "fields" /\ x.count = 0
      BY <3>2, LimitsAssumption DEF Object, ObjectKinds
    <3>4. QED
      BY <2>3, <3>3
  <2>4. QED
    BY <1>5, <2>1, <2>2, <2>3
<1>7. PICK w : w = objects'
  OBVIOUS
<1>8. w \in Seq(Object) /\ ListsFit(w) /\ Grown(objects, w, x)
  BY <1>3, <1>5, <1>6, <1>7, ObjectComes
<1>9. PICK c : c = [b EXCEPT !.processed = TRUE]
  OBVIOUS
<1>10. /\ c \in Block /\ c.op = b.op /\ c.ip = b.ip /\ c.start = b.start /\ c.wanted = b.wanted
       /\ c.processed /\ WithLast(f.blocks, c) \in Seq(Block)
  BY <1>3, <1>9, Marked
<1>11. PICK g : g = Mark(TRUE)
  OBVIOUS
<1>12. g = WithBlocks(f, WithLast(f.blocks, c))
  BY <1>1, <1>3, <1>9, <1>11, MarkIs
<1>13. /\ g \in Frame /\ Alike(f, g) /\ g.needResult = f.needResult /\ g.left = f.left
       /\ g.blocks = WithLast(f.blocks, c)
  BY <1>3, <1>10, <1>12, BlocksPut
<1>14. Follows(b, objects, c, w)
  <2>1. /\ b.op \in Handlers /\ b.ip \in 1 .. Len(Script(b.op)) + 1 /\ Len(Script(b.op)) \in Nat
        /\ Adv(b.op) \in Nat
    BY <1>3, BlockFacts
  <2>2. b.ip \in 1 .. Len(Script(b.op))
    BY <1>2, <2>1
  <2>3. CASE o = "StartFieldList"
    <3>1. b.op \in FieldOps /\ b.ip = Adv(b.op) + 1
      BY <1>4, <2>1, <2>2, <2>3, OperandPlaces
    <3>2. x.kind = "fields" /\ x.count = 0
      BY <1>6, <2>3
    <3>3. QED
      BY <1>2, <1>3, <1>8, <1>10, <3>1, <3>2, ListFollows
  <2>4. CASE o # "StartFieldList"
    <3>1. b.ip <= Adv(b.op)
      <4>1. o \in {"PkgLength", "Byte", "Word", "DWord", "NameString"}
        BY <1>5, <2>4
      <4>2. Advances(o)
        BY <4>1 DEF Advances
      <4>3. QED
        BY <1>4, <2>1, <2>2, <4>2, OperandPlaces
    <3>2. x.kind = KindOf(Script(b.op)[b.ip])
      BY <1>4, <1>6, <2>4
    <3>3. QED
      BY <1>2, <1>3, <1>8, <1>10, <3>1, <3>2, PlainFollows
  <2>5. QED
    BY <2>3, <2>4
<1>15. PICK gs : gs = frames'
  OBVIOUS
<1>16. gs = WithLast(frames, g)
  BY <1>2, <1>11, <1>15
<1>17. Fit(gs, methodFrames, w, scope) /\ Kept(frames, objects, gs, w)
  BY <1>3, <1>8, <1>10, <1>13, <1>14, <1>16, BlockMove
<1>18. QED
  BY <1>2, <1>7, <1>15, <1>17 DEF Moves

\* There is room for what may be fetched.
LEMMA FetchRoom ==
  ASSUME NEW n, NEW f, Tops(frames, methodFrames, objects, scope, n, f), n = Len(frames),
         NEW h, MayFetch(h), NEW d, d.op = h
  PROVE  Roomy(frames, n, d)
<1>1. n \in Nat /\ n >= 1 /\ Len(methodFrames) = Cardinality(MethodsIn(frames, 1, n))
  BY TopFacts
<1>2. d.op \in Framing => n < MaxFrames
  BY DEF MayFetch, Framing
<1>3. d.op \in {"Load", "LoadTable"} =>
        Cardinality(MethodsIn(frames, 1, n)) < MaxDepth \/ "loadAtLimit" \in AmlMay
  BY <1>1 DEF MayFetch
<1>4. d.op \in {"Break", "Continue"} => InLoopAt(frames, n)
  BY DEF MayFetch, InLoop, InLoopAt
<1>5. QED
  BY <1>2, <1>3, <1>4 DEF Roomy

\* The operation d begins on the objects v, which become w, in the frame g.
Begins(d, v, w) ==
  \/ d.op # "Call" /\ w = v
  \/ d.op = "Call" /\ \E x : Grown(v, w, x) /\ x.kind = "args"
Begun(h, g, wanted, v, gs, w, d) ==
  /\ h \in Handlers /\ d \in Block /\ d.op = h /\ d.ip = 1 /\ ~ d.processed
  /\ d.start = Len(v) /\ (d.wanted <=> wanted)
  /\ gs = WithLast(frames, WithBlocks(g, Append(g.blocks, d)))
  /\ Begins(d, v, w)
\* The name of an object is read in the frame g.
Named(h, g, wanted, v, gs, w) ==
  /\ h \in {"Object", "Call"} /\ gs = WithLast(frames, g)
  /\ wanted => \E x : x.kind = "obj" /\ Grown(v, w, x)
  /\ ~ wanted => w = v

LEMMA Fetched ==
  ASSUME NEW h, NEW g, NEW t \in BOOLEAN, NEW super, NEW v \in Seq(Object), ListsFit(v),
         Fetch(h, g, t, super, v), NEW gs, gs = frames', NEW w, w = objects'
  PROVE  /\ w \in Seq(Object) /\ ListsFit(w)
         /\ \/ \E d : Begun(h, g, t, v, gs, w, d)
            \/ Named(h, g, t, v, gs, w) /\ (h = "Call" => super)
<1>1. PICK d : d = NewBlockAt(h, t, Len(v))
  OBVIOUS
<1>2. Len(v) \in Nat
  OBVIOUS
<1>3. h \in Handlers =>
        d \in Block /\ d.op = h /\ d.ip = 1 /\ ~ d.processed /\ d.start = Len(v) /\ (d.wanted <=> t)
  BY <1>1, <1>2, BlockBegins
<1>4. CASE /\ h \in Handlers \ {"Call"}
           /\ SetTop([g EXCEPT !.blocks =
                        Append(@, [NewBlock(h, t) EXCEPT !.start = Len(v)])])
           /\ objects' = v
  <2>1. gs = WithLast(frames, WithBlocks(g, Append(g.blocks, d)))
    BY <1>1, <1>4 DEF SetTop, WithLast, WithBlocks, NewBlockAt
  <2>2. w = v /\ h # "Call" /\ h \in Handlers
    BY <1>4
  <2>3. Begins(d, v, w)
    BY <1>3, <2>2 DEF Begins
  <2>4. Begun(h, g, t, v, gs, w, d)
    BY <1>3, <2>1, <2>2, <2>3 DEF Begun
  <2>5. QED
    BY <2>2, <2>4
<1>5. CASE /\ h = "Object" \/ (h = "Call" /\ super)
           /\ SetTop(g)
           /\ objects' = v \o If1(t, <<Obj>>)
  <2>1. gs = WithLast(frames, g) /\ h \in {"Object", "Call"} /\ (h = "Call" => super)
    BY <1>5 DEF SetTop, WithLast
  <2>2. "obj" \in ObjectKinds
    BY DEF ObjectKinds
  <2>3. Obj \in Object /\ Obj.kind = "obj"
    BY <2>2, Things DEF Obj
  <2>4. CASE t
    <3>1. PICK x : x = Obj
      OBVIOUS
    <3>2. w = v \o <<x>>
      BY <1>5, <2>4, <3>1 DEF If1
    <3>3. x \in Object /\ x.kind = "obj"
      BY <2>3, <3>1
    <3>4. w = Append(v, x)
      BY <3>2, <3>3
    <3>5. x.kind = "fields" => x.count = 0
      BY <3>3
    <3>6. w \in Seq(Object) /\ ListsFit(w) /\ Grown(v, w, x)
      BY <3>3, <3>4, <3>5, ObjectComes
    <3>7. Named(h, g, t, v, gs, w)
      BY <2>1, <2>4, <3>3, <3>6 DEF Named
    <3>8. QED
      BY <2>1, <3>6, <3>7
  <2>5. CASE ~ t
    <3>1. w = v \o <<>>
      BY <1>5, <2>5 DEF If1
    <3>2. w = v
      BY <2>3, <3>1, ConcatOne
    <3>3. Named(h, g, t, v, gs, w)
      BY <2>1, <2>5, <3>2 DEF Named
    <3>4. QED
      BY <2>1, <3>2, <3>3
  <2>6. QED
    BY <2>4, <2>5
<1>6. CASE /\ h = "Call" /\ ~ super
           /\ SetTop([g EXCEPT !.blocks =
                        Append(@, [NewBlock(h, t) EXCEPT !.start = Len(v)])])
           /\ \E n \in 0 .. MaxArgs :
                objects' = Append(v, [kind |-> "args", count |-> n, left |-> n])
  <2>1. gs = WithLast(frames, WithBlocks(g, Append(g.blocks, d)))
    BY <1>1, <1>6 DEF SetTop, WithLast, WithBlocks, NewBlockAt
  <2>2. PICK n \in 0 .. MaxArgs : w = Append(v, [kind |-> "args", count |-> n, left |-> n])
    BY <1>6
  <2>3. PICK x : x = [kind |-> "args", count |-> n, left |-> n]
    OBVIOUS
  <2>4. x \in Object /\ x.kind = "args" /\ (x.kind = "fields" => x.count = 0)
    BY <2>3, LimitsAssumption DEF Object, ObjectKinds
  <2>5. w = Append(v, x)
    BY <2>2, <2>3
  <2>6. w \in Seq(Object) /\ ListsFit(w) /\ Grown(v, w, x)
    BY <2>4, <2>5, ObjectComes
  <2>7. h = "Call" /\ h \in Handlers
    BY <1>6, CallScript
  <2>8. Begins(d, v, w)
    BY <1>3, <2>4, <2>6, <2>7 DEF Begins
  <2>9. Begun(h, g, t, v, gs, w, d)
    BY <1>3, <2>1, <2>7, <2>8 DEF Begun
  <2>10. QED
    BY <2>6, <2>9
<1>7. QED
  BY <1>4, <1>5, <1>6 DEF Fetch

\* "Object" is a name, no opcode.
LEMMA ObjectIsName ==
  "Object" \notin Handlers
BY DEF Handlers, Expressions, NamedObjects, Statements, Internal, Constants, Arithmetic,
       Comparisons, Conversions, CreateFields, Scopes

LEMMA StatementFetched ==
  ASSUME IInv, FetchStatement
  PROVE  Moves
<1>1. PICK n, f : n = Len(frames) /\ f = Top
  OBVIOUS
<1>2. PICK t \in BOOLEAN : t <=> f.type = "Package"
  OBVIOUS
<1>3. PICK v : v = [f EXCEPT !.left = @ - 1, !.again = FALSE]
  OBVIOUS
<1>4. PICK h : /\ h \in (IF f.type = "Package" THEN ArgumentOps ELSE StatementOps)
               /\ MayFetch(h) /\ Fetch(h, v, f.type = "Package", f.type = "Package", objects)
  BY <1>1, <1>3 DEF FetchStatement
<1>5. /\ frames # <<>> /\ f.blocks = <<>> /\ f.left > 0
      /\ methodFrames' = methodFrames /\ scope' = scope
  BY <1>1 DEF FetchStatement, AtStatement, Running
<1>6. Tops(frames, methodFrames, objects, scope, n, f)
  BY <1>1, <1>5, AtTop
<1>7. /\ f \in Frame /\ objects \in Seq(Object) /\ ListsFit(objects) /\ Len(objects) \in Nat
      /\ program \in Programs
  BY <1>6, TopFacts DEF Tops
<1>8. MaxBody \in Nat /\ f.left \in 0 .. MaxBody
  BY <1>7, Limits, FrameTypes
<1>9. /\ v \in Frame /\ Alike(f, v) /\ v.needResult = f.needResult /\ v.left = f.left - 1
      /\ v.blocks = <<>> /\ v.type = f.type
  <2>1. PICK k : k = f.left - 1
    OBVIOUS
  <2>2. k \in 0 .. MaxBody
    BY <1>5, <1>8, <2>1
  <2>3. v = [[f EXCEPT !.left = k] EXCEPT !.again = FALSE]
    BY <1>3, <1>7, <2>1 DEF Frame
  <2>4. PICK u : u = [f EXCEPT !.left = k]
    OBVIOUS
  <2>5. u \in Frame /\ Alike(f, u) /\ u.needResult = f.needResult /\ u.left = k /\ u.blocks = f.blocks
    BY <1>7, <2>2, <2>4 DEF Frame, Alike
  <2>6. v = [u EXCEPT !.again = FALSE]
    BY <2>3, <2>4
  <2>7. v \in Frame /\ Alike(u, v) /\ v.needResult = u.needResult /\ v.left = k /\ v.blocks = u.blocks
    BY <2>5, <2>6 DEF Frame, Alike
  <2>8. QED
    BY <1>5, <2>1, <2>5, <2>7 DEF Alike
<1>10. Fetch(h, v, t, t, objects)
  BY <1>2, <1>4, Zenon
<1>11. PICK gs, w : gs = frames' /\ w = objects'
  OBVIOUS
<1>12. /\ w \in Seq(Object) /\ ListsFit(w)
       /\ \/ \E d : Begun(h, v, t, objects, gs, w, d)
          \/ Named(h, v, t, objects, gs, w) /\ (h = "Call" => t)
  BY <1>2, <1>7, <1>10, <1>11, Fetched
<1>13. CASE \E d : Begun(h, v, t, objects, gs, w, d)
  <2>1. PICK d : Begun(h, v, t, objects, gs, w, d)
    BY <1>13
  <2>2. /\ h \in Handlers /\ d \in Block /\ d.op = h /\ d.ip = 1 /\ ~ d.processed
        /\ d.start = Len(objects) /\ (d.wanted <=> t) /\ Begins(d, objects, w)
    BY <2>1 DEF Begun
  <2>3. PICK g : g = WithBlocks(v, <<d>>)
    OBVIOUS
  <2>4. /\ g \in Frame /\ Alike(v, g) /\ g.needResult = v.needResult /\ g.left = v.left
        /\ g.blocks = <<d>>
    <3>1. PICK bs : bs = <<d>>
      OBVIOUS
    <3>2. bs \in Seq(Block) /\ g = WithBlocks(v, bs) /\ v \in Frame
      BY <1>9, <2>2, <2>3, <3>1
    <3>3. /\ g \in Frame /\ Alike(v, g) /\ g.needResult = v.needResult /\ g.left = v.left
          /\ g.blocks = bs
      BY <3>2, BlocksPut
    <3>4. QED
      BY <3>1, <3>3
  <2>5. Alike(f, g) /\ g.needResult = f.needResult /\ g.type = f.type
    BY <1>9, <2>4 DEF Alike
  <2>6. gs = WithLast(frames, g)
    <3>1. Append(v.blocks, d) = <<d>>
      BY <1>9
    <3>2. QED
      BY <2>1, <2>3, <3>1 DEF Begun
  <2>7. BlockPlaced(g, 1)
    <3>1. g.blocks[1] = d
      BY <2>4
    <3>2. CASE t
      <4>1. h \in Expressions \cup {"Call", "TermArg"}
        <5>1. h \in ArgumentOps
          BY <1>2, <1>4, <3>2
        <5>2. h \in Expressions \cup {"Call", "Object"}
          BY <1>7, <5>1, Limits
        <5>3. QED
          BY <2>2, <5>2, ObjectIsName
      <4>2. g.type = "Package"
        BY <1>2, <2>5, <3>2
      <4>3. QED
        BY <2>2, <3>1, <3>2, <4>1, <4>2 DEF BlockPlaced
    <3>3. CASE ~ t
      <4>1. h \in StatementOps /\ g.type # "Package"
        BY <1>2, <1>4, <2>5, <3>3
      <4>2. g.left < MaxBody
        BY <1>5, <1>8, <1>9, <2>4
      <4>3. QED
        BY <2>2, <3>1, <3>3, <4>1, <4>2 DEF BlockPlaced
    <3>4. QED
      BY <3>2, <3>3
  <2>8. Roomy(frames, n, d)
    BY <1>1, <1>4, <1>6, <2>2, FetchRoom
  <2>9. \/ d.op # "Call" /\ w = objects
        \/ d.op = "Call" /\ \E x : Grown(objects, w, x) /\ x.kind = "args"
    BY <2>2 DEF Begins
  <2>10. Fit(gs, methodFrames, w, scope) /\ Kept(frames, objects, gs, w)
    BY <1>5, <1>6, <1>12, <2>2, <2>4, <2>5, <2>6, <2>7, <2>8, <2>9, StatementMove
  <2>11. QED
    BY <1>5, <1>11, <2>10 DEF Moves
<1>14. CASE Named(h, v, t, objects, gs, w) /\ (h = "Call" => t)
  <2>1. h \in {"Object", "Call"} /\ gs = WithLast(frames, v)
    BY <1>14 DEF Named
  <2>2. t
    <3>1. ASSUME ~ t
          PROVE  FALSE
      <4>1. h \in StatementOps /\ h = "Object"
        BY <1>2, <1>4, <1>14, <2>1, <3>1
      <4>2. "Object" \in Handlers
        BY <1>7, <4>1, Limits
      <4>3. QED
        BY <4>2, ObjectIsName
    <3>2. QED
      BY <3>1
  <2>3. PICK x : x.kind = "obj" /\ Grown(objects, w, x)
    BY <1>14, <2>2 DEF Named
  <2>4. f.type = "Package"
    BY <1>2, <2>2
  <2>5. Fit(gs, methodFrames, w, scope) /\ Kept(frames, objects, gs, w)
    BY <1>5, <1>6, <1>9, <1>12, <2>1, <2>3, <2>4, ElementMove
  <2>6. QED
    BY <1>5, <1>11, <2>5 DEF Moves
<1>15. QED
  BY <1>12, <1>13, <1>14

\* What is nested may be nested.
LEMMA NestedOp ==
  ASSUME NEW n, NEW f, Tops(frames, methodFrames, objects, scope, n, f), n = Len(frames),
         NEW h, h \in NestedOps(f), h \in Handlers, NEW d, d.op = h
  PROVE  d.op \in Expressions \cup {"Call", "TermArg"} /\ Roomy(frames, n, d)
<1>1. h \in ArgumentOps /\ MayFetch(h)
  BY DEF NestedOps
<1>2. program \in Programs
  BY DEF Tops
<1>3. h \in Expressions \cup {"Call", "Object"}
  BY <1>1, <1>2, Limits
<1>4. Roomy(frames, n, d)
  BY <1>1, FetchRoom
<1>5. QED
  BY <1>3, <1>4, ObjectIsName

\* The operation d is nested in the block at the top, which becomes c.
LEMMA OpNests ==
  ASSUME NEW n, NEW f, Tops(frames, methodFrames, objects, scope, n, f), n = Len(frames),
         f.blocks # <<>>, NEW b, b = Last(f.blocks),
         NEW c, c.wanted = b.wanted, NEW g \in Frame, Alike(f, g), g.needResult = f.needResult,
         g.left = f.left, g.blocks = WithLast(f.blocks, c), WithLast(f.blocks, c) \in Seq(Block),
         NEW h, h \in NestedOps(f), NEW t \in BOOLEAN, t, NEW v, NEW gs, NEW w, NEW d,
         Begun(h, g, t, v, gs, w, d), w \in Seq(Object), ListsFit(w), Nested(b, objects, c, d, w)
  PROVE  Fit(gs, methodFrames, w, scope) /\ Kept(frames, objects, gs, w)
<1>1. /\ h \in Handlers /\ d \in Block /\ d.op = h /\ d.wanted
      /\ gs = WithLast(frames, WithBlocks(g, Append(g.blocks, d)))
  BY DEF Begun
<1>2. d.op \in Expressions \cup {"Call", "TermArg"} /\ Roomy(frames, n, d)
  BY <1>1, NestedOp
<1>3. PICK k : k = WithBlocks(g, Append(g.blocks, d))
  OBVIOUS
<1>4. /\ k \in Frame /\ Alike(g, k) /\ k.needResult = g.needResult /\ k.left = g.left
      /\ k.blocks = Append(WithLast(f.blocks, c), d)
  <2>1. PICK bs : bs = Append(g.blocks, d)
    OBVIOUS
  <2>2. bs \in Seq(Block)
    BY <1>1, <2>1
  <2>3. k = WithBlocks(g, bs)
    BY <1>3, <2>1
  <2>4. /\ k \in Frame /\ Alike(g, k) /\ k.needResult = g.needResult /\ k.left = g.left
        /\ k.blocks = bs
    BY <2>2, <2>3, BlocksPut
  <2>5. QED
    BY <2>1, <2>4
<1>5. Alike(f, k) /\ k.needResult = f.needResult /\ k.left = f.left
  BY <1>4 DEF Alike
<1>6. gs = WithLast(frames, k)
  BY <1>1, <1>3
<1>7. QED
  BY <1>1, <1>2, <1>4, <1>5, <1>6, NestMove

LEMMA TermMoves ==
  ASSUME IInv, TermOperand
  PROVE  Moves
<1>1. PICK n, f, b : n = Len(frames) /\ f = Top /\ b = Op
  OBVIOUS
<1>2. /\ frames # <<>> /\ Top.blocks # <<>> /\ ~ b.processed /\ b.ip <= Len(Script(b.op))
      /\ methodFrames' = methodFrames /\ scope' = scope
  BY <1>1 DEF TermOperand, AtOperand, Running
<1>3. /\ Tops(frames, methodFrames, objects, scope, n, f)
      /\ f.blocks # <<>> /\ b = Last(f.blocks) /\ f \in Frame /\ b \in Block
      /\ Current(b, objects) /\ objects \in Seq(Object) /\ ListsFit(objects)
  BY <1>1, <1>2, AtBlock
<1>4. PICK o : o = Script(b.op)[b.ip]
  OBVIOUS
<1>5. PICK g : g = Mark(TRUE)
  OBVIOUS
<1>6. PICK t \in BOOLEAN : t = TRUE
  OBVIOUS
<1>7. PICK h : h \in NestedOps(f) /\ Fetch(h, g, TRUE, o # "TermArg", objects)
  <2>1. PICK h : /\ h \in NestedOps(Top)
                 /\ Fetch(h, Mark(TRUE), TRUE, Script(Op.op)[Op.ip] # "TermArg", objects)
    BY Zenon DEF TermOperand
  <2>2. h \in NestedOps(f) /\ Fetch(h, g, TRUE, o # "TermArg", objects)
    BY <1>1, <1>4, <1>5, <2>1, Zenon
  <2>3. QED
    BY <2>2, Zenon
<1>8. Fetch(h, g, t, o # "TermArg", objects)
  BY <1>6, <1>7, Zenon
<1>9. PICK c : c = [b EXCEPT !.processed = TRUE]
  OBVIOUS
<1>10. /\ c \in Block /\ c.op = b.op /\ c.ip = b.ip /\ c.start = b.start /\ c.wanted = b.wanted
      /\ c.processed /\ WithLast(f.blocks, c) \in Seq(Block)
  BY <1>3, <1>9, Marked
<1>11. g = WithBlocks(f, WithLast(f.blocks, c))
  BY <1>1, <1>3, <1>5, <1>9, MarkIs
<1>12. /\ g \in Frame /\ Alike(f, g) /\ g.needResult = f.needResult /\ g.left = f.left
       /\ g.blocks = WithLast(f.blocks, c)
  BY <1>3, <1>10, <1>11, BlocksPut
<1>13. b.ip <= Adv(b.op) /\ KindOf(Script(b.op)[b.ip]) = "obj"
  <2>1. /\ b.op \in Handlers /\ b.ip \in 1 .. Len(Script(b.op)) + 1 /\ Len(Script(b.op)) \in Nat
        /\ Adv(b.op) \in Nat
    BY <1>3, BlockFacts
  <2>2. b.ip \in 1 .. Len(Script(b.op))
    BY <1>2, <2>1
  <2>3. Advances(o) /\ KindOf(o) = "obj"
    BY <1>1, <1>4 DEF TermOperand, Advances, KindOf
  <2>4. QED
    BY <1>4, <2>1, <2>2, <2>3, OperandPlaces
<1>14. PICK gs, w : gs = frames' /\ w = objects'
  OBVIOUS
<1>15. /\ w \in Seq(Object) /\ ListsFit(w)
       /\ (\E d : Begun(h, g, t, objects, gs, w, d)) \/ Named(h, g, t, objects, gs, w)
  BY <1>3, <1>14, <1>8, Fetched
<1>16. Fit(gs, methodFrames, w, scope) /\ Kept(frames, objects, gs, w)
  <2>1. CASE \E d : Begun(h, g, t, objects, gs, w, d)
    <3>1. PICK d : Begun(h, g, t, objects, gs, w, d)
      BY <2>1
    <3>2. d \in Block /\ d.ip = 1 /\ ~ d.processed /\ d.start = Len(objects)
      BY <3>1 DEF Begun
    <3>3. \/ d.op # "Call" /\ w = objects
          \/ d.op = "Call" /\ \E x : Grown(objects, w, x) /\ x.kind = "args"
      BY <3>1 DEF Begun, Begins
    <3>4. Nested(b, objects, c, d, w)
      BY <1>2, <1>3, <1>10, <1>13, <3>2, <3>3, TermNests
    <3>5. t
      BY <1>6
    <3>6. QED
      BY <1>1, <1>3, <1>7, <1>10, <1>12, <1>15, <3>1, <3>4, <3>5, OpNests
  <2>2. CASE Named(h, g, t, objects, gs, w)
    <3>1. PICK x : x.kind = "obj" /\ Grown(objects, w, x)
      BY <1>6, <2>2 DEF Named
    <3>2. gs = WithLast(frames, g)
      BY <2>2 DEF Named
    <3>3. Follows(b, objects, c, w)
      BY <1>2, <1>3, <1>10, <1>13, <3>1, PlainFollows
    <3>4. QED
      BY <1>3, <1>10, <1>12, <1>15, <3>2, <3>3, BlockMove
  <2>3. QED
    BY <1>15, <2>1, <2>2
<1>17. QED
  BY <1>2, <1>14, <1>16 DEF Moves

LEMMA SameLast ==
  ASSUME NEW f \in Frame, f.blocks # <<>>, NEW b, b = Last(f.blocks)
  PROVE  WithLast(f.blocks, b) = f.blocks /\ WithLast(f.blocks, b) \in Seq(Block) /\ Alike(f, f)
<1>1. f.blocks \in Seq(Block)
  BY FrameTypes
<1>2. WithLast(f.blocks, b) = f.blocks
  BY <1>1 DEF WithLast, Last
<1>3. QED
  BY <1>1, <1>2 DEF Alike

\* An object changes, but not its type.
Put(s, i, x) == [s EXCEPT ![i] = x]
ListFits(x) == x.kind = "fields" /\ x.count > 0 => MaxArgs > 0 /\ x.count <= 2
LEMMA ObjectChanges ==
  ASSUME NEW os \in Seq(Object), ListsFit(os), NEW i \in 1 .. Len(os), NEW x \in Object,
         x.kind = os[i].kind, ListFits(x), NEW w, w = Put(os, i, x)
  PROVE  w \in Seq(Object) /\ ListsFit(w) /\ Taken(os, w, i) /\ w[i] = x
<1>1. /\ w \in Seq(Object) /\ Len(w) = Len(os) /\ w[i] = x
      /\ \A j \in 1 .. Len(os) : j # i => w[j] = os[j]
  BY DEF Put
<1>2. Taken(os, w, i)
  BY <1>1 DEF Taken
<1>3. ASSUME NEW j \in 1 .. Len(w), w[j].kind = "fields", w[j].count > 0
      PROVE  MaxArgs > 0 /\ w[j].count <= 2
  <2>1. CASE j = i
    BY <1>1, <1>3, <2>1 DEF ListFits
  <2>2. CASE j # i
    <3>1. j \in 1 .. Len(os) /\ w[j] = os[j]
      BY <1>1, <2>2
    <3>2. QED
      BY <1>3, <3>1 DEF ListsFit
  <2>3. QED
    BY <2>1, <2>2
<1>4. QED
  BY <1>1, <1>2, <1>3 DEF ListsFit

LEMMA ArgsMoves ==
  ASSUME IInv, ArgsOperand
  PROVE  Moves
<1>1. PICK n, f, b : n = Len(frames) /\ f = Top /\ b = Op
  OBVIOUS
<1>2. /\ frames # <<>> /\ Top.blocks # <<>> /\ ~ b.processed /\ b.ip <= Len(Script(b.op))
      /\ methodFrames' = methodFrames /\ scope' = scope
  BY <1>1 DEF ArgsOperand, AtOperand, Running
<1>3. /\ Tops(frames, methodFrames, objects, scope, n, f)
      /\ f.blocks # <<>> /\ b = Last(f.blocks) /\ f \in Frame /\ b \in Block
      /\ Current(b, objects) /\ objects \in Seq(Object) /\ ListsFit(objects)
  BY <1>1, <1>2, AtBlock
<1>4. PICK o : o = Script(b.op)[b.ip]
  OBVIOUS
<1>5. b.op = "Call" /\ b.ip = 1
  <2>1. /\ b.op \in Handlers /\ b.ip \in 1 .. Len(Script(b.op)) + 1 /\ Len(Script(b.op)) \in Nat
    BY <1>3, BlockFacts
  <2>2. b.ip \in 1 .. Len(Script(b.op))
    BY <1>2, <2>1
  <2>3. o = "MethodArgs"
    BY <1>1, <1>4 DEF ArgsOperand
  <2>4. o = "MethodArgs" => b.op = "Call" /\ b.ip = 1
    BY <1>4, <2>1, <2>2, OperandPlaces
  <2>5. QED
    BY <2>3, <2>4
<1>6. PICK i : i = b.start + 1
  OBVIOUS
<1>7. i \in 1 .. Len(objects) /\ objects[i].kind = "args"
  <2>1. b.start \in Nat /\ Len(objects) \in Nat /\ Height(b, objects, Len(objects))
    BY <1>3, BlockFacts DEF Current
  <2>2. b.ip > Adv(b.op)
    BY <1>5, CallScript
  <2>3. CallHeight(b, objects, Len(objects))
    BY <1>5, <2>1, <2>2 DEF Height
  <2>4. QED
    BY <1>6, <2>1, <2>3 DEF CallHeight
<1>8. PICK gs, w : gs = frames' /\ w = objects'
  OBVIOUS
<1>9. CASE objects[i].left = 0
  <2>1. gs = WithLast(frames, Mark(TRUE)) /\ w = objects
    <3>1. ~ (objects[Op.start + 1].left > 0)
      BY <1>1, <1>6, <1>9
    <3>2. SetTop(Mark(TRUE)) /\ objects' = objects
      BY <3>1, Zenon DEF ArgsOperand
    <3>3. QED
      BY <1>8, <3>2 DEF SetTop, WithLast
  <2>2. PICK g : g = Mark(TRUE)
    OBVIOUS
  <2>3. PICK c : c = [b EXCEPT !.processed = TRUE]
    OBVIOUS
  <2>4. /\ c \in Block /\ c.op = b.op /\ c.ip = b.ip /\ c.start = b.start /\ c.wanted = b.wanted
        /\ c.processed /\ WithLast(f.blocks, c) \in Seq(Block)
    BY <1>3, <2>3, Marked
  <2>5. g = WithBlocks(f, WithLast(f.blocks, c))
    BY <1>1, <1>3, <2>2, <2>3, MarkIs
  <2>6. /\ g \in Frame /\ Alike(f, g) /\ g.needResult = f.needResult /\ g.left = f.left
        /\ g.blocks = WithLast(f.blocks, c)
    BY <1>3, <2>4, <2>5, BlocksPut
  <2>7. Follows(b, objects, c, w)
    BY <1>2, <1>3, <1>5, <2>1, <2>4, ArgsFollow
  <2>8. Fit(gs, methodFrames, w, scope) /\ Kept(frames, objects, gs, w)
    BY <1>3, <2>1, <2>2, <2>4, <2>6, <2>7, BlockMove
  <2>9. QED
    BY <1>2, <1>8, <2>8 DEF Moves
<1>10. CASE objects[i].left # 0
  <2>1. PICK t \in BOOLEAN : t = TRUE
    OBVIOUS
  <2>2. PICK v : v = [objects EXCEPT ![i].left = @ - 1]
    OBVIOUS
  <2>3. PICK h : /\ objects[i].left > 0 /\ h \in NestedOps(f)
                 /\ Fetch(h, f, TRUE, FALSE, v)
    BY <1>1, <1>6, <1>10, <2>2 DEF ArgsOperand
  <2>4. Fetch(h, f, t, FALSE, v)
    BY <2>1, <2>3, Zenon
  <2>5. v \in Seq(Object) /\ ListsFit(v) /\ Taken(objects, v, i)
    <3>1. PICK x : x = [objects[i] EXCEPT !.left = @ - 1]
      OBVIOUS
    <3>2. objects[i] \in Object
      BY <1>3, <1>7
    <3>3. x \in Object /\ x.kind = "args"
      BY <1>7, <2>3, <3>1, <3>2, LimitsAssumption DEF Object
    <3>4. v = Put(objects, i, x)
      BY <1>7, <2>2, <3>1 DEF Put
    <3>5. ListFits(x)
      BY <3>3 DEF ListFits
    <3>6. QED
      BY <1>3, <1>7, <3>3, <3>4, <3>5, ObjectChanges
  <2>6. /\ w \in Seq(Object) /\ ListsFit(w)
        /\ (\E d : Begun(h, f, t, v, gs, w, d)) \/ Named(h, f, t, v, gs, w)
    BY <1>8, <2>4, <2>5, Fetched
  <2>7. WithLast(f.blocks, b) = f.blocks /\ WithLast(f.blocks, b) \in Seq(Block) /\ Alike(f, f)
    BY <1>3, SameLast
  <2>8. Taken(objects, v, b.start + 1)
    BY <1>6, <2>5
  <2>9. CASE \E d : Begun(h, f, t, v, gs, w, d)
    <3>1. PICK d : Begun(h, f, t, v, gs, w, d)
      BY <2>9
    <3>2. d \in Block /\ d.ip = 1 /\ ~ d.processed /\ d.start = Len(objects)
      BY <2>5, <3>1 DEF Begun, Taken
    <3>3. \/ d.op # "Call" /\ w = v
          \/ d.op = "Call" /\ \E x : Grown(v, w, x) /\ x.kind = "args"
      BY <3>1 DEF Begun, Begins
    <3>4. Nested(b, objects, b, d, w)
      BY <1>2, <1>3, <1>5, <2>8, <3>2, <3>3, ArgNests
    <3>5. t /\ f.blocks = WithLast(f.blocks, b)
      BY <2>1, <2>7
    <3>6. Fit(gs, methodFrames, w, scope) /\ Kept(frames, objects, gs, w)
      BY <1>1, <1>3, <2>3, <2>6, <2>7, <3>1, <3>4, <3>5, OpNests
    <3>7. QED
      BY <1>2, <1>8, <3>6 DEF Moves
  <2>10. CASE Named(h, f, t, v, gs, w)
    <3>1. PICK x : x.kind = "obj" /\ Grown(v, w, x)
      BY <2>1, <2>10 DEF Named
    <3>2. gs = WithLast(frames, f)
      BY <2>10 DEF Named
    <3>3. Follows(b, objects, b, w)
      BY <1>2, <1>3, <1>5, <2>8, <3>1, ArgFollows
    <3>4. f.blocks = WithLast(f.blocks, b)
      BY <2>7
    <3>5. Fit(gs, methodFrames, w, scope) /\ Kept(frames, objects, gs, w)
      BY <1>3, <2>6, <2>7, <3>2, <3>3, <3>4, BlockMove
    <3>6. QED
      BY <1>2, <1>8, <3>5 DEF Moves
  <2>11. QED
    BY <2>6, <2>9, <2>10
<1>11. QED
  BY <1>9, <1>10

\* The list at place i of the objects v, alone above a
ListAlone(v, a, i) ==
  /\ v \in Seq(Object) /\ ListsFit(v) /\ i = a + 1 /\ a \in Nat /\ Len(v) = i
  /\ v[i].kind = "fields"

\* Its entry changes.
LEMMA ListChanges ==
  ASSUME NEW os, NEW v, NEW a, NEW i, ListAlone(v, a, i), Same(os, v, a),
         NEW x \in Object, x.kind = "fields", ListFits(x), NEW w, w = Put(v, i, x)
  PROVE  ListAlone(w, a, i) /\ Same(os, w, a) /\ w[i] = x
<1>1. /\ v \in Seq(Object) /\ ListsFit(v) /\ i = a + 1 /\ a \in Nat /\ Len(v) = i
      /\ v[i].kind = "fields" /\ i \in 1 .. Len(v)
  BY DEF ListAlone
<1>2. x.kind = v[i].kind
  BY <1>1
<1>3. w \in Seq(Object) /\ ListsFit(w) /\ Taken(v, w, i) /\ w[i] = x
  <2>1. v \in Seq(Object) /\ ListsFit(v) /\ i \in 1 .. Len(v)
    BY <1>1
  <2>2. QED
    BY <1>2, <2>1, ObjectChanges
<1>4. Len(w) = i
  BY <1>1, <1>3 DEF Taken
<1>5. ListAlone(w, a, i)
  BY <1>1, <1>3, <1>4 DEF ListAlone
<1>6. Same(os, w, a)
  <2>1. \A j \in 1 .. a : j \in 1 .. Len(v) /\ j # i
    BY <1>1
  <2>2. \A j \in 1 .. a : w[j] = v[j]
    BY <1>3, <2>1 DEF Taken
  <2>3. QED
    BY <1>1, <1>4, <2>2 DEF Same
<1>7. QED
  BY <1>3, <1>5, <1>6

LEMMA ListAt ==
  ASSUME NEW b, NEW w, NEW i, ListAlone(w, b.start, i), b.processed \/ w[i].count # 2
  PROVE  FieldsAt(b, w)
BY DEF ListAlone, FieldsAt

\* A connection has gone into its list.
LEMMA ConnectionGoes ==
  ASSUME NEW b, Current(b, objects), ListsFit(objects), FieldsAt(b, objects), ~ b.processed,
         NEW i, i = b.start + 1, objects[i].count # 1, NEW v, v = Connected(i)
  PROVE  /\ ListAlone(v, b.start, i) /\ Same(objects, v, b.start)
         /\ v[i].count = 0 /\ v[i].left = objects[i].left /\ objects[i] \in Object
<1>1. /\ b.start \in Nat /\ objects \in Seq(Object) /\ i \in 1 .. Len(objects)
      /\ objects[i].kind = "fields" /\ i = b.start + 1 /\ Len(objects) \in Nat
  BY BlockFacts DEF Current, FieldsAt
<1>2. objects[i] \in Object
  BY <1>1
<1>3. objects[i].count > 0 => MaxArgs > 0 /\ objects[i].count <= 2
  BY <1>1 DEF ListsFit
<1>4. PICK m, k : m = objects[i].left /\ k = objects[i].count
  OBVIOUS
<1>5. m \in 0 .. MaxArgs /\ k \in 0 .. MaxArgs + 1 /\ objects[i] = [kind |-> "fields", count |-> k, left |-> m]
  BY <1>1, <1>2, <1>4 DEF Object
<1>6. CASE k = 2
  <2>1. Len(objects) = b.start + 2
    BY <1>1, <1>4, <1>6 DEF FieldsAt
  <2>2. PICK u : u = Below(objects)
    OBVIOUS
  <2>3. objects # <<>>
    BY <1>1
  <2>4. u \in Seq(Object) /\ Len(u) = i /\ \A j \in 1 .. i : u[j] = objects[j]
    <3>1. /\ Below(objects) \in Seq(Object) /\ Len(Below(objects)) = Len(objects) - 1
          /\ \A j \in 1 .. Len(objects) - 1 : Below(objects)[j] = objects[j]
      BY <1>1, <2>3, BlocksOf
    <3>2. Len(objects) - 1 = i
      BY <1>1, <2>1
    <3>3. QED
      BY <2>2, <3>1, <3>2
  <2>5. ListsFit(u)
    <3>1. \A j \in 1 .. Len(u) : j \in 1 .. Len(objects) /\ u[j] = objects[j]
      BY <1>1, <2>4
    <3>2. QED
      BY <3>1 DEF ListsFit
  <2>6. u[i] = objects[i]
    BY <1>1, <2>4
  <2>7. ListAlone(u, b.start, i) /\ Same(objects, u, b.start)
    BY <1>1, <2>4, <2>5, <2>6 DEF ListAlone, Same
  <2>8. PICK x : x = [kind |-> "fields", count |-> 0, left |-> m]
    OBVIOUS
  <2>9. v = Put(u, i, x)
    <3>1. v = [u EXCEPT ![i].count = 0]
      BY <1>4, <1>6, <2>2 DEF Connected
    <3>2. [u[i] EXCEPT !.count = 0] = x
      BY <1>5, <2>6, <2>8
    <3>3. QED
      BY <3>1, <3>2 DEF Put
  <2>10. x \in Object /\ x.kind = "fields" /\ x.count = 0
    BY <1>5, <2>8, LimitsAssumption DEF Object, ObjectKinds
  <2>11. ListAlone(v, b.start, i) /\ Same(objects, v, b.start) /\ v[i] = x
    BY <2>7, <2>9, <2>10, ListChanges DEF ListFits
  <2>12. QED
    BY <1>2, <1>4, <2>8, <2>11
<1>7. CASE k # 2
  <2>1. v = objects
    BY <1>4, <1>7 DEF Connected
  <2>2. k = 0
    BY <1>3, <1>4, <1>5, <1>7
  <2>3. Len(objects) = i
    BY <1>1, <1>4, <1>7 DEF FieldsAt
  <2>4. ListAlone(v, b.start, i)
    BY <1>1, <2>1, <2>3 DEF ListAlone
  <2>5. Same(objects, v, b.start)
    BY <1>1, <2>1, SameRefl
  <2>6. QED
    BY <1>2, <1>4, <2>1, <2>2, <2>4, <2>5
<1>8. QED
  BY <1>6, <1>7

\* A field list is read on, or its end is reached, in the frame g.
LEMMA FieldsMove ==
  ASSUME NEW n, NEW f, Tops(frames, methodFrames, objects, scope, n, f),
         f.blocks # <<>>, NEW b, b = Last(f.blocks), ~ b.processed, b.op \in FieldOps,
         b.ip = Adv(b.op) + 2,
         NEW w \in Seq(Object), ListsFit(w), Same(objects, w, b.start),
         NEW c \in Block, c.op = b.op, c.ip = b.ip, c.start = b.start, c.wanted = b.wanted,
         FieldsAt(c, w),
         NEW g \in Frame, Alike(f, g), g.needResult = f.needResult, g.left = f.left,
         g.blocks = WithLast(f.blocks, c), NEW gs, gs = WithLast(frames, g)
  PROVE  Fit(gs, methodFrames, w, scope) /\ Kept(frames, objects, gs, w)
<1>1. Current(b, objects)
  BY TopBlock
<1>2. Len(w) \in Nat
  OBVIOUS
<1>3. Follows(b, objects, c, w)
  BY <1>1, <1>2, FieldsFollow
<1>4. QED
  BY <1>3, BlockMove

\* The term of a connection begins.
LEMMA ConnectionBegins ==
  ASSUME NEW n, NEW f, Tops(frames, methodFrames, objects, scope, n, f), n = Len(frames),
         f.blocks # <<>>, NEW b, b = Last(f.blocks), ~ b.processed, b.op \in FieldOps,
         b.ip = Adv(b.op) + 2, NEW i, i = b.start + 1, objects[i].count = 1,
         NEW w, w = [objects EXCEPT ![i].count = 2],
         NEW gs, NEW g, g = WithBlocks(f, Append(f.blocks, NewBlock("TermArg", TRUE))),
         gs = WithLast(frames, g)
  PROVE  Fit(gs, methodFrames, w, scope) /\ Kept(frames, objects, gs, w)
<1>1. /\ Current(b, objects) /\ b \in Block /\ f \in Frame /\ objects \in Seq(Object)
      /\ ListsFit(objects) /\ Len(objects) \in Nat
  BY TopBlock, TopFacts
<1>2. FieldsAt(b, objects)
  BY <1>1, FieldsNow
<1>3. b.start \in Nat /\ i \in 1 .. Len(objects) /\ objects[i].kind = "fields" /\ objects[i] \in Object
  BY <1>1, <1>2, BlockFacts DEF FieldsAt
<1>4. MaxArgs > 0 /\ MaxArgs \in Nat
  BY <1>1, <1>3, LimitsAssumption DEF ListsFit
<1>5. PICK x : x = [objects[i] EXCEPT !.count = 2]
  OBVIOUS
<1>6. x \in Object /\ x.kind = "fields" /\ x.count = 2
  <2>1. PICK y : y = objects[i]
    OBVIOUS
  <2>2. y \in Object /\ x = [y EXCEPT !.count = 2] /\ y.kind = "fields"
    BY <1>3, <1>5, <2>1
  <2>3. 2 \in 0 .. MaxArgs + 1
    BY <1>4
  <2>4. QED
    BY <2>2, <2>3 DEF Object
<1>7. PICK u : u = Put(objects, i, x)
  OBVIOUS
<1>8. u = w
  BY <1>3, <1>5, <1>7 DEF Put
<1>9. u \in Seq(Object) /\ ListsFit(u) /\ Taken(objects, u, i) /\ u[i] = x
  <2>1. x.kind = objects[i].kind
    BY <1>3, <1>6
  <2>2. ListFits(x)
    BY <1>4, <1>6 DEF ListFits
  <2>3. QED
    BY <1>1, <1>3, <1>6, <1>7, <2>1, <2>2, ObjectChanges
<1>10. PICK d : d = NewBlock("TermArg", TRUE)
  OBVIOUS
<1>11. /\ d \in Block /\ d.op = "TermArg" /\ d.ip = 1 /\ ~ d.processed
       /\ d.start = Len(objects) /\ d.wanted
  <2>1. "TermArg" \in Handlers
    BY DEF Handlers, Internal
  <2>2. d = [op |-> "TermArg", start |-> Len(objects), ip |-> 1, processed |-> FALSE,
             wanted |-> TRUE]
    BY <1>10 DEF NewBlock
  <2>3. QED
    BY <1>1, <2>1, <2>2 DEF Block
<1>12. Nested(b, objects, b, d, u)
  <2>1. objects[b.start + 1].count # 2 /\ u[b.start + 1].count = 2
    BY <1>6, <1>9
  <2>2. Taken(objects, u, b.start + 1)
    BY <1>9
  <2>3. QED
    BY <1>1, <1>11, <2>1, <2>2, FieldNests
<1>13. Roomy(frames, n, d)
  BY <1>11 DEF Roomy, Framing, Scopes
<1>14. WithLast(f.blocks, b) = f.blocks /\ f.blocks \in Seq(Block)
  BY <1>1, SameLast
<1>15. /\ g \in Frame /\ Alike(f, g) /\ g.needResult = f.needResult /\ g.left = f.left
       /\ g.blocks = Append(f.blocks, d)
  <2>1. PICK bs : bs = Append(f.blocks, d)
    OBVIOUS
  <2>2. bs \in Seq(Block)
    BY <1>11, <1>14, <2>1
  <2>3. g = WithBlocks(f, bs)
    BY <1>10, <2>1
  <2>4. QED
    BY <1>1, <2>1, <2>2, <2>3, BlocksPut
<1>16. g.blocks = Append(WithLast(f.blocks, b), d)
  BY <1>14, <1>15
<1>17. d.op \in Expressions \cup {"Call", "TermArg"}
  BY <1>11
<1>18. Fit(gs, methodFrames, u, scope) /\ Kept(frames, objects, gs, u)
  BY <1>1, <1>9, <1>11, <1>12, <1>13, <1>15, <1>16, <1>17, NestMove
<1>19. QED
  BY <1>8, <1>18

LEMMA FieldsMoves ==
  ASSUME IInv, FieldsOperand
  PROVE  Moves
<1>1. PICK n, f, b : n = Len(frames) /\ f = Top /\ b = Op
  OBVIOUS
<1>2. /\ frames # <<>> /\ Top.blocks # <<>> /\ ~ b.processed /\ b.ip <= Len(Script(b.op))
      /\ methodFrames' = methodFrames /\ scope' = scope
  BY <1>1 DEF FieldsOperand, AtOperand, Running
<1>3. /\ Tops(frames, methodFrames, objects, scope, n, f)
      /\ f.blocks # <<>> /\ b = Last(f.blocks) /\ f \in Frame /\ b \in Block
      /\ Current(b, objects) /\ objects \in Seq(Object) /\ ListsFit(objects)
      /\ frames \in Seq(Frame)
  BY <1>1, <1>2, AtBlock
<1>4. PICK o : o = Script(b.op)[b.ip]
  OBVIOUS
<1>5. b.op \in FieldOps /\ b.ip = Adv(b.op) + 2
  <2>1. /\ b.op \in Handlers /\ b.ip \in 1 .. Len(Script(b.op)) + 1 /\ Len(Script(b.op)) \in Nat
    BY <1>3, BlockFacts
  <2>2. b.ip \in 1 .. Len(Script(b.op))
    BY <1>2, <2>1
  <2>3. o = "FieldList"
    BY <1>1, <1>4 DEF FieldsOperand
  <2>4. o = "FieldList" => b.op \in FieldOps /\ b.ip = Adv(b.op) + 2
    BY <1>4, <2>1, <2>2, OperandPlaces
  <2>5. QED
    BY <2>3, <2>4
<1>6. PICK i : i = b.start + 1
  OBVIOUS
<1>7. FieldsAt(b, objects)
  BY <1>2, <1>3, <1>5, FieldsNow
<1>8. PICK gs, w : gs = frames' /\ w = objects'
  OBVIOUS
<1>9. PICK v : v = Connected(i)
  OBVIOUS
<1>10. PICK g : g = Mark(TRUE)
  OBVIOUS
<1>11. CASE objects[i].count = 1
  <2>1. /\ w = [objects EXCEPT ![i].count = 2]
        /\ gs = WithLast(frames, WithBlocks(f, Append(f.blocks, NewBlock("TermArg", TRUE))))
    BY <1>1, <1>6, <1>8, <1>11 DEF FieldsOperand, SetTop, WithLast, WithBlocks
  <2>2. Fit(gs, methodFrames, w, scope) /\ Kept(frames, objects, gs, w)
    BY <1>1, <1>2, <1>3, <1>5, <1>6, <1>11, <2>1, ConnectionBegins
  <2>3. QED
    BY <1>2, <1>8, <2>2 DEF Moves
<1>12. CASE objects[i].count # 1
  <2>1. \/ /\ objects[i].left = 0
           /\ w = v /\ gs = WithLast(frames, g)
        \/ /\ objects[i].left > 0 /\ gs = frames
           /\ \E os : /\ os = [v EXCEPT ![i].left = @ - 1]
                      /\ \/ w = os
                         \/ w = [os EXCEPT ![i].count = 1]
                         \/ w = Append([os EXCEPT ![i].count = 2], Obj)
    BY <1>1, <1>6, <1>8, <1>9, <1>10, <1>12 DEF FieldsOperand, SetTop, WithLast
  <2>2. /\ ListAlone(v, b.start, i) /\ Same(objects, v, b.start)
        /\ v[i].count = 0 /\ v[i].left = objects[i].left /\ objects[i] \in Object
    BY <1>2, <1>3, <1>6, <1>7, <1>9, <1>12, ConnectionGoes
  <2>3. v \in Seq(Object) /\ ListsFit(v) /\ v[i].kind = "fields" /\ Len(v) = i /\ i \in Nat /\ i >= 1
    BY <2>2 DEF ListAlone
  <2>4. CASE objects[i].left = 0
    <3>1. w = v /\ gs = WithLast(frames, g)
      BY <2>1, <2>4
    <3>2. PICK c : c = [b EXCEPT !.processed = TRUE]
      OBVIOUS
    <3>3. /\ c \in Block /\ c.op = b.op /\ c.ip = b.ip /\ c.start = b.start
          /\ c.wanted = b.wanted /\ c.processed /\ WithLast(f.blocks, c) \in Seq(Block)
      BY <1>3, <3>2, Marked
    <3>4. g = WithBlocks(f, WithLast(f.blocks, c))
      BY <1>1, <1>3, <1>10, <3>2, MarkIs
    <3>5. /\ g \in Frame /\ Alike(f, g) /\ g.needResult = f.needResult /\ g.left = f.left
          /\ g.blocks = WithLast(f.blocks, c)
      BY <1>3, <3>3, <3>4, BlocksPut
    <3>6. ListAlone(w, c.start, i)
      BY <2>2, <3>1, <3>3
    <3>7. FieldsAt(c, w)
      BY <3>3, <3>6, ListAt
    <3>8. w \in Seq(Object) /\ ListsFit(w) /\ Same(objects, w, b.start)
      BY <2>2, <2>3, <3>1
    <3>9. Fit(gs, methodFrames, w, scope) /\ Kept(frames, objects, gs, w)
      BY <1>2, <1>3, <1>5, <3>1, <3>3, <3>5, <3>7, <3>8, FieldsMove
    <3>10. QED
      BY <1>2, <1>8, <3>9 DEF Moves
  <2>5. CASE objects[i].left # 0
    <3>1. PICK os : /\ objects[i].left > 0 /\ gs = frames /\ os = [v EXCEPT ![i].left = @ - 1]
                    /\ \/ w = os
                       \/ w = [os EXCEPT ![i].count = 1]
                       \/ w = Append([os EXCEPT ![i].count = 2], Obj)
      BY <2>1, <2>5
    <3>2. PICK m : m = objects[i].left - 1
      OBVIOUS
    <3>3. m \in 0 .. MaxArgs /\ MaxArgs \in Nat /\ MaxArgs > 0
      BY <2>2, <3>1, <3>2, LimitsAssumption DEF Object
    <3>4. PICK x, y, z : /\ x = [kind |-> "fields", count |-> 0, left |-> m]
                         /\ y = [kind |-> "fields", count |-> 1, left |-> m]
                         /\ z = [kind |-> "fields", count |-> 2, left |-> m]
      OBVIOUS
    <3>5. /\ x \in Object /\ x.kind = "fields" /\ x.count = 0
          /\ y \in Object /\ y.kind = "fields" /\ y.count = 1
          /\ z \in Object /\ z.kind = "fields" /\ z.count = 2
      BY <3>3, <3>4 DEF Object, ObjectKinds
    <3>6. ListFits(x) /\ ListFits(y) /\ ListFits(z)
      BY <3>3, <3>5 DEF ListFits
    <3>7. os = Put(v, i, x)
      <4>1. v[i] \in Object
        BY <2>3
      <4>2. [v[i] EXCEPT !.left = @ - 1] = x
        BY <2>2, <2>3, <3>2, <3>4, <4>1 DEF Object
      <4>3. QED
        BY <3>1, <4>2 DEF Put
    <3>8. ListAlone(os, b.start, i) /\ Same(objects, os, b.start) /\ os[i] = x
      <4>1. ListAlone(v, b.start, i) /\ Same(objects, v, b.start)
        BY <2>2
      <4>2. x \in Object /\ x.kind = "fields" /\ ListFits(x)
        BY <3>5, <3>6
      <4>3. QED
        BY <3>7, <4>1, <4>2, ListChanges
    <3>9. /\ [os EXCEPT ![i].count = 1] = Put(os, i, y)
          /\ [os EXCEPT ![i].count = 2] = Put(os, i, z)
      <4>1. [os[i] EXCEPT !.count = 1] = y /\ [os[i] EXCEPT !.count = 2] = z
        BY <3>4, <3>8
      <4>2. QED
        BY <4>1 DEF Put
    <3>10. PICK p, q : p = Put(os, i, y) /\ q = Put(os, i, z)
      OBVIOUS
    <3>11. ListAlone(p, b.start, i) /\ Same(objects, p, b.start) /\ p[i] = y
      <4>1. ListAlone(os, b.start, i) /\ Same(objects, os, b.start)
        BY <3>8
      <4>2. y \in Object /\ y.kind = "fields" /\ ListFits(y) /\ p = Put(os, i, y)
        BY <3>5, <3>6, <3>10
      <4>3. QED
        BY <4>1, <4>2, ListChanges
    <3>12. ListAlone(q, b.start, i) /\ Same(objects, q, b.start) /\ q[i] = z
      <4>1. ListAlone(os, b.start, i) /\ Same(objects, os, b.start)
        BY <3>8
      <4>2. z \in Object /\ z.kind = "fields" /\ ListFits(z) /\ q = Put(os, i, z)
        BY <3>5, <3>6, <3>10
      <4>3. QED
        BY <4>1, <4>2, ListChanges
    <3>13. w = os \/ w = p \/ w = Append(q, Obj)
      BY <3>1, <3>9, <3>10
    <3>14. w \in Seq(Object) /\ ListsFit(w) /\ Same(objects, w, b.start) /\ FieldsAt(b, w)
      <4>1. CASE w = os
        <5>1. FieldsAt(b, w)
          BY <3>5, <3>8, <4>1, ListAt
        <5>2. QED
          BY <3>8, <4>1, <5>1 DEF ListAlone
      <4>2. CASE w = p
        <5>1. FieldsAt(b, w)
          BY <3>5, <3>11, <4>2, ListAt
        <5>2. QED
          BY <3>11, <4>2, <5>1 DEF ListAlone
      <4>3. CASE w = Append(q, Obj)
        <5>1. /\ q \in Seq(Object) /\ ListsFit(q) /\ i = b.start + 1 /\ b.start \in Nat
              /\ Len(q) = i /\ q[i].kind = "fields" /\ q[i].count = 2
          BY <3>5, <3>12 DEF ListAlone
        <5>2. "obj" \in ObjectKinds
          BY DEF ObjectKinds
        <5>3. Obj \in Object /\ Obj.kind = "obj"
          BY <5>2, Things DEF Obj
        <5>4. PICK r : r = Obj
          OBVIOUS
        <5>5. r \in Object /\ r.kind = "obj" /\ (r.kind = "fields" => r.count = 0)
          BY <5>3, <5>4
        <5>6. w = Append(q, r)
          BY <4>3, <5>4
        <5>7. w \in Seq(Object) /\ ListsFit(w) /\ Grown(q, w, r)
          BY <5>1, <5>5, <5>6, ObjectComes
        <5>8. /\ Len(w) = i + 1 /\ w[Len(w)] = r /\ \A j \in 1 .. i : w[j] = q[j]
          BY <5>1, <5>7 DEF Grown, Same
        <5>9. Same(objects, w, b.start)
          <6>1. \A j \in 1 .. b.start : j \in 1 .. i
            BY <5>1
          <6>2. \A j \in 1 .. b.start : w[j] = objects[j]
            BY <3>12, <5>8, <6>1 DEF Same
          <6>3. QED
            BY <3>12, <5>1, <5>8, <6>2 DEF Same
        <5>10. w[i] = q[i]
          BY <5>1, <5>8
        <5>11. FieldsAt(b, w)
          BY <1>2, <5>1, <5>5, <5>8, <5>10 DEF FieldsAt
        <5>12. QED
          BY <5>7, <5>9, <5>11
      <4>4. QED
        BY <3>13, <4>1, <4>2, <4>3
    <3>15. WithLast(f.blocks, b) = f.blocks /\ WithLast(f.blocks, b) \in Seq(Block) /\ Alike(f, f)
      BY <1>3, SameLast
    <3>16. gs = WithLast(frames, f)
      BY <1>1, <1>2, <1>3, <3>1 DEF WithLast, Top, Last
    <3>17. Fit(gs, methodFrames, w, scope) /\ Kept(frames, objects, gs, w)
      BY <1>2, <1>3, <1>5, <3>14, <3>15, <3>16, FieldsMove
    <3>18. QED
      BY <1>2, <1>8, <3>17 DEF Moves
  <2>6. QED
    BY <2>4, <2>5
<1>13. QED
  BY <1>11, <1>12

\* unwind_stack, from stacks that fit
LEMMA UnwindMoves ==
  ASSUME program \in Programs, NEW fs, NEW ms, NEW os, NEW sc, Fit(fs, ms, os, sc),
         Len(fs) >= 1, Unwind(fs, ms, os, sc)
  PROVE  /\ Fit(frames', methodFrames', objects', scope')
         /\ Kept(fs, os, frames', objects') /\ Len(frames') <= Len(fs)
<1>1. PICK gs, ls, w, sd : gs = frames' /\ ls = methodFrames' /\ w = objects' /\ sd = scope'
  OBVIOUS
<1>2. UnwindsTo(fs, ms, os, sc, gs, ls, w, sd)
  BY <1>1 DEF Unwind, UnwindsTo
<1>3. Len(fs) > 1 => KeepsScope(fs, ms)
  BY DEF Unwind
<1>4. Fit(gs, ls, w, sd) /\ Kept(fs, os, gs, w) /\ Len(gs) <= Len(fs)
  BY <1>2, <1>3, UnwindFits
<1>5. QED
  BY <1>1, <1>4

\* The same stacks
LEMMA Stays ==
  ASSUME IInv, UNCHANGED <<frames, methodFrames, objects, scope>>
  PROVE  Moves
<1>1. Fit(frames, methodFrames, objects, scope)
  BY DEF IInv
<1>2. AllTyped(frames) /\ Shape(frames, objects) /\ Len(objects) \in Nat
  <2>1. frames \in Seq(Frame) /\ objects \in Seq(Object) /\ Shape(frames, objects)
    BY <1>1 DEF Fit, StacksTyped
  <2>2. QED
    BY <2>1, FramesTyped
<1>3. \A i \in 1 .. Len(frames) : Same(objects, objects, frames[i].start)
  BY <1>2, ShapeFacts, SameRefl
<1>4. Kept(frames, objects, frames', objects')
  BY <1>3 DEF Kept
<1>5. QED
  BY <1>1, <1>4 DEF Moves

LEMMA ErrorMoves ==
  ASSUME IInv, frames # <<>>, Error
  PROVE  Moves /\ (status' = status \/ status' = "failed")
<1>1. CASE /\ Len(frames) # 1
           /\ Unwind(frames, methodFrames, objects, scope)
           /\ UNCHANGED status
  <2>1. program \in Programs /\ Fit(frames, methodFrames, objects, scope)
    BY DEF IInv
  <2>2. frames \in Seq(Frame)
    BY <2>1 DEF Fit, StacksTyped
  <2>3. Len(frames) >= 1
    BY <2>2
  <2>4. QED
    BY <1>1, <2>1, <2>3, UnwindMoves DEF Moves
<1>2. CASE /\ status' = "failed"
           /\ UNCHANGED <<frames, methodFrames, objects, scope>>
  BY <1>2, Stays
<1>3. QED
  BY <1>1, <1>2 DEF Error

LEMMA FailMoves ==
  ASSUME IInv, Fail
  PROVE  Moves /\ (status' = status \/ status' = "failed")
BY ErrorMoves, Stays DEF Fail

LEMMA OperandMoves ==
  ASSUME IInv, OperandDone
  PROVE  Moves /\ (status' = status \/ status' = "failed")
<1>1. PICK n, f, b : n = Len(frames) /\ f = Top /\ b = Op
  OBVIOUS
<1>2. /\ frames # <<>> /\ Top.blocks # <<>> /\ b.processed /\ b.ip <= Len(Script(b.op))
  BY <1>1 DEF OperandDone, AtOperand, Running
<1>3. /\ Tops(frames, methodFrames, objects, scope, n, f)
      /\ f.blocks # <<>> /\ b = Last(f.blocks) /\ f \in Frame /\ b \in Block
      /\ Current(b, objects) /\ objects \in Seq(Object) /\ ListsFit(objects)
      /\ frames \in Seq(Frame)
  BY <1>1, <1>2, AtBlock
<1>4. PICK o : o = Script(b.op)[b.ip]
  OBVIOUS
<1>5. CASE ~ Complete(o)
  <2>1. Error
    BY <1>1, <1>4, <1>5 DEF OperandDone
  <2>2. QED
    BY <1>2, <2>1, ErrorMoves
<1>6. CASE Complete(o)
  <2>1. PICK c : c = [b EXCEPT !.ip = @ + 1, !.processed = FALSE,
                               !.start = IF Advances(o) THEN @ + 1 ELSE @]
    OBVIOUS
  <2>2. /\ SetOp(c) /\ methodFrames' = methodFrames /\ objects' = objects
        /\ scope' = scope /\ status' = status
    BY <1>1, <1>4, <1>6, <2>1 DEF OperandDone
  <2>3. /\ b.op \in Handlers /\ b.ip \in 1 .. Len(Script(b.op)) + 1 /\ Len(Script(b.op)) \in Nat
        /\ Adv(b.op) \in Nat /\ b.start \in Nat
    BY <1>3, BlockFacts
  <2>4. b.ip \in 1 .. Len(Script(b.op))
    BY <1>2, <2>3
  <2>5. b.ip <= Adv(b.op) <=> Advances(o)
    BY <1>4, <2>3, <2>4, OperandPlaces
  <2>6. PICK a : a = IF Advances(o) THEN b.start + 1 ELSE b.start
    OBVIOUS
  <2>7. (Advances(o) => a = b.start + 1) /\ (~ Advances(o) => a = b.start) /\ a \in Nat
    BY <2>3, <2>6
  <2>8. c = [b EXCEPT !.ip = @ + 1, !.processed = FALSE, !.start = a]
    BY <2>1, <2>6
  <2>9. /\ c \in Block /\ c.op = b.op /\ c.ip = b.ip + 1 /\ ~ c.processed /\ c.start = a
        /\ c.wanted = b.wanted
    <3>1. b.ip + 1 \in Nat
      BY <2>4
    <3>2. QED
      BY <1>3, <2>7, <2>8, <3>1 DEF Block
  <2>10. Follows(b, objects, c, objects)
    <3>1. CASE Advances(o)
      <4>1. Len(objects) = b.start + 1
        BY <1>1, <1>6, <3>1 DEF Complete, Advances
      <4>2. b.ip <= Adv(b.op) /\ c.start = b.start + 1
        BY <2>5, <2>7, <2>9, <3>1
      <4>3. QED
        BY <1>2, <1>3, <2>9, <4>1, <4>2, AdvanceFollows
    <3>2. CASE ~ Advances(o)
      <4>1. b.ip > Adv(b.op) /\ c.start = b.start
        BY <2>4, <2>3, <2>5, <2>7, <2>9, <3>2
      <4>2. b.op = "Call" => Len(objects) = b.start + 1 + objects[b.start + 1].count
        <5>1. ASSUME b.op = "Call"
              PROVE  Len(objects) = b.start + 1 + objects[b.start + 1].count
          <6>1. o = "MethodArgs"
            BY <1>4, <2>4, <5>1, CallScript
          <6>2. QED
            BY <1>1, <1>6, <6>1 DEF Complete, Advances
        <5>2. QED
          BY <5>1
      <4>3. QED
        BY <1>2, <1>3, <2>9, <4>1, <4>2, LaterFollows
    <3>3. QED
      BY <3>1, <3>2
  <2>11. PICK g : g = WithBlocks(f, WithLast(f.blocks, c))
    OBVIOUS
  <2>12. WithLast(f.blocks, c) \in Seq(Block)
    <3>1. f.blocks \in Seq(Block)
      BY <1>3, FrameTypes
    <3>2. QED
      BY <1>3, <2>9, <3>1, LastPut
  <2>13. /\ g \in Frame /\ Alike(f, g) /\ g.needResult = f.needResult /\ g.left = f.left
         /\ g.blocks = WithLast(f.blocks, c)
    BY <1>3, <2>11, <2>12, BlocksPut
  <2>14. PICK gs : gs = frames'
    OBVIOUS
  <2>15. gs = WithLast(frames, g)
    BY <1>1, <2>2, <2>11, <2>14 DEF SetOp, SetTop, WithLast, WithBlocks
  <2>16. Fit(gs, methodFrames, objects, scope) /\ Kept(frames, objects, gs, objects)
    BY <1>3, <2>9, <2>10, <2>13, <2>15, BlockMove
  <2>17. QED
    BY <2>2, <2>14, <2>16 DEF Moves
<1>7. QED
  BY <1>5, <1>6

LEMMA KeptTwice ==
  ASSUME NEW fs, NEW gs, NEW hs, NEW os, NEW v, NEW w, Len(fs) \in Nat, Len(gs) \in Nat,
         Kept(fs, os, gs, v), Kept(gs, v, hs, w), os \in Seq(Object),
         \A i \in 1 .. Len(fs) : i <= Len(hs) => i <= Len(gs) /\ gs[i].start = fs[i].start
  PROVE  Kept(fs, os, hs, w)
<1>1. ASSUME NEW i \in 1 .. Len(fs), i <= Len(hs)
      PROVE  Same(os, w, fs[i].start)
  <2>1. i <= Len(gs) /\ gs[i].start = fs[i].start /\ i \in 1 .. Len(gs)
    BY <1>1
  <2>2. Same(os, v, fs[i].start)
    BY <2>1 DEF Kept
  <2>3. Same(v, w, fs[i].start)
    BY <1>1, <2>1 DEF Kept
  <2>4. QED
    BY <2>2, <2>3 DEF Same
<1>2. QED
  BY <1>1 DEF Kept

\* A frame that begins
LEMMA NewFrames ==
  ASSUME program \in Programs, objects \in Seq(Object), NEW type \in Types,
         NEW sc \in 0 .. MaxFrames, NEW m \in 0 .. MaxBody, NEW e, e = NewFrame(type, sc, m)
  PROVE  /\ e \in Frame /\ e.type = type /\ ~ e.isMethod /\ ~ e.needResult /\ ~ e.needLoad
         /\ e.parent = sc /\ e.end = -1 /\ e.blocks = <<>>
<1>1. /\ 0 \in 0 .. 1 /\ -1 \in -1 .. MaxBody /\ <<>> \in Seq(Block) /\ Len(objects) \in Nat
  BY Limits
<1>2. QED
  BY <1>1 DEF NewFrame, Frame

\* It begins above n objects.
BeginsAt(e, n) == [e EXCEPT !.start = n]
LEMMA StartPut ==
  ASSUME NEW e \in Frame, NEW n \in Nat, NEW u, u = BeginsAt(e, n)
  PROVE  /\ u \in Frame /\ u.start = n /\ u.type = e.type /\ u.isMethod = e.isMethod
         /\ u.needResult = e.needResult /\ u.needLoad = e.needLoad /\ u.parent = e.parent
         /\ u.end = e.end /\ u.blocks = e.blocks
BY DEF BeginsAt, Frame

LEMMA ElementsMoves ==
  ASSUME IInv, ElementsOperand
  PROVE  Moves
<1>1. PICK n, f, b : n = Len(frames) /\ f = Top /\ b = Op
  OBVIOUS
<1>2. /\ frames # <<>> /\ Top.blocks # <<>> /\ ~ b.processed /\ b.ip <= Len(Script(b.op))
      /\ methodFrames' = methodFrames /\ scope' = scope
  BY <1>1 DEF ElementsOperand, AtOperand, Running
<1>3. /\ Tops(frames, methodFrames, objects, scope, n, f)
      /\ f.blocks # <<>> /\ b = Last(f.blocks) /\ f \in Frame /\ b \in Block
      /\ Current(b, objects) /\ objects \in Seq(Object) /\ ListsFit(objects)
      /\ frames \in Seq(Frame) /\ n \in Nat /\ n >= 1
  BY <1>1, <1>2, AtBlock
<1>4. PICK o : o = Script(b.op)[b.ip]
  OBVIOUS
<1>5. b.op \in Packages /\ b.ip = 3
  <2>1. /\ b.op \in Handlers /\ b.ip \in 1 .. Len(Script(b.op)) + 1 /\ Len(Script(b.op)) \in Nat
    BY <1>3, BlockFacts
  <2>2. b.ip \in 1 .. Len(Script(b.op))
    BY <1>2, <2>1
  <2>3. o \in {"PkgElements", "VarPkgElements"}
    BY <1>1, <1>4 DEF ElementsOperand
  <2>4. o \in {"PkgElements", "VarPkgElements"} => b.op \in Packages /\ b.ip = 3
    BY <1>4, <2>1, <2>2, OperandPlaces
  <2>5. QED
    BY <2>3, <2>4
<1>6. PICK w : w = IF b.op = "Package" THEN objects ELSE Append(Below(objects), Thing("len"))
  OBVIOUS
<1>7. PICK g : g = Mark(TRUE)
  OBVIOUS
<1>8. objects' = w
  BY <1>1, <1>6 DEF ElementsOperand
<1>9. PICK m \in 0 .. MaxBody :
        frames' = Append(WithLast(frames, g),
                         BeginsAt([NewFrame("Package", scope, m) EXCEPT !.needResult = TRUE], Len(w)))
  <2>1. PICK m \in 0 .. MaxBody :
          frames' = Append([frames EXCEPT ![Len(frames)] = Mark(TRUE)],
                           [NewFrame("Package", scope, m) EXCEPT !.needResult = TRUE,
                                                                 !.start = Len(w)])
    BY <1>1, <1>6 DEF ElementsOperand
  <2>2. QED
    BY <1>7, <2>1 DEF WithLast, BeginsAt
<1>10. PICK e : e = BeginsAt([NewFrame("Package", scope, m) EXCEPT !.needResult = TRUE], Len(w))
  OBVIOUS
<1>11. PICK c : c = [b EXCEPT !.processed = TRUE]
  OBVIOUS
<1>12. /\ c \in Block /\ c.op = b.op /\ c.ip = b.ip /\ c.start = b.start /\ c.wanted = b.wanted
       /\ c.processed /\ WithLast(f.blocks, c) \in Seq(Block)
  BY <1>3, <1>11, Marked
<1>13. g = WithBlocks(f, WithLast(f.blocks, c))
  BY <1>1, <1>3, <1>7, <1>11, MarkIs
<1>14. /\ g \in Frame /\ Alike(f, g) /\ g.needResult = f.needResult /\ g.left = f.left
       /\ g.blocks = WithLast(f.blocks, c)
  BY <1>3, <1>12, <1>13, BlocksPut
<1>15. /\ w \in Seq(Object) /\ ListsFit(w)
       /\ b.op = "Package" => w = objects
       /\ b.op = "VarPackage" =>
            /\ Len(w) = Len(objects) /\ w[Len(objects)].kind = "len"
            /\ \A j \in 1 .. Len(objects) - 1 : w[j] = objects[j]
  <2>1. CASE b.op = "Package"
    BY <1>3, <1>6, <2>1
  <2>2. CASE b.op = "VarPackage"
    <3>1. PICK x : x = Thing("len")
      OBVIOUS
    <3>2. "len" \in ObjectKinds
      BY DEF ObjectKinds
    <3>3. x \in Object /\ x.kind = "len"
      BY <3>1, <3>2, Things
    <3>4. PICK u, k : u = Below(objects) /\ k = Len(objects)
      OBVIOUS
    <3>5. objects # <<>> /\ k \in Nat /\ k >= 1
      <4>1. Base(b) \in Nat /\ Base(b) <= b.start /\ b.start \in Nat /\ b.start <= Len(objects)
        BY <1>3, BlockFacts
      <4>2. Adv(b.op) = 2
        BY <1>5, PackageScript
      <4>3. Base(b) = b.start - 2
        BY <1>5, <4>2 DEF Base
      <4>4. QED
        BY <1>3, <3>4, <4>1, <4>3
    <3>6. /\ u \in Seq(Object) /\ Len(u) = k - 1
          /\ \A j \in 1 .. k - 1 : u[j] = objects[j]
      BY <1>3, <3>4, <3>5, BlocksOf
    <3>7. ListsFit(u)
      <4>1. \A j \in 1 .. Len(u) : j \in 1 .. Len(objects) /\ u[j] = objects[j]
        BY <3>4, <3>5, <3>6
      <4>2. QED
        BY <1>3, <4>1 DEF ListsFit
    <3>8. w = Append(u, x)
      BY <1>6, <2>2, <3>1, <3>4
    <3>9. w \in Seq(Object) /\ ListsFit(w) /\ Grown(u, w, x)
      BY <3>3, <3>6, <3>7, <3>8, ObjectComes
    <3>10. /\ Len(w) = k /\ w[k] = x /\ \A j \in 1 .. k - 1 : w[j] = objects[j]
      BY <3>5, <3>6, <3>9 DEF Grown, Same
    <3>11. QED
      BY <2>2, <3>3, <3>4, <3>9, <3>10
  <2>3. QED
    BY <1>5, <2>1, <2>2 DEF Packages
<1>16. Follows(b, objects, c, w) /\ Len(w) = Len(objects) /\ PackageWaits(c, w, Len(w))
  BY <1>2, <1>3, <1>5, <1>12, <1>15, ElementsFollow
<1>17. PICK gs : gs = WithLast(frames, g)
  OBVIOUS
<1>18. Fit(gs, methodFrames, w, scope) /\ Kept(frames, objects, gs, w)
  BY <1>3, <1>12, <1>14, <1>15, <1>16, <1>17, BlockMove
<1>19. gs \in Seq(Frame) /\ Len(gs) = n /\ gs[n] = g /\ \A i \in 1 .. n - 1 : gs[i] = frames[i]
  <2>1. PutsTop(frames, n, g, gs)
    BY <1>1, <1>3, <1>14, <1>17 DEF PutsTop
  <2>2. QED
    BY <2>1, TopPut
<1>20. program \in Programs
  BY <1>3 DEF Tops
<1>21. Tops(gs, methodFrames, w, scope, n, g)
  BY <1>3, <1>18, <1>19, <1>20 DEF Tops
<1>22. /\ g.blocks # <<>> /\ Last(g.blocks) = c
  <2>1. f.blocks \in Seq(Block)
    BY <1>3, FrameTypes
  <2>2. Len(f.blocks) \in Nat /\ Len(f.blocks) >= 1
    BY <1>3, <2>1
  <2>3. WithLast(f.blocks, c) = Append(Below(f.blocks), c) /\ Below(f.blocks) \in Seq(Block)
    BY <1>3, <1>12, <2>1, Replaced, BlocksOf
  <2>4. QED
    BY <1>12, <1>14, <2>3 DEF Last
<1>23. /\ TopFine(g, w) /\ Typed(g) /\ n <= MaxFrames /\ Len(w) \in Nat /\ g.start <= Len(w)
       /\ (\A j \in 1 .. Len(g.blocks) : BlockPlaced(g, j) /\ Roomy(gs, n, g.blocks[j]))
       /\ methodFrames \in Seq({"method", "load"}) /\ scope \in 0 .. MaxFrames
  BY <1>21, TopFacts
<1>24. LowerFine(g, w, Len(w))
  BY <1>16, <1>22, <1>23 DEF TopFine, LowerFine
<1>25. PlacedAt(gs, n, g)
  BY <1>23 DEF PlacedAt
<1>26. /\ e \in Frame /\ e.type = "Package" /\ ~ e.isMethod /\ e.start = Len(w) /\ e.blocks = <<>>
       /\ e.end = -1
  <2>1. PICK a, u : a = NewFrame("Package", scope, m) /\ u = [a EXCEPT !.needResult = TRUE]
    OBVIOUS
  <2>2. "Package" \in Types
    BY DEF Types
  <2>3. a \in Frame /\ a.type = "Package" /\ ~ a.isMethod /\ a.end = -1 /\ a.blocks = <<>>
    BY <1>3, <1>20, <1>23, <2>1, <2>2, NewFrames
  <2>4. u \in Frame /\ u.type = "Package" /\ ~ u.isMethod /\ u.end = -1 /\ u.blocks = <<>>
    BY <2>1, <2>3 DEF Frame
  <2>5. e = BeginsAt(u, Len(w))
    BY <1>10, <2>1
  <2>6. Len(w) \in Nat
    BY <1>23
  <2>7. e \in Frame /\ e.start = Len(w) /\ e.type = u.type /\ e.isMethod = u.isMethod
        /\ e.end = u.end /\ e.blocks = u.blocks
    <3>1. PICK l : l = Len(w)
      OBVIOUS
    <3>2. u \in Frame /\ l \in Nat /\ e = BeginsAt(u, l)
      BY <2>4, <2>5, <2>6, <3>1
    <3>3. /\ e \in Frame /\ e.start = l /\ e.type = u.type /\ e.isMethod = u.isMethod
          /\ e.end = u.end /\ e.blocks = u.blocks
      BY <3>2, StartPut
    <3>4. QED
      BY <3>1, <3>3
  <2>8. QED
    BY <2>4, <2>7
<1>27. n < MaxFrames
  <2>1. Roomy(frames, n, b)
    BY <1>3, TopBlock
  <2>2. QED
    BY <1>5, <2>1 DEF Roomy, Framing, Packages
<1>28. Coming(g, e, w, n, methodFrames, methodFrames, scope, scope)
  <2>1. Linked(g, e)
    BY <1>22, <1>26 DEF Linked
  <2>2. Called(methodFrames, methodFrames, e)
    BY <1>26 DEF Called
  <2>3. QED
    BY <1>23, <1>26, <1>27, <2>1, <2>2 DEF Coming
<1>29. PICK hs : hs = Append(WithLast(gs, g), e)
  OBVIOUS
<1>30. Fit(hs, methodFrames, w, scope) /\ Kept(gs, w, hs, w)
  <2>1. Same(w, w, g.start)
    BY <1>23, SameRefl
  <2>2. Alike(g, g) /\ (g.left > 0 \/ g.blocks # <<>>)
    BY <1>22 DEF Alike
  <2>3. "literals" \notin AmlMay /\ g.type # "Package" => Level(g, Len(w)) = Level(g, Len(w))
    OBVIOUS
  <2>4. QED
    BY <1>14, <1>15, <1>21, <1>24, <1>25, <1>28, <1>29, <2>1, <2>2, <2>3, PushMove
<1>31. hs = frames'
  <2>1. WithLast(gs, g) = gs
    BY <1>19 DEF WithLast
  <2>2. QED
    BY <1>9, <1>10, <1>17, <1>29, <2>1
<1>32. Kept(frames, objects, hs, w)
  <2>1. \A i \in 1 .. n : gs[i].start = frames[i].start
    <3>1. g.start = f.start /\ f = frames[n]
      BY <1>3, <1>14 DEF Alike, Tops
    <3>2. QED
      BY <1>3, <1>19, <3>1
  <2>2. \A i \in 1 .. Len(frames) : i <= Len(hs) => i <= Len(gs) /\ gs[i].start = frames[i].start
    BY <1>1, <1>19, <2>1
  <2>3. QED
    BY <1>1, <1>3, <1>18, <1>19, <1>30, <2>2, KeptTwice
<1>33. QED
  BY <1>2, <1>8, <1>30, <1>31, <1>32 DEF Moves

\* The handler's operation is the one at the top, with its operands collected.
LEMMA AtHandling ==
  ASSUME IInv, AtHandler, NEW n, n = Len(frames), NEW f, f = Top, NEW b, b = Op
  PROVE  /\ Tops(frames, methodFrames, objects, scope, n, f)
         /\ f.blocks # <<>> /\ b = Last(f.blocks) /\ f \in Frame /\ b \in Block
         /\ Current(b, objects) /\ objects \in Seq(Object) /\ ListsFit(objects)
         /\ frames \in Seq(Frame) /\ n \in Nat /\ n >= 1
         /\ b.ip = Len(Script(b.op)) + 1 /\ program \in Programs /\ n <= MaxFrames
         /\ methodFrames \in Seq({"method", "load"}) /\ scope \in 0 .. MaxFrames
         /\ Base(b) \in Nat /\ Base(b) <= Len(objects) /\ Roomy(frames, n, b)
<1>1. frames # <<>> /\ Top.blocks # <<>> /\ b.ip = Len(Script(b.op)) + 1
  BY DEF AtHandler, Running
<1>2. /\ Tops(frames, methodFrames, objects, scope, n, f)
      /\ f.blocks # <<>> /\ b = Last(f.blocks) /\ f \in Frame /\ b \in Block
      /\ Current(b, objects) /\ objects \in Seq(Object) /\ ListsFit(objects)
      /\ frames \in Seq(Frame) /\ n \in Nat /\ n >= 1
  BY <1>1, AtBlock
<1>3. /\ n <= MaxFrames /\ methodFrames \in Seq({"method", "load"}) /\ scope \in 0 .. MaxFrames
  BY <1>2, TopFacts
<1>4. Base(b) \in Nat /\ Base(b) <= Len(objects) /\ Roomy(frames, n, b)
  BY <1>2, TopBlock
<1>5. program \in Programs
  BY DEF IInv
<1>6. QED
  BY <1>1, <1>2, <1>3, <1>4, <1>5

\* The frame without the block at its top
LEMMA TopDone ==
  ASSUME NEW f \in Frame, f.blocks # <<>>, NEW g, g = WithBlocks(f, Below(f.blocks))
  PROVE  /\ g \in Frame /\ Alike(f, g) /\ g.needResult = f.needResult /\ g.left = f.left
         /\ g.blocks = Below(f.blocks)
<1>1. f.blocks \in Seq(Block)
  BY FrameTypes
<1>2. PICK bs : bs = Below(f.blocks)
  OBVIOUS
<1>3. bs \in Seq(Block)
  BY <1>1, <1>2, BlocksOf
<1>4. QED
  BY <1>2, <1>3, BlocksPut

LEMMA DoneIs ==
  ASSUME frames \in Seq(Frame), NEW f, f = Top, frames # <<>>
  PROVE  Done(frames) = WithLast(frames, WithBlocks(f, Below(f.blocks)))
BY DEF Done, WithLast, WithBlocks, Top, Last

\* What is on the stack without the operands of a handler
LEMMA PoppedFacts ==
  ASSUME NEW b, Current(b, objects), ListsFit(objects), b.ip = Len(Script(b.op)) + 1,
         b.op \notin Packages, b.op # "Call", b.op # "TermArg", NEW v, v = Popped(b.op)
  PROVE  /\ v \in Seq(Object) /\ ListsFit(v) /\ Same(objects, v, Base(b)) /\ Len(v) = Base(b)
         /\ v = Take(objects, Base(b))
<1>1. Base(b) \in 0 .. Len(objects) /\ v = Take(objects, Base(b)) /\ objects \in Seq(Object)
  BY HandlerLeaves DEF Popped, Current
<1>2. v \in Seq(Object) /\ Len(v) = Base(b) /\ \A i \in 1 .. Base(b) : v[i] = objects[i]
  BY <1>1, Prefix
<1>3. Same(objects, v, Base(b))
  BY <1>1, <1>2 DEF Same
<1>4. ListsFit(v)
  <2>1. \A i \in 1 .. Len(v) : i \in 1 .. Len(objects) /\ v[i] = objects[i]
    BY <1>1, <1>2
  <2>2. QED
    BY <2>1 DEF ListsFit
<1>5. QED
  BY <1>1, <1>2, <1>3, <1>4

\* A statement yields nothing, if literals are no statements.
LEMMA NoYield ==
  ASSUME NEW fs, NEW ms, NEW os, NEW sc, NEW n, NEW f, Tops(fs, ms, os, sc, n, f),
         f.blocks # <<>>, NEW b, b = Last(f.blocks), "literals" \notin AmlMay,
         Len(f.blocks) = 1, f.type # "Package"
  PROVE  b.op # "TermArg" /\ ~ Yields(b.op, b.wanted)
<1>1. BlockPlaced(f, 1) /\ b = f.blocks[1] /\ program \in Programs
  BY TopBlock DEF Tops
<1>2. b.op \in StatementOps /\ ~ b.wanted
  BY <1>1 DEF BlockPlaced
<1>3. b.op \notin {"Debug", "String", "TermArg"}
  BY <1>1, <1>2, Limits
<1>4. QED
  BY <1>2, <1>3 DEF Yields

\* A handler leaves the frames alone, and on the stack what is below its operands and
\* maybe a result.
LEMMA HandlerMoves ==
  ASSUME NEW n, NEW f, Tops(frames, methodFrames, objects, scope, n, f),
         f.blocks # <<>>, NEW b, b = Last(f.blocks), b.op # "TermArg",
         NEW test \in BOOLEAN, test => Yields(b.op, b.wanted),
         NEW w, Leaves(objects, Base(b), test, w),
         NEW g, g = WithBlocks(f, Below(f.blocks)), NEW gs, gs = WithLast(frames, g)
  PROVE  Fit(gs, methodFrames, w, scope) /\ Kept(frames, objects, gs, w)
<1>1. f \in Frame /\ objects \in Seq(Object) /\ ListsFit(objects) /\ f.left = f.left
  BY TopFacts
<1>2. Base(b) \in 0 .. Len(objects)
  BY TopBlock
<1>3. /\ w \in Seq(Object) /\ ListsFit(w) /\ Same(objects, w, Base(b))
      /\ Objs(w, Base(b) + 1, Len(w)) /\ Len(w) = IF test THEN Base(b) + 1 ELSE Base(b)
  <2>1. LeftOver(objects, Base(b), test, w)
    BY <1>1, <1>2, Dropped
  <2>2. QED
    BY <2>1 DEF LeftOver
<1>4. /\ g \in Frame /\ Alike(f, g) /\ g.needResult = f.needResult /\ g.left = f.left
      /\ g.blocks = Below(f.blocks)
  BY <1>1, TopDone
<1>5. "literals" \notin AmlMay /\ Len(f.blocks) = 1 /\ f.type # "Package" => Len(w) = Base(b)
  <2>1. ASSUME "literals" \notin AmlMay, Len(f.blocks) = 1, f.type # "Package"
        PROVE  Len(w) = Base(b)
    <3>1. ~ Yields(b.op, b.wanted)
      BY <2>1, NoYield
    <3>2. ~ test
      BY <3>1
    <3>3. QED
      BY <1>3, <3>2
  <2>2. QED
    BY <2>1
<1>6. b.op = "TermArg" => Len(w) = Base(b) + 1
  OBVIOUS
<1>7. Len(f.blocks) = 1 \/ g.left <= f.left
  <2>1. f.left \in Int
    BY <1>1, FrameTypes
  <2>2. QED
    BY <1>4, <2>1
<1>8. QED
  BY <1>3, <1>4, <1>5, <1>6, <1>7, DoneMove

LEMMA OpMoves ==
  ASSUME IInv, HandleOp
  PROVE  Moves
<1>1. PICK n, f, b : n = Len(frames) /\ f = Top /\ b = Op
  OBVIOUS
<1>2. /\ Tops(frames, methodFrames, objects, scope, n, f)
      /\ f.blocks # <<>> /\ b = Last(f.blocks) /\ f \in Frame /\ b \in Block
      /\ Current(b, objects) /\ objects \in Seq(Object) /\ ListsFit(objects)
      /\ frames \in Seq(Frame) /\ n \in Nat /\ n >= 1 /\ b.ip = Len(Script(b.op)) + 1
      /\ Base(b) \in Nat /\ Base(b) <= Len(objects)
  BY <1>1, AtHandling DEF HandleOp
<1>3. PICK w, v, g, gs : /\ w = objects' /\ v = Popped(b.op) /\ g = WithBlocks(f, Below(f.blocks))
                         /\ gs = frames'
  OBVIOUS
<1>4. PICK test \in BOOLEAN : test <=> Yields(b.op, b.wanted)
  OBVIOUS
<1>5. gs = WithLast(frames, g) /\ methodFrames' = methodFrames /\ scope' = scope
  <2>1. frames # <<>> /\ gs = Done(frames) /\ methodFrames' = methodFrames /\ scope' = scope
    BY <1>1, <1>2, <1>3 DEF HandleOp
  <2>2. QED
    BY <1>1, <1>2, <1>3, <2>1, DoneIs
<1>6. b.op \notin Packages /\ b.op # "Call"
  BY <1>1 DEF HandleOp, Jumps, Packages
<1>7. w = v \o If1(test, <<Obj>>)
  BY <1>1, <1>3, <1>4 DEF HandleOp, Result, If1
<1>8. CASE b.op = "TermArg"
  <2>1. Len(Operands(b.op)) = 0 /\ Len(objects) = Base(b) + 1 /\ objects[Base(b) + 1].kind = "obj"
    BY <1>2, <1>8, TermTakes
  <2>2. ~ test
    BY <1>4, <1>8 DEF Yields, Expressions, Constants, Arithmetic, Comparisons, Conversions
  <2>3. v = objects
    BY <1>2, <1>3, <2>1 DEF Popped, Take
  <2>4. "obj" \in ObjectKinds
    BY DEF ObjectKinds
  <2>5. w = objects
    <3>1. Obj \in Object
      BY <2>4, Things DEF Obj
    <3>2. w = objects \o <<>>
      BY <1>7, <2>2, <2>3 DEF If1
    <3>3. QED
      BY <1>2, <3>1, <3>2, ConcatOne
  <2>6. /\ Same(objects, w, Base(b)) /\ Objs(w, Base(b) + 1, Len(w)) /\ Len(w) = Base(b) + 1
    BY <1>2, <2>1, <2>5, SameRefl DEF Objs
  <2>7. /\ g \in Frame /\ Alike(f, g) /\ g.needResult = f.needResult /\ g.left = f.left
        /\ g.blocks = Below(f.blocks)
    BY <1>2, <1>3, TopDone
  <2>8. f.left \in Int
    BY <1>2, FrameTypes
  <2>9. Len(f.blocks) = 1 \/ g.left <= f.left
    BY <2>7, <2>8
  <2>10. "literals" \notin AmlMay /\ Len(f.blocks) = 1 /\ f.type # "Package" => Len(w) = Base(b)
    BY <1>2, <1>8, NoYield
  <2>11. w \in Seq(Object) /\ ListsFit(w)
    BY <1>2, <2>5
  <2>12. Fit(gs, methodFrames, w, scope) /\ Kept(frames, objects, gs, w)
    BY <1>2, <1>5, <2>6, <2>7, <2>9, <2>10, <2>11, DoneMove
  <2>13. QED
    BY <1>3, <1>5, <2>12 DEF Moves
<1>9. CASE b.op # "TermArg"
  <2>1. v = Take(objects, Base(b))
    BY <1>2, <1>3, <1>6, <1>9, PoppedFacts
  <2>2. Leaves(objects, Base(b), test, w)
    BY <1>7, <2>1 DEF Leaves
  <2>3. test => Yields(b.op, b.wanted)
    BY <1>4
  <2>4. Fit(gs, methodFrames, w, scope) /\ Kept(frames, objects, gs, w)
    BY <1>2, <1>3, <1>5, <1>9, <2>2, <2>3, HandlerMoves
  <2>5. QED
    BY <1>3, <1>5, <2>4 DEF Moves
<1>10. QED
  BY <1>8, <1>9

LEMMA PackageMoves ==
  ASSUME IInv, HandlePackage
  PROVE  Moves
<1>1. PICK n, f, b : n = Len(frames) /\ f = Top /\ b = Op
  OBVIOUS
<1>2. /\ Tops(frames, methodFrames, objects, scope, n, f)
      /\ f.blocks # <<>> /\ b = Last(f.blocks) /\ f \in Frame /\ b \in Block
      /\ Current(b, objects) /\ objects \in Seq(Object) /\ ListsFit(objects)
      /\ frames \in Seq(Frame) /\ n \in Nat /\ n >= 1 /\ b.ip = Len(Script(b.op)) + 1
      /\ Base(b) \in Nat /\ Base(b) <= Len(objects)
  BY <1>1, AtHandling DEF HandlePackage
<1>3. PICK w, g, gs : w = objects' /\ g = WithBlocks(f, Below(f.blocks)) /\ gs = frames'
  OBVIOUS
<1>4. PICK test \in BOOLEAN : test <=> Yields(b.op, b.wanted)
  OBVIOUS
<1>5. gs = WithLast(frames, g) /\ methodFrames' = methodFrames /\ scope' = scope
  <2>1. frames # <<>> /\ gs = Done(frames) /\ methodFrames' = methodFrames /\ scope' = scope
    BY <1>1, <1>2, <1>3 DEF HandlePackage
  <2>2. QED
    BY <1>1, <1>2, <1>3, <2>1, DoneIs
<1>6. b.op \in Packages /\ b.op # "TermArg"
  BY <1>1 DEF HandlePackage, Packages
<1>7. w = Take(objects, b.start - 2) \o If1(test, <<Obj>>)
  BY <1>1, <1>3, <1>4 DEF HandlePackage, Result, If1
<1>8. Base(b) = b.start - 2
  BY <1>2, <1>6, PackageTakes
<1>9. Leaves(objects, Base(b), test, w)
  BY <1>7, <1>8 DEF Leaves
<1>10. test => Yields(b.op, b.wanted)
  BY <1>4
<1>11. Fit(gs, methodFrames, w, scope) /\ Kept(frames, objects, gs, w)
  BY <1>2, <1>3, <1>5, <1>6, <1>9, <1>10, HandlerMoves
<1>12. QED
  BY <1>3, <1>5, <1>11 DEF Moves

\* A handler leaves nothing but what is below its operands.
OperandsGo(b) ==
  /\ b.op \notin Packages \cup {"Call", "TermArg"} /\ objects' = Popped(b.op)
  /\ frames' = Done(frames) /\ UNCHANGED <<methodFrames, scope>>
LEMMA OperandsGone ==
  ASSUME IInv, AtHandler, NEW b, b = Op, OperandsGo(b)
  PROVE  Moves
<1>1. PICK n, f : n = Len(frames) /\ f = Top
  OBVIOUS
<1>2. /\ Tops(frames, methodFrames, objects, scope, n, f)
      /\ f.blocks # <<>> /\ b = Last(f.blocks) /\ f \in Frame /\ b \in Block
      /\ Current(b, objects) /\ objects \in Seq(Object) /\ ListsFit(objects)
      /\ frames \in Seq(Frame) /\ n \in Nat /\ n >= 1 /\ b.ip = Len(Script(b.op)) + 1
      /\ Base(b) \in Nat /\ Base(b) <= Len(objects)
  BY <1>1, AtHandling
<1>3. PICK w, g, gs : w = objects' /\ g = WithBlocks(f, Below(f.blocks)) /\ gs = frames'
  OBVIOUS
<1>4. PICK test \in BOOLEAN : ~ test
  OBVIOUS
<1>5. gs = WithLast(frames, g) /\ methodFrames' = methodFrames /\ scope' = scope
  <2>1. frames # <<>> /\ gs = Done(frames) /\ methodFrames' = methodFrames /\ scope' = scope
    BY <1>1, <1>2, <1>3 DEF OperandsGo
  <2>2. QED
    BY <1>1, <1>2, <1>3, <2>1, DoneIs
<1>6. b.op \notin Packages /\ b.op # "TermArg" /\ b.op # "Call" /\ w = Popped(b.op)
  BY <1>3 DEF OperandsGo
<1>7. w \in Seq(Object) /\ w = Take(objects, Base(b))
  BY <1>2, <1>6, PoppedFacts
<1>8. Leaves(objects, Base(b), test, w)
  <2>1. "obj" \in ObjectKinds
    BY DEF ObjectKinds
  <2>2. Obj \in Object
    BY <2>1, Things DEF Obj
  <2>3. w = w \o <<>>
    BY <1>7, <2>2, ConcatOne
  <2>4. If1(test, <<Obj>>) = <<>>
    BY <1>4 DEF If1
  <2>5. QED
    BY <1>7, <2>3, <2>4 DEF Leaves
<1>9. test => Yields(b.op, b.wanted)
  BY <1>4
<1>10. Fit(gs, methodFrames, w, scope) /\ Kept(frames, objects, gs, w)
  BY <1>2, <1>3, <1>5, <1>6, <1>8, <1>9, HandlerMoves
<1>11. QED
  BY <1>3, <1>5, <1>10 DEF Moves

LEMMA FalseMoves ==
  ASSUME IInv, WhileFalse
  PROVE  Moves
<1>1. PICK b : b = Op
  OBVIOUS
<1>2. OperandsGo(b) /\ AtHandler
  BY <1>1 DEF WhileFalse, OperandsGo, Packages
<1>3. QED
  BY <1>1, <1>2, OperandsGone

\* The operation of a statement that is no operand is alone in its frame.
LEMMA StatementAlone ==
  ASSUME NEW fs, NEW ms, NEW os, NEW sc, NEW n, NEW f, Tops(fs, ms, os, sc, n, f),
         f.blocks # <<>>, NEW b, b = Last(f.blocks), b.op \notin Expressions \cup {"Call", "TermArg"}
  PROVE  /\ Len(f.blocks) = 1 /\ f.type # "Package" /\ ~ b.wanted /\ Below(f.blocks) = <<>>
         /\ f.left < MaxBody
<1>1. BlockPlaced(f, Len(f.blocks)) /\ b = f.blocks[Len(f.blocks)]
  BY TopBlock
<1>2. Len(f.blocks) = 1 /\ f.type # "Package"
  BY <1>1 DEF BlockPlaced
<1>3. ~ b.wanted /\ f.left < MaxBody
  BY <1>1, <1>2 DEF BlockPlaced
<1>4. f.blocks \in Seq(Block)
  BY TopFacts DEF Typed
<1>5. Below(f.blocks) = <<>>
  <2>1. Below(f.blocks) \in Seq(Block) /\ Len(Below(f.blocks)) = 0
    BY <1>2, <1>4, BlocksOf
  <2>2. QED
    BY <2>1
<1>6. QED
  BY <1>2, <1>3, <1>5

\* A statement is over, but its frame, now g, gets a frame e above it.
Enters(n, f, b, g, e, w) ==
  /\ b.op \in Scopes \cup {"If", "While"} /\ w = Popped(b.op) /\ w = objects'
  /\ g \in Frame /\ Alike(f, g) /\ g.needResult = f.needResult /\ g.blocks = Below(f.blocks)
  /\ frames' = Append(WithLast(frames, g), e)
  /\ e \in Frame /\ e.start = Len(w) /\ e.blocks = <<>>
  /\ ~ e.isMethod /\ e.type # "Package" /\ (e.type = "While" => e.end \in 0 .. MaxBody - 1)
  /\ e.type = "Scope" => e.parent = scope /\ scope' = n + 1
  /\ e.type # "Scope" => scope' = scope
  /\ methodFrames' = methodFrames
LEMMA StatementEnters ==
  ASSUME IInv, AtHandler, NEW n, n = Len(frames), NEW f, f = Top, NEW b, b = Op,
         NEW g, NEW e, NEW w, Enters(n, f, b, g, e, w)
  PROVE  Moves
<1>1. /\ Tops(frames, methodFrames, objects, scope, n, f)
      /\ f.blocks # <<>> /\ b = Last(f.blocks) /\ f \in Frame /\ b \in Block
      /\ Current(b, objects) /\ objects \in Seq(Object) /\ ListsFit(objects)
      /\ b.ip = Len(Script(b.op)) + 1 /\ methodFrames \in Seq({"method", "load"})
      /\ Roomy(frames, n, b)
  BY AtHandling
<1>2. b.op \in Scopes \cup {"If", "While"} /\ w = Popped(b.op)
  BY DEF Enters
<1>3. /\ b.op \notin Packages /\ b.op # "Call" /\ b.op # "TermArg" /\ b.op \in Framing
      /\ b.op \notin Expressions
  BY <1>2 DEF Packages, Framing, Scopes, Expressions, Constants, Arithmetic, Comparisons,
              Conversions
<1>4. /\ Len(f.blocks) = 1 /\ f.type # "Package" /\ ~ b.wanted /\ Below(f.blocks) = <<>>
  BY <1>1, <1>3, StatementAlone
<1>5. /\ w \in Seq(Object) /\ ListsFit(w) /\ Same(objects, w, Base(b)) /\ Len(w) = Base(b)
  BY <1>1, <1>2, <1>3, PoppedFacts
<1>6. PICK gs, sd : gs = frames' /\ sd = scope'
  OBVIOUS
<1>7. /\ g \in Frame /\ Alike(f, g) /\ g.needResult = f.needResult /\ g.blocks = Below(f.blocks)
      /\ gs = Append(WithLast(frames, g), e) /\ methodFrames' = methodFrames /\ w = objects'
  BY <1>6 DEF Enters
<1>8. Coming(g, e, w, n, methodFrames, methodFrames, scope, sd)
  <2>1. e \in Frame /\ e.start = Len(w) /\ e.blocks = <<>> /\ ~ e.isMethod
    BY DEF Enters
  <2>2. Linked(g, e)
    <3>1. g.blocks = <<>> /\ g.type # "Package"
      BY <1>4, <1>7 DEF Alike
    <3>2. e.type # "Package" /\ (e.type = "While" => e.end \in 0 .. MaxBody - 1)
      BY DEF Enters
    <3>3. QED
      BY <2>1, <3>1, <3>2 DEF Linked
  <2>3. n < MaxFrames
    BY <1>1, <1>3 DEF Roomy
  <2>4. Called(methodFrames, methodFrames, e)
    BY <2>1 DEF Called
  <2>5. /\ e.type = "Scope" => e.parent = scope /\ sd = n + 1
        /\ e.type # "Scope" => sd = scope
    BY <1>6 DEF Enters
  <2>6. QED
    BY <1>1, <2>1, <2>2, <2>3, <2>4, <2>5 DEF Coming
<1>9. Fit(gs, methodFrames, w, sd) /\ Kept(frames, objects, gs, w)
  BY <1>1, <1>3, <1>4, <1>5, <1>7, <1>8, EnterMove
<1>10. QED
  BY <1>6, <1>7, <1>9 DEF Moves

LEMMA ScopeMoves ==
  ASSUME IInv, EnterScope
  PROVE  Moves
<1>1. PICK n, f, b, w, g : /\ n = Len(frames) /\ f = Top /\ b = Op
                           /\ w = Popped(b.op) /\ g = WithBlocks(f, Below(f.blocks))
  OBVIOUS
<1>2. /\ Tops(frames, methodFrames, objects, scope, n, f)
      /\ f.blocks # <<>> /\ b = Last(f.blocks) /\ f \in Frame /\ b \in Block
      /\ Current(b, objects) /\ objects \in Seq(Object) /\ ListsFit(objects)
      /\ frames \in Seq(Frame) /\ n \in Nat /\ n >= 1 /\ b.ip = Len(Script(b.op)) + 1
      /\ program \in Programs /\ scope \in 0 .. MaxFrames
  BY <1>1, AtHandling DEF EnterScope
<1>3. AtHandler /\ b.op \in Scopes
  BY <1>1 DEF EnterScope
<1>4. w = objects'
  BY <1>1 DEF EnterScope
<1>5. b.op \notin Packages /\ b.op # "Call" /\ b.op # "TermArg"
  BY <1>3 DEF Scopes, Packages
<1>6. w \in Seq(Object)
  BY <1>1, <1>2, <1>5, PoppedFacts
<1>7. PICK m \in 1 .. MaxBody :
        frames' = Append(Done(frames), [NewFrame("Scope", scope, m) EXCEPT !.start = Len(w)])
  BY <1>1 DEF EnterScope
<1>8. PICK a : a = NewFrame("Scope", scope, m)
  OBVIOUS
<1>9. PICK e : e = BeginsAt(a, Len(w))
  OBVIOUS
<1>10. /\ a \in Frame /\ a.type = "Scope" /\ ~ a.isMethod /\ a.parent = scope /\ a.blocks = <<>>
  <2>1. m \in 0 .. MaxBody /\ "Scope" \in Types
    BY <1>2, Limits DEF Types
  <2>2. QED
    BY <1>2, <1>8, <2>1, NewFrames
<1>11. /\ e \in Frame /\ e.type = "Scope" /\ ~ e.isMethod /\ e.parent = scope /\ e.blocks = <<>>
       /\ e.start = Len(w)
  <2>1. Len(w) \in Nat
    BY <1>6
  <2>2. /\ e \in Frame /\ e.start = Len(w) /\ e.type = a.type /\ e.isMethod = a.isMethod
       /\ e.parent = a.parent /\ e.blocks = a.blocks
    BY <1>9, <1>10, <2>1, StartPut
  <2>3. QED
    BY <1>10, <2>2, Zenon
<1>12. Enters(n, f, b, g, e, w)
  <2>1. /\ g \in Frame /\ Alike(f, g) /\ g.needResult = f.needResult /\ g.blocks = Below(f.blocks)
    BY <1>1, <1>2, TopDone
  <2>2. frames' = Append(WithLast(frames, g), e)
    <3>1. frames # <<>> /\ Done(frames) = WithLast(frames, g)
      BY <1>1, <1>2, DoneIs
    <3>2. QED
      BY <1>7, <1>8, <1>9, <3>1 DEF BeginsAt
  <2>3. scope' = n + 1 /\ methodFrames' = methodFrames
    BY <1>1 DEF EnterScope
  <2>4. QED
    BY <1>1, <1>3, <1>4, <1>11, <2>1, <2>2, <2>3 DEF Enters
<1>13. QED
  BY <1>1, <1>3, <1>12, StatementEnters

LEMMA IfMoves ==
  ASSUME IInv, HandleIf
  PROVE  Moves
<1>1. PICK n, f, b, w, g : /\ n = Len(frames) /\ f = Top /\ b = Op
                           /\ w = Popped(b.op) /\ g = WithBlocks(f, Below(f.blocks))
  OBVIOUS
<1>2. /\ Tops(frames, methodFrames, objects, scope, n, f)
      /\ f.blocks # <<>> /\ b = Last(f.blocks) /\ f \in Frame /\ b \in Block
      /\ Current(b, objects) /\ objects \in Seq(Object) /\ ListsFit(objects)
      /\ frames \in Seq(Frame) /\ n \in Nat /\ n >= 1 /\ b.ip = Len(Script(b.op)) + 1
      /\ program \in Programs /\ scope \in 0 .. MaxFrames
  BY <1>1, AtHandling DEF HandleIf
<1>3. AtHandler /\ b.op = "If" /\ w = objects' /\ methodFrames' = methodFrames /\ scope' = scope
  BY <1>1 DEF HandleIf
<1>4. CASE frames' = Done(frames)
  <2>1. OperandsGo(b)
    BY <1>1, <1>3, <1>4 DEF OperandsGo, Packages
  <2>2. QED
    BY <1>1, <1>3, <2>1, OperandsGone
<1>5. CASE \E m \in 1 .. MaxBody :
             frames' = Append(Done(frames), [NewFrame("If", 0, m) EXCEPT !.start = Len(w)])
  <2>1. w \in Seq(Object)
    BY <1>1, <1>2, <1>3, PoppedFacts DEF Packages
  <2>2. PICK m \in 1 .. MaxBody :
          frames' = Append(Done(frames), [NewFrame("If", 0, m) EXCEPT !.start = Len(w)])
    BY <1>5
  <2>3. PICK a, z : z = 0 /\ a = NewFrame("If", z, m)
    OBVIOUS
  <2>4. PICK l, e : l = Len(w) /\ e = BeginsAt(a, l)
    OBVIOUS
  <2>5. /\ a \in Frame /\ a.type = "If" /\ ~ a.isMethod /\ a.blocks = <<>>
    <3>1. m \in 0 .. MaxBody /\ "If" \in Types /\ z \in 0 .. MaxFrames
      BY <1>2, <2>3, Limits DEF Types
    <3>2. QED
      BY <1>2, <2>3, <3>1, NewFrames
  <2>6. /\ e \in Frame /\ e.type = "If" /\ ~ e.isMethod /\ e.blocks = <<>> /\ e.start = Len(w)
    <3>1. l \in Nat
      BY <2>1, <2>4
    <3>2. a \in Frame /\ e = BeginsAt(a, l)
      BY <2>4, <2>5
    <3>3. /\ e \in Frame /\ e.start = l /\ e.type = a.type /\ e.isMethod = a.isMethod
          /\ e.parent = a.parent /\ e.blocks = a.blocks
      BY <3>1, <3>2, StartPut
    <3>4. QED
      BY <2>4, <2>5, <3>3, Zenon
  <2>7. Enters(n, f, b, g, e, w)
    <3>1. /\ g \in Frame /\ Alike(f, g) /\ g.needResult = f.needResult /\ g.blocks = Below(f.blocks)
      BY <1>1, <1>2, TopDone
    <3>2. frames' = Append(WithLast(frames, g), e)
      <4>1. frames # <<>> /\ Done(frames) = WithLast(frames, g)
        BY <1>1, <1>2, DoneIs
      <4>2. QED
        BY <2>2, <2>3, <2>4, <4>1 DEF BeginsAt
    <3>3. QED
      BY <1>1, <1>3, <2>6, <3>1, <3>2 DEF Enters
  <2>8. QED
    BY <1>1, <1>3, <2>7, StatementEnters
<1>6. QED
  BY <1>1, <1>3, <1>4, <1>5 DEF HandleIf

\* The frame goes back to its While.
Back(f) == [f EXCEPT !.left = @ + 1, !.again = TRUE]
LEMMA BackFacts ==
  ASSUME NEW f \in Frame, f.blocks # <<>>, f.left < MaxBody, MaxBody \in Nat, NEW h, h = Back(f),
         NEW g, g = WithBlocks(h, Below(f.blocks))
  PROVE  /\ g \in Frame /\ Alike(f, g) /\ g.needResult = f.needResult
         /\ g.blocks = Below(f.blocks)
<1>1. f.blocks \in Seq(Block) /\ f.left \in 0 .. MaxBody
  BY FrameTypes
<1>2. f.left + 1 \in 0 .. MaxBody
  BY <1>1
<1>3. PICK u : u = [f EXCEPT !.left = @ + 1]
  OBVIOUS
<1>4. u \in Frame /\ Alike(f, u) /\ u.needResult = f.needResult /\ u.blocks = f.blocks
  BY <1>2, <1>3 DEF Frame, Alike
<1>5. h = [u EXCEPT !.again = TRUE]
  BY <1>3 DEF Back, Frame
<1>6. h \in Frame /\ Alike(u, h) /\ h.needResult = u.needResult /\ h.blocks = u.blocks
  BY <1>4, <1>5 DEF Frame, Alike
<1>7. PICK bs : bs = Below(f.blocks)
  OBVIOUS
<1>8. bs \in Seq(Block)
  BY <1>1, <1>7, BlocksOf
<1>9. /\ g \in Frame /\ Alike(h, g) /\ g.needResult = h.needResult /\ g.blocks = bs
  BY <1>6, <1>7, <1>8, BlocksPut
<1>10. Alike(f, g)
  BY <1>4, <1>6, <1>9 DEF Alike
<1>11. QED
  BY <1>4, <1>6, <1>7, <1>9, <1>10

\* A loop's body, with its end and its expiration
Body(e, a, x) == [[e EXCEPT !.end = a] EXCEPT !.exp = x]
PutsBody(e, a, x, u) ==
  e \in Frame /\ a \in -1 .. MaxBody /\ x \in 0 .. 1 /\ u = Body(e, a, x)
LEMMA BodyPut ==
  ASSUME NEW e, NEW a, NEW x, NEW u, PutsBody(e, a, x, u)
  PROVE  /\ u \in Frame /\ u.start = e.start /\ u.type = e.type /\ u.isMethod = e.isMethod
         /\ u.end = a /\ u.blocks = e.blocks
<1>1. PICK v : v = [e EXCEPT !.end = a]
  OBVIOUS
<1>5. e \in Frame /\ a \in -1 .. MaxBody /\ x \in 0 .. 1 /\ u = Body(e, a, x)
  BY DEF PutsBody
<1>2. /\ v \in Frame /\ v.start = e.start /\ v.type = e.type /\ v.isMethod = e.isMethod
      /\ v.end = a /\ v.blocks = e.blocks
  BY <1>1, <1>5 DEF Frame
<1>3. u = [v EXCEPT !.exp = x]
  BY <1>1, <1>5 DEF Body
<1>4. QED
  BY <1>2, <1>3, <1>5 DEF Frame

\* What a While leaves of the frames
LEMMA BackIs ==
  ASSUME frames \in Seq(Frame), NEW f, f = Top, f \in Frame, frames # <<>>, NEW h, h = Back(f),
         NEW g, g = WithBlocks(h, Below(f.blocks))
  PROVE  Done([frames EXCEPT ![Len(frames)] = h]) = WithLast(frames, g)
<1>1. PICK gs : gs = [frames EXCEPT ![Len(frames)] = h]
  OBVIOUS
<1>2. PICK n : n = Len(frames)
  OBVIOUS
<1>3. n \in Nat /\ n \in 1 .. n /\ DOMAIN frames = 1 .. n
  BY <1>2
<1>4. /\ DOMAIN gs = 1 .. n /\ gs[n] = h /\ Len(gs) = n
      /\ \A i \in 1 .. n : i # n => gs[i] = frames[i]
  BY <1>1, <1>2, <1>3
<1>5. h.blocks = f.blocks
  BY DEF Back, Frame
<1>6. PICK bs : bs = Below(f.blocks)
  OBVIOUS
<1>7. Done(gs) = [gs EXCEPT ![n].blocks = Below(@)]
  BY <1>2, <1>3, <1>4 DEF Done
<1>8. [gs EXCEPT ![n].blocks = Below(@)] = [gs EXCEPT ![n] = [h EXCEPT !.blocks = bs]]
  BY <1>3, <1>4, <1>5, <1>6
<1>9. [gs EXCEPT ![n] = g] = [frames EXCEPT ![n] = g]
  BY <1>1, <1>2, <1>3
<1>10. QED
  BY <1>1, <1>2, <1>6, <1>7, <1>8, <1>9 DEF WithLast, WithBlocks

\* The operation at the top is over, and what is above the base is unwound.
LEMMA DoneUnwinds ==
  ASSUME NEW n, NEW f, Tops(frames, methodFrames, objects, scope, n, f), frames \in Seq(Frame),
         f.blocks # <<>>, NEW b, b = Last(f.blocks), b.op # "TermArg",
         NEW w \in Seq(Object), ListsFit(w), Same(objects, w, Base(b)), Len(w) = Base(b),
         NEW g \in Frame, Alike(f, g), g.needResult = f.needResult,
         Len(f.blocks) = 1 \/ g.left <= f.left,
         g.blocks = Below(f.blocks), NEW gs, gs = WithLast(frames, g),
         Unwind(gs, methodFrames, w, scope)
  PROVE  Moves
<1>1. program \in Programs /\ n \in Nat /\ n >= 1 /\ Len(frames) = n /\ f = frames[n]
      /\ objects \in Seq(Object)
  BY TopFacts DEF Tops
<1>2. Base(b) \in Nat
  BY TopBlock
<1>3. Objs(w, Base(b) + 1, Len(w))
  BY <1>2 DEF Objs
<1>4. Fit(gs, methodFrames, w, scope) /\ Kept(frames, objects, gs, w)
  BY <1>3, DoneMove
<1>5. /\ gs \in Seq(Frame) /\ Len(gs) = n /\ gs[n] = g /\ \A i \in 1 .. n - 1 : gs[i] = frames[i]
  <2>1. PutsTop(frames, n, g, gs)
    BY <1>1 DEF PutsTop
  <2>2. QED
    BY <2>1, TopPut
<1>6. Len(gs) >= 1
  BY <1>1, <1>5
<1>7. /\ Fit(frames', methodFrames', objects', scope')
      /\ Kept(gs, w, frames', objects')
  BY <1>1, <1>4, <1>6, UnwindMoves
<1>8. \A i \in 1 .. n : gs[i].start = frames[i].start
  <2>1. g.start = f.start
    BY DEF Alike
  <2>2. QED
    BY <1>1, <1>5, <2>1
<1>9. \A i \in 1 .. Len(frames) : i <= Len(frames') => i <= Len(gs) /\ gs[i].start = frames[i].start
  BY <1>1, <1>5, <1>8
<1>10. PICK hs, v : hs = frames' /\ v = objects'
  OBVIOUS
<1>11. Kept(frames, objects, hs, v)
  BY <1>1, <1>4, <1>5, <1>7, <1>9, <1>10, KeptTwice
<1>12. QED
  BY <1>7, <1>10, <1>11 DEF Moves

LEMMA TrueMoves ==
  ASSUME IInv, WhileTrue
  PROVE  Moves
<1>1. PICK n, f, b, w, h : n = Len(frames) /\ f = Top /\ b = Op /\ w = Popped("While") /\ h = Back(f)
  OBVIOUS
<1>2. PICK g, fs : g = WithBlocks(h, Below(f.blocks)) /\ fs = [frames EXCEPT ![Len(frames)] = h]
  OBVIOUS
<1>3. AtHandler /\ b.op = "While"
  BY <1>1 DEF WhileTrue
<1>4. /\ Tops(frames, methodFrames, objects, scope, n, f)
      /\ f.blocks # <<>> /\ b = Last(f.blocks) /\ f \in Frame /\ b \in Block
      /\ Current(b, objects) /\ objects \in Seq(Object) /\ ListsFit(objects)
      /\ frames \in Seq(Frame) /\ n \in Nat /\ n >= 1 /\ b.ip = Len(Script(b.op)) + 1
      /\ program \in Programs /\ Base(b) \in Nat /\ Base(b) <= Len(objects)
  BY <1>1, <1>3, AtHandling
<1>5. b.op \notin Packages /\ b.op # "Call" /\ b.op # "TermArg" /\ b.op \notin Expressions
  BY <1>3 DEF Packages, Expressions, Constants, Arithmetic, Comparisons, Conversions
<1>6. Len(f.blocks) = 1 /\ f.type # "Package" /\ f.left < MaxBody
  BY <1>4, <1>5, StatementAlone
<1>7. /\ w \in Seq(Object) /\ ListsFit(w) /\ Same(objects, w, Base(b)) /\ Len(w) = Base(b)
  BY <1>1, <1>3, <1>4, <1>5, PoppedFacts
<1>8. MaxBody \in Nat /\ MaxFrames \in Nat
  BY <1>4, Limits
<1>9. /\ g \in Frame /\ Alike(f, g) /\ g.needResult = f.needResult /\ g.blocks = Below(f.blocks)
  BY <1>1, <1>2, <1>4, <1>6, <1>8, BackFacts
<1>10. frames # <<>>
  BY <1>1, <1>3 DEF AtHandler, Running
<1>11. Done(fs) = WithLast(frames, g)
  BY <1>1, <1>2, <1>4, <1>10, BackIs
<1>12. PICK gs : gs = Done(fs)
  OBVIOUS
<1>13. PICK x : x = IF f.prevEnd = f.left THEN f.prevExp ELSE 1
  OBVIOUS
<1>14. \/ Unwind(gs, methodFrames, w, scope)
       \/ /\ \E m \in 0 .. MaxBody :
               frames' = Append(gs, [NewFrame("While", 0, m) EXCEPT
                                       !.start = Len(w), !.end = f.left, !.exp = x])
          /\ objects' = w /\ methodFrames' = methodFrames /\ scope' = scope
  BY <1>1, <1>2, <1>12, <1>13 DEF WhileTrue, Back
<1>15. CASE Unwind(gs, methodFrames, w, scope)
  <2>1. gs = WithLast(frames, g)
    BY <1>11, <1>12
  <2>2. QED
    BY <1>4, <1>5, <1>6, <1>7, <1>9, <1>15, <2>1, DoneUnwinds
<1>16. CASE /\ \E m \in 0 .. MaxBody :
                 frames' = Append(gs, [NewFrame("While", 0, m) EXCEPT
                                         !.start = Len(w), !.end = f.left, !.exp = x])
            /\ objects' = w /\ methodFrames' = methodFrames /\ scope' = scope
  <2>1. PICK m \in 0 .. MaxBody :
          frames' = Append(gs, [NewFrame("While", 0, m) EXCEPT
                                  !.start = Len(w), !.end = f.left, !.exp = x])
    BY <1>16
  <2>2. PICK a, z : z = 0 /\ a = NewFrame("While", z, m)
    OBVIOUS
  <2>3. PICK c : c = BeginsAt(a, Len(w))
    OBVIOUS
  <2>4. PICK y : y = f.left
    OBVIOUS
  <2>5. PICK e : e = Body(c, y, x)
    OBVIOUS
  <2>6. /\ a \in Frame /\ a.type = "While" /\ ~ a.isMethod /\ a.blocks = <<>>
    <3>1. "While" \in Types /\ z \in 0 .. MaxFrames
      BY <1>8, <2>2 DEF Types
    <3>2. QED
      BY <1>4, <2>2, <3>1, NewFrames
  <2>7. /\ c \in Frame /\ c.type = "While" /\ ~ c.isMethod /\ c.blocks = <<>> /\ c.start = Len(w)
    <3>1. Len(w) \in Nat
      BY <1>7
    <3>2. /\ c \in Frame /\ c.start = Len(w) /\ c.type = a.type /\ c.isMethod = a.isMethod
          /\ c.blocks = a.blocks
      BY <2>3, <2>6, <3>1, StartPut
    <3>3. QED
      BY <2>6, <3>2, Zenon
  <2>8. y \in 0 .. MaxBody - 1 /\ y \in -1 .. MaxBody
    <3>1. f.left \in 0 .. MaxBody
      BY <1>4, FrameTypes
    <3>2. QED
      BY <1>6, <1>8, <2>4, <3>1
  <2>9. x \in 0 .. 1
    <3>1. f.prevExp \in 0 .. 1
      BY <1>4 DEF Frame
    <3>2. QED
      BY <1>13, <3>1
  <2>10. /\ e \in Frame /\ e.type = "While" /\ ~ e.isMethod /\ e.blocks = <<>> /\ e.start = Len(w)
         /\ e.end = y
    <3>1. /\ e \in Frame /\ e.start = c.start /\ e.type = c.type /\ e.isMethod = c.isMethod
          /\ e.end = y /\ e.blocks = c.blocks
      <4>1. c \in Frame /\ y \in -1 .. MaxBody /\ x \in 0 .. 1
        BY <2>7, <2>8, <2>9
      <4>2. e = Body(c, y, x)
        BY <2>5
      <4>3. QED
        <5>1. PutsBody(c, y, x, e)
          BY <4>1, <4>2 DEF PutsBody
        <5>2. QED
          BY <5>1, BodyPut
    <3>2. QED
      BY <2>7, <3>1, Zenon
  <2>11. frames' = Append(gs, e)
    <3>1. e = [[[a EXCEPT !.start = Len(w)] EXCEPT !.end = f.left] EXCEPT !.exp = x]
      BY <2>3, <2>4, <2>5 DEF BeginsAt, Body
    <3>2. e = [a EXCEPT !.start = Len(w), !.end = f.left, !.exp = x]
      BY <3>1
    <3>3. QED
      BY <2>1, <2>2, <3>2
  <2>12. Enters(n, f, b, g, e, w)
    <3>1. frames' = Append(WithLast(frames, g), e)
      BY <1>11, <1>12, <2>11
    <3>2. w = objects' /\ w = Popped(b.op) /\ b.op \in Scopes \cup {"If", "While"}
      BY <1>1, <1>3, <1>16
    <3>3. e.type # "Package" /\ (e.type = "While" => e.end \in 0 .. MaxBody - 1) /\ e.type # "Scope"
      BY <2>8, <2>10
    <3>4. QED
      BY <1>9, <1>16, <2>10, <3>1, <3>2, <3>3 DEF Enters
  <2>13. QED
    BY <1>1, <1>3, <2>12, StatementEnters
<1>17. QED
  BY <1>14, <1>15, <1>16

\* What an operation yields is waited for.
LEMMA WantedBelow ==
  ASSUME NEW fs, NEW ms, NEW os, NEW sc, NEW n, NEW f, Tops(fs, ms, os, sc, n, f),
         f.blocks # <<>>, NEW b, b = Last(f.blocks), b.wanted
  PROVE  Below(f.blocks) # <<>> \/ f.type = "Package"
<1>1. BlockPlaced(f, Len(f.blocks)) /\ b = f.blocks[Len(f.blocks)] /\ Len(f.blocks) >= 1
      /\ Len(f.blocks) \in Nat
  BY TopBlock
<1>2. Len(f.blocks) # 1 \/ f.type = "Package"
  BY <1>1 DEF BlockPlaced
<1>3. ASSUME Len(f.blocks) # 1
      PROVE  Below(f.blocks) # <<>>
  <2>1. f.blocks \in Seq(Block)
    BY TopFacts DEF Typed
  <2>2. Len(Below(f.blocks)) = Len(f.blocks) - 1
    BY <2>1, BlocksOf
  <2>3. Len(Below(f.blocks)) # 0
    BY <1>1, <1>3, <2>2
  <2>4. QED
    BY <2>3
<1>4. QED
  BY <1>2, <1>3

\* The frame e of a method or of a loaded table comes, above the objects w.
MethodComes(n, b, e, w) ==
  /\ b.op \in {"Call", "Load", "LoadTable"} /\ w = objects'
  /\ w \in Seq(Object) /\ ListsFit(w) /\ Same(objects, w, Base(b)) /\ Len(w) = Base(b)
  /\ e \in Frame /\ e.type = "Scope" /\ e.isMethod /\ e.start = Len(w) /\ e.blocks = <<>>
  /\ e.parent = scope /\ (e.needResult \/ e.needLoad => b.wanted)
  /\ frames' = Append(Done(frames), e) /\ scope' = n + 1
  /\ methodFrames' \in Seq({"method", "load"}) /\ Called(methodFrames, methodFrames', e)
LEMMA MethodEnters ==
  ASSUME IInv, AtHandler, NEW n, n = Len(frames), NEW f, f = Top, NEW b, b = Op,
         NEW e, NEW w, MethodComes(n, b, e, w)
  PROVE  Moves
<1>1. /\ Tops(frames, methodFrames, objects, scope, n, f)
      /\ f.blocks # <<>> /\ b = Last(f.blocks) /\ f \in Frame /\ frames \in Seq(Frame)
      /\ Roomy(frames, n, b)
  BY AtHandling
<1>2. b.op # "TermArg" /\ b.op \in Framing
  BY DEF MethodComes, Framing
<1>3. PICK g, gs, ls, sd : /\ g = WithBlocks(f, Below(f.blocks)) /\ gs = frames'
                           /\ ls = methodFrames' /\ sd = scope'
  OBVIOUS
<1>4. /\ g \in Frame /\ Alike(f, g) /\ g.needResult = f.needResult /\ g.left = f.left
      /\ g.blocks = Below(f.blocks)
  BY <1>1, <1>3, TopDone
<1>5. w \in Seq(Object) /\ ListsFit(w) /\ Same(objects, w, Base(b)) /\ Len(w) = Base(b)
  BY DEF MethodComes
<1>6. gs = Append(WithLast(frames, g), e)
  <2>1. gs = Append(Done(frames), e)
    BY <1>3 DEF MethodComes
  <2>2. frames # <<>>
    BY DEF AtHandler, Running
  <2>3. Done(frames) = WithLast(frames, g)
    BY <1>1, <1>3, <2>2, DoneIs
  <2>4. QED
    BY <2>1, <2>3
<1>7. Linked(g, e)
  <2>1. e.type = "Scope" /\ e.isMethod
    BY DEF MethodComes
  <2>2. ASSUME e.needResult \/ e.needLoad
        PROVE  g.blocks # <<>> \/ g.type = "Package"
    <3>1. b.wanted
      BY <2>2 DEF MethodComes
    <3>2. Below(f.blocks) # <<>> \/ f.type = "Package"
      BY <1>1, <3>1, WantedBelow
    <3>3. QED
      BY <1>4, <3>2 DEF Alike
  <2>3. QED
    BY <2>1, <2>2 DEF Linked
<1>8. Coming(g, e, w, n, methodFrames, ls, scope, sd)
  <2>1. e \in Frame /\ e.start = Len(w) /\ e.blocks = <<>>
    BY DEF MethodComes
  <2>2. n < MaxFrames
    BY <1>1, <1>2 DEF Roomy
  <2>3. ls \in Seq({"method", "load"}) /\ Called(methodFrames, ls, e)
    BY <1>3 DEF MethodComes
  <2>4. e.type = "Scope" /\ e.parent = scope /\ sd = n + 1
    BY <1>3 DEF MethodComes
  <2>5. QED
    BY <1>7, <2>1, <2>2, <2>3, <2>4 DEF Coming
<1>9. Len(f.blocks) = 1 \/ g.left <= f.left
  <2>1. f.left \in Int
    BY <1>1, FrameTypes
  <2>2. QED
    BY <1>4, <2>1
<1>10. Fit(gs, ls, w, sd) /\ Kept(frames, objects, gs, w)
  BY <1>1, <1>2, <1>4, <1>5, <1>6, <1>8, <1>9, EnterMove
<1>11. w = objects'
  BY DEF MethodComes
<1>12. QED
  BY <1>3, <1>10, <1>11 DEF Moves

\* A method's frame, or a loaded table's
MethodOf(e) == [e EXCEPT !.isMethod = TRUE]
ResultTo(e, t) == [e EXCEPT !.needResult = t]
LoadTo(e, t) == [e EXCEPT !.needLoad = t]
LEMMA MethodPut ==
  ASSUME NEW e \in Frame, NEW u, u = MethodOf(e)
  PROVE  /\ u \in Frame /\ u.start = e.start /\ u.type = e.type /\ u.parent = e.parent
         /\ u.blocks = e.blocks /\ u.isMethod = TRUE /\ u.needResult = e.needResult
         /\ u.needLoad = e.needLoad
BY DEF MethodOf, Frame

LEMMA ResultPut ==
  ASSUME NEW e \in Frame, NEW t \in BOOLEAN, NEW u, u = ResultTo(e, t)
  PROVE  /\ u \in Frame /\ u.start = e.start /\ u.type = e.type /\ u.parent = e.parent
         /\ u.blocks = e.blocks /\ u.isMethod = e.isMethod /\ u.needResult = t
         /\ u.needLoad = e.needLoad
BY DEF ResultTo, Frame

LEMMA LoadPut ==
  ASSUME NEW e \in Frame, NEW t \in BOOLEAN, NEW u, u = LoadTo(e, t)
  PROVE  /\ u \in Frame /\ u.start = e.start /\ u.type = e.type /\ u.parent = e.parent
         /\ u.blocks = e.blocks /\ u.isMethod = e.isMethod /\ u.needLoad = t
         /\ u.needResult = e.needResult
BY DEF LoadTo, Frame

\* One more method frame
LEMMA MethodAdded ==
  ASSUME NEW ms \in Seq({"method", "load"}), NEW x \in {"method", "load"}, NEW ls, ls = Append(ms, x),
         NEW e, e.isMethod, x = "load" => ~ e.needResult,
         Len(ms) # MaxDepth \/ ("loadAtLimit" \in AmlMay /\ x = "load")
  PROVE  ls \in Seq({"method", "load"}) /\ Called(ms, ls, e)
<1>1. /\ ls \in Seq({"method", "load"}) /\ Len(ls) = Len(ms) + 1 /\ ls[Len(ls)] = x
      /\ \A i \in 1 .. Len(ms) : ls[i] = ms[i]
  OBVIOUS
<1>2. QED
  BY <1>1 DEF Called

LEMMA LoadMoves ==
  ASSUME IInv, HandleLoad
  PROVE  Moves
<1>1. PICK n, f, b, w, ls : /\ n = Len(frames) /\ f = Top /\ b = Op
                            /\ w = Popped(b.op) /\ ls = methodFrames'
  OBVIOUS
<1>2. AtHandler /\ b.op \in {"Load", "LoadTable"}
  BY <1>1 DEF HandleLoad
<1>3. /\ Tops(frames, methodFrames, objects, scope, n, f)
      /\ f.blocks # <<>> /\ b = Last(f.blocks) /\ f \in Frame /\ b \in Block
      /\ Current(b, objects) /\ objects \in Seq(Object) /\ ListsFit(objects)
      /\ frames \in Seq(Frame) /\ n \in Nat /\ n >= 1 /\ b.ip = Len(Script(b.op)) + 1
      /\ program \in Programs /\ scope \in 0 .. MaxFrames
      /\ methodFrames \in Seq({"method", "load"}) /\ Roomy(frames, n, b)
  BY <1>1, <1>2, AtHandling
<1>4. b.op \notin Packages /\ b.op # "Call" /\ b.op # "TermArg"
  BY <1>2 DEF Packages
<1>5. w \in Seq(Object) /\ ListsFit(w) /\ Same(objects, w, Base(b)) /\ Len(w) = Base(b)
  BY <1>1, <1>3, <1>4, PoppedFacts
<1>6. PICK t \in BOOLEAN : t = b.wanted
  BY <1>3 DEF Block
<1>7. PICK m \in 0 .. MaxBody :
        frames' = Append(Done(frames),
                         [NewFrame("Scope", scope, m) EXCEPT
                            !.isMethod = TRUE, !.needLoad = t, !.start = Len(w)])
  BY <1>1, <1>6 DEF HandleLoad
<1>8. PICK a, v : a = NewFrame("Scope", scope, m) /\ v = MethodOf(a)
  OBVIOUS
<1>9. PICK y : y = LoadTo(v, t)
  OBVIOUS
<1>10. PICK e : e = BeginsAt(y, Len(w))
  OBVIOUS
<1>11. /\ a \in Frame /\ a.type = "Scope" /\ ~ a.needResult /\ a.parent = scope /\ a.blocks = <<>>
  <2>1. "Scope" \in Types
    BY DEF Types
  <2>2. QED
    BY <1>3, <1>8, <2>1, NewFrames
<1>12. /\ y \in Frame /\ y.type = a.type /\ y.isMethod = TRUE /\ y.needLoad = t
       /\ y.needResult = a.needResult /\ y.parent = a.parent /\ y.blocks = a.blocks
  <2>1. /\ v \in Frame /\ v.type = a.type /\ v.parent = a.parent /\ v.blocks = a.blocks
        /\ v.isMethod = TRUE /\ v.needResult = a.needResult
    BY <1>8, <1>11, MethodPut
  <2>2. /\ y \in Frame /\ y.type = v.type /\ y.parent = v.parent /\ y.blocks = v.blocks
        /\ y.isMethod = v.isMethod /\ y.needLoad = t /\ y.needResult = v.needResult
    BY <1>9, <2>1, LoadPut
  <2>3. QED
    BY <2>1, <2>2, Zenon
<1>13. /\ e \in Frame /\ e.start = Len(w) /\ e.type = y.type /\ e.isMethod = y.isMethod
       /\ e.needResult = y.needResult /\ e.needLoad = y.needLoad /\ e.parent = y.parent
       /\ e.blocks = y.blocks
  <2>1. Len(w) \in Nat
    BY <1>5
  <2>2. QED
    BY <1>10, <1>12, <2>1, StartPut
<1>14. /\ e \in Frame /\ e.start = Len(w) /\ e.type = "Scope" /\ e.isMethod /\ ~ e.needResult
       /\ (e.needLoad => b.wanted) /\ e.parent = scope /\ e.blocks = <<>>
  BY <1>6, <1>11, <1>12, <1>13, Zenon
<1>15. frames' = Append(Done(frames), e)
  <2>1. e = [[[a EXCEPT !.isMethod = TRUE] EXCEPT !.needLoad = t] EXCEPT !.start = Len(w)]
    BY <1>8, <1>9, <1>10 DEF BeginsAt, LoadTo, MethodOf
  <2>2. e = [a EXCEPT !.isMethod = TRUE, !.needLoad = t, !.start = Len(w)]
    BY <2>1
  <2>3. QED
    BY <1>7, <1>8, <2>2
<1>16. ls \in Seq({"method", "load"}) /\ Called(methodFrames, ls, e)
  <2>1. PICK x : x = "load"
    OBVIOUS
  <2>2. x \in {"method", "load"} /\ ls = Append(methodFrames, x)
    BY <1>1, <2>1 DEF HandleLoad
  <2>3. Len(methodFrames) # MaxDepth \/ ("loadAtLimit" \in AmlMay /\ x = "load")
    <3>1. Len(methodFrames) = Cardinality(MethodsIn(frames, 1, n))
      BY <1>3, TopFacts
    <3>2. QED
      BY <1>2, <1>3, <2>1, <3>1, LimitsAssumption DEF Roomy
  <2>4. QED
    BY <1>3, <1>14, <2>2, <2>3, MethodAdded
<1>17. MethodComes(n, b, e, w)
  <2>1. w = objects' /\ scope' = n + 1
    BY <1>1 DEF HandleLoad
  <2>2. QED
    BY <1>1, <1>2, <1>5, <1>14, <1>15, <1>16, <2>1 DEF MethodComes
<1>18. QED
  BY <1>1, <1>2, <1>17, MethodEnters

LEMMA CallMoves ==
  ASSUME IInv, HandleCall
  PROVE  Moves
<1>1. PICK n, f, b, w, ls, g : /\ n = Len(frames) /\ f = Top /\ b = Op
                               /\ w = Take(objects, b.start) /\ ls = methodFrames'
                               /\ g = WithBlocks(f, Below(f.blocks))
  OBVIOUS
<1>2. AtHandler /\ b.op = "Call"
  BY <1>1 DEF HandleCall
<1>3. /\ Tops(frames, methodFrames, objects, scope, n, f)
      /\ f.blocks # <<>> /\ b = Last(f.blocks) /\ f \in Frame /\ b \in Block
      /\ Current(b, objects) /\ objects \in Seq(Object) /\ ListsFit(objects)
      /\ frames \in Seq(Frame) /\ n \in Nat /\ n >= 1 /\ b.ip = Len(Script(b.op)) + 1
      /\ program \in Programs /\ scope \in 0 .. MaxFrames
      /\ methodFrames \in Seq({"method", "load"})
      /\ Base(b) \in Nat /\ Base(b) <= Len(objects)
  BY <1>1, <1>2, AtHandling
<1>4. Base(b) = b.start /\ b.start \in 0 .. Len(objects)
  <2>1. Base(b) = b.start
    BY <1>2, <1>3, CallTakes
  <2>2. QED
    BY <1>3, <2>1
<1>5. w \in Seq(Object) /\ ListsFit(w) /\ Same(objects, w, Base(b)) /\ Len(w) = Base(b)
  <2>1. w \in Seq(Object) /\ Len(w) = b.start /\ \A i \in 1 .. b.start : w[i] = objects[i]
    BY <1>1, <1>3, <1>4, Prefix
  <2>2. \A i \in 1 .. Len(w) : i \in 1 .. Len(objects) /\ w[i] = objects[i]
    BY <1>3, <1>4, <2>1
  <2>3. ListsFit(w)
    BY <1>3, <2>2 DEF ListsFit
  <2>4. Same(objects, w, b.start)
    BY <1>4, <2>1 DEF Same
  <2>5. QED
    BY <1>4, <2>1, <2>3, <2>4
<1>6. frames # <<>>
  BY <1>2 DEF AtHandler, Running
<1>7. CASE AtLimit
  <2>1. PICK gs : gs = Done(frames)
    OBVIOUS
  <2>2. Unwind(gs, methodFrames, w, scope)
    BY <1>1, <1>7, <2>1 DEF HandleCall
  <2>3. gs = WithLast(frames, g)
    BY <1>1, <1>3, <1>6, <2>1, DoneIs
  <2>4. /\ g \in Frame /\ Alike(f, g) /\ g.needResult = f.needResult /\ g.left = f.left
        /\ g.blocks = Below(f.blocks)
    BY <1>1, <1>3, TopDone
  <2>5. Len(f.blocks) = 1 \/ g.left <= f.left
    <3>1. f.left \in Int
      BY <1>3, FrameTypes
    <3>2. QED
      BY <2>4, <3>1
  <2>6. b.op # "TermArg"
    BY <1>2
  <2>7. QED
    BY <1>3, <1>5, <2>2, <2>3, <2>4, <2>5, <2>6, DoneUnwinds
<1>8. CASE ~ AtLimit
  <2>1. PICK t \in BOOLEAN : t = b.wanted
    BY <1>3 DEF Block
  <2>2. PICK m \in 0 .. MaxBody : frames' = Append(Done(frames), Callee(m))
    BY <1>8 DEF HandleCall
  <2>3. PICK a, v : a = NewFrame("Scope", scope, m) /\ v = MethodOf(a)
    OBVIOUS
  <2>4. PICK y : y = ResultTo(v, t)
    OBVIOUS
  <2>5. PICK k : k = b.start
    OBVIOUS
  <2>6. PICK e : e = BeginsAt(y, k)
    OBVIOUS
  <2>7. /\ a \in Frame /\ a.type = "Scope" /\ ~ a.needLoad /\ a.parent = scope /\ a.blocks = <<>>
    <3>1. "Scope" \in Types
      BY DEF Types
    <3>2. QED
      BY <1>3, <2>3, <3>1, NewFrames
  <2>8. /\ v \in Frame /\ v.type = a.type /\ v.parent = a.parent /\ v.blocks = a.blocks
        /\ v.isMethod = TRUE /\ v.needLoad = a.needLoad
    BY <2>3, <2>7, MethodPut
  <2>9. /\ y \in Frame /\ y.type = v.type /\ y.parent = v.parent /\ y.blocks = v.blocks
        /\ y.isMethod = v.isMethod /\ y.needResult = t /\ y.needLoad = v.needLoad
    BY <2>4, <2>8, ResultPut
  <2>10. /\ e \in Frame /\ e.start = k /\ e.type = y.type /\ e.isMethod = y.isMethod
         /\ e.needResult = y.needResult /\ e.needLoad = y.needLoad /\ e.parent = y.parent
         /\ e.blocks = y.blocks
    <3>1. k \in Nat
      BY <1>4, <2>5
    <3>2. QED
      BY <2>6, <2>9, <3>1, StartPut
  <2>11. /\ e \in Frame /\ e.type = "Scope" /\ e.isMethod /\ ~ e.needLoad
         /\ (e.needResult => b.wanted) /\ e.parent = scope /\ e.blocks = <<>>
    BY <2>1, <2>7, <2>8, <2>9, <2>10, Zenon
  <2>12. e.start = Len(w)
    BY <1>4, <1>5, <2>5, <2>10
  <2>13. frames' = Append(Done(frames), e)
    <3>1. e = [[[a EXCEPT !.isMethod = TRUE] EXCEPT !.needResult = t] EXCEPT !.start = k]
      BY <2>3, <2>4, <2>6 DEF BeginsAt, ResultTo, MethodOf
    <3>2. e = [a EXCEPT !.isMethod = TRUE, !.needResult = t, !.start = k]
      BY <3>1
    <3>3. e = Callee(m)
      BY <1>1, <2>1, <2>3, <2>5, <3>2 DEF Callee
    <3>4. QED
      BY <2>2, <3>3
  <2>14. ls \in Seq({"method", "load"}) /\ Called(methodFrames, ls, e)
    <3>1. PICK x : x = "method"
      OBVIOUS
    <3>2. x \in {"method", "load"} /\ x # "load" /\ ls = Append(methodFrames, x)
      BY <1>1, <1>8, <3>1 DEF HandleCall
    <3>3. Len(methodFrames) # MaxDepth
      BY <1>8 DEF AtLimit
    <3>4. x = "load" => ~ e.needResult
      BY <3>2
    <3>5. e.isMethod
      BY <2>11
    <3>6. QED
      BY <1>3, <3>2, <3>3, <3>4, <3>5, MethodAdded
  <2>15. MethodComes(n, b, e, w)
    <3>1. w = objects' /\ scope' = n + 1
      BY <1>1, <1>8 DEF HandleCall
    <3>2. QED
      BY <1>1, <1>2, <1>5, <2>11, <2>12, <2>13, <2>14, <3>1 DEF MethodComes
  <2>16. QED
    BY <1>1, <1>2, <2>15, MethodEnters
<1>9. QED
  BY <1>7, <1>8

-----------------------------------------------------------------------------
(* The end of a frame                                                      *)

\* What the frame f that ends gives to the one below, of the objects os
Ends(f, os, w) ==
  \/ Len(w) = f.start
  \/ Len(w) = Len(os)
  \/ f.isMethod /\ (f.needResult \/ f.needLoad)

LEMMA EndedExtra ==
  ASSUME NEW fs, NEW os, NEW gs, NEW w, NEW n \in Nat, Len(fs) = n, n >= 2, NEW k, k = n - 1,
         Balanced(fs, os), FramesLinked(fs), Twin(fs[k], gs[k]), Len(gs) = k,
         NEW f, f = fs[n], f.blocks = <<>>, Ends(f, os, w)
  PROVE  Extra(gs, k, Len(w))
<1>1. k \in 1 .. n - 1 /\ k \in Nat /\ k + 1 = n /\ k # n /\ n # 1 /\ fs # <<>>
  OBVIOUS
<1>2. PICK e, g, h : e = fs[k] /\ g = gs[k] /\ h = f.start
  OBVIOUS
<1>3. /\ g.type = e.type /\ g.isMethod = e.isMethod /\ g.start = e.start /\ g.blocks = e.blocks
      /\ g.needResult = e.needResult
  BY <1>2 DEF Twin, Kin
<1>4. Extra(fs, k, h) /\ Extra(fs, n, Len(os))
  BY <1>1, <1>2 DEF Balanced
<1>5. Linked(e, f)
  BY <1>1, <1>2 DEF FramesLinked
<1>6. SUFFICES ASSUME e.type # "Package"
               PROVE  \/ Level(g, Len(w)) = g.start
                      \/ Level(g, Len(w)) = g.start + 1 /\ g.isMethod /\ ~ g.needResult /\ k = 1
  BY <1>2, <1>3 DEF Extra
<1>7. \/ Level(e, h) = e.start
      \/ Level(e, h) = e.start + 1 /\ e.isMethod /\ ~ e.needResult /\ k = 1
  BY <1>1, <1>2, <1>4, <1>6 DEF Extra
<1>8. CASE e.blocks # <<>> \/ Len(w) = h
  <2>1. Level(g, Len(w)) = Level(e, h)
    BY <1>3, <1>8 DEF Level
  <2>2. QED
    BY <1>3, <1>7, <2>1
<1>9. CASE e.blocks = <<>> /\ Len(w) # h
  <2>1. f.type # "Package" /\ ~ (f.isMethod /\ (f.needResult \/ f.needLoad))
    BY <1>5, <1>6, <1>9 DEF Linked
  <2>2. Len(w) = Len(os)
    BY <1>2, <1>9, <2>1 DEF Ends
  <2>3. ~ (fs[n - 1].blocks # <<>> \/ fs[n - 1].type = "Package")
    BY <1>2, <1>6, <1>9
  <2>4. Level(f, Len(os)) = f.start
    BY <1>1, <1>4, <2>1, <2>3 DEF Extra
  <2>5. Len(os) = h
    BY <1>2, <2>4 DEF Level
  <2>6. QED
    BY <1>9, <2>2, <2>5
<1>10. QED
  BY <1>8, <1>9

\* The method frames and the current scope when the frame f ends
EndsTo(f, ms, sc, ls, sd) ==
  /\ f.isMethod => ls = Below(ms)
  /\ ~ f.isMethod => ls = ms
  /\ f.type = "Scope" => sd = f.parent
  /\ f.type # "Scope" => sd = sc

Ending(fs, n, k, f, ms, sc, ls, sd) ==
  /\ n \in Nat /\ n >= 1 /\ Len(fs) = n /\ k = n - 1 /\ f = fs[n]
  /\ ms \in Seq({"method", "load"}) /\ MethodsFit(fs, ms) /\ EndsTo(f, ms, sc, ls, sd)
LEMMA MethodsEnd ==
  ASSUME NEW fs, NEW n, NEW k, NEW f, NEW ms, NEW sc, NEW ls, NEW sd,
         Ending(fs, n, k, f, ms, sc, ls, sd)
  PROVE  /\ ls \in Seq({"method", "load"}) /\ Len(ls) = Cardinality(MethodsIn(fs, 1, k))
         /\ Len(ls) <= Len(ms) /\ \A i \in 1 .. Len(ls) : ls[i] = ms[i]
<1>0. /\ n \in Nat /\ n >= 1 /\ Len(fs) = n /\ k = n - 1 /\ f = fs[n]
      /\ ms \in Seq({"method", "load"}) /\ MethodsFit(fs, ms) /\ EndsTo(f, ms, sc, ls, sd)
  BY DEF Ending
<1>1. k \in 0 .. n /\ k + 1 = n /\ n \in Nat
  BY <1>0
<1>2. PICK c, d, a : /\ c = Cardinality(MethodsIn(fs, 1, k)) /\ d = Cardinality(MethodsIn(fs, n, n))
                     /\ a = Cardinality(MethodsIn(fs, 1, n))
  OBVIOUS
<1>3. c \in Nat /\ d \in Nat /\ a = c + d
  BY <1>1, <1>2, MethodsCount
<1>4. Len(ms) = a /\ Len(ms) \in Nat
  BY <1>2, <1>0 DEF MethodsFit
<1>5. (f.isMethod => d = 1) /\ (~ f.isMethod => d = 0)
  BY <1>2, <1>0, MethodsOne
<1>6. CASE f.isMethod
  <2>1. ls = Below(ms) /\ Len(ms) >= 1
    BY <1>3, <1>4, <1>5, <1>6, <1>0 DEF EndsTo
  <2>2. ms # <<>>
    BY <1>0, <2>1
  <2>3. /\ Below(ms) \in Seq({"method", "load"}) /\ Len(Below(ms)) = Len(ms) - 1
        /\ \A j \in 1 .. Len(ms) - 1 : Below(ms)[j] = ms[j]
    BY <1>0, <2>2, BlocksOf
  <2>4. Len(ls) = c /\ Len(ls) <= Len(ms)
    BY <1>3, <1>4, <1>5, <1>6, <2>1, <2>3
  <2>5. QED
    BY <1>2, <2>1, <2>3, <2>4
<1>7. CASE ~ f.isMethod
  <2>1. ls = ms
    BY <1>7, <1>0 DEF EndsTo
  <2>2. Len(ls) = c /\ Len(ls) <= Len(ms)
    BY <1>3, <1>4, <1>5, <1>7, <2>1
  <2>3. QED
    BY <1>2, <1>0, <2>1, <2>2
<1>8. QED
  BY <1>6, <1>7

\* What is left of the frames when the one at the top goes
Left(fs, n, gs) ==
  /\ gs \in Seq(Frame) /\ Len(gs) = n - 1
  /\ \A i \in 1 .. n - 2 : gs[i] = fs[i]
  /\ n >= 2 => Twin(fs[n - 1], gs[n - 1])

LEMMA FrameGoes ==
  ASSUME NEW fs, NEW ms, NEW os, NEW sc, NEW n, NEW f, Tops(fs, ms, os, sc, n, f), n >= 2,
         f.blocks = <<>>, NEW gs, Left(fs, n, gs),
         NEW w \in Seq(Object), ListsFit(w), Same(os, w, f.start), Objs(w, f.start + 1, Len(w)),
         Ends(f, os, w), NEW ls, NEW sd, EndsTo(f, ms, sc, ls, sd)
  PROVE  Fit(gs, ls, w, sd) /\ Kept(fs, os, gs, w)
<1>1. /\ program \in Programs /\ n \in Nat /\ Len(fs) = n /\ f = fs[n] /\ Fit(fs, ms, os, sc)
  BY DEF Tops
<1>2. /\ fs \in Seq(Frame) /\ f \in Frame /\ ms \in Seq({"method", "load"})
      /\ sc \in 0 .. MaxFrames
  BY TopFacts
<1>3. PICK k : k = n - 1
  OBVIOUS
<1>4. k \in Nat /\ k >= 1 /\ k < n /\ k + 1 = n /\ n >= 1
  BY <1>1, <1>3
<1>5. /\ gs \in Seq(Frame) /\ Len(gs) = k /\ \A i \in 1 .. k - 1 : gs[i] = fs[i]
  BY <1>1, <1>3 DEF Left
<1>6. Twin(fs[k], gs[k])
  BY <1>3 DEF Left
<1>7. MethodsFit(fs, ms) /\ FramesLinked(fs) /\ BlocksPlaced(fs)
  BY <1>1 DEF Fit
<1>8. /\ ls \in Seq({"method", "load"}) /\ Len(ls) = Cardinality(MethodsIn(fs, 1, k))
      /\ Len(ls) <= Len(ms) /\ \A i \in 1 .. Len(ls) : ls[i] = ms[i]
  <2>1. n \in Nat /\ n >= 1 /\ Len(fs) = n /\ k = n - 1 /\ f = fs[n]
    BY <1>1, <1>3, <1>4
  <2>2. ms \in Seq({"method", "load"}) /\ MethodsFit(fs, ms)
    BY <1>2, <1>7
  <2>3. Ending(fs, n, k, f, ms, sc, ls, sd)
    BY <2>1, <2>2 DEF Ending
  <2>4. QED
    BY <2>3, MethodsEnd
<1>9. sd \in 0 .. MaxFrames
  <2>1. f.parent \in 0 .. MaxFrames
    BY <1>2, FrameTypes
  <2>2. QED
    BY <1>2, <2>1 DEF EndsTo
<1>10. Change(fs, gs, k)
  <2>1. \A i \in 1 .. k - 1 : Twin(fs[i], gs[i])
    BY <1>5 DEF Twin, Kin
  <2>2. Alike(fs[k], gs[k])
    BY <1>6 DEF Twin, Kin, Alike
  <2>3. k \in 1 .. Len(fs) /\ k <= Len(gs)
    BY <1>1, <1>4, <1>5
  <2>4. QED
    BY <2>1, <2>2, <2>3 DEF Change
<1>11. \A j \in 1 .. Len(gs[k].blocks) :
         BlockPlaced(gs[k], j) /\ Roomy(fs, k, gs[k].blocks[j])
  <2>1. k \in 1 .. Len(fs)
    BY <1>1, <1>4
  <2>2. \A j \in 1 .. Len(fs[k].blocks) :
          BlockPlaced(fs[k], j) /\ Roomy(fs, k, fs[k].blocks[j])
    BY <1>7, <2>1 DEF BlocksPlaced
  <2>3. gs[k].blocks = fs[k].blocks /\ gs[k].type = fs[k].type
        /\ (gs[k].left = fs[k].left \/ Len(fs[k].blocks) = 0)
    BY <1>6 DEF Twin, Kin
  <2>4. QED
    BY <2>2, <2>3 DEF BlockPlaced
<1>12. "literals" \notin AmlMay => Extra(gs, k, Len(w))
  <2>1. ASSUME "literals" \notin AmlMay
        PROVE  Extra(gs, k, Len(w))
    <3>1. Balanced(fs, os)
      BY <1>1, <2>1 DEF Fit
    <3>2. QED
      BY <1>1, <1>3, <1>5, <1>6, <1>7, <3>1, EndedExtra
  <2>2. QED
    BY <2>1
<1>13. "leaveScope" \notin AmlMay => sd = ScopeNumber(fs, k)
  <2>1. ASSUME "leaveScope" \notin AmlMay
        PROVE  sd = ScopeNumber(fs, k)
    <3>1. ScopesFit(fs, sc)
      BY <1>1, <2>1 DEF Fit
    <3>2. CASE f.type = "Scope"
      <4>1. n \in 2 .. Len(fs) /\ fs[n].type = "Scope"
        BY <1>1, <3>2
      <4>2. fs[n].parent = ScopeNumber(fs, n - 1)
        BY <3>1, <4>1 DEF ScopesFit
      <4>3. QED
        BY <1>1, <1>3, <3>2, <4>2 DEF EndsTo
    <3>3. CASE f.type # "Scope"
      <4>1. fs # <<>>
        BY <1>1
      <4>2. sc = ScopeNumber(fs, n)
        BY <1>1, <3>1, <3>3, <4>1 DEF ScopesFit
      <4>3. fs[1].type = "Scope"
        BY <1>7, <4>1 DEF FramesLinked, BaseFrame
      <4>4. k \in 1 .. n /\ \A j \in k + 1 .. n : fs[j].type # "Scope"
        BY <1>1, <1>4, <3>3
      <4>5. ScopeNumber(fs, n) = ScopeNumber(fs, k)
        BY <1>1, <4>3, <4>4, ScopeSkip
      <4>6. QED
        BY <3>3, <4>2, <4>5 DEF EndsTo
    <3>4. QED
      BY <3>2, <3>3
  <2>2. QED
    BY <2>1
<1>14. StacksTyped(gs, ls, w, sd)
  BY <1>5, <1>8, <1>9 DEF StacksTyped
<1>15. /\ k < n /\ Kin(fs[k], gs[k])
       /\ Same(os, w, fs[k + 1].start) /\ Objs(w, fs[k + 1].start + 1, Len(w))
  BY <1>1, <1>4, <1>6 DEF Twin
<1>16. "leaveScope" \notin AmlMay =>
         (gs[k].left > 0 \/ gs[k].blocks # <<>> \/ gs[k].type # "Scope" => sd = ScopeNumber(fs, k))
  BY <1>13
<1>17. \/ k = n /\ Same(os, w, fs[n].start) /\ TopFine(gs[n], w)
       \/ /\ k < n /\ Kin(fs[k], gs[k])
          /\ Same(os, w, fs[k + 1].start) /\ Objs(w, fs[k + 1].start + 1, Len(w))
  BY <1>15
<1>18. Len(gs) = k /\ Len(fs) = n /\ k \in Nat /\ n \in Nat
  BY <1>1, <1>4, <1>5
<1>19. \A i \in 1 .. Len(ls) : ls[i] = ms[i]
  BY <1>8
<1>20. Len(ls) = Cardinality(MethodsIn(fs, 1, k))
  BY <1>8
<1>21. QED
  BY <1>1, <1>10, <1>11, <1>12, <1>14, <1>16, <1>17, <1>18, <1>19, <1>20, FitCut

\* An object may come on top.
LEMMA OneMore ==
  ASSUME NEW v \in Seq(Object), ListsFit(v), NEW test \in BOOLEAN, NEW w, w = v \o If1(test, <<Obj>>)
  PROVE  /\ w \in Seq(Object) /\ ListsFit(w) /\ Same(v, w, Len(v)) /\ Objs(w, Len(v) + 1, Len(w))
         /\ Len(w) = IF test THEN Len(v) + 1 ELSE Len(v)
<1>1. PICK a : a = Len(v)
  OBVIOUS
<1>2. a \in 0 .. Len(v)
  BY <1>1
<1>3. Take(v, a) = v
  BY <1>1 DEF Take
<1>4. Leaves(v, a, test, w)
  BY <1>3 DEF Leaves
<1>5. /\ w \in Seq(Object) /\ ListsFit(w) /\ Same(v, w, a) /\ Objs(w, a + 1, Len(w))
      /\ Len(w) = IF test THEN a + 1 ELSE a
  <2>1. LeftOver(v, a, test, w)
    BY <1>2, <1>4, Dropped
  <2>2. QED
    BY <2>1 DEF LeftOver
<1>6. QED
  BY <1>1, <1>5

\* The objects w have more objects above n than v, which has only such above a.
LEMMA ObjsMore ==
  ASSUME NEW os \in Seq(Object), NEW v \in Seq(Object), NEW w \in Seq(Object), NEW a \in Nat,
         Same(os, v, a), Objs(v, a + 1, Len(v)), Same(v, w, Len(v)), Objs(w, Len(v) + 1, Len(w))
  PROVE  Same(os, w, a) /\ Objs(w, a + 1, Len(w))
<1>1. Len(os) \in Nat /\ Len(v) \in Nat /\ Len(w) \in Nat
  OBVIOUS
<1>2. Same(os, w, a)
  BY <1>1 DEF Same
<1>3. ASSUME NEW i \in a + 1 .. Len(w)
      PROVE  w[i].kind = "obj"
  <2>1. CASE i <= Len(v)
    <3>1. i \in a + 1 .. Len(v) /\ i \in 1 .. Len(v)
      BY <1>1, <2>1
    <3>2. w[i] = v[i] /\ v[i].kind = "obj"
      BY <3>1 DEF Same, Objs
    <3>3. QED
      BY <3>2
  <2>2. CASE i > Len(v)
    <3>1. i \in Len(v) + 1 .. Len(w)
      BY <1>1, <2>2
    <3>2. QED
      BY <3>1 DEF Objs
  <2>3. QED
    BY <1>1, <2>1, <2>2
<1>4. QED
  BY <1>2, <1>3 DEF Objs

\* What the frame f at the end leaves of the objects: a load's result, or a method's
EndLoad(f, load, os, v) ==
  /\ load => v = Take(os, f.start) \o If1(f.needLoad, <<Obj>>)
  /\ ~ load => v = os
LEMMA EndedObjects ==
  ASSUME NEW fs, NEW ms, NEW os, NEW sc, NEW n, NEW f, Tops(fs, ms, os, sc, n, f),
         f.blocks = <<>>, NEW load \in BOOLEAN, load => f.isMethod, NEW v, EndLoad(f, load, os, v),
         NEW result \in BOOLEAN, result => f.isMethod /\ f.needResult,
         NEW w, w = v \o If1(result, <<Obj>>)
  PROVE  /\ w \in Seq(Object) /\ ListsFit(w) /\ Same(os, w, f.start)
         /\ Objs(w, f.start + 1, Len(w)) /\ Ends(f, os, w)
<1>1. /\ f \in Frame /\ TopFine(f, os) /\ os \in Seq(Object) /\ ListsFit(os) /\ f.start \in Nat
      /\ f.start <= Len(os) /\ Len(os) \in Nat
  BY TopFacts
<1>2. f.needLoad \in BOOLEAN
  BY <1>1, FrameTypes
<1>3. Objs(os, f.start + 1, Len(os))
  BY <1>1 DEF TopFine, FrameFine, Level
<1>4. PICK a : a = f.start
  OBVIOUS
<1>5. /\ v \in Seq(Object) /\ ListsFit(v) /\ Same(os, v, a) /\ Objs(v, a + 1, Len(v))
      /\ (Len(v) = a \/ Len(v) = Len(os) \/ (f.isMethod /\ f.needLoad))
  <2>1. CASE load
    <3>1. PICK t \in BOOLEAN : t = f.needLoad
      BY <1>2
    <3>2. Leaves(os, a, t, v)
      BY <1>4, <2>1, <3>1 DEF EndLoad, Leaves
    <3>3. a \in 0 .. Len(os)
      BY <1>1, <1>4
    <3>4. /\ v \in Seq(Object) /\ ListsFit(v) /\ Same(os, v, a) /\ Objs(v, a + 1, Len(v))
          /\ Len(v) = IF t THEN a + 1 ELSE a
      <4>1. LeftOver(os, a, t, v)
        BY <1>1, <3>2, <3>3, Dropped
      <4>2. QED
        BY <4>1 DEF LeftOver
    <3>5. CASE t
      <4>1. f.isMethod /\ f.needLoad
        BY <2>1, <3>1, <3>5
      <4>2. QED
        BY <3>4, <4>1
    <3>6. CASE ~ t
      <4>1. Len(v) = a
        BY <3>4, <3>6
      <4>2. QED
        BY <3>4, <4>1
    <3>7. QED
      BY <3>5, <3>6
  <2>2. CASE ~ load
    <3>1. v = os
      BY <2>2 DEF EndLoad
    <3>2. QED
      BY <1>1, <1>3, <1>4, <3>1, SameRefl
  <2>3. QED
    BY <2>1, <2>2
<1>6. /\ w \in Seq(Object) /\ ListsFit(w) /\ Same(v, w, Len(v)) /\ Objs(w, Len(v) + 1, Len(w))
      /\ Len(w) = IF result THEN Len(v) + 1 ELSE Len(v)
  BY <1>5, OneMore
<1>7. Same(os, w, a) /\ Objs(w, a + 1, Len(w))
  <2>1. a \in Nat
    BY <1>1, <1>4
  <2>2. QED
    BY <1>1, <1>5, <1>6, <2>1, ObjsMore
<1>8. Ends(f, os, w)
  <2>1. CASE result
    BY <2>1 DEF Ends
  <2>2. CASE ~ result
    <3>1. Len(w) = Len(v)
      BY <1>6, <2>2
    <3>2. QED
      BY <1>4, <1>5, <3>1 DEF Ends
  <2>3. QED
    BY <2>1, <2>2
<1>9. QED
  BY <1>4, <1>6, <1>7, <1>8

\* A loop's end and expiration are left with the frame below.
Leave(e, a, x) == [[e EXCEPT !.prevEnd = a] EXCEPT !.prevExp = x]
LEMMA LeavePut ==
  ASSUME NEW e \in Frame, NEW a \in -1 .. MaxBody, NEW x \in 0 .. 1, NEW u, u = Leave(e, a, x)
  PROVE  u \in Frame /\ Twin(e, u)
<1>1. PICK v : v = [e EXCEPT !.prevEnd = a]
  OBVIOUS
<1>2. v \in Frame /\ Twin(e, v)
  BY <1>1 DEF Frame, Twin, Kin
<1>3. u = [v EXCEPT !.prevExp = x]
  BY <1>1 DEF Leave
<1>4. u \in Frame /\ Twin(v, u)
  BY <1>2, <1>3 DEF Frame, Twin, Kin
<1>5. QED
  BY <1>2, <1>4 DEF Twin, Kin

LEMMA BelowLeft ==
  ASSUME NEW fs \in Seq(Frame), NEW n \in Nat, n >= 1, Len(fs) = n
  PROVE  Left(fs, n, Below(fs))
<1>1. fs # <<>>
  OBVIOUS
<1>2. PICK hs : hs = Below(fs)
  OBVIOUS
<1>3. hs \in Seq(Frame) /\ Len(hs) = n - 1 /\ \A j \in 1 .. n - 1 : hs[j] = fs[j]
  BY <1>1, <1>2, BlocksOf
<1>4. n >= 2 => Twin(fs[n - 1], hs[n - 1])
  <2>1. ASSUME n >= 2
        PROVE  hs[n - 1] = fs[n - 1]
    BY <1>3, <2>1
  <2>2. QED
    BY <2>1 DEF Twin, Kin
<1>5. \A j \in 1 .. n - 2 : hs[j] = fs[j]
  BY <1>3
<1>6. QED
  BY <1>2, <1>3, <1>4, <1>5 DEF Left

LEMMA ParentLeft ==
  ASSUME frames \in Seq(Frame), NEW n, n = Len(frames), n >= 2, NEW f, f = frames[n],
         NEW gs, gs = Parent(f)
  PROVE  Left(frames, n, gs)
<1>1. n \in Nat /\ n - 1 \in 1 .. n - 1 /\ f \in Frame /\ n - 1 \in 1 .. n
  OBVIOUS
<1>2. PICK hs, k : hs = Below(frames) /\ k = n - 1
  OBVIOUS
<1>3. Left(frames, n, hs)
  BY <1>1, <1>2, BelowLeft
<1>4. CASE f.type # "While"
  <2>1. gs = hs
    BY <1>2, <1>4 DEF Parent
  <2>2. QED
    BY <1>3, <2>1
<1>5. CASE f.type = "While"
  <2>1. PICK e, a, x : e = hs[k] /\ a = f.end /\ x = f.exp
    OBVIOUS
  <2>2. /\ hs \in Seq(Frame) /\ Len(hs) = k /\ (\A i \in 1 .. n - 2 : hs[i] = frames[i])
        /\ Twin(frames[n - 1], hs[n - 1])
    BY <1>2, <1>3 DEF Left
  <2>3. k \in Nat /\ k \in 1 .. k /\ k - 1 = n - 2 /\ k = n - 1
    BY <1>1, <1>2
  <2>4. e \in Frame
    BY <2>1, <2>2, <2>3
  <2>5. PICK u : u = Leave(e, a, x)
    OBVIOUS
  <2>6. a \in -1 .. MaxBody /\ x \in 0 .. 1
    BY <1>1, <2>1 DEF Frame
  <2>7. u \in Frame /\ Twin(e, u)
    BY <2>4, <2>5, <2>6, LeavePut
  <2>8. gs = [hs EXCEPT ![k] = u]
    <3>1. gs = [[hs EXCEPT ![k].prevEnd = a] EXCEPT ![k].prevExp = x]
      BY <1>2, <1>5, <2>1 DEF Parent
    <3>2. PICK y : y = [e EXCEPT !.prevEnd = a]
      OBVIOUS
    <3>3. PICK ys : ys = [hs EXCEPT ![k] = y]
      OBVIOUS
    <3>4. [hs EXCEPT ![k].prevEnd = a] = ys
      BY <2>1, <3>2, <3>3
    <3>5. ys[k] = y /\ ys \in [1 .. k -> Frame \cup {y}]
      BY <2>2, <2>3, <3>3
    <3>6. [ys EXCEPT ![k].prevExp = x] = [ys EXCEPT ![k] = u]
      BY <2>5, <3>2, <3>5 DEF Leave
    <3>7. [ys EXCEPT ![k] = u] = [hs EXCEPT ![k] = u]
      BY <2>2, <2>3, <3>3
    <3>8. QED
      BY <3>1, <3>4, <3>6, <3>7
  <2>9. /\ gs \in Seq(Frame) /\ Len(gs) = k /\ gs[k] = u
        /\ \A i \in 1 .. k - 1 : gs[i] = hs[i]
    BY <2>2, <2>3, <2>7, <2>8
  <2>10. \A i \in 1 .. n - 2 : gs[i] = frames[i]
    BY <2>2, <2>3, <2>9
  <2>11. Twin(frames[n - 1], gs[n - 1])
    <3>1. Twin(frames[k], hs[k])
      BY <2>2, <2>3
    <3>2. Twin(frames[k], u)
      BY <2>1, <2>7, <3>1 DEF Twin, Kin
    <3>3. QED
      BY <2>3, <2>9, <3>2
  <2>12. QED
    BY <2>3, <2>9, <2>10, <2>11 DEF Left
<1>6. QED
  BY <1>4, <1>5

\* One object at most is left when the base frame ends.
LEMMA BaseEnds ==
  ASSUME NEW fs, NEW ms, NEW os, NEW sc, NEW n, NEW f, Tops(fs, ms, os, sc, n, f), n = 1,
         f.blocks = <<>>, "literals" \notin AmlMay, NEW load \in BOOLEAN, NEW v,
         EndLoad(f, load, os, v), NEW result \in BOOLEAN, result <=> f.isMethod /\ f.needResult,
         NEW w, w = v \o If1(result, <<Obj>>)
  PROVE  Len(w) <= 1
<1>1. /\ os \in Seq(Object) /\ ListsFit(os) /\ Len(os) \in Nat /\ Len(fs) = 1 /\ f = fs[1]
      /\ Extra(fs, n, Len(os)) /\ f \in Frame /\ fs \in Seq(Frame)
  BY TopFacts
<1>2. BaseFrame(f)
  <2>1. FramesLinked(fs)
    BY DEF Tops, Fit
  <2>2. fs # <<>>
    <3>1. Len(fs) # 0
      BY <1>1
    <3>2. QED
      BY <3>1
  <2>3. QED
    BY <1>1, <2>1, <2>2 DEF FramesLinked
<1>3. f.type # "Package" /\ f.start = 0 /\ ~ f.needLoad
  BY <1>2 DEF BaseFrame
<1>4. Level(f, Len(os)) = Len(os)
  BY DEF Level
<1>5. Len(os) = 0 \/ (Len(os) = 1 /\ ~ f.needResult)
  BY <1>1, <1>3, <1>4 DEF Extra
<1>6. v \in Seq(Object) /\ ListsFit(v) /\ (Len(v) = 0 \/ Len(v) = Len(os))
  <2>1. CASE load
    <3>1. PICK t \in BOOLEAN : ~ t /\ t = f.needLoad
      <4>1. f.needLoad \in BOOLEAN
        BY <1>1, FrameTypes
      <4>2. QED
        BY <1>3, <4>1
    <3>7. PICK a : a = f.start
      OBVIOUS
    <3>2. Leaves(os, a, t, v)
      BY <2>1, <3>1, <3>7 DEF EndLoad, Leaves
    <3>3. a \in 0 .. Len(os) /\ a = 0
      BY <1>1, <1>3, <3>7
    <3>4. /\ v \in Seq(Object) /\ ListsFit(v) /\ Same(os, v, a) /\ Objs(v, a + 1, Len(v))
          /\ Len(v) = IF t THEN a + 1 ELSE a
      <4>1. LeftOver(os, a, t, v)
        BY <1>1, <3>2, <3>3, Dropped
      <4>2. QED
        BY <4>1 DEF LeftOver
    <3>5. Len(v) = a
      BY <3>1, <3>4
    <3>6. QED
      BY <3>3, <3>4, <3>5
  <2>2. CASE ~ load
    <3>1. v = os
      BY <2>2 DEF EndLoad
    <3>2. QED
      BY <1>1, <3>1
  <2>3. QED
    BY <2>1, <2>2
<1>7. Len(w) = IF result THEN Len(v) + 1 ELSE Len(v)
  BY <1>6, OneMore
<1>8. CASE result
  <2>1. Len(os) = 0
    BY <1>5, <1>8
  <2>2. Len(w) = Len(v) + 1
    BY <1>7, <1>8
  <2>3. Len(v) = 0
    BY <1>6, <2>1
  <2>4. QED
    BY <2>2, <2>3
<1>9. CASE ~ result
  <2>1. Len(w) = Len(v)
    BY <1>7, <1>9
  <2>2. Len(v) <= 1
    BY <1>5, <1>6
  <2>3. QED
    BY <2>1, <2>2
<1>10. QED
  BY <1>8, <1>9

LEMMA BaseGoes ==
  ASSUME NEW fs, NEW ms, NEW os, NEW sc, NEW n, NEW f, Tops(fs, ms, os, sc, n, f), n = 1,
         NEW gs, gs = <<>>, NEW w \in Seq(Object), ListsFit(w),
         "literals" \notin AmlMay => Len(w) <= 1,
         NEW ls, NEW sd, EndsTo(f, ms, sc, ls, sd)
  PROVE  Fit(gs, ls, w, sd) /\ Kept(fs, os, gs, w)
<1>1. /\ f \in Frame /\ ms \in Seq({"method", "load"}) /\ sc \in 0 .. MaxFrames /\ Len(fs) = 1
      /\ f = fs[1] /\ program \in Programs
  BY TopFacts DEF Tops
<1>2. MethodsFit(fs, ms)
  BY DEF Tops, Fit
<1>3. PICK k : k = 0
  OBVIOUS
<1>4. Ending(fs, n, k, f, ms, sc, ls, sd)
  BY <1>1, <1>2, <1>3 DEF Ending
<1>5. /\ ls \in Seq({"method", "load"}) /\ Len(ls) = Cardinality(MethodsIn(fs, 1, k))
      /\ Len(ls) <= Len(ms) /\ \A i \in 1 .. Len(ls) : ls[i] = ms[i]
  BY <1>4, MethodsEnd
<1>6. Len(gs) = 0 /\ gs \in Seq(Frame)
  OBVIOUS
<1>7. sd \in 0 .. MaxFrames
  <2>1. f.parent \in 0 .. MaxFrames
    BY <1>1, FrameTypes
  <2>2. QED
    BY <1>1, <2>1 DEF EndsTo
<1>8. StacksTyped(gs, ls, w, sd)
  BY <1>5, <1>6, <1>7 DEF StacksTyped
<1>9. Shape(gs, w) /\ BlocksPlaced(gs)
  BY <1>6 DEF Shape, BlocksPlaced
<1>10. FramesLinked(gs)
  <2>1. MaxFrames \in Nat
    BY <1>1, Limits
  <2>2. QED
    BY <1>6, <2>1 DEF FramesLinked
<1>11. MethodsFit(gs, ls)
  <2>1. MethodsIn(fs, 1, k) = {} /\ MethodsIn(gs, 1, 0) = {}
    BY <1>3 DEF MethodsIn
  <2>2. Len(ls) = Cardinality(MethodsIn(gs, 1, 0))
    BY <1>5, <2>1
  <2>3. QED
    BY <1>6, <2>2 DEF MethodsFit
<1>12. "literals" \notin AmlMay => Balanced(gs, w)
  BY <1>6 DEF Balanced
<1>13. "leaveScope" \notin AmlMay => ScopesFit(gs, sd)
  BY <1>6 DEF ScopesFit
<1>14. LimitKept(ls)
  <2>1. LimitKept(ms) /\ Len(ls) \in Nat /\ Len(ms) \in Nat
    BY <1>1, <1>5 DEF Tops, Fit
  <2>2. QED
    BY <1>5, <2>1, LimitPrefix
<1>15. Kept(fs, os, gs, w)
  BY <1>1, <1>6 DEF Kept
<1>16. QED
  BY <1>8, <1>9, <1>10, <1>11, <1>12, <1>13, <1>14, <1>15 DEF Fit

LEMMA EndMoves ==
  ASSUME IInv, EndFrame
  PROVE  Moves
<1>1. PICK n, f, ls, sd, w, gs : /\ n = Len(frames) /\ f = Top /\ ls = methodFrames' /\ sd = scope'
                                 /\ w = objects' /\ gs = frames'
  OBVIOUS
<1>2. frames # <<>> /\ f.blocks = <<>>
  BY <1>1 DEF EndFrame, AtEnd, AtStatement, Running
<1>3. /\ Tops(frames, methodFrames, objects, scope, n, f) /\ n \in Nat /\ n >= 1
      /\ f = frames[n] /\ frames \in Seq(Frame) /\ f \in Frame
  BY <1>1, <1>2, AtTop, TopFacts
<1>4. PICK load \in BOOLEAN : load <=> f.isMethod /\ Last(methodFrames) = "load"
  OBVIOUS
<1>5. PICK result \in BOOLEAN : result <=> f.isMethod /\ f.needResult
  OBVIOUS
<1>6. PICK v : v = IF load THEN Take(objects, f.start) \o If1(f.needLoad, <<Obj>>) ELSE objects
  OBVIOUS
<1>7. EndLoad(f, load, objects, v)
  BY <1>6 DEF EndLoad
<1>8. w = v \o If1(result, <<Obj>>)
  BY <1>1, <1>4, <1>5, <1>6 DEF EndFrame, If1
<1>9. gs = Parent(f)
  BY <1>1 DEF EndFrame
<1>10. EndsTo(f, methodFrames, scope, ls, sd)
  BY <1>1 DEF EndFrame, EndsTo
<1>11. load => f.isMethod
  BY <1>4
<1>12. result => f.isMethod /\ f.needResult
  BY <1>5
<1>13. /\ w \in Seq(Object) /\ ListsFit(w) /\ Same(objects, w, f.start)
       /\ Objs(w, f.start + 1, Len(w)) /\ Ends(f, objects, w)
  BY <1>2, <1>3, <1>7, <1>8, <1>11, <1>12, EndedObjects
<1>14. CASE n = 1
  <2>1. f.type # "While"
    <3>1. FramesLinked(frames)
      BY <1>3 DEF Tops, Fit
    <3>2. BaseFrame(f)
      BY <1>2, <1>3, <1>14, <3>1 DEF FramesLinked
    <3>3. QED
      BY <3>2 DEF BaseFrame
  <2>2. gs = <<>>
    <3>1. gs = Below(frames)
      BY <1>9, <2>1 DEF Parent
    <3>2. Left(frames, n, gs)
      BY <1>1, <1>3, <3>1, BelowLeft
    <3>3. gs \in Seq(Frame) /\ Len(gs) = 0
      BY <1>14, <3>2 DEF Left
    <3>4. QED
      BY <3>3
  <2>3. "literals" \notin AmlMay => Len(w) <= 1
    BY <1>2, <1>3, <1>5, <1>7, <1>8, <1>14, BaseEnds
  <2>4. Fit(gs, ls, w, sd) /\ Kept(frames, objects, gs, w)
    BY <1>3, <1>10, <1>13, <1>14, <2>2, <2>3, BaseGoes
  <2>5. QED
    BY <1>1, <2>4 DEF Moves
<1>15. CASE n >= 2
  <2>1. Left(frames, n, gs)
    BY <1>1, <1>3, <1>9, <1>15, ParentLeft
  <2>2. Fit(gs, ls, w, sd) /\ Kept(frames, objects, gs, w)
    BY <1>2, <1>3, <1>10, <1>13, <1>15, <2>1, FrameGoes
  <2>3. QED
    BY <1>1, <2>2 DEF Moves
<1>16. QED
  BY <1>3, <1>14, <1>15

LEMMA LoadFails ==
  ASSUME IInv, LoadEndFails
  PROVE  Moves
<1>1. PICK n, f, gs, ls, sd, os : /\ n = Len(frames) /\ f = Top /\ gs = Below(frames)
                                  /\ ls = Below(methodFrames) /\ sd = f.parent /\ os = objects
  OBVIOUS
<1>2. frames # <<>> /\ f.blocks = <<>> /\ f.isMethod /\ n # 1 /\ Unwind(gs, ls, os, sd)
  BY <1>1 DEF LoadEndFails, AtEnd, AtStatement, Running
<1>3. /\ Tops(frames, methodFrames, objects, scope, n, f) /\ n \in Nat /\ n >= 1
      /\ f = frames[n] /\ frames \in Seq(Frame) /\ f \in Frame
      /\ objects \in Seq(Object) /\ ListsFit(objects) /\ TopFine(f, objects)
      /\ Len(objects) \in Nat /\ f.start <= Len(objects) /\ program \in Programs
  <2>1. Tops(frames, methodFrames, objects, scope, n, f)
    BY <1>1, <1>2, AtTop
  <2>2. /\ n \in Nat /\ n >= 1 /\ f = frames[n] /\ frames \in Seq(Frame) /\ f \in Frame
        /\ objects \in Seq(Object) /\ ListsFit(objects) /\ TopFine(f, objects)
        /\ Len(objects) \in Nat /\ f.start <= Len(objects)
    BY <2>1, TopFacts
  <2>3. program \in Programs
    BY DEF IInv
  <2>4. QED
    BY <2>1, <2>2, <2>3
<1>4. n >= 2
  BY <1>2, <1>3
<1>5. Left(frames, n, gs)
  BY <1>1, <1>3, BelowLeft
<1>6. Same(objects, os, f.start)
  BY <1>1, <1>3, SameRefl
<1>7. Objs(os, f.start + 1, Len(os))
  BY <1>1, <1>2, <1>3 DEF TopFine, FrameFine, Level
<1>8. Ends(f, objects, os)
  BY <1>1 DEF Ends
<1>9. f.type = "Scope"
  <2>1. FramesLinked(frames) /\ Len(frames) = n
    BY <1>1, <1>3 DEF Tops, Fit
  <2>2. n - 1 \in 1 .. Len(frames) - 1 /\ n - 1 + 1 = n
    BY <1>3, <1>4, <2>1
  <2>3. Linked(frames[n - 1], frames[n])
    BY <2>1, <2>2 DEF FramesLinked
  <2>4. QED
    BY <1>2, <1>3, <2>3 DEF Linked
<1>10. EndsTo(f, methodFrames, scope, ls, sd)
  BY <1>1, <1>2, <1>9 DEF EndsTo
<1>11. os \in Seq(Object) /\ ListsFit(os)
  BY <1>1, <1>3
<1>12. Fit(gs, ls, os, sd) /\ Kept(frames, objects, gs, os)
  BY <1>2, <1>3, <1>4, <1>5, <1>6, <1>7, <1>8, <1>10, <1>11, FrameGoes
<1>13. gs \in Seq(Frame) /\ Len(gs) = n - 1 /\ \A i \in 1 .. n - 1 : gs[i].start = frames[i].start
  <2>1. /\ gs \in Seq(Frame) /\ Len(gs) = n - 1 /\ \A i \in 1 .. n - 2 : gs[i] = frames[i]
    BY <1>5 DEF Left
  <2>2. gs[n - 1].start = frames[n - 1].start
    BY <1>4, <1>5 DEF Left, Twin, Kin
  <2>3. \A i \in 1 .. n - 1 : i \in 1 .. n - 2 \/ i = n - 1
    BY <1>3
  <2>4. QED
    BY <2>1, <2>2, <2>3
<1>14. Len(gs) >= 1
  BY <1>3, <1>4, <1>13
<1>15. PICK hs, v : hs = frames' /\ v = objects'
  OBVIOUS
<1>16. /\ Fit(frames', methodFrames', objects', scope')
       /\ Kept(gs, os, frames', objects') /\ Len(frames') <= Len(gs)
  BY <1>2, <1>3, <1>12, <1>14, UnwindMoves
<1>17. Len(hs) \in Nat
  BY <1>15, <1>16 DEF Fit, StacksTyped
<1>18. \A i \in 1 .. Len(frames) : i <= Len(hs) => i <= Len(gs) /\ gs[i].start = frames[i].start
  <2>1. \A i \in 1 .. n : i <= Len(hs) => i \in 1 .. n - 1
    BY <1>3, <1>13, <1>15, <1>16, <1>17
  <2>2. QED
    BY <1>1, <1>3, <1>13, <2>1
<1>19. Kept(frames, objects, hs, v)
  BY <1>1, <1>3, <1>12, <1>13, <1>15, <1>16, <1>18, KeptTwice
<1>20. QED
  BY <1>15, <1>16, <1>19 DEF Moves

-----------------------------------------------------------------------------
(* Return, Break and Continue                                              *)

\* The frames above k, whose top is a statement's, go: none is of a package, none below
\* the top has an operation.
LEMMA FramesIdle ==
  ASSUME NEW fs, NEW n \in Nat, Len(fs) = n, FramesLinked(fs), fs[n].type # "Package",
         NEW k \in 1 .. n - 1, \A m \in k + 1 .. n : ~ fs[m].isMethod
  PROVE  \A m \in k .. n - 1 : fs[m].blocks = <<>>
<1>1. k \in 1 .. n /\ n \in 1 .. n /\ k < n
  OBVIOUS
<1>2. \A m \in k .. n : fs[m].type # "Package"
  BY <1>1 DEF FramesLinked
<1>3. ASSUME NEW m \in k .. n - 1
      PROVE  fs[m].blocks = <<>>
  <2>1. m \in 1 .. Len(fs) - 1 /\ m + 1 \in k .. n /\ m + 1 \in k + 1 .. n
    OBVIOUS
  <2>2. Linked(fs[m], fs[m + 1])
    BY <2>1 DEF FramesLinked
  <2>3. fs[m + 1].type # "Package" /\ ~ fs[m + 1].isMethod
    BY <1>2, <2>1
  <2>4. QED
    BY <2>2, <2>3 DEF Linked
<1>4. QED
  BY <1>3

\* Where the operands of a statement begin, no more than one result is above the
\* objects of the frame k.
JumpBase(f, k, h) ==
  \/ h = f.start
  \/ h = f.start + 1 /\ f.isMethod /\ ~ f.needResult /\ k = 1

LEMMA JumpBases ==
  ASSUME NEW fs, NEW os, NEW n \in Nat, Len(fs) = n, FramesLinked(fs), Balanced(fs, os),
         NEW f, f = fs[n], f.type # "Package", Len(f.blocks) = 1, f.start \in Nat,
         NEW k \in 1 .. n, \A m \in k + 1 .. n : ~ fs[m].isMethod,
         NEW h, h = Base(f.blocks[1])
  PROVE  JumpBase(fs[k], k, h)
<1>1. n >= 1 /\ fs # <<>> /\ f.blocks # <<>>
  <2>1. n >= 1
    OBVIOUS
  <2>2. Len(f.blocks) # 0
    OBVIOUS
  <2>3. QED
    BY <2>1, <2>2
<1>2. Extra(fs, n, Len(os))
  BY <1>1 DEF Balanced
<1>3. Level(f, Len(os)) = h
  BY <1>1 DEF Level
<1>4. \/ h = f.start
      \/ h = f.start + 1 /\ f.isMethod /\ ~ f.needResult /\ n = 1
  BY <1>1, <1>2, <1>3 DEF Extra
<1>5. CASE k = n
  BY <1>4, <1>5 DEF JumpBase
<1>6. CASE k < n
  <2>1. k \in 1 .. Len(fs) - 1 /\ k \in 1 .. n - 1 /\ k \in 1 .. Len(fs) /\ n \in 1 .. Len(fs)
        /\ k \in k .. n - 1 /\ k # n /\ n # 1
    BY <1>6
  <2>2. fs[n].start = fs[k + 1].start
    BY <1>6, <2>1 DEF Balanced
  <2>3. fs[k].blocks = <<>>
    BY <2>1, FramesIdle
  <2>4. fs[k].type # "Package"
    <3>1. \A m \in k .. n : fs[m].type # "Package"
      BY <1>6, <2>1 DEF FramesLinked
    <3>2. k \in k .. n
      BY <1>6
    <3>3. QED
      BY <3>1, <3>2
  <2>5. Extra(fs, k, fs[k + 1].start)
    BY <2>1 DEF Balanced
  <2>6. Level(fs[k], fs[k + 1].start) = f.start
    BY <2>2, <2>3 DEF Level
  <2>7. \/ f.start = fs[k].start
        \/ f.start = fs[k].start + 1 /\ fs[k].isMethod /\ ~ fs[k].needResult /\ k = 1
    BY <2>1, <2>4, <2>5, <2>6 DEF Extra
  <2>8. h = f.start
    BY <1>4, <2>1
  <2>9. QED
    BY <2>7, <2>8 DEF JumpBase
<1>7. QED
  BY <1>5, <1>6

\* The frames of gs are those of fs up to k, the one there at its end, and maybe without
\* the result that it owes.
Jump(fs, n, k, gs, gives) ==
  /\ k \in 1 .. n /\ \A m \in k + 1 .. n : ~ fs[m].isMethod
  /\ gs \in Seq(Frame) /\ Len(gs) = k /\ \A i \in 1 .. k - 1 : Twin(fs[i], gs[i])
  /\ Alike(fs[k], gs[k]) /\ gs[k].left = 0 /\ gs[k].blocks = <<>>
  /\ gives => fs[k].isMethod /\ fs[k].needResult /\ ~ gs[k].needResult
  /\ ~ gives => gs[k].needResult = fs[k].needResult
  /\ gs[k].type = "Scope" \/ \A j \in k + 1 .. n : fs[j].type # "Scope"

LEMMA JumpExtra ==
  ASSUME NEW fs, NEW n \in Nat, Len(fs) = n, FramesLinked(fs), NEW k, NEW gs,
         NEW gives \in BOOLEAN, Jump(fs, n, k, gs, gives),
         NEW h, JumpBase(fs[k], k, h), NEW a, a = IF gives THEN h + 1 ELSE h
  PROVE  Extra(gs, k, a)
<1>1. PICK f, g : f = fs[k] /\ g = gs[k]
  OBVIOUS
<1>2. k \in 1 .. n /\ Len(gs) = k /\ g.blocks = <<>> /\ g.left = 0
      /\ g.start = f.start /\ g.isMethod = f.isMethod
  BY <1>1 DEF Jump, Alike
<1>3. Level(g, a) = a
  BY <1>2 DEF Level
<1>4. CASE ~ gives
  <2>1. a = h
    BY <1>4
  <2>2. g.needResult = f.needResult
    BY <1>1, <1>4 DEF Jump
  <2>3. \/ a = f.start
        \/ a = f.start + 1 /\ f.isMethod /\ ~ f.needResult /\ k = 1
    BY <1>1, <2>1 DEF JumpBase
  <2>4. \/ Level(g, a) = g.start
        \/ Level(g, a) = g.start + 1 /\ g.isMethod /\ ~ g.needResult /\ k = 1
    BY <1>2, <1>3, <2>2, <2>3
  <2>5. QED
    BY <1>1, <2>4 DEF Extra
<1>5. CASE gives
  <2>1. a = h + 1
    BY <1>5
  <2>2. f.isMethod /\ f.needResult /\ ~ g.needResult
    BY <1>1, <1>5 DEF Jump
  <2>3. h = f.start
    BY <1>1, <2>2 DEF JumpBase
  <2>4. Level(g, a) = g.start + 1
    BY <1>2, <1>3, <2>1, <2>3
  <2>5. g.isMethod
    BY <1>2, <2>2
  <2>6. k = 1 \/ gs[k - 1].blocks # <<>> \/ gs[k - 1].type = "Package"
    <3>1. CASE k # 1
      <4>1. k - 1 \in 1 .. Len(fs) - 1 /\ k - 1 + 1 = k /\ k - 1 \in 1 .. k - 1
        BY <1>2, <3>1
      <4>2. Linked(fs[k - 1], f)
        BY <1>1, <4>1 DEF FramesLinked
      <4>3. fs[k - 1].blocks # <<>> \/ fs[k - 1].type = "Package"
        BY <2>2, <4>2 DEF Linked
      <4>4. Twin(fs[k - 1], gs[k - 1])
        BY <4>1 DEF Jump
      <4>5. QED
        BY <4>3, <4>4 DEF Twin, Kin
    <3>2. QED
      BY <3>1
  <2>7. QED
    BY <1>1, <1>2, <2>2, <2>4, <2>5, <2>6 DEF Extra
<1>6. QED
  BY <1>4, <1>5

LEMMA JumpFits ==
  ASSUME NEW fs, NEW ms, NEW os, NEW sc, NEW n, NEW f, Tops(fs, ms, os, sc, n, f),
         f.blocks # <<>>, NEW b, b = Last(f.blocks), Len(f.blocks) = 1, f.type # "Package",
         b.op # "TermArg", NEW gives \in BOOLEAN, NEW w, Leaves(os, Base(b), gives, w),
         NEW k, NEW gs, Jump(fs, n, k, gs, gives)
  PROVE  Fit(gs, ms, w, sc) /\ Kept(fs, os, gs, w)
<1>1. /\ program \in Programs /\ n \in Nat /\ n >= 1 /\ Len(fs) = n /\ f = fs[n]
      /\ Fit(fs, ms, os, sc)
  BY DEF Tops
<1>2. /\ fs \in Seq(Frame) /\ f \in Frame /\ ms \in Seq({"method", "load"})
      /\ sc \in 0 .. MaxFrames /\ os \in Seq(Object) /\ ListsFit(os) /\ TopFine(f, os)
      /\ Len(os) \in Nat /\ Len(ms) = Cardinality(MethodsIn(fs, 1, n)) /\ Typed(f)
      /\ ("leaveScope" \notin AmlMay /\ (f.left > 0 \/ f.blocks # <<>> \/ f.type # "Scope") =>
            sc = ScopeNumber(fs, n))
  BY TopFacts
<1>3. PICK h : h = Base(b)
  OBVIOUS
<1>4. h \in Nat /\ h <= Len(os) /\ f.start <= h /\ f.start \in Nat /\ b = f.blocks[1]
  BY <1>3, TopBlock
<1>5. /\ w \in Seq(Object) /\ ListsFit(w) /\ Same(os, w, h) /\ Objs(w, h + 1, Len(w))
      /\ Len(w) = IF gives THEN h + 1 ELSE h
  <2>1. LeftOver(os, h, gives, w)
    BY <1>2, <1>3, <1>4, Dropped
  <2>2. QED
    BY <2>1 DEF LeftOver
<1>6. FramesLinked(fs) /\ Shape(fs, os) /\ AllTyped(fs)
  BY <1>1, <1>2, FramesTyped DEF Fit
<1>7. PICK g : g = gs[k]
  OBVIOUS
<1>8. /\ k \in Nat /\ k >= 1 /\ k <= n /\ k \in 1 .. n
      /\ \A m \in k + 1 .. n : ~ fs[m].isMethod
      /\ gs \in Seq(Frame) /\ Len(gs) = k /\ Alike(fs[k], g) /\ g.blocks = <<>> /\ g.left = 0
      /\ \A i \in 1 .. k - 1 : Twin(fs[i], gs[i])
  BY <1>1, <1>7 DEF Jump
<1>9. Change(fs, gs, k)
  BY <1>1, <1>7, <1>8 DEF Change
<1>10. StacksTyped(gs, ms, w, sc)
  BY <1>2, <1>5, <1>8 DEF StacksTyped
<1>11. Len(ms) = Cardinality(MethodsIn(fs, 1, k))
  <2>1. MethodsIn(fs, 1, n) = MethodsIn(fs, 1, k)
    BY <1>1, <1>8 DEF MethodsIn
  <2>2. QED
    BY <1>2, <2>1
<1>12. \/ k = n /\ Same(os, w, fs[n].start) /\ TopFine(gs[n], w)
       \/ /\ k < n /\ Kin(fs[k], gs[k])
          /\ Same(os, w, fs[k + 1].start) /\ Objs(w, fs[k + 1].start + 1, Len(w))
  <2>1. CASE k = n
    <3>1. g.start = f.start
      BY <1>1, <1>8, <2>1 DEF Alike
    <3>2. g.blocks = Below(f.blocks)
      <4>1. f.blocks \in Seq(Block)
        BY <1>2 DEF Typed
      <4>2. Below(f.blocks) \in Seq(Block) /\ Len(Below(f.blocks)) = 0
        BY <4>1, BlocksOf
      <4>3. Below(f.blocks) = <<>>
        BY <4>2
      <4>4. QED
        BY <1>8, <4>3
    <3>3. Len(w) \in Nat /\ Same(os, w, Base(Last(f.blocks))) /\ Objs(w, Base(Last(f.blocks)) + 1, Len(w))
      BY <1>3, <1>5
    <3>4. TopFine(g, w)
      BY <1>2, <3>1, <3>2, <3>3, PopBlock
    <3>5. Same(os, w, f.start)
      BY <1>4, <1>5 DEF Same
    <3>6. QED
      BY <1>1, <1>7, <2>1, <3>4, <3>5
  <2>2. CASE k < n
    <3>1. k \in 1 .. n - 1 /\ k + 1 \in 1 .. n
      BY <1>1, <1>8, <2>2
    <3>2. \A m \in k .. n - 1 : fs[m].blocks = <<>>
      BY <1>1, <1>6, <1>8, <3>1, FramesIdle
    <3>3. fs[k].blocks = <<>>
      BY <1>1, <1>8, <3>1, <3>2
    <3>4. Kin(fs[k], g)
      BY <1>8, <3>3 DEF Kin, Alike
    <3>5. Objs(os, fs[k + 1].start + 1, Level(f, Len(os)))
      <4>1. \A i \in k + 1 .. n - 1 : fs[i].blocks = <<>>
        BY <1>8, <3>2
      <4>2. QED
        BY <1>1, <1>2, <1>6, <3>1, <4>1, ObjsAbove
    <3>6. PICK a : a = fs[k + 1].start
      OBVIOUS
    <3>7. a \in Nat /\ a <= f.start
      BY <1>1, <1>2, <1>6, <3>1, <3>6, ShapeFacts
    <3>8. Objs(os, a + 1, h)
      <4>1. Level(f, Len(os)) = h
        BY <1>3, <1>4 DEF Level
      <4>2. QED
        BY <3>5, <3>6, <4>1
    <3>9. Same(os, w, a)
      BY <1>4, <1>5, <3>7 DEF Same
    <3>10. Objs(w, a + 1, Len(w))
      <4>1. ASSUME NEW i \in a + 1 .. Len(w)
            PROVE  w[i].kind = "obj"
        <5>1. CASE i <= h
          <6>1. i \in 1 .. h /\ i \in a + 1 .. h
            BY <1>4, <3>7, <5>1
          <6>2. w[i] = os[i] /\ os[i].kind = "obj"
            BY <1>5, <3>8, <6>1 DEF Same, Objs
          <6>3. QED
            BY <6>2
        <5>2. CASE i > h
          <6>1. i \in h + 1 .. Len(w)
            BY <1>4, <1>5, <3>7, <5>2
          <6>2. QED
            BY <1>5, <6>1 DEF Objs
        <5>3. QED
          BY <1>4, <3>7, <5>1, <5>2
      <4>2. QED
        BY <4>1 DEF Objs
    <3>11. QED
      BY <1>7, <2>2, <3>4, <3>6, <3>9, <3>10
  <2>3. QED
    BY <1>1, <1>8, <2>1, <2>2
<1>13. \A j \in 1 .. Len(gs[k].blocks) :
         BlockPlaced(gs[k], j) /\ Roomy(fs, k, gs[k].blocks[j])
  <2>1. Len(gs[k].blocks) = 0
    BY <1>7, <1>8
  <2>2. QED
    BY <2>1
<1>14. "literals" \notin AmlMay => Extra(gs, k, Len(w))
  <2>1. ASSUME "literals" \notin AmlMay
        PROVE  Extra(gs, k, Len(w))
    <3>1. Balanced(fs, os)
      BY <1>1, <2>1 DEF Fit
    <3>2. JumpBase(fs[k], k, h)
      BY <1>1, <1>3, <1>4, <1>6, <1>8, <3>1, JumpBases
    <3>3. QED
      BY <1>1, <1>5, <1>6, <3>2, JumpExtra
  <2>2. QED
    BY <2>1
<1>15. "leaveScope" \notin AmlMay =>
         (gs[k].left > 0 \/ gs[k].blocks # <<>> \/ gs[k].type # "Scope" => sc = ScopeNumber(fs, k))
  <2>1. ASSUME "leaveScope" \notin AmlMay, g.left > 0 \/ g.blocks # <<>> \/ g.type # "Scope"
        PROVE  sc = ScopeNumber(fs, k)
    <3>1. g.type # "Scope"
      BY <1>8, <2>1
    <3>2. \A j \in k + 1 .. n : fs[j].type # "Scope"
      BY <1>7, <3>1 DEF Jump
    <3>3. fs[1].type = "Scope"
      <4>1. fs # <<>>
        BY <1>1
      <4>2. QED
        BY <1>6, <4>1 DEF FramesLinked, BaseFrame
    <3>4. ScopeNumber(fs, n) = ScopeNumber(fs, k)
      BY <1>1, <1>8, <3>2, <3>3, ScopeSkip
    <3>5. QED
      BY <1>2, <2>1, <3>4
  <2>2. QED
    BY <1>7, <2>1
<1>16. \A i \in 1 .. Len(ms) : ms[i] = ms[i]
  OBVIOUS
<1>17. ListsFit(w) /\ Len(fs) = n /\ Len(gs) = k /\ k \in Nat /\ n \in Nat
  BY <1>1, <1>5, <1>8
<1>18. QED
  BY <1>1, <1>9, <1>10, <1>11, <1>12, <1>13, <1>14, <1>15, <1>16, <1>17, FitCut

\* The same, but with the operation that jumps still in the frame k, if it is there.
JumpTo(fs, n, k, gs, gives) ==
  /\ k \in 1 .. n /\ \A m \in k + 1 .. n : ~ fs[m].isMethod
  /\ gs \in Seq(Frame) /\ Len(gs) = k /\ \A i \in 1 .. k - 1 : Twin(fs[i], gs[i])
  /\ Alike(fs[k], gs[k]) /\ gs[k].left = 0 /\ gs[k].blocks = fs[k].blocks
  /\ gives => fs[k].isMethod /\ fs[k].needResult /\ ~ gs[k].needResult
  /\ ~ gives => gs[k].needResult = fs[k].needResult
  /\ gs[k].type = "Scope" \/ \A j \in k + 1 .. n : fs[j].type # "Scope"

LEMMA DoneJump ==
  ASSUME NEW n \in Nat, NEW f \in Frame, n = Len(frames), n >= 1, f = frames[n], FramesLinked(frames),
         Len(f.blocks) = 1, f.type # "Package",
         NEW k, NEW gives \in BOOLEAN, NEW x, JumpTo(frames, n, k, x, gives), NEW gs, gs = Done(x)
  PROVE  Jump(frames, n, k, gs, gives)
<1>1. PICK u : u = x[k]
  OBVIOUS
<1>2. /\ k \in 1 .. n /\ k \in Nat /\ (\A m \in k + 1 .. n : ~ frames[m].isMethod)
      /\ x \in Seq(Frame) /\ Len(x) = k /\ u \in Frame
      /\ Alike(frames[k], u) /\ u.left = 0 /\ u.blocks = frames[k].blocks
  BY <1>1 DEF JumpTo
<1>3. CASE k < n
  <2>1. gs = x
    BY <1>2, <1>3 DEF Done
  <2>2. k \in 1 .. n - 1 /\ k \in k .. n - 1
    BY <1>2, <1>3
  <2>3. \A m \in k .. n - 1 : frames[m].blocks = <<>>
    BY <1>2, <2>2, FramesIdle
  <2>4. u.blocks = <<>>
    BY <1>2, <2>2, <2>3
  <2>5. QED
    BY <1>1, <2>1, <2>4 DEF Jump, JumpTo
<1>4. CASE k = n
  <2>1. f.blocks # <<>> /\ f.blocks \in Seq(Block)
    <3>1. Len(f.blocks) # 0
      OBVIOUS
    <3>2. QED
      BY <3>1, FrameTypes DEF Typed
  <2>2. PICK bs, v : bs = Below(f.blocks) /\ v = WithBlocks(u, bs)
    OBVIOUS
  <2>3. bs \in Seq(Block) /\ bs = <<>>
    <3>1. bs \in Seq(Block) /\ Len(bs) = 0
      BY <2>1, <2>2, BlocksOf
    <3>2. QED
      BY <3>1
  <2>4. v \in Frame /\ Alike(u, v) /\ v.needResult = u.needResult /\ v.left = u.left /\ v.blocks = bs
    <3>1. u \in Frame
      BY <1>2
    <3>2. bs \in Seq(Block)
      BY <2>3
    <3>3. v = WithBlocks(u, bs)
      BY <2>2
    <3>4. QED
      BY <3>1, <3>2, <3>3, BlocksPut
  <2>5. gs = [x EXCEPT ![n] = v]
    <3>1. u.blocks = f.blocks
      BY <1>2, <1>4
    <3>2. gs = [x EXCEPT ![n].blocks = Below(@)]
      BY <1>2, <1>4 DEF Done
    <3>3. QED
      BY <1>1, <1>4, <2>2, <3>1, <3>2 DEF WithBlocks
  <2>6. /\ gs \in Seq(Frame) /\ Len(gs) = n /\ gs[n] = v
        /\ \A i \in 1 .. k - 1 : gs[i] = x[i]
    <3>1. n \in 1 .. Len(x)
      BY <1>2, <1>4
    <3>2. gs \in Seq(Frame) /\ Len(gs) = Len(x) /\ \A j \in 1 .. Len(x) : gs[j] = IF j = n THEN v ELSE x[j]
      BY <1>2, <2>4, <2>5, <3>1, ExceptSeq
    <3>3. \A i \in 1 .. k - 1 : i \in 1 .. Len(x) /\ i # n
      BY <1>2, <1>4
    <3>4. QED
      BY <1>2, <1>4, <3>1, <3>2, <3>3
  <2>7. Alike(frames[k], v)
    BY <1>2, <2>4 DEF Alike
  <2>8. \A i \in 1 .. k - 1 : Twin(frames[i], gs[i])
    BY <2>6 DEF JumpTo
  <2>9. v.left = 0 /\ v.blocks = <<>> /\ v.needResult = u.needResult /\ v.type = u.type
    BY <1>2, <2>3, <2>4 DEF Alike
  <2>10. /\ gives => frames[k].isMethod /\ frames[k].needResult /\ ~ v.needResult
         /\ ~ gives => v.needResult = frames[k].needResult
    BY <1>1, <2>9 DEF JumpTo
  <2>11. v.type = "Scope" \/ \A j \in k + 1 .. n : frames[j].type # "Scope"
    BY <1>1, <2>9 DEF JumpTo
  <2>12. QED
    BY <1>2, <1>4, <2>6, <2>7, <2>8, <2>9, <2>10, <2>11 DEF Jump
<1>5. QED
  BY <1>2, <1>3, <1>4

LEMMA EndPut ==
  ASSUME NEW f \in Frame, MaxBody \in Nat, NEW g, g = EndOf(f)
  PROVE  /\ g \in Frame /\ Alike(f, g) /\ g.needResult = f.needResult /\ g.left = 0
         /\ g.blocks = f.blocks
<1>1. PICK u : u = [f EXCEPT !.left = 0]
  OBVIOUS
<1>2. u \in Frame /\ Alike(f, u) /\ u.needResult = f.needResult /\ u.left = 0 /\ u.blocks = f.blocks
  BY <1>1 DEF Frame, Alike
<1>3. PICK v : v = [u EXCEPT !.again = FALSE]
  OBVIOUS
<1>4. v \in Frame /\ Alike(u, v) /\ v.needResult = u.needResult /\ v.left = u.left /\ v.blocks = u.blocks
  BY <1>2, <1>3 DEF Frame, Alike
<1>5. g = v
  BY <1>1, <1>3 DEF EndOf
<1>6. QED
  BY <1>2, <1>4, <1>5 DEF Alike

LEMMA GavePut ==
  ASSUME NEW f \in Frame, NEW g, g = Gave(f)
  PROVE  /\ g \in Frame /\ Alike(f, g) /\ ~ g.needResult /\ g.left = f.left
         /\ g.blocks = f.blocks
BY DEF Gave, Frame, Alike

\* The frames from k on go, frame k is at its end.
LEMMA LeaveFacts ==
  ASSUME frames \in Seq(Frame), MaxBody \in Nat, NEW k \in 1 .. Len(frames), NEW x, x = LeaveTo(k),
         NEW e, e = x[k]
  PROVE  /\ x \in Seq(Frame) /\ Len(x) = k /\ \A i \in 1 .. k - 1 : x[i] = frames[i]
         /\ e \in Frame /\ Alike(frames[k], e) /\ e.needResult = frames[k].needResult
         /\ e.left = 0 /\ e.blocks = frames[k].blocks
<1>1. PICK t, f, g : t = Take(frames, k) /\ f = frames[k] /\ g = EndOf(f)
  OBVIOUS
<1>2. f \in Frame
  BY <1>1
<1>3. /\ g \in Frame /\ Alike(f, g) /\ g.needResult = f.needResult /\ g.left = 0
      /\ g.blocks = f.blocks
  BY <1>1, <1>2, EndPut
<1>4. t \in Seq(Frame) /\ Len(t) = k /\ \A i \in 1 .. k : t[i] = frames[i]
  <2>1. k \in 0 .. Len(frames)
    OBVIOUS
  <2>2. QED
    BY <1>1, <2>1, Prefix
<1>5. k \in 1 .. Len(t) /\ t[k] = f
  BY <1>1, <1>4
<1>6. x = [t EXCEPT ![k] = g]
  BY <1>1, <1>5 DEF LeaveTo
<1>7. x \in Seq(Frame) /\ Len(x) = Len(t) /\ \A j \in 1 .. Len(t) : x[j] = IF j = k THEN g ELSE t[j]
  BY <1>3, <1>4, <1>5, <1>6, ExceptSeq
<1>8. x[k] = g /\ \A i \in 1 .. k - 1 : x[i] = frames[i]
  <2>1. \A i \in 1 .. k - 1 : i \in 1 .. k /\ i # k
    OBVIOUS
  <2>2. QED
    BY <1>4, <1>5, <1>7, <2>1
<1>9. QED
  BY <1>1, <1>3, <1>4, <1>7, <1>8

LEMMA ReturningIs ==
  ASSUME NEW n \in Nat, n = Len(frames), n >= 1, NEW k, k = Returning
  PROVE  /\ k \in 1 .. n /\ \A m \in k + 1 .. n : ~ frames[m].isMethod
         /\ k = 1 \/ frames[k].isMethod
<1>1. PICK Set : Set = MethodsIn(frames, 1, n)
  OBVIOUS
<1>2. Set \subseteq 1 .. n /\ \A i \in 1 .. n : i \in Set <=> frames[i].isMethod
  BY <1>1 DEF MethodsIn
<1>3. CASE Set = {}
  <2>1. k = 1
    BY <1>1, <1>3 DEF Returning
  <2>2. QED
    BY <1>2, <1>3, <2>1
<1>4. CASE Set # {}
  <2>1. Set \subseteq 0 .. n
    BY <1>2
  <2>2. \E x \in Set : \A y \in Set : y <= x
    BY <1>4, <2>1, Greatest
  <2>3. k = CHOOSE x \in Set : \A y \in Set : y <= x
    BY <1>1, <1>4 DEF Returning
  <2>4. k \in Set /\ \A y \in Set : y <= k
    BY <2>2, <2>3, Zenon
  <2>5. k \in 1 .. n /\ frames[k].isMethod
    BY <1>2, <2>4
  <2>6. \A m \in k + 1 .. n : ~ frames[m].isMethod
    <3>1. \A m \in k + 1 .. n : m \in 1 .. n /\ ~ (m <= k)
      BY <2>5
    <3>2. QED
      BY <1>2, <2>4, <3>1
  <2>7. QED
    BY <2>5, <2>6
<1>5. QED
  BY <1>3, <1>4

\* A frame between statements that a result is given up for
LEMMA JumpPlain ==
  ASSUME NEW n \in Nat, n = Len(frames), frames \in Seq(Frame), MaxBody \in Nat,
         NEW k \in 1 .. n, \A m \in k + 1 .. n : ~ frames[m].isMethod,
         frames[k].type = "Scope" \/ \A j \in k + 1 .. n : frames[j].type # "Scope",
         NEW gives \in BOOLEAN, gives <=> frames[k].isMethod /\ frames[k].needResult,
         NEW y, y = LeaveTo(k), NEW x,
         ~ gives => x = y, gives => x = [y EXCEPT ![k] = Gave(@)]
  PROVE  JumpTo(frames, n, k, x, gives)
<1>1. PICK f, e : f = frames[k] /\ e = y[k]
  OBVIOUS
<1>2. /\ y \in Seq(Frame) /\ Len(y) = k /\ (\A i \in 1 .. k - 1 : y[i] = frames[i])
      /\ e \in Frame /\ Alike(f, e) /\ e.needResult = f.needResult
      /\ e.left = 0 /\ e.blocks = f.blocks
  BY <1>1, LeaveFacts
<1>3. \A i \in 1 .. k - 1 : Twin(frames[i], y[i])
  BY <1>2 DEF Twin, Kin
<1>4. CASE ~ gives
  <2>1. x = y
    BY <1>4
  <2>2. e.type = f.type
    BY <1>2 DEF Alike
  <2>3. QED
    BY <1>1, <1>2, <1>3, <1>4, <2>1, <2>2 DEF JumpTo
<1>5. CASE gives
  <2>1. PICK g : g = Gave(e)
    OBVIOUS
  <2>2. g \in Frame /\ Alike(e, g) /\ ~ g.needResult /\ g.left = e.left /\ g.blocks = e.blocks
    BY <1>2, <2>1, GavePut
  <2>3. x = [y EXCEPT ![k] = g]
    <3>1. x = [y EXCEPT ![k] = Gave(@)]
      BY <1>5
    <3>2. QED
      BY <1>1, <2>1, <3>1
  <2>4. /\ x \in Seq(Frame) /\ Len(x) = k /\ x[k] = g /\ \A i \in 1 .. k - 1 : x[i] = y[i]
    <3>1. k \in 1 .. Len(y)
      BY <1>2
    <3>2. x \in Seq(Frame) /\ Len(x) = Len(y) /\ \A j \in 1 .. Len(y) : x[j] = IF j = k THEN g ELSE y[j]
      BY <1>2, <2>2, <2>3, <3>1, ExceptSeq
    <3>3. \A i \in 1 .. k - 1 : i \in 1 .. Len(y) /\ i # k
      BY <1>2
    <3>4. QED
      BY <1>2, <3>1, <3>2, <3>3
  <2>5. Alike(f, g) /\ g.left = 0 /\ g.blocks = f.blocks /\ g.type = f.type
    BY <1>2, <2>2 DEF Alike
  <2>6. \A i \in 1 .. k - 1 : Twin(frames[i], x[i])
    BY <1>3, <2>4
  <2>7. f.isMethod /\ f.needResult
    BY <1>1, <1>5
  <2>8. QED
    BY <1>1, <1>5, <2>2, <2>4, <2>5, <2>6, <2>7 DEF JumpTo
<1>6. QED
  BY <1>4, <1>5

LEMMA ReturnMoves ==
  ASSUME IInv, HandleReturn
  PROVE  Moves
<1>1. PICK n, f, b, k : n = Len(frames) /\ f = Top /\ b = Op /\ k = Returning
  OBVIOUS
<1>2. b.op = "Return" /\ AtHandler /\ methodFrames' = methodFrames /\ scope' = scope
  BY <1>1 DEF HandleReturn
<1>3. /\ Tops(frames, methodFrames, objects, scope, n, f)
      /\ f.blocks # <<>> /\ b = Last(f.blocks) /\ f \in Frame /\ b \in Block
      /\ Current(b, objects) /\ objects \in Seq(Object) /\ ListsFit(objects)
      /\ frames \in Seq(Frame) /\ n \in Nat /\ n >= 1
      /\ b.ip = Len(Script(b.op)) + 1 /\ program \in Programs
  BY <1>1, <1>2, AtHandling
<1>4. b.op \notin Expressions \cup {"Call", "TermArg"} /\ b.op \notin Packages
      /\ b.op # "Call" /\ b.op # "TermArg"
  BY <1>2 DEF Packages, Expressions, Constants, Arithmetic, Comparisons, Conversions
<1>5. Len(f.blocks) = 1 /\ f.type # "Package"
  BY <1>3, <1>4, StatementAlone
<1>6. FramesLinked(frames) /\ f = frames[n] /\ MaxBody \in Nat
  BY <1>3, ProgramsAssumption DEF Tops, Fit, MaxBody
<1>7. /\ k \in 1 .. n /\ (\A m \in k + 1 .. n : ~ frames[m].isMethod)
      /\ (k = 1 \/ frames[k].isMethod)
  BY <1>1, <1>3, ReturningIs
<1>8. frames[k].type = "Scope"
  <2>1. CASE k = 1
    <3>1. frames # <<>>
      BY <1>1, <1>3
    <3>2. QED
      BY <1>6, <2>1, <3>1 DEF FramesLinked, BaseFrame
  <2>2. CASE k # 1
    <3>1. k - 1 \in 1 .. Len(frames) - 1 /\ k - 1 + 1 = k
      BY <1>1, <1>3, <1>7, <2>2
    <3>2. Linked(frames[k - 1], frames[k])
      BY <1>6, <3>1 DEF FramesLinked
    <3>3. QED
      BY <1>7, <2>2, <3>2 DEF Linked
  <2>3. QED
    BY <2>1, <2>2
<1>9. PICK gives \in BOOLEAN : gives <=> frames[k].isMethod /\ frames[k].needResult
  OBVIOUS
<1>10. PICK y, x, gs, w : /\ y = LeaveTo(k) /\ gs = frames' /\ w = objects'
                          /\ x = IF gives THEN [y EXCEPT ![k] = Gave(@)] ELSE y
  OBVIOUS
<1>11. ~ gives => x = y
  BY <1>10
<1>12. gives => x = [y EXCEPT ![k] = Gave(@)]
  BY <1>10
<1>13. gs = Done(x) /\ w = Popped("Return") \o If1(gives, <<Obj>>)
  <2>1. /\ gs = Done(IF frames[k].isMethod /\ frames[k].needResult
                     THEN [LeaveTo(k) EXCEPT ![k] = Gave(@)] ELSE LeaveTo(k))
        /\ w = Popped("Return") \o If1(frames[k].isMethod /\ frames[k].needResult, <<Obj>>)
    BY <1>1, <1>10 DEF HandleReturn
  <2>2. CASE gives
    BY <1>9, <1>10, <2>1, <2>2 DEF If1
  <2>3. CASE ~ gives
    BY <1>9, <1>10, <2>1, <2>3 DEF If1
  <2>4. QED
    BY <2>2, <2>3
<1>14. JumpTo(frames, n, k, x, gives)
  BY <1>1, <1>3, <1>6, <1>7, <1>8, <1>9, <1>10, <1>11, <1>12, JumpPlain
<1>15. Jump(frames, n, k, gs, gives)
  BY <1>1, <1>3, <1>5, <1>6, <1>13, <1>14, DoneJump
<1>16. Leaves(objects, Base(b), gives, w)
  <2>1. PICK v : v = Popped(b.op)
    OBVIOUS
  <2>2. v = Take(objects, Base(b))
    BY <1>3, <1>4, <2>1, PoppedFacts
  <2>3. QED
    BY <1>2, <1>13, <2>1, <2>2 DEF Leaves
<1>17. Fit(gs, methodFrames, w, scope) /\ Kept(frames, objects, gs, w)
  BY <1>3, <1>4, <1>5, <1>15, <1>16, JumpFits
<1>18. QED
  BY <1>2, <1>10, <1>17 DEF Moves

\* The loop that Break and Continue leave: there are only Ifs above its body.
LEMMA LoopIs ==
  ASSUME NEW n \in Nat, n = Len(frames), n >= 1, FramesLinked(frames), InLoopAt(frames, n),
         NEW k, k = Loop
  PROVE  /\ k \in 2 .. n /\ frames[k].type = "While" /\ ~ frames[k].isMethod
         /\ \A j \in k + 1 .. n : frames[j].type = "If" /\ ~ frames[j].isMethod
         /\ frames[k - 1].blocks = <<>> /\ frames[k].end \in 0 .. MaxBody - 1
<1>1. PICK Set : Set = {i \in 1 .. n : frames[i].type = "While"}
  OBVIOUS
<1>2. PICK m \in 1 .. n :
        frames[m].type = "While" /\ \A j \in m .. n : frames[j].type \in {"While", "If"}
  BY DEF InLoopAt
<1>3. m \in Set /\ Set \subseteq 0 .. n /\ Set # {}
  BY <1>1, <1>2
<1>4. \E x \in Set : \A y \in Set : y <= x
  BY <1>3, Greatest
<1>5. \E x \in 1 .. n : frames[x].type = "While" /\ \A j \in x + 1 .. n : frames[j].type # "While"
  <2>1. PICK x \in Set : \A y \in Set : y <= x
    BY <1>4
  <2>2. x \in 1 .. n /\ frames[x].type = "While"
    BY <1>1, <2>1
  <2>3. \A j \in x + 1 .. n : j \in 1 .. n /\ ~ (j <= x)
    BY <2>2
  <2>4. \A j \in x + 1 .. n : frames[j].type # "While"
    BY <1>1, <2>1, <2>3
  <2>5. QED
    BY <2>2, <2>4
<1>6. k \in 1 .. n /\ frames[k].type = "While" /\ \A j \in k + 1 .. n : frames[j].type # "While"
  <2>1. k = CHOOSE i \in 1 .. n : frames[i].type = "While" /\ \A j \in i + 1 .. n : frames[j].type # "While"
    BY DEF Loop
  <2>2. QED
    BY <1>5, <2>1, Zenon
<1>7. m <= k
  <2>1. ~ (m \in k + 1 .. n)
    BY <1>2, <1>6
  <2>2. QED
    BY <1>2, <1>6, <2>1
<1>8. frames[1].type = "Scope"
  <2>1. frames # <<>>
    OBVIOUS
  <2>2. QED
    BY <2>1 DEF FramesLinked, BaseFrame
<1>9. k >= 2 /\ k \in Nat
  BY <1>6, <1>8
<1>10. ASSUME NEW j \in k + 1 .. n
       PROVE  frames[j].type = "If"
  <2>1. j \in m .. n
    BY <1>2, <1>6, <1>7
  <2>2. frames[j].type \in {"While", "If"}
    BY <1>2, <2>1
  <2>3. QED
    BY <1>6, <2>2
<1>11. ASSUME NEW j \in 2 .. n
       PROVE  Linked(frames[j - 1], frames[j])
  <2>1. j - 1 \in 1 .. Len(frames) - 1 /\ j - 1 + 1 = j
    OBVIOUS
  <2>2. QED
    BY <2>1 DEF FramesLinked
<1>12. ASSUME NEW j \in k + 1 .. n
       PROVE  ~ frames[j].isMethod
  <2>1. j \in 2 .. n /\ frames[j].type = "If"
    BY <1>9, <1>10
  <2>2. QED
    BY <1>11, <2>1 DEF Linked
<1>13. Linked(frames[k - 1], frames[k])
  BY <1>6, <1>9, <1>11
<1>14. ~ frames[k].isMethod /\ frames[k - 1].blocks = <<>> /\ frames[k].end \in 0 .. MaxBody - 1
  BY <1>6, <1>13 DEF Linked
<1>15. QED
  BY <1>6, <1>9, <1>10, <1>12, <1>14

\* Break and Continue have no operands.
LEMMA LoopLeaves ==
  ASSUME NEW b, Current(b, objects), objects \in Seq(Object), ListsFit(objects),
         b.ip = Len(Script(b.op)) + 1, b.op \in {"Break", "Continue"},
         NEW gives \in BOOLEAN, ~ gives
  PROVE  Leaves(objects, Base(b), gives, objects)
<1>1. Operands(b.op) = <<>>
  <2>1. PICK h : h = b.op
    OBVIOUS
  <2>2. h \in {"Break", "Continue"}
    BY <2>1
  <2>3. Operands(h) = StatementOperands(h)
    BY <2>2 DEF Operands, Expressions, NamedObjects, Statements, Internal,
           Constants, Arithmetic, Comparisons, Conversions, CreateFields, Scopes
  <2>4. StatementOperands(h) = <<>>
    BY <2>2 DEF StatementOperands
  <2>5. QED
    BY <2>1, <2>3, <2>4
<1>2. Len(Operands(b.op)) = 0
  BY <1>1
<1>3. PICK v : v = Popped(b.op)
  OBVIOUS
<1>4. v = objects
  BY <1>2, <1>3 DEF Popped, Take
<1>5. b.op \notin Packages /\ b.op # "Call" /\ b.op # "TermArg"
  BY DEF Packages
<1>6. v = Take(objects, Base(b))
  BY <1>3, <1>5, PoppedFacts
<1>7. Obj \in Object
  BY Things DEF Obj, ObjectKinds
<1>8. objects = objects \o <<>>
  BY <1>7, ConcatOne
<1>9. QED
  BY <1>4, <1>6, <1>8 DEF Leaves, If1

\* The frame below a loop's body is moved past the While.
Past(e, a) == [[e EXCEPT !.left = a] EXCEPT !.again = FALSE]
LEMMA PastPut ==
  ASSUME NEW e \in Frame, NEW a \in 0 .. MaxBody, e.blocks = <<>>, NEW u, u = Past(e, a)
  PROVE  u \in Frame /\ Twin(e, u)
<1>1. PICK v : v = [e EXCEPT !.left = a]
  OBVIOUS
<1>2. v \in Frame /\ Twin(e, v) /\ v.blocks = <<>>
  BY <1>1 DEF Frame, Twin, Kin
<1>3. u = [v EXCEPT !.again = FALSE]
  BY <1>1 DEF Past
<1>4. u \in Frame /\ Twin(v, u)
  BY <1>2, <1>3 DEF Frame, Twin, Kin
<1>5. QED
  BY <1>2, <1>4 DEF Twin, Kin

LEMMA LowerPut ==
  ASSUME NEW fs, NEW n, NEW k, NEW gives, NEW y, JumpTo(fs, n, k, y, gives), k \in Nat, k >= 2,
         NEW c \in Frame, NEW m, m = k - 1, Twin(fs[m], c), NEW x, x = [y EXCEPT ![m] = c]
  PROVE  JumpTo(fs, n, k, x, gives)
<1>1. y \in Seq(Frame) /\ Len(y) = k /\ \A i \in 1 .. k - 1 : Twin(fs[i], y[i])
  BY DEF JumpTo
<1>2. m \in 1 .. Len(y) /\ k \in 1 .. Len(y) /\ k # m
  BY <1>1
<1>3. x \in Seq(Frame) /\ Len(x) = Len(y) /\ \A j \in 1 .. Len(y) : x[j] = IF j = m THEN c ELSE y[j]
  BY <1>1, <1>2, ExceptSeq
<1>4. x[k] = y[k]
  BY <1>2, <1>3
<1>5. ASSUME NEW i \in 1 .. k - 1
      PROVE  Twin(fs[i], x[i])
  <2>1. i \in 1 .. Len(y)
    BY <1>1
  <2>2. CASE i = m
    BY <1>3, <2>1, <2>2
  <2>3. CASE i # m
    <3>1. x[i] = y[i]
      BY <1>3, <2>1, <2>3
    <3>2. QED
      BY <1>1, <3>1
  <2>4. QED
    BY <2>2, <2>3
<1>6. QED
  BY <1>1, <1>3, <1>4, <1>5 DEF JumpTo

\* The frames above the loop's body go, and it is at its end, before what Break does to
\* the frame below it.
LEMMA LoopJump ==
  ASSUME NEW n \in Nat, n = Len(frames), n >= 1, frames \in Seq(Frame), MaxBody \in Nat,
         FramesLinked(frames), InLoopAt(frames, n), NEW k, k = Loop,
         NEW gives \in BOOLEAN, ~ gives, NEW y, y = LeaveTo(k)
  PROVE  JumpTo(frames, n, k, y, gives)
<1>1. /\ k \in 2 .. n /\ frames[k].type = "While" /\ ~ frames[k].isMethod
      /\ \A j \in k + 1 .. n : frames[j].type = "If" /\ ~ frames[j].isMethod
  BY LoopIs
<1>2. k \in 1 .. n
  BY <1>1
<1>3. \A m \in k + 1 .. n : ~ frames[m].isMethod
  BY <1>1
<1>4. \A j \in k + 1 .. n : frames[j].type # "Scope"
  BY <1>1
<1>5. gives <=> frames[k].isMethod /\ frames[k].needResult
  BY <1>1
<1>6. gives => y = [y EXCEPT ![k] = Gave(@)]
  OBVIOUS
<1>7. QED
  BY <1>2, <1>3, <1>4, <1>5, <1>6, JumpPlain

\* What Break and Continue find, and what is to be shown of the frames they leave
LEMMA LoopMoves ==
  ASSUME IInv, AtHandler, NEW b, b = Op, b.op \in {"Break", "Continue"},
         UNCHANGED <<methodFrames, objects, scope>>,
         NEW n, n = Len(frames), NEW k, k = Loop, NEW gives \in BOOLEAN, ~ gives, NEW x,
         FramesLinked(frames) /\ InLoopAt(frames, n) => JumpTo(frames, n, k, x, gives),
         frames' = Done(x)
  PROVE  Moves
<1>1. PICK f, gs : f = Top /\ gs = frames'
  OBVIOUS
<1>2. /\ Tops(frames, methodFrames, objects, scope, n, f)
      /\ f.blocks # <<>> /\ b = Last(f.blocks) /\ f \in Frame /\ b \in Block
      /\ Current(b, objects) /\ objects \in Seq(Object) /\ ListsFit(objects)
      /\ frames \in Seq(Frame) /\ n \in Nat /\ n >= 1
      /\ b.ip = Len(Script(b.op)) + 1 /\ program \in Programs /\ Roomy(frames, n, b)
  BY <1>1, AtHandling
<1>3. b.op \notin Expressions \cup {"Call", "TermArg"} /\ b.op # "TermArg"
  BY DEF Expressions, Constants, Arithmetic, Comparisons, Conversions
<1>4. Len(f.blocks) = 1 /\ f.type # "Package"
  BY <1>2, <1>3, StatementAlone
<1>5. FramesLinked(frames) /\ f = frames[n]
  BY <1>2 DEF Tops, Fit
<1>6. InLoopAt(frames, n)
  BY <1>2 DEF Roomy
<1>7. JumpTo(frames, n, k, x, gives)
  BY <1>5, <1>6
<1>8. Jump(frames, n, k, gs, gives)
  BY <1>1, <1>2, <1>4, <1>5, <1>7, DoneJump
<1>9. Leaves(objects, Base(b), gives, objects)
  BY <1>2, LoopLeaves
<1>10. Fit(gs, methodFrames, objects, scope) /\ Kept(frames, objects, gs, objects)
  BY <1>2, <1>3, <1>4, <1>8, <1>9, JumpFits
<1>11. QED
  BY <1>1, <1>10 DEF Moves

LEMMA ContinueMoves ==
  ASSUME IInv, HandleContinue
  PROVE  Moves
<1>1. PICK n, b, k, x : n = Len(frames) /\ b = Op /\ k = Loop /\ x = LeaveTo(k)
  OBVIOUS
<1>2. PICK gives \in BOOLEAN : ~ gives
  OBVIOUS
<1>3. AtHandler /\ b.op \in {"Break", "Continue"} /\ UNCHANGED <<methodFrames, objects, scope>>
      /\ frames' = Done(x)
  BY <1>1 DEF HandleContinue
<1>4. /\ frames \in Seq(Frame) /\ n \in Nat /\ n >= 1 /\ MaxBody \in Nat
  <2>1. program \in Programs
    BY DEF IInv
  <2>2. QED
    BY <1>1, <1>3, <2>1, AtHandling, ProgramsAssumption DEF MaxBody
<1>5. FramesLinked(frames) /\ InLoopAt(frames, n) => JumpTo(frames, n, k, x, gives)
  BY <1>1, <1>2, <1>4, LoopJump
<1>6. QED
  BY <1>1, <1>2, <1>3, <1>5, LoopMoves

LEMMA BreakMoves ==
  ASSUME IInv, HandleBreak
  PROVE  Moves
<1>1. PICK n, b, k, y : n = Len(frames) /\ b = Op /\ k = Loop /\ y = LeaveTo(k)
  OBVIOUS
<1>2. PICK gives \in BOOLEAN : ~ gives
  OBVIOUS
<1>3. PICK m, a, x : /\ m = k - 1 /\ a = frames[k].end
                     /\ x = [y EXCEPT ![m].left = a, ![m].again = FALSE]
  OBVIOUS
<1>4. AtHandler /\ b.op \in {"Break", "Continue"} /\ UNCHANGED <<methodFrames, objects, scope>>
      /\ frames' = Done(x)
  BY <1>1, <1>3 DEF HandleBreak
<1>5. frames \in Seq(Frame) /\ n \in Nat /\ n >= 1 /\ MaxBody \in Nat
  <2>1. program \in Programs
    BY DEF IInv
  <2>2. QED
    BY <1>1, <1>4, <2>1, AtHandling, ProgramsAssumption DEF MaxBody
<1>6. ASSUME FramesLinked(frames), InLoopAt(frames, n)
      PROVE  JumpTo(frames, n, k, x, gives)
  <2>1. JumpTo(frames, n, k, y, gives)
    BY <1>1, <1>2, <1>5, <1>6, LoopJump
  <2>2. /\ k \in 2 .. n /\ frames[k - 1].blocks = <<>> /\ frames[k].end \in 0 .. MaxBody - 1
    BY <1>1, <1>5, <1>6, LoopIs
  <2>3. k \in Nat /\ k >= 2 /\ m \in 1 .. n /\ m \in 1 .. k - 1 /\ a \in 0 .. MaxBody /\ m \in 1 .. k
    BY <1>3, <1>5, <2>2
  <2>4. y \in Seq(Frame) /\ Len(y) = k
    BY <2>1 DEF JumpTo
  <2>5. PICK e, c : e = y[m] /\ c = Past(e, a)
    OBVIOUS
  <2>6. e \in Frame
    BY <2>3, <2>4, <2>5
  <2>7. Twin(frames[m], e)
    BY <2>1, <2>3, <2>5 DEF JumpTo
  <2>8. e.blocks = <<>>
    BY <1>3, <2>2, <2>7 DEF Twin, Kin
  <2>9. c \in Frame /\ Twin(e, c)
    BY <2>3, <2>5, <2>6, <2>8, PastPut
  <2>10. frames[m].blocks = <<>>
    BY <1>3, <2>2
  <2>11. Twin(frames[m], c)
    BY <2>7, <2>9, <2>10 DEF Twin, Kin
  <2>12. x = [y EXCEPT ![m] = c]
    <3>1. x = [[y EXCEPT ![m].left = a] EXCEPT ![m].again = FALSE]
      BY <1>3
    <3>2. PICK v : v = [e EXCEPT !.left = a]
      OBVIOUS
    <3>3. PICK vs : vs = [y EXCEPT ![m] = v]
      OBVIOUS
    <3>4. [y EXCEPT ![m].left = a] = vs
      BY <2>5, <3>2, <3>3
    <3>5. vs[m] = v /\ vs \in [1 .. k -> Frame \cup {v}]
      BY <2>3, <2>4, <3>3
    <3>6. [vs EXCEPT ![m].again = FALSE] = [vs EXCEPT ![m] = c]
      BY <2>5, <3>2, <3>5 DEF Past
    <3>7. [vs EXCEPT ![m] = c] = [y EXCEPT ![m] = c]
      BY <2>3, <2>4, <3>3
    <3>8. QED
      BY <3>1, <3>4, <3>6, <3>7
  <2>13. QED
    BY <1>3, <2>1, <2>3, <2>9, <2>11, <2>12, LowerPut
<1>7. QED
  BY <1>1, <1>2, <1>4, <1>6, LoopMoves

-----------------------------------------------------------------------------
(* Time, and the end                                                       *)

Expired(e) == [[e EXCEPT !.exp = 0] EXCEPT !.prevExp = 0]
LEMMA ExpiredPut ==
  ASSUME NEW e \in Frame, NEW u, u = Expired(e)
  PROVE  u \in Frame /\ Twin(e, u) /\ u.left = e.left
<1>1. PICK v : v = [e EXCEPT !.exp = 0]
  OBVIOUS
<1>2. v \in Frame /\ Twin(e, v) /\ v.left = e.left
  BY <1>1 DEF Frame, Twin, Kin
<1>3. u = [v EXCEPT !.prevExp = 0]
  BY <1>1 DEF Expired
<1>4. u \in Frame /\ Twin(v, u) /\ u.left = v.left
  <2>1. v \in Frame
    BY <1>2
  <2>2. u \in Frame
    <3>1. PICK z : z = 0
      OBVIOUS
    <3>2. u = [v EXCEPT !.prevExp = z] /\ z \in 0 .. 1
      BY <1>3, <3>1
    <3>3. QED
      BY ONLY <2>1, <3>2 DEF Frame
  <2>3. u.start = v.start /\ u.blocks = v.blocks /\ u.left = v.left /\ u.type = v.type
    BY <1>3, <2>1 DEF Frame
  <2>4. u.isMethod = v.isMethod /\ u.needResult = v.needResult /\ u.needLoad = v.needLoad
    BY <1>3, <2>1 DEF Frame
  <2>5. u.parent = v.parent /\ u.end = v.end
    BY <1>3, <2>1 DEF Frame
  <2>6. QED
    BY <2>2, <2>3, <2>4, <2>5 DEF Twin, Kin
<1>5. u.left = e.left
  BY <1>2, <1>4
<1>6. Kin(e, u)
  BY <1>2, <1>4 DEF Twin, Kin
<1>7. u.type = e.type /\ u.isMethod = e.isMethod /\ u.needResult = e.needResult
  BY <1>2, <1>4 DEF Twin
<1>8. u.needLoad = e.needLoad /\ u.parent = e.parent /\ u.end = e.end
  BY <1>2, <1>4 DEF Twin
<1>9. QED
  BY <1>4, <1>5, <1>6, <1>7, <1>8 DEF Twin

\* Nothing that the stacks share has changed.
LEMMA SameFits ==
  ASSUME NEW fs, NEW ms, NEW os, NEW sc, NEW n, NEW f, Tops(fs, ms, os, sc, n, f),
         NEW gs \in Seq(Frame), Len(gs) = n,
         \A i \in 1 .. n : Twin(fs[i], gs[i]) /\ gs[i].left = fs[i].left
  PROVE  Fit(gs, ms, os, sc) /\ Kept(fs, os, gs, os)
<1>1. /\ program \in Programs /\ n \in Nat /\ n >= 1 /\ Len(fs) = n /\ f = fs[n]
      /\ Fit(fs, ms, os, sc) /\ n \in 1 .. n
  BY DEF Tops
<1>2. /\ fs \in Seq(Frame) /\ f \in Frame /\ ms \in Seq({"method", "load"})
      /\ sc \in 0 .. MaxFrames /\ os \in Seq(Object) /\ ListsFit(os) /\ TopFine(f, os)
      /\ Len(os) \in Nat /\ Len(ms) = Cardinality(MethodsIn(fs, 1, n)) /\ f.start <= Len(os)
      /\ (\A j \in 1 .. Len(f.blocks) : BlockPlaced(f, j) /\ Roomy(fs, n, f.blocks[j]))
      /\ ("literals" \notin AmlMay => Extra(fs, n, Len(os)))
      /\ ("leaveScope" \notin AmlMay /\ (f.left > 0 \/ f.blocks # <<>> \/ f.type # "Scope") =>
            sc = ScopeNumber(fs, n))
  BY TopFacts
<1>3. PICK g : g = gs[n]
  OBVIOUS
<1>4. Twin(f, g) /\ g.left = f.left
  BY <1>1, <1>3
<1>5. /\ Kin(f, g) /\ g.type = f.type /\ g.isMethod = f.isMethod /\ g.needResult = f.needResult
      /\ g.start = f.start /\ g.blocks = f.blocks /\ Alike(f, g)
  BY <1>4 DEF Twin, Kin, Alike
<1>6. Change(fs, gs, n)
  <2>1. \A i \in 1 .. n - 1 : Twin(fs[i], gs[i])
    BY <1>1
  <2>2. QED
    BY <1>1, <1>3, <1>5, <2>1 DEF Change
<1>7. StacksTyped(gs, ms, os, sc)
  BY <1>2 DEF StacksTyped
<1>8. Same(os, os, f.start)
  BY <1>2, SameRefl
<1>9. TopFine(g, os)
  BY <1>2, <1>5, KinFine
<1>10. \/ n = n /\ Same(os, os, fs[n].start) /\ TopFine(gs[n], os)
       \/ /\ n < n /\ Kin(fs[n], gs[n])
          /\ Same(os, os, fs[n + 1].start) /\ Objs(os, fs[n + 1].start + 1, Len(os))
  BY <1>1, <1>3, <1>8, <1>9
<1>11. \A j \in 1 .. Len(gs[n].blocks) :
         BlockPlaced(gs[n], j) /\ Roomy(fs, n, gs[n].blocks[j])
  BY <1>2, <1>3, <1>4, <1>5 DEF BlockPlaced
<1>12. "literals" \notin AmlMay => Extra(gs, n, Len(os))
  <2>1. ASSUME "literals" \notin AmlMay
        PROVE  Extra(gs, n, Len(os))
    <3>1. Extra(fs, n, Len(os))
      BY <1>2, <2>1
    <3>2. Level(g, Len(os)) = Level(f, Len(os))
      BY <1>5 DEF Level
    <3>3. n >= 2 => gs[n - 1].blocks = fs[n - 1].blocks /\ gs[n - 1].type = fs[n - 1].type
      <4>1. n >= 2 => n - 1 \in 1 .. n
        BY <1>1
      <4>2. QED
        BY <4>1 DEF Twin, Kin
    <3>4. n = 1 \/ n >= 2
      BY <1>1
    <3>5. CASE f.type = "Package"
      BY <1>3, <1>5, <3>5 DEF Extra
    <3>6. CASE f.type # "Package" /\ Level(f, Len(os)) = f.start
      BY <1>3, <1>5, <3>2, <3>6 DEF Extra
    <3>7. CASE /\ f.type # "Package" /\ Level(f, Len(os)) = f.start + 1 /\ f.isMethod /\ ~ f.needResult
               /\ \/ n = 1
                  \/ /\ f.left = 0 /\ f.blocks = <<>>
                     /\ fs[n - 1].blocks # <<>> \/ fs[n - 1].type = "Package"
      <4>1. Level(g, Len(os)) = g.start + 1 /\ g.isMethod /\ ~ g.needResult
        BY <1>5, <3>2, <3>7
      <4>2. \/ n = 1
            \/ /\ n = Len(gs) /\ g.left = 0 /\ g.blocks = <<>>
               /\ gs[n - 1].blocks # <<>> \/ gs[n - 1].type = "Package"
        BY <1>4, <1>5, <3>3, <3>4, <3>7
      <4>3. QED
        BY <1>3, <4>1, <4>2 DEF Extra
    <3>8. QED
      BY <1>1, <3>1, <3>5, <3>6, <3>7 DEF Extra
  <2>2. QED
    BY <2>1
<1>13. "leaveScope" \notin AmlMay =>
         (gs[n].left > 0 \/ gs[n].blocks # <<>> \/ gs[n].type # "Scope" => sc = ScopeNumber(fs, n))
  BY <1>2, <1>3, <1>4, <1>5
<1>14. \A i \in 1 .. Len(ms) : ms[i] = ms[i]
  OBVIOUS
<1>15. ListsFit(os) /\ Len(ms) = Cardinality(MethodsIn(fs, 1, n))
  BY <1>2
<1>16. QED
  BY <1>1, <1>6, <1>7, <1>10, <1>11, <1>12, <1>13, <1>14, <1>15, FitCut

LEMMA TickMoves ==
  ASSUME IInv, Tick
  PROVE  Moves
<1>1. PICK n, f, gs : n = Len(frames) /\ f = Top /\ gs = frames'
  OBVIOUS
<1>2. /\ gs = [i \in 1 .. n |-> [frames[i] EXCEPT !.exp = 0, !.prevExp = 0]]
      /\ methodFrames' = methodFrames /\ objects' = objects /\ scope' = scope
      /\ \E i \in 1 .. n : frames[i].exp = 1 \/ frames[i].prevExp = 1
  BY <1>1 DEF Tick
<1>3. frames \in Seq(Frame)
  BY DEF IInv, Fit, StacksTyped
<1>4. n \in Nat /\ frames # <<>>
  <2>1. n \in Nat
    BY <1>1, <1>3
  <2>2. 1 .. n # {}
    BY <1>2
  <2>3. Len(frames) # 0
    BY <1>1, <2>1, <2>2
  <2>4. QED
    BY <2>1, <2>3
<1>5. Tops(frames, methodFrames, objects, scope, n, f)
  BY <1>1, <1>4, AtTop
<1>6. ASSUME NEW i \in 1 .. n
      PROVE  gs[i] \in Frame /\ Twin(frames[i], gs[i]) /\ gs[i].left = frames[i].left
  <2>1. PICK e, u : e = frames[i] /\ u = Expired(e)
    OBVIOUS
  <2>2. e \in Frame
    BY <1>1, <1>3, <2>1
  <2>3. u \in Frame /\ Twin(e, u) /\ u.left = e.left
    BY <2>1, <2>2, ExpiredPut
  <2>4. gs[i] = [e EXCEPT !.exp = 0, !.prevExp = 0]
    BY <1>2, <2>1
  <2>5. gs[i] = u
    BY <2>1, <2>4 DEF Expired
  <2>6. QED
    BY <2>1, <2>3, <2>5
<1>7. gs \in Seq(Frame) /\ Len(gs) = n
  <2>1. \A i \in 1 .. n : gs[i] \in Frame
    BY <1>6
  <2>2. DOMAIN gs = 1 .. n /\ gs = [i \in 1 .. n |-> gs[i]]
    BY <1>2
  <2>3. QED
    BY <1>4, <2>1, <2>2
<1>8. \A i \in 1 .. n : Twin(frames[i], gs[i]) /\ gs[i].left = frames[i].left
  BY <1>6
<1>9. Fit(gs, methodFrames, objects, scope) /\ Kept(frames, objects, gs, objects)
  BY <1>5, <1>7, <1>8, SameFits
<1>10. QED
  BY <1>1, <1>2, <1>9 DEF Moves

-----------------------------------------------------------------------------
(* The invariant                                                           *)

LEMMA Starts ==
  ASSUME Init
  PROVE  IInv
<1>1. program \in Programs /\ MaxBody \in Nat /\ MaxFrames \in Nat /\ MaxFrames >= 1
  BY ProgramsAssumption DEF Init, MaxBody, MaxFrames
<1>2. PICK left \in 0 .. MaxBody, base \in program.bases :
        /\ frames = << [type |-> "Scope", isMethod |-> base = "method",
                        needResult |-> base = "method", needLoad |-> FALSE, parent |-> 0,
                        start |-> 0, left |-> left, again |-> FALSE, end |-> -1, exp |-> 0,
                        prevEnd |-> -1, prevExp |-> 0, blocks |-> <<>>] >>
        /\ methodFrames = IF base = "method" THEN <<"method">> ELSE <<>>
        /\ scope = IF base = "method" THEN 1 ELSE 0
  BY DEF Init
<1>3. PICK method \in BOOLEAN : method <=> base = "method"
  OBVIOUS
<1>4. PICK f : f = frames[1]
  OBVIOUS
<1>5. /\ f \in Frame /\ f.type = "Scope" /\ (f.isMethod <=> method) /\ (f.needResult <=> method)
      /\ ~ f.needLoad /\ f.parent = 0 /\ f.start = 0 /\ f.blocks = <<>> /\ frames = <<f>>
      /\ Len(f.blocks) = 0
  <2>1. PICK e : e = [type |-> "Scope", isMethod |-> method,
                        needResult |-> method, needLoad |-> FALSE, parent |-> 0,
                        start |-> 0, left |-> left, again |-> FALSE, end |-> -1, exp |-> 0,
                        prevEnd |-> -1, prevExp |-> 0, blocks |-> <<>>]
    OBVIOUS
  <2>2. frames = <<e>> /\ f = e
    BY <1>2, <1>3, <1>4, <2>1
  <2>3. e \in Frame
    BY <1>1, <2>1 DEF Frame, Types
  <2>4. QED
    BY <2>1, <2>2, <2>3
<1>6. /\ objects = <<>> /\ objects \in Seq(Object) /\ Len(objects) = 0 /\ frames \in Seq(Frame)
      /\ Len(frames) = 1 /\ frames[1] = f /\ frames # <<>>
  <2>1. objects = <<>>
    BY DEF Init
  <2>2. frames = <<f>> /\ f \in Frame
    BY <1>5
  <2>3. frames \in Seq(Frame) /\ Len(frames) = 1 /\ frames[1] = f
    BY <2>2
  <2>4. frames # <<>>
    <3>1. Len(frames) # 0
      BY <2>3
    <3>2. QED
      BY <3>1
  <2>5. objects \in Seq(Object) /\ Len(objects) = 0
    BY <2>1
  <2>6. QED
    BY <2>1, <2>3, <2>4, <2>5
<1>7. /\ methodFrames \in Seq({"method", "load"})
      /\ Len(methodFrames) = (IF method THEN 1 ELSE 0)
      /\ \A i \in 1 .. Len(methodFrames) : methodFrames[i] = "method"
  <2>1. CASE method
    <3>1. methodFrames = <<"method">>
      BY <1>2, <1>3, <2>1
    <3>2. QED
      BY <2>1, <3>1
  <2>2. CASE ~ method
    <3>1. methodFrames = <<>>
      BY <1>2, <1>3, <2>2
    <3>2. QED
      BY <2>2, <3>1
  <2>3. QED
    BY <2>1, <2>2
<1>8. scope = (IF method THEN 1 ELSE 0) /\ scope \in 0 .. MaxFrames
  BY <1>1, <1>2, <1>3
<1>9. StacksTyped(frames, methodFrames, objects, scope) /\ ListsFit(objects)
  BY <1>6, <1>7, <1>8 DEF StacksTyped, ListsFit
<1>10. Shape(frames, objects)
  <2>1. TopFine(f, objects)
    <3>1. Level(f, Len(objects)) = 0
      BY <1>5, <1>6 DEF Level
    <3>2. FrameFine(f, objects, Len(objects))
      BY <1>5, <1>6, <3>1 DEF FrameFine, Objs
    <3>3. QED
      BY <1>5, <3>2 DEF TopFine
  <2>2. QED
    BY <1>5, <1>6, <2>1 DEF Shape
<1>11. BlocksPlaced(frames)
  BY <1>5, <1>6 DEF BlocksPlaced
<1>12. FramesLinked(frames)
  <2>1. BaseFrame(frames[1])
    BY <1>5, <1>6 DEF BaseFrame
  <2>2. QED
    BY <1>1, <1>6, <2>1 DEF FramesLinked
<1>13. MethodsFit(frames, methodFrames)
  <2>1. Cardinality(MethodsIn(frames, 1, 1)) = IF f.isMethod THEN 1 ELSE 0
    BY <1>6, MethodsOne
  <2>2. Len(methodFrames) = Cardinality(MethodsIn(frames, 1, Len(frames)))
    BY <1>5, <1>6, <1>7, <2>1
  <2>3. ASSUME NEW i \in 1 .. Len(frames), frames[i].isMethod,
               methodFrames[Cardinality(MethodsIn(frames, 1, i))] = "load"
        PROVE  FALSE
    <3>1. i = 1
      BY <1>6, <2>3
    <3>2. Cardinality(MethodsIn(frames, 1, i)) = 1 /\ 1 \in 1 .. Len(methodFrames)
      BY <1>5, <1>6, <1>7, <2>1, <2>3, <3>1
    <3>3. methodFrames[1] = "load" /\ methodFrames[1] = "method"
      BY <1>7, <2>3, <3>2
    <3>4. QED
      BY <3>3
  <2>4. QED
    BY <2>2, <2>3 DEF MethodsFit
<1>14. Balanced(frames, objects)
  <2>1. Extra(frames, 1, Len(objects))
    BY <1>5, <1>6 DEF Extra, Level
  <2>2. QED
    BY <1>6, <2>1 DEF Balanced
<1>15. ScopesFit(frames, scope)
  <2>1. ScopeNumber(frames, 1) = scope
    <3>1. Innermost(frames, 1) = 1
      <4>1. \A i \in 1 .. 1 : (frames[i].type = "Scope" /\ \A j \in i + 1 .. 1 : frames[j].type # "Scope") <=> i = 1
        BY <1>5, <1>6
      <4>2. QED
        BY <4>1 DEF Innermost
    <3>2. QED
      BY <1>5, <1>6, <1>8, <3>1 DEF ScopeNumber
  <2>2. QED
    BY <1>6, <2>1 DEF ScopesFit
<1>16. LimitKept(methodFrames)
  BY <1>7, LimitsAssumption DEF LimitKept
<1>17. status = "running"
  BY DEF Init
<1>18. QED
  BY <1>1, <1>9, <1>10, <1>11, <1>12, <1>13, <1>14, <1>15, <1>16, <1>17 DEF IInv, Fit

LEMMA FinishMoves ==
  ASSUME IInv, Finish
  PROVE  /\ Moves /\ status' \in {"success", "internal"}
         /\ ("literals" \notin AmlMay => status' = "success")
<1>1. /\ frames = <<>> /\ UNCHANGED <<frames, methodFrames, objects, scope>>
      /\ status' = IF Len(objects) > 1 \/ methodFrames # <<>> THEN "internal" ELSE "success"
  BY DEF Finish
<1>2. Moves
  BY <1>1, Stays
<1>3. methodFrames = <<>>
  <2>1. methodFrames \in Seq({"method", "load"})
        /\ Len(methodFrames) = Cardinality(MethodsIn(frames, 1, Len(frames)))
    BY DEF IInv, Fit, StacksTyped, MethodsFit
  <2>2. MethodsIn(frames, 1, Len(frames)) = {}
    BY <1>1 DEF MethodsIn
  <2>3. Len(methodFrames) = 0
    BY <2>1, <2>2, FS_EmptySet
  <2>4. QED
    BY <2>1, <2>3
<1>4. "literals" \notin AmlMay => status' = "success"
  <2>1. ASSUME "literals" \notin AmlMay
        PROVE  status' = "success"
    <3>1. Balanced(frames, objects) /\ objects \in Seq(Object)
      BY <2>1 DEF IInv, Fit, StacksTyped
    <3>2. Len(objects) <= 1
      BY <1>1, <3>1 DEF Balanced
    <3>3. ~ (Len(objects) > 1)
      BY <3>1, <3>2
    <3>4. QED
      BY <1>1, <1>3, <3>3
  <2>2. QED
    BY <2>1
<1>5. QED
  BY <1>1, <1>2, <1>4

\* A step of parse, or of the clock
LEMMA NextMoves ==
  ASSUME IInv, Parse \/ Tick
  PROVE  /\ Moves
         /\ \/ status' = status \/ status' = "failed" \/ status' = "success"
            \/ "literals" \in AmlMay /\ status' = "internal"
<1>1. CASE FetchStatement
  <2>1. status' = status
    BY <1>1 DEF FetchStatement
  <2>2. QED
    BY <1>1, <2>1, StatementFetched
<1>2. CASE PlainOperand
  <2>1. status' = status
    BY <1>2 DEF PlainOperand
  <2>2. QED
    BY <1>2, <2>1, PlainMoves
<1>3. CASE TermOperand
  <2>1. status' = status
    BY <1>3 DEF TermOperand
  <2>2. QED
    BY <1>3, <2>1, TermMoves
<1>4. CASE ArgsOperand
  <2>1. status' = status
    BY <1>4 DEF ArgsOperand
  <2>2. QED
    BY <1>4, <2>1, ArgsMoves
<1>5. CASE ElementsOperand
  <2>1. status' = status
    BY <1>5 DEF ElementsOperand
  <2>2. QED
    BY <1>5, <2>1, ElementsMoves
<1>6. CASE FieldsOperand
  <2>1. status' = status
    BY <1>6 DEF FieldsOperand
  <2>2. QED
    BY <1>6, <2>1, FieldsMoves
<1>7. CASE OperandDone
  BY <1>7, OperandMoves
<1>8. CASE HandleOp
  <2>1. status' = status
    BY <1>8 DEF HandleOp
  <2>2. QED
    BY <1>8, <2>1, OpMoves
<1>9. CASE HandlePackage
  <2>1. status' = status
    BY <1>9 DEF HandlePackage
  <2>2. QED
    BY <1>9, <2>1, PackageMoves
<1>10. CASE EnterScope
  <2>1. status' = status
    BY <1>10 DEF EnterScope
  <2>2. QED
    BY <1>10, <2>1, ScopeMoves
<1>11. CASE HandleIf
  <2>1. status' = status
    BY <1>11 DEF HandleIf
  <2>2. QED
    BY <1>11, <2>1, IfMoves
<1>12. CASE WhileTrue
  <2>1. status' = status
    BY <1>12 DEF WhileTrue
  <2>2. QED
    BY <1>12, <2>1, TrueMoves
<1>13. CASE WhileFalse
  <2>1. status' = status
    BY <1>13 DEF WhileFalse
  <2>2. QED
    BY <1>13, <2>1, FalseMoves
<1>14. CASE HandleReturn
  <2>1. status' = status
    BY <1>14 DEF HandleReturn
  <2>2. QED
    BY <1>14, <2>1, ReturnMoves
<1>15. CASE HandleBreak
  <2>1. status' = status
    BY <1>15 DEF HandleBreak
  <2>2. QED
    BY <1>15, <2>1, BreakMoves
<1>16. CASE HandleContinue
  <2>1. status' = status
    BY <1>16 DEF HandleContinue
  <2>2. QED
    BY <1>16, <2>1, ContinueMoves
<1>17. CASE HandleCall
  <2>1. status' = status
    BY <1>17 DEF HandleCall
  <2>2. QED
    BY <1>17, <2>1, CallMoves
<1>18. CASE HandleLoad
  <2>1. status' = status
    BY <1>18 DEF HandleLoad
  <2>2. QED
    BY <1>18, <2>1, LoadMoves
<1>19. CASE EndFrame
  <2>1. status' = status
    BY <1>19 DEF EndFrame
  <2>2. QED
    BY <1>19, <2>1, EndMoves
<1>20. CASE LoadEndFails
  <2>1. status' = status
    BY <1>20 DEF LoadEndFails
  <2>2. QED
    BY <1>20, <2>1, LoadFails
<1>21. CASE Finish
  BY <1>21, FinishMoves
<1>22. CASE Fail
  BY <1>22, FailMoves
<1>23. CASE Tick
  <2>1. status' = status
    BY <1>23 DEF Tick
  <2>2. QED
    BY <1>23, <2>1, TickMoves
<1>24. QED
  BY <1>1, <1>2, <1>3, <1>4, <1>5, <1>6, <1>7, <1>8, <1>9, <1>10, <1>11, <1>12, <1>13, <1>14,
     <1>15, <1>16, <1>17, <1>18, <1>19, <1>20, <1>21, <1>22, <1>23 DEF Parse

LEMMA Inductive == IInv /\ [Next]_vars => IInv' /\ Moves
<1> SUFFICES ASSUME IInv, [Next]_vars
             PROVE  IInv' /\ Moves
  OBVIOUS
<1>1. CASE Next
  <2>1. (Parse \/ Tick) /\ UNCHANGED program
    BY <1>1 DEF Next
  <2>2. /\ Moves
        /\ \/ status' = status \/ status' = "failed" \/ status' = "success"
           \/ "literals" \in AmlMay /\ status' = "internal"
    BY <2>1, NextMoves
  <2>3. /\ status \in {"running", "success", "failed", "internal"}
        /\ ("literals" \notin AmlMay => status # "internal")
    BY DEF IInv
  <2>4. status' \in {"running", "success", "failed", "internal"}
    BY <2>2, <2>3
  <2>5. "literals" \notin AmlMay => status' # "internal"
    BY <2>2, <2>3
  <2>6. QED
    BY <2>1, <2>2, <2>4, <2>5, Settles
<1>2. CASE UNCHANGED vars
  <2>1. UNCHANGED <<frames, methodFrames, objects, scope>> /\ UNCHANGED program /\ status' = status
    BY <1>2 DEF vars
  <2>2. Moves
    BY <2>1, Stays
  <2>3. /\ status' \in {"running", "success", "failed", "internal"}
        /\ ("literals" \notin AmlMay => status' # "internal")
    BY <2>1 DEF IInv
  <2>4. QED
    BY <2>1, <2>2, <2>3, Settles
<1>3. Next \/ UNCHANGED vars
  OBVIOUS
<1>4. QED
  BY <1>1, <1>2, <1>3

\* The stacks of the interpreter fit after every step, whatever the AML.
THEOREM Invariance == Spec => []IInv
<1>1. Init => IInv
  BY Starts
<1>2. IInv /\ [Next]_vars => IInv'
  BY Inductive
<1>3. QED
  BY <1>1, <1>2, PTL DEF Spec

\* No step pops or alters what was on the object stack when a frame began that is still
\* there after it: a call, load, Return, unwinding or failure leaves its caller's operands.
THEOREM CallersKept == Spec => CallersOperandsKept
<1>1. IInv /\ [Next]_vars =>
        [\A i \in 1 .. Len(frames) :
           LET n == frames[i].start IN
           i <= Len(frames') => Len(objects') >= n /\ Take(objects', n) = Take(objects, n)]_vars
  <2> SUFFICES ASSUME IInv, [Next]_vars
               PROVE  \A i \in 1 .. Len(frames) :
                        i <= Len(frames') => /\ Len(objects') >= frames[i].start
                                             /\ Take(objects', frames[i].start) = Take(objects, frames[i].start)
    OBVIOUS
  <2>1. Kept(frames, objects, frames', objects') /\ Fit(frames', methodFrames', objects', scope')
    BY Inductive DEF Moves
  <2>2. PICK fs, os, w : fs = frames /\ os = objects /\ w = objects'
    OBVIOUS
  <2>3. fs \in Seq(Frame) /\ os \in Seq(Object) /\ w \in Seq(Object)
    BY <2>1, <2>2 DEF IInv, Fit, StacksTyped
  <2>4. ASSUME NEW i \in 1 .. Len(frames), i <= Len(frames')
        PROVE  Len(w) >= fs[i].start /\ Take(w, fs[i].start) = Take(os, fs[i].start)
    <3>1. PICK n : n = fs[i].start
      OBVIOUS
    <3>2. n \in Nat
      <4>1. fs[i] \in Frame
        BY <2>2, <2>3, <2>4
      <4>2. QED
        BY <3>1, <4>1, FrameTypes
    <3>3. Same(os, w, n)
      BY <2>1, <2>2, <2>4, <3>1 DEF Kept
    <3>4. n \in 0 .. Len(os) /\ n \in 0 .. Len(w) /\ \A j \in 1 .. n : w[j] = os[j]
      BY <2>3, <3>2, <3>3 DEF Same
    <3>5. PICK s, t : s = Take(w, n) /\ t = Take(os, n)
      OBVIOUS
    <3>6. s \in Seq(Object) /\ Len(s) = n /\ \A j \in 1 .. n : s[j] = w[j]
      BY <2>3, <3>4, <3>5, Prefix
    <3>7. t \in Seq(Object) /\ Len(t) = n /\ \A j \in 1 .. n : t[j] = os[j]
      BY <2>3, <3>4, <3>5, Prefix
    <3>8. \A j \in 1 .. n : s[j] = t[j]
      BY <3>4, <3>6, <3>7
    <3>9. s = t
      BY <3>6, <3>7, <3>8
    <3>10. QED
      BY <2>3, <3>1, <3>2, <3>4, <3>5, <3>9
  <2>5. QED
    BY <2>2, <2>4
<1>2. QED
  BY <1>1, Invariance, PTL DEF Spec, CallersOperandsKept

\* The innermost Scope frame is where names are looked up.
LEMMA ScopesAgree ==
  ASSUME IInv
  PROVE  ScopeAgrees
<1> DEFINE scopes == {i \in 1 .. Len(frames) : frames[i].type = "Scope"}
           inner == CHOOSE i \in scopes : \A j \in scopes : j <= i
<1>1. SUFFICES ASSUME "leaveScope" \notin AmlMay, Running, Top.left > 0 \/ Top.blocks # <<>>
               PROVE  scope = IF inner = 1 /\ ~ frames[1].isMethod THEN 0 ELSE inner
  BY DEF ScopeAgrees
<1> HIDE DEF inner
<1>2. PICK n, f : n = Len(frames) /\ f = Top
  OBVIOUS
<1>3. frames # <<>>
  BY <1>1 DEF Running
<1>4. Tops(frames, methodFrames, objects, scope, n, f)
  BY <1>2, <1>3, AtTop
<1>5. n \in Nat /\ n >= 1 /\ scope = ScopeNumber(frames, n)
  BY <1>1, <1>2, <1>4, TopFacts
<1>6. frames[1].type = "Scope"
  <2>1. FramesLinked(frames)
    BY DEF IInv, Fit
  <2>2. QED
    BY <1>3, <2>1 DEF FramesLinked, BaseFrame
<1>7. PICK k : IsInner(frames, n, k)
  BY <1>5, <1>6, InnerExists
<1>8. Innermost(frames, n) = k
  BY <1>5, <1>7, InnerIs
<1>9. k \in scopes /\ \A j \in scopes : j <= k
  <2>1. k \in 1 .. n /\ frames[k].type = "Scope"
    BY <1>7 DEF IsInner
  <2>2. ASSUME NEW j \in scopes
        PROVE  j <= k
    <3>1. j \in 1 .. n /\ frames[j].type = "Scope"
      BY <1>1, <1>2
    <3>2. ~ (j \in k + 1 .. n)
      BY <1>7, <3>1 DEF IsInner
    <3>3. QED
      BY <1>5, <2>1, <3>1, <3>2
  <2>3. QED
    BY <1>1, <1>2, <2>1, <2>2
<1>10. inner = k
  <2>1. inner \in scopes /\ \A j \in scopes : j <= inner
    BY <1>9, Zenon DEF inner
  <2>2. inner <= k /\ k <= inner
    BY <1>9, <2>1
  <2>3. inner \in Nat /\ k \in Nat
    BY <1>1, <1>9, <2>1
  <2>4. QED
    BY <2>2, <2>3
<1>11. QED
  BY <1>5, <1>8, <1>10 DEF ScopeNumber

\* Between statements, only a method's result is above what was there when the frame began.
LEMMA StatementsLeave ==
  ASSUME IInv, "literals" \notin AmlMay
  PROVE  StatementsBalance
<1>1. SUFFICES ASSUME AtStatement, Top.type # "Package"
               PROVE  \/ Len(objects) = Top.start
                      \/ /\ Len(objects) = Top.start + 1
                         /\ Top.isMethod /\ ~Top.needResult
                         /\ Top.left = 0 \/ Len(frames) = 1
  BY DEF StatementsBalance
<1>2. PICK n, f : n = Len(frames) /\ f = Top
  OBVIOUS
<1>3. frames # <<>> /\ f.blocks = <<>> /\ f.type # "Package"
  BY <1>1, <1>2 DEF AtStatement, Running
<1>4. Tops(frames, methodFrames, objects, scope, n, f)
  BY <1>2, <1>3, AtTop
<1>5. Extra(frames, n, Len(objects)) /\ f = frames[n]
  BY <1>4, TopFacts
<1>6. Level(f, Len(objects)) = Len(objects)
  BY <1>3 DEF Level
<1>7. \/ Len(objects) = f.start
      \/ Len(objects) = f.start + 1 /\ f.isMethod /\ ~ f.needResult /\ (f.left = 0 \/ n = 1)
  BY <1>3, <1>5, <1>6 DEF Extra
<1>8. QED
  BY <1>2, <1>7

LEMMA StacksAre ==
  ASSUME IInv
  PROVE  StacksAgree
<1>1. TypeOK
  BY DEF IInv, Fit, StacksTyped, TypeOK
<1>2. FramesAgree
  BY DEF IInv, Fit, MethodsFit, FramesAgree
<1>3. ScopeAgrees
  BY ScopesAgree
<1>4. "literals" \notin AmlMay => StatementsBalance /\ NoInternalError
  BY StatementsLeave DEF IInv, NoInternalError
<1>5. QED
  BY <1>1, <1>2, <1>3, <1>4 DEF StacksAgree

\* Frames, method frames and current_scope fit together through calls, failing loads and
\* unwinding; statements leave the object stack as they found it, but for a method's one
\* result, and the assertions at the end of parse() hold.
THEOREM StacksFit == Spec => []StacksAgree
<1>1. IInv => StacksAgree
  BY StacksAre
<1>2. QED
  BY <1>1, Invariance, PTL

\* A call never makes the first method frame beyond max_callstack_depth: whatever the
\* AML, only a Load executed with that many, which looks at no limit, does.
THEOREM CallDepth == Spec => []CallsBounded
<1>1. IInv => CallsBounded
  BY DEF IInv, Fit, LimitKept, CallsBounded
<1>2. QED
  BY <1>1, Invariance, PTL

LEMMA KindsAre ==
  ASSUME NEW o \in Seq(ObjectKinds), NEW a \in Int, NEW b \in Int, b - a + 1 = Len(o),
         \A i \in 1 .. Len(o) : objects[a + i - 1].kind = o[i]
  PROVE  Kinds(a, b) = o
<1>1. DOMAIN o = 1 .. Len(o) /\ o = [i \in 1 .. Len(o) |-> o[i]]
  OBVIOUS
<1>2. Kinds(a, b) = [i \in 1 .. Len(o) |-> objects[a + i - 1].kind]
  BY DEF Kinds
<1>3. QED
  BY <1>1, <1>2

\* When a handler is called, the top of the stack is what its script promised.
LEMMA HandlersTake ==
  ASSUME IInv
  PROVE  OperandsMatch
<1>1. SUFFICES ASSUME AtHandler,
                      NEW n, n = Len(objects), NEW k, k = Len(Operands(Op.op))
               PROVE  CASE Op.op \in {"Package", "VarPackage"} ->
                             /\ n >= Op.start /\ Op.start >= 2
                             /\ Kinds(Op.start - 1, Op.start) = Operands(Op.op)
                             /\ AllObj(Op.start + 1, n)
                        [] Op.op = "Call" ->
                             /\ n = Op.start + 1 + objects[Op.start + 1].count
                             /\ objects[Op.start + 1].kind = "args"
                             /\ AllObj(Op.start + 2, n)
                        [] OTHER -> n >= k /\ Kinds(n - k + 1, n) = Operands(Op.op)
  BY DEF OperandsMatch
<1>2. PICK b, o : b = Op /\ o = Operands(b.op)
  OBVIOUS
<1>3. /\ Current(b, objects) /\ b.ip = Len(Script(b.op)) + 1 /\ objects \in Seq(Object)
  <2>1. PICK f : f = Top
    OBVIOUS
  <2>2. PICK m : m = Len(frames)
    OBVIOUS
  <2>3. QED
    BY <1>1, <1>2, <2>1, <2>2, AtHandling
<1>4. ScriptFits(b.op, Script(b.op), o, Adv(b.op)) /\ b.start \in Nat /\ b.op \in Handlers
  BY <1>2, <1>3, BlockFacts
<1>5. o \in Seq(ObjectKinds) /\ Len(o) = k /\ k \in Nat /\ n \in Nat
  BY <1>1, <1>2, <1>3, <1>4 DEF ScriptFits
<1>6. CASE b.op \in {"Package", "VarPackage"}
  <2>1. b.op \in Packages /\ b.op \notin FieldOps /\ b.op \notin Internal
    BY <1>6 DEF Packages, FieldOps, Internal
  <2>2. /\ Base(b) = b.start - 2 /\ Base(b) \in Nat /\ b.start <= n
        /\ objects[b.start - 1].kind = "len" /\ objects[b.start].kind = "len"
        /\ Objs(objects, b.start + 1, n)
    BY <1>1, <1>3, <2>1, PackageTakes
  <2>3. Len(o) = 2 /\ o[1] = "len" /\ o[2] = "len"
    <3>1. PICK s, a : s = Script(b.op) /\ a = Adv(b.op)
      OBVIOUS
    <3>2. ScriptFits(b.op, s, o, a)
      BY <1>4, <3>1
    <3>3. a = 2 /\ s[1] = "PkgLength" /\ (b.op = "Package" => s[2] = "Byte")
      BY <1>6, <3>2 DEF ScriptFits
    <3>4. Len(o) = 2 /\ \A i \in 1 .. 2 : o[i] = IF b.op = "VarPackage" /\ i = 2 THEN "len" ELSE KindOf(s[i])
      BY <2>1, <3>2, <3>3 DEF ScriptFits
    <3>5. KindOf("PkgLength") = "len" /\ KindOf("Byte") = "len"
      BY DEF KindOf
    <3>6. o[1] = "len"
      BY <3>3, <3>4, <3>5
    <3>7. o[2] = "len"
      BY <1>6, <3>3, <3>4, <3>5
    <3>8. QED
      BY <3>4, <3>6, <3>7
  <2>4. PICK c, d : c = b.start - 1 /\ d = b.start
    OBVIOUS
  <2>5. c \in Int /\ d \in Int /\ d - c + 1 = Len(o) /\ b.start >= 2
    BY <1>4, <2>2, <2>3, <2>4
  <2>6. ASSUME NEW i \in 1 .. Len(o)
        PROVE  objects[c + i - 1].kind = o[i]
    <3>1. i = 1 \/ i = 2
      BY <2>3
    <3>2. CASE i = 1
      <4>1. c + i - 1 = b.start - 1
        BY <1>4, <2>4, <3>2
      <4>2. QED
        BY <2>2, <2>3, <3>2, <4>1
    <3>3. CASE i = 2
      <4>1. c + i - 1 = b.start
        BY <1>4, <2>4, <3>3
      <4>2. QED
        BY <2>2, <2>3, <3>3, <4>1
    <3>4. QED
      BY <3>1, <3>2, <3>3
  <2>7. Kinds(c, d) = o
    BY <1>5, <2>5, <2>6, KindsAre
  <2>8. AllObj(b.start + 1, n)
    BY <2>2 DEF AllObj, Objs
  <2>9. n >= b.start
    BY <1>4, <1>5, <2>2
  <2>10. /\ n >= b.start /\ b.start >= 2 /\ Kinds(b.start - 1, b.start) = Operands(b.op)
         /\ AllObj(b.start + 1, n)
    BY <1>2, <2>4, <2>5, <2>7, <2>8, <2>9
  <2>11. QED
    BY <1>2, <1>6, <2>10
<1>7. CASE b.op = "Call"
  <2>1. /\ n = b.start + 1 + objects[b.start + 1].count
        /\ objects[b.start + 1].kind = "args" /\ Objs(objects, b.start + 2, n)
    BY <1>1, <1>3, <1>7, CallTakes
  <2>2. AllObj(b.start + 2, n)
    BY <2>1 DEF AllObj, Objs
  <2>3. b.op \notin {"Package", "VarPackage"}
    BY <1>7
  <2>4. QED
    BY <1>2, <1>7, <2>1, <2>2, <2>3
<1>8. CASE b.op \notin {"Package", "VarPackage", "Call"}
  <2>1. n >= k /\ \A i \in 1 .. k : objects[n - k + i].kind = o[i]
    <3>1. CASE b.op = "TermArg"
      <4>1. k = 0
        BY <1>1, <1>2, <1>3, <3>1, TermTakes
      <4>2. QED
        BY <1>5, <4>1
    <3>2. CASE b.op # "TermArg"
      <4>1. b.op \notin Packages /\ b.op # "Call"
        BY <1>8 DEF Packages
      <4>2. /\ Len(objects) - Len(Operands(b.op)) = Base(b)
            /\ \A i \in 1 .. Len(Operands(b.op)) : objects[Base(b) + i].kind = Operands(b.op)[i]
        BY <1>3, <3>2, <4>1, HandlerTakes
      <4>3. n - k = Base(b) /\ \A i \in 1 .. k : objects[Base(b) + i].kind = o[i]
        BY <1>1, <1>2, <4>2
      <4>4. Base(b) \in Nat
        BY <1>3, BlockFacts
      <4>5. QED
        BY <1>5, <4>3, <4>4
    <3>3. QED
      BY <3>1, <3>2
  <2>2. PICK c : c = n - k + 1
    OBVIOUS
  <2>3. c \in Int /\ n \in Int /\ n - c + 1 = Len(o)
    BY <1>5, <2>2
  <2>4. ASSUME NEW i \in 1 .. Len(o)
        PROVE  objects[c + i - 1].kind = o[i]
    <3>1. c + i - 1 = n - k + i /\ i \in 1 .. k
      BY <1>5, <2>2
    <3>2. QED
      BY <2>1, <3>1
  <2>5. Kinds(c, n) = o
    BY <1>5, <2>3, <2>4, KindsAre
  <2>6. n >= k /\ Kinds(n - k + 1, n) = Operands(b.op)
    BY <1>2, <2>1, <2>2, <2>5
  <2>7. b.op \notin {"Package", "VarPackage"} /\ b.op # "Call"
    BY <1>8
  <2>8. QED
    BY <1>2, <2>6, <2>7
<1>9. QED
  BY <1>6, <1>7, <1>8

\* An operand that has been collected has the type that its place asks for.
LEMMA NoneTraps ==
  ASSUME IInv
  PROVE  NoTrap
<1>1. SUFFICES ASSUME AtOperand, Op.processed, Complete(Script(Op.op)[Op.ip]),
                      NEW o, o = Script(Op.op)[Op.ip]
               PROVE  /\ o \in {"PkgLength", "Byte", "Word", "DWord"} => Last(objects).kind = "len"
                      /\ o = "NameString" => Last(objects).kind = "str"
                      /\ o \in {"TermArg", "SuperName", "SuperNameUnresolved"} => Last(objects).kind = "obj"
                      /\ o = "MethodArgs" => objects[Op.start + 1].kind = "args"
                      /\ o = "FieldList" => Last(objects).kind = "fields"
  BY DEF NoTrap
<1>2. PICK f, m, b : f = Top /\ m = Len(frames) /\ b = Op
  OBVIOUS
<1>3. frames # <<>> /\ f.blocks # <<>> /\ b.ip <= Len(Script(b.op)) /\ b.processed
      /\ b = Last(f.blocks) /\ Complete(o) /\ o = Script(b.op)[b.ip]
  BY <1>1, <1>2 DEF AtOperand, Running, Op
<1>4. Current(b, objects)
  <2>1. Tops(frames, methodFrames, objects, scope, m, f)
    BY <1>2, <1>3, AtTop
  <2>2. QED
    BY <1>3, <2>1, TopBlock
<1>5. PICK s, ops, a, h : /\ s = Script(b.op) /\ ops = Operands(b.op) /\ a = Adv(b.op)
                          /\ h = Len(objects)
  OBVIOUS
<1>6. /\ b.start \in Nat /\ b.ip \in 1 .. Len(s) /\ b.op \in Handlers /\ a \in 0 .. Len(s)
      /\ Len(s) \in Nat /\ h \in Nat /\ o = s[b.ip] /\ ScriptFits(b.op, s, ops, a)
  <2>1. /\ b.start \in Nat /\ b.ip \in 1 .. Len(s) + 1 /\ b.op \in Handlers /\ a \in 0 .. Len(s)
        /\ Len(s) \in Nat /\ h \in Nat /\ ScriptFits(b.op, s, ops, a)
    BY <1>4, <1>5, BlockFacts
  <2>2. b.ip <= Len(s) /\ o = s[b.ip]
    BY <1>3, <1>5
  <2>3. QED
    BY <2>1, <2>2
<1>7. Height(b, objects, h)
  BY <1>4, <1>5 DEF Current
<1>8. CASE b.ip <= a
  <2>1. Advances(o)
    <3>1. b.ip \in 1 .. a
      BY <1>6, <1>8
    <3>2. QED
      BY <1>6, <3>1 DEF ScriptFits
  <2>2. h = b.start + 1
    BY <1>2, <1>3, <1>5, <2>1 DEF Complete, Advances
  <2>3. OperandHeight(b, objects, h)
    BY <1>5, <1>7, <1>8 DEF Height
  <2>4. objects[h].kind = KindOf(o)
    <3>1. CASE KindOf(o) = "obj"
      <4>1. Objs(objects, b.start + 1, h)
        BY <1>3, <2>3, <3>1 DEF OperandHeight
      <4>2. h \in b.start + 1 .. h
        BY <1>6, <2>2
      <4>3. QED
        BY <3>1, <4>1, <4>2 DEF Objs
    <3>2. CASE KindOf(o) # "obj"
      BY <1>3, <2>3, <3>2 DEF OperandHeight
    <3>3. QED
      BY <3>1, <3>2
  <2>5. Last(objects).kind = KindOf(o)
    BY <1>5, <2>4 DEF Last
  <2>6. o \in {"PkgLength", "Byte", "Word", "DWord"} => KindOf(o) = "len"
    BY DEF KindOf
  <2>7. o = "NameString" => KindOf(o) = "str"
    BY DEF KindOf
  <2>8. o \in {"TermArg", "SuperName", "SuperNameUnresolved"} => KindOf(o) = "obj"
    BY DEF KindOf
  <2>9. o # "MethodArgs" /\ o # "FieldList"
    BY <2>1 DEF Advances
  <2>10. QED
    BY <2>5, <2>6, <2>7, <2>8, <2>9
<1>9. CASE ~ (b.ip <= a)
  <2>1. b.ip > a /\ a # Len(s)
    BY <1>6, <1>9
  <2>2. b.op \in FieldOps \cup Packages \cup {"Call"}
    BY <1>6, <2>1 DEF ScriptFits
  <2>3. CASE b.op = "Call"
    <3>1. a = 0 /\ Len(s) = 1 /\ s[1] = "MethodArgs"
      BY <1>6, <2>3 DEF ScriptFits
    <3>2. o = "MethodArgs"
      BY <1>6, <3>1
    <3>3. CallHeight(b, objects, h)
      BY <1>5, <1>7, <2>1, <2>3 DEF Height
    <3>4. objects[b.start + 1].kind = "args"
      BY <3>3 DEF CallHeight
    <3>5. QED
      BY <1>2, <3>2, <3>4
  <2>4. CASE b.op \in Packages
    <3>1. a = 2 /\ Len(s) = 3 /\ s[3] \in {"PkgElements", "VarPkgElements"}
      BY <1>6, <2>4 DEF ScriptFits, Packages
    <3>2. b.ip = 3
      BY <1>6, <2>1, <3>1
    <3>3. o \in {"PkgElements", "VarPkgElements"}
      BY <1>6, <3>1, <3>2
    <3>4. QED
      BY <3>3
  <2>5. CASE b.op \in FieldOps
    <3>1. a = Len(s) - 2 /\ s[a + 1] = "StartFieldList" /\ s[a + 2] = "FieldList"
      BY <1>6, <2>5 DEF ScriptFits
    <3>2. CASE b.ip = a + 1
      <4>1. o = "StartFieldList"
        BY <1>6, <3>1, <3>2
      <4>2. QED
        BY <4>1
    <3>3. CASE b.ip = a + 2
      <4>1. o = "FieldList"
        BY <1>6, <3>1, <3>3
      <4>2. FieldsHeight(b, objects, h)
        BY <1>5, <1>7, <2>1, <2>5 DEF Height
      <4>3. objects[b.start + 1].kind = "fields" /\ h = b.start + 1
        <5>1. b.ip # Adv(b.op) + 1
          BY <1>5, <1>6, <3>3
        <5>2. QED
          BY <1>3, <4>2, <5>1 DEF FieldsHeight
      <4>4. Last(objects).kind = "fields"
        BY <1>5, <4>3 DEF Last
      <4>5. QED
        BY <4>1, <4>4
    <3>4. b.ip = a + 1 \/ b.ip = a + 2
      BY <1>6, <2>1, <3>1
    <3>5. QED
      BY <3>2, <3>3, <3>4
  <2>6. QED
    BY <2>2, <2>3, <2>4, <2>5
<1>10. QED
  BY <1>8, <1>9

\* A handler, which takes its operands with get_unsafe, finds what its script has collected,
\* in type and in number, and the traps of parse() are not reached.
THEOREM OperandsFit == Spec => []OperandsSound
<1>1. IInv => OperandsSound
  BY HandlersTake, NoneTraps DEF OperandsSound
<1>2. QED
  BY <1>1, Invariance, PTL
=============================================================================
