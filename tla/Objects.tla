------------------------------- MODULE Objects -------------------------------
(***************************************************************************)
(* The graph of AML objects: what names, locals, arguments and package     *)
(* elements hold, the references between them, and the operations that     *)
(* store, copy, refer and pass (interpreter.cpp, variant.hpp, object.hpp,  *)
(* shared_ptr.hpp).                                                        *)
(*                                                                         *)
(* One step is a statement with its operands, by one interpreter; what it  *)
(* made and nothing holds is freed when it ends.  Integers and buffers     *)
(* hold one byte and packages one element, or none; strings, conversions   *)
(* between widths and fields are left out.                                 *)
(***************************************************************************)
EXTENDS Naturals, Sequences, FiniteSets, TLC

CONSTANTS
  NameList,   \* named objects, in a sequence
  Null,
  MaxObjects, \* bound of the model: objects between statements
  MaxFrames,  \* bound of the model: the outermost code and nested methods
  AmlMay      \* liberties of the AML, a subset of AmlLiberties

AmlLiberties ==
  { "intoItself",     \* store a value into something it contains or refers to
    "retype",         \* store something else to a buffer with references to its bytes
    "storeReference", \* store a reference to a value where one of its type is
    "packageOfNames", \* packages with names for elements
    "sizeFromName"}   \* buffers with a name for their size

ASSUME ObjectsAssumption ==
  /\ AmlMay \subseteq AmlLiberties /\ {MaxObjects, MaxFrames} \subseteq Nat
  /\ {"local", "arg", Null} \cap {NameList[i] : i \in DOMAIN NameList} = {}

VARIABLES
  heap,   \* per address in use, the object there
  names,  \* per name, its node's object; Null before Name
  frames  \* per method frame, arg and local; the first one has the global locals

vars == <<heap, names, frames>>

Names == {NameList[i] : i \in DOMAIN NameList}
Bytes == {0, 1}
RefKinds == {"RefOf", "Arg", "Local"}
Containers == {"buffer", "package"}
Thing(kind, byte, to) == [kind |-> kind, byte |-> byte, to |-> to]
Uninitialized == Thing("uninitialized", Null, <<>>)
Moved == Thing("moved", Null, <<>>)
Int(byte) == Thing("int", byte, <<>>)
Buf(byte) == Thing("buffer", byte, <<>>)
Package(to) == Thing("package", Null, to)
Ref(kind, a) == Thing(kind, Null, <<a>>)
ByteOf(a) == Thing("byte", Null, <<a>>)

\* A SharedPtr of a new object.
New(h) == CHOOSE a \in 1 .. (Cardinality(DOMAIN h) + 1) : a \notin DOMAIN h
Alloc(h, thing) == [heap |-> (New(h) :> thing) @@ h, obj |-> New(h)]

Points(h, a) == {h[a].to[i] : i \in DOMAIN h[a].to}

RECURSIVE Reach(_, _)
Reach(h, S) ==
  LET more == S \cup UNION {Points(h, a) : a \in S}
  IN  IF more = S THEN S ELSE Reach(h, more)

\* The objects in the order in which they are found from a sequence of them.
RECURSIVE Found(_, _, _)
Found(h, from, seen) ==
  IF from = <<>> THEN seen
  ELSE IF Head(from) = Null \/ \E i \in DOMAIN seen : seen[i] = Head(from)
       THEN Found(h, Tail(from), seen)
       ELSE Found(h, h[Head(from)].to \o Tail(from), Append(seen, Head(from)))

RECURSIVE Slots(_)
Slots(fs) ==
  IF fs = <<>> THEN <<>> ELSE <<Head(fs).arg, Head(fs).local>> \o Slots(Tail(fs))
Roots(ns, fs) == [i \in DOMAIN NameList |-> ns[NameList[i]]] \o Slots(fs)

\* What is left when a statement ends, ~SharedPtr having freed the rest.  Addresses are
\* given anew in the order of Found, as it does not matter which ones malloc returns; a
\* cycle that nothing reaches, which the counts of SharedPtr keep, does not matter either.
Leaves(h, ns, fs) ==
  LET live == Found(h, Roots(ns, fs), <<>>)
      at(a) == IF a = Null THEN Null ELSE CHOOSE i \in DOMAIN live : live[i] = a
  IN  /\ Len(live) <= MaxObjects
      /\ heap' = [i \in DOMAIN live |->
                    [h[live[i]] EXCEPT !.to = [j \in DOMAIN @ |-> at(@[j])]]]
      /\ names' = [n \in Names |-> at(ns[n])]
      /\ frames' = [i \in DOMAIN fs |-> [arg |-> at(fs[i].arg), local |-> at(fs[i].local)]]

Init ==
  /\ heap = << >>
  /\ names = [n \in Names |-> Null]
  /\ frames = <<[arg |-> Null, local |-> Null]>>

-----------------------------------------------------------------------------
(* References, copies and conversions                                      *)

Inner(h, a) == h[a].to[1]

\* unwrap_internal_refs: the wrappers of arguments and locals
RECURSIVE UnwrapInternal(_, _)
UnwrapInternal(h, a) ==
  IF h[a].kind \in {"Arg", "Local"} THEN UnwrapInternal(h, Inner(h, a)) ELSE a

\* unwrap_refs
RECURSIVE Unwrap(_, _)
Unwrap(h, a) == IF h[a].kind \in RefKinds THEN Unwrap(h, Inner(h, a)) ELSE a

\* Variant::clone, and Package::clone of the elements one by one: what was at dst is
\* destroyed first, and a package takes its elements last.
RECURSIVE Clone(_, _, _), CloneElements(_, _, _)
Clone(h, src, dst) ==
  IF h[src].kind # "package"
  THEN [h EXCEPT ![dst] = IF src = dst /\ h[src].kind \in Containers
                          THEN Thing(h[src].kind, Null, <<>>) ELSE h[src]]
  ELSE LET elements == IF src = dst THEN <<>> ELSE h[src].to
           done == CloneElements([h EXCEPT ![dst] = Package(<<>>)], elements, <<>>)
       IN  [done.heap EXCEPT ![dst] = Package(done.to)]
CloneElements(h, from, to) ==
  IF from = <<>> THEN [heap |-> h, to |-> to]
  ELSE LET new == Alloc(h, Uninitialized)
       IN  CloneElements(Clone(new.heap, Head(from), new.obj), Tail(from),
                         Append(to, new.obj))

\* Mutant: the clone is forgotten.
NewClone_Shared(h, a) == [heap |-> h, obj |-> a]

\* The copy of an object that Name, CopyObject, DerefOf and a call make.
NewClone(h, a) ==
  LET new == Alloc(h, Uninitialized)
  IN  [heap |-> Clone(new.heap, a, new.obj), obj |-> new.obj]

\* try_convert to an integer or to a buffer; Null when there is no conversion
Number(h, a) ==
  LET u == Unwrap(h, a) IN
  IF h[u].kind = "byte" THEN h[Inner(h, u)].byte ELSE h[u].byte

-----------------------------------------------------------------------------
(* Operands                                                                *)

Places == Names \cup {"local", "arg"}
Operand(op, byte, place) == [op |-> op, byte |-> byte, place |-> place]
Literals ==
  {Operand("number", b, Null) : b \in Bytes}
    \cup {Operand(op, 1, Null) : op \in {"bytes", "list"}}
Read(p) == Operand("read", 0, p)
Derived == {Operand(op, 0, p) : op \in {"refer", "deref", "index"}, p \in Places}
PackageOfNames == {Operand("listOf", 0, p) : p \in Names}
BufferOfSize == {Operand("bytesOf", 0, p) : p \in Names}
Sources == Literals \cup {Read(p) : p \in Places} \cup Derived
             \cup (IF "packageOfNames" \in AmlMay THEN PackageOfNames ELSE {})
             \cup (IF "sizeFromName" \in AmlMay THEN BufferOfSize ELSE {})
Targets == {Operand(op, 0, p) : op \in {"read", "index"}, p \in Places}

Root(f, p) == IF p \in Names THEN names[p] ELSE f[p]

\* Index of the first byte of a buffer, or of the first element of a package
Index(h, a) ==
  LET src == UnwrapInternal(h, a) IN
  CASE h[src].kind = "buffer" /\ h[src].byte # Null ->
         LET field == Alloc(h, ByteOf(src))
         IN  Alloc(field.heap, Ref("RefOf", field.obj))
    [] h[src].kind = "package" /\ h[src].to # <<>> ->
         Alloc(h, Ref("RefOf", h[src].to[1]))
    [] OTHER -> [heap |-> h, obj |-> Null]

DerefOf(h, a) ==
  LET u == Unwrap(h, a) IN
  IF h[u].kind = "byte" THEN Alloc(h, Int(Number(h, u))) ELSE NewClone(h, u)

\* Buffer (a) { 1 }: the buffer is made in the object that try_convert gave for the size,
\* which is a itself if it is an integer.
SizedBuffer(h, a) ==
  LET u == Unwrap(h, a) IN
  CASE Number(h, u) = Null -> [heap |-> h, obj |-> Null]
    [] h[u].kind = "int" -> [heap |-> [h EXCEPT ![u] = Buf(1)], obj |-> u]
    [] OTHER -> Alloc(h, Buf(1))

\* The object an operand pushes, Null when it fails.
Eval(h, f, e) ==
  IF e.place # Null /\ Root(f, e.place) = Null THEN [heap |-> h, obj |-> Null]
  ELSE CASE e.op = "number" -> Alloc(h, Int(e.byte))
         [] e.op = "bytes" -> Alloc(h, Buf(e.byte))
         [] e.op = "list" ->
              LET one == Alloc(h, Int(e.byte)) IN Alloc(one.heap, Package(<<one.obj>>))
         [] e.op = "listOf" -> Alloc(h, Package(<<Root(f, e.place)>>))
         [] e.op = "bytesOf" -> SizedBuffer(h, Root(f, e.place))
         [] e.op = "read" -> [heap |-> h, obj |-> Root(f, e.place)]
         [] e.op = "refer" -> Alloc(h, Ref("RefOf", Root(f, e.place)))
         [] e.op = "deref" -> DerefOf(h, Root(f, e.place))
         [] e.op = "index" -> Index(h, Root(f, e.place))

-----------------------------------------------------------------------------
(* store_to_target                                                         *)

\* Where a store to target t ends, and whether it copies in any case.
Destination(h, t) ==
  IF h[t].kind \notin RefKinds
  THEN [at |-> t, copies |-> h[t].kind = "uninitialized"]
  ELSE LET i == UnwrapInternal(h, Inner(h, t)) IN
       IF h[i].kind = "RefOf"
       THEN LET u == Unwrap(h, Inner(h, i))
            IN  [at |-> u, copies |-> h[t].kind = "Arg" \/ h[u].kind = "uninitialized"]
       ELSE [at |-> IF h[t].kind = "Arg" THEN t ELSE i, copies |-> TRUE]

SameType(h, v, at) == h[Unwrap(h, v)].kind = h[at].kind

\* The type of the target admits the value.
Storable(h, d, v) ==
  CASE h[d.at].kind \in {"byte", "buffer"} /\ ~(h[d.at].kind = "buffer" /\ d.copies) ->
         Number(h, v) # Null
    [] d.copies -> TRUE
    [] h[d.at].kind = "int" -> Number(h, v) # Null
    [] OTHER -> h[d.at].kind = "package" /\ SameType(h, v, d.at)

\* Mutant: the value is always moved, as if try_convert had made it.
Stored_Moves(h, d, v) ==
  IF h[d.at].kind = "byte" THEN [h EXCEPT ![Inner(h, d.at)].byte = Number(h, v)]
  ELSE [[h EXCEPT ![d.at] = h[Unwrap(h, v)]] EXCEPT ![Unwrap(h, v)] = Moved]

\* The store itself: in place, by a clone, or by a move of what try_convert gave, which
\* is the object itself that a reference refers to if its type fits.
Stored(h, d, v) ==
  LET u == Unwrap(h, v) IN
  CASE h[d.at].kind = "byte" -> [h EXCEPT ![Inner(h, d.at)].byte = Number(h, v)]
    [] h[d.at].kind # "byte" /\ d.copies -> Clone(h, v, d.at)
    [] ~d.copies /\ h[d.at].kind = "buffer" -> [h EXCEPT ![d.at].byte = Number(h, v)]
    [] ~d.copies /\ h[d.at].kind \in {"int", "package"} ->
         IF ~SameType(h, v, d.at) THEN [h EXCEPT ![d.at] = Int(Number(h, v))]
         ELSE IF u = v THEN Clone(h, v, d.at)
         ELSE [[h EXCEPT ![d.at] = h[u]] EXCEPT ![u] = Moved]

Moves(h, d, v) ==
  /\ ~d.copies /\ h[d.at].kind \in {"int", "package"}
  /\ SameType(h, v, d.at) /\ Unwrap(h, v) # v

OwnersAreBuffers(h) ==
  \A a \in DOMAIN h : h[a].kind = "byte" => h[Inner(h, a)].kind = "buffer"

\* The AML does not take a liberty that it has not.
MayStore(h, d, v) ==
  /\ "intoItself" \in AmlMay \/ d.at \notin Reach(h, {v})
  /\ "storeReference" \in AmlMay \/ ~Moves(h, d, v)
  /\ "retype" \in AmlMay \/ OwnersAreBuffers(Stored(h, d, v))

\* store_to_target of the value to the object t, in a heap that has both.
StoreTo(h, t, value) ==
  LET v == UnwrapInternal(h, value)
      d == Destination(h, t)
      ok == Storable(h, d, v) /\ MayStore(h, d, v)
  IN  [ok |-> ok, before |-> h, value |-> v, target |-> t,
       after |-> IF ok THEN Stored(h, d, v) ELSE h]

-----------------------------------------------------------------------------
(* Statements                                                              *)

Frame == frames[Len(frames)]

Failed == [ok |-> FALSE]

\* Store (e, t): the value is there before the target.
StoreOf(e, t) ==
  LET value == Eval(heap, Frame, e)
      target == Eval(value.heap, Frame, t)
  IN  IF value.obj = Null THEN Failed
      ELSE IF target.obj = Null THEN Failed
      ELSE StoreTo(target.heap, target.obj, value.obj)

Store(e, t) ==
  LET store == StoreOf(e, t) IN store.ok /\ Leaves(store.after, names, frames)

\* The reference of a chain that refers to the object at its end.
RECURSIVE LastRef(_, _)
LastRef(h, a) == IF h[Inner(h, a)].kind \in RefKinds THEN LastRef(h, Inner(h, a)) ELSE a

\* CopyObject (e, p): a local and an argument refer to the copy, or what they refer to
\* does; a named object becomes the copy.
CopyTo(h, t, new) ==
  LET u == UnwrapInternal(h, t) IN
  CASE h[t].kind = "Arg" /\ h[u].kind = "RefOf" -> [h EXCEPT ![LastRef(h, u)].to = <<new>>]
    [] h[t].kind \in {"Arg", "Local"} /\ ~(h[t].kind = "Arg" /\ h[u].kind = "RefOf") ->
         [h EXCEPT ![t].to = <<new>>]
    [] OTHER -> [h EXCEPT ![t] = h[new]]

CopyObject(e, p) ==
  LET value == Eval(heap, Frame, e)
      new == NewClone(value.heap, UnwrapInternal(value.heap, value.obj))
      t == Root(Frame, p)
      h == CopyTo(new.heap, t, new.obj)
  IN  /\ value.obj # Null /\ t # Null
      /\ "intoItself" \in AmlMay \/ Reach(new.heap, {new.obj}) \cap Reach(new.heap, {t}) = {}
      /\ "retype" \in AmlMay \/ OwnersAreBuffers(h)
      /\ Leaves(h, names, frames)

\* Increment (t)
Increment(t) ==
  LET target == Eval(heap, Frame, t)
      n == Number(target.heap, target.obj)
      result == Alloc(target.heap, Int(1 - n))
      store == StoreTo(result.heap, Unwrap(result.heap, target.obj), result.obj)
  IN  /\ target.obj # Null /\ n # Null /\ store.ok
      /\ Leaves(store.after, names, frames)

\* ToBuffer (e, t): a buffer is stored itself, anything else as a new buffer
ToBuffer(e, t) ==
  LET value == Eval(heap, Frame, e)
      u == Unwrap(value.heap, value.obj)
      n == Number(value.heap, u)
      target == Eval(value.heap, Frame, t)
      result == IF target.heap[u].kind = "buffer" THEN [heap |-> target.heap, obj |-> u]
                ELSE Alloc(target.heap, Buf(n))
      store == StoreTo(result.heap, target.obj, result.obj)
  IN  /\ value.obj # Null /\ target.obj # Null /\ n # Null /\ store.ok
      /\ Leaves(store.after, names, frames)

\* Divide (.., .., t): the target is popped as a value is
Divide(b, t) ==
  LET target == Eval(heap, Frame, t)
      result == Alloc(target.heap, Int(b))
      store == StoreTo(result.heap, UnwrapInternal(result.heap, target.obj), result.obj)
  IN  /\ target.obj # Null /\ store.ok /\ Leaves(store.after, names, frames)

\* Name (n, e) by the outermost code
Name(n, e) ==
  LET value == Eval(heap, Frame, e)
      new == NewClone(value.heap, UnwrapInternal(value.heap, value.obj))
  IN  /\ Len(frames) = 1 /\ names[n] = Null /\ value.obj # Null
      /\ Leaves(new.heap, [names EXCEPT ![n] = new.obj], frames)

\* A local, or an argument that was not passed, at its first use
Mention(p) ==
  LET value == Alloc(heap, Uninitialized)
      wrapper == Alloc(value.heap, Ref(IF p = "arg" THEN "Arg" ELSE "Local", value.obj))
  IN  /\ Frame[p] = Null /\ (p = "arg" => Len(frames) > 1)
      /\ Leaves(wrapper.heap, names, [frames EXCEPT ![Len(frames)][p] = wrapper.obj])

ByReference(h, a) == h[a].kind \in Containers

\* A method is called with e: strings, buffers and packages are passed as they are,
\* everything else as a copy.
Call(e) ==
  LET value == Eval(heap, Frame, e)
      real == UnwrapInternal(value.heap, value.obj)
      arg == IF ByReference(value.heap, real) THEN [heap |-> value.heap, obj |-> real]
             ELSE NewClone(value.heap, real)
      wrapper == Alloc(arg.heap, Ref("Arg", arg.obj))
  IN  /\ Len(frames) < MaxFrames /\ value.obj # Null
      /\ Leaves(wrapper.heap, names,
                Append(frames, [arg |-> wrapper.obj, local |-> Null]))

Callers == SubSeq(frames, 1, Len(frames) - 1)

\* The method ends without a result, or by an error.
End == Len(frames) > 1 /\ Leaves(heap, names, Callers)

\* Return (e), by a method that was called in Store (M (), t)
Return(e, t) ==
  LET value == Eval(heap, Frame, e)
      real == UnwrapInternal(value.heap, value.obj)
      caller == Callers[Len(Callers)]
      target == Eval(value.heap, caller, t)
      store == StoreTo(target.heap, target.obj, real)
  IN  /\ Len(frames) > 1 /\ value.obj # Null /\ target.obj # Null /\ store.ok
      /\ Leaves(store.after, names, Callers)

Next ==
  \/ \E e \in Sources :
       \/ \E t \in Targets : Store(e, t)
       \/ \E p \in Places : CopyObject(e, p)
       \/ \E n \in Names : Name(n, e)
       \/ Call(e)
  \/ \E e \in Sources \ Literals, t \in Targets : ToBuffer(e, t) \/ Return(e, t)
  \/ \E t \in Targets : Increment(t) \/ \E b \in Bytes : Divide(b, t)
  \/ \E p \in {"local", "arg"} : Mention(p)
  \/ End

Spec == Init /\ [][Next]_vars

-----------------------------------------------------------------------------
\* A walk over references comes to an end: no object is on a path to itself.
ReferencesEnd(h) == \A a \in DOMAIN h : a \notin Reach(h, Points(h, a))

\* How often an object is held: by names, by locals and as an element of packages.
Holds(a) ==
  Cardinality({n \in Names : names[n] = a})
    + Cardinality({b \in DOMAIN heap : heap[b].kind \in {"Local", "package"}
                                         /\ a \in Points(heap, b)})

\* Objects are stored by value: none is held twice, so a store to one name, local or
\* element is not seen in another.
StoredApart == \A a \in DOMAIN heap : Holds(a) <= 1

\* The heap between statements: references end, objects are stored by value, and the
\* buffer that a BufferField takes unchecked for its owner (src/src/interpreter.cpp:736)
\* is one.
HeapSound == ReferencesEnd(heap) /\ StoredApart /\ OwnersAreBuffers(heap)

\* What reading an object gives, through its references.
RECURSIVE Reads(_, _)
Reads(h, a) ==
  LET u == Unwrap(h, a) IN
  IF h[u].kind = "package" THEN <<"list", [i \in DOMAIN h[u].to |-> Reads(h, h[u].to[i])]>>
  ELSE <<"value", Number(h, u)>>

\* The objects that a store to t may change: those its references lead through, and
\* the buffer that a byte at their end is in.
RECURSIVE Path(_, _)
Path(h, a) ==
  {a} \cup IF h[a].kind \in RefKinds \cup {"byte"} THEN Path(h, Inner(h, a)) ELSE {}

\* After any Store the target reads as the value did, whatever the two refer to, and
\* nothing but the target has changed: not the value, nor what the value refers to.
StoresExact ==
  \A e \in Sources, t \in Targets :
    LET store == StoreOf(e, t)
        then == Eval(store.after, Frame, t)
    IN  store.ok =>
          /\ \A a \in DOMAIN heap \ Path(store.before, store.target) : store.after[a] = heap[a]
          /\ ReferencesEnd(store.after) =>
               Reads(then.heap, then.obj) = Reads(store.before, store.value)
=============================================================================
