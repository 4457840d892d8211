-------------------------- MODULE MethodSyncProofs --------------------------
(***************************************************************************)
(* Proofs about MethodSync, for any threads, mutexes, methods and bounds   *)
(* and any AML: lemmas on the stacks, types and control, the mutual        *)
(* exclusion of Serialized methods and who frees their locks; then, for    *)
(* hosts and AML that keep to Discipline, the lists of locked mutexes.     *)
(***************************************************************************)
EXTENDS MethodSync, FiniteSetTheorems, SequenceTheorems,
        WellFoundedInduction, NaturalsInduction, TLAPS

-----------------------------------------------------------------------------
(* Numbers                                                                 *)

\* A set of natural numbers that is not empty has a least element.
LEMMA NatMin ==
  ASSUME NEW T, T \subseteq Nat, T # {}
  PROVE  \E x \in T : \A y \in T : x <= y
<1>1. PICK x \in T : \A y \in T : ~ (<<y, x>> \in OpToRel(<, Nat))
  BY NatLessThanWellFounded, WFMin
<1>2. ASSUME NEW y \in T, y < x
      PROVE  FALSE
  <2>1. <<y, x>> \in {ss \in Nat \X Nat : ss[1] < ss[2]}
    BY <1>2
  <2>2. <<y, x>> \in OpToRel(<, Nat)
    BY <2>1, Zenon DEF OpToRel
  <2>3. QED
    BY <1>1, <2>2
<1>3. \A y \in T : ~ (y < x)
  BY <1>2
<1>4. QED
  BY <1>3

-----------------------------------------------------------------------------
\* What the micro-states of a thread imply: it has a stack, and op names a lock of
\* the right sort.
ControlOK ==
  \A t \in Threads :
    /\ pc[t] \in {"run", "callStore", "acquireStore", "releaseClear", "unwind"} => Depth(t) > 0
    /\ pc[t] \in {"serialClear", "walk", "walkClear"} /\ back[t] # "teardown" => Depth(t) > 0
    /\ pc[t] \in {"invokeStore", "callStore", "serialClear"} => op[t] \in Serialized
    /\ pc[t] \in {"acquireStore", "releaseClear"} => op[t] \in Mutexes
    /\ pc[t] = "walkClear" => cur[t] \in Mutexes /\ op[t] = cur[t]

\* The bottom of a stack is the frame the interpreter was started with.
BaseOK ==
  \A t \in Threads : Depth(t) > 0 => stack[t][1].kind \notin {"call", "block", "load"}

-----------------------------------------------------------------------------
(* Lemmas on sets and on the stack                                         *)

\* A nonempty set of positions has a greatest one: sets of positions above a
\* position are well-founded by inclusion.
LEMMA HasMax ==
  ASSUME NEW n \in Nat, NEW S \in SUBSET (1 .. n), S # {}
  PROVE  \E x \in S : \A y \in S : y <= x
<1> DEFINE Above(x) == {j \in S : j > x}
           T == {Above(x) : x \in S}
           R == StrictSubsetOrdering(S)
<1>1. IsFiniteSet(1 .. n)
  BY FS_Interval, 1 \in Int, n \in Int
<1>2. T \subseteq FiniteSubsetsOf(S) /\ T # {}
  <2>1. \A x \in S : IsFiniteSet(Above(x))
    BY <1>1, FS_Subset
  <2> QED BY <2>1 DEF FiniteSubsetsOf
<1>3. IsWellFoundedOn(R, FiniteSubsetsOf(S))
  BY FS_StrictSubsetOrderingWellFounded
<1>4. PICK A \in T : \A B \in T : <<B, A>> \notin R
  <2> HIDE DEF T, R
  <2> QED BY <1>2, <1>3, WFMin
<1>5. PICK x \in S : A = Above(x)
  OBVIOUS
<1>6. ASSUME NEW y \in S, y > x PROVE FALSE
  <2>1. Above(y) \in T /\ <<Above(y), A>> \notin R
    BY <1>4
  <2>2. \A j \in S : j \in Int
    OBVIOUS
  <2>3. Above(y) \subseteq A
    <3>1. ASSUME NEW j \in S, j > y PROVE j > x
      BY <1>6, <3>1, <2>2, j \in Int, x \in Int, y \in Int
    <3> QED BY <1>5, <3>1
  <2>4. y \in A /\ y \notin Above(y)
    BY <1>5, <1>6, <2>2
  <2>5. Above(y) \in SUBSET S /\ A \in SUBSET S
    BY <1>5
  <2> HIDE DEF Above
  <2> QED BY <2>1, <2>3, <2>4, <2>5 DEF StrictSubsetOrdering
<1> QED BY <1>6

\* What pushing an entry does to the stacks.
LEMMA PushStack ==
  ASSUME TypeOK, NEW t \in Threads, NEW e \in Entry, Push(t, e)
  PROVE  /\ stack' \in [Threads -> Seq(Entry)]
         /\ \A u \in Threads \ {t} : stack'[u] = stack[u]
         /\ Len(stack'[t]) = Len(stack[t]) + 1
         /\ \A i \in 1 .. Len(stack[t]) : stack'[t][i] = stack[t][i]
         /\ stack'[t][Len(stack[t]) + 1] = e
<1>1. stack[t] \in Seq(Entry)
  BY DEF TypeOK
<1>2. stack'[t] = Append(stack[t], e)
  BY DEF TypeOK, Push
<1>3. Append(stack[t], e) \in Seq(Entry)
  BY <1>1, AppendProperties
<1>4. stack' \in [Threads -> Seq(Entry)]
  BY <1>3 DEF TypeOK, Push
<1> QED BY <1>1, <1>2, <1>4, AppendProperties DEF TypeOK, Push

\* What popping the top entry of a nonempty stack does.
LEMMA PopStack ==
  ASSUME TypeOK, NEW t \in Threads, Depth(t) > 0, Pop(t)
  PROVE  /\ stack' \in [Threads -> Seq(Entry)]
         /\ \A u \in Threads \ {t} : stack'[u] = stack[u]
         /\ Len(stack'[t]) = Len(stack[t]) - 1
         /\ \A i \in 1 .. Len(stack[t]) - 1 : stack'[t][i] = stack[t][i]
         /\ Top(t) \in Entry
<1>1. stack[t] \in Seq(Entry) /\ Len(stack[t]) \in Nat /\ Len(stack[t]) > 0
  BY DEF TypeOK, Depth
<1>2. stack'[t] = SubSeq(stack[t], 1, Len(stack[t]) - 1)
  BY DEF TypeOK, Pop, Below
<1>3. Top(t) \in Entry
  BY <1>1, ElementOfSeq DEF Top, Depth
<1>4. /\ SubSeq(stack[t], 1, Len(stack[t]) - 1) \in Seq(Entry)
      /\ Len(SubSeq(stack[t], 1, Len(stack[t]) - 1)) = Len(stack[t]) - 1
      /\ \A i \in 1 .. Len(stack[t]) - 1 :
            SubSeq(stack[t], 1, Len(stack[t]) - 1)[i] = stack[t][i]
  BY <1>1
<1>5. stack' \in [Threads -> Seq(Entry)]
  BY <1>4 DEF TypeOK, Pop, Below
<1> QED BY <1>2, <1>3, <1>4, <1>5 DEF TypeOK, Pop
\* What replacing one entry of a stack does.
LEMMA PutStack ==
  ASSUME TypeOK, NEW t \in Threads, NEW i \in 1 .. Len(stack[t]), NEW e \in Entry,
         Put(t, i, e)
  PROVE  /\ stack' \in [Threads -> Seq(Entry)]
         /\ \A u \in Threads \ {t} : stack'[u] = stack[u]
         /\ Len(stack'[t]) = Len(stack[t])
         /\ \A j \in 1 .. Len(stack[t]) : stack'[t][j] = IF j = i THEN e ELSE stack[t][j]
<1>1. stack[t] \in Seq(Entry)
  BY DEF TypeOK
<1>2. stack'[t] = [stack[t] EXCEPT ![i] = e]
  BY DEF TypeOK, Put
<1>3. /\ [stack[t] EXCEPT ![i] = e] \in Seq(Entry)
      /\ Len([stack[t] EXCEPT ![i] = e]) = Len(stack[t])
      /\ \A j \in 1 .. Len(stack[t]) :
           [stack[t] EXCEPT ![i] = e][j] = IF j = i THEN e ELSE stack[t][j]
  BY <1>1, ExceptSeq
<1>4. stack' \in [Threads -> Seq(Entry)]
  BY <1>3 DEF TypeOK, Put
<1> QED BY <1>2, <1>3, <1>4 DEF TypeOK, Put

\* The innermost method frame is one.
LEMMA InnermostIn ==
  ASSUME TypeOK, NEW t \in Threads, MethodFrames(t) # {}
  PROVE  /\ Innermost(t) \in MethodFrames(t)
         /\ Innermost(t) \in 1 .. Len(stack[t])
         /\ stack[t][Innermost(t)] \in Entry
<1>1. Len(stack[t]) \in Nat /\ stack[t] \in Seq(Entry)
  BY DEF TypeOK
<1>2. MethodFrames(t) \in SUBSET (1 .. Len(stack[t]))
  BY DEF MethodFrames, Depth
<1>3. \E i \in MethodFrames(t) : \A j \in MethodFrames(t) : j <= i
  BY <1>1, <1>2, HasMax
<1>4. Innermost(t) \in MethodFrames(t)
  BY <1>3 DEF Innermost
<1> QED BY <1>1, <1>2, <1>4, ElementOfSeq

\* Setting the head of the current list keeps the shape of every stack.
LEMMA SetLinkStack ==
  ASSUME TypeOK, NEW t \in Threads, NEW m \in Link, SetLink(t, m)
  PROVE  /\ stack' \in [Threads -> Seq(Entry)]
         /\ globalLink' \in [Threads -> Link]
         /\ \A u \in Threads : Len(stack'[u]) = Len(stack[u])
         /\ \A u \in Threads : \A i \in 1 .. Len(stack[u]) :
              /\ stack'[u][i].kind = stack[u][i].kind
              /\ stack'[u][i].method = stack[u][i].method
<1>1. CASE MethodFrames(t) = {}
  BY <1>1 DEF SetLink, TypeOK
<1>2. CASE MethodFrames(t) # {}
  <2> DEFINE i == Innermost(t)
             e == [stack[t][i] EXCEPT !.link = m]
  <2>1. i \in 1 .. Len(stack[t]) /\ stack[t][i] \in Entry
    BY <1>2, InnermostIn
  <2>2. e \in Entry /\ e.kind = stack[t][i].kind /\ e.method = stack[t][i].method
    BY <2>1 DEF Entry
  <2>3. Put(t, i, e) /\ globalLink' = globalLink
    BY <1>2 DEF SetLink
  <2>4. /\ stack' \in [Threads -> Seq(Entry)]
        /\ \A u \in Threads \ {t} : stack'[u] = stack[u]
        /\ Len(stack'[t]) = Len(stack[t])
        /\ \A j \in 1 .. Len(stack[t]) : stack'[t][j] = IF j = i THEN e ELSE stack[t][j]
    <3> HIDE DEF i, e
    <3> QED BY <2>1, <2>2, <2>3, PutStack
  <2> HIDE DEF i, e
  <2> QED BY <2>2, <2>3, <2>4 DEF TypeOK
<1> QED BY <1>1, <1>2

LEMMA LinkOfType ==
  ASSUME TypeOK, NEW t \in Threads
  PROVE  LinkOf(t) \in Link
<1>1. CASE MethodFrames(t) = {}
  BY <1>1 DEF LinkOf, TypeOK
<1>2. CASE MethodFrames(t) # {}
  BY <1>2, InnermostIn DEF LinkOf, Entry
<1> QED BY <1>1, <1>2

\* Unlinking a mutex keeps the shape of every stack and the types of the lists.
LEMMA UnlinkStack ==
  ASSUME TypeOK, NEW t \in Threads, NEW m \in Mutexes, Unlink(t, m)
  PROVE  /\ stack' \in [Threads -> Seq(Entry)]
         /\ globalLink' \in [Threads -> Link]
         /\ next' \in [Mutexes -> Link]
         /\ prev' \in [Mutexes -> Link]
         /\ \A u \in Threads : Len(stack'[u]) = Len(stack[u])
         /\ \A u \in Threads : \A i \in 1 .. Len(stack[u]) :
              /\ stack'[u][i].kind = stack[u][i].kind
              /\ stack'[u][i].method = stack[u][i].method
<1>1. next[m] \in Link /\ prev[m] \in Link
  BY DEF TypeOK
<1>2. prev' \in [Mutexes -> Link]
  BY <1>1 DEF Unlink, TypeOK
<1>3. CASE prev[m] # None
  BY <1>1, <1>2, <1>3 DEF Unlink, TypeOK
<1>4. CASE prev[m] = None
  <2>1. SetLink(t, next[m]) /\ next' = next
    BY <1>4 DEF Unlink
  <2> QED BY <1>1, <1>2, <2>1, SetLinkStack DEF TypeOK
<1> QED BY <1>3, <1>4
-----------------------------------------------------------------------------
(* Types and control                                                       *)

TypeControl == TypeOK /\ ControlOK

LEMMA NestType ==
  ASSUME NEW l \in Locks, recursion \in [Locks -> Nat], Nest(l)
  PROVE  recursion' \in [Locks -> Nat] /\ recursion'[l] = recursion[l] + 1
<1>1. recursion[l] + 1 \in Nat
  OBVIOUS
<1> QED BY <1>1 DEF Nest

LEMMA UnnestType ==
  ASSUME NEW l \in Locks, recursion \in [Locks -> Nat], recursion[l] > 0,
         recursion' = [recursion EXCEPT ![l] = @ - 1]
  PROVE  recursion' \in [Locks -> Nat] /\ recursion'[l] = recursion[l] - 1
<1>1. recursion[l] - 1 \in Nat
  OBVIOUS
<1> QED BY <1>1

LEMMA TypeInit == Init => TypeControl
<1>1. \A t \in Threads : <<>> \in Seq(Entry) /\ Len(<<>>) = 0
  OBVIOUS
<1> QED BY <1>1 DEF Init, TypeControl, TypeOK, ControlOK, PCs, Link, Locks

\* An interpreter or a method starts.
LEMMA TypeEnter ==
  ASSUME TypeControl, NEW t \in Threads,
         \/ Execute(t) \/ InvokeStore(t) \/ CallStore(t) \/ Load(t) \/ OpenBlock(t)
         \/ \E f \in Methods : Invoke(t, f) \/ BeginCall(t, f)
  PROVE  TypeControl'
<1> USE DEF TypeControl, TypeOK, ControlOK, Depth, lockVars, listVars, walkVars
<1>1. ASSUME NEW e \in Entry, Push(t, e) PROVE
        /\ stack' \in [Threads -> Seq(Entry)]
        /\ \A u \in Threads \ {t} : stack'[u] = stack[u]
        /\ Len(stack'[t]) = Len(stack[t]) + 1 /\ Len(stack[t]) \in Nat
  <2>1. Len(stack[t]) \in Nat
    OBVIOUS
  <2> QED BY <1>1, <2>1, PushStack
<1>2. \A k \in Kinds, f \in Methods \cup {None} : NewEntry(k, f) \in Entry
  BY DEF NewEntry, Entry, Link
<1>3. Serialized \subseteq Methods /\ Serialized \subseteq Locks /\ Mutexes \subseteq Locks
  BY LocksAssumption DEF Locks
<1>4. CASE Execute(t)
  BY <1>1, <1>2, <1>4 DEF Execute, Kinds, PCs
<1>5. CASE Load(t)
  <2>1. Push(t, NewEntry("load", None)) /\ NewEntry("load", None) \in Entry
    BY <1>2, <1>5 DEF Load, Kinds
  <2>2. UNCHANGED <<holder, owner, recursion, prev, next, globalLink, pc, op, cur, back>>
    BY <1>5 DEF Load
  <2>3. /\ stack' \in [Threads -> Seq(Entry)]
        /\ \A u \in Threads : Len(stack'[u]) >= Len(stack[u])
    <3>1. \A u \in Threads : Len(stack[u]) \in Nat
      OBVIOUS
    <3>2. TypeOK
      OBVIOUS
    <3> HIDE DEF TypeOK, ControlOK, TypeControl
    <3> QED BY <2>1, <3>1, <3>2, PushStack
  <2>4. TypeOK'
    BY <2>2, <2>3
  <2>5. ControlOK'
    <3>1. \A u \in Threads : Len(stack[u]) \in Nat /\ Len(stack'[u]) \in Nat
      BY <2>3
    <3> QED BY <2>2, <2>3, <3>1
  <2> QED BY <2>4, <2>5
<1>6. CASE OpenBlock(t)
  <2>1. Push(t, NewEntry("block", None)) /\ NewEntry("block", None) \in Entry
    BY <1>2, <1>6 DEF OpenBlock, Kinds
  <2>2. UNCHANGED <<holder, owner, recursion, prev, next, globalLink, pc, op, cur, back>>
    BY <1>6 DEF OpenBlock
  <2>3. /\ stack' \in [Threads -> Seq(Entry)]
        /\ \A u \in Threads : Len(stack'[u]) >= Len(stack[u])
    <3>1. \A u \in Threads : Len(stack[u]) \in Nat
      OBVIOUS
    <3>2. TypeOK
      OBVIOUS
    <3> HIDE DEF TypeOK, ControlOK, TypeControl
    <3> QED BY <2>1, <3>1, <3>2, PushStack
  <2>4. TypeOK'
    BY <2>2, <2>3
  <2>5. ControlOK'
    <3>1. \A u \in Threads : Len(stack[u]) \in Nat /\ Len(stack'[u]) \in Nat
      BY <2>3
    <3> QED BY <2>2, <2>3, <3>1
  <2> QED BY <2>4, <2>5
<1>7. ASSUME NEW k \in {"method", "call"}, NEW at \in {"invokeStore", "callStore"},
             EnterStore(t, k, at)
      PROVE  TypeControl'
  <2>1. op[t] \in Serialized /\ NewEntry(k, op[t]) \in Entry
    BY <1>2, <1>3, <1>7 DEF EnterStore, Kinds
  <2> QED BY <1>1, <1>3, <1>7, <2>1 DEF EnterStore, PCs
<1>8. CASE InvokeStore(t) \/ CallStore(t)
  BY <1>7, <1>8 DEF InvokeStore, CallStore
<1>9. ASSUME NEW f \in Methods, NEW k \in {"method", "call"},
             NEW at \in {"invokeStore", "callStore"}, at = "callStore" => Len(stack[t]) > 0,
             EnterMethod(t, f, k, at), UNCHANGED <<listVars, globalLink, walkVars>>
      PROVE  TypeControl'
  <2>1. CASE f \in Serialized /\ ~Owned(t, f) /\ OsLock(t, f, at)
               /\ UNCHANGED <<owner, recursion, stack>>
    BY <1>3, <1>9, <2>1 DEF OsLock, PCs
  <2>2. CASE /\ IF f \in Serialized THEN Nest(f) ELSE UNCHANGED recursion
             /\ Push(t, NewEntry(k, f))
             /\ pc' = [pc EXCEPT ![t] = "run"]
             /\ UNCHANGED <<holder, owner, op>>
    <3>1. recursion' \in [Locks -> Nat]
      <4>1. CASE f \in Serialized
        BY <1>3, <2>2, <4>1, NestType
      <4>2. CASE f \notin Serialized
        BY <2>2, <4>2
      <4> QED BY <4>1, <4>2
    <3>2. NewEntry(k, f) \in Entry
      BY <1>2 DEF Kinds
    <3> QED BY <1>1, <1>9, <2>2, <3>1, <3>2 DEF PCs
  <2> QED BY <1>9, <2>1, <2>2 DEF EnterMethod
<1>10. CASE \E f \in Methods : Invoke(t, f) \/ BeginCall(t, f)
  BY <1>9, <1>10 DEF Invoke, BeginCall
<1> QED BY <1>4, <1>5, <1>6, <1>8, <1>10

\* Acquire and Release.
LEMMA TypeMutex ==
  ASSUME TypeControl, NEW t \in Threads,
         \/ \E m \in Mutexes : Acquire(t, m) \/ Release(t, m)
         \/ AcquireStore(t) \/ ReleaseClear(t)
  PROVE  TypeControl'
<1> USE DEF TypeControl, TypeOK, ControlOK, Depth, lockVars, listVars, walkVars
<1>1. Mutexes \subseteq Locks
  BY DEF Locks
<1>2. ASSUME NEW m \in Mutexes, Acquire(t, m) PROVE TypeControl'
  <2>1. CASE Nest(m) /\ UNCHANGED <<holder, pc, op>>
    <3>1. recursion' \in [Locks -> Nat]
      BY <1>1, <2>1, NestType
    <3> QED BY <1>2, <2>1, <3>1 DEF Acquire
  <2>2. CASE OsLock(t, m, "acquireStore") /\ UNCHANGED recursion
    BY <1>1, <1>2, <2>2 DEF Acquire, OsLock, PCs
  <2> QED BY <1>2, <2>1, <2>2 DEF Acquire
<1>3. CASE AcquireStore(t)
  <2>1. op[t] \in Mutexes /\ op[t] \in Link /\ LinkOf(t) \in Link
    BY <1>3, LinkOfType DEF AcquireStore, Link
  <2>2. /\ stack' \in [Threads -> Seq(Entry)]
        /\ globalLink' \in [Threads -> Link]
        /\ \A u \in Threads : Len(stack'[u]) = Len(stack[u])
    BY <1>3, <2>1, SetLinkStack DEF AcquireStore
  <2>3. prev' \in [Mutexes -> Link]
    BY <1>3, <2>1 DEF AcquireStore, Link
  <2> QED BY <1>1, <1>3, <2>1, <2>2, <2>3 DEF AcquireStore, PCs
<1>4. ASSUME NEW m \in Mutexes, Release(t, m) PROVE TypeControl'
  <2>1. CASE /\ recursion[m] > 0
             /\ recursion' = [recursion EXCEPT ![m] = @ - 1]
             /\ UNCHANGED <<holder, owner, listVars, stack, globalLink, pc, op, walkVars>>
    BY <1>1, <2>1
  <2>2. CASE Unlink(t, m) /\ OsUnlock(t, m, "releaseClear", "run")
               /\ UNCHANGED <<recursion, walkVars>>
    <3>1. /\ stack' \in [Threads -> Seq(Entry)]
          /\ globalLink' \in [Threads -> Link]
          /\ next' \in [Mutexes -> Link]
          /\ prev' \in [Mutexes -> Link]
          /\ \A u \in Threads : Len(stack'[u]) = Len(stack[u])
      BY <2>2, UnlinkStack
    <3>2. Len(stack[t]) > 0
      BY <1>4 DEF Release
    <3> QED BY <1>1, <2>2, <3>1, <3>2, ZenonT(60) DEF OsUnlock, PCs
  <2> QED BY <1>4, <2>1, <2>2 DEF Release, Nested
<1>5. CASE ReleaseClear(t)
  BY <1>1, <1>5 DEF ReleaseClear, ClearOwner, PCs
<1> QED BY <1>2, <1>3, <1>4, <1>5

\* Steps that leave the stack alone: walking a list, failing, turning to unwind.
LEMMA TypeWalk ==
  ASSUME TypeControl, NEW t \in Threads,
         \/ SerialClear(t) \/ Walk(t) \/ WalkClear(t) \/ Fail(t) \/ Abort(t)
         \/ UnwindDone(t) \/ TeardownList(t)
  PROVE  TypeControl'
<1> USE DEF TypeControl, TypeOK, ControlOK, Depth, lockVars, listVars, walkVars, PCs
<1>1. Serialized \subseteq Locks /\ Mutexes \subseteq Locks
  BY DEF Locks
<1>2. CASE SerialClear(t)
  BY <1>1, <1>2 DEF SerialClear, ClearOwner
<1>3. CASE Walk(t)
  <2>1. CASE cur[t] = None
    BY <1>3, <2>1, ZenonT(60) DEF Walk
  <2>2. CASE cur[t] # None
    <3>1. cur[t] \in Mutexes /\ next[cur[t]] \in Link
      BY <2>2 DEF Link
    <3>2. CASE AtomicUnlock
      BY <1>1, <1>3, <2>2, <3>1, <3>2, ZenonT(60) DEF Walk, OsUnlock
    <3>3. CASE ~AtomicUnlock
      <4>1. /\ holder' = [holder EXCEPT ![cur[t]] = None]
            /\ op' = [op EXCEPT ![t] = cur[t]]
            /\ pc' = [pc EXCEPT ![t] = "walkClear"]
            /\ UNCHANGED <<owner, recursion, prev, next, stack, globalLink, cur, back>>
        BY <1>3, <2>2, <3>3 DEF Walk, OsUnlock
      <4>2. TypeOK'
        BY <1>1, <3>1, <4>1
      <4>3. ControlOK'
        BY <1>3, <3>1, <4>1 DEF Walk
      <4> QED BY <4>2, <4>3
    <3> QED BY <3>2, <3>3
  <2> QED BY <2>1, <2>2
<1>4. CASE WalkClear(t)
  BY <1>1, <1>4 DEF WalkClear, ClearOwner
<1>5. CASE Fail(t) \/ Abort(t)
  BY <1>5 DEF Fail, Abort
<1>6. CASE UnwindDone(t)
  BY <1>6 DEF UnwindDone
<1>7. CASE TeardownList(t)
  <2>1. /\ pc' = [pc EXCEPT ![t] = "walk"]
        /\ cur' = [cur EXCEPT ![t] = globalLink[t]]
        /\ back' = [back EXCEPT ![t] = "teardown"]
        /\ globalLink' = [globalLink EXCEPT ![t] = None]
        /\ UNCHANGED <<holder, owner, recursion, prev, next, stack, op>>
    BY <1>7 DEF TeardownList
  <2>2. None \in Link
    BY DEF Link
  <2>3. TypeOK'
    BY <2>1, <2>2
  <2>4. ControlOK'
    BY <2>1
  <2> QED BY <2>3, <2>4
<1> QED BY <1>2, <1>3, <1>4, <1>5, <1>6, <1>7

\* ~MethodFrame, from whatever state of the stack it leaves.
LEMMA TypeDestroy ==
  ASSUME TypeControl, NEW t \in Threads, NEW e \in Entry,
         NEW resume \in {"run", "unwind", "teardown"}, Destroy(t, e, resume),
         stack' \in [Threads -> Seq(Entry)], UNCHANGED <<listVars, globalLink>>,
         \A u \in Threads \ {t} : stack'[u] = stack[u],
         resume # "teardown" => Len(stack'[t]) > 0
  PROVE  TypeControl'
<1> USE DEF TypeControl, TypeOK, ControlOK, Depth, lockVars, listVars, walkVars, PCs
<1>1. Serialized \subseteq Locks /\ e.link \in Link
  BY DEF Locks, Entry
<1>2. CASE e.method \notin Serialized
  BY <1>1, <1>2 DEF Destroy
<1>3. CASE e.method \in Serialized /\ Nested(e.method)
  <2>1. e.method \in Locks /\ recursion' = [recursion EXCEPT ![e.method] = @ - 1]
    BY <1>1, <1>3 DEF Destroy
  <2>2. /\ pc' = [pc EXCEPT ![t] = "walk"]
        /\ cur' = [cur EXCEPT ![t] = e.link]
        /\ back' = [back EXCEPT ![t] = resume]
        /\ UNCHANGED <<holder, owner, op>>
    BY <1>1, <1>3 DEF Destroy
  <2>3. recursion' \in [Locks -> Nat]
    BY <1>3, <2>1, UnnestType DEF Nested
  <2> QED BY <1>1, <2>2, <2>3
<1>4. CASE e.method \in Serialized /\ ~Nested(e.method)
  <2>1. /\ OsUnlock(t, e.method, "serialClear", "walk")
        /\ cur' = [cur EXCEPT ![t] = e.link]
        /\ back' = [back EXCEPT ![t] = resume]
        /\ UNCHANGED recursion
    BY <1>4 DEF Destroy
  <2>2. CASE AtomicUnlock
    BY <1>1, <1>4, <2>1, <2>2 DEF OsUnlock
  <2>3. CASE ~AtomicUnlock
    BY <1>1, <1>4, <2>1, <2>3, ZenonT(60) DEF OsUnlock
  <2> QED BY <2>2, <2>3
<1> QED BY <1>1, <1>2, <1>3, <1>4

\* Frames and calls leave the stack.
LEMMA TypeLeave ==
  ASSUME TypeControl, BaseOK, NEW t \in Threads,
         \/ Call(t) \/ CloseBlock(t) \/ ScopeEnd(t) \/ UnwindDrop(t)
         \/ MethodEnd(t) \/ UnwindFrame(t) \/ TeardownFrame(t) \/ TeardownDone(t)
  PROVE  TypeControl'
<1> DEFINE n == Len(stack[t])
<1>1. TypeOK /\ ControlOK /\ n \in Nat /\ stack[t] \in Seq(Entry)
  BY DEF TypeControl, TypeOK
<1>2. ASSUME n > 0 PROVE Top(t) \in Entry /\ Depth(t) \in 1 .. n
  BY <1>1, <1>2, ElementOfSeq DEF Top, Depth
<1>3. ASSUME n > 0, Top(t).kind \in {"call", "block", "load"} PROVE n > 1
  BY <1>1, <1>3 DEF BaseOK, Depth, Top
<1>4. ASSUME FramesAboveBase(t) # {} PROVE n > 1
  BY <1>1, <1>4 DEF FramesAboveBase, Depth
<1>5. ASSUME n > 0, Pop(t) PROVE
        /\ stack' \in [Threads -> Seq(Entry)]
        /\ \A u \in Threads \ {t} : stack'[u] = stack[u]
        /\ Len(stack'[t]) = n - 1
  BY <1>1, <1>5, PopStack DEF Depth
<1>6. pc[t] \in {"run", "unwind"} => n > 0
  BY <1>1 DEF ControlOK, Depth
\* Steps that pop an entry and do nothing else but set pc.
<1>7. ASSUME n > 0, Pop(t), NEW at \in {"run", "unwind", "teardown"},
             pc' = [pc EXCEPT ![t] = at], at # "teardown" => n > 1,
             UNCHANGED <<holder, owner, recursion, prev, next, globalLink, op, cur, back>>
      PROVE  TypeControl'
  <2>1. TypeOK'
    BY <1>1, <1>5, <1>7 DEF TypeOK, PCs
  <2>2. ControlOK'
    BY <1>1, <1>5, <1>7 DEF TypeOK, ControlOK, Depth
  <2> QED BY <2>1, <2>2 DEF TypeControl
<1>8. CASE Call(t)
  <2>1. n > 0 /\ n > 1
    BY <1>3, <1>6, <1>8 DEF Call
  <2>2. CASE Put(t, Depth(t), [Top(t) EXCEPT !.kind = "method"]) /\ UNCHANGED pc
    <3>1. [Top(t) EXCEPT !.kind = "method"] \in Entry
      BY <1>2, <2>1 DEF Entry, Kinds
    <3>2. /\ stack' \in [Threads -> Seq(Entry)]
          /\ \A u \in Threads : Len(stack'[u]) = Len(stack[u])
      BY <1>1, <1>2, <2>1, <2>2, <3>1, PutStack
    <3>3. UNCHANGED <<holder, owner, recursion, prev, next, globalLink, pc, op, cur, back>>
      BY <1>8, <2>2 DEF Call, lockVars, listVars, walkVars
    <3> QED BY <1>1, <3>2, <3>3 DEF TypeControl, TypeOK, ControlOK, Depth
  <2>3. CASE Pop(t) /\ pc' = [pc EXCEPT ![t] = "unwind"]
    BY <1>7, <1>8, <2>1, <2>3 DEF Call, lockVars, listVars, walkVars
  <2> QED BY <1>8, <2>2, <2>3 DEF Call
<1>9. CASE CloseBlock(t)
  <2>1. n > 0 /\ n > 1 /\ Pop(t) /\ pc' = [pc EXCEPT ![t] = "run"]
    BY <1>1, <1>3, <1>6, <1>9 DEF CloseBlock, TypeOK
  <2> QED BY <1>7, <1>9, <2>1 DEF CloseBlock, lockVars, listVars, walkVars
<1>10. CASE ScopeEnd(t)
  BY <1>6, <1>7, <1>10 DEF ScopeEnd, lockVars, listVars, walkVars
<1>11. CASE UnwindDrop(t)
  <2>1. n > 0 /\ n > 1 /\ Pop(t) /\ pc' = [pc EXCEPT ![t] = "unwind"]
    BY <1>1, <1>4, <1>6, <1>11 DEF UnwindDrop, TypeOK
  <2> QED BY <1>7, <1>11, <2>1 DEF UnwindDrop, lockVars, listVars, walkVars
<1>12. CASE MethodEnd(t)
  <2> DEFINE resume == IF Depth(t) = 1 THEN "teardown" ELSE "run"
  <2>1. n > 0 /\ Top(t) \in Entry /\ Pop(t) /\ Destroy(t, Top(t), resume)
    BY <1>2, <1>6, <1>12 DEF MethodEnd
  <2>2. resume \in {"run", "teardown"} /\ (resume # "teardown" => n > 1)
    <3>1. n \in Nat /\ n > 0 /\ Depth(t) = n
      BY <1>1, <2>1 DEF Depth
    <3> HIDE DEF n
    <3>2. CASE n = 1
      BY <3>1, <3>2
    <3>3. CASE n # 1
      BY <3>1, <3>3
    <3> QED BY <3>2, <3>3
  <2>3. UNCHANGED <<listVars, globalLink>>
    BY <1>12 DEF MethodEnd
  <2>4. resume # "teardown" => Len(stack'[t]) > 0
    BY <1>1, <1>5, <2>1, <2>2
  <2> HIDE DEF resume
  <2> QED BY <1>5, <2>1, <2>2, <2>3, <2>4, TypeDestroy
<1>13. CASE UnwindFrame(t)
  <2> DEFINE resume == IF Top(t).kind = "load" THEN "run" ELSE "unwind"
  <2>1. n > 1 /\ n > 0 /\ Top(t) \in Entry /\ Pop(t) /\ Destroy(t, Top(t), resume)
    BY <1>2, <1>4, <1>6, <1>13 DEF UnwindFrame
  <2>2. resume \in {"run", "unwind"}
    OBVIOUS
  <2>3. UNCHANGED <<listVars, globalLink>>
    BY <1>13 DEF UnwindFrame
  <2>4. Len(stack'[t]) > 0
    BY <1>1, <1>5, <2>1
  <2> HIDE DEF resume
  <2> QED BY <1>5, <2>1, <2>2, <2>3, <2>4, TypeDestroy
<1>14. CASE TeardownFrame(t)
  <2>1. PICK i \in MethodFrames(t) :
          Put(t, i, NewEntry("dead", None)) /\ Destroy(t, stack[t][i], "teardown")
    BY <1>14 DEF TeardownFrame
  <2>2. i \in 1 .. n /\ stack[t][i] \in Entry /\ NewEntry("dead", None) \in Entry
    BY <1>1, ElementOfSeq DEF MethodFrames, Depth, NewEntry, Entry, Kinds, Link
  <2>3. /\ stack' \in [Threads -> Seq(Entry)]
        /\ \A u \in Threads \ {t} : stack'[u] = stack[u]
    BY <1>1, <2>1, <2>2, PutStack
  <2>4. UNCHANGED <<listVars, globalLink>>
    BY <1>14 DEF TeardownFrame
  <2> DEFINE e == stack[t][i]
  <2>5. e \in Entry /\ Destroy(t, e, "teardown")
    BY <2>1, <2>2
  <2> HIDE DEF e
  <2> QED BY <2>3, <2>4, <2>5, TypeDestroy
<1>15. CASE TeardownDone(t)
  <2>1. <<>> \in Seq(Entry)
    OBVIOUS
  <2> QED BY <1>1, <1>15, <2>1
       DEF TeardownDone, TypeControl, TypeOK, ControlOK, Depth, PCs, lockVars, listVars, walkVars
<1> QED BY <1>8, <1>9, <1>10, <1>11, <1>12, <1>13, <1>14, <1>15
LEMMA TypeStep ==
  ASSUME TypeControl, BaseOK, [Next]_vars
  PROVE  TypeControl'
<1>1. CASE UNCHANGED vars
  BY <1>1 DEF vars, TypeControl, TypeOK, ControlOK, Depth
<1>2. ASSUME NEW t \in Threads, Aml(t) \/ Interpret(t) PROVE TypeControl'
  BY <1>2, TypeEnter, TypeMutex, TypeWalk, TypeLeave DEF Aml, Interpret
<1> QED BY <1>1, <1>2 DEF Next

\* Where an entry is pushed, popped or replaced, the bottom keeps its kind.
LEMMA BaseStep ==
  ASSUME TypeControl, BaseOK, [Next]_vars
  PROVE  BaseOK'
<1>1. TypeOK /\ ControlOK /\ \A t \in Threads : Len(stack[t]) \in Nat /\ stack[t] \in Seq(Entry)
  BY DEF TypeControl, TypeOK
<1>2. ASSUME UNCHANGED stack PROVE BaseOK'
  BY <1>2 DEF BaseOK, Depth
<1>3. ASSUME NEW t \in Threads, NEW e \in Entry, Push(t, e),
             Len(stack[t]) = 0 => e.kind \notin {"call", "block", "load"}
      PROVE  BaseOK'
  <2>1. /\ \A u \in Threads \ {t} : stack'[u] = stack[u]
        /\ Len(stack'[t]) = Len(stack[t]) + 1
        /\ \A i \in 1 .. Len(stack[t]) : stack'[t][i] = stack[t][i]
        /\ stack'[t][Len(stack[t]) + 1] = e
    BY <1>1, <1>3, PushStack
  <2>2. Len(stack[t]) \in Nat
    BY <1>1
  <2>3. CASE Len(stack[t]) = 0
    BY <1>3, <2>1, <2>3 DEF BaseOK, Depth
  <2>4. CASE Len(stack[t]) > 0
    BY <1>3, <2>1, <2>2, <2>4 DEF BaseOK, Depth
  <2> QED BY <2>2, <2>3, <2>4
<1>4. ASSUME NEW t \in Threads, Len(stack[t]) > 0, Pop(t) PROVE BaseOK'
  <2>1. /\ \A u \in Threads \ {t} : stack'[u] = stack[u]
        /\ Len(stack'[t]) = Len(stack[t]) - 1
        /\ \A i \in 1 .. Len(stack[t]) - 1 : stack'[t][i] = stack[t][i]
    BY <1>1, <1>4, PopStack DEF Depth
  <2>2. Len(stack[t]) \in Nat
    BY <1>1
  <2> QED BY <1>4, <2>1, <2>2 DEF BaseOK, Depth
<1>5. ASSUME NEW t \in Threads, NEW i \in 1 .. Len(stack[t]), NEW e \in Entry, Put(t, i, e),
             e.kind \in {"method", "dead"}
      PROVE  BaseOK'
  <2>1. /\ \A u \in Threads \ {t} : stack'[u] = stack[u]
        /\ Len(stack'[t]) = Len(stack[t])
        /\ \A j \in 1 .. Len(stack[t]) : stack'[t][j] = IF j = i THEN e ELSE stack[t][j]
    BY <1>1, <1>5, PutStack
  <2>2. Len(stack[t]) \in Nat
    BY <1>1
  <2> QED BY <1>5, <2>1, <2>2 DEF BaseOK, Depth
<1>6. ASSUME \A u \in Threads : Len(stack'[u]) = Len(stack[u]),
             \A u \in Threads : \A i \in 1 .. Len(stack[u]) :
               stack'[u][i].kind = stack[u][i].kind
      PROVE  BaseOK'
  BY <1>1, <1>6 DEF BaseOK, Depth
<1>7. \A k \in Kinds, f \in Methods \cup {None} :
        NewEntry(k, f) \in Entry /\ NewEntry(k, f).kind = k
  BY DEF NewEntry, Entry, Link
<1>8. \A t \in Threads : pc[t] \in {"run", "callStore", "acquireStore", "unwind"} => Len(stack[t]) > 0
  BY <1>1 DEF ControlOK, Depth
<1>9. CASE UNCHANGED vars
  BY <1>2, <1>9 DEF vars
<1>10. ASSUME NEW t \in Threads, Aml(t) PROVE BaseOK'
  <2>1. CASE Execute(t)
    BY <1>3, <1>7, <2>1 DEF Execute, Kinds
  <2>2. CASE Load(t) \/ OpenBlock(t)
    BY <1>3, <1>7, <1>8, <2>2 DEF Load, OpenBlock, Kinds
  <2>3. CASE Fail(t) \/ Abort(t)
    BY <1>2, <2>3 DEF Fail, Abort
  <2>4. ASSUME NEW f \in Methods, Invoke(t, f) \/ BeginCall(t, f) PROVE BaseOK'
    <3>1. CASE UNCHANGED stack
      BY <1>2, <3>1
    <3>2. CASE Push(t, NewEntry("method", f))
      BY <1>3, <1>7, <3>2 DEF Kinds
    <3>3. CASE Push(t, NewEntry("call", f)) /\ pc[t] = "run"
      BY <1>3, <1>7, <1>8, <3>3 DEF Kinds
    <3> QED BY <2>4, <3>1, <3>2, <3>3 DEF Invoke, BeginCall, EnterMethod
  <2>5. ASSUME NEW m \in Mutexes, Acquire(t, m) \/ Release(t, m) PROVE BaseOK'
    <3>1. CASE UNCHANGED stack
      BY <1>2, <3>1
    <3>2. CASE Unlink(t, m)
      BY <1>1, <1>6, <3>2, UnlinkStack
    <3> QED BY <2>5, <3>1, <3>2 DEF Acquire, Release
  <2>6. CASE Call(t)
    <3>1. Len(stack[t]) > 0 /\ Top(t) \in Entry /\ Depth(t) \in 1 .. Len(stack[t])
      BY <1>1, <1>8, <2>6, ElementOfSeq DEF Call, Top, Depth
    <3>2. CASE Pop(t)
      BY <1>4, <3>1, <3>2
    <3>3. CASE Put(t, Depth(t), [Top(t) EXCEPT !.kind = "method"])
      <4> DEFINE e == [Top(t) EXCEPT !.kind = "method"]
      <4>1. e \in Entry /\ e.kind = "method"
        BY <3>1 DEF Entry, Kinds
      <4> HIDE DEF e
      <4>2. Put(t, Depth(t), e)
        BY <3>3 DEF e
      <4> QED BY <1>5, <3>1, <4>1, <4>2
    <3> QED BY <2>6, <3>2, <3>3 DEF Call
  <2>7. CASE CloseBlock(t) \/ MethodEnd(t) \/ ScopeEnd(t)
    BY <1>4, <1>8, <2>7 DEF CloseBlock, MethodEnd, ScopeEnd
  <2> QED BY <1>10, <2>1, <2>2, <2>3, <2>4, <2>5, <2>6, <2>7 DEF Aml
<1>11. ASSUME NEW t \in Threads, Interpret(t) PROVE BaseOK'
  <2>1. CASE InvokeStore(t) \/ CallStore(t)
    <3>1. op[t] \in Methods
      BY <1>1, <2>1, LocksAssumption DEF InvokeStore, CallStore, EnterStore, ControlOK
    <3>2. CASE Push(t, NewEntry("method", op[t]))
      BY <1>3, <1>7, <3>1, <3>2 DEF Kinds
    <3>3. CASE Push(t, NewEntry("call", op[t])) /\ pc[t] = "callStore"
      BY <1>3, <1>7, <1>8, <3>1, <3>3 DEF Kinds
    <3> QED BY <2>1, <3>2, <3>3 DEF InvokeStore, CallStore, EnterStore
  <2>2. CASE AcquireStore(t)
    <3>1. op[t] \in Link
      BY <1>1, <2>2 DEF AcquireStore, ControlOK, Link
    <3> QED BY <1>1, <1>6, <2>2, <3>1, SetLinkStack DEF AcquireStore
  <2>3. CASE ReleaseClear(t) \/ SerialClear(t) \/ Walk(t) \/ WalkClear(t) \/ UnwindDone(t)
               \/ TeardownList(t)
    BY <1>2, <2>3 DEF ReleaseClear, SerialClear, Walk, WalkClear, UnwindDone, TeardownList
  <2>4. CASE UnwindDrop(t) \/ UnwindFrame(t)
    BY <1>4, <1>8, <2>4 DEF UnwindDrop, UnwindFrame
  <2>5. CASE TeardownFrame(t)
    <3>1. PICK i \in MethodFrames(t) : Put(t, i, NewEntry("dead", None))
      BY <2>5 DEF TeardownFrame
    <3>2. i \in 1 .. Len(stack[t])
      BY DEF MethodFrames, Depth
    <3> QED BY <1>5, <1>7, <3>1, <3>2 DEF Kinds
  <2>6. CASE TeardownDone(t)
    <3>1. stack'[t] = <<>> /\ \A u \in Threads \ {t} : stack'[u] = stack[u]
      BY <1>1, <2>6 DEF TeardownDone, TypeOK
    <3> QED BY <3>1 DEF BaseOK, Depth
  <2> QED BY <1>11, <2>1, <2>2, <2>3, <2>4, <2>5, <2>6 DEF Interpret
<1> QED BY <1>9, <1>10, <1>11 DEF Next

LEMMA BaseInit == Init => BaseOK
  BY DEF Init, BaseOK, Depth

\* Every variable keeps its type and every thread is where its micro-state says,
\* for any AML and any host: no step reads the top of an empty stack, follows a
\* link that is not a mutex or clears the owner of a lock it was not working on.
THEOREM Typing == Spec => [](TypeOK /\ ControlOK /\ BaseOK)
<1>1. Init => TypeControl /\ BaseOK
  BY TypeInit, BaseInit
<1>2. TypeControl /\ BaseOK /\ [Next]_vars => TypeControl' /\ BaseOK'
  BY TypeStep, BaseStep
<1>3. TypeControl /\ BaseOK => TypeOK /\ ControlOK /\ BaseOK
  BY DEF TypeControl
<1> QED BY <1>1, <1>2, <1>3, PTL DEF Spec

-----------------------------------------------------------------------------
(* Serialized methods exclude each other and implement Monitor, whatever    *)
(* AML and the host do.  SerializedExclusion is not inductive: a thread is   *)
(* inside a method only after its call was pending, and what keeps others    *)
(* out is the lock.  LockCoversEntries says so, with the owner field, which  *)
(* decides whether a thread that enters again counts or waits.               *)

IInv == TypeOK /\ ControlOK /\ BaseOK /\ LockCoversEntries

-----------------------------------------------------------------------------
(* The entries of a method under the operations on stacks                  *)

LEMMA EnteredFinite ==
  ASSUME TypeOK, NEW t \in Threads, NEW f
  PROVE  IsFiniteSet(Entered(t, f)) /\ Cardinality(Entered(t, f)) \in Nat
<1>1. Len(stack[t]) \in Int /\ 1 \in Int
  BY DEF TypeOK
<1>2. IsFiniteSet(1 .. Len(stack[t]))
  BY <1>1, FS_Interval
<1>3. IsFiniteSet(Entered(t, f))
  BY <1>2, FS_Subset DEF Entered, Depth
<1> QED BY <1>3, FS_CardinalityType

\* Any step that keeps Len and the methods keeps the entries.
LEMMA EnteredShape ==
  ASSUME \A u \in Threads : Len(stack'[u]) = Len(stack[u]),
         \A u \in Threads : \A i \in 1 .. Len(stack[u]) :
           stack'[u][i].method = stack[u][i].method
  PROVE  \A u \in Threads, f \in Methods : Entered(u, f)' = Entered(u, f)
BY DEF Entered, Depth

LEMMA EnteredPush ==
  ASSUME TypeOK, NEW t \in Threads, NEW e \in Entry, Push(t, e)
  PROVE  /\ \A u \in Threads \ {t}, f \in Methods : Entered(u, f)' = Entered(u, f)
         /\ \A f \in Methods : Entered(t, f)' =
              Entered(t, f) \cup (IF e.method = f THEN {Depth(t) + 1} ELSE {})
         /\ \A f \in Methods : Depth(t) + 1 \notin Entered(t, f)
<1>1. /\ \A u \in Threads \ {t} : stack'[u] = stack[u]
      /\ Len(stack'[t]) = Len(stack[t]) + 1
      /\ \A i \in 1 .. Len(stack[t]) : stack'[t][i] = stack[t][i]
      /\ stack'[t][Len(stack[t]) + 1] = e
  BY PushStack
<1>2. Len(stack[t]) \in Nat
  BY DEF TypeOK
<1>3. 1 .. Len(stack'[t]) = (1 .. Len(stack[t])) \cup {Len(stack[t]) + 1}
  BY <1>1, <1>2
<1>4. Depth(t) + 1 \notin 1 .. Len(stack[t])
  BY <1>2 DEF Depth
<1> QED BY <1>1, <1>2, <1>3, <1>4 DEF Entered, Depth

LEMMA EnteredPop ==
  ASSUME TypeOK, NEW t \in Threads, Depth(t) > 0, Pop(t)
  PROVE  /\ \A u \in Threads \ {t}, f \in Methods : Entered(u, f)' = Entered(u, f)
         /\ \A f \in Methods : Entered(t, f)' = Entered(t, f) \ {Depth(t)}
         /\ \A f \in Methods : Depth(t) \in Entered(t, f) <=> Top(t).method = f
<1>1. /\ \A u \in Threads \ {t} : stack'[u] = stack[u]
      /\ Len(stack'[t]) = Len(stack[t]) - 1
      /\ \A i \in 1 .. Len(stack[t]) - 1 : stack'[t][i] = stack[t][i]
  BY PopStack
<1>2. Len(stack[t]) \in Nat
  BY DEF TypeOK
<1>3. 1 .. Len(stack'[t]) = (1 .. Len(stack[t])) \ {Len(stack[t])}
  BY <1>1, <1>2
<1>4. Depth(t) \in 1 .. Len(stack[t])
  BY <1>2 DEF Depth
<1> QED BY <1>1, <1>2, <1>3, <1>4 DEF Entered, Depth, Top

\* Replacing an entry by one of the same method, or by one of none.
LEMMA EnteredPut ==
  ASSUME TypeOK, NEW t \in Threads, NEW i \in 1 .. Len(stack[t]), NEW e \in Entry,
         Put(t, i, e), e.method = stack[t][i].method \/ e.method = None
  PROVE  /\ \A u \in Threads \ {t}, f \in Methods : Entered(u, f)' = Entered(u, f)
         /\ \A f \in Methods : Entered(t, f)' =
              Entered(t, f) \ (IF e.method = None THEN {i} ELSE {})
         /\ \A f \in Methods : i \in Entered(t, f) <=> stack[t][i].method = f
<1>1. /\ \A u \in Threads \ {t} : stack'[u] = stack[u]
      /\ Len(stack'[t]) = Len(stack[t])
      /\ \A j \in 1 .. Len(stack[t]) : stack'[t][j] = IF j = i THEN e ELSE stack[t][j]
  BY PutStack
<1>2. None \notin Methods
  BY LocksAssumption
<1> QED BY <1>1, <1>2 DEF Entered, Depth

-----------------------------------------------------------------------------
(* Steps that take and free no lock of a serialized method                 *)

\* Entries may go, calls may be given up, owners may be cleared.
Quiet ==
  /\ \A f \in Serialized : holder'[f] = holder[f] /\ recursion'[f] = recursion[f]
  /\ \A f \in Serialized, u \in Threads : Entered(u, f)' \subseteq Entered(u, f)
  /\ \A f \in Serialized, u \in Threads : owner'[f] = u => owner[f] = u
  /\ \A u \in Threads :
       \/ pc'[u] = pc[u] /\ op'[u] = op[u]
       \/ /\ pc'[u] \notin {"invokeStore", "callStore"}
          /\ pc[u] = "serialClear" => owner'[op[u]] = None

LEMMA QuietStep ==
  ASSUME TypeOK, LockCoversEntries, Quiet
  PROVE  LockCoversEntries'
<1> SUFFICES ASSUME NEW f \in Serialized, NEW t \in Threads
             PROVE  /\ Entered(t, f)' # {} =>
                         holder'[f] = t /\ Cardinality(Entered(t, f)') <= recursion'[f] + 1
                    /\ owner'[f] = t => holder'[f] = t \/ (pc'[t] = "serialClear" /\ op'[t] = f)
                    /\ pc'[t] \in {"invokeStore", "callStore"} /\ op'[t] = f =>
                         holder'[f] = t /\ Entered(t, f)' = {}
  BY DEF LockCoversEntries
<1> DEFINE A == Entered(t, f)
           B == Entered(t, f)'
<1>1. B \subseteq A /\ holder'[f] = holder[f] /\ recursion'[f] = recursion[f]
  BY DEF Quiet
<1>2. recursion[f] \in Nat
  BY DEF TypeOK, Locks
<1>3. IsFiniteSet(A) /\ Cardinality(A) \in Nat
  BY EnteredFinite
<1>4. Cardinality(B) <= Cardinality(A) /\ Cardinality(B) \in Nat
  <2> HIDE DEF A, B
  <2> QED BY <1>1, <1>3, FS_Subset, FS_CardinalityType
<1>5. /\ A # {} => holder[f] = t /\ Cardinality(A) <= recursion[f] + 1
      /\ owner[f] = t => holder[f] = t \/ (pc[t] = "serialClear" /\ op[t] = f)
      /\ pc[t] \in {"invokeStore", "callStore"} /\ op[t] = f => holder[f] = t /\ A = {}
  BY DEF LockCoversEntries
<1>6. B # {} => holder'[f] = t /\ Cardinality(B) <= recursion'[f] + 1
  <2> HIDE DEF A, B
  <2> QED BY <1>1, <1>2, <1>3, <1>4, <1>5
<1>7. owner'[f] = t => holder'[f] = t \/ (pc'[t] = "serialClear" /\ op'[t] = f)
  BY <1>1, <1>5, ThreadsAssumption DEF Quiet
<1>8. pc'[t] \in {"invokeStore", "callStore"} /\ op'[t] = f => holder'[f] = t /\ B = {}
  <2> HIDE DEF A, B
  <2> QED BY <1>1, <1>5 DEF Quiet
<1> QED BY <1>6, <1>7, <1>8


NoNewEntry == \A f \in Methods, u \in Threads : Entered(u, f)' \subseteq Entered(u, f)

LEMMA NoNewEntryPut ==
  ASSUME TypeOK, UNCHANGED stack
  PROVE  NoNewEntry
BY DEF NoNewEntry, Entered, Depth

\* The steps of AML that concern no serialized method.
LEMMA QuietAml ==
  ASSUME TypeControl, LockCoversEntries, NEW t \in Threads,
         \/ Execute(t) \/ Load(t) \/ OpenBlock(t) \/ Fail(t) \/ Abort(t)
         \/ \E m \in Mutexes : Acquire(t, m) \/ Release(t, m)
         \/ Call(t) \/ CloseBlock(t) \/ ScopeEnd(t)
  PROVE  Quiet
<1> USE DEF lockVars, listVars, walkVars
<1>1. TypeOK /\ ControlOK /\ Len(stack[t]) \in Nat /\ stack[t] \in Seq(Entry)
  BY DEF TypeControl, TypeOK
<1>2. Serialized \subseteq Methods /\ None \notin Methods /\ Mutexes \cap Serialized = {}
      /\ Mutexes \subseteq Locks
  BY LocksAssumption DEF Locks
<1>3. pc[t] = "run" => Len(stack[t]) > 0
  BY <1>1 DEF ControlOK, Depth
<1>4. ASSUME NoNewEntry, UNCHANGED <<holder, owner, recursion, op>>,
             NEW at \in {"run", "unwind", "teardown"}, pc[t] # "serialClear",
             pc' = [pc EXCEPT ![t] = at]
      PROVE  Quiet
  BY <1>1, <1>2, <1>4 DEF Quiet, NoNewEntry, TypeOK
<1>5. ASSUME UNCHANGED stack PROVE NoNewEntry
  BY <1>1, <1>5, NoNewEntryPut
<1>6. ASSUME NEW k \in Kinds, Push(t, NewEntry(k, None)) PROVE NoNewEntry
  <2> DEFINE e == NewEntry(k, None)
  <2>1. e \in Entry /\ e.method = None
    BY DEF NewEntry, Entry, Link
  <2> HIDE DEF e
  <2>2. Push(t, e)
    BY <1>6 DEF e
  <2>3. /\ \A u \in Threads \ {t}, f \in Methods : Entered(u, f)' = Entered(u, f)
        /\ \A f \in Methods : Entered(t, f)' =
             Entered(t, f) \cup (IF e.method = f THEN {Depth(t) + 1} ELSE {})
    BY <1>1, <2>1, <2>2, EnteredPush
  <2> QED BY <1>2, <2>1, <2>3 DEF NoNewEntry
<1>7. ASSUME Len(stack[t]) > 0, Pop(t) PROVE NoNewEntry
  BY <1>1, <1>7, EnteredPop DEF NoNewEntry, Depth
<1>8. CASE Execute(t)
  BY <1>4, <1>6, <1>8 DEF Execute, Kinds
<1>9. CASE Load(t) \/ OpenBlock(t)
  <2>1. pc[t] = "run" /\ pc' = [pc EXCEPT ![t] = "run"]
        /\ UNCHANGED <<holder, owner, recursion, op>>
    BY <1>1, <1>9 DEF Load, OpenBlock, TypeOK
  <2> QED BY <1>4, <1>6, <1>9, <2>1 DEF Load, OpenBlock, Kinds
<1>10. CASE Fail(t) \/ Abort(t)
  BY <1>4, <1>5, <1>10 DEF Fail, Abort
<1>11. CASE CloseBlock(t)
  <2>1. pc[t] = "run" /\ pc' = [pc EXCEPT ![t] = "run"]
        /\ UNCHANGED <<holder, owner, recursion, op>>
    BY <1>1, <1>11 DEF CloseBlock, TypeOK
  <2> QED BY <1>3, <1>4, <1>7, <1>11, <2>1 DEF CloseBlock
<1>12. CASE ScopeEnd(t)
  BY <1>3, <1>4, <1>7, <1>12 DEF ScopeEnd
<1>13. CASE Call(t)
  <2>1. Top(t) \in Entry /\ Depth(t) \in 1 .. Len(stack[t]) /\ Top(t) = stack[t][Depth(t)]
    BY <1>1, <1>3, <1>13, ElementOfSeq DEF Call, Top, Depth
  <2>2. CASE Pop(t) /\ pc' = [pc EXCEPT ![t] = "unwind"]
    BY <1>3, <1>4, <1>7, <1>13, <2>2 DEF Call
  <2>3. CASE Put(t, Depth(t), [Top(t) EXCEPT !.kind = "method"]) /\ UNCHANGED pc
    <3> DEFINE e == [Top(t) EXCEPT !.kind = "method"]
    <3>1. e \in Entry /\ e.method = stack[t][Depth(t)].method
      BY <2>1 DEF Entry, Kinds
    <3> HIDE DEF e
    <3>2. Put(t, Depth(t), e)
      BY <2>3 DEF e
    <3>3. NoNewEntry
      BY <1>1, <2>1, <3>1, <3>2, EnteredPut DEF NoNewEntry
    <3>4. pc[t] = "run" /\ pc' = [pc EXCEPT ![t] = "run"]
          /\ UNCHANGED <<holder, owner, recursion, op>>
      BY <1>1, <1>13, <2>3 DEF Call, TypeOK
    <3> QED BY <1>4, <3>3, <3>4
  <2> QED BY <1>13, <2>2, <2>3 DEF Call
<1>14. ASSUME NEW m \in Mutexes, Acquire(t, m) PROVE Quiet
  <2>1. NoNewEntry /\ UNCHANGED owner
    BY <1>5, <1>14 DEF Acquire
  <2>2. /\ \A f \in Serialized : holder'[f] = holder[f] /\ recursion'[f] = recursion[f]
        /\ pc[t] = "run"
        /\ \A u \in Threads :
             \/ pc'[u] = pc[u] /\ op'[u] = op[u]
             \/ pc[u] = "run" /\ pc'[u] = "acquireStore"
    BY <1>1, <1>2, <1>14 DEF Acquire, Nest, OsLock, TypeOK, Locks
  <2> QED BY <1>2, <2>1, <2>2 DEF Quiet, NoNewEntry
<1>15. ASSUME NEW m \in Mutexes, Release(t, m) PROVE Quiet
  <2>1. NoNewEntry
    <3>1. CASE Unlink(t, m)
      BY <1>1, <3>1, UnlinkStack, EnteredShape DEF NoNewEntry
    <3> QED BY <1>5, <1>15, <3>1 DEF Release
  <2>2. /\ \A f \in Serialized : holder'[f] = holder[f] /\ recursion'[f] = recursion[f]
        /\ \A f \in Serialized : owner'[f] = owner[f]
        /\ \A u \in Threads :
             \/ pc'[u] = pc[u] /\ op'[u] = op[u]
             \/ pc[u] = "run" /\ pc'[u] \in {"run", "releaseClear"}
    <3>1. CASE recursion' = [recursion EXCEPT ![m] = @ - 1] /\ UNCHANGED <<holder, owner, pc, op>>
      BY <1>1, <1>2, <3>1 DEF TypeOK, Locks
    <3>2. CASE OsUnlock(t, m, "releaseClear", "run") /\ UNCHANGED recursion
      <4>1. CASE AtomicUnlock
        BY <1>1, <1>2, <1>15, <3>2, <4>1 DEF Release, OsUnlock, TypeOK, Locks
      <4>2. CASE ~AtomicUnlock
        BY <1>1, <1>2, <1>15, <3>2, <4>2 DEF Release, OsUnlock, TypeOK, Locks
      <4> QED BY <4>1, <4>2
    <3> QED BY <1>15, <3>1, <3>2 DEF Release
  <2> QED BY <1>2, <2>1, <2>2 DEF Quiet, NoNewEntry
<1> QED BY <1>8, <1>9, <1>10, <1>11, <1>12, <1>13, <1>14, <1>15

\* The steps of the interpreter that concern none, and the second half of unlock.
LEMMA QuietInterpret ==
  ASSUME TypeControl, LockCoversEntries, NEW t \in Threads,
         \/ AcquireStore(t) \/ ReleaseClear(t) \/ SerialClear(t) \/ Walk(t) \/ WalkClear(t)
         \/ UnwindDone(t) \/ UnwindDrop(t) \/ TeardownList(t) \/ TeardownDone(t)
  PROVE  Quiet
<1> USE DEF lockVars, listVars, walkVars
<1>1. TypeOK /\ ControlOK /\ Len(stack[t]) \in Nat /\ stack[t] \in Seq(Entry)
  BY DEF TypeControl, TypeOK
<1>2. Serialized \subseteq Methods /\ None \notin Methods /\ Mutexes \cap Serialized = {}
      /\ Mutexes \subseteq Locks /\ Serialized \subseteq Locks /\ Mutexes \subseteq Link
      /\ None \notin Threads
  BY LocksAssumption, ThreadsAssumption DEF Locks, Link
<1>3. ASSUME UNCHANGED stack PROVE NoNewEntry
  BY <1>1, <1>3, NoNewEntryPut
\* Only a mutex is touched, outside the window of a serialized lock.
<1>4. ASSUME NoNewEntry, UNCHANGED recursion,
             \A f \in Serialized : holder'[f] = holder[f] /\ owner'[f] = owner[f],
             NEW at \in PCs \ {"invokeStore", "callStore"}, pc[t] # "serialClear",
             pc' = [pc EXCEPT ![t] = at], \A u \in Threads \ {t} : op'[u] = op[u]
      PROVE  Quiet
  <2>1. \A u \in Threads \ {t} : pc'[u] = pc[u]
    BY <1>1, <1>4 DEF TypeOK
  <2>2. pc'[t] \notin {"invokeStore", "callStore"}
    BY <1>1, <1>4 DEF TypeOK
  <2> QED BY <1>2, <1>4, <2>1, <2>2 DEF Quiet, NoNewEntry
<1>5. CASE AcquireStore(t)
  <2>1. op[t] \in Mutexes /\ op[t] \in Link
    BY <1>1, <1>2, <1>5 DEF AcquireStore, ControlOK
  <2>2. SetLink(t, op[t])
    BY <1>5 DEF AcquireStore
  <2>3. NoNewEntry
    BY <1>1, <2>1, <2>2, SetLinkStack, EnteredShape DEF NoNewEntry
  <2>4. UNCHANGED <<recursion, holder>> /\ pc[t] # "serialClear"
        /\ pc' = [pc EXCEPT ![t] = "run"] /\ \A u \in Threads \ {t} : op'[u] = op[u]
    BY <1>1, <1>5 DEF AcquireStore, TypeOK
  <2>5. \A f \in Serialized : owner'[f] = owner[f]
    BY <1>1, <1>2, <1>5, <2>1 DEF AcquireStore, TypeOK
  <2> QED BY <1>4, <2>3, <2>4, <2>5 DEF PCs
<1>6. CASE ReleaseClear(t) \/ WalkClear(t)
  <2>1. op[t] \in Mutexes
    BY <1>1, <1>6 DEF ReleaseClear, WalkClear, ClearOwner, ControlOK
  <2>2. NoNewEntry
    BY <1>3, <1>6 DEF ReleaseClear, WalkClear
  <2>3. \A f \in Serialized : owner'[f] = owner[f]
    BY <1>1, <1>2, <1>6, <2>1 DEF ReleaseClear, WalkClear, ClearOwner, TypeOK
  <2>4. \A u \in Threads \ {t} : op'[u] = op[u]
    BY <1>1, <1>6 DEF ReleaseClear, WalkClear, ClearOwner, TypeOK
  <2> QED BY <1>4, <1>6, <2>2, <2>3, <2>4 DEF ReleaseClear, WalkClear, ClearOwner, PCs
<1>7. CASE SerialClear(t)
  <2>1. op[t] \in Serialized /\ NoNewEntry /\ UNCHANGED <<holder, recursion>>
    BY <1>1, <1>3, <1>7 DEF SerialClear, ClearOwner, ControlOK
  <2>2. /\ owner' = [owner EXCEPT ![op[t]] = None]
        /\ pc' = [pc EXCEPT ![t] = "walk"]
        /\ op' = [op EXCEPT ![t] = None]
    BY <1>7 DEF SerialClear, ClearOwner
  <2>3. \A f \in Serialized, u \in Threads : owner'[f] = u => owner[f] = u
    BY <1>1, <1>2, <2>1, <2>2 DEF TypeOK
  <2>4. owner'[op[t]] = None /\ pc'[t] = "walk"
    BY <1>1, <1>2, <2>1, <2>2 DEF TypeOK
  <2>5. \A u \in Threads \ {t} : pc'[u] = pc[u] /\ op'[u] = op[u]
    BY <1>1, <2>2 DEF TypeOK
  <2> QED BY <1>2, <2>1, <2>3, <2>4, <2>5 DEF Quiet, NoNewEntry
<1>8. CASE Walk(t)
  <2>1. NoNewEntry /\ pc[t] = "walk" /\ UNCHANGED recursion
    BY <1>3, <1>8 DEF Walk
  <2>2. CASE cur[t] = None
    <3>1. back[t] \in PCs \ {"invokeStore", "callStore"}
      BY <1>1 DEF TypeOK, PCs
    <3> QED BY <1>4, <1>8, <2>1, <2>2, <3>1 DEF Walk
  <2>3. CASE cur[t] # None
    <3>1. cur[t] \in Mutexes /\ OsUnlock(t, cur[t], "walkClear", "walk")
      BY <1>1, <1>8, <2>3 DEF Walk, TypeOK, Link
    <3>2. \A f \in Serialized : holder'[f] = holder[f] /\ owner'[f] = owner[f]
      BY <1>1, <1>2, <3>1 DEF OsUnlock, TypeOK
    <3>3. \A u \in Threads \ {t} : op'[u] = op[u]
      BY <1>1, <3>1 DEF OsUnlock, TypeOK
    <3> QED BY <1>4, <2>1, <3>1, <3>2, <3>3 DEF OsUnlock, PCs
  <2> QED BY <2>2, <2>3
<1>9. CASE UnwindDone(t) \/ TeardownList(t)
  <2>1. NoNewEntry
    BY <1>3, <1>9 DEF UnwindDone, TeardownList
  <2> QED BY <1>4, <1>9, <2>1 DEF UnwindDone, TeardownList, PCs
<1>10. CASE UnwindDrop(t)
  <2>1. Depth(t) > 0 /\ Pop(t) /\ pc[t] = "unwind"
    BY <1>1, <1>10 DEF UnwindDrop, ControlOK
  <2>2. NoNewEntry
    BY <1>1, <2>1, EnteredPop DEF NoNewEntry
  <2>3. pc' = [pc EXCEPT ![t] = "unwind"] /\ UNCHANGED <<holder, owner, recursion, op>>
    BY <1>1, <1>10, <2>1 DEF UnwindDrop, TypeOK
  <2> QED BY <1>4, <2>1, <2>2, <2>3 DEF PCs
<1>11. CASE TeardownDone(t)
  <2>1. stack'[t] = <<>> /\ \A u \in Threads \ {t} : stack'[u] = stack[u]
    BY <1>1, <1>11 DEF TeardownDone, TypeOK
  <2>2. NoNewEntry
    BY <2>1 DEF NoNewEntry, Entered, Depth
  <2> QED BY <1>4, <1>11, <2>2 DEF TeardownDone, PCs
<1> QED BY <1>5, <1>6, <1>7, <1>8, <1>9, <1>10, <1>11


-----------------------------------------------------------------------------
(* Steps that take or free the lock of a serialized method                 *)

\* The conjuncts of LockCoversEntries, for one method and one thread.
Covered(f, t) ==
  /\ Entered(t, f) # {} => holder[f] = t /\ Cardinality(Entered(t, f)) <= recursion[f] + 1
  /\ owner[f] = t => holder[f] = t \/ (pc[t] = "serialClear" /\ op[t] = f)
  /\ pc[t] \in {"invokeStore", "callStore"} /\ op[t] = f =>
       holder[f] = t /\ Entered(t, f) = {}

LEMMA CoveredAll == LockCoversEntries <=> \A f \in Serialized, t \in Threads : Covered(f, t)
BY DEF LockCoversEntries, Covered

\* Entering f with the owner set: one more entry for one more nesting.
LEMMA NestStep ==
  ASSUME TypeControl, LockCoversEntries, NEW t \in Threads, NEW f \in Serialized,
         NEW e \in Entry, Push(t, e), e.method = f, Owned(t, f), Nest(f),
         pc[t] \in {"idle", "run"}, pc' = [pc EXCEPT ![t] = "run"],
         UNCHANGED <<holder, owner, op>>
  PROVE  LockCoversEntries'
<1>1. TypeOK /\ recursion \in [Locks -> Nat] /\ pc \in [Threads -> PCs] /\ Depth(t) \in Nat
  BY DEF TypeControl, TypeOK, Depth
<1>2. Serialized \subseteq Methods /\ Serialized \subseteq Locks
  BY LocksAssumption DEF Locks
<1>3. /\ \A u \in Threads \ {t}, g \in Methods : Entered(u, g)' = Entered(u, g)
      /\ \A g \in Methods : Entered(t, g)' =
           Entered(t, g) \cup (IF e.method = g THEN {Depth(t) + 1} ELSE {})
  BY <1>1, EnteredPush
<1>4. holder[f] = t
  BY <1>1 DEF LockCoversEntries, Owned
<1>5. recursion'[f] = recursion[f] + 1 /\ \A g \in Serialized \ {f} : recursion'[g] = recursion[g]
  BY <1>1, <1>2, NestType DEF Nest
<1> SUFFICES ASSUME NEW g \in Serialized, NEW u \in Threads PROVE Covered(g, u)'
  BY CoveredAll DEF LockCoversEntries, Covered
<1>6. Covered(g, u) /\ Covered(f, t)
  BY CoveredAll
<1>7. CASE g # f \/ u # t
  <2>1. Entered(u, g)' = Entered(u, g)
    BY <1>2, <1>3, <1>7
  <2>2. u # t /\ g = f => Entered(u, g) = {}
    BY <1>4, <1>6 DEF Covered
  <2>3. g # f => recursion'[g] = recursion[g]
    BY <1>5
  <2>5. pc'[u] \in {"invokeStore", "callStore"} => pc'[u] = pc[u]
    BY <1>1
  <2>6. pc[u] = "serialClear" => pc'[u] = "serialClear"
    BY <1>1
  <2>7. CASE g # f
    BY <1>6, <2>1, <2>3, <2>5, <2>6, <2>7 DEF Covered
  <2>8. CASE g = f
    BY <1>6, <1>7, <2>1, <2>2, <2>5, <2>6, <2>8 DEF Covered
  <2> QED BY <2>7, <2>8
<1>8. CASE g = f /\ u = t
  <2> DEFINE A == Entered(t, f)
             B == Entered(t, f)'
  <2>1. B = A \cup {Depth(t) + 1}
    BY <1>2, <1>3
  <2>2. IsFiniteSet(A) /\ Cardinality(A) \in Nat
    BY <1>1, EnteredFinite
  <2>3. A # {} => Cardinality(A) <= recursion[f] + 1
    BY <1>6 DEF Covered
  <2>4. A = {} => Cardinality(A) = 0
    BY FS_EmptySet
  <2>5. Cardinality(B) <= Cardinality(A) + 1 /\ Cardinality(B) \in Nat
    <3> HIDE DEF A, B
    <3>1. Cardinality(B) = Cardinality(A) \/ Cardinality(B) = Cardinality(A) + 1
      BY <2>1, <2>2, FS_AddElement
    <3> QED BY <2>2, <3>1
  <2>6. Cardinality(B) <= recursion'[f] + 1
    <3>1. recursion[f] \in Nat
      BY <1>1, <1>2
    <3> HIDE DEF A, B
    <3> QED BY <1>5, <2>2, <2>3, <2>4, <2>5, <3>1
  <2>7. pc'[t] = "run"
    BY <1>1
  <2> QED BY <1>4, <1>8, <2>6, <2>7 DEF Covered
<1> QED BY <1>7, <1>8

\* Taking the lock of f: nobody has entered it.
LEMMA LockStep ==
  ASSUME TypeControl, LockCoversEntries, NEW t \in Threads, NEW f \in Serialized,
         NEW at \in {"invokeStore", "callStore"}, OsLock(t, f, at), pc[t] \in {"idle", "run"},
         UNCHANGED <<owner, recursion, stack>>
  PROVE  LockCoversEntries'
<1>1. TypeOK /\ holder \in [Locks -> Threads \cup {None}] /\ pc \in [Threads -> PCs]
      /\ op \in [Threads -> Locks \cup {None}]
  BY DEF TypeControl, TypeOK
<1>2. Serialized \subseteq Locks /\ None \notin Threads
  BY ThreadsAssumption DEF Locks
<1>3. \A u \in Threads, g \in Serialized : Entered(u, g)' = Entered(u, g)
  BY DEF Entered, Depth
<1>4. holder[f] = None /\ holder' = [holder EXCEPT ![f] = t]
      /\ op' = [op EXCEPT ![t] = f] /\ pc' = [pc EXCEPT ![t] = at]
  BY DEF OsLock
<1>5. \A u \in Threads : Covered(f, u)
  BY CoveredAll
<1>6. \A u \in Threads : Entered(u, f) = {}
  BY <1>2, <1>4, <1>5 DEF Covered
<1> SUFFICES ASSUME NEW g \in Serialized, NEW u \in Threads PROVE Covered(g, u)'
  BY CoveredAll DEF LockCoversEntries, Covered
<1>7. Covered(g, u)
  BY CoveredAll
<1>8. CASE g # f
  BY <1>1, <1>2, <1>3, <1>4, <1>7, <1>8 DEF Covered
<1>9. CASE g = f
  <2>1. owner[f] = u => (pc'[u] = "serialClear" /\ op'[u] = f) \/ holder'[f] = u
    BY <1>1, <1>2, <1>4, <1>5 DEF Covered
  <2>2. pc'[u] \in {"invokeStore", "callStore"} /\ op'[u] = f => u = t
    BY <1>1, <1>2, <1>4, <1>5 DEF Covered
  <2> QED BY <1>1, <1>2, <1>3, <1>4, <1>6, <1>9, <2>1, <2>2 DEF Covered
<1> QED BY <1>8, <1>9

\* Storing the owner: the first entry.
LEMMA StoreStep ==
  ASSUME TypeControl, LockCoversEntries, NEW t \in Threads,
         InvokeStore(t) \/ CallStore(t)
  PROVE  LockCoversEntries'
<1>1. TypeOK /\ recursion \in [Locks -> Nat] /\ pc \in [Threads -> PCs] /\ Depth(t) \in Nat
      /\ op \in [Threads -> Locks \cup {None}] /\ owner \in [Locks -> Threads \cup {None}]
  BY DEF TypeControl, TypeOK, Depth
<1>2. Serialized \subseteq Methods /\ Serialized \subseteq Locks /\ None \notin Locks
  BY LocksAssumption DEF Locks
<1> PICK f \in Serialized : f = op[t]
  BY DEF InvokeStore, CallStore, EnterStore, TypeControl, ControlOK
<1>3. PICK k \in {"method", "call"} : Push(t, NewEntry(k, f))
  BY DEF InvokeStore, CallStore, EnterStore
<1>4. /\ pc[t] \in {"invokeStore", "callStore"} /\ pc' = [pc EXCEPT ![t] = "run"]
      /\ owner' = [owner EXCEPT ![f] = t] /\ op' = [op EXCEPT ![t] = None]
      /\ UNCHANGED <<holder, recursion>>
  BY DEF InvokeStore, CallStore, EnterStore
<1>6. NewEntry(k, f) \in Entry /\ NewEntry(k, f).method = f
  BY <1>2 DEF NewEntry, Entry, Kinds, Link
<1>7. holder[f] = t /\ Entered(t, f) = {}
  BY <1>4 DEF LockCoversEntries
<1> DEFINE e == NewEntry(k, f)
<1>8. e \in Entry /\ e.method = f /\ Push(t, e)
  BY <1>3, <1>6
<1> HIDE DEF e
<1>9. /\ \A u \in Threads \ {t}, g \in Methods : Entered(u, g)' = Entered(u, g)
      /\ \A g \in Methods : Entered(t, g)' =
           Entered(t, g) \cup (IF e.method = g THEN {Depth(t) + 1} ELSE {})
  BY <1>1, <1>8, EnteredPush
<1> SUFFICES ASSUME NEW g \in Serialized, NEW u \in Threads PROVE Covered(g, u)'
  BY CoveredAll DEF LockCoversEntries, Covered
<1>10. Covered(g, u)
  BY CoveredAll
<1>11. CASE u # t
  BY <1>1, <1>2, <1>4, <1>9, <1>10, <1>11 DEF Covered
<1>12. CASE u = t /\ g # f
  <2>1. Entered(u, g)' = Entered(u, g)
    BY <1>2, <1>8, <1>9, <1>12
  <2> QED BY <1>1, <1>2, <1>4, <1>10, <1>12, <2>1 DEF Covered
<1>13. CASE u = t /\ g = f
  <2>1. Entered(t, f)' = {Depth(t) + 1}
    BY <1>2, <1>7, <1>8, <1>9
  <2>2. Cardinality(Entered(t, f)') = 1
    BY <2>1, FS_Singleton
  <2>3. recursion'[f] \in Nat /\ pc'[t] = "run"
    BY <1>1, <1>2, <1>4
  <2> QED BY <1>4, <1>7, <1>13, <2>2, <2>3 DEF Covered
<1> QED BY <1>11, <1>12, <1>13


\* ~MethodFrame of an entry that goes: its lock counts one nesting less, or it
\* is free and nobody is left inside.
LEMMA DestroyStep ==
  ASSUME TypeControl, LockCoversEntries, NEW t \in Threads, NEW e \in Entry, NEW resume,
         Destroy(t, e, resume), pc[t] \in {"run", "unwind", "teardown"}, NEW i,
         \A u \in Threads \ {t}, g \in Methods : Entered(u, g)' = Entered(u, g),
         \A g \in Methods : Entered(t, g)' = Entered(t, g) \ {i},
         \A g \in Methods : i \in Entered(t, g) <=> e.method = g
  PROVE  LockCoversEntries'
<1>1. TypeOK /\ recursion \in [Locks -> Nat] /\ pc \in [Threads -> PCs]
      /\ op \in [Threads -> Locks \cup {None}] /\ owner \in [Locks -> Threads \cup {None}]
      /\ holder \in [Locks -> Threads \cup {None}]
  BY DEF TypeControl, TypeOK
<1>2. Serialized \subseteq Methods /\ Serialized \subseteq Locks /\ None \notin Threads
  BY LocksAssumption, ThreadsAssumption DEF Locks
<1>3. \A u \in Threads, g \in Serialized : Entered(u, g)' \subseteq Entered(u, g)
  BY <1>2
<1>4. CASE e.method \notin Serialized
  <2>1. pc' = [pc EXCEPT ![t] = "walk"] /\ UNCHANGED <<holder, owner, recursion, op>>
    BY <1>4 DEF Destroy, lockVars
  <2>2. Quiet
    BY <1>1, <1>3, <2>1 DEF Quiet
  <2> QED BY <1>1, <2>2, QuietStep
<1>5. CASE e.method \in Serialized
  <2> PICK f \in Serialized : f = e.method
    BY <1>5
  <2> SUFFICES ASSUME NEW g \in Serialized, NEW u \in Threads PROVE Covered(g, u)'
    BY CoveredAll DEF LockCoversEntries, Covered
  <2>1. Covered(g, u) /\ Covered(f, t)
    BY CoveredAll
  <2> DEFINE A == Entered(t, f)
             B == Entered(t, f)'
  <2>2. IsFiniteSet(A) /\ Cardinality(A) \in Nat /\ B = A \ {i} /\ i \in A
    BY <1>1, <1>2, EnteredFinite
  <2>3. Cardinality(B) = Cardinality(A) - 1
    <3> HIDE DEF A, B
    <3> QED BY <2>2, FS_RemoveElement
  <2>4. holder[f] = t /\ Cardinality(A) <= recursion[f] + 1
    BY <2>1, <2>2 DEF Covered
  <2>5. u # t => Entered(u, f) = {}
    BY <1>2, <2>4, CoveredAll DEF Covered
  <2>6. CASE recursion[f] > 0
    <3>1. recursion' = [recursion EXCEPT ![f] = @ - 1]
          /\ pc' = [pc EXCEPT ![t] = "walk"] /\ UNCHANGED <<holder, owner, op>>
      BY <1>1, <1>2, <2>6 DEF Destroy, Nested
    <3>2. recursion'[f] = recursion[f] - 1
          /\ \A h \in Serialized \ {f} : recursion'[h] = recursion[h]
      BY <1>1, <1>2, <2>6, <3>1, UnnestType
    <3>3. CASE g # f
      <4>1. Entered(u, g)' \subseteq Entered(u, g)
        BY <1>3
      <4>2. IsFiniteSet(Entered(u, g)) /\ Cardinality(Entered(u, g)) \in Nat
        BY <1>1, EnteredFinite
      <4>3. Cardinality(Entered(u, g)') <= Cardinality(Entered(u, g))
            /\ Cardinality(Entered(u, g)') \in Nat
        BY <4>1, <4>2, FS_Subset, FS_CardinalityType
      <4>4. recursion[g] \in Nat /\ recursion'[g] = recursion[g]
        BY <1>1, <1>2, <3>2, <3>3
      <4>5. Entered(u, g)' # {} => Cardinality(Entered(u, g)') <= recursion'[g] + 1
        BY <2>1, <4>1, <4>2, <4>3, <4>4 DEF Covered
      <4> QED BY <1>1, <2>1, <3>1, <4>1, <4>5 DEF Covered
    <3>4. CASE g = f /\ u # t
      BY <1>1, <1>2, <2>1, <2>5, <3>1, <3>4 DEF Covered
    <3>5. CASE g = f /\ u = t
      <4>1. Cardinality(B) <= recursion'[f] + 1
        <5>1. recursion[f] \in Nat
          BY <1>1, <1>2
        <5> HIDE DEF A, B
        <5> QED BY <2>2, <2>3, <2>4, <3>2, <5>1
      <4> QED BY <1>1, <2>1, <2>4, <3>1, <3>5, <4>1 DEF Covered
    <3> QED BY <3>3, <3>4, <3>5
  <2>7. CASE ~(recursion[f] > 0)
    <3>1. recursion[f] = 0
      BY <1>1, <1>2, <2>7
    <3>2. OsUnlock(t, f, "serialClear", "walk") /\ UNCHANGED recursion
      BY <2>7, <3>1 DEF Destroy, Nested
    <3>3. B = {}
      <4>1. Cardinality(B) = 0 /\ IsFiniteSet(B)
        <5>1. IsFiniteSet(B)
          BY <2>2, FS_Subset
        <5>2. Cardinality(B) \in Nat
          BY <5>1, FS_CardinalityType
        <5> HIDE DEF A, B
        <5> QED BY <2>2, <2>3, <2>4, <3>1, <5>1, <5>2
      <4> HIDE DEF A, B
      <4> QED BY <4>1, FS_EmptySet
    <3>4. \A v \in Threads : Entered(v, f)' = {}
      BY <1>3, <2>4, <3>3, CoveredAll DEF Covered
    <3>5. /\ holder' = [holder EXCEPT ![f] = None]
          /\ pc' = [pc EXCEPT ![t] = "serialClear"] \/ pc' = [pc EXCEPT ![t] = "walk"]
          /\ \A h \in Serialized \ {f} : owner'[h] = owner[h]
          /\ \A v \in Threads \ {t} : op'[v] = op[v]
      BY <1>1, <1>2, <3>2 DEF OsUnlock
    <3>6. CASE g # f
      <4>1. Entered(u, g)' = Entered(u, g)
        <5>1. CASE u # t
          BY <1>2, <5>1
        <5>2. CASE u = t
          <6>1. i \notin Entered(t, g) /\ Entered(t, g)' = Entered(t, g) \ {i}
            BY <1>2, <3>6
          <6> QED BY <5>2, <6>1
        <5> QED BY <5>1, <5>2
      <4> QED BY <1>1, <1>2, <2>1, <3>2, <3>5, <3>6, <4>1 DEF Covered
    <3>7. CASE g = f
      <4>1. owner[f] = u => u = t \/ (pc[u] = "serialClear" /\ op[u] = f)
        BY <1>2, <2>4, CoveredAll DEF Covered
      <4>2. pc[u] \in {"invokeStore", "callStore"} /\ op[u] = f => u = t
        BY <1>2, <2>4, CoveredAll DEF Covered
      <4>3. owner'[f] = u => pc'[u] = "serialClear" /\ op'[u] = f
        BY <1>1, <1>2, <3>2, <4>1 DEF OsUnlock
      <4>4. pc'[u] \in {"invokeStore", "callStore"} => pc'[u] = pc[u] /\ u # t
        BY <1>1, <3>5
      <4>5. Entered(u, f)' = {} /\ ~(pc'[u] \in {"invokeStore", "callStore"} /\ op'[u] = f)
        BY <3>4, <3>5, <4>2, <4>4
      <4> QED BY <3>7, <4>3, <4>5 DEF Covered
    <3> QED BY <3>6, <3>7
  <2> QED BY <2>6, <2>7
<1> QED BY <1>4, <1>5


-----------------------------------------------------------------------------
(* The invariant, and exclusion                                            *)

\* invoke_method and handle_name, of a serialized method or not.
LEMMA EnterCovers ==
  ASSUME TypeControl, LockCoversEntries, NEW t \in Threads, NEW f \in Methods,
         Invoke(t, f) \/ BeginCall(t, f)
  PROVE  LockCoversEntries'
<1>1. TypeOK /\ pc \in [Threads -> PCs]
  BY DEF TypeControl, TypeOK
<1>2. PICK k \in {"method", "call"}, at \in {"invokeStore", "callStore"} :
        EnterMethod(t, f, k, at) /\ pc[t] \in {"idle", "run"}
  BY DEF Invoke, BeginCall
<1>3. CASE f \in Serialized /\ ~Owned(t, f) /\ OsLock(t, f, at) /\ UNCHANGED <<owner, recursion, stack>>
  BY <1>2, <1>3, LockStep
<1>4. CASE /\ f \in Serialized => Owned(t, f)
           /\ IF f \in Serialized THEN Nest(f) ELSE UNCHANGED recursion
           /\ Push(t, NewEntry(k, f))
           /\ pc' = [pc EXCEPT ![t] = "run"]
           /\ UNCHANGED <<holder, owner, op>>
  <2> DEFINE e == NewEntry(k, f)
  <2>1. e \in Entry /\ e.method = f /\ Push(t, e)
    BY <1>4 DEF NewEntry, Entry, Kinds, Link
  <2> HIDE DEF e
  <2>2. CASE f \in Serialized
    BY <1>2, <1>4, <2>1, <2>2, NestStep
  <2>3. CASE f \notin Serialized
    <3>1. /\ \A u \in Threads \ {t}, g \in Methods : Entered(u, g)' = Entered(u, g)
          /\ \A g \in Methods : Entered(t, g)' =
               Entered(t, g) \cup (IF e.method = g THEN {Depth(t) + 1} ELSE {})
      BY <1>1, <2>1, EnteredPush
    <3>2. \A u \in Threads, g \in Serialized : Entered(u, g)' \subseteq Entered(u, g)
      BY <2>1, <2>3, <3>1, LocksAssumption
    <3>3. Quiet
      BY <1>1, <1>2, <1>4, <2>3, <3>2 DEF Quiet
    <3> QED BY <1>1, <3>3, QuietStep
  <2> QED BY <2>2, <2>3
<1> QED BY <1>2, <1>3, <1>4 DEF EnterMethod

\* The ends of method frames.
LEMMA LeaveCovers ==
  ASSUME TypeControl, LockCoversEntries, NEW t \in Threads,
         MethodEnd(t) \/ UnwindFrame(t) \/ TeardownFrame(t)
  PROVE  LockCoversEntries'
<1>1. TypeOK /\ Len(stack[t]) \in Nat /\ stack[t] \in Seq(Entry) /\ None \notin Methods
  BY LocksAssumption DEF TypeControl, TypeOK
<1>2. CASE MethodEnd(t) \/ UnwindFrame(t)
  <2>1. PICK resume : Destroy(t, Top(t), resume)
    BY <1>2 DEF MethodEnd, UnwindFrame
  <2>2. Pop(t) /\ pc[t] \in {"run", "unwind"}
    BY <1>2 DEF MethodEnd, UnwindFrame
  <2>3. Depth(t) > 0
    BY <2>2 DEF TypeControl, ControlOK
  <2>4. Top(t) \in Entry
    BY <1>1, <2>2, <2>3, PopStack
  <2>5. /\ \A u \in Threads \ {t}, f \in Methods : Entered(u, f)' = Entered(u, f)
        /\ \A f \in Methods : Entered(t, f)' = Entered(t, f) \ {Depth(t)}
        /\ \A f \in Methods : Depth(t) \in Entered(t, f) <=> Top(t).method = f
    BY <1>1, <2>2, <2>3, EnteredPop
  <2> QED BY <2>1, <2>2, <2>4, <2>5, DestroyStep
<1>3. CASE TeardownFrame(t)
  <2>1. PICK i \in MethodFrames(t) :
          Put(t, i, NewEntry("dead", None)) /\ Destroy(t, stack[t][i], "teardown")
    BY <1>3 DEF TeardownFrame
  <2> DEFINE e == NewEntry("dead", None)
             d == stack[t][i]
  <2>2. i \in 1 .. Len(stack[t]) /\ d \in Entry /\ e \in Entry /\ e.method = None
    BY <1>1, ElementOfSeq DEF MethodFrames, Depth, NewEntry, Entry, Kinds, Link
  <2>3. pc[t] = "teardown" /\ Put(t, i, e) /\ Destroy(t, d, "teardown")
    BY <1>3, <2>1 DEF TeardownFrame
  <2> HIDE DEF e
  <2>4. /\ \A u \in Threads \ {t}, f \in Methods : Entered(u, f)' = Entered(u, f)
        /\ \A f \in Methods : Entered(t, f)' =
             Entered(t, f) \ (IF e.method = None THEN {i} ELSE {})
        /\ \A f \in Methods : i \in Entered(t, f) <=> stack[t][i].method = f
    BY <1>1, <2>2, <2>3, EnteredPut
  <2>5. \E x \in Entry : x = d
    BY <2>2
  <2>6. PICK x \in Entry : x = d
    BY <2>5
  <2> QED BY <2>2, <2>3, <2>4, <2>6, DestroyStep, ZenonT(60)
<1> QED BY <1>2, <1>3

LEMMA CoversStep ==
  ASSUME TypeControl, LockCoversEntries, [Next]_vars
  PROVE  LockCoversEntries'
<1>1. TypeOK
  BY DEF TypeControl
<1>2. CASE UNCHANGED vars
  <2>1. \A f \in Serialized, u \in Threads : Entered(u, f)' \subseteq Entered(u, f)
    BY <1>2 DEF vars, Entered, Depth
  <2> QED BY <1>1, <1>2, <2>1, QuietStep DEF vars, Quiet
<1>3. ASSUME NEW t \in Threads, Aml(t) PROVE LockCoversEntries'
  <2>1. CASE MethodEnd(t)
    BY <2>1, LeaveCovers
  <2>2. ASSUME NEW f \in Methods, Invoke(t, f) \/ BeginCall(t, f) PROVE LockCoversEntries'
    BY <2>2, EnterCovers
  <2> QED BY <1>1, <1>3, <2>1, <2>2, QuietAml, QuietStep DEF Aml
<1>4. ASSUME NEW t \in Threads, Interpret(t) PROVE LockCoversEntries'
  <2>1. CASE UnwindFrame(t) \/ TeardownFrame(t)
    BY <2>1, LeaveCovers
  <2>2. CASE InvokeStore(t) \/ CallStore(t)
    BY <2>2, StoreStep
  <2> QED BY <1>1, <1>4, <2>1, <2>2, QuietInterpret, QuietStep DEF Interpret
<1> QED BY <1>2, <1>3, <1>4 DEF Next

LEMMA CoversInit == Init => LockCoversEntries
<1>1. SUFFICES ASSUME Init, NEW f \in Serialized, NEW t \in Threads PROVE Covered(f, t)
  BY CoveredAll
<1>2. Entered(t, f) = {}
  BY <1>1 DEF Init, Entered, Depth
<1> QED BY <1>1, <1>2, ThreadsAssumption DEF Covered, Init, Locks

THEOREM Invariance == Spec => []IInv
<1>1. Init => IInv
  BY TypeInit, BaseInit, CoversInit DEF IInv, TypeControl
<1>2. IInv /\ [Next]_vars => IInv'
  BY TypeStep, BaseStep, CoversStep DEF IInv, TypeControl
<1> QED BY <1>1, <1>2, PTL DEF Spec

\* From the moment handle_name or invoke_method has locked a Serialized method to
\* the end of ~MethodFrame, its lock is held by the thread that entered it and
\* counts every entry: no error path, recursion or mutex changes that.
THEOREM Covering == Spec => []LockCoversEntries
<1>1. IInv => LockCoversEntries
  BY DEF IInv
<1> QED BY <1>1, Invariance, PTL

\* No two threads execute a Serialized method at the same time.
THEOREM Exclusion == Spec => []SerializedExclusion
<1>1. IInv => SerializedExclusion
  <2>1. \A f \in Serialized, t \in Threads : Inside(t, f) \subseteq Entered(t, f)
    BY DEF Inside, Entered
  <2> QED BY <2>1 DEF IInv, LockCoversEntries, SerializedExclusion
<1> QED BY <1>1, Invariance, PTL


-----------------------------------------------------------------------------
(* Who frees the lock of a Serialized method                               *)

\* A method that nobody holds is nested at level zero.
FreeFlat == \A f \in Serialized : holder[f] = None => recursion[f] = 0

\* What a step of t does to the lock of f: nothing, a change of the level of its own
\* lock, or it takes the free lock, or frees its own with the last activation.
GivesUp(t, f) ==
  /\ holder[f] = t /\ holder'[f] = None /\ recursion[f] = 0 /\ recursion'[f] = 0
  /\ Entered(t, f)' = {}
SerialMove(t, f) ==
  \/ holder'[f] = holder[f] /\ recursion'[f] = recursion[f]
  \/ holder[f] = t /\ holder'[f] = t
  \/ holder[f] = None /\ holder'[f] = t /\ recursion'[f] = recursion[f]

\* Destroy, of an entry that goes.
LEMMA DestroyGives ==
  ASSUME TypeControl, LockCoversEntries, NEW t \in Threads, NEW e \in Entry, NEW resume,
         Destroy(t, e, resume), NEW i,
         \A g \in Methods : Entered(t, g)' = Entered(t, g) \ {i},
         \A g \in Methods : i \in Entered(t, g) <=> e.method = g,
         NEW f \in Serialized
  PROVE  SerialMove(t, f) \/ GivesUp(t, f)
<1>1. /\ TypeOK /\ recursion \in [Locks -> Nat] /\ holder \in [Locks -> Threads \cup {None}]
      /\ f \in Methods /\ Serialized \subseteq Locks /\ None \notin Threads
  BY LocksAssumption, ThreadsAssumption DEF TypeControl, TypeOK, Locks
<1>2. CASE e.method \notin Serialized \/ e.method # f
  <2>1. holder'[f] = holder[f] /\ recursion'[f] = recursion[f]
    BY <1>1, <1>2 DEF Destroy, lockVars, OsUnlock
  <2> QED BY <2>1 DEF SerialMove
<1>3. CASE e.method = f
  <2> DEFINE A == Entered(t, f)
             B == Entered(t, f)'
  <2>1. IsFiniteSet(A) /\ Cardinality(A) \in Nat /\ B = A \ {i} /\ i \in A
    BY <1>1, <1>3, EnteredFinite
  <2>2. holder[f] = t /\ Cardinality(A) <= recursion[f] + 1
    BY <2>1 DEF LockCoversEntries
  <2>3. CASE Nested(f)
    <3>1. holder'[f] = t
      BY <1>3, <2>2, <2>3 DEF Destroy
    <3> QED BY <2>2, <3>1 DEF SerialMove
  <2>4. CASE ~ Nested(f)
    <3>1. recursion[f] = 0 /\ recursion'[f] = 0 /\ holder'[f] = None
      BY <1>1, <1>3, <2>4 DEF Destroy, Nested, OsUnlock
    <3>2. IsFiniteSet(B) /\ Cardinality(B) = Cardinality(A) - 1
      <4> HIDE DEF A, B
      <4> QED BY <2>1, FS_RemoveElement, FS_Subset
    <3>3. Cardinality(B) = 0
      <4>1. Cardinality(B) \in Nat
        BY <3>2, FS_CardinalityType
      <4> HIDE DEF A, B
      <4> QED BY <2>1, <2>2, <3>1, <3>2, <4>1
    <3>4. B = {}
      <4> HIDE DEF A, B
      <4> QED BY <3>2, <3>3, FS_EmptySet
    <3> QED BY <2>2, <3>1, <3>4 DEF GivesUp
  <2> QED BY <2>3, <2>4
<1> QED BY <1>2, <1>3

LEMMA LeaveGives ==
  ASSUME TypeControl, LockCoversEntries, NEW t \in Threads,
         MethodEnd(t) \/ UnwindFrame(t) \/ TeardownFrame(t), NEW f \in Serialized
  PROVE  SerialMove(t, f) \/ GivesUp(t, f)
<1>1. TypeOK /\ Len(stack[t]) \in Nat /\ stack[t] \in Seq(Entry) /\ None \notin Methods
  BY LocksAssumption DEF TypeControl, TypeOK
<1>2. CASE MethodEnd(t) \/ UnwindFrame(t)
  <2>1. PICK resume : Destroy(t, Top(t), resume)
    BY <1>2 DEF MethodEnd, UnwindFrame
  <2>2. Pop(t) /\ pc[t] \in {"run", "unwind"}
    BY <1>2 DEF MethodEnd, UnwindFrame
  <2>3. Depth(t) > 0
    BY <2>2 DEF TypeControl, ControlOK
  <2>4. Top(t) \in Entry
    BY <1>1, <2>2, <2>3, PopStack
  <2>5. /\ \A g \in Methods : Entered(t, g)' = Entered(t, g) \ {Depth(t)}
        /\ \A g \in Methods : Depth(t) \in Entered(t, g) <=> Top(t).method = g
    BY <1>1, <2>2, <2>3, EnteredPop
  <2> QED BY <2>1, <2>4, <2>5, DestroyGives
<1>3. CASE TeardownFrame(t)
  <2>1. PICK i \in MethodFrames(t) :
          Put(t, i, NewEntry("dead", None)) /\ Destroy(t, stack[t][i], "teardown")
    BY <1>3 DEF TeardownFrame
  <2> DEFINE e == NewEntry("dead", None)
             d == stack[t][i]
  <2>2. i \in 1 .. Len(stack[t]) /\ d \in Entry /\ e \in Entry /\ e.method = None
    BY <1>1, ElementOfSeq DEF MethodFrames, Depth, NewEntry, Entry, Kinds, Link
  <2>3. Put(t, i, e) /\ Destroy(t, d, "teardown")
    BY <2>1
  <2> HIDE DEF e
  <2>4. /\ \A g \in Methods : Entered(t, g)' =
             Entered(t, g) \ (IF e.method = None THEN {i} ELSE {})
        /\ \A g \in Methods : i \in Entered(t, g) <=> stack[t][i].method = g
    BY <1>1, <2>2, <2>3, EnteredPut
  <2>5. \E x \in Entry : x = d
    BY <2>2
  <2>6. PICK x \in Entry : x = d
    BY <2>5
  <2> QED BY <2>2, <2>3, <2>4, <2>6, DestroyGives, ZenonT(60)
<1> QED BY <1>2, <1>3

LEMMA EnterTakes ==
  ASSUME TypeControl, LockCoversEntries, NEW t \in Threads, NEW g \in Methods,
         Invoke(t, g) \/ BeginCall(t, g), NEW f \in Serialized
  PROVE  SerialMove(t, f)
<1>1. /\ TypeOK /\ recursion \in [Locks -> Nat] /\ holder \in [Locks -> Threads \cup {None}]
      /\ Serialized \subseteq Locks /\ pc[t] \in {"idle", "run"}
  BY DEF TypeControl, TypeOK, Locks, Invoke, BeginCall
<1>2. PICK k, at : EnterMethod(t, g, k, at)
  BY DEF Invoke, BeginCall
<1>3. CASE g \in Serialized /\ OsLock(t, g, at) /\ UNCHANGED <<owner, recursion, stack>>
  <2>1. CASE f = g
    BY <1>1, <1>3, <2>1 DEF OsLock, SerialMove
  <2>2. CASE f # g
    BY <1>1, <1>3, <2>2 DEF OsLock, SerialMove
  <2> QED BY <2>1, <2>2
<1>4. CASE /\ g \in Serialized => Owned(t, g)
           /\ IF g \in Serialized THEN Nest(g) ELSE UNCHANGED recursion
           /\ UNCHANGED <<holder, owner, op>>
  <2>1. CASE f = g
    <3>1. holder[f] = t
      BY <1>1, <1>4, <2>1 DEF LockCoversEntries, Owned
    <3> QED BY <1>4, <3>1 DEF SerialMove
  <2>2. CASE f # g
    BY <1>1, <1>4, <2>2 DEF Nest, SerialMove
  <2> QED BY <2>1, <2>2
<1> QED BY <1>2, <1>3, <1>4 DEF EnterMethod

LEMMA SerialStep ==
  ASSUME TypeControl, LockCoversEntries, NEW t \in Threads, Aml(t) \/ Interpret(t),
         NEW f \in Serialized
  PROVE  \/ SerialMove(t, f)
         \/ GivesUp(t, f) /\ (MethodEnd(t) \/ UnwindFrame(t) \/ TeardownFrame(t))
<1>1. CASE MethodEnd(t) \/ UnwindFrame(t) \/ TeardownFrame(t)
  BY <1>1, LeaveGives
<1>2. CASE InvokeStore(t) \/ CallStore(t)
  BY <1>2 DEF InvokeStore, CallStore, EnterStore, SerialMove
<1>3. ASSUME NEW g \in Methods, Invoke(t, g) \/ BeginCall(t, g) PROVE SerialMove(t, f)
  BY <1>3, EnterTakes
<1>4. Quiet => SerialMove(t, f)
  BY DEF Quiet, SerialMove
<1>5. CASE Aml(t)
  BY <1>1, <1>3, <1>4, <1>5, QuietAml DEF Aml
<1>6. CASE Interpret(t)
  BY <1>1, <1>2, <1>4, <1>6, QuietInterpret DEF Interpret
<1> QED BY <1>5, <1>6

\* The lock of a Serialized method is freed only by the thread that has it, when the
\* last of its activations ends, and is taken at nesting level zero: whatever AML
\* and the host do.
THEOREM Unlocks == Spec => MethodUnlocks
<1>1. Init => FreeFlat
  BY DEF Init, FreeFlat, Locks
<1>2. ASSUME IInv, FreeFlat, [Next]_vars
      PROVE  /\ FreeFlat'
             /\ [\A f \in Serialized, t \in Threads :
                   /\ holder[f] = t /\ holder'[f] # t =>
                        /\ MethodEnd(t) \/ UnwindFrame(t) \/ TeardownFrame(t)
                        /\ Entered(t, f)' = {}
                   /\ holder[f] # t /\ holder'[f] = t =>
                        holder[f] = None /\ recursion[f] = 0]_vars
  <2>1. CASE UNCHANGED vars
    BY <1>2, <2>1 DEF vars, FreeFlat
  <2>2. ASSUME NEW u \in Threads, Aml(u) \/ Interpret(u), NEW f \in Serialized
        PROVE  /\ holder'[f] = None => recursion'[f] = 0
               /\ \A t \in Threads :
                    /\ holder[f] = t /\ holder'[f] # t =>
                         /\ MethodEnd(t) \/ UnwindFrame(t) \/ TeardownFrame(t)
                         /\ Entered(t, f)' = {}
                    /\ holder[f] # t /\ holder'[f] = t =>
                         holder[f] = None /\ recursion[f] = 0
    <3>1. None \notin Threads /\ (holder[f] = None => recursion[f] = 0)
      BY <1>2, ThreadsAssumption DEF FreeFlat
    <3>2. \/ SerialMove(u, f)
          \/ GivesUp(u, f) /\ (MethodEnd(u) \/ UnwindFrame(u) \/ TeardownFrame(u))
      BY <1>2, <2>2, SerialStep DEF IInv, TypeControl
    <3>3. CASE SerialMove(u, f)
      BY <3>1, <3>3 DEF SerialMove
    <3>4. CASE GivesUp(u, f) /\ (MethodEnd(u) \/ UnwindFrame(u) \/ TeardownFrame(u))
      BY <3>1, <3>4 DEF GivesUp
    <3> QED BY <3>2, <3>3, <3>4
  <2> QED BY <1>2, <2>1, <2>2 DEF Next, FreeFlat
<1> QED BY <1>1, <1>2, Invariance, PTL DEF Spec, MethodUnlocks


-----------------------------------------------------------------------------
(* MethodSync implements Monitor                                           *)

\* A step leaves the activations alone, or it adds or removes one activation i of
\* one method g in one thread t.
Same(t) == \A u \in Threads \ {t}, f \in Serialized : Inside(u, f)' = Inside(u, f)
Keeps == \A u \in Threads, f \in Serialized : Inside(u, f)' = Inside(u, f)
Gains(t, g, i) ==
  /\ Same(t) /\ \A f \in Serialized \ {g} : Inside(t, f)' = Inside(t, f)
  /\ i \notin Inside(t, g) /\ Inside(t, g)' = Inside(t, g) \cup {i}
Loses(t, g, i) ==
  /\ Same(t) /\ \A f \in Serialized \ {g} : Inside(t, f)' = Inside(t, f)
  /\ i \in Inside(t, g) /\ Inside(t, g)' = Inside(t, g) \ {i}
Moves == Keeps \/ \E t \in Threads, g \in Methods, i \in Nat : Gains(t, g, i) \/ Loses(t, g, i)

LEMMA InsideFinite ==
  ASSUME TypeOK, NEW t \in Threads, NEW f
  PROVE  IsFiniteSet(Inside(t, f)) /\ Cardinality(Inside(t, f)) \in Nat
<1>1. IsFiniteSet(Entered(t, f)) /\ Inside(t, f) \subseteq Entered(t, f)
  BY EnteredFinite DEF Inside, Entered
<1>2. IsFiniteSet(Inside(t, f))
  BY <1>1, FS_Subset
<1> QED BY <1>2, FS_CardinalityType

LEMMA PushMoves ==
  ASSUME TypeOK, NEW t \in Threads, NEW e \in Entry, Push(t, e)
  PROVE  Moves
<1>1. /\ \A u \in Threads \ {t} : stack'[u] = stack[u]
      /\ Len(stack'[t]) = Len(stack[t]) + 1
      /\ \A i \in 1 .. Len(stack[t]) : stack'[t][i] = stack[t][i]
      /\ stack'[t][Len(stack[t]) + 1] = e
  BY PushStack
<1>2. Len(stack[t]) \in Nat /\ Depth(t) + 1 \in Nat /\ e.method \in Methods \cup {None}
      /\ Serialized \subseteq Methods /\ None \notin Methods
  BY LocksAssumption DEF TypeOK, Depth, Entry
<1>3. /\ 1 .. Len(stack'[t]) = (1 .. Len(stack[t])) \cup {Depth(t) + 1}
      /\ Depth(t) + 1 \notin 1 .. Len(stack[t])
  BY <1>1, <1>2 DEF Depth
<1>4. Same(t)
  BY <1>1 DEF Same, Inside, Depth
<1>5. CASE e.kind = "method" /\ e.method # None
  <2>1. Gains(t, e.method, Depth(t) + 1)
    BY <1>1, <1>3, <1>4, <1>5 DEF Gains, Inside, Depth
  <2> QED BY <1>2, <1>5, <2>1 DEF Moves
<1>6. CASE e.kind # "method" \/ e.method = None
  <2>1. \A f \in Serialized : Inside(t, f)' = Inside(t, f)
    BY <1>1, <1>2, <1>3, <1>6 DEF Inside, Depth
  <2> QED BY <1>4, <2>1 DEF Moves, Keeps, Same
<1> QED BY <1>5, <1>6

LEMMA PopMoves ==
  ASSUME TypeOK, NEW t \in Threads, Depth(t) > 0, Pop(t)
  PROVE  Moves
<1>1. /\ \A u \in Threads \ {t} : stack'[u] = stack[u]
      /\ Len(stack'[t]) = Len(stack[t]) - 1
      /\ \A i \in 1 .. Len(stack[t]) - 1 : stack'[t][i] = stack[t][i]
      /\ Top(t) \in Entry /\ Top(t) = stack[t][Depth(t)]
  BY PopStack DEF Top
<1>2. Len(stack[t]) \in Nat /\ Depth(t) \in Nat /\ Top(t).method \in Methods \cup {None}
      /\ Serialized \subseteq Methods /\ None \notin Methods
  BY <1>1, LocksAssumption DEF TypeOK, Depth, Entry
<1>3. /\ 1 .. Len(stack'[t]) = (1 .. Len(stack[t])) \ {Depth(t)}
      /\ Depth(t) \in 1 .. Len(stack[t])
  BY <1>1, <1>2 DEF Depth
<1>4. Same(t)
  BY <1>1 DEF Same, Inside, Depth
<1>5. CASE Top(t).kind = "method" /\ Top(t).method # None
  <2>1. PICK g \in Methods, i \in Nat : g = Top(t).method /\ i = Depth(t)
    BY <1>2, <1>5
  <2>2. i \in Inside(t, g) /\ Inside(t, g)' = Inside(t, g) \ {i}
    BY <1>1, <1>2, <1>3, <1>5, <2>1 DEF Inside, Depth
  <2>3. ASSUME NEW f \in Serialized \ {g}
        PROVE  Inside(t, f)' = Inside(t, f)
    BY <1>1, <1>2, <1>3, <1>5, <2>1 DEF Inside, Depth
  <2>4. \A f \in Serialized \ {g} : Inside(t, f)' = Inside(t, f)
    BY <2>3
  <2>5. Loses(t, g, i)
    BY <1>4, <2>2, <2>4, Zenon DEF Loses
  <2> QED BY <2>5 DEF Moves
<1>6. CASE Top(t).kind # "method" \/ Top(t).method = None
  <2>1. ASSUME NEW f \in Serialized
        PROVE  Inside(t, f)' = Inside(t, f)
    <3>1. Depth(t) \notin Inside(t, f)
      BY <1>1, <1>2, <1>6 DEF Inside
    <3> QED BY <1>1, <1>2, <1>3, <3>1, SMTT(40) DEF Inside, Depth
  <2> QED BY <1>4, <2>1 DEF Moves, Keeps, Same
<1> QED BY <1>5, <1>6

\* A call becomes an activation, or an activation goes.
LEMMA PutMoves ==
  ASSUME TypeOK, NEW t \in Threads, NEW i \in 1 .. Len(stack[t]), NEW e \in Entry,
         Put(t, i, e),
         \/ e.kind = "dead"
         \/ e.kind = "method" /\ stack[t][i].kind # "method"
  PROVE  Moves
<1>1. /\ \A u \in Threads \ {t} : stack'[u] = stack[u]
      /\ Len(stack'[t]) = Len(stack[t])
      /\ \A j \in 1 .. Len(stack[t]) : stack'[t][j] = IF j = i THEN e ELSE stack[t][j]
  BY PutStack
<1>2. i \in Nat /\ Serialized \subseteq Methods /\ None \notin Methods
      /\ e.method \in Methods \cup {None} /\ stack[t][i].method \in Methods \cup {None}
  <2>1. stack[t] \in Seq(Entry)
    BY DEF TypeOK
  <2>2. stack[t][i] \in Entry
    BY <2>1, ElementOfSeq
  <2> QED BY <2>2, LocksAssumption DEF Entry
<1>3. Same(t)
  BY <1>1 DEF Same, Inside, Depth
<1>4. CASE e.kind = "method"
  <2>1. stack[t][i].kind # "method"
    BY <1>4
  <2>2. CASE e.method # None
    <3>1. Gains(t, e.method, i)
      BY <1>1, <1>3, <1>4, <2>1 DEF Gains, Inside, Depth
    <3> QED BY <1>2, <2>2, <3>1 DEF Moves
  <2>3. CASE e.method = None
    <3>1. \A f \in Serialized : Inside(t, f)' = Inside(t, f)
      BY <1>1, <1>2, <2>1, <2>3 DEF Inside, Depth
    <3> QED BY <1>3, <3>1 DEF Moves, Keeps, Same
  <2> QED BY <2>2, <2>3
<1>5. CASE e.kind = "dead"
  <2>1. CASE stack[t][i].kind = "method" /\ stack[t][i].method # None
    <3>1. PICK g \in Methods : g = stack[t][i].method
      BY <1>2, <2>1
    <3>2. Loses(t, g, i)
      BY <1>1, <1>3, <1>5, <2>1, <3>1 DEF Loses, Inside, Depth
    <3> QED BY <1>2, <3>2 DEF Moves
  <2>2. CASE stack[t][i].kind # "method" \/ stack[t][i].method = None
    <3>1. \A f \in Serialized : Inside(t, f)' = Inside(t, f)
      BY <1>1, <1>2, <1>5, <2>2 DEF Inside, Depth
    <3> QED BY <1>3, <3>1 DEF Moves, Keeps, Same
  <2> QED BY <2>1, <2>2
<1> QED BY <1>4, <1>5


LEMMA ShapeMoves ==
  ASSUME \A u \in Threads : Len(stack'[u]) = Len(stack[u]),
         \A u \in Threads : \A i \in 1 .. Len(stack[u]) :
           /\ stack'[u][i].kind = stack[u][i].kind
           /\ stack'[u][i].method = stack[u][i].method
  PROVE  Moves
BY DEF Moves, Keeps, Inside, Depth

LEMMA MovesStep ==
  ASSUME TypeControl, BaseOK, [Next]_vars
  PROVE  Moves
<1>1. TypeOK /\ ControlOK /\ \A t \in Threads : Len(stack[t]) \in Nat /\ stack[t] \in Seq(Entry)
  BY DEF TypeControl, TypeOK
<1>2. ASSUME UNCHANGED stack PROVE Moves
  BY <1>2 DEF Moves, Keeps, Inside, Depth
<1>3. \A k \in Kinds, f \in Methods \cup {None} :
        NewEntry(k, f) \in Entry /\ NewEntry(k, f).kind = k
  BY DEF NewEntry, Entry, Link
<1>4. \A t \in Threads : pc[t] \in {"run", "callStore", "acquireStore", "unwind"} => Depth(t) > 0
  BY <1>1 DEF ControlOK
<1>5. ASSUME NEW t \in Threads, NEW k \in Kinds, NEW f \in Methods \cup {None},
             Push(t, NewEntry(k, f))
      PROVE  Moves
  BY <1>1, <1>3, <1>5, PushMoves
<1>6. ASSUME NEW t \in Threads, Aml(t) PROVE Moves
  <2>1. CASE Execute(t) \/ Load(t) \/ OpenBlock(t)
    BY <1>5, <2>1 DEF Execute, Load, OpenBlock, Kinds
  <2>2. CASE Fail(t) \/ Abort(t)
    BY <1>2, <2>2 DEF Fail, Abort
  <2>3. ASSUME NEW f \in Methods, Invoke(t, f) \/ BeginCall(t, f) PROVE Moves
    BY <1>2, <1>5, <2>3 DEF Invoke, BeginCall, EnterMethod, Kinds
  <2>4. ASSUME NEW m \in Mutexes, Acquire(t, m) \/ Release(t, m) PROVE Moves
    <3>1. CASE Unlink(t, m)
      BY <1>1, <3>1, UnlinkStack, ShapeMoves
    <3> QED BY <1>2, <2>4, <3>1 DEF Acquire, Release
  <2>5. CASE Call(t)
    <3>1. Depth(t) > 0 /\ Top(t) \in Entry /\ Depth(t) \in 1 .. Len(stack[t])
          /\ Top(t) = stack[t][Depth(t)] /\ Top(t).kind = "call"
      BY <1>1, <1>4, <2>5, ElementOfSeq DEF Call, Top, Depth
    <3>2. CASE Pop(t)
      BY <1>1, <3>1, <3>2, PopMoves
    <3>3. CASE Put(t, Depth(t), [Top(t) EXCEPT !.kind = "method"])
      <4> DEFINE e == [Top(t) EXCEPT !.kind = "method"]
      <4>1. e \in Entry /\ e.kind = "method"
        BY <3>1 DEF Entry, Kinds
      <4> HIDE DEF e
      <4>2. Put(t, Depth(t), e)
        BY <3>3 DEF e
      <4> QED BY <1>1, <3>1, <4>1, <4>2, PutMoves
    <3> QED BY <2>5, <3>2, <3>3 DEF Call
  <2>6. CASE CloseBlock(t) \/ MethodEnd(t) \/ ScopeEnd(t)
    BY <1>1, <1>4, <2>6, PopMoves DEF CloseBlock, MethodEnd, ScopeEnd
  <2> QED BY <1>6, <2>1, <2>2, <2>3, <2>4, <2>5, <2>6 DEF Aml
<1>7. ASSUME NEW t \in Threads, Interpret(t) PROVE Moves
  <2>1. CASE InvokeStore(t) \/ CallStore(t)
    <3>1. op[t] \in Methods
      BY <1>1, <2>1, LocksAssumption DEF InvokeStore, CallStore, EnterStore, ControlOK
    <3> QED BY <1>5, <2>1, <3>1 DEF InvokeStore, CallStore, EnterStore, Kinds
  <2>2. CASE AcquireStore(t)
    <3>1. op[t] \in Link
      BY <1>1, <2>2 DEF AcquireStore, ControlOK, Link
    <3> QED BY <1>1, <2>2, <3>1, SetLinkStack, ShapeMoves DEF AcquireStore
  <2>3. CASE ReleaseClear(t) \/ SerialClear(t) \/ Walk(t) \/ WalkClear(t) \/ UnwindDone(t)
               \/ TeardownList(t)
    BY <1>2, <2>3 DEF ReleaseClear, SerialClear, Walk, WalkClear, UnwindDone, TeardownList
  <2>4. CASE UnwindDrop(t) \/ UnwindFrame(t)
    BY <1>1, <1>4, <2>4, PopMoves DEF UnwindDrop, UnwindFrame
  <2>5. CASE TeardownFrame(t)
    <3>1. PICK i \in MethodFrames(t) : Put(t, i, NewEntry("dead", None))
      BY <2>5 DEF TeardownFrame
    <3>2. i \in 1 .. Len(stack[t])
      BY DEF MethodFrames, Depth
    <3> QED BY <1>1, <1>3, <3>1, <3>2, PutMoves DEF Kinds
  <2>6. CASE TeardownDone(t)
    <3>1. stack'[t] = <<>> /\ \A u \in Threads \ {t} : stack'[u] = stack[u]
      BY <1>1, <2>6 DEF TeardownDone, TypeOK
    <3>2. \A f : Inside(t, f) \subseteq MethodFrames(t)
      BY DEF Inside, MethodFrames
    <3>3. \A f \in Serialized : Inside(t, f) = {} /\ Inside(t, f)' = {}
      BY <2>6, <3>1, <3>2 DEF TeardownDone, Inside, Depth
    <3>4. \A u \in Threads \ {t}, f \in Serialized : Inside(u, f)' = Inside(u, f)
      BY <3>1 DEF Inside, Depth
    <3> QED BY <3>3, <3>4 DEF Moves, Keeps
  <2> QED BY <1>7, <2>1, <2>2, <2>3, <2>4, <2>5, <2>6 DEF Interpret
<1> QED BY <1>2, <1>6, <1>7 DEF Next, vars

\* A gained activation is the monitor's Enter: by the invariant of the state that
\* follows, the lock is the thread's, and nobody else is inside.  A lost one is
\* its Leave.
LEMMA MonitorStep ==
  ASSUME IInv, [Next]_vars
  PROVE  [M!Next]_Activations
<1>1. Moves /\ LockCoversEntries' /\ TypeOK /\ TypeOK'
  BY MovesStep, TypeStep, CoversStep DEF IInv, TypeControl
<1>2. \A u \in Threads : \A f : IsFiniteSet(Inside(u, f)) /\ Cardinality(Inside(u, f)) \in Nat
  BY <1>1, InsideFinite
<1>3. \A u \in Threads, f \in Serialized : Inside(u, f)' \subseteq Entered(u, f)'
  BY DEF Inside, Entered
<1>4. CASE Keeps
  <2>1. \A u \in Threads, f \in Serialized :
          Cardinality(Inside(u, f))' = Cardinality(Inside(u, f))
    BY <1>4 DEF Keeps
  <2> QED BY <2>1 DEF Activations
<1>5. ASSUME NEW t \in Threads, NEW g \in Methods, NEW i \in Nat, Gains(t, g, i) \/ Loses(t, g, i)
      PROVE  [M!Next]_Activations
  <2>1. CASE g \notin Serialized
    <3>1. \A u \in Threads, f \in Serialized : Inside(u, f)' = Inside(u, f)
      BY <1>5, <2>1 DEF Gains, Loses, Same
    <3> QED BY <1>4, <3>1 DEF Keeps
  <2>2. CASE g \in Serialized
    <3>1. \A u \in Threads, f \in Serialized :
            (u # t \/ f # g) => Inside(u, f)' = Inside(u, f)
      BY <1>5, <2>2 DEF Gains, Loses, Same
    <3> DEFINE n == Cardinality(Inside(t, g)')
    <3>2. Activations' = [Activations EXCEPT ![g][t] = n]
      <4>1. \A u \in Threads, f \in Serialized :
              (u # t \/ f # g) => Cardinality(Inside(u, f)') = Cardinality(Inside(u, f))
        BY <3>1
      <4> HIDE DEF n
      <4>2. Activations' = [f \in Serialized |-> [u \in Threads |->
                              IF f = g /\ u = t THEN n ELSE Cardinality(Inside(u, f))]]
        BY <2>2, <4>1 DEF Activations, n
      <4> QED BY <2>2, <4>2 DEF Activations
    <3>3. CASE Gains(t, g, i)
      <4>1. Inside(t, g)' = Inside(t, g) \cup {i} /\ i \notin Inside(t, g)
        BY <3>3 DEF Gains
      <4>2. n = Cardinality(Inside(t, g)) + 1
        BY <1>2, <4>1, FS_AddElement
      <4>3. holder'[g] = t
        BY <1>1, <1>3, <2>2, <4>1 DEF LockCoversEntries
      <4>4. \A u \in Threads \ {t} : Inside(u, g) = {}
        <5>1. \A u \in Threads \ {t} : Entered(u, g)' = {}
          BY <1>1, <2>2, <4>3 DEF LockCoversEntries
        <5> QED BY <1>3, <2>2, <3>1, <5>1
      <4>5. \A u \in Threads \ {t} : Activations[g][u] = 0
        BY <2>2, <4>4, FS_EmptySet DEF Activations
      <4>6. Activations' = [Activations EXCEPT ![g][t] = @ + 1]
        <5>1. Activations[g][t] = Cardinality(Inside(t, g))
          BY <2>2 DEF Activations
        <5> HIDE DEF n
        <5> QED BY <3>2, <4>2, <5>1
      <4> QED BY <2>2, <4>5, <4>6 DEF M!Next, M!Enter
    <3>4. CASE Loses(t, g, i)
      <4>1. Inside(t, g)' = Inside(t, g) \ {i} /\ i \in Inside(t, g)
        BY <3>4 DEF Loses
      <4>2. n = Cardinality(Inside(t, g)) - 1
        BY <1>2, <4>1, FS_RemoveElement
      <4>3. Activations[g][t] = Cardinality(Inside(t, g))
        BY <2>2 DEF Activations
      <4>4. Cardinality(Inside(t, g)) > 0
        BY <1>2, <4>1, FS_EmptySet
      <4>5. Activations' = [Activations EXCEPT ![g][t] = @ - 1]
        <5> HIDE DEF n
        <5> QED BY <3>2, <4>2, <4>3
      <4> QED BY <2>2, <4>3, <4>4, <4>5 DEF M!Next, M!Leave
    <3> QED BY <1>5, <3>3, <3>4
  <2> QED BY <2>1, <2>2
<1> QED BY <1>1, <1>4, <1>5 DEF Moves

LEMMA MonitorInit == Init => M!Init
<1>1. SUFFICES ASSUME Init PROVE M!Init
  OBVIOUS
<1>2. \A f \in Serialized, t \in Threads : Inside(t, f) = {}
  BY <1>1 DEF Init, Inside, Depth
<1> QED BY <1>2, FS_EmptySet DEF M!Init, Activations

\* Serialized methods are reentrant monitors: every step of the interpreters is an
\* entry of one method by a thread that finds it empty or its own, an exit, or
\* neither.
THEOREM Implements == Spec => Monitors
<1>1. IInv /\ [Next]_vars => [M!Next]_Activations
  BY MonitorStep
<1> QED BY <1>1, MonitorInit, Invariance, PTL DEF Spec, M!Spec, Monitors

-----------------------------------------------------------------------------
(* The lists of locked mutexes: what a method or a table has acquired is    *)
(* on its list and on no other, so that nothing stays locked behind it.     *)
(*                                                                          *)
(* ListsExact is not inductive: next and prev say nothing of a mutex that   *)
(* is on no list, and a list could be a cycle.  The invariant has two       *)
(* witnesses: the number of the list that every owned mutex is on, and an   *)
(* order along the lists.  First come the lists alone (Lists and what       *)
(* pushing, unlinking and walking does to them), then what a step does to   *)
(* the stacks (StackFine), to the locks (LockMove) and to the lists         *)
(* (ListMove), and from these three the invariants.                         *)


-----------------------------------------------------------------------------
(* Linked lists.  A list is known by a thread and a number: own says on     *)
(* whose list a mutex is, at on which one, pos in which order, head where    *)
(* each list begins.  On list -1 the walk of a destructor frees what it has  *)
(* passed, so that the mutex at its head still points back.                  *)

Lists(own, at, pos, nx, pv, head) ==
  /\ own \in [Mutexes -> Threads \cup {None}]
  /\ at \in [Mutexes -> Int] /\ pos \in [Mutexes -> Nat]
  /\ nx \in [Mutexes -> Link] /\ pv \in [Mutexes -> Link]
  /\ head \in [Threads -> [Int -> Link]]
  /\ \A t \in Threads, i \in Int : head[t][i] # None =>
       /\ own[head[t][i]] = t /\ at[head[t][i]] = i
       /\ i # -1 => pv[head[t][i]] = None
  /\ \A m \in Mutexes : own[m] # None /\ nx[m] # None =>
       /\ own[nx[m]] = own[m] /\ at[nx[m]] = at[m]
       /\ pv[nx[m]] = m /\ pos[m] < pos[nx[m]]
  /\ \A m \in Mutexes : own[m] # None /\ m # head[own[m]][at[m]] =>
       /\ pv[m] # None
       /\ own[pv[m]] = own[m] /\ at[pv[m]] = at[m] /\ nx[pv[m]] = m

\* A set with the head of a list and with the next of its elements has the whole list.
LEMMA WholeList ==
  ASSUME NEW own, NEW at, NEW pos, NEW nx, NEW pv, NEW head,
         Lists(own, at, pos, nx, pv, head), NEW t \in Threads, NEW i \in Int,
         NEW S \in SUBSET Mutexes, head[t][i] \in S \cup {None},
         \A j \in S : nx[j] \in S \cup {None}
  PROVE  \A m \in Mutexes : own[m] = t /\ at[m] = i => m \in S
<1> DEFINE Out == {m \in Mutexes : own[m] = t /\ at[m] = i /\ m \notin S}
           T == {pos[m] : m \in Out}
<1>1. SUFFICES ASSUME Out # {}
               PROVE  FALSE
  OBVIOUS
<1>2. T \subseteq Nat /\ T # {}
  <2>1. pos \in [Mutexes -> Nat] /\ Out \subseteq Mutexes
    BY DEF Lists
  <2> HIDE DEF Out
  <2>2. QED
    BY <1>1, <2>1
<1>3. PICK x \in T : \A y \in T : x <= y
  <2> HIDE DEF T
  <2>1. QED
    BY <1>2, NatMin
<1>4. PICK m \in Out : x = pos[m]
  BY <1>3
<1>5. own[m] # None /\ m # head[t][i] /\ m # None
  BY <1>4, ThreadsAssumption, LocksAssumption
<1>6. /\ pv[m] # None /\ own[pv[m]] = t /\ at[pv[m]] = i /\ nx[pv[m]] = m
      /\ pv[m] \in Mutexes
  BY <1>4, <1>5 DEF Lists, Link
<1>7. pos[pv[m]] < pos[m] /\ pv[m] \notin S /\ pos[m] \in Nat /\ pos[pv[m]] \in Nat
  BY <1>4, <1>5, <1>6, ThreadsAssumption DEF Lists
<1>8. pv[m] \in Out
  BY <1>6, <1>7
<1>9. pos[m] <= pos[pv[m]]
  BY <1>3, <1>4, <1>8
<1>10. QED
  BY <1>7, <1>9

\* A list without a head has no mutex.
LEMMA NoHead ==
  ASSUME NEW own, NEW at, NEW pos, NEW nx, NEW pv, NEW head,
         Lists(own, at, pos, nx, pv, head), NEW t \in Threads, NEW i \in Int,
         head[t][i] = None
  PROVE  \A m \in Mutexes : ~ (own[m] = t /\ at[m] = i)
<1>1. PICK S : S = {}
  OBVIOUS
<1>2. S \in SUBSET Mutexes /\ head[t][i] \in S \cup {None} /\ \A j \in S : nx[j] \in S \cup {None}
  BY <1>1
<1>3. \A m \in Mutexes : own[m] = t /\ at[m] = i => m \in S
  BY <1>2, WholeList
<1>4. QED
  BY <1>1, <1>3

\* The head of a list is the first in the order.
LEMMA HeadFirst ==
  ASSUME NEW own, NEW at, NEW pos, NEW nx, NEW pv, NEW head,
         Lists(own, at, pos, nx, pv, head), NEW t \in Threads, NEW i \in Int,
         NEW h \in Mutexes, h = head[t][i]
  PROVE  \A m \in Mutexes : own[m] = t /\ at[m] = i => pos[h] <= pos[m]
<1>1. PICK S : S = {m \in Mutexes : own[m] = t /\ at[m] = i /\ pos[h] <= pos[m]}
  OBVIOUS
<1>2. \A m \in Mutexes : pos[m] \in Nat
  BY DEF Lists
<1>3. h # None /\ t # None
  BY ThreadsAssumption, LocksAssumption
<1>4. h \in S
  BY <1>1, <1>2, <1>3 DEF Lists
<1>5. ASSUME NEW j \in S, nx[j] # None
      PROVE  nx[j] \in S
  <2>1. nx[j] \in Mutexes /\ own[nx[j]] = t /\ at[nx[j]] = i /\ pos[j] < pos[nx[j]]
        /\ pos[h] <= pos[j] /\ j \in Mutexes
    BY <1>1, <1>3, <1>5 DEF Lists, Link
  <2>2. QED
    BY <1>1, <1>2, <2>1
<1>6. S \in SUBSET Mutexes /\ head[t][i] \in S \cup {None} /\ \A j \in S : nx[j] \in S \cup {None}
  BY <1>1, <1>4, <1>5
<1>7. \A m \in Mutexes : own[m] = t /\ at[m] = i => m \in S
  BY <1>6, WholeList
<1>8. QED
  BY <1>1, <1>7

\* Push m, which is on no list, on the front of one.
Pushed(own, at, pos, nx, pv, head, t, i, m, h, own2, at2, pos2, nx2, pv2, head2) ==
  /\ own[m] = None /\ h = head[t][i]
  /\ own2 = [own EXCEPT ![m] = t] /\ at2 = [at EXCEPT ![m] = i]
  /\ pos2 = [k \in Mutexes |-> IF k = m THEN 0 ELSE pos[k] + 1]
  /\ nx2 = [nx EXCEPT ![m] = h]
  /\ pv2 = [k \in Mutexes |-> IF k = h THEN m ELSE IF k = m THEN None ELSE pv[k]]
  /\ head2 \in [Threads -> [Int -> Link]]
  /\ \A u \in Threads, j \in Int : head2[u][j] = IF u = t /\ j = i THEN m ELSE head[u][j]

LEMMA OnFront ==
  ASSUME NEW own, NEW at, NEW pos, NEW nx, NEW pv, NEW head,
         Lists(own, at, pos, nx, pv, head), NEW t \in Threads, NEW i \in Nat, NEW m \in Mutexes,
         NEW h, NEW own2, NEW at2, NEW pos2, NEW nx2, NEW pv2, NEW head2,
         Pushed(own, at, pos, nx, pv, head, t, i, m, h, own2, at2, pos2, nx2, pv2, head2)
  PROVE  Lists(own2, at2, pos2, nx2, pv2, head2)
<1> USE DEF Pushed
<1>1. m # None /\ h # m /\ h \in Link /\ t # None /\ None \notin Mutexes
      /\ (h # None => h \in Mutexes /\ own[h] = t /\ at[h] = i /\ pv[h] = None)
  BY ThreadsAssumption, LocksAssumption DEF Lists, Link
<1>2. /\ own2 \in [Mutexes -> Threads \cup {None}]
      /\ at2 \in [Mutexes -> Int] /\ pos2 \in [Mutexes -> Nat]
      /\ nx2 \in [Mutexes -> Link] /\ pv2 \in [Mutexes -> Link]
  BY <1>1 DEF Lists, Link
<1>3. ASSUME NEW u \in Threads, NEW j \in Int, head2[u][j] # None
      PROVE  /\ own2[head2[u][j]] = u /\ at2[head2[u][j]] = j
             /\ j # -1 => pv2[head2[u][j]] = None
  <2>1. CASE u = t /\ j = i
    BY <1>1, <2>1 DEF Lists
  <2>2. CASE ~ (u = t /\ j = i)
    <3>1. head2[u][j] = head[u][j] /\ head[u][j] \in Mutexes /\ own[head[u][j]] = u
          /\ at[head[u][j]] = j /\ (j # -1 => pv[head[u][j]] = None)
      BY <1>3, <2>2 DEF Lists, Link
    <3>2. head[u][j] # m /\ head[u][j] # h
      BY <1>1, <2>2, <3>1, ThreadsAssumption
    <3>3. QED
      BY <3>1, <3>2 DEF Lists
  <2>3. QED
    BY <2>1, <2>2
<1>4. ASSUME NEW k \in Mutexes, own2[k] # None, nx2[k] # None
      PROVE  /\ own2[nx2[k]] = own2[k] /\ at2[nx2[k]] = at2[k]
             /\ pv2[nx2[k]] = k /\ pos2[k] < pos2[nx2[k]]
  <2>1. CASE k = m
    BY <1>1, <1>4, <2>1 DEF Lists
  <2>2. CASE k # m
    <3>1. nx2[k] = nx[k] /\ own2[k] = own[k] /\ nx[k] \in Mutexes
      BY <1>4, <2>2 DEF Lists, Link
    <3>2. own[nx[k]] = own[k] /\ at[nx[k]] = at[k] /\ pv[nx[k]] = k /\ pos[k] < pos[nx[k]]
      BY <1>4, <3>1 DEF Lists
    <3>3. nx[k] # m /\ nx[k] # h
      BY <1>1, <1>4, <3>1, <3>2
    <3>4. pos2[k] = pos[k] + 1 /\ pos2[nx[k]] = pos[nx[k]] + 1 /\ pos[k] \in Nat /\ pos[nx[k]] \in Nat
      BY <2>2, <3>1, <3>3 DEF Lists
    <3>5. pos2[k] < pos2[nx[k]]
      BY <3>2, <3>4
    <3>6. QED
      BY <2>2, <3>1, <3>2, <3>3, <3>5 DEF Lists
  <2>3. QED
    BY <2>1, <2>2
<1>5. ASSUME NEW k \in Mutexes, own2[k] # None, k # head2[own2[k]][at2[k]]
      PROVE  /\ pv2[k] # None
             /\ own2[pv2[k]] = own2[k] /\ at2[pv2[k]] = at2[k] /\ nx2[pv2[k]] = k
  <2>1. CASE k = m
    BY <1>5, <2>1 DEF Lists
  <2>2. CASE k = h
    BY <1>1, <2>2 DEF Lists
  <2>3. CASE k # m /\ k # h
    <3>1. own2[k] = own[k] /\ at2[k] = at[k] /\ pv2[k] = pv[k] /\ own[k] \in Threads /\ at[k] \in Int
      BY <1>2, <1>5, <2>3 DEF Lists
    <3>2. k # head[own[k]][at[k]]
      BY <1>5, <2>3, <3>1
    <3>3. /\ pv[k] # None /\ own[pv[k]] = own[k] /\ at[pv[k]] = at[k] /\ nx[pv[k]] = k
          /\ pv[k] \in Mutexes
      BY <1>5, <3>1, <3>2 DEF Lists, Link
    <3>4. pv[k] # m
      BY <1>5, <3>1, <3>3
    <3>5. QED
      BY <3>1, <3>3, <3>4 DEF Lists
  <2>4. QED
    BY <2>1, <2>2, <2>3
<1>6. QED
  BY <1>2, <1>3, <1>4, <1>5 DEF Lists

\* Take m out of the list it is on.
Unlinked(own, at, nx, pv, head, t, i, m, own2, nx2, pv2, head2) ==
  /\ own[m] = t /\ at[m] = i
  /\ own2 = [own EXCEPT ![m] = None]
  /\ nx2 = IF pv[m] # None THEN [nx EXCEPT ![pv[m]] = nx[m]] ELSE nx
  /\ pv2 = [k \in Mutexes |-> IF k = nx[m] THEN pv[m] ELSE pv[k]]
  /\ head2 \in [Threads -> [Int -> Link]]
  /\ \A u \in Threads, j \in Int :
       head2[u][j] = IF u = t /\ j = i /\ pv[m] = None THEN nx[m] ELSE head[u][j]

LEMMA OutOfList ==
  ASSUME NEW own, NEW at, NEW pos, NEW nx, NEW pv, NEW head,
         Lists(own, at, pos, nx, pv, head), NEW t \in Threads, NEW i \in Nat, NEW m \in Mutexes,
         NEW own2, NEW nx2, NEW pv2, NEW head2,
         Unlinked(own, at, nx, pv, head, t, i, m, own2, nx2, pv2, head2)
  PROVE  Lists(own2, at, pos, nx2, pv2, head2)
<1> USE DEF Unlinked
<1>1. m # None /\ t # None /\ None \notin Mutexes /\ i # -1 /\ i \in Int
  BY ThreadsAssumption, LocksAssumption
<1>2. /\ pv[m] = None <=> m = head[t][i]
      /\ pv[m] # None => /\ pv[m] \in Mutexes /\ own[pv[m]] = t /\ at[pv[m]] = i
                        /\ nx[pv[m]] = m /\ pos[pv[m]] < pos[m]
  BY <1>1 DEF Lists, Link
<1>3. nx[m] # None => /\ nx[m] \in Mutexes /\ own[nx[m]] = t /\ at[nx[m]] = i
                      /\ pv[nx[m]] = m /\ pos[m] < pos[nx[m]]
  BY <1>1 DEF Lists, Link
<1>4. \A k \in Mutexes : pos[k] \in Nat
  BY DEF Lists
<1>5. nx[m] # m /\ pv[m] # m
  BY <1>1, <1>2, <1>3, <1>4
<1>6. /\ own2 \in [Mutexes -> Threads \cup {None}]
      /\ nx2 \in [Mutexes -> Link] /\ pv2 \in [Mutexes -> Link]
  BY <1>1, <1>2 DEF Lists, Link
<1>7. /\ \A k \in Mutexes : own2[k] = IF k = m THEN None ELSE own[k]
      /\ \A k \in Mutexes : nx2[k] = IF pv[m] # None /\ k = pv[m] THEN nx[m] ELSE nx[k]
      /\ \A k \in Mutexes : pv2[k] = IF k = nx[m] THEN pv[m] ELSE pv[k]
  BY <1>2 DEF Lists
<1>8. ASSUME NEW u \in Threads, NEW j \in Int, head2[u][j] # None
      PROVE  /\ own2[head2[u][j]] = u /\ at[head2[u][j]] = j
             /\ j # -1 => pv2[head2[u][j]] = None
  <2>1. CASE u = t /\ j = i /\ pv[m] = None
    <3>1. head2[u][j] = nx[m] /\ nx[m] # None
      BY <1>8, <2>1
    <3>2. QED
      BY <1>3, <1>5, <1>7, <2>1, <3>1
  <2>2. CASE ~ (u = t /\ j = i /\ pv[m] = None)
    <3>1. head2[u][j] = head[u][j] /\ head[u][j] \in Mutexes /\ own[head[u][j]] = u
          /\ at[head[u][j]] = j /\ (j # -1 => pv[head[u][j]] = None)
      BY <1>8, <2>2 DEF Lists, Link
    <3>2. head[u][j] # m
      BY <1>2, <2>2, <3>1
    <3>3. j # -1 => head[u][j] # nx[m]
      BY <1>3, <3>1, <1>1
    <3>4. QED
      BY <1>7, <3>1, <3>2, <3>3
  <2>3. QED
    BY <2>1, <2>2
<1>9. ASSUME NEW k \in Mutexes, own2[k] # None, nx2[k] # None
      PROVE  /\ own2[nx2[k]] = own2[k] /\ at[nx2[k]] = at[k]
             /\ pv2[nx2[k]] = k /\ pos[k] < pos[nx2[k]]
  <2>1. k # m /\ own2[k] = own[k]
    BY <1>7, <1>9
  <2>2. CASE pv[m] # None /\ k = pv[m]
    <3>1. nx2[k] = nx[m] /\ nx[m] # None
      BY <1>7, <1>9, <2>2
    <3>2. pos[k] < pos[nx[m]]
      BY <1>2, <1>3, <1>4, <2>2, <3>1
    <3>3. QED
      BY <1>2, <1>3, <1>5, <1>7, <2>1, <2>2, <3>1, <3>2
  <2>3. CASE ~ (pv[m] # None /\ k = pv[m])
    <3>1. nx2[k] = nx[k] /\ nx[k] \in Mutexes
      BY <1>7, <1>9, <2>3 DEF Lists, Link
    <3>2. own[nx[k]] = own[k] /\ at[nx[k]] = at[k] /\ pv[nx[k]] = k /\ pos[k] < pos[nx[k]]
      BY <1>1, <1>9, <2>1, <3>1 DEF Lists
    <3>3. nx[k] # m
      BY <1>1, <2>3, <3>2
    <3>4. nx[k] # nx[m]
      BY <1>1, <1>3, <2>1, <3>1, <3>2
    <3>5. QED
      BY <1>7, <2>1, <3>1, <3>2, <3>3, <3>4
  <2>4. QED
    BY <2>2, <2>3
<1>10. ASSUME NEW k \in Mutexes, own2[k] # None, k # head2[own2[k]][at[k]]
       PROVE  /\ pv2[k] # None
              /\ own2[pv2[k]] = own2[k] /\ at[pv2[k]] = at[k] /\ nx2[pv2[k]] = k
  <2>1. k # m /\ own2[k] = own[k] /\ own[k] \in Threads /\ at[k] \in Int
    BY <1>7, <1>10 DEF Lists
  <2>2. CASE k = nx[m]
    <3>1. own[k] = t /\ at[k] = i /\ k # None
      BY <1>1, <1>3, <2>2
    <3>2. pv[m] # None
      BY <1>10, <2>1, <2>2, <3>1
    <3>3. QED
      BY <1>2, <1>5, <1>7, <2>1, <2>2, <3>1, <3>2
  <2>3. CASE k # nx[m]
    <3>1. k # head[own[k]][at[k]]
      <4>1. CASE own[k] = t /\ at[k] = i /\ pv[m] = None
        BY <1>2, <2>1, <4>1
      <4>2. CASE ~ (own[k] = t /\ at[k] = i /\ pv[m] = None)
        BY <1>10, <2>1, <4>2
      <4>3. QED
        BY <4>1, <4>2
    <3>2. /\ pv[k] # None /\ own[pv[k]] = own[k] /\ at[pv[k]] = at[k] /\ nx[pv[k]] = k
          /\ pv[k] \in Mutexes
      BY <1>10, <2>1, <3>1 DEF Lists, Link
    <3>3. pv[k] # m
      BY <2>3, <3>2
    <3>4. pv2[k] = pv[k] /\ (pv[m] # None => pv[k] # pv[m])
      BY <1>2, <1>7, <2>1, <2>3, <3>2
    <3>5. QED
      BY <1>7, <2>1, <3>2, <3>3, <3>4
  <2>4. QED
    BY <2>2, <2>3
<1>11. QED
  BY <1>6, <1>8, <1>9, <1>10 DEF Lists

\* The walk frees the mutex at its head and goes on to the next one.
Passed(own, nx, head, t, m, own2, head2) ==
  /\ m = head[t][-1] /\ own2 = [own EXCEPT ![m] = None]
  /\ head2 \in [Threads -> [Int -> Link]]
  /\ \A u \in Threads, j \in Int :
       head2[u][j] = IF u = t /\ j = -1 THEN nx[m] ELSE head[u][j]

LEMMA WalkedPast ==
  ASSUME NEW own, NEW at, NEW pos, NEW nx, NEW pv, NEW head,
         Lists(own, at, pos, nx, pv, head), NEW t \in Threads, NEW m \in Mutexes,
         NEW own2, NEW head2, Passed(own, nx, head, t, m, own2, head2)
  PROVE  Lists(own2, at, pos, nx, pv, head2)
<1> USE DEF Passed
<1>1. m # None /\ t # None /\ None \notin Mutexes /\ -1 \in Int
  BY ThreadsAssumption, LocksAssumption
<1>2. own[m] = t /\ at[m] = -1
  BY <1>1 DEF Lists
<1>3. nx[m] # None => /\ nx[m] \in Mutexes /\ own[nx[m]] = t /\ at[nx[m]] = -1
                      /\ pv[nx[m]] = m /\ nx[m] # m
  BY <1>1, <1>2 DEF Lists, Link
<1>4. /\ own2 \in [Mutexes -> Threads \cup {None}]
      /\ \A k \in Mutexes : own2[k] = IF k = m THEN None ELSE own[k]
  BY DEF Lists
<1>5. ASSUME NEW u \in Threads, NEW j \in Int, head2[u][j] # None
      PROVE  /\ own2[head2[u][j]] = u /\ at[head2[u][j]] = j
             /\ j # -1 => pv[head2[u][j]] = None
  <2>1. CASE u = t /\ j = -1
    BY <1>3, <1>4, <1>5, <2>1
  <2>2. CASE ~ (u = t /\ j = -1)
    <3>1. head2[u][j] = head[u][j] /\ head[u][j] \in Mutexes /\ own[head[u][j]] = u
          /\ at[head[u][j]] = j /\ (j # -1 => pv[head[u][j]] = None)
      BY <1>5, <2>2 DEF Lists, Link
    <3>2. head[u][j] # m
      BY <1>2, <2>2, <3>1
    <3>3. QED
      BY <1>4, <3>1, <3>2
  <2>3. QED
    BY <2>1, <2>2
<1>6. ASSUME NEW k \in Mutexes, own2[k] # None, nx[k] # None
      PROVE  /\ own2[nx[k]] = own2[k] /\ at[nx[k]] = at[k]
             /\ pv[nx[k]] = k /\ pos[k] < pos[nx[k]]
  <2>1. k # m /\ own2[k] = own[k] /\ nx[k] \in Mutexes
    BY <1>4, <1>6 DEF Lists, Link
  <2>2. own[nx[k]] = own[k] /\ at[nx[k]] = at[k] /\ pv[nx[k]] = k /\ pos[k] < pos[nx[k]]
    BY <1>6, <2>1 DEF Lists
  <2>3. nx[k] # m
    <3>1. SUFFICES ASSUME nx[k] = m
                   PROVE  FALSE
      OBVIOUS
    <3>2. own[k] = t /\ at[k] = -1 /\ pos[k] < pos[m]
      BY <1>2, <2>2, <3>1
    <3>3. pos[m] <= pos[k]
      BY <1>1, <3>2, HeadFirst
    <3>4. pos[m] \in Nat /\ pos[k] \in Nat
      BY DEF Lists
    <3>5. QED
      BY <3>2, <3>3, <3>4
  <2>4. QED
    BY <1>4, <2>1, <2>2, <2>3
<1>7. ASSUME NEW k \in Mutexes, own2[k] # None, k # head2[own2[k]][at[k]]
      PROVE  /\ pv[k] # None
             /\ own2[pv[k]] = own2[k] /\ at[pv[k]] = at[k] /\ nx[pv[k]] = k
  <2>1. k # m /\ own2[k] = own[k] /\ own[k] \in Threads /\ at[k] \in Int
    BY <1>4, <1>7 DEF Lists
  <2>2. k # head[own[k]][at[k]]
    <3>1. CASE own[k] = t /\ at[k] = -1
      BY <2>1, <3>1
    <3>2. CASE ~ (own[k] = t /\ at[k] = -1)
      BY <1>7, <2>1, <3>2
    <3>3. QED
      BY <3>1, <3>2
  <2>3. /\ pv[k] # None /\ own[pv[k]] = own[k] /\ at[pv[k]] = at[k] /\ nx[pv[k]] = k
        /\ pv[k] \in Mutexes
    BY <1>7, <2>1, <2>2 DEF Lists, Link
  <2>4. pv[k] # m
    <3>1. SUFFICES ASSUME pv[k] = m
                   PROVE  FALSE
      OBVIOUS
    <3>2. k = nx[m] /\ own[k] = t /\ at[k] = -1
      BY <1>2, <2>3, <3>1
    <3>3. k = head2[t][-1]
      BY <1>1, <3>2
    <3>4. QED
      BY <1>7, <2>1, <3>2, <3>3
  <2>5. QED
    BY <1>4, <2>1, <2>3, <2>4
<1>8. QED
  BY <1>4, <1>5, <1>6, <1>7 DEF Lists

\* A destructor takes over a list, to walk it.
LEMMA ToTheWalk ==
  ASSUME NEW own, NEW at, NEW pos, NEW nx, NEW pv, NEW head,
         Lists(own, at, pos, nx, pv, head), NEW t \in Threads, NEW i \in Nat,
         head[t][-1] = None,
         NEW at2, at2 = [k \in Mutexes |-> IF own[k] = t /\ at[k] = i THEN -1 ELSE at[k]],
         NEW head2 \in [Threads -> [Int -> Link]],
         \A u \in Threads, j \in Int :
           head2[u][j] = IF u = t /\ j = -1 THEN head[t][i]
                         ELSE IF u = t /\ j = i THEN None ELSE head[u][j]
  PROVE  Lists(own, at2, pos, nx, pv, head2)
<1>1. None \notin Mutexes /\ None \notin Threads /\ -1 \in Int /\ i \in Int /\ i # -1
  BY ThreadsAssumption, LocksAssumption
<1>2. /\ at2 \in [Mutexes -> Int]
      /\ \A k \in Mutexes : at2[k] = IF own[k] = t /\ at[k] = i THEN -1 ELSE at[k]
  BY <1>1 DEF Lists
<1>3. \A k \in Mutexes : ~ (own[k] = t /\ at[k] = -1)
  BY <1>1, NoHead
<1>4. ASSUME NEW u \in Threads, NEW j \in Int, head2[u][j] # None
      PROVE  /\ own[head2[u][j]] = u /\ at2[head2[u][j]] = j
             /\ j # -1 => pv[head2[u][j]] = None
  <2>1. CASE u = t /\ j = -1
    <3>1. head2[u][j] = head[t][i] /\ head[t][i] \in Mutexes
      BY <1>4, <2>1 DEF Lists, Link
    <3>2. QED
      BY <1>1, <1>2, <1>4, <2>1, <3>1 DEF Lists
  <2>2. CASE ~ (u = t /\ j = -1)
    <3>1. head2[u][j] = head[u][j] /\ ~ (u = t /\ j = i) /\ head[u][j] \in Mutexes
      BY <1>4, <2>2 DEF Lists, Link
    <3>2. /\ own[head[u][j]] = u /\ at[head[u][j]] = j
          /\ (j # -1 => pv[head[u][j]] = None)
      BY <1>4, <3>1 DEF Lists
    <3>3. QED
      BY <1>2, <3>1, <3>2
  <2>3. QED
    BY <2>1, <2>2
<1>5. ASSUME NEW k \in Mutexes, own[k] # None, nx[k] # None
      PROVE  /\ own[nx[k]] = own[k] /\ at2[nx[k]] = at2[k]
             /\ pv[nx[k]] = k /\ pos[k] < pos[nx[k]]
  BY <1>2, <1>5 DEF Lists, Link
<1>6. ASSUME NEW k \in Mutexes, own[k] # None, k # head2[own[k]][at2[k]]
      PROVE  /\ pv[k] # None
             /\ own[pv[k]] = own[k] /\ at2[pv[k]] = at2[k] /\ nx[pv[k]] = k
  <2>1. own[k] \in Threads /\ at[k] \in Int
    BY <1>6 DEF Lists
  <2>2. k # head[own[k]][at[k]]
    BY <1>1, <1>2, <1>3, <1>6, <2>1
  <2>3. /\ pv[k] # None /\ own[pv[k]] = own[k] /\ at[pv[k]] = at[k] /\ nx[pv[k]] = k
        /\ pv[k] \in Mutexes
    BY <1>6, <2>2 DEF Lists, Link
  <2>4. QED
    BY <1>2, <2>3
<1>7. QED
  BY <1>2, <1>4, <1>5, <1>6 DEF Lists

\* What a list has is what is reached through next.
LEMMA ReachedIs ==
  ASSUME NEW own, NEW at, NEW pos, NEW pv, NEW head,
         Lists(own, at, pos, next, pv, head), NEW t \in Threads, NEW i \in Int
  PROVE  ListOf(head[t][i]) = {m \in Mutexes : own[m] = t /\ at[m] = i}
<1> DEFINE P == {m \in Mutexes : own[m] = t /\ at[m] = i}
<1>1. head[t][i] \in P \cup {None} /\ \A j \in P : next[j] \in P \cup {None}
  BY ThreadsAssumption DEF Lists, Link
<1>2. ASSUME NEW m \in ListOf(head[t][i])
      PROVE  m \in P
  <2>1. P \in SUBSET Mutexes
    OBVIOUS
  <2> HIDE DEF P
  <2>2. QED
    BY <1>1, <1>2, <2>1 DEF ListOf
<1>3. ASSUME NEW m \in P, NEW S \in SUBSET Mutexes, head[t][i] \in S \cup {None},
             \A j \in S : next[j] \in S \cup {None}
      PROVE  m \in S
  BY <1>3, WholeList
<1>4. ASSUME NEW m \in P
      PROVE  m \in ListOf(head[t][i])
  <2>1. m \in Mutexes
    BY <1>4
  <2> HIDE DEF P
  <2>2. QED
    BY <1>3, <1>4, <2>1 DEF ListOf
<1>5. QED
  BY <1>2, <1>4

-----------------------------------------------------------------------------
(* The stacks, and who stores an owner                                      *)

\* Only an entry of a method names one, only a method or a load has a list, and
\* the scope of a table is the base.
EntriesFine(s) ==
  \A i \in 1 .. Len(s) :
    /\ s[i].kind = "scope" => i = 1
    /\ s[i].kind \notin {"call", "method"} => s[i].method = None
    /\ s[i].kind \notin {"method", "load"} => s[i].link = None

\* No call has a lock that is not yet its method's.
NonePending(s) ==
  \A i \in 1 .. Len(s) : s[i].kind = "call" => s[i].method \notin Serialized

\* The thread throws entries away.
Discarding(t) ==
  \/ pc[t] \in {"unwind", "teardown"}
  \/ pc[t] = "walk" /\ back[t] \in {"unwind", "teardown"}

\* A thread without an interpreter has no entry, an interpreter that was started on a
\* method has no list of its own, and what is thrown away has no pending lock.
StackFine(t) ==
  /\ EntriesFine(stack[t])
  /\ pc[t] \in {"idle", "invokeStore"} => Depth(t) = 0 /\ globalLink[t] = None
  /\ Depth(t) > 0 /\ stack[t][1].kind = "method" => globalLink[t] = None
  /\ Discarding(t) => NonePending(stack[t])
  /\ pc[t] \notin {"releaseClear", "serialClear", "walkClear"}

\* The thread has taken l and has not stored itself as the owner.
Storing(t, l) == pc[t] \in {"invokeStore", "callStore", "acquireStore"} /\ op[t] = l

\* Outside of that window the owner is the holder.
OwnersOK ==
  \A l \in Locks, t \in Threads :
    /\ owner[l] = t => holder[l] = t
    /\ holder[l] = t /\ owner[l] # t => Storing(t, l)
    /\ Storing(t, l) => holder[l] = t /\ owner[l] # t

\* A thread changes nothing that is another thread's own.
LEMMA OthersKept ==
  ASSUME TypeOK, NEW t \in Threads, Aml(t) \/ Interpret(t), NEW u \in Threads \ {t}
  PROVE  /\ stack'[u] = stack[u] /\ globalLink'[u] = globalLink[u]
         /\ pc'[u] = pc[u] /\ op'[u] = op[u] /\ cur'[u] = cur[u] /\ back'[u] = back[u]
<1> USE DEF TypeOK, lockVars, listVars, walkVars, Push, Pop, Put
<1>1. ASSUME NEW m, SetLink(t, m)
      PROVE  stack'[u] = stack[u] /\ globalLink'[u] = globalLink[u]
  BY <1>1 DEF SetLink
<1>2. ASSUME NEW f, NEW k, NEW at, EnterMethod(t, f, k, at)
      PROVE  stack'[u] = stack[u] /\ pc'[u] = pc[u] /\ op'[u] = op[u]
  BY <1>2 DEF EnterMethod, OsLock
<1>3. ASSUME NEW k, NEW at, EnterStore(t, k, at)
      PROVE  /\ stack'[u] = stack[u] /\ globalLink'[u] = globalLink[u]
             /\ pc'[u] = pc[u] /\ op'[u] = op[u] /\ cur'[u] = cur[u] /\ back'[u] = back[u]
  BY <1>3 DEF EnterStore
<1>4. ASSUME NEW e, NEW b, Destroy(t, e, b)
      PROVE  pc'[u] = pc[u] /\ op'[u] = op[u] /\ cur'[u] = cur[u] /\ back'[u] = back[u]
  BY <1>4 DEF Destroy, OsUnlock
<1>5. CASE Execute(t) \/ Load(t) \/ OpenBlock(t) \/ Fail(t) \/ Abort(t) \/ Call(t)
           \/ CloseBlock(t) \/ ScopeEnd(t)
  BY <1>5 DEF Execute, Load, OpenBlock, Fail, Abort, Call, CloseBlock, ScopeEnd
<1>6. ASSUME NEW f \in Methods, Invoke(t, f) \/ BeginCall(t, f)
      PROVE  /\ stack'[u] = stack[u] /\ globalLink'[u] = globalLink[u]
             /\ pc'[u] = pc[u] /\ op'[u] = op[u] /\ cur'[u] = cur[u] /\ back'[u] = back[u]
  BY <1>2, <1>6 DEF Invoke, BeginCall
<1>7. ASSUME NEW m \in Mutexes, Acquire(t, m)
      PROVE  /\ stack'[u] = stack[u] /\ globalLink'[u] = globalLink[u]
             /\ pc'[u] = pc[u] /\ op'[u] = op[u] /\ cur'[u] = cur[u] /\ back'[u] = back[u]
  BY <1>7 DEF Acquire, OsLock
<1>8. ASSUME NEW m \in Mutexes, Release(t, m)
      PROVE  /\ stack'[u] = stack[u] /\ globalLink'[u] = globalLink[u]
             /\ pc'[u] = pc[u] /\ op'[u] = op[u] /\ cur'[u] = cur[u] /\ back'[u] = back[u]
  <2>1. Unlink(t, m) => stack'[u] = stack[u] /\ globalLink'[u] = globalLink[u]
    BY <1>1 DEF Unlink
  <2>2. QED
    BY <1>8, <2>1 DEF Release, OsUnlock
<1>9. CASE MethodEnd(t) \/ UnwindFrame(t) \/ TeardownFrame(t)
  BY <1>4, <1>9 DEF MethodEnd, UnwindFrame, TeardownFrame
<1>10. CASE InvokeStore(t) \/ CallStore(t)
  BY <1>3, <1>10 DEF InvokeStore, CallStore
<1>11. CASE AcquireStore(t)
  BY <1>1, <1>11 DEF AcquireStore
<1>12. CASE ReleaseClear(t) \/ SerialClear(t) \/ WalkClear(t)
  BY <1>12 DEF ReleaseClear, SerialClear, WalkClear, ClearOwner
<1>13. CASE Walk(t)
  BY <1>13 DEF Walk, OsUnlock
<1>14. CASE UnwindDone(t) \/ UnwindDrop(t) \/ TeardownList(t) \/ TeardownDone(t)
  BY <1>14 DEF UnwindDone, UnwindDrop, TeardownList, TeardownDone
<1>15. QED
  BY <1>5, <1>6, <1>7, <1>8, <1>9, <1>10, <1>11, <1>12, <1>13, <1>14 DEF Aml, Interpret

\* The entries of w are the first ones of s.
Prefix(w, s) == Len(w) \in 0 .. Len(s) /\ \A i \in 1 .. Len(w) : w[i] = s[i]

\* w is s with an entry on top that has no list yet.
Grown(w, s, e) ==
  /\ Len(w) = Len(s) + 1 /\ w[Len(w)] = e
  /\ \A i \in 1 .. Len(s) : w[i] = s[i]
  /\ e.link = None
  /\ e.kind \in {"call", "method"} \/ e.method = None
  /\ e.kind = "scope" => Len(s) = 0

\* w is s with another entry at k.
Replaced(w, s, k, e) ==
  /\ Len(w) = Len(s)
  /\ \A i \in 1 .. Len(s) : w[i] = IF i = k THEN e ELSE s[i]

LEMMA PushGrows ==
  ASSUME TypeOK, NEW t \in Threads, NEW k \in Kinds, NEW f \in Methods \cup {None},
         Push(t, NewEntry(k, f)), k \in {"call", "method"} \/ f = None,
         k = "scope" => Len(stack[t]) = 0
  PROVE  Grown(stack'[t], stack[t], NewEntry(k, f))
<1>1. NewEntry(k, f) \in Entry /\ NewEntry(k, f).kind = k /\ NewEntry(k, f).method = f
      /\ NewEntry(k, f).link = None
  BY DEF NewEntry, Entry, Link
<1>2. PICK e : e = NewEntry(k, f)
  OBVIOUS
<1>3. /\ Len(stack'[t]) = Len(stack[t]) + 1
      /\ \A i \in 1 .. Len(stack[t]) : stack'[t][i] = stack[t][i]
      /\ stack'[t][Len(stack[t]) + 1] = e
  BY <1>1, <1>2, PushStack
<1>4. QED
  BY <1>1, <1>2, <1>3 DEF Grown

LEMMA PopShrinks ==
  ASSUME TypeOK, NEW t \in Threads, Depth(t) > 0, Pop(t)
  PROVE  Prefix(stack'[t], stack[t]) /\ Len(stack'[t]) = Len(stack[t]) - 1
<1>1. Len(stack[t]) \in Nat /\ Len(stack[t]) > 0
  BY DEF TypeOK, Depth
<1>2. /\ Len(stack'[t]) = Len(stack[t]) - 1
      /\ \A i \in 1 .. Len(stack[t]) - 1 : stack'[t][i] = stack[t][i]
  BY PopStack
<1>3. QED
  BY <1>1, <1>2 DEF Prefix

LEMMA PutReplaces ==
  ASSUME TypeOK, NEW t \in Threads, NEW i \in 1 .. Len(stack[t]), NEW e \in Entry, Put(t, i, e)
  PROVE  Replaced(stack'[t], stack[t], i, e)
BY PutStack DEF Replaced

\* The head of the current list changes in a method's frame, or else the interpreter's.
LEMMA SetLinkReplaces ==
  ASSUME TypeOK, NEW t \in Threads, NEW m \in Link, SetLink(t, m)
  PROVE  \/ /\ MethodFrames(t) = {} /\ stack' = stack
            /\ globalLink' = [globalLink EXCEPT ![t] = m]
         \/ /\ MethodFrames(t) # {} /\ globalLink' = globalLink
            /\ Innermost(t) \in MethodFrames(t)
            /\ Replaced(stack'[t], stack[t], Innermost(t),
                        [stack[t][Innermost(t)] EXCEPT !.link = m])
<1>1. CASE MethodFrames(t) = {}
  BY <1>1 DEF SetLink
<1>2. CASE MethodFrames(t) # {}
  <2>1. PICK i : i = Innermost(t)
    OBVIOUS
  <2>2. i \in MethodFrames(t) /\ i \in 1 .. Len(stack[t]) /\ stack[t][i] \in Entry
    BY <1>2, <2>1, InnermostIn
  <2>3. PICK e : e = [stack[t][i] EXCEPT !.link = m]
    OBVIOUS
  <2>4. e \in Entry
    BY <2>2, <2>3 DEF Entry
  <2>5. Put(t, i, e) /\ globalLink' = globalLink
    BY <1>2, <2>1, <2>3 DEF SetLink
  <2>6. Replaced(stack'[t], stack[t], i, e)
    BY <2>2, <2>4, <2>5, PutReplaces
  <2>7. QED
    BY <1>2, <2>1, <2>2, <2>3, <2>5, <2>6
<1>3. QED
  BY <1>1, <1>2

\* The base of a method's interpreter stays while its list or lists of frames change.
LEMMA FinePrefix ==
  ASSUME NEW s, NEW w, Len(s) \in Nat, Prefix(w, s), EntriesFine(s)
  PROVE  EntriesFine(w) /\ (NonePending(s) => NonePending(w))
BY DEF Prefix, EntriesFine, NonePending

LEMMA FineGrown ==
  ASSUME NEW s, NEW w, NEW e, Len(s) \in Nat, Grown(w, s, e), EntriesFine(s)
  PROVE  EntriesFine(w)
BY DEF Grown, EntriesFine

LEMMA StackFineStep ==
  ASSUME TypeOK, ControlOK, BaseOK, AtomicUnlock, "argError" \notin AmlMay,
         NEW t \in Threads, Aml(t) \/ Interpret(t), StackFine(t)
  PROVE  StackFine(t)'
<1>1. /\ stack[t] \in Seq(Entry) /\ Len(stack[t]) \in Nat /\ Depth(t) = Len(stack[t])
      /\ Depth(t)' = Len(stack'[t])
      /\ stack \in [Threads -> Seq(Entry)] /\ pc \in [Threads -> PCs]
      /\ globalLink \in [Threads -> Link] /\ back \in [Threads -> {"run", "unwind", "teardown"}]
      /\ None \notin Methods /\ Serialized \subseteq Methods
  BY LocksAssumption DEF TypeOK, Depth
<1>2. /\ EntriesFine(stack[t])
      /\ pc[t] \in {"idle", "invokeStore"} => Len(stack[t]) = 0 /\ globalLink[t] = None
      /\ Len(stack[t]) > 0 /\ stack[t][1].kind = "method" => globalLink[t] = None
      /\ Discarding(t) => NonePending(stack[t])
      /\ pc[t] \notin {"releaseClear", "serialClear", "walkClear"}
  BY <1>1 DEF StackFine
<1>3. Len(stack[t]) > 0 => stack[t][1].kind \notin {"call", "block", "load"}
  BY <1>1 DEF BaseOK
<1>4. pc[t] \in {"run", "callStore", "acquireStore", "unwind"} => Len(stack[t]) > 0
  BY <1>1 DEF ControlOK
\* An entry goes on top, while the thread runs.
<1>5. ASSUME NEW k \in {"scope", "call", "method", "load", "block"}, NEW f \in Methods \cup {None},
             Push(t, NewEntry(k, f)), k \in {"call", "method"} \/ f = None,
             k = "scope" => Len(stack[t]) = 0, Len(stack[t]) = 0 => globalLink[t] = None,
             globalLink' = globalLink, pc'[t] = "run"
      PROVE  StackFine(t)'
  <2>1. PICK e, w : e = NewEntry(k, f) /\ w = stack'[t]
    OBVIOUS
  <2>2. Grown(w, stack[t], e)
    BY <1>5, <2>1, PushGrows DEF Kinds
  <2>3. EntriesFine(w)
    BY <1>1, <1>2, <2>2, FineGrown
  <2>4. w[1].kind = "method" => globalLink[t] = None
    <3>1. CASE Len(stack[t]) = 0
      BY <1>5, <3>1
    <3>2. CASE Len(stack[t]) # 0
      <4>1. w[1] = stack[t][1]
        BY <1>1, <2>2, <3>2 DEF Grown
      <4>2. QED
        BY <1>1, <1>2, <3>2, <4>1
    <3>3. QED
      BY <3>1, <3>2
  <2>5. QED
    BY <1>5, <2>1, <2>3, <2>4 DEF StackFine, Discarding
\* The stack stays, or loses entries.
<1>6. ASSUME Prefix(stack'[t], stack[t]), globalLink'[t] = globalLink[t] \/ globalLink'[t] = None,
             pc'[t] \in {"run", "callStore", "acquireStore", "walk", "unwind", "teardown"},
             Discarding(t)' => NonePending(stack'[t])
      PROVE  StackFine(t)'
  <2>1. PICK w, z : w = stack'[t] /\ z = stack[t]
    OBVIOUS
  <2>2. Prefix(w, z) /\ Len(z) \in Nat /\ EntriesFine(z)
    BY <1>1, <1>2, <1>6, <2>1
  <2>3. EntriesFine(w)
    BY <2>2, FinePrefix
  <2>4. Len(w) > 0 => w[1] = z[1] /\ Len(z) > 0
    BY <2>2 DEF Prefix
  <2>5. QED
    BY <1>1, <1>2, <1>6, <2>1, <2>3, <2>4 DEF StackFine
\* The head of a list changes.
<1>7. ASSUME NEW m \in Link, SetLink(t, m), pc'[t] = "run"
      PROVE  StackFine(t)'
  <2>1. CASE MethodFrames(t) = {} /\ stack' = stack /\ globalLink' = [globalLink EXCEPT ![t] = m]
    <3>1. Len(stack[t]) > 0 => stack[t][1].kind # "method"
      BY <1>1, <2>1 DEF MethodFrames
    <3>2. QED
      BY <1>1, <1>2, <1>7, <2>1, <3>1 DEF StackFine, Discarding
  <2>2. ASSUME NEW i \in MethodFrames(t), globalLink' = globalLink,
               Replaced(stack'[t], stack[t], i, [stack[t][i] EXCEPT !.link = m])
        PROVE  StackFine(t)'
    <3>1. PICK w, z : w = stack'[t] /\ z = stack[t]
      OBVIOUS
    <3>2. i \in 1 .. Len(z) /\ z[i].kind \in {"method", "load"} /\ z[i] \in Entry
      BY <1>1, <3>1 DEF MethodFrames
    <3>3. PICK e : e = [z[i] EXCEPT !.link = m]
      OBVIOUS
    <3>4. e.kind = z[i].kind /\ e.method = z[i].method
      BY <3>2, <3>3 DEF Entry
    <3>5. Len(w) = Len(z) /\ \A j \in 1 .. Len(z) : w[j] = IF j = i THEN e ELSE z[j]
      BY <2>2, <3>1, <3>3 DEF Replaced
    <3>6. EntriesFine(w)
      BY <1>2, <3>1, <3>2, <3>4, <3>5 DEF EntriesFine
    <3>7. Len(w) > 0 => w[1].kind = z[1].kind
      BY <1>1, <3>1, <3>4, <3>5
    <3>8. QED
      BY <1>1, <1>2, <1>7, <2>2, <3>1, <3>5, <3>6, <3>7 DEF StackFine, Discarding
  <2>3. QED
    BY <1>7, <2>1, <2>2, SetLinkReplaces
<1>8. ASSUME stack'[t] = stack[t]
      PROVE  Prefix(stack'[t], stack[t])
  BY <1>1, <1>8 DEF Prefix
<1>9. CASE Execute(t) \/ Load(t) \/ OpenBlock(t)
  <2>1. /\ Execute(t) => pc[t] = "idle" /\ Push(t, NewEntry("scope", None))
        /\ Load(t) => pc[t] = "run" /\ Push(t, NewEntry("load", None))
        /\ OpenBlock(t) => pc[t] = "run" /\ Push(t, NewEntry("block", None))
    BY DEF Execute, Load, OpenBlock
  <2>2. globalLink' = globalLink /\ pc'[t] = "run"
    BY <1>1, <1>9, <2>1 DEF Execute, Load, OpenBlock
  <2>3. QED
    BY <1>2, <1>4, <1>5, <1>9, <2>1, <2>2
<1>10. ASSUME NEW f \in Methods, Invoke(t, f) \/ BeginCall(t, f)
       PROVE  StackFine(t)'
  <2>1. PICK k \in {"call", "method"}, at \in {"invokeStore", "callStore"} :
          /\ EnterMethod(t, f, k, at) /\ globalLink' = globalLink
          /\ \/ pc[t] = "idle" /\ at = "invokeStore"
             \/ pc[t] = "run" /\ at = "callStore"
    BY <1>10 DEF Invoke, BeginCall, listVars, walkVars
  <2>2. CASE Push(t, NewEntry(k, f)) /\ pc' = [pc EXCEPT ![t] = "run"]
    <3>1. pc'[t] = "run" /\ (Len(stack[t]) = 0 => globalLink[t] = None)
      BY <1>1, <1>2, <1>4, <2>1, <2>2
    <3>2. k # "scope" /\ k \in {"scope", "call", "method", "load", "block"}
      OBVIOUS
    <3>3. QED
      BY <1>5, <2>1, <2>2, <3>1, <3>2
  <2>3. CASE OsLock(t, f, at) /\ UNCHANGED stack
    <3>1. pc'[t] = at /\ stack'[t] = stack[t]
      BY <1>1, <2>3 DEF OsLock
    <3>2. CASE at = "callStore"
      BY <1>6, <1>8, <2>1, <3>1, <3>2 DEF Discarding
    <3>3. CASE at = "invokeStore"
      BY <1>1, <1>2, <2>1, <3>1, <3>3 DEF StackFine, Discarding
    <3>4. QED
      BY <3>2, <3>3
  <2>4. QED
    BY <2>1, <2>2, <2>3 DEF EnterMethod
<1>11. CASE InvokeStore(t) \/ CallStore(t)
  <2>1. PICK k \in {"call", "method"} :
          /\ Push(t, NewEntry(k, op[t])) /\ globalLink' = globalLink
          /\ pc' = [pc EXCEPT ![t] = "run"] /\ pc[t] \in {"invokeStore", "callStore"}
    BY <1>11 DEF InvokeStore, CallStore, EnterStore
  <2>2. op[t] \in Methods
    BY <1>1, <2>1 DEF ControlOK
  <2>3. pc'[t] = "run" /\ (Len(stack[t]) = 0 => globalLink[t] = None)
    BY <1>1, <1>2, <1>4, <2>1
  <2>4. k # "scope" /\ k \in {"scope", "call", "method", "load", "block"}
    OBVIOUS
  <2>5. QED
    BY <1>5, <2>1, <2>2, <2>3, <2>4
<1>12. CASE Call(t)
  <2>1. pc[t] = "run" /\ Len(stack[t]) > 0 /\ globalLink' = globalLink /\ Top(t) = stack[t][Len(stack[t])]
        /\ Top(t).kind = "call"
    BY <1>4, <1>12 DEF Call, Top, Depth
  <2>2. CASE Put(t, Depth(t), [Top(t) EXCEPT !.kind = "method"]) /\ UNCHANGED pc
    <3>1. PICK w, z, n : w = stack'[t] /\ z = stack[t] /\ n = Len(stack[t])
      OBVIOUS
    <3>2. n \in 1 .. Len(z) /\ n = Len(z) /\ z[n] \in Entry
      BY <1>1, <2>1, <3>1, ElementOfSeq
    <3>3. PICK e : e = [z[n] EXCEPT !.kind = "method"]
      OBVIOUS
    <3>4. e \in Entry /\ e.kind = "method" /\ e.method = z[n].method /\ e.link = z[n].link
      BY <3>2, <3>3 DEF Entry, Kinds
    <3>5. Replaced(w, z, n, e)
      <4>1. Put(t, n, e) /\ n \in 1 .. Len(stack[t])
        BY <1>1, <2>1, <2>2, <3>1, <3>2, <3>3
      <4>2. QED
        BY <3>1, <3>4, <4>1, PutReplaces
    <3>6. EntriesFine(w)
      BY <1>2, <2>1, <3>1, <3>2, <3>4, <3>5 DEF EntriesFine, Replaced
    <3>7. w[1] = z[1]
      <4>1. n # 1
        BY <1>1, <1>3, <2>1, <3>1
      <4>2. QED
        BY <3>2, <3>5, <4>1 DEF Replaced
    <3>8. pc'[t] = "run"
      BY <2>1, <2>2
    <3>9. QED
      BY <1>1, <1>2, <2>1, <3>1, <3>5, <3>6, <3>7, <3>8 DEF StackFine, Discarding, Replaced
  <2>3. CASE NoLockPending(t) /\ Pop(t) /\ pc' = [pc EXCEPT ![t] = "unwind"]
    <3>1. PICK w, z : w = stack'[t] /\ z = stack[t]
      OBVIOUS
    <3>2. Prefix(w, z)
      BY <1>1, <2>1, <2>3, <3>1, PopShrinks
    <3>3. NonePending(z)
      BY <1>1, <2>3, <3>1 DEF NoLockPending, NonePending
    <3>4. NonePending(w)
      BY <1>1, <1>2, <3>1, <3>2, <3>3, FinePrefix
    <3>5. pc'[t] = "unwind" /\ globalLink'[t] = globalLink[t]
      BY <1>1, <2>1, <2>3
    <3>6. QED
      BY <1>6, <3>1, <3>2, <3>4, <3>5
  <2>4. QED
    BY <1>12, <2>2, <2>3 DEF Call
\* An entry is taken off while nothing is thrown away, or only what has no pending lock.
<1>13. ASSUME Pop(t), Len(stack[t]) > 0, globalLink' = globalLink,
              pc'[t] \in {"run", "walk", "unwind", "teardown"},
              Discarding(t)' => Discarding(t) \/ Len(stack[t]) = 1
       PROVE  StackFine(t)'
  <2>1. PICK w, z : w = stack'[t] /\ z = stack[t]
    OBVIOUS
  <2>2. Prefix(w, z) /\ Len(w) = Len(z) - 1
    BY <1>1, <1>13, <2>1, PopShrinks
  <2>3. NonePending(z) => NonePending(w)
    BY <1>1, <1>2, <2>1, <2>2, FinePrefix
  <2>4. Len(z) = 1 => NonePending(w)
    BY <2>2 DEF NonePending
  <2>5. QED
    BY <1>2, <1>6, <1>13, <2>1, <2>2, <2>3, <2>4
<1>14. CASE CloseBlock(t) \/ ScopeEnd(t) \/ UnwindDrop(t)
  <2>1. Pop(t) /\ globalLink' = globalLink /\ Len(stack[t]) > 0
    BY <1>4, <1>14 DEF CloseBlock, ScopeEnd, UnwindDrop
  <2>2. CASE CloseBlock(t)
    <3>1. pc'[t] = "run"
      BY <1>1, <2>2 DEF CloseBlock
    <3>2. QED
      BY <1>13, <2>1, <3>1 DEF Discarding
  <2>3. CASE ScopeEnd(t)
    <3>1. pc'[t] = "teardown" /\ stack[t][Len(stack[t])].kind = "scope"
      BY <1>1, <2>3 DEF ScopeEnd, Top
    <3>2. Len(stack[t]) = 1
      BY <1>1, <1>2, <2>1, <3>1 DEF EntriesFine
    <3>3. QED
      BY <1>13, <2>1, <3>1, <3>2
  <2>4. CASE UnwindDrop(t)
    <3>1. pc'[t] = "unwind" /\ Discarding(t)
      BY <1>1, <2>4 DEF UnwindDrop, Discarding
    <3>2. QED
      BY <1>13, <2>1, <3>1
  <2>5. QED
    BY <1>14, <2>2, <2>3, <2>4
\* A destructor begins.
<1>15. ASSUME NEW e, NEW b, Destroy(t, e, b)
       PROVE  pc'[t] = "walk" /\ back'[t] = b
  BY <1>1, <1>15 DEF Destroy, OsUnlock
<1>16. CASE MethodEnd(t) \/ UnwindFrame(t)
  <2>1. Pop(t) /\ globalLink' = globalLink /\ Len(stack[t]) > 0
    BY <1>4, <1>16 DEF MethodEnd, UnwindFrame
  <2>2. CASE MethodEnd(t)
    <3>1. pc'[t] = "walk" /\ back'[t] = IF Len(stack[t]) = 1 THEN "teardown" ELSE "run"
      BY <1>1, <1>15, <2>2 DEF MethodEnd
    <3>2. QED
      BY <1>13, <2>1, <3>1 DEF Discarding
  <2>3. CASE UnwindFrame(t)
    <3>1. pc'[t] = "walk" /\ Discarding(t)
      BY <1>15, <2>3 DEF UnwindFrame, Discarding
    <3>2. QED
      BY <1>13, <2>1, <3>1
  <2>4. QED
    BY <1>16, <2>2, <2>3
<1>17. CASE Fail(t)
  <2>1. stack' = stack /\ globalLink' = globalLink /\ pc'[t] \in {"unwind", "teardown"}
    BY <1>1, <1>17 DEF Fail
  <2>2. NonePending(stack[t])
    BY <1>1, <1>17 DEF Fail, NoLockPending, NonePending
  <2>3. QED
    BY <1>6, <1>8, <2>1, <2>2
<1>18. ASSUME NEW m \in Mutexes, Acquire(t, m)
       PROVE  StackFine(t)'
  <2>1. stack' = stack /\ globalLink' = globalLink /\ pc'[t] \in {"run", "acquireStore"}
    BY <1>1, <1>18 DEF Acquire, OsLock
  <2>2. QED
    BY <1>6, <1>8, <2>1 DEF Discarding
<1>19. CASE AcquireStore(t)
  <2>1. PICK m : m = op[t]
    OBVIOUS
  <2>2. m \in Link /\ SetLink(t, m) /\ pc'[t] = "run"
    BY <1>1, <1>19, <2>1 DEF AcquireStore, ControlOK, Link
  <2>3. QED
    BY <1>7, <2>2
<1>20. ASSUME NEW m \in Mutexes, Release(t, m)
       PROVE  StackFine(t)'
  <2>1. pc'[t] = "run"
    BY <1>1, <1>20 DEF Release, OsUnlock
  <2>2. CASE UNCHANGED <<stack, globalLink>>
    BY <1>6, <1>8, <2>1, <2>2 DEF Discarding
  <2>3. CASE Unlink(t, m)
    <3>1. PICK h : h = next[m]
      OBVIOUS
    <3>2. h \in Link
      BY <3>1 DEF TypeOK
    <3>3. SetLink(t, h) \/ UNCHANGED <<stack, globalLink>>
      BY <2>3, <3>1 DEF Unlink
    <3>4. QED
      BY <1>7, <2>1, <2>2, <3>2, <3>3
  <2>4. QED
    BY <1>20, <2>2, <2>3 DEF Release, listVars
<1>21. CASE Walk(t) \/ UnwindDone(t) \/ TeardownList(t)
  <2>1. stack' = stack /\ globalLink'[t] \in {globalLink[t], None}
    BY <1>1, <1>21 DEF Walk, UnwindDone, TeardownList
  <2>2. pc'[t] \in {"run", "unwind", "teardown", "walk"}
    BY <1>1, <1>21 DEF Walk, UnwindDone, TeardownList, OsUnlock
  <2>3. Discarding(t)' => Discarding(t)
    <3>1. CASE Walk(t)
      BY <1>1, <3>1 DEF Walk, Discarding, OsUnlock
    <3>2. CASE UnwindDone(t) \/ TeardownList(t)
      BY <1>1, <3>2 DEF UnwindDone, TeardownList, Discarding
    <3>3. QED
      BY <1>21, <3>1, <3>2
  <2>4. QED
    BY <1>2, <1>6, <1>8, <2>1, <2>2, <2>3
<1>22. CASE TeardownFrame(t)
  <2>1. pc'[t] = "walk" /\ globalLink' = globalLink /\ Discarding(t)
    BY <1>15, <1>22 DEF TeardownFrame, Discarding
  <2>2. PICK i \in MethodFrames(t) : Put(t, i, NewEntry("dead", None))
    BY <1>22 DEF TeardownFrame
  <2>3. PICK e, w, z : e = NewEntry("dead", None) /\ w = stack'[t] /\ z = stack[t]
    OBVIOUS
  <2>4. e \in Entry /\ e.kind = "dead" /\ e.method = None /\ e.link = None /\ i \in 1 .. Len(z)
    BY <1>1, <2>3 DEF NewEntry, Entry, Kinds, Link, MethodFrames
  <2>5. Replaced(w, z, i, e)
    BY <2>2, <2>3, <2>4, PutReplaces
  <2>6. EntriesFine(w) /\ (NonePending(z) => NonePending(w))
    BY <1>2, <2>3, <2>4, <2>5 DEF EntriesFine, NonePending, Replaced
  <2>7. Len(w) = Len(z) /\ (Len(w) > 0 => w[1] = z[1] \/ w[1].kind = "dead")
    BY <1>1, <2>3, <2>4, <2>5 DEF Replaced
  <2>8. QED
    BY <1>1, <1>2, <2>1, <2>3, <2>6, <2>7 DEF StackFine
<1>23. CASE TeardownDone(t)
  <2>1. stack'[t] = <<>> /\ globalLink'[t] = None /\ pc'[t] = "idle"
    BY <1>1, <1>23 DEF TeardownDone
  <2>2. Len(stack'[t]) = 0
    BY <2>1
  <2>3. EntriesFine(stack'[t])
    BY <2>2 DEF EntriesFine
  <2>4. QED
    BY <1>1, <2>1, <2>2, <2>3 DEF StackFine, Discarding
<1>24. ~ (Abort(t) \/ ReleaseClear(t) \/ SerialClear(t) \/ WalkClear(t))
  BY <1>2 DEF Abort, ReleaseClear, SerialClear, WalkClear, ClearOwner
<1>25. QED
  BY <1>9, <1>10, <1>11, <1>12, <1>14, <1>16, <1>17, <1>18, <1>19, <1>20, <1>21, <1>22,
     <1>23, <1>24 DEF Aml, Interpret

-----------------------------------------------------------------------------
(* What a step does to the locks, and to the entries of Serialized methods  *)

Between(t) == pc[t] \in {"invokeStore", "callStore", "acquireStore"}

Takes(t, l) ==
  /\ holder[l] = None /\ ~ Between(t) /\ Storing(t, l)'
  /\ holder' = [holder EXCEPT ![l] = t] /\ UNCHANGED <<owner, recursion>>

PutsOwner(t, l) ==
  /\ Storing(t, l) /\ ~ Between(t)'
  /\ owner' = [owner EXCEPT ![l] = t] /\ UNCHANGED <<holder, recursion>>

Nests(t, l) ==
  /\ owner[l] = t /\ ~ Between(t) /\ ~ Between(t)'
  /\ recursion' = [recursion EXCEPT ![l] = @ + 1] /\ UNCHANGED <<holder, owner>>

Unnests(t, l) ==
  /\ holder[l] = t /\ recursion[l] > 0 /\ ~ Between(t) /\ ~ Between(t)'
  /\ recursion' = [recursion EXCEPT ![l] = @ - 1] /\ UNCHANGED <<holder, owner>>

Frees(t, l) ==
  /\ holder[l] = t /\ ~ Between(t) /\ ~ Between(t)'
  /\ l \in Serialized => recursion[l] = 0
  /\ holder' = [holder EXCEPT ![l] = None] /\ owner' = [owner EXCEPT ![l] = None]
  /\ UNCHANGED recursion

Leaves(t) == UNCHANGED <<holder, owner, recursion>> /\ ~ Between(t) /\ ~ Between(t)'

\* Of the Serialized methods, t has one more entry of those in G, one less of those in L.
EntriesMove(t, G, L) ==
  \A f \in Serialized :
    /\ f \in G => \E d : d \notin Entered(t, f) /\ Entered(t, f)' = Entered(t, f) \cup {d}
    /\ f \in L => \E d \in Entered(t, f) : Entered(t, f)' = Entered(t, f) \ {d}
    /\ f \notin G \cup L => Entered(t, f)' = Entered(t, f)

LockMove(t) ==
  \/ \E l \in Locks :
       \/ Takes(t, l) /\ EntriesMove(t, {}, {})
       \/ PutsOwner(t, l) /\ EntriesMove(t, {l}, {})
       \/ Nests(t, l) /\ EntriesMove(t, {l}, {})
       \/ Unnests(t, l) /\ EntriesMove(t, {}, {l})
       \/ Frees(t, l) /\ EntriesMove(t, {}, {l})
  \/ Leaves(t) /\ EntriesMove(t, {}, {})

\* Pushing the entry of f.
LEMMA PushEnters ==
  ASSUME TypeOK, NEW t \in Threads, NEW k \in Kinds, NEW f \in Methods \cup {None},
         Push(t, NewEntry(k, f))
  PROVE  EntriesMove(t, {f}, {})
<1>1. PICK e : e = NewEntry(k, f)
  OBVIOUS
<1>2. e \in Entry /\ e.method = f
  BY <1>1 DEF NewEntry, Entry, Link
<1>3. /\ \A g \in Methods : Entered(t, g)' =
              Entered(t, g) \cup (IF e.method = g THEN {Depth(t) + 1} ELSE {})
      /\ \A g \in Methods : Depth(t) + 1 \notin Entered(t, g)
  BY <1>1, <1>2, EnteredPush
<1>4. Serialized \subseteq Methods
  BY LocksAssumption
<1>5. QED
  BY <1>2, <1>3, <1>4 DEF EntriesMove

\* Popping the entry of f.
LEMMA PopLeaves ==
  ASSUME TypeOK, NEW t \in Threads, Depth(t) > 0, Pop(t), NEW f, f = Top(t).method
  PROVE  EntriesMove(t, {}, {f})
<1>1. /\ \A g \in Methods : Entered(t, g)' = Entered(t, g) \ {Depth(t)}
      /\ \A g \in Methods : Depth(t) \in Entered(t, g) <=> Top(t).method = g
  BY EnteredPop
<1>2. Serialized \subseteq Methods
  BY LocksAssumption
<1>3. QED
  BY <1>1, <1>2 DEF EntriesMove

LEMMA SameEntries ==
  ASSUME \A u \in Threads : Len(stack'[u]) = Len(stack[u]),
         \A u \in Threads : \A i \in 1 .. Len(stack[u]) :
           stack'[u][i].method = stack[u][i].method, NEW t \in Threads
  PROVE  EntriesMove(t, {}, {})
<1>1. \A f \in Methods : Entered(t, f)' = Entered(t, f)
  BY EnteredShape
<1>2. QED
  BY <1>1, LocksAssumption DEF EntriesMove

LEMMA NoSuchMethod ==
  ASSUME NEW t, NEW f, f \notin Serialized, EntriesMove(t, {f}, {}) \/ EntriesMove(t, {}, {f})
  PROVE  EntriesMove(t, {}, {})
BY DEF EntriesMove

\* ~MethodFrame drops one nesting of the method's lock or frees it.
LEMMA DestroyMoves ==
  ASSUME TypeOK, LockCoversEntries, AtomicUnlock, NEW t \in Threads, ~ Between(t),
         NEW e, NEW b, Destroy(t, e, b), NEW f \in Methods \cup {None}, f = e.method,
         f \in Serialized => Entered(t, f) # {}, EntriesMove(t, {}, {f})
  PROVE  LockMove(t)
<1>1. ~ Between(t)'
  <2>1. pc'[t] = "walk"
    BY DEF TypeOK, Destroy, OsUnlock
  <2>2. QED
    BY <2>1 DEF Between
<1>2. CASE f \notin Serialized
  <2>1. UNCHANGED <<holder, owner, recursion>>
    BY <1>2 DEF Destroy, lockVars
  <2>2. EntriesMove(t, {}, {})
    BY <1>2, NoSuchMethod
  <2>3. QED
    BY <1>1, <2>1, <2>2 DEF LockMove, Leaves
<1>3. CASE f \in Serialized
  <2>1. holder[f] = t /\ f \in Locks /\ recursion[f] \in Nat
    BY <1>3 DEF LockCoversEntries, Locks, TypeOK
  <2>2. CASE Nested(f)
    <3>1. Unnests(t, f)
      BY <1>1, <1>3, <2>1, <2>2 DEF Destroy, Unnests, Nested
    <3>2. QED
      BY <2>1, <3>1 DEF LockMove
  <2>3. CASE ~ Nested(f)
    <3>1. recursion[f] = 0
      BY <2>1, <2>3 DEF Nested
    <3>2. Frees(t, f)
      BY <1>1, <1>3, <2>1, <2>3, <3>1 DEF Destroy, Frees, OsUnlock
    <3>3. QED
      BY <2>1, <3>2 DEF LockMove
  <2>4. QED
    BY <2>2, <2>3
<1>4. QED
  BY <1>2, <1>3

\* A walk has only mutexes that its thread owns.
WalkOwns(t) == pc[t] = "walk" /\ cur[t] # None => owner[cur[t]] = t

LEMMA LockMoves ==
  ASSUME TypeOK, ControlOK, LockCoversEntries, OwnersOK, AtomicUnlock, "argError" \notin AmlMay,
         NEW t \in Threads, Aml(t) \/ Interpret(t), StackFine(t), WalkOwns(t)
  PROVE  LockMove(t)
<1> USE DEF lockVars, listVars, walkVars
<1>1. /\ Len(stack[t]) \in Nat /\ Depth(t) = Len(stack[t]) /\ pc \in [Threads -> PCs]
      /\ op \in [Threads -> Locks \cup {None}] /\ stack \in [Threads -> Seq(Entry)]
      /\ stack[t] \in Seq(Entry)
      /\ None \notin Methods /\ None \notin Serialized /\ Serialized \subseteq Methods
      /\ Mutexes \cap Serialized = {} /\ Mutexes \subseteq Locks /\ Serialized \subseteq Locks
  BY LocksAssumption DEF TypeOK, Depth, Locks
<1>2. /\ EntriesFine(stack[t]) /\ (Discarding(t) => NonePending(stack[t]))
      /\ pc[t] \notin {"releaseClear", "serialClear", "walkClear"}
  BY DEF StackFine
<1>3. pc[t] \in {"run", "callStore", "acquireStore", "unwind"} => Len(stack[t]) > 0
  BY <1>1 DEF ControlOK
<1>4. Len(stack[t]) > 0 => Top(t) = stack[t][Len(stack[t])] /\ Top(t) \in Entry
  BY <1>1, ElementOfSeq DEF Top
<1>5. ASSUME UNCHANGED <<holder, owner, recursion>>, ~ Between(t), ~ Between(t)', EntriesMove(t, {}, {})
      PROVE  LockMove(t)
  BY <1>5 DEF LockMove, Leaves
<1>6. ASSUME stack' = stack
      PROVE  EntriesMove(t, {}, {})
  BY <1>6 DEF EntriesMove, Entered, Depth
\* Popping an entry that is no Serialized method's.
<1>7. ASSUME Pop(t), Len(stack[t]) > 0, Top(t).method \notin Serialized
      PROVE  EntriesMove(t, {}, {})
  <2>1. PICK f : f = Top(t).method
    OBVIOUS
  <2>2. EntriesMove(t, {}, {f})
    BY <1>1, <1>7, <2>1, PopLeaves
  <2>3. QED
    BY <1>7, <2>1, <2>2, NoSuchMethod
<1>8. Len(stack[t]) > 0 /\ Top(t).kind \notin {"call", "method"} => Top(t).method \notin Serialized
  BY <1>1, <1>2, <1>4 DEF EntriesFine
<1>9. Len(stack[t]) > 0 /\ Top(t).kind = "call" /\ NonePending(stack[t]) => Top(t).method \notin Serialized
  BY <1>1, <1>4 DEF NonePending
<1>10. CASE Execute(t) \/ Load(t) \/ OpenBlock(t)
  <2>1. PICK k \in Kinds : Push(t, NewEntry(k, None))
    BY <1>10 DEF Execute, Load, OpenBlock, Kinds
  <2>2. UNCHANGED <<holder, owner, recursion>> /\ ~ Between(t) /\ ~ Between(t)'
    BY <1>1, <1>10 DEF Execute, Load, OpenBlock, Between
  <2>3. EntriesMove(t, {None}, {})
    BY <2>1, PushEnters DEF TypeOK
  <2>4. EntriesMove(t, {}, {})
    BY <1>1, <2>3, NoSuchMethod
  <2>5. QED
    BY <1>5, <2>2, <2>4
<1>11. ASSUME NEW f \in Methods, Invoke(t, f) \/ BeginCall(t, f)
       PROVE  LockMove(t)
  <2>1. PICK k \in Kinds, at \in {"invokeStore", "callStore"} :
          EnterMethod(t, f, k, at) /\ ~ Between(t)
    BY <1>11 DEF Invoke, BeginCall, Kinds, Between
  <2>2. CASE /\ f \in Serialized => Owned(t, f)
             /\ IF f \in Serialized THEN Nest(f) ELSE UNCHANGED recursion
             /\ Push(t, NewEntry(k, f)) /\ pc' = [pc EXCEPT ![t] = "run"]
             /\ UNCHANGED <<holder, owner, op>>
    <3>1. EntriesMove(t, {f}, {}) /\ ~ Between(t)'
      BY <1>1, <2>2, PushEnters DEF Between
    <3>2. CASE f \in Serialized
      <4>1. Nests(t, f) /\ f \in Locks
        BY <1>1, <2>1, <2>2, <3>1, <3>2 DEF Nests, Owned, Nest
      <4>2. QED
        BY <3>1, <4>1 DEF LockMove
    <3>3. CASE f \notin Serialized
      <4>1. EntriesMove(t, {}, {})
        BY <3>1, <3>3, NoSuchMethod
      <4>2. QED
        BY <1>5, <2>1, <2>2, <3>1, <3>3, <4>1
    <3>4. QED
      BY <3>2, <3>3
  <2>3. CASE f \in Serialized /\ OsLock(t, f, at) /\ UNCHANGED <<owner, recursion, stack>>
    <3>1. Takes(t, f) /\ f \in Locks
      BY <1>1, <2>1, <2>3 DEF Takes, OsLock, Storing
    <3>2. QED
      BY <1>6, <2>3, <3>1 DEF LockMove
  <2>4. QED
    BY <2>1, <2>2, <2>3 DEF EnterMethod
<1>12. CASE InvokeStore(t) \/ CallStore(t)
  <2>1. PICK f : f = op[t]
    OBVIOUS
  <2>2. f \in Serialized /\ f \in Locks /\ f \in Methods
    BY <1>1, <1>12, <2>1 DEF InvokeStore, CallStore, EnterStore, ControlOK
  <2>3. PICK k \in Kinds : Push(t, NewEntry(k, f))
    BY <1>12, <2>1 DEF InvokeStore, CallStore, EnterStore, Kinds
  <2>4. EntriesMove(t, {f}, {})
    BY <2>2, <2>3, PushEnters
  <2>5. PutsOwner(t, f)
    BY <1>1, <1>12, <2>1 DEF InvokeStore, CallStore, EnterStore, PutsOwner, Storing, Between
  <2>6. QED
    BY <2>2, <2>4, <2>5 DEF LockMove
<1>13. CASE Call(t)
  <2>1. UNCHANGED <<holder, owner, recursion>> /\ ~ Between(t) /\ ~ Between(t)' /\ Len(stack[t]) > 0
        /\ Top(t).kind = "call"
    BY <1>1, <1>3, <1>13 DEF Call, Between
  <2>2. CASE Put(t, Depth(t), [Top(t) EXCEPT !.kind = "method"])
    <3>1. PICK e : e = [Top(t) EXCEPT !.kind = "method"]
      OBVIOUS
    <3>0. Depth(t) \in 1 .. Len(stack[t]) /\ Top(t) \in Entry
      BY <1>1, <1>4, <2>1
    <3>2. e \in Entry /\ e.method = Top(t).method
      BY <3>0, <3>1 DEF Entry, Kinds
    <3>3. /\ \A u \in Threads \ {t} : stack'[u] = stack[u]
          /\ Len(stack'[t]) = Len(stack[t])
          /\ \A j \in 1 .. Len(stack[t]) : stack'[t][j] = IF j = Depth(t) THEN e ELSE stack[t][j]
      BY <2>2, <3>0, <3>1, <3>2, PutStack
    <3>4. EntriesMove(t, {}, {})
      BY <1>1, <1>4, <2>1, <3>0, <3>2, <3>3, SameEntries
    <3>5. QED
      BY <1>5, <2>1, <3>4
  <2>3. CASE Pop(t) /\ NoLockPending(t)
    <3>1. NonePending(stack[t])
      BY <1>1, <2>3 DEF NoLockPending, NonePending
    <3>2. QED
      BY <1>5, <1>7, <1>9, <2>1, <2>3, <3>1
  <2>4. QED
    BY <1>13, <2>2, <2>3 DEF Call
<1>14. CASE CloseBlock(t) \/ ScopeEnd(t) \/ UnwindDrop(t)
  <2>1. UNCHANGED <<holder, owner, recursion>> /\ ~ Between(t) /\ ~ Between(t)' /\ Len(stack[t]) > 0
        /\ Pop(t)
    BY <1>1, <1>3, <1>14 DEF CloseBlock, ScopeEnd, UnwindDrop, Between
  <2>2. Top(t).method \notin Serialized
    <3>1. CASE Top(t).kind # "call"
      BY <1>8, <1>14, <2>1, <3>1 DEF CloseBlock, ScopeEnd, UnwindDrop
    <3>2. CASE Top(t).kind = "call"
      BY <1>2, <1>9, <1>14, <2>1, <3>2 DEF CloseBlock, ScopeEnd, UnwindDrop, Discarding
    <3>3. QED
      BY <3>1, <3>2
  <2>3. QED
    BY <1>5, <1>7, <2>1, <2>2
<1>15. CASE Fail(t) \/ UnwindDone(t) \/ TeardownList(t)
  <2>1. UNCHANGED <<holder, owner, recursion>> /\ ~ Between(t) /\ ~ Between(t)' /\ stack' = stack
    BY <1>1, <1>15 DEF Fail, UnwindDone, TeardownList, Between
  <2>2. QED
    BY <1>5, <1>6, <2>1
<1>16. ASSUME NEW m \in Mutexes, Acquire(t, m)
       PROVE  LockMove(t)
  <2>1. stack' = stack /\ ~ Between(t) /\ m \in Locks /\ UNCHANGED owner
    BY <1>1, <1>16 DEF Acquire, Between
  <2>2. EntriesMove(t, {}, {})
    BY <1>6, <2>1
  <2>3. CASE Owned(t, m) /\ Nest(m) /\ UNCHANGED <<holder, pc, op>>
    <3>1. Nests(t, m)
      BY <2>1, <2>3 DEF Nests, Owned, Nest, Between
    <3>2. EntriesMove(t, {m}, {})
      BY <1>1, <2>2 DEF EntriesMove
    <3>3. QED
      BY <2>1, <3>1, <3>2 DEF LockMove
  <2>4. CASE OsLock(t, m, "acquireStore") /\ UNCHANGED recursion
    <3>1. Takes(t, m)
      BY <1>1, <2>1, <2>4 DEF Takes, OsLock, Storing
    <3>2. QED
      BY <2>1, <2>2, <3>1 DEF LockMove
  <2>5. QED
    BY <1>16, <2>3, <2>4 DEF Acquire
<1>17. CASE AcquireStore(t)
  <2>1. PICK m : m = op[t]
    OBVIOUS
  <2>2. m \in Mutexes /\ m \in Locks /\ m \in Link /\ SetLink(t, m)
    BY <1>1, <1>17, <2>1 DEF AcquireStore, ControlOK, Link
  <2>3. PutsOwner(t, m)
    BY <1>1, <1>17, <2>1 DEF AcquireStore, PutsOwner, Storing, Between
  <2>4. EntriesMove(t, {}, {})
    BY <2>2, SetLinkStack, SameEntries
  <2>5. EntriesMove(t, {m}, {})
    BY <1>1, <2>2, <2>4 DEF EntriesMove
  <2>6. QED
    BY <2>2, <2>3, <2>5 DEF LockMove
<1>18. ASSUME NEW m \in Mutexes, Release(t, m)
       PROVE  LockMove(t)
  <2>1. ~ Between(t) /\ ~ Between(t)' /\ owner[m] = t /\ holder[m] = t /\ m \in Locks
        /\ recursion[m] \in Nat
    BY <1>1, <1>18 DEF Release, Between, OsUnlock, Owned, OwnersOK, TypeOK
  <2>2. CASE Nested(m) /\ recursion' = [recursion EXCEPT ![m] = @ - 1]
             /\ UNCHANGED <<holder, owner, stack>>
    <3>1. Unnests(t, m)
      BY <2>1, <2>2 DEF Unnests, Nested
    <3>2. EntriesMove(t, {}, {m})
      BY <1>1, <1>6, <2>2 DEF EntriesMove
    <3>3. QED
      BY <2>1, <3>1, <3>2 DEF LockMove
  <2>3. CASE Unlink(t, m) /\ OsUnlock(t, m, "releaseClear", "run") /\ UNCHANGED recursion
    <3>1. Frees(t, m)
      BY <1>1, <2>1, <2>3 DEF Frees, OsUnlock
    <3>2. EntriesMove(t, {}, {})
      BY <2>3, UnlinkStack, SameEntries
    <3>3. EntriesMove(t, {}, {m})
      BY <1>1, <3>2 DEF EntriesMove
    <3>4. QED
      BY <2>1, <3>1, <3>3 DEF LockMove
  <2>4. QED
    BY <1>18, <2>2, <2>3 DEF Release
<1>19. CASE MethodEnd(t) \/ UnwindFrame(t)
  <2>1. PICK b : Destroy(t, Top(t), b)
    BY <1>19 DEF MethodEnd, UnwindFrame
  <2>2. Pop(t) /\ Len(stack[t]) > 0 /\ ~ Between(t)
    BY <1>3, <1>19 DEF MethodEnd, UnwindFrame, Between
  <2>3. PICK f : f = Top(t).method
    OBVIOUS
  <2>4. f \in Methods \cup {None}
    BY <1>4, <2>2, <2>3 DEF Entry
  <2>5. EntriesMove(t, {}, {f})
    BY <1>1, <2>2, <2>3, PopLeaves
  <2>6. f \in Serialized => Entered(t, f) # {}
    BY <1>1, <1>4, <2>2, <2>3 DEF Entered
  <2>7. QED
    BY <2>1, <2>2, <2>3, <2>4, <2>5, <2>6, DestroyMoves
<1>20. CASE TeardownFrame(t)
  <2>1. PICK i \in MethodFrames(t) :
          Put(t, i, NewEntry("dead", None)) /\ Destroy(t, stack[t][i], "teardown")
    BY <1>20 DEF TeardownFrame
  <2>2. PICK e, x, f : e = NewEntry("dead", None) /\ x = stack[t][i] /\ f = x.method
    OBVIOUS
  <2>3. e \in Entry /\ e.method = None /\ i \in 1 .. Len(stack[t]) /\ x \in Entry /\ ~ Between(t)
    <3>1. e \in Entry /\ e.method = None
      BY <2>2 DEF NewEntry, Entry, Kinds, Link
    <3>2. i \in 1 .. Len(stack[t]) /\ ~ Between(t)
      BY <1>1, <1>20 DEF MethodFrames, TeardownFrame, Between
    <3>3. x \in Entry
      BY <1>1, <2>2, <3>2, ElementOfSeq
    <3>4. QED
      BY <3>1, <3>2, <3>3
  <2>4. f \in Methods \cup {None}
    BY <2>2, <2>3 DEF Entry
  <2>5. /\ \A g \in Methods : Entered(t, g)' = Entered(t, g) \ {i}
        /\ \A g \in Methods : i \in Entered(t, g) <=> f = g
    BY <2>1, <2>2, <2>3, EnteredPut
  <2>6. EntriesMove(t, {}, {f})
    <3>1. ASSUME NEW g \in Serialized
          PROVE  /\ g \in {f} => \E d \in Entered(t, g) : Entered(t, g)' = Entered(t, g) \ {d}
                 /\ g \notin {f} => Entered(t, g)' = Entered(t, g)
      <4>1. Entered(t, g)' = Entered(t, g) \ {i} /\ (i \in Entered(t, g) <=> f = g)
        BY <1>1, <2>5
      <4>2. QED
        BY <4>1
    <3>2. QED
      BY <3>1 DEF EntriesMove
  <2>7. f \in Serialized => Entered(t, f) # {}
    BY <1>1, <2>5
  <2>8. QED
    BY <2>1, <2>2, <2>3, <2>4, <2>6, <2>7, DestroyMoves
<1>21. CASE Walk(t)
  <2>1. stack' = stack /\ ~ Between(t) /\ ~ Between(t)'
    BY <1>1, <1>21 DEF Walk, Between, OsUnlock, TypeOK
  <2>2. EntriesMove(t, {}, {})
    BY <1>6, <2>1
  <2>3. CASE UNCHANGED <<holder, owner, recursion>>
    BY <1>5, <2>1, <2>2, <2>3
  <2>4. CASE cur[t] # None /\ OsUnlock(t, cur[t], "walkClear", "walk") /\ UNCHANGED recursion
    <3>1. PICK m : m = cur[t]
      OBVIOUS
    <3>2. m \in Mutexes /\ m \in Locks
      BY <1>1, <2>4, <3>1 DEF TypeOK, Link
    <3>3. holder[m] = t
      BY <1>21, <2>4, <3>1, <3>2 DEF WalkOwns, OwnersOK, Walk
    <3>4. Frees(t, m)
      BY <1>1, <2>1, <2>4, <3>1, <3>2, <3>3 DEF Frees, OsUnlock
    <3>5. EntriesMove(t, {}, {m})
      BY <1>1, <2>2, <3>2 DEF EntriesMove
    <3>6. QED
      BY <3>2, <3>4, <3>5 DEF LockMove
  <2>5. QED
    BY <1>21, <2>3, <2>4 DEF Walk
<1>22. CASE TeardownDone(t)
  <2>1. UNCHANGED <<holder, owner, recursion>> /\ ~ Between(t) /\ ~ Between(t)' /\ stack'[t] = <<>>
    BY <1>1, <1>22 DEF TeardownDone, Between
  <2>2. ASSUME NEW f \in Serialized
        PROVE  Entered(t, f)' = Entered(t, f)
    <3>1. Entered(t, f)' = {}
      BY <2>1 DEF Entered, Depth
    <3>2. ASSUME NEW i \in Entered(t, f)
          PROVE  FALSE
      <4>1. i \in 1 .. Len(stack[t]) /\ stack[t][i].method = f /\ f # None
        BY <1>1 DEF Entered
      <4>2. stack[t][i].kind \in {"call", "method"}
        BY <1>2, <4>1 DEF EntriesFine
      <4>3. stack[t][i].kind # "call"
        BY <1>2, <1>22, <4>1 DEF TeardownDone, Discarding, NonePending
      <4>4. stack[t][i].kind # "method"
        BY <1>1, <1>22, <4>1 DEF TeardownDone, MethodFrames
      <4>5. QED
        BY <4>2, <4>3, <4>4
    <3>3. QED
      BY <3>1, <3>2
  <2>3. EntriesMove(t, {}, {})
    BY <2>2 DEF EntriesMove
  <2>4. QED
    BY <1>5, <2>1, <2>3
<1>23. ~ (Abort(t) \/ ReleaseClear(t) \/ SerialClear(t) \/ WalkClear(t))
  BY <1>2 DEF Abort, ReleaseClear, SerialClear, WalkClear, ClearOwner
<1>24. QED
  BY <1>10, <1>11, <1>12, <1>13, <1>14, <1>15, <1>16, <1>17, <1>18, <1>19, <1>20, <1>21, <1>22,
     <1>23 DEF Aml, Interpret

LEMMA OwnersStep ==
  ASSUME TypeOK, OwnersOK, NEW t \in Threads, Aml(t) \/ Interpret(t), LockMove(t)
  PROVE  OwnersOK'
<1> SUFFICES ASSUME NEW l \in Locks, NEW u \in Threads
             PROVE  /\ owner'[l] = u => holder'[l] = u
                    /\ holder'[l] = u /\ owner'[l] # u => Storing(u, l)'
                    /\ Storing(u, l)' => holder'[l] = u /\ owner'[l] # u
  BY DEF OwnersOK
<1>1. /\ holder \in [Locks -> Threads \cup {None}] /\ owner \in [Locks -> Threads \cup {None}]
      /\ None \notin Threads
  BY ThreadsAssumption DEF TypeOK
<1>2. \A k \in Locks, v \in Threads :
        /\ owner[k] = v => holder[k] = v
        /\ holder[k] = v /\ owner[k] # v => Storing(v, k)
        /\ Storing(v, k) => holder[k] = v /\ owner[k] # v
  BY DEF OwnersOK
<1>3. \A v \in Threads \ {t}, k \in Locks : Storing(v, k)' <=> Storing(v, k)
  BY OthersKept DEF Storing
<1>4. /\ \A k \in Locks : ~ Between(t) => ~ Storing(t, k)
      /\ \A k \in Locks : ~ Between(t)' => ~ Storing(t, k)'
      /\ \A k, j \in Locks : Storing(t, k) /\ Storing(t, j) => k = j
      /\ \A k, j \in Locks : Storing(t, k)' /\ Storing(t, j)' => k = j
  BY DEF Between, Storing
<1>5. ASSUME NEW k \in Locks, Takes(t, k)
      PROVE  /\ owner'[l] = u => holder'[l] = u
             /\ holder'[l] = u /\ owner'[l] # u => Storing(u, l)'
             /\ Storing(u, l)' => holder'[l] = u /\ owner'[l] # u
  BY <1>1, <1>2, <1>3, <1>4, <1>5 DEF Takes
<1>6. ASSUME NEW k \in Locks, PutsOwner(t, k)
      PROVE  /\ owner'[l] = u => holder'[l] = u
             /\ holder'[l] = u /\ owner'[l] # u => Storing(u, l)'
             /\ Storing(u, l)' => holder'[l] = u /\ owner'[l] # u
  BY <1>1, <1>2, <1>3, <1>4, <1>6 DEF PutsOwner
<1>7. ASSUME NEW k \in Locks, Nests(t, k) \/ Unnests(t, k)
      PROVE  /\ owner'[l] = u => holder'[l] = u
             /\ holder'[l] = u /\ owner'[l] # u => Storing(u, l)'
             /\ Storing(u, l)' => holder'[l] = u /\ owner'[l] # u
  BY <1>1, <1>2, <1>3, <1>4, <1>7 DEF Nests, Unnests
<1>8. ASSUME NEW k \in Locks, Frees(t, k)
      PROVE  /\ owner'[l] = u => holder'[l] = u
             /\ holder'[l] = u /\ owner'[l] # u => Storing(u, l)'
             /\ Storing(u, l)' => holder'[l] = u /\ owner'[l] # u
  BY <1>1, <1>2, <1>3, <1>4, <1>8 DEF Frees
<1>9. CASE Leaves(t)
  BY <1>1, <1>2, <1>3, <1>4, <1>9 DEF Leaves
<1>10. QED
  BY <1>5, <1>6, <1>7, <1>8, <1>9 DEF LockMove

-----------------------------------------------------------------------------
(* The lock of a Serialized method is nested once less than it is entered    *)

BalancedAt(t, f) ==
  /\ holder[f] = t /\ ~ Storing(t, f) => Cardinality(Entered(t, f)) = recursion[f] + 1
  /\ holder[f] = None \/ Storing(t, f) => recursion[f] = 0

Balanced == \A f \in Serialized, t \in Threads : BalancedAt(t, f)

LEMMA BalancedStep ==
  ASSUME TypeOK, ControlOK, OwnersOK, LockCoversEntries, Balanced, NEW t \in Threads,
         Aml(t) \/ Interpret(t), LockMove(t)
  PROVE  Balanced'
<1> SUFFICES ASSUME NEW f \in Serialized, NEW u \in Threads
             PROVE  BalancedAt(u, f)'
  BY DEF Balanced
<1>1. /\ holder \in [Locks -> Threads \cup {None}] /\ owner \in [Locks -> Threads \cup {None}]
      /\ recursion \in [Locks -> Nat]
      /\ None \notin Threads /\ f \in Locks /\ Serialized \subseteq Locks
  BY ThreadsAssumption DEF TypeOK, Locks
<1>2. BalancedAt(t, f) /\ BalancedAt(u, f)
  BY DEF Balanced
<1>3. u # t => (Storing(u, f)' <=> Storing(u, f)) /\ Entered(u, f)' = Entered(u, f)
  BY OthersKept DEF Storing, Entered, Depth
<1>4. /\ ~ Between(t) => ~ Storing(t, f)
      /\ ~ Between(t)' => ~ Storing(t, f)'
      /\ \A k \in Locks : Storing(t, k) /\ Storing(t, f) => k = f
      /\ \A k \in Locks : Storing(t, k)' /\ Storing(t, f)' => k = f
  BY DEF Between, Storing
<1>5. /\ Storing(t, f) => holder[f] = t /\ Entered(t, f) = {}
      /\ Storing(u, f) => holder[f] = u
      /\ Entered(t, f) # {} => holder[f] = t
      /\ owner[f] = t => holder[f] = t /\ ~ Storing(t, f)
  <2>1. Storing(t, f) => pc[t] \in {"invokeStore", "callStore"} /\ op[t] = f
    BY LocksAssumption DEF Storing, ControlOK
  <2>2. Storing(t, f) => holder[f] = t /\ Entered(t, f) = {}
    BY <2>1 DEF LockCoversEntries
  <2>3. Entered(t, f) # {} => holder[f] = t
    BY DEF LockCoversEntries
  <2>4. /\ Storing(u, f) => holder[f] = u
        /\ owner[f] = t => holder[f] = t /\ ~ Storing(t, f)
    BY <1>1 DEF OwnersOK
  <2>5. QED
    BY <2>2, <2>3, <2>4
<1>6. IsFiniteSet(Entered(t, f)) /\ Cardinality(Entered(t, f)) \in Nat
  BY LocksAssumption, EnteredFinite
<1> DEFINE A == Entered(t, f)
           B == Entered(t, f)'
<1>7. ASSUME NEW d, d \notin A, B = A \cup {d}
      PROVE  Cardinality(B) = Cardinality(A) + 1
  <2> HIDE DEF A, B
  <2>1. QED
    BY <1>6, <1>7, FS_AddElement DEF A
<1>8. ASSUME NEW d \in A, B = A \ {d}
      PROVE  Cardinality(B) = Cardinality(A) - 1
  <2> HIDE DEF A, B
  <2>1. QED
    BY <1>6, <1>8, FS_RemoveElement DEF A
<1>9. Cardinality({}) = 0
  BY FS_EmptySet
<1>10. /\ \A G, L : f \in G /\ EntriesMove(t, G, L) => \E d : d \notin A /\ B = A \cup {d}
       /\ \A G, L : f \in L /\ EntriesMove(t, G, L) => \E d \in A : B = A \ {d}
       /\ \A G, L : f \notin G \cup L /\ EntriesMove(t, G, L) => B = A
  BY DEF EntriesMove
<1>11. /\ A = {} => Cardinality(A) = 0
       /\ recursion[f] \in Nat
  BY <1>1, <1>9
<1> DEFINE a == Cardinality(A)
           b == Cardinality(B)
<1>12. /\ \A G, L : f \in G /\ EntriesMove(t, G, L) => b = a + 1
       /\ \A G, L : f \in L /\ EntriesMove(t, G, L) => b = a - 1 /\ A # {}
       /\ \A G, L : f \notin G \cup L /\ EntriesMove(t, G, L) => b = a
  BY <1>7, <1>8, <1>10
<1>13. /\ BalancedAt(t, f) <=> ((holder[f] = t /\ ~ Storing(t, f)) => a = recursion[f] + 1)
                               /\ ((holder[f] = None \/ Storing(t, f)) => recursion[f] = 0)
       /\ BalancedAt(t, f)' <=> ((holder'[f] = t /\ ~ Storing(t, f)') => b = recursion'[f] + 1)
                                /\ ((holder'[f] = None \/ Storing(t, f)') => recursion'[f] = 0)
  BY DEF BalancedAt
<1>14. u # t => (Cardinality(Entered(u, f))' = Cardinality(Entered(u, f)))
  BY <1>3
<1>15. A = {} => a = 0
  BY <1>11
<1>16. a \in Nat
  BY <1>6
<1> HIDE DEF A, B, a, b
<1>17. ASSUME NEW k \in Locks, Takes(t, k), EntriesMove(t, {}, {})
       PROVE  BalancedAt(u, f)'
  <2>1. b = a
    BY <1>12, <1>17
  <2>2. CASE u = t
    <3>1. CASE k = f
      BY <1>1, <1>2, <1>13, <1>17, <2>2, <3>1 DEF Takes
    <3>2. CASE k # f
      BY <1>1, <1>2, <1>4, <1>13, <1>17, <2>1, <2>2, <3>2 DEF Takes
    <3>3. QED
      BY <3>1, <3>2
  <2>3. CASE u # t
    BY <1>1, <1>2, <1>3, <1>5, <1>14, <1>17, <2>3 DEF Takes, BalancedAt
  <2>4. QED
    BY <2>2, <2>3
<1>18. ASSUME NEW k \in Locks, PutsOwner(t, k), EntriesMove(t, {k}, {})
       PROVE  BalancedAt(u, f)'
  <2>1. CASE u = t
    <3>1. CASE k = f
      BY <1>1, <1>2, <1>4, <1>5, <1>12, <1>13, <1>15, <1>18, <2>1, <3>1 DEF PutsOwner, A
    <3>2. CASE k # f
      <4>1. b = a
        BY <1>12, <1>18, <3>2
      <4>2. QED
        BY <1>1, <1>2, <1>4, <1>13, <1>18, <2>1, <3>2, <4>1 DEF PutsOwner
    <3>3. QED
      BY <3>1, <3>2
  <2>2. CASE u # t
    BY <1>1, <1>2, <1>3, <1>5, <1>14, <1>18, <2>2 DEF PutsOwner, BalancedAt
  <2>3. QED
    BY <2>1, <2>2
<1>19. ASSUME NEW k \in Locks, Nests(t, k), EntriesMove(t, {k}, {})
       PROVE  BalancedAt(u, f)'
  <2>1. CASE u = t
    <3>1. CASE k = f
      <4>1. b = a + 1 /\ recursion'[f] = recursion[f] + 1 /\ holder'[f] = t
        BY <1>1, <1>5, <1>12, <1>19, <3>1 DEF Nests
      <4>2. QED
        BY <1>1, <1>2, <1>4, <1>5, <1>11, <1>13, <1>16, <1>19, <2>1, <3>1, <4>1 DEF Nests
    <3>2. CASE k # f
      <4>1. b = a
        BY <1>12, <1>19, <3>2
      <4>2. QED
        BY <1>1, <1>2, <1>4, <1>13, <1>19, <2>1, <3>2, <4>1 DEF Nests
    <3>3. QED
      BY <3>1, <3>2
  <2>2. CASE u # t
    BY <1>1, <1>2, <1>3, <1>5, <1>14, <1>19, <2>2 DEF Nests, BalancedAt
  <2>3. QED
    BY <2>1, <2>2
<1>20. ASSUME NEW k \in Locks, Unnests(t, k), EntriesMove(t, {}, {k})
       PROVE  BalancedAt(u, f)'
  <2>1. CASE u = t
    <3>1. CASE k = f
      <4>1. b = a - 1 /\ recursion'[f] = recursion[f] - 1 /\ holder'[f] = t /\ holder[f] = t
        BY <1>1, <1>12, <1>20, <3>1 DEF Unnests
      <4>2. QED
        BY <1>1, <1>2, <1>4, <1>11, <1>13, <1>16, <1>20, <2>1, <3>1, <4>1 DEF Unnests
    <3>2. CASE k # f
      <4>1. b = a
        BY <1>12, <1>20, <3>2
      <4>2. QED
        BY <1>1, <1>2, <1>4, <1>13, <1>20, <2>1, <3>2, <4>1 DEF Unnests
    <3>3. QED
      BY <3>1, <3>2
  <2>2. CASE u # t
    BY <1>1, <1>2, <1>3, <1>5, <1>14, <1>20, <2>2 DEF Unnests, BalancedAt
  <2>3. QED
    BY <2>1, <2>2
<1>21. ASSUME NEW k \in Locks, Frees(t, k), EntriesMove(t, {}, {k})
       PROVE  BalancedAt(u, f)'
  <2>1. CASE u = t
    <3>1. CASE k = f
      BY <1>1, <1>2, <1>4, <1>13, <1>21, <2>1, <3>1 DEF Frees
    <3>2. CASE k # f
      <4>1. b = a
        BY <1>12, <1>21, <3>2
      <4>2. QED
        BY <1>1, <1>2, <1>4, <1>13, <1>21, <2>1, <3>2, <4>1 DEF Frees
    <3>3. QED
      BY <3>1, <3>2
  <2>2. CASE u # t
    BY <1>1, <1>2, <1>3, <1>5, <1>14, <1>21, <2>2 DEF Frees, BalancedAt
  <2>3. QED
    BY <2>1, <2>2
<1>22. ASSUME Leaves(t), EntriesMove(t, {}, {})
       PROVE  BalancedAt(u, f)'
  <2>1. b = a
    BY <1>12, <1>22
  <2>2. CASE u = t
    BY <1>1, <1>2, <1>4, <1>13, <1>22, <2>1, <2>2 DEF Leaves
  <2>3. CASE u # t
    BY <1>1, <1>2, <1>3, <1>14, <1>22, <2>3 DEF Leaves, BalancedAt
  <2>4. QED
    BY <2>2, <2>3
<1>23. QED
  BY <1>17, <1>18, <1>19, <1>20, <1>21, <1>22 DEF LockMove

-----------------------------------------------------------------------------
(* The lists of the model: number 0 is the interpreter's, i the one of       *)
(* entry i, and -1 what the walk of a destructor has left                    *)

HeadIn(s, g, w, i) ==
  IF i = 0 THEN g
  ELSE IF i = -1 THEN w
  ELSE IF i \in 1 .. Len(s) THEN s[i].link
  ELSE None

Walked(t) == IF pc[t] = "walk" THEN cur[t] ELSE None
HeadAt(t, i) == HeadIn(stack[t], globalLink[t], Walked(t), i)
Heads == [t \in Threads |-> [i \in Int |-> HeadAt(t, i)]]
Own == [m \in Mutexes |-> owner[m]]

ListsOK == \E at, pos : Lists(Own, at, pos, next, prev, Heads)

LEMMA HeadInType ==
  ASSUME NEW s \in Seq(Entry), NEW g \in Link, NEW w \in Link, NEW i \in Int
  PROVE  HeadIn(s, g, w, i) \in Link
<1>1. Len(s) \in Nat
  OBVIOUS
<1>2. CASE i \in 1 .. Len(s)
  <2>1. s[i] \in Entry
    BY <1>1, <1>2, ElementOfSeq
  <2>2. s[i].link \in Link
    BY <2>1 DEF Entry
  <2>3. QED
    BY <1>2, <2>2 DEF HeadIn
<1>3. CASE i \notin 1 .. Len(s)
  BY <1>3 DEF HeadIn, Link
<1>4. QED
  BY <1>2, <1>3

LEMMA HeadGrown ==
  ASSUME NEW s, NEW w, NEW e, Len(s) \in Nat, Grown(w, s, e), NEW g, NEW x, NEW i \in Int
  PROVE  HeadIn(w, g, x, i) = HeadIn(s, g, x, i)
BY DEF HeadIn, Grown

LEMMA HeadPrefix ==
  ASSUME NEW s, NEW w, Len(s) \in Nat \ {0}, Prefix(w, s), Len(w) = Len(s) - 1,
         NEW g, NEW x, NEW i \in Int
  PROVE  HeadIn(w, g, x, i) = IF i = Len(s) THEN None ELSE HeadIn(s, g, x, i)
BY DEF HeadIn, Prefix

LEMMA HeadReplaced ==
  ASSUME NEW s, NEW w, NEW e, Len(s) \in Nat, NEW k \in 1 .. Len(s), Replaced(w, s, k, e),
         NEW g, NEW x, NEW i \in Int
  PROVE  HeadIn(w, g, x, i) = IF i = k THEN e.link ELSE HeadIn(s, g, x, i)
BY DEF HeadIn, Replaced

\* What a step may do to the lists of its thread.
SameLists(t) ==
  /\ \A m \in Mutexes : owner'[m] = owner[m]
  /\ next' = next /\ prev' = prev
  /\ \A i \in Int : HeadAt(t, i)' = HeadAt(t, i)

PutOnFront(t, i, m) ==
  /\ owner[m] = None /\ owner' = [owner EXCEPT ![m] = t]
  /\ next' = [next EXCEPT ![m] = HeadAt(t, i)]
  /\ prev' = [k \in Mutexes |-> IF k = HeadAt(t, i) THEN m
                                ELSE IF k = m THEN None ELSE prev[k]]
  /\ \A j \in Int : HeadAt(t, j)' = IF j = i THEN m ELSE HeadAt(t, j)

TakeOut(t, i, m) ==
  /\ m \in ListOf(HeadAt(t, i)) /\ owner' = [owner EXCEPT ![m] = None]
  /\ next' = IF prev[m] # None THEN [next EXCEPT ![prev[m]] = next[m]] ELSE next
  /\ prev' = [k \in Mutexes |-> IF k = next[m] THEN prev[m] ELSE prev[k]]
  /\ \A j \in Int : HeadAt(t, j)' = IF j = i /\ prev[m] = None THEN next[m] ELSE HeadAt(t, j)

WalkOn(t, m) ==
  /\ m = HeadAt(t, -1) /\ owner' = [owner EXCEPT ![m] = None]
  /\ next' = next /\ prev' = prev
  /\ \A j \in Int : HeadAt(t, j)' = IF j = -1 THEN next[m] ELSE HeadAt(t, j)

StartWalk(t, i) ==
  /\ HeadAt(t, -1) = None
  /\ \A m \in Mutexes : owner'[m] = owner[m]
  /\ next' = next /\ prev' = prev
  /\ \A j \in Int : HeadAt(t, j)' = IF j = -1 THEN HeadAt(t, i)
                                    ELSE IF j = i THEN None ELSE HeadAt(t, j)

ListMove(t) ==
  \/ SameLists(t)
  \/ \E i \in Nat : StartWalk(t, i)
  \/ \E m \in Mutexes : WalkOn(t, m)
  \/ \E i \in Nat, m \in Mutexes : PutOnFront(t, i, m) \/ TakeOut(t, i, m)

HeadsOK ==
  /\ Heads \in [Threads -> [Int -> Link]]
  /\ \A t \in Threads, i \in Int : Heads[t][i] = HeadAt(t, i)
  /\ Own \in [Mutexes -> Threads \cup {None}]
  /\ \A m \in Mutexes : Own[m] = owner[m]

LEMMA HeadsType == TypeOK => HeadsOK
<1> SUFFICES ASSUME TypeOK
             PROVE  HeadsOK
  OBVIOUS
<1>1. \A t \in Threads : /\ stack[t] \in Seq(Entry) /\ globalLink[t] \in Link
                         /\ Walked(t) \in Link
  BY DEF TypeOK, Walked, Link
<1>2. \A t \in Threads, i \in Int : HeadAt(t, i) \in Link
  BY <1>1, HeadInType DEF HeadAt
<1>3. owner \in [Locks -> Threads \cup {None}] /\ Mutexes \subseteq Locks
  BY DEF TypeOK, Locks
<1>4. QED
  BY <1>2, <1>3 DEF HeadsOK, Heads, Own

LEMMA ListsStep ==
  ASSUME TypeOK, TypeOK', ListsOK, NEW t \in Threads, Aml(t) \/ Interpret(t), ListMove(t)
  PROVE  ListsOK'
<1>1. PICK at, pos : Lists(Own, at, pos, next, prev, Heads)
  BY DEF ListsOK
<1>2. PICK own, own2, nx, nx2, pv, pv2, head, head2 :
        /\ own = Own /\ own2 = Own' /\ nx = next /\ nx2 = next' /\ pv = prev /\ pv2 = prev'
        /\ head = Heads /\ head2 = Heads'
  OBVIOUS
<1>3. Lists(own, at, pos, nx, pv, head)
  BY <1>1, <1>2
<1>4. ASSUME NEW at2, NEW pos2, Lists(own2, at2, pos2, nx2, pv2, head2)
      PROVE  ListsOK'
  BY <1>2, <1>4 DEF ListsOK
<1>5. /\ head \in [Threads -> [Int -> Link]]
      /\ \A u \in Threads, i \in Int : head[u][i] = HeadAt(u, i)
      /\ own \in [Mutexes -> Threads \cup {None}]
      /\ \A m \in Mutexes : own[m] = owner[m]
  BY <1>2, HeadsType DEF HeadsOK
<1>6. /\ head2 \in [Threads -> [Int -> Link]]
      /\ \A u \in Threads, i \in Int : head2[u][i] = HeadAt(u, i)'
      /\ own2 \in [Mutexes -> Threads \cup {None}]
      /\ \A m \in Mutexes : own2[m] = owner'[m]
  <2>1. HeadsOK'
    BY HeadsType, PTL
  <2>2. QED
    BY <1>2, <2>1 DEF HeadsOK
<1>7. \A u \in Threads \ {t}, i \in Int : HeadAt(u, i)' = HeadAt(u, i)
  BY OthersKept DEF HeadAt, Walked
<1>8. owner \in [Locks -> Threads \cup {None}] /\ Mutexes \subseteq Locks /\ nx \in [Mutexes -> Link]
  BY <1>2 DEF TypeOK, Locks
<1>9. at \in [Mutexes -> Int] /\ pos \in [Mutexes -> Nat]
  BY <1>3 DEF Lists
<1>10. CASE SameLists(t)
  <2>1. own2 = own /\ nx2 = nx /\ pv2 = pv
    BY <1>2, <1>5, <1>6, <1>10 DEF SameLists
  <2>2. \A u \in Threads, i \in Int : head2[u][i] = head[u][i]
    BY <1>5, <1>6, <1>7, <1>10 DEF SameLists
  <2>3. head2 = head
    BY <1>5, <1>6, <2>2
  <2>4. QED
    BY <1>3, <1>4, <2>1, <2>3
<1>11. ASSUME NEW i \in Nat, StartWalk(t, i)
       PROVE  ListsOK'
  <2>1. own2 = own /\ nx2 = nx /\ pv2 = pv
    BY <1>2, <1>5, <1>6, <1>11 DEF StartWalk
  <2>2. \A u \in Threads, j \in Int :
          head2[u][j] = IF u = t /\ j = -1 THEN head[t][i]
                        ELSE IF u = t /\ j = i THEN None ELSE head[u][j]
    BY <1>5, <1>6, <1>7, <1>11 DEF StartWalk
  <2>3. head[t][-1] = None
    BY <1>5, <1>11 DEF StartWalk
  <2>4. PICK at2 : at2 = [k \in Mutexes |-> IF own[k] = t /\ at[k] = i THEN -1 ELSE at[k]]
    OBVIOUS
  <2>5. Lists(own, at2, pos, nx, pv, head2)
    BY <1>3, <1>6, <2>2, <2>3, <2>4, ToTheWalk
  <2>6. QED
    BY <1>4, <2>1, <2>5
<1>12. ASSUME NEW m \in Mutexes, WalkOn(t, m)
       PROVE  ListsOK'
  <2>1. own2 = [own EXCEPT ![m] = None] /\ nx2 = nx /\ pv2 = pv
    BY <1>2, <1>5, <1>6, <1>8, <1>12 DEF WalkOn
  <2>2. \A u \in Threads, j \in Int :
          head2[u][j] = IF u = t /\ j = -1 THEN nx[m] ELSE head[u][j]
    BY <1>2, <1>5, <1>6, <1>7, <1>12 DEF WalkOn
  <2>3. m = head[t][-1]
    BY <1>5, <1>12 DEF WalkOn
  <2>4. Lists(own2, at, pos, nx, pv, head2)
    <3>1. Passed(own, nx, head, t, m, own2, head2)
      BY <1>6, <2>1, <2>2, <2>3 DEF Passed
    <3>2. QED
      BY <1>3, <3>1, WalkedPast
  <2>5. QED
    BY <1>4, <2>1, <2>4
<1>13. ASSUME NEW i \in Nat, NEW m \in Mutexes, PutOnFront(t, i, m)
       PROVE  ListsOK'
  <2>1. PICK h : h = head[t][i]
    OBVIOUS
  <2>2. h = HeadAt(t, i)
    BY <1>5, <2>1
  <2>3. /\ own[m] = None /\ own2 = [own EXCEPT ![m] = t]
        /\ nx2 = [nx EXCEPT ![m] = h]
        /\ pv2 = [k \in Mutexes |-> IF k = h THEN m ELSE IF k = m THEN None ELSE pv[k]]
    BY <1>2, <1>5, <1>6, <1>8, <1>13, <2>2 DEF PutOnFront
  <2>4. \A u \in Threads, j \in Int :
          head2[u][j] = IF u = t /\ j = i THEN m ELSE head[u][j]
    BY <1>5, <1>6, <1>7, <1>13 DEF PutOnFront
  <2>5. PICK at2, pos2 :
          /\ at2 = [at EXCEPT ![m] = i]
          /\ pos2 = [k \in Mutexes |-> IF k = m THEN 0 ELSE pos[k] + 1]
    OBVIOUS
  <2>6. Lists(own2, at2, pos2, nx2, pv2, head2)
    <3>1. Pushed(own, at, pos, nx, pv, head, t, i, m, h, own2, at2, pos2, nx2, pv2, head2)
      BY <1>6, <2>1, <2>3, <2>4, <2>5 DEF Pushed
    <3>2. QED
      BY <1>3, <3>1, OnFront
  <2>7. QED
    BY <1>4, <2>6
<1>14. ASSUME NEW i \in Nat, NEW m \in Mutexes, TakeOut(t, i, m)
       PROVE  ListsOK'
  <2>1. own[m] = t /\ at[m] = i
    <3>1. ListOf(Heads[t][i]) = {k \in Mutexes : Own[k] = t /\ at[k] = i}
      BY <1>1, ReachedIs
    <3>2. m \in ListOf(Heads[t][i])
      BY <1>2, <1>5, <1>14 DEF TakeOut
    <3>3. QED
      BY <1>2, <3>1, <3>2
  <2>2. /\ own2 = [own EXCEPT ![m] = None]
        /\ nx2 = IF pv[m] # None THEN [nx EXCEPT ![pv[m]] = nx[m]] ELSE nx
        /\ pv2 = [k \in Mutexes |-> IF k = nx[m] THEN pv[m] ELSE pv[k]]
    BY <1>2, <1>5, <1>6, <1>8, <1>14 DEF TakeOut
  <2>3. \A u \in Threads, j \in Int :
          head2[u][j] = IF u = t /\ j = i /\ pv[m] = None THEN nx[m] ELSE head[u][j]
    BY <1>2, <1>5, <1>6, <1>7, <1>14 DEF TakeOut
  <2>4. Lists(own2, at, pos, nx2, pv2, head2)
    <3>1. Unlinked(own, at, nx, pv, head, t, i, m, own2, nx2, pv2, head2)
      BY <1>6, <2>1, <2>2, <2>3 DEF Unlinked
    <3>2. QED
      BY <1>3, <3>1, OutOfList
  <2>5. QED
    BY <1>4, <2>4
<1>15. QED
  BY <1>10, <1>11, <1>12, <1>13, <1>14 DEF ListMove

LEMMA ListMoves ==
  ASSUME TypeOK, ControlOK, OwnersOK, AtomicUnlock,
         "argError" \notin AmlMay, "releaseElsewhere" \notin AmlMay,
         NEW t \in Threads, Aml(t) \/ Interpret(t), StackFine(t)
  PROVE  ListMove(t)
<1> USE DEF lockVars, listVars, walkVars
<1>1. /\ stack[t] \in Seq(Entry) /\ Len(stack[t]) \in Nat /\ Depth(t) = Len(stack[t])
      /\ stack \in [Threads -> Seq(Entry)] /\ pc \in [Threads -> PCs]
      /\ globalLink \in [Threads -> Link] /\ cur \in [Threads -> Link]
      /\ back \in [Threads -> {"run", "unwind", "teardown"}]
      /\ op \in [Threads -> Locks \cup {None}] /\ owner \in [Locks -> Threads \cup {None}]
      /\ Serialized \subseteq Methods /\ Mutexes \cap Serialized = {}
      /\ Mutexes \subseteq Locks /\ Serialized \subseteq Locks /\ None \notin Methods
  BY LocksAssumption DEF TypeOK, Depth, Locks
<1>2. /\ EntriesFine(stack[t])
      /\ pc[t] \notin {"releaseClear", "serialClear", "walkClear"}
  BY DEF StackFine
<1>3. pc[t] \in {"run", "callStore", "acquireStore", "unwind"} => Len(stack[t]) > 0
  BY <1>1 DEF ControlOK
<1>4. Len(stack[t]) > 0 => Top(t) = stack[t][Len(stack[t])] /\ Top(t) \in Entry
  BY <1>1, ElementOfSeq DEF Top
\* The lists stay as they are when the heads do.
<1>5. ASSUME UNCHANGED <<next, prev>>, \A m \in Mutexes : owner'[m] = owner[m],
             globalLink'[t] = globalLink[t], Walked(t)' = Walked(t),
             \A i \in Int : HeadIn(stack'[t], globalLink[t], Walked(t), i) = HeadAt(t, i)
      PROVE  ListMove(t)
  BY <1>5 DEF ListMove, SameLists, HeadAt
<1>6. pc[t] # "walk" /\ pc'[t] # "walk" => Walked(t) = None /\ Walked(t)' = None
  BY DEF Walked
\* The stack stays.
<1>7. ASSUME UNCHANGED <<next, prev>>, \A m \in Mutexes : owner'[m] = owner[m],
             globalLink'[t] = globalLink[t], Walked(t)' = Walked(t), stack'[t] = stack[t]
      PROVE  ListMove(t)
  BY <1>5, <1>7 DEF HeadAt
\* An entry goes on top.
<1>8. ASSUME UNCHANGED <<next, prev>>, \A m \in Mutexes : owner'[m] = owner[m],
             globalLink'[t] = globalLink[t], Walked(t)' = Walked(t),
             NEW k \in {"scope", "call", "method", "load", "block"}, NEW f \in Methods \cup {None},
             Push(t, NewEntry(k, f)), k \in {"call", "method"} \/ f = None,
             k = "scope" => Len(stack[t]) = 0
      PROVE  ListMove(t)
  <2>1. PICK w, z, e, g, x :
          /\ w = stack'[t] /\ z = stack[t] /\ e = NewEntry(k, f)
          /\ g = globalLink[t] /\ x = Walked(t)
    OBVIOUS
  <2>2. Grown(w, z, e) /\ Len(z) \in Nat
    BY <1>1, <1>8, <2>1, PushGrows DEF Kinds
  <2>3. \A i \in Int : HeadIn(w, g, x, i) = HeadIn(z, g, x, i)
    BY <2>2, HeadGrown
  <2>4. QED
    BY <1>5, <1>8, <2>1, <2>3 DEF HeadAt
\* What popping the top entry does to the heads.
<1>9. ASSUME Pop(t), Len(stack[t]) > 0, NEW g, NEW x, NEW i \in Int
      PROVE  HeadIn(stack'[t], g, x, i)
               = IF i = Len(stack[t]) THEN None ELSE HeadIn(stack[t], g, x, i)
  <2>1. PICK w, z : w = stack'[t] /\ z = stack[t]
    OBVIOUS
  <2>2. Prefix(w, z) /\ Len(w) = Len(z) - 1 /\ Len(z) \in Nat \ {0}
    BY <1>1, <1>9, <2>1, PopShrinks
  <2>3. QED
    BY <2>1, <2>2, HeadPrefix
\* The top entry has a list of its own.
<1>10. ASSUME Len(stack[t]) > 0, NEW g, NEW x
       PROVE  HeadIn(stack[t], g, x, Len(stack[t])) = Top(t).link
  BY <1>1, <1>4, <1>10 DEF HeadIn
\* An entry without a list goes.
<1>11. ASSUME UNCHANGED <<next, prev>>, \A m \in Mutexes : owner'[m] = owner[m],
              globalLink'[t] = globalLink[t], Walked(t)' = Walked(t),
              Pop(t), Len(stack[t]) > 0, Top(t).kind \notin {"method", "load"}
       PROVE  ListMove(t)
  <2>1. Top(t).link = None
    BY <1>1, <1>2, <1>4, <1>11 DEF EntriesFine
  <2>2. \A i \in Int : HeadIn(stack'[t], globalLink[t], Walked(t), i) = HeadAt(t, i)
    BY <1>9, <1>10, <1>11, <2>1 DEF HeadAt
  <2>3. QED
    BY <1>5, <1>11, <2>2
\* A destructor begins.
<1>12. ASSUME NEW e, NEW b, Destroy(t, e, b)
       PROVE  /\ pc'[t] = "walk" /\ cur'[t] = e.link
              /\ \A m \in Mutexes : owner'[m] = owner[m]
  BY <1>1, <1>12 DEF Destroy, OsUnlock
<1>13. CASE Execute(t) \/ Load(t) \/ OpenBlock(t)
  <2>1. PICK k \in {"scope", "load", "block"} :
          Push(t, NewEntry(k, None)) /\ (k = "scope" => pc[t] = "idle")
    BY <1>13 DEF Execute, Load, OpenBlock
  <2>2. pc[t] # "walk" /\ pc'[t] # "walk"
    BY <1>1, <1>13 DEF Execute, Load, OpenBlock
  <2>3. UNCHANGED <<next, prev, owner, globalLink>>
    BY <1>13 DEF Execute, Load, OpenBlock
  <2>4. k = "scope" => Len(stack[t]) = 0
    BY <1>1, <2>1 DEF StackFine
  <2>5. QED
    BY <1>6, <1>8, <2>1, <2>2, <2>3, <2>4
<1>14. ASSUME NEW f \in Methods, Invoke(t, f) \/ BeginCall(t, f)
       PROVE  ListMove(t)
  <2>1. PICK k \in {"call", "method"}, at \in {"invokeStore", "callStore"} :
          /\ EnterMethod(t, f, k, at) /\ UNCHANGED <<next, prev, globalLink>>
          /\ pc[t] \in {"idle", "run"}
    BY <1>14 DEF Invoke, BeginCall
  <2>2. pc[t] # "walk" /\ pc'[t] # "walk" /\ owner' = owner
    BY <1>1, <2>1 DEF EnterMethod, OsLock
  <2>3. CASE Push(t, NewEntry(k, f))
    <3>1. k # "scope" /\ k \in {"scope", "call", "method", "load", "block"}
      OBVIOUS
    <3>2. QED
      BY <1>6, <1>8, <2>1, <2>2, <2>3, <3>1
  <2>4. CASE stack' = stack
    BY <1>6, <1>7, <2>1, <2>2, <2>4
  <2>5. QED
    BY <2>1, <2>3, <2>4 DEF EnterMethod
<1>15. CASE InvokeStore(t) \/ CallStore(t)
  <2>1. PICK k \in {"call", "method"} :
          /\ Push(t, NewEntry(k, op[t])) /\ UNCHANGED <<next, prev, globalLink>>
          /\ pc' = [pc EXCEPT ![t] = "run"] /\ pc[t] \in {"invokeStore", "callStore"}
          /\ owner' = [owner EXCEPT ![op[t]] = t]
    BY <1>15 DEF InvokeStore, CallStore, EnterStore
  <2>2. op[t] \in Serialized
    BY <2>1 DEF ControlOK
  <2>3. \A m \in Mutexes : owner'[m] = owner[m]
    BY <1>1, <2>1, <2>2
  <2>4. pc[t] # "walk" /\ pc'[t] # "walk"
    BY <1>1, <2>1
  <2>5. k # "scope" /\ k \in {"scope", "call", "method", "load", "block"} /\ op[t] \in Methods
    BY <1>1, <2>2
  <2>6. QED
    BY <1>6, <1>8, <2>1, <2>3, <2>4, <2>5
<1>16. CASE Call(t)
  <2>1. /\ pc[t] = "run" /\ Len(stack[t]) > 0 /\ Top(t).kind = "call" /\ pc'[t] # "walk"
        /\ UNCHANGED <<next, prev, globalLink, owner>>
    BY <1>1, <1>3, <1>16 DEF Call
  <2>2. CASE Put(t, Depth(t), [Top(t) EXCEPT !.kind = "method"])
    <3>1. PICK w, z, n, g, x : w = stack'[t] /\ z = stack[t] /\ n = Len(stack[t])
                               /\ g = globalLink[t] /\ x = Walked(t)
      OBVIOUS
    <3>2. n \in 1 .. Len(z) /\ n = Len(z) /\ z[n] \in Entry /\ Top(t) = z[n] /\ Len(z) \in Nat
      BY <1>1, <1>4, <2>1, <3>1
    <3>3. PICK e : e = [z[n] EXCEPT !.kind = "method"]
      OBVIOUS
    <3>4. e \in Entry /\ e.link = z[n].link
      BY <3>2, <3>3 DEF Entry, Kinds
    <3>5. Replaced(w, z, n, e)
      <4>1. Put(t, n, e) /\ n \in 1 .. Len(stack[t])
        BY <1>1, <2>2, <3>1, <3>2, <3>3
      <4>2. QED
        BY <3>1, <3>4, <4>1, PutReplaces
    <3>6. ASSUME NEW i \in Int
          PROVE  HeadIn(w, g, x, i) = IF i = n THEN e.link ELSE HeadIn(z, g, x, i)
      BY <3>2, <3>5 DEF HeadIn, Replaced
    <3>7. HeadIn(z, g, x, n) = z[n].link
      BY <1>10, <2>1, <3>1, <3>2
    <3>8. \A i \in Int : HeadIn(w, g, x, i) = HeadIn(z, g, x, i)
      BY <3>4, <3>6, <3>7
    <3>9. QED
      BY <1>5, <1>6, <2>1, <3>1, <3>8 DEF HeadAt
  <2>3. CASE Pop(t)
    BY <1>6, <1>11, <2>1, <2>3
  <2>4. QED
    BY <1>16, <2>2, <2>3 DEF Call
<1>17. CASE CloseBlock(t) \/ ScopeEnd(t) \/ UnwindDrop(t)
  <2>1. /\ Pop(t) /\ UNCHANGED <<next, prev, globalLink, owner>> /\ Len(stack[t]) > 0
        /\ Top(t).kind \in {"block", "scope", "call"}
        /\ pc[t] # "walk" /\ pc'[t] # "walk"
    BY <1>1, <1>3, <1>17 DEF CloseBlock, ScopeEnd, UnwindDrop
  <2>2. QED
    BY <1>6, <1>11, <2>1
<1>18. CASE MethodEnd(t) \/ UnwindFrame(t)
  <2>1. PICK b : /\ Pop(t) /\ Destroy(t, Top(t), b) /\ UNCHANGED <<next, prev, globalLink>>
                 /\ Len(stack[t]) > 0 /\ pc[t] # "walk"
    BY <1>1, <1>3, <1>18 DEF MethodEnd, UnwindFrame
  <2>2. /\ \A m \in Mutexes : owner'[m] = owner[m]
        /\ Walked(t) = None /\ Walked(t)' = Top(t).link
    BY <1>12, <2>1 DEF Walked
  <2>3. PICK n : n = Len(stack[t])
    OBVIOUS
  <2>4. HeadAt(t, n) = Top(t).link /\ HeadAt(t, -1) = None /\ n \in Nat
    <3>1. HeadIn(stack[t], globalLink[t], Walked(t), n) = Top(t).link
      BY <1>10, <2>1, <2>3
    <3>2. HeadIn(stack[t], globalLink[t], Walked(t), -1) = Walked(t)
      BY DEF HeadIn
    <3>3. QED
      BY <1>1, <2>2, <2>3, <3>1, <3>2 DEF HeadAt
  <2>5. ASSUME NEW j \in Int
        PROVE  HeadAt(t, j)' = IF j = -1 THEN HeadAt(t, n)
                               ELSE IF j = n THEN None ELSE HeadAt(t, j)
    <3>1. PICK g, x, y : g = globalLink[t] /\ x = Walked(t) /\ y = Walked(t)'
      OBVIOUS
    <3>2. HeadAt(t, j)' = HeadIn(stack'[t], g, y, j)
      BY <2>1, <3>1 DEF HeadAt
    <3>3. CASE j = -1
      <4>1. HeadIn(stack'[t], g, y, j) = y
        BY <3>3 DEF HeadIn
      <4>2. QED
        BY <2>2, <2>4, <3>1, <3>2, <3>3, <4>1
    <3>4. CASE j # -1
      <4>1. HeadIn(stack'[t], g, y, j) = IF j = n THEN None ELSE HeadIn(stack[t], g, y, j)
        BY <1>9, <2>1, <2>3
      <4>2. HeadIn(stack[t], g, y, j) = HeadIn(stack[t], g, x, j)
        BY <3>4 DEF HeadIn
      <4>3. QED
        BY <3>1, <3>2, <3>4, <4>1, <4>2 DEF HeadAt
    <3>5. QED
      BY <3>3, <3>4
  <2>6. StartWalk(t, n)
    BY <2>1, <2>2, <2>4, <2>5 DEF StartWalk
  <2>7. QED
    BY <2>4, <2>6 DEF ListMove
<1>19. CASE Fail(t)
  <2>1. UNCHANGED <<stack, globalLink, next, prev, owner>> /\ pc[t] # "walk" /\ pc'[t] # "walk"
    BY <1>1, <1>19 DEF Fail
  <2>2. QED
    BY <1>6, <1>7, <2>1
<1>20. ASSUME NEW m \in Mutexes, Acquire(t, m)
       PROVE  ListMove(t)
  <2>1. UNCHANGED <<stack, globalLink, next, prev, owner>> /\ pc[t] # "walk" /\ pc'[t] # "walk"
    BY <1>1, <1>20 DEF Acquire, OsLock
  <2>2. QED
    BY <1>6, <1>7, <2>1
\* The head of the current list.
<1>21. \E i \in Nat :
         /\ LinkOf(t) = HeadAt(t, i)
         /\ \A m \in Link : SetLink(t, m) =>
              \A j \in Int : HeadIn(stack'[t], globalLink'[t], Walked(t), j)
                               = IF j = i THEN m ELSE HeadAt(t, j)
  <2>1. CASE MethodFrames(t) = {}
    <3>1. LinkOf(t) = HeadAt(t, 0)
      BY <2>1 DEF LinkOf, HeadAt, HeadIn
    <3>2. ASSUME NEW m \in Link, SetLink(t, m), NEW j \in Int
          PROVE  HeadIn(stack'[t], globalLink'[t], Walked(t), j) = IF j = 0 THEN m ELSE HeadAt(t, j)
      <4>1. stack' = stack /\ globalLink'[t] = m
        BY <1>1, <2>1, <3>2 DEF SetLink
      <4>2. QED
        BY <4>1 DEF HeadAt, HeadIn
    <3>3. QED
      BY <3>1, <3>2
  <2>2. CASE MethodFrames(t) # {}
    <3>1. PICK n : n = Innermost(t)
      OBVIOUS
    <3>2. n \in 1 .. Len(stack[t]) /\ stack[t][n] \in Entry
      BY <2>2, <3>1, InnermostIn
    <3>3. LinkOf(t) = HeadAt(t, n)
      BY <1>1, <2>2, <3>1, <3>2 DEF LinkOf, HeadAt, HeadIn
    <3>4. ASSUME NEW m \in Link, SetLink(t, m), NEW j \in Int
          PROVE  HeadIn(stack'[t], globalLink'[t], Walked(t), j) = IF j = n THEN m ELSE HeadAt(t, j)
      <4>1. globalLink' = globalLink /\ Replaced(stack'[t], stack[t], n, [stack[t][n] EXCEPT !.link = m])
        BY <2>2, <3>1, <3>4, SetLinkReplaces
      <4>2. PICK w, z, e : w = stack'[t] /\ z = stack[t] /\ e = [z[n] EXCEPT !.link = m]
        OBVIOUS
      <4>3. e.link = m
        BY <3>2, <4>2 DEF Entry
      <4>4. Replaced(w, z, n, e) /\ n \in 1 .. Len(z) /\ Len(z) \in Nat
        BY <1>1, <3>2, <4>1, <4>2
      <4>5. HeadIn(w, globalLink[t], Walked(t), j)
              = IF j = n THEN m ELSE HeadIn(z, globalLink[t], Walked(t), j)
        BY <4>3, <4>4 DEF HeadIn, Replaced
      <4>6. QED
        BY <4>1, <4>2, <4>5 DEF HeadAt
    <3>5. n \in Nat
      BY <1>1, <3>2
    <3>6. QED
      BY <3>3, <3>4, <3>5
  <2>3. QED
    BY <2>1, <2>2
<1>22. PICK c \in Nat :
         /\ LinkOf(t) = HeadAt(t, c)
         /\ \A m \in Link : SetLink(t, m) =>
              \A j \in Int : HeadIn(stack'[t], globalLink'[t], Walked(t), j)
                               = IF j = c THEN m ELSE HeadAt(t, j)
  BY <1>21
<1>23. CASE AcquireStore(t)
  <2>1. PICK m : m = op[t]
    OBVIOUS
  <2>2. m \in Mutexes /\ m \in Locks /\ pc[t] = "acquireStore" /\ pc'[t] = "run" /\ SetLink(t, m)
        /\ m \in Link
    BY <1>1, <1>23, <2>1 DEF AcquireStore, ControlOK, Link
  <2>3. owner[m] = None
    BY <1>1, <2>1, <2>2 DEF OwnersOK, Storing
  <2>4. \A j \in Int : HeadAt(t, j)' = IF j = c THEN m ELSE HeadAt(t, j)
    BY <1>6, <1>22, <2>2 DEF HeadAt
  <2>5. PutOnFront(t, c, m)
    BY <1>22, <1>23, <2>1, <2>3, <2>4 DEF AcquireStore, PutOnFront
  <2>6. QED
    BY <2>2, <2>5 DEF ListMove
<1>24. ASSUME NEW m \in Mutexes, Release(t, m)
       PROVE  ListMove(t)
  <2>1. pc[t] = "run" /\ pc'[t] = "run" /\ m \in ListOf(LinkOf(t))
    BY <1>1, <1>24 DEF Release, OsUnlock
  <2>2. CASE UNCHANGED <<owner, next, prev, stack, globalLink>>
    BY <1>6, <1>7, <2>1, <2>2
  <2>3. CASE Unlink(t, m) /\ OsUnlock(t, m, "releaseClear", "run")
    <3>1. owner' = [owner EXCEPT ![m] = None] /\ m \in ListOf(HeadAt(t, c))
      BY <1>22, <2>1, <2>3 DEF OsUnlock
    <3>2. prev' = [k \in Mutexes |-> IF k = next[m] THEN prev[m] ELSE prev[k]]
      BY <2>3 DEF Unlink
    <3>3. CASE prev[m] # None
      <4>1. next' = [next EXCEPT ![prev[m]] = next[m]] /\ UNCHANGED <<stack, globalLink>>
        BY <2>3, <3>3 DEF Unlink
      <4>2. \A j \in Int : HeadAt(t, j)' = HeadAt(t, j)
        BY <1>6, <2>1, <4>1 DEF HeadAt
      <4>3. TakeOut(t, c, m)
        BY <3>1, <3>2, <3>3, <4>1, <4>2 DEF TakeOut
      <4>4. QED
        BY <4>3 DEF ListMove
    <3>4. CASE prev[m] = None
      <4>1. PICK h : h = next[m]
        OBVIOUS
      <4>2. next' = next /\ SetLink(t, h) /\ h \in Link
        BY <2>3, <3>4, <4>1 DEF Unlink, TypeOK
      <4>3. \A j \in Int : HeadAt(t, j)' = IF j = c THEN h ELSE HeadAt(t, j)
        BY <1>6, <1>22, <2>1, <4>2 DEF HeadAt
      <4>4. TakeOut(t, c, m)
        BY <3>1, <3>2, <3>4, <4>1, <4>2, <4>3 DEF TakeOut
      <4>5. QED
        BY <4>4 DEF ListMove
    <3>5. QED
      BY <3>3, <3>4
  <2>4. QED
    BY <1>24, <2>2, <2>3 DEF Release
<1>25. CASE Walk(t)
  <2>1. /\ pc[t] = "walk" /\ UNCHANGED <<next, prev, stack, globalLink>>
        /\ Walked(t) = cur[t]
    BY <1>25 DEF Walk, Walked
  <2>2. CASE cur[t] = None
    <3>1. owner' = owner /\ pc'[t] # "walk"
      BY <1>1, <1>25, <2>2 DEF Walk
    <3>2. Walked(t)' = Walked(t)
      BY <2>1, <2>2, <3>1 DEF Walked
    <3>3. QED
      BY <1>7, <2>1, <3>1, <3>2
  <2>3. CASE cur[t] # None
    <3>1. PICK m : m = cur[t]
      OBVIOUS
    <3>2. /\ m \in Mutexes /\ owner' = [owner EXCEPT ![m] = None]
          /\ pc'[t] = "walk" /\ cur'[t] = next[m]
      BY <1>1, <1>25, <2>3, <3>1 DEF Walk, OsUnlock, Link
    <3>3. m = HeadAt(t, -1)
      BY <2>1, <3>1 DEF HeadAt, HeadIn
    <3>4. ASSUME NEW j \in Int
          PROVE  HeadAt(t, j)' = IF j = -1 THEN next[m] ELSE HeadAt(t, j)
      BY <2>1, <3>2, <3>4 DEF HeadAt, HeadIn, Walked
    <3>5. WalkOn(t, m)
      BY <2>1, <3>2, <3>3, <3>4 DEF WalkOn
    <3>6. QED
      BY <3>2, <3>5 DEF ListMove
  <2>4. QED
    BY <2>2, <2>3
<1>26. CASE UnwindDone(t)
  <2>1. UNCHANGED <<stack, globalLink, next, prev, owner>> /\ pc[t] # "walk" /\ pc'[t] # "walk"
    BY <1>1, <1>26 DEF UnwindDone
  <2>2. QED
    BY <1>6, <1>7, <2>1
<1>27. CASE TeardownList(t)
  <2>1. /\ pc[t] # "walk" /\ pc'[t] = "walk" /\ UNCHANGED <<next, prev, owner, stack>>
        /\ cur'[t] = globalLink[t] /\ globalLink'[t] = None
    BY <1>1, <1>27 DEF TeardownList
  <2>2. HeadAt(t, -1) = None /\ HeadAt(t, 0) = globalLink[t]
    BY <2>1 DEF HeadAt, HeadIn, Walked
  <2>3. ASSUME NEW j \in Int
        PROVE  HeadAt(t, j)' = IF j = -1 THEN HeadAt(t, 0)
                               ELSE IF j = 0 THEN None ELSE HeadAt(t, j)
    BY <2>1, <2>2, <2>3 DEF HeadAt, HeadIn, Walked
  <2>4. StartWalk(t, 0)
    BY <2>1, <2>2, <2>3 DEF StartWalk
  <2>5. QED
    BY <2>4 DEF ListMove
<1>28. CASE TeardownFrame(t)
  <2>1. PICK n \in MethodFrames(t) :
          Put(t, n, NewEntry("dead", None)) /\ Destroy(t, stack[t][n], "teardown")
    BY <1>28 DEF TeardownFrame
  <2>2. pc[t] # "walk" /\ UNCHANGED <<next, prev, globalLink>>
    BY <1>28 DEF TeardownFrame
  <2>3. PICK e, w, z : e = NewEntry("dead", None) /\ w = stack'[t] /\ z = stack[t]
    OBVIOUS
  <2>4. e \in Entry /\ e.link = None /\ n \in 1 .. Len(z) /\ Len(z) \in Nat /\ n \in Nat
    BY <1>1, <2>3 DEF NewEntry, Entry, Kinds, Link, MethodFrames
  <2>5. Replaced(w, z, n, e)
    BY <2>1, <2>3, <2>4, PutReplaces
  <2>6. /\ \A m \in Mutexes : owner'[m] = owner[m]
        /\ Walked(t) = None /\ Walked(t)' = z[n].link
    BY <1>12, <2>1, <2>2, <2>3 DEF Walked
  <2>7. HeadAt(t, -1) = None /\ HeadAt(t, n) = z[n].link
    BY <2>3, <2>4, <2>6 DEF HeadAt, HeadIn
  <2>8. ASSUME NEW j \in Int
        PROVE  HeadAt(t, j)' = IF j = -1 THEN HeadAt(t, n)
                               ELSE IF j = n THEN None ELSE HeadAt(t, j)
    <3>1. HeadAt(t, j)' = HeadIn(w, globalLink[t], z[n].link, j)
      BY <2>2, <2>3, <2>6 DEF HeadAt
    <3>2. HeadAt(t, j) = HeadIn(z, globalLink[t], None, j)
      BY <2>3, <2>6 DEF HeadAt
    <3>3. QED
      BY <2>4, <2>5, <2>7, <3>1, <3>2 DEF HeadIn, Replaced
  <2>9. StartWalk(t, n)
    BY <2>2, <2>6, <2>7, <2>8 DEF StartWalk
  <2>10. QED
    BY <2>4, <2>9 DEF ListMove
<1>29. CASE TeardownDone(t)
  <2>1. /\ pc[t] # "walk" /\ pc'[t] # "walk" /\ UNCHANGED <<next, prev, owner, globalLink>>
        /\ stack'[t] = <<>> /\ MethodFrames(t) = {}
    BY <1>1, <1>29 DEF TeardownDone
  <2>2. \A i \in 1 .. Len(stack[t]) : stack[t][i].link = None
    BY <1>1, <1>2, <2>1 DEF EntriesFine, MethodFrames
  <2>3. \A i \in Int : HeadIn(stack'[t], globalLink[t], Walked(t), i) = HeadAt(t, i)
    BY <2>1, <2>2 DEF HeadAt, HeadIn
  <2>4. QED
    BY <1>5, <1>6, <2>1, <2>3
<1>30. ~ (Abort(t) \/ ReleaseClear(t) \/ SerialClear(t) \/ WalkClear(t))
  BY <1>2 DEF Abort, ReleaseClear, SerialClear, WalkClear, ClearOwner
<1>31. QED
  BY <1>13, <1>14, <1>15, <1>16, <1>17, <1>18, <1>19, <1>20, <1>23, <1>24, <1>25, <1>26, <1>27,
     <1>28, <1>29, <1>30 DEF Aml, Interpret

-----------------------------------------------------------------------------
(* What the lists say, without the witnesses                                 *)

ListFacts(t) ==
  /\ \A m \in Mutexes : owner[m] = t <=> \E i \in Int : m \in ListOf(HeadAt(t, i))
  /\ \A m \in Mutexes, i, j \in Int :
       m \in ListOf(HeadAt(t, i)) /\ m \in ListOf(HeadAt(t, j)) => i = j
  /\ \A m \in Mutexes : owner[m] = t /\ next[m] # None => prev[next[m]] = m
  /\ \A m \in Mutexes, i \in Nat :
       m \in ListOf(HeadAt(t, i)) /\ prev[m] # None => owner[prev[m]] = t
  /\ \A m \in Mutexes, i \in Int : m = HeadAt(t, i) => owner[m] = t

LEMMA Listing ==
  ASSUME TypeOK, ListsOK, NEW t \in Threads
  PROVE  ListFacts(t)
<1>1. PICK at, pos : Lists(Own, at, pos, next, prev, Heads)
  BY DEF ListsOK
<1>2. /\ \A i \in Int : Heads[t][i] = HeadAt(t, i)
      /\ \A m \in Mutexes : Own[m] = owner[m]
  BY HeadsType DEF HeadsOK
<1>3. PICK own, head : own = Own /\ head = Heads
  OBVIOUS
<1>4. Lists(own, at, pos, next, prev, head)
  BY <1>1, <1>3
<1>5. \A i \in Int : ListOf(head[t][i]) = {m \in Mutexes : own[m] = t /\ at[m] = i}
  BY <1>4, ReachedIs
<1>6. \A i \in Int : ListOf(HeadAt(t, i)) = {m \in Mutexes : owner[m] = t /\ at[m] = i}
  BY <1>2, <1>3, <1>5
<1>7. \A m \in Mutexes : owner[m] = t /\ next[m] # None => prev[next[m]] = m
  <2>1. t # None
    BY ThreadsAssumption
  <2>2. QED
    BY <1>2, <1>3, <1>4, <2>1 DEF Lists
<1>8. ASSUME NEW m \in Mutexes, NEW i \in Nat, m \in ListOf(HeadAt(t, i)), prev[m] # None
      PROVE  owner[prev[m]] = t
  <2>1. own[m] = t /\ at[m] = i /\ t # None /\ i # -1
    BY <1>2, <1>3, <1>6, <1>8, ThreadsAssumption
  <2>2. m # head[t][i]
    BY <1>4, <1>8, <2>1, LocksAssumption DEF Lists
  <2>3. own[prev[m]] = t /\ prev[m] \in Mutexes
    BY <1>4, <1>8, <2>1, <2>2 DEF Lists, Link
  <2>4. QED
    BY <1>2, <1>3, <2>3
<1>9. ASSUME NEW m \in Mutexes, NEW i \in Int, m = HeadAt(t, i)
      PROVE  owner[m] = t
  <2>1. m = head[t][i] /\ m # None
    BY <1>2, <1>3, <1>9, LocksAssumption
  <2>2. own[m] = t
    BY <1>4, <2>1 DEF Lists
  <2>3. QED
    BY <1>2, <1>3, <2>2
<1>10. at \in [Mutexes -> Int]
  BY <1>4 DEF Lists
<1>11. QED
  BY <1>6, <1>7, <1>8, <1>9, <1>10 DEF ListFacts

-----------------------------------------------------------------------------
(* The inductive invariant                                                  *)

\* The host does not preempt Mutex::unlock, and AML releases a mutex in the method
\* that acquired it and does not fail while a call waits for its arguments with
\* the callee's lock taken.
Discipline ==
  AtomicUnlock /\ "releaseElsewhere" \notin AmlMay /\ "argError" \notin AmlMay

LInv ==
  /\ TypeOK /\ ControlOK /\ BaseOK /\ LockCoversEntries
  /\ \A t \in Threads : StackFine(t)
  /\ OwnersOK /\ Balanced /\ ListsOK

LEMMA WalkOwned ==
  ASSUME TypeOK, ListsOK, NEW t \in Threads
  PROVE  WalkOwns(t)
<1> SUFFICES ASSUME pc[t] = "walk", cur[t] # None
             PROVE  owner[cur[t]] = t
  BY DEF WalkOwns
<1>1. ListFacts(t)
  BY Listing
<1>2. cur[t] \in Mutexes
  BY DEF TypeOK, Link
<1>3. cur[t] = HeadAt(t, -1)
  BY DEF HeadAt, HeadIn, Walked
<1>4. QED
  BY <1>1, <1>2, <1>3 DEF ListFacts

\* One step of one thread.
LEMMA MovesOf ==
  ASSUME Discipline, LInv, NEW t \in Threads, Aml(t) \/ Interpret(t)
  PROVE  LockMove(t) /\ ListMove(t)
<1>1. StackFine(t) /\ WalkOwns(t)
  BY WalkOwned DEF LInv
<1>2. LockMove(t)
  BY <1>1, LockMoves DEF LInv, Discipline
<1>3. ListMove(t)
  BY <1>1, ListMoves DEF LInv, Discipline
<1>4. QED
  BY <1>2, <1>3

LEMMA StackFineAll ==
  ASSUME Discipline, LInv, NEW t \in Threads, Aml(t) \/ Interpret(t), NEW u \in Threads
  PROVE  StackFine(u)'
<1>1. CASE u = t
  BY <1>1, StackFineStep DEF LInv, Discipline
<1>2. CASE u # t
  <2>1. StackFine(u) /\ TypeOK
    BY DEF LInv
  <2>2. /\ stack'[u] = stack[u] /\ globalLink'[u] = globalLink[u]
        /\ pc'[u] = pc[u] /\ back'[u] = back[u]
    BY <1>2, <2>1, OthersKept
  <2>3. QED
    BY <2>1, <2>2 DEF StackFine, Discarding, Depth
<1>3. QED
  BY <1>1, <1>2

LEMMA InvStays ==
  ASSUME LInv, UNCHANGED vars
  PROVE  LInv'
<1>1. /\ TypeOK /\ ControlOK /\ BaseOK /\ LockCoversEntries
      /\ \A t \in Threads : StackFine(t)
      /\ OwnersOK /\ Balanced /\ ListsOK
  BY DEF LInv
<1>2. TypeOK' /\ ControlOK' /\ BaseOK' /\ LockCoversEntries'
  <2>1. TypeControl' /\ BaseOK' /\ LockCoversEntries'
    BY <1>1, TypeStep, BaseStep, CoversStep DEF TypeControl
  <2>2. QED
    BY <2>1 DEF TypeControl
<1>3. \A t \in Threads : StackFine(t)'
  BY <1>1 DEF vars, StackFine, Discarding, Depth
<1>4. OwnersOK'
  BY <1>1 DEF vars, OwnersOK, Storing
<1>5. Balanced'
  BY <1>1 DEF vars, Balanced, BalancedAt, Storing, Entered, Depth
<1>6. ListsOK'
  <2>1. Own' = Own /\ Heads' = Heads /\ next' = next /\ prev' = prev
    BY DEF vars, Own, Heads, HeadAt, Walked
  <2>2. QED
    BY <1>1, <2>1 DEF ListsOK
<1>7. QED
  BY <1>2, <1>3, <1>4, <1>5, <1>6 DEF LInv

LEMMA InvStep ==
  ASSUME Discipline, LInv, [Next]_vars
  PROVE  LInv'
<1>1. CASE UNCHANGED vars
  BY <1>1, InvStays
<1>2. ASSUME NEW t \in Threads, Aml(t) \/ Interpret(t)
      PROVE  LInv'
  <2>1. TypeOK /\ ControlOK /\ BaseOK /\ LockCoversEntries /\ OwnersOK /\ Balanced /\ ListsOK
    BY DEF LInv
  <2>2. LockMove(t) /\ ListMove(t)
    BY <1>2, MovesOf
  <2>3. TypeControl' /\ BaseOK' /\ LockCoversEntries'
    BY <2>1, TypeStep, BaseStep, CoversStep DEF TypeControl
  <2>4. \A u \in Threads : StackFine(u)'
    BY <1>2, StackFineAll
  <2>5. OwnersOK'
    BY <1>2, <2>1, <2>2, OwnersStep
  <2>6. Balanced'
    BY <1>2, <2>1, <2>2, BalancedStep
  <2>7. TypeOK' /\ ControlOK'
    BY <2>3 DEF TypeControl
  <2>8. ListsOK'
    BY <1>2, <2>1, <2>2, <2>7, ListsStep
  <2>9. QED
    BY <2>3, <2>4, <2>5, <2>6, <2>7, <2>8 DEF LInv
<1>3. QED
  BY <1>1, <1>2 DEF Next

LEMMA InvInit == Init => LInv
<1> SUFFICES ASSUME Init
             PROVE  LInv
  OBVIOUS
<1>1. TypeOK /\ ControlOK /\ BaseOK /\ LockCoversEntries
  BY TypeInit, BaseInit, CoversInit DEF TypeControl
<1>2. /\ \A t \in Threads : /\ pc[t] = "idle" /\ stack[t] = <<>> /\ Len(stack[t]) = 0
                            /\ globalLink[t] = None /\ cur[t] = None
      /\ \A l \in Locks : holder[l] = None /\ owner[l] = None /\ recursion[l] = 0
      /\ None \notin Threads
  BY ThreadsAssumption DEF Init
<1>3. \A t \in Threads : StackFine(t)
  BY <1>2 DEF StackFine, EntriesFine, Discarding, Depth
<1>4. OwnersOK
  BY <1>2 DEF OwnersOK, Storing
<1>5. Balanced
  BY <1>2 DEF Balanced, BalancedAt, Storing, Locks
<1>6. ListsOK
  <2>1. PICK at, pos : at = [m \in Mutexes |-> 0] /\ pos = [m \in Mutexes |-> 0]
    OBVIOUS
  <2>2. HeadsOK
    BY <1>1, HeadsType
  <2>3. \A t \in Threads, i \in Int : Heads[t][i] = None
    BY <1>2, <2>2 DEF HeadsOK, HeadAt, HeadIn, Walked
  <2>4. \A m \in Mutexes : Own[m] = None
    BY <1>2, <2>2 DEF HeadsOK, Locks
  <2>5. next \in [Mutexes -> Link] /\ prev \in [Mutexes -> Link]
    BY <1>1 DEF TypeOK
  <2>6. Lists(Own, at, pos, next, prev, Heads)
    BY <2>1, <2>2, <2>3, <2>4, <2>5 DEF HeadsOK, Lists
  <2>7. QED
    BY <2>6 DEF ListsOK
<1>7. QED
  BY <1>1, <1>3, <1>4, <1>5, <1>6 DEF LInv

\* What every reachable state satisfies, for any threads, mutexes, methods and bounds.
THEOREM ListsInvariance ==
  ASSUME Discipline
  PROVE  Spec => []LInv
<1>1. Init => LInv
  BY InvInit
<1>2. LInv /\ [Next]_vars => LInv'
  BY InvStep
<1>3. QED
  BY <1>1, <1>2, PTL DEF Spec

-----------------------------------------------------------------------------
(* The theorems                                                             *)

\* What is reached from a mutex is in any set that is closed under next.
LEMMA ListInside ==
  ASSUME NEW c, NEW S \in SUBSET Mutexes, c \in S \cup {None},
         \A j \in S : next[j] \in S \cup {None}
  PROVE  ListOf(c) \subseteq S
BY DEF ListOf

LEMMA NoList == ListOf(None) = {}
<1>1. PICK S \in SUBSET Mutexes : S = {}
  OBVIOUS
<1>2. ListOf(None) \subseteq S
  BY <1>1, ListInside
<1>3. QED
  BY <1>1, <1>2

LEMMA Released ==
  ASSUME LInv
  PROVE  ReleasedAtExit
<1> SUFFICES ASSUME NEW t \in Threads, pc[t] = "idle", NEW l \in Locks, holder[l] = t
             PROVE  FALSE
  BY DEF ReleasedAtExit
<1>1. ~ Storing(t, l) /\ Depth(t) = 0 /\ globalLink[t] = None /\ owner[l] = t
  <2>1. ~ Storing(t, l)
    BY DEF Storing
  <2>2. QED
    BY <2>1 DEF LInv, StackFine, OwnersOK
<1>2. CASE l \in Mutexes
  <2>1. ListFacts(t)
    BY Listing DEF LInv
  <2>2. PICK i \in Int : l \in ListOf(HeadAt(t, i))
    BY <1>1, <1>2, <2>1 DEF ListFacts
  <2>3. HeadAt(t, i) = None
    BY <1>1 DEF HeadAt, HeadIn, Walked, Depth
  <2>4. ListOf(None) = {}
    BY NoList
  <2>5. QED
    BY <2>2, <2>3, <2>4
<1>3. CASE l \in Serialized
  <2>1. BalancedAt(t, l) /\ recursion[l] \in Nat
    BY <1>3 DEF LInv, Balanced, TypeOK
  <2>2. Cardinality(Entered(t, l)) = recursion[l] + 1
    BY <1>1, <2>1 DEF BalancedAt
  <2>3. Entered(t, l) = {}
    BY <1>1 DEF Entered
  <2>4. Cardinality({}) = 0
    BY FS_EmptySet
  <2>5. QED
    BY <2>1, <2>2, <2>3, <2>4
<1>4. QED
  BY <1>2, <1>3 DEF Locks

\* A mutex is on a list of the thread that owns it.
LEMMA ListedOwned ==
  ASSUME LInv, NEW t \in Threads, NEW m \in Mutexes
  PROVE  Listed(t, m) <=> owner[m] = t
<1>1. ListFacts(t)
  BY Listing DEF LInv
<1>2. /\ StackFine(t) /\ Depth(t) = Len(stack[t]) /\ Len(stack[t]) \in Nat
      /\ globalLink[t] = HeadAt(t, 0)
      /\ Walked(t) = HeadAt(t, -1)
      /\ \A i \in 1 .. Len(stack[t]) : stack[t][i].link = HeadAt(t, i)
  BY DEF LInv, TypeOK, Depth, HeadAt, HeadIn
<1>3. ListOf(None) = {}
  BY NoList
<1>4. ASSUME Listed(t, m)
      PROVE  owner[m] = t
  <2>1. CASE m \in ListOf(globalLink[t])
    BY <1>1, <1>2, <2>1 DEF ListFacts
  <2>2. CASE pc[t] \in {"serialClear", "walk", "walkClear"} /\ m \in ListOf(cur[t])
    <3>1. Walked(t) = cur[t]
      BY <1>2, <2>2 DEF StackFine, Walked
    <3>2. QED
      BY <1>1, <1>2, <2>2, <3>1 DEF ListFacts
  <2>3. CASE \E i \in MethodFrames(t) : m \in ListOf(stack[t][i].link)
    <3>1. PICK i \in 1 .. Len(stack[t]) : m \in ListOf(stack[t][i].link)
      BY <1>2, <2>3 DEF MethodFrames
    <3>2. m \in ListOf(HeadAt(t, i)) /\ i \in Int
      BY <1>2, <3>1
    <3>3. QED
      BY <1>1, <3>2 DEF ListFacts
  <2>4. QED
    BY <1>4, <2>1, <2>2, <2>3 DEF Listed
<1>5. ASSUME owner[m] = t
      PROVE  Listed(t, m)
  <2>1. PICK i \in Int : m \in ListOf(HeadAt(t, i))
    BY <1>1, <1>5 DEF ListFacts
  <2>2. HeadAt(t, i) # None
    BY <1>3, <2>1
  <2>3. CASE i = 0
    BY <1>2, <2>1, <2>3 DEF Listed
  <2>4. CASE i = -1
    <3>1. pc[t] = "walk" /\ cur[t] = HeadAt(t, i)
      BY <1>2, <2>2, <2>4 DEF Walked
    <3>2. QED
      BY <2>1, <3>1 DEF Listed
  <2>5. CASE i # 0 /\ i # -1
    <3>1. i \in 1 .. Len(stack[t])
      BY <2>2, <2>5 DEF HeadAt, HeadIn
    <3>2. stack[t][i].link = HeadAt(t, i)
      BY <1>2, <3>1
    <3>3. stack[t][i].kind \in {"method", "load"}
      BY <1>2, <2>2, <3>1, <3>2 DEF StackFine, EntriesFine
    <3>4. i \in MethodFrames(t)
      BY <1>2, <3>1, <3>3 DEF MethodFrames
    <3>5. QED
      BY <2>1, <3>2, <3>4 DEF Listed
  <2>6. QED
    BY <2>3, <2>4, <2>5
<1>6. QED
  BY <1>4, <1>5

LEMMA Exact ==
  ASSUME LInv
  PROVE  ListsExact
<1>1. ASSUME NEW m \in Mutexes, NEW t \in Threads
      PROVE  (holder[m] = t /\ ~(pc[t] = "acquireStore" /\ op[t] = m)) <=> Listed(t, m)
  <2>1. m \in Locks /\ m \notin Serialized
    BY LocksAssumption DEF Locks
  <2>2. Storing(t, m) <=> pc[t] = "acquireStore" /\ op[t] = m
    BY <2>1 DEF LInv, ControlOK, Storing
  <2>3. owner[m] = t <=> holder[m] = t /\ ~ Storing(t, m)
    BY <2>1 DEF LInv, OwnersOK
  <2>4. QED
    BY <2>2, <2>3, ListedOwned
<1>2. ASSUME NEW t \in Threads, NEW m \in Mutexes, Listed(t, m)
      PROVE  /\ next[m] # None => prev[next[m]] = m
             /\ Cardinality({i \in MethodFrames(t) : m \in ListOf(stack[t][i].link)}) <= 1
  <2>1. ListFacts(t)
    BY Listing DEF LInv
  <2>2. owner[m] = t
    BY <1>2, ListedOwned
  <2>3. next[m] # None => prev[next[m]] = m
    BY <2>1, <2>2 DEF ListFacts
  <2>4. PICK A : A = {i \in MethodFrames(t) : m \in ListOf(stack[t][i].link)}
    OBVIOUS
  <2>5. PICK c \in Int : m \in ListOf(HeadAt(t, c))
    BY <2>1, <2>2 DEF ListFacts
  <2>6. A \subseteq {c}
    <3>1. SUFFICES ASSUME NEW i \in A
                   PROVE  i = c
      OBVIOUS
    <3>2. i \in 1 .. Len(stack[t]) /\ m \in ListOf(stack[t][i].link) /\ Len(stack[t]) \in Nat
      BY <2>4 DEF MethodFrames, Depth, LInv, TypeOK
    <3>3. HeadAt(t, i) = stack[t][i].link /\ i \in Int
      BY <3>2 DEF HeadAt, HeadIn
    <3>4. QED
      BY <2>1, <2>5, <3>2, <3>3 DEF ListFacts
  <2>7. IsFiniteSet({c}) /\ Cardinality({c}) = 1
    BY FS_Singleton
  <2>8. Cardinality(A) <= 1
    BY <2>6, <2>7, FS_Subset
  <2>9. QED
    BY <2>3, <2>4, <2>8
<1>3. QED
  BY <1>1, <1>2 DEF ListsExact

LEMMA Awake ==
  ASSUME LInv
  PROVE  NoSelfDeadlock
BY DEF LInv, OwnersOK, NoSelfDeadlock, Storing

\* Acquire, Release and the destructors keep the lists of locked mutexes exact, a
\* thread that has left its methods holds no lock, and no thread waits for a lock
\* that it holds itself: for any number of threads, mutexes and methods.
THEOREM LocksBookkeeping ==
  ASSUME Discipline
  PROVE  Spec => []LocksSound
<1>1. LInv => LocksSound
  BY Released, Exact, Awake DEF LocksSound
<1>2. QED
  BY <1>1, ListsInvariance, PTL

\* A lock is freed by a step of the thread that holds it: Release in that thread, the
\* end of the method that took it, or the destruction of its interpreter.
THEOREM HolderUnlocks ==
  ASSUME Discipline
  PROVE  Spec => OnlyHolderUnlocks
<1>1. ASSUME LInv, [Next]_vars
      PROVE  [\A l \in Locks, t \in Threads :
                holder[l] # holder'[l] /\ holder[l] = t => <<Aml(t) \/ Interpret(t)>>_vars]_vars
  <2>1. CASE UNCHANGED vars
    BY <2>1
  <2>2. ASSUME NEW u \in Threads, Aml(u) \/ Interpret(u),
               NEW l \in Locks, NEW t \in Threads, holder[l] # holder'[l], holder[l] = t
        PROVE  <<Aml(t) \/ Interpret(t)>>_vars
    <3>1. LockMove(u)
      BY <1>1, <2>2, MovesOf
    <3>2. holder \in [Locks -> Threads \cup {None}] /\ t # None
      BY <1>1, ThreadsAssumption DEF LInv, TypeOK
    <3>3. u = t
      BY <2>2, <3>1, <3>2
         DEF LockMove, Takes, PutsOwner, Nests, Unnests, Frees, Leaves
    <3>4. vars' # vars
      BY <2>2 DEF vars
    <3>5. QED
      BY <2>2, <3>3, <3>4
  <2>3. QED
    BY <1>1, <2>1, <2>2 DEF Next
<1>2. QED
  BY <1>1, ListsInvariance, PTL DEF Spec, OnlyHolderUnlocks

-----------------------------------------------------------------------------
(* Nesting                                                                  *)

\* A mutex that is free, just taken, about to be freed by a destructor or held by a
\* thread that throws its entries away is nested at level zero: the destructors
\* free a mutex without a look at its count.
Unnested ==
  \A m \in Mutexes, t \in Threads :
    /\ holder[m] = None \/ Storing(t, m) => recursion[m] = 0
    /\ Discarding(t) /\ holder[m] = t => recursion[m] = 0
    /\ pc[t] = "walk" /\ m \in ListOf(cur[t]) => recursion[m] = 0

LEMMA ListClosed ==
  ASSUME TypeOK, NEW c \in Link
  PROVE  /\ c \in ListOf(c) \cup {None}
         /\ \A j \in ListOf(c) : next[j] \in ListOf(c) \cup {None}
<1>1. next \in [Mutexes -> Link]
  BY DEF TypeOK
<1>2. c \in ListOf(c) \cup {None}
  BY DEF ListOf, Link
<1>3. ASSUME NEW j \in ListOf(c)
      PROVE  next[j] \in ListOf(c) \cup {None}
  <2>1. j \in Mutexes
    BY DEF ListOf
  <2>2. CASE next[j] = None
    BY <2>2
  <2>3. CASE next[j] # None
    <3>1. next[j] \in Mutexes
      BY <1>1, <2>1, <2>3 DEF Link
    <3>2. ASSUME NEW S \in SUBSET Mutexes, c \in S \cup {None},
                 \A k \in S : next[k] \in S \cup {None}
          PROVE  next[j] \in S
      <4>1. j \in S
        BY <3>2 DEF ListOf
      <4>2. QED
        BY <2>3, <3>2, <4>1
    <3>3. QED
      BY <3>1, <3>2 DEF ListOf
  <2>4. QED
    BY <2>2, <2>3
<1>4. QED
  BY <1>2, <1>3

\* A list none of whose mutexes gets another next gains none.
LEMMA ListKept ==
  ASSUME TypeOK, NEW c \in Link, \A j \in ListOf(c) : next'[j] = next[j]
  PROVE  ListOf(c)' \subseteq ListOf(c)
<1>1. PICK S : S = ListOf(c)
  OBVIOUS
<1>2. /\ S \in SUBSET Mutexes /\ c \in S \cup {None}
      /\ \A j \in S : next'[j] \in S \cup {None}
  BY <1>1, ListClosed DEF ListOf
<1>3. ListOf(c)' \subseteq S
  BY <1>2 DEF ListOf
<1>4. QED
  BY <1>1, <1>3

\* A step changes the next of mutexes that its thread owns or that nobody owns.
LEMMA NextMoves ==
  ASSUME LInv, NEW t \in Threads, ListMove(t), NEW m \in Mutexes, next'[m] # next[m]
  PROVE  owner[m] \in {t, None}
<1>1. ListFacts(t) /\ next \in [Mutexes -> Link]
  BY Listing DEF LInv, TypeOK
<1>2. ~ SameLists(t) /\ (\A i \in Nat : ~ StartWalk(t, i)) /\ (\A k \in Mutexes : ~ WalkOn(t, k))
  BY DEF SameLists, StartWalk, WalkOn
<1>3. ASSUME NEW i \in Nat, NEW k \in Mutexes, PutOnFront(t, i, k)
      PROVE  owner[m] \in {t, None}
  BY <1>1, <1>3 DEF PutOnFront
<1>4. ASSUME NEW i \in Nat, NEW k \in Mutexes, TakeOut(t, i, k)
      PROVE  owner[m] \in {t, None}
  <2>1. prev[k] # None /\ m = prev[k]
    BY <1>1, <1>4 DEF TakeOut
  <2>2. owner[prev[k]] = t
    BY <1>1, <1>4, <2>1 DEF TakeOut, ListFacts
  <2>3. QED
    BY <2>1, <2>2
<1>5. QED
  BY <1>2, <1>3, <1>4 DEF ListMove

\* Only Acquire and Release count a mutex, and they go on.
LEMMA CountsRunning ==
  ASSUME TypeOK, ControlOK, NEW t \in Threads, Aml(t) \/ Interpret(t), StackFine(t),
         NEW m \in Mutexes, recursion'[m] # recursion[m]
  PROVE  pc'[t] = "run"
<1> USE DEF lockVars, listVars, walkVars
<1>1. /\ pc \in [Threads -> PCs] /\ recursion \in [Locks -> Nat]
      /\ Mutexes \cap Serialized = {} /\ m \in Locks /\ Serialized \subseteq Locks
      /\ pc[t] \notin {"releaseClear", "serialClear", "walkClear"}
  BY LocksAssumption DEF TypeOK, Locks, StackFine
<1>2. ASSUME NEW e, NEW b, Destroy(t, e, b)
      PROVE  FALSE
  BY <1>1, <1>2 DEF Destroy
<1>3. ASSUME NEW f \in Methods, Invoke(t, f) \/ BeginCall(t, f)
      PROVE  FALSE
  BY <1>1, <1>3 DEF Invoke, BeginCall, EnterMethod, Nest
<1>4. ~ (MethodEnd(t) \/ UnwindFrame(t) \/ TeardownFrame(t))
  BY <1>2 DEF MethodEnd, UnwindFrame, TeardownFrame
<1>5. ~ (\/ Execute(t) \/ Load(t) \/ OpenBlock(t) \/ Fail(t) \/ Abort(t) \/ Call(t)
         \/ CloseBlock(t) \/ ScopeEnd(t) \/ UnwindDone(t) \/ UnwindDrop(t) \/ TeardownList(t)
         \/ TeardownDone(t))
  BY DEF Execute, Load, OpenBlock, Fail, Abort, Call, CloseBlock, ScopeEnd, UnwindDone, UnwindDrop,
         TeardownList, TeardownDone
<1>6. ~ (\/ InvokeStore(t) \/ CallStore(t) \/ AcquireStore(t) \/ Walk(t)
         \/ ReleaseClear(t) \/ SerialClear(t) \/ WalkClear(t))
  BY DEF InvokeStore, CallStore, AcquireStore, Walk, EnterStore, ReleaseClear, SerialClear, WalkClear
<1>7. ASSUME NEW k \in Mutexes, Acquire(t, k) \/ Release(t, k)
      PROVE  pc'[t] = "run"
  <2>1. CASE Acquire(t, k)
    BY <1>1, <2>1 DEF Acquire
  <2>2. CASE Release(t, k)
    BY <1>1, <2>2 DEF Release, OsUnlock
  <2>3. QED
    BY <1>7, <2>1, <2>2
<1>8. QED
  BY <1>3, <1>4, <1>5, <1>6, <1>7 DEF Aml, Interpret

\* Release frees a mutex that is not nested, and so does the walk of a destructor.
LEMMA FreedFlat ==
  ASSUME LInv, Unnested, NEW t \in Threads, Aml(t) \/ Interpret(t),
         NEW m \in Mutexes, holder[m] # None, holder'[m] = None
  PROVE  recursion[m] = 0
<1> USE DEF lockVars, listVars, walkVars
<1>1. /\ holder \in [Locks -> Threads \cup {None}] /\ recursion \in [Locks -> Nat]
      /\ pc \in [Threads -> PCs] /\ cur \in [Threads -> Link] /\ None \notin Threads
      /\ Mutexes \cap Serialized = {} /\ m \in Locks /\ Serialized \subseteq Locks
      /\ Serialized \subseteq Methods
      /\ pc[t] \notin {"releaseClear", "serialClear", "walkClear"}
  BY LocksAssumption, ThreadsAssumption DEF LInv, TypeOK, Locks, StackFine
<1>2. ASSUME NEW e, NEW b, Destroy(t, e, b)
      PROVE  FALSE
  BY <1>1, <1>2 DEF Destroy, OsUnlock
<1>3. ASSUME NEW f \in Methods, Invoke(t, f) \/ BeginCall(t, f)
      PROVE  FALSE
  BY <1>1, <1>3 DEF Invoke, BeginCall, EnterMethod, OsLock
<1>4. ~ (MethodEnd(t) \/ UnwindFrame(t) \/ TeardownFrame(t))
  BY <1>2 DEF MethodEnd, UnwindFrame, TeardownFrame
<1>5. ~ (\/ Execute(t) \/ Load(t) \/ OpenBlock(t) \/ Fail(t) \/ Abort(t) \/ Call(t)
         \/ CloseBlock(t) \/ ScopeEnd(t) \/ UnwindDone(t) \/ UnwindDrop(t) \/ TeardownList(t)
         \/ TeardownDone(t))
  BY DEF Execute, Load, OpenBlock, Fail, Abort, Call, CloseBlock, ScopeEnd, UnwindDone, UnwindDrop,
         TeardownList, TeardownDone
<1>6. ~ (\/ InvokeStore(t) \/ CallStore(t) \/ AcquireStore(t)
         \/ ReleaseClear(t) \/ SerialClear(t) \/ WalkClear(t))
  BY DEF InvokeStore, CallStore, AcquireStore, EnterStore, ReleaseClear, SerialClear, WalkClear
<1>7. ASSUME NEW k \in Mutexes, Acquire(t, k)
      PROVE  FALSE
  BY <1>1, <1>7 DEF Acquire, OsLock
<1>8. ASSUME NEW k \in Mutexes, Release(t, k)
      PROVE  recursion[m] = 0
  <2>1. ~ Nested(k) /\ holder' = [holder EXCEPT ![k] = None]
    BY <1>1, <1>8 DEF Release, OsUnlock
  <2>2. k = m
    BY <1>1, <2>1
  <2>3. QED
    BY <1>1, <2>1, <2>2 DEF Nested
<1>9. CASE Walk(t)
  <2>1. pc[t] = "walk" /\ cur[t] # None /\ holder' = [holder EXCEPT ![cur[t]] = None]
    BY <1>1, <1>9 DEF Walk, OsUnlock
  <2>2. m = cur[t] /\ m \in Link
    BY <1>1, <2>1 DEF Link
  <2>3. m \in ListOf(cur[t])
    BY <2>1, <2>2, ListClosed DEF LInv
  <2>4. QED
    BY <2>1, <2>3 DEF Unnested
<1>10. QED
  BY <1>3, <1>4, <1>5, <1>6, <1>7, <1>8, <1>9 DEF Aml, Interpret

\* A destructor that begins, or goes on, has only mutexes nested at level zero ahead.
LEMMA WalkFlat ==
  ASSUME Discipline, "endNested" \notin AmlMay, LInv, Unnested,
         NEW t \in Threads, Aml(t) \/ Interpret(t),
         NEW m \in Mutexes, pc'[t] = "walk", m \in ListOf(cur[t])'
  PROVE  recursion[m] = 0
<1> USE DEF lockVars, listVars, walkVars
<1>1. /\ pc \in [Threads -> PCs] /\ back \in [Threads -> {"run", "unwind", "teardown"}]
      /\ cur \in [Threads -> Link] /\ globalLink \in [Threads -> Link]
      /\ stack[t] \in Seq(Entry) /\ Len(stack[t]) \in Nat /\ Depth(t) = Len(stack[t])
      /\ next \in [Mutexes -> Link]
      /\ AtomicUnlock /\ pc[t] \notin {"releaseClear", "serialClear", "walkClear"}
  BY DEF LInv, TypeOK, StackFine, Depth, Discipline
<1>2. ListFacts(t)
  BY Listing DEF LInv
<1>3. m \in Locks
  BY DEF Locks
<1>4. owner[m] = t => holder[m] = t
  BY <1>3 DEF LInv, OwnersOK
<1>5. ASSUME NEW e, NEW b, Destroy(t, e, b)
      PROVE  cur'[t] = e.link
  BY <1>1, <1>5 DEF Destroy
<1>6. ASSUME next' = next, NEW c, c = cur'[t]
      PROVE  m \in ListOf(c)
  BY <1>6 DEF ListOf
<1>7. ASSUME next' = next, Discarding(t), NEW i \in Int, cur'[t] = HeadAt(t, i)
      PROVE  recursion[m] = 0
  <2>1. m \in ListOf(HeadAt(t, i))
    BY <1>6, <1>7
  <2>2. holder[m] = t
    BY <1>2, <1>4, <1>7, <2>1 DEF ListFacts
  <2>3. QED
    BY <1>7, <2>2 DEF Unnested
<1>8. CASE MethodEnd(t)
  <2>1. pc[t] = "run" /\ next' = next /\ NothingNested(t, ListOf(Top(t).link)) /\ cur'[t] = Top(t).link
    BY <1>5, <1>8 DEF MethodEnd
  <2>2. m \in ListOf(Top(t).link)
    BY <1>6, <2>1
  <2>3. Len(stack[t]) > 0
    BY <1>1, <2>1 DEF LInv, ControlOK
  <2>4. Top(t).link = HeadAt(t, Len(stack[t])) /\ Len(stack[t]) \in Int
    BY <1>1, <2>3 DEF Top, HeadAt, HeadIn
  <2>5. owner[m] = t
    BY <1>2, <2>2, <2>4 DEF ListFacts
  <2>6. QED
    BY <2>1, <2>2, <2>5 DEF NothingNested, Owned
<1>9. CASE UnwindFrame(t)
  <2>1. pc[t] = "unwind" /\ next' = next /\ cur'[t] = Top(t).link
    BY <1>5, <1>9 DEF UnwindFrame
  <2>2. Len(stack[t]) > 0
    BY <1>1, <2>1 DEF LInv, ControlOK
  <2>3. Top(t).link = HeadAt(t, Len(stack[t])) /\ Len(stack[t]) \in Int
    BY <1>1, <2>2 DEF Top, HeadAt, HeadIn
  <2>4. QED
    BY <1>7, <2>1, <2>3 DEF Discarding
<1>10. CASE TeardownFrame(t)
  <2>1. PICK i \in MethodFrames(t) : Destroy(t, stack[t][i], "teardown")
    BY <1>10 DEF TeardownFrame
  <2>2. pc[t] = "teardown" /\ next' = next /\ cur'[t] = stack[t][i].link
    BY <1>5, <1>10, <2>1 DEF TeardownFrame
  <2>3. i \in 1 .. Len(stack[t]) /\ i \in Int
    BY <1>1 DEF MethodFrames
  <2>4. stack[t][i].link = HeadAt(t, i)
    BY <2>3 DEF HeadAt, HeadIn
  <2>5. QED
    BY <1>7, <2>2, <2>3, <2>4 DEF Discarding
<1>11. CASE TeardownList(t)
  <2>1. pc[t] = "teardown" /\ next' = next /\ cur'[t] = HeadAt(t, 0)
    BY <1>1, <1>11 DEF TeardownList, HeadAt, HeadIn
  <2>2. QED
    BY <1>7, <2>1 DEF Discarding
<1>12. CASE Walk(t)
  <2>1. /\ pc[t] = "walk" /\ next' = next /\ cur[t] # None /\ cur'[t] = next[cur[t]]
    BY <1>1, <1>12 DEF Walk
  <2>2. PICK S : S = ListOf(cur[t])
    OBVIOUS
  <2>3. /\ S \in SUBSET Mutexes /\ cur[t] \in S /\ \A j \in S : next[j] \in S \cup {None}
    BY <1>1, <2>1, <2>2, ListClosed DEF ListOf, LInv
  <2>4. cur'[t] \in S \cup {None}
    BY <2>1, <2>3
  <2>5. ListOf(cur'[t]) \subseteq S
    <3>1. PICK c : c = cur'[t]
      OBVIOUS
    <3>2. ListOf(c) \subseteq S
      BY <2>3, <2>4, <3>1, ListInside
    <3>3. QED
      BY <3>1, <3>2
  <2>6. m \in ListOf(cur'[t])
    BY <1>6, <2>1
  <2>7. QED
    BY <2>1, <2>2, <2>5, <2>6 DEF Unnested
<1>13. ASSUME NEW f \in Methods, Invoke(t, f) \/ BeginCall(t, f)
       PROVE  FALSE
  BY <1>1, <1>13 DEF Invoke, BeginCall, EnterMethod, OsLock
<1>14. ~ (\/ Execute(t) \/ Load(t) \/ OpenBlock(t) \/ Fail(t) \/ Abort(t) \/ Call(t)
          \/ CloseBlock(t) \/ ScopeEnd(t) \/ UnwindDone(t) \/ UnwindDrop(t) \/ TeardownDone(t))
  BY <1>1 DEF Execute, Load, OpenBlock, Fail, Abort, Call, CloseBlock, ScopeEnd, UnwindDone, UnwindDrop,
         TeardownDone
<1>15. ~ (\/ InvokeStore(t) \/ CallStore(t) \/ AcquireStore(t)
          \/ ReleaseClear(t) \/ SerialClear(t) \/ WalkClear(t))
  BY <1>1 DEF InvokeStore, CallStore, AcquireStore, EnterStore, ReleaseClear, SerialClear, WalkClear,
         ClearOwner
<1>16. ASSUME NEW k \in Mutexes, Acquire(t, k) \/ Release(t, k)
       PROVE  FALSE
  BY <1>1, <1>16 DEF Acquire, Release, OsLock, OsUnlock
<1>17. QED
  BY <1>8, <1>9, <1>10, <1>11, <1>12, <1>13, <1>14, <1>15, <1>16 DEF Aml, Interpret

\* When a thread begins to throw entries away, nothing that it holds is nested.
LEMMA DiscardFlat ==
  ASSUME Discipline, "endNested" \notin AmlMay, LInv, Unnested,
         NEW t \in Threads, Aml(t) \/ Interpret(t), Discarding(t)',
         NEW m \in Mutexes, holder[m] = t, ~ Storing(t, m)
  PROVE  recursion[m] = 0
<1> USE DEF lockVars, listVars, walkVars
<1>1. /\ pc \in [Threads -> PCs] /\ back \in [Threads -> {"run", "unwind", "teardown"}]
      /\ stack[t] \in Seq(Entry) /\ Len(stack[t]) \in Nat /\ Depth(t) = Len(stack[t])
      /\ AtomicUnlock /\ pc[t] \notin {"releaseClear", "serialClear", "walkClear"}
      /\ "argError" \notin AmlMay
  BY DEF LInv, TypeOK, StackFine, Depth, Discipline
<1>2. ListFacts(t)
  BY Listing DEF LInv
<1>3. owner[m] = t
  <2>1. m \in Locks
    BY DEF Locks
  <2>2. QED
    BY <2>1 DEF LInv, OwnersOK
<1>4. PICK i \in Int : m \in ListOf(HeadAt(t, i))
  BY <1>2, <1>3 DEF ListFacts
<1>5. HeadAt(t, i) # None
  BY <1>4, NoList
<1>6. CASE Discarding(t)
  BY <1>6 DEF Unnested
<1>7. ASSUME NothingNested(t, Mutexes)
      PROVE  recursion[m] = 0
  BY <1>3, <1>7 DEF NothingNested, Owned
<1>8. EntriesFine(stack[t])
  BY DEF LInv, StackFine
<1>9. CASE ScopeEnd(t)
  <2>1. pc[t] = "run" /\ Top(t).kind = "scope" /\ NothingNested(t, ListOf(globalLink[t]))
    BY <1>9 DEF ScopeEnd
  <2>2. Len(stack[t]) > 0
    BY <1>1, <2>1 DEF LInv, ControlOK
  <2>3. Len(stack[t]) = 1 /\ stack[t][1].kind = "scope"
    <3>1. stack[t][Len(stack[t])].kind = "scope"
      BY <1>1, <2>1 DEF Top
    <3>2. PICK s, n : s = stack[t] /\ n = Len(stack[t])
      OBVIOUS
    <3>3. n \in 1 .. Len(s) /\ EntriesFine(s) /\ s[n].kind = "scope"
      BY <1>1, <1>8, <2>2, <3>1, <3>2
    <3>4. n = 1
      BY <3>3 DEF EntriesFine
    <3>5. QED
      BY <3>1, <3>2, <3>4
  <2>4. i = 0
    BY <1>5, <1>8, <2>1, <2>3 DEF HeadAt, HeadIn, Walked, EntriesFine
  <2>5. m \in ListOf(globalLink[t])
    BY <1>4, <2>4 DEF HeadAt, HeadIn
  <2>6. QED
    BY <1>3, <2>1, <2>5 DEF NothingNested, Owned
<1>10. CASE MethodEnd(t)
  <2>1. /\ pc[t] = "run" /\ Top(t).kind \in {"method", "load"} /\ NothingNested(t, ListOf(Top(t).link))
        /\ Destroy(t, Top(t), IF Depth(t) = 1 THEN "teardown" ELSE "run")
    BY <1>10 DEF MethodEnd
  <2>2. back'[t] = (IF Depth(t) = 1 THEN "teardown" ELSE "run") /\ pc'[t] = "walk"
    BY <1>1, <2>1 DEF Destroy, OsUnlock
  <2>3. Len(stack[t]) = 1
    BY <1>1, <2>2 DEF Discarding
  <2>4. stack[t][1].kind = "method" /\ Top(t) = stack[t][1]
    BY <1>1, <2>1, <2>3 DEF Top, LInv, BaseOK
  <2>5. globalLink[t] = None
    BY <1>1, <2>3, <2>4 DEF LInv, StackFine
  <2>6. i = 1
    BY <1>5, <2>1, <2>3, <2>5 DEF HeadAt, HeadIn, Walked
  <2>7. m \in ListOf(Top(t).link)
    BY <1>4, <2>3, <2>4, <2>6 DEF HeadAt, HeadIn
  <2>8. QED
    BY <1>3, <2>1, <2>7 DEF NothingNested, Owned
<1>11. CASE Fail(t)
  BY <1>7, <1>11 DEF Fail
<1>12. CASE Call(t)
  <2>1. NothingNested(t, Mutexes) \/ pc' = pc
    BY <1>12 DEF Call
  <2>2. pc[t] = "run"
    BY <1>12 DEF Call
  <2>3. pc' # pc
    BY <2>2 DEF Discarding
  <2>4. QED
    BY <1>7, <2>1, <2>3
<1>13. CASE Walk(t)
  <2>1. Discarding(t)
    BY <1>1, <1>13 DEF Walk, OsUnlock, Discarding
  <2>2. QED
    BY <1>6, <2>1
<1>14. CASE UnwindDone(t) \/ UnwindDrop(t) \/ UnwindFrame(t) \/ TeardownList(t) \/ TeardownFrame(t)
            \/ TeardownDone(t)
  <2>1. Discarding(t)
    BY <1>14 DEF UnwindDone, UnwindDrop, UnwindFrame, TeardownList, TeardownFrame, TeardownDone,
                 Discarding
  <2>2. QED
    BY <1>6, <2>1
<1>15. ASSUME NEW f \in Methods, Invoke(t, f) \/ BeginCall(t, f)
       PROVE  FALSE
  BY <1>1, <1>15 DEF Invoke, BeginCall, EnterMethod, OsLock, Discarding
<1>16. ~ (Execute(t) \/ Load(t) \/ OpenBlock(t) \/ Abort(t) \/ CloseBlock(t))
  BY <1>1 DEF Execute, Load, OpenBlock, Abort, CloseBlock, Discarding
<1>17. ~ (\/ InvokeStore(t) \/ CallStore(t) \/ AcquireStore(t)
          \/ ReleaseClear(t) \/ SerialClear(t) \/ WalkClear(t))
  BY <1>1 DEF InvokeStore, CallStore, AcquireStore, EnterStore, ReleaseClear, SerialClear, WalkClear,
         ClearOwner, Discarding
<1>18. ASSUME NEW k \in Mutexes, Acquire(t, k) \/ Release(t, k)
       PROVE  FALSE
  BY <1>1, <1>18 DEF Acquire, Release, OsLock, OsUnlock, Discarding
<1>19. QED
  BY <1>9, <1>10, <1>11, <1>12, <1>13, <1>14, <1>15, <1>16, <1>17, <1>18 DEF Aml, Interpret

LEMMA UnnestedStep ==
  ASSUME Discipline, "endNested" \notin AmlMay, LInv, LInv', Unnested,
         NEW t \in Threads, Aml(t) \/ Interpret(t)
  PROVE  Unnested'
<1> SUFFICES ASSUME NEW m \in Mutexes, NEW u \in Threads
             PROVE  /\ holder'[m] = None \/ Storing(u, m)' => recursion'[m] = 0
                    /\ Discarding(u)' /\ holder'[m] = u => recursion'[m] = 0
                    /\ pc'[u] = "walk" /\ m \in ListOf(cur[u])' => recursion'[m] = 0
  BY DEF Unnested
<1>1. /\ holder \in [Locks -> Threads \cup {None}] /\ owner \in [Locks -> Threads \cup {None}]
      /\ recursion \in [Locks -> Nat] /\ None \notin Threads /\ m \in Locks
  BY ThreadsAssumption DEF LInv, TypeOK, Locks
<1>2. LockMove(t) /\ ListMove(t)
  BY MovesOf
<1>3. TypeOK /\ ControlOK /\ StackFine(t) /\ OwnersOK /\ OwnersOK'
  BY DEF LInv
<1>4. /\ ~ Between(t) => ~ Storing(t, m)
      /\ ~ Between(t)' => ~ Storing(t, m)'
      /\ \A k \in Locks : Storing(t, k)' /\ Storing(t, m)' => k = m
      /\ Discarding(t)' => ~ Storing(t, m)'
      /\ Storing(u, m) => Between(u)
  BY DEF Between, Storing, Discarding
<1>5. /\ \A v \in Threads : owner[m] = v => holder[m] = v
      /\ \A v \in Threads : Storing(v, m)' => holder'[m] = v
      /\ \A v \in Threads : owner'[m] = v => holder'[m] = v
  BY <1>1, <1>3 DEF OwnersOK
\* What the step may do to the mutex.
<1>6. /\ recursion'[m] # recursion[m] => holder[m] = t /\ holder'[m] = t
      /\ holder'[m] # holder[m] => recursion'[m] = recursion[m]
      /\ holder'[m] # holder[m] => \/ holder[m] = None /\ holder'[m] = t /\ Storing(t, m)'
                                   \/ holder[m] = t /\ holder'[m] = None
      /\ Storing(t, m)' => holder[m] = None
  <2>1. ASSUME NEW k \in Locks, Takes(t, k)
        PROVE  /\ recursion' = recursion
               /\ holder'[m] # holder[m] => m = k
               /\ holder[k] = None /\ holder'[k] = t /\ Storing(t, k)'
    BY <1>1, <2>1 DEF Takes
  <2>2. ASSUME NEW k \in Locks, PutsOwner(t, k)
        PROVE  recursion' = recursion /\ holder' = holder /\ ~ Storing(t, m)'
    BY <1>4, <2>2 DEF PutsOwner
  <2>3. ASSUME NEW k \in Locks, Nests(t, k) \/ Unnests(t, k)
        PROVE  /\ recursion'[m] # recursion[m] => k = m
               /\ holder' = holder /\ holder[k] = t /\ ~ Storing(t, m)'
    BY <1>1, <1>3, <1>4, <2>3 DEF Nests, Unnests, OwnersOK
  <2>4. ASSUME NEW k \in Locks, Frees(t, k)
        PROVE  /\ recursion' = recursion /\ ~ Storing(t, m)'
               /\ holder'[m] # holder[m] => k = m
               /\ holder[k] = t /\ holder'[k] = None
    BY <1>1, <1>4, <2>4 DEF Frees
  <2>5. ASSUME Leaves(t)
        PROVE  recursion' = recursion /\ holder' = holder /\ ~ Storing(t, m)'
    BY <1>4, <2>5 DEF Leaves
  <2>6. QED
    BY <1>1, <1>2, <1>4, <2>1, <2>2, <2>3, <2>4, <2>5 DEF LockMove
<1>7. recursion'[m] # recursion[m] => pc'[t] = "run"
  BY <1>3, CountsRunning
<1>8. holder'[m] = None => recursion'[m] = 0
  <2>1. CASE holder[m] = None
    BY <1>1, <1>6, <2>1 DEF Unnested
  <2>2. CASE holder[m] # None
    BY <1>6, <2>2, FreedFlat
  <2>3. QED
    BY <2>1, <2>2
<1>9. CASE u = t
  <2>1. Storing(t, m)' => recursion'[m] = 0
    BY <1>1, <1>6 DEF Unnested
  <2>2. ASSUME Discarding(t)', holder'[m] = t
        PROVE  recursion'[m] = 0
    <3>1. pc'[t] # "run"
      BY <2>2 DEF Discarding
    <3>2. recursion'[m] = recursion[m] /\ holder[m] = t
      BY <1>4, <1>6, <1>7, <2>2, <3>1
    <3>3. CASE Storing(t, m)
      BY <3>2, <3>3 DEF Unnested
    <3>4. CASE ~ Storing(t, m)
      BY <2>2, <3>2, <3>4, DiscardFlat
    <3>5. QED
      BY <3>3, <3>4
  <2>3. ASSUME pc'[t] = "walk", m \in ListOf(cur[t])'
        PROVE  recursion'[m] = 0
    <3>1. recursion[m] = 0
      BY <2>3, WalkFlat
    <3>2. pc'[t] # "run"
      BY <2>3
    <3>3. QED
      BY <1>7, <3>1, <3>2
  <2>4. QED
    BY <1>8, <1>9, <2>1, <2>2, <2>3
<1>10. CASE u # t
  <2>1. pc'[u] = pc[u] /\ op'[u] = op[u] /\ cur'[u] = cur[u] /\ back'[u] = back[u]
    BY <1>3, <1>10, OthersKept
  <2>2. (Storing(u, m)' <=> Storing(u, m)) /\ (Discarding(u)' <=> Discarding(u))
    BY <2>1 DEF Storing, Discarding
  <2>3. holder'[m] = u => holder[m] = u /\ recursion'[m] = recursion[m]
    BY <1>1, <1>6, <1>10
  <2>4. Storing(u, m)' => recursion'[m] = 0
    BY <1>5, <2>2, <2>3 DEF Unnested
  <2>5. Discarding(u)' /\ holder'[m] = u => recursion'[m] = 0
    BY <2>2, <2>3 DEF Unnested
  <2>6. ASSUME pc'[u] = "walk", m \in ListOf(cur[u])'
        PROVE  recursion'[m] = 0
    <3>1. PICK c : c = cur[u]
      OBVIOUS
    <3>2. c \in Link /\ c = HeadAt(u, -1) /\ cur'[u] = c
      BY <2>1, <2>6, <3>1 DEF LInv, TypeOK, HeadAt, HeadIn, Walked
    <3>3. ListFacts(u)
      BY Listing DEF LInv
    <3>4. \A j \in ListOf(c) : j \in Mutexes /\ owner[j] = u
      BY <3>2, <3>3 DEF ListFacts, ListOf
    <3>5. \A j \in ListOf(c) : next'[j] = next[j]
      BY <1>1, <1>2, <1>10, <3>4, NextMoves
    <3>6. ListOf(c)' \subseteq ListOf(c)
      BY <1>3, <3>2, <3>5, ListKept
    <3>7. m \in ListOf(c)
      BY <2>6, <3>2, <3>6 DEF ListOf
    <3>8. recursion[m] = 0 /\ holder[m] = u
      BY <1>5, <2>1, <2>6, <3>1, <3>4, <3>7 DEF Unnested
    <3>9. QED
      BY <1>6, <1>10, <3>8
  <2>7. QED
    BY <1>8, <2>4, <2>5, <2>6
<1>11. QED
  BY <1>9, <1>10

\* A mutex that was free is acquired at level zero, if AML has given up each mutex as
\* often as it acquired it when it leaves a method or fails.
THEOREM FreshAcquires ==
  ASSUME Discipline, "endNested" \notin AmlMay
  PROVE  Spec => FreshAcquire
<1>1. Init => LInv /\ Unnested
  <2>1. Init => Unnested
    BY ThreadsAssumption DEF Init, Unnested, Locks
  <2>2. QED
    BY <2>1, InvInit
<1>2. ASSUME LInv, Unnested, [Next]_vars
      PROVE  LInv' /\ Unnested'
  <2>1. LInv'
    BY <1>2, InvStep
  <2>2. CASE UNCHANGED vars
    <3>1. Unnested'
      BY <1>2, <2>2 DEF vars, Unnested, Storing, Discarding, ListOf
    <3>2. QED
      BY <2>1, <3>1
  <2>3. ASSUME NEW t \in Threads, Aml(t) \/ Interpret(t)
        PROVE  Unnested'
    BY <1>2, <2>1, <2>3, UnnestedStep
  <2>4. QED
    BY <1>2, <2>1, <2>2, <2>3 DEF Next
<1>3. ASSUME Unnested, [Next]_vars
      PROVE  [\A m \in Mutexes : holder[m] = None /\ holder'[m] # None => recursion[m] = 0]_vars
  <2>1. CASE UNCHANGED vars
    BY <2>1
  <2>2. ASSUME NEW t \in Threads, NEW m \in Mutexes, holder[m] = None
        PROVE  recursion[m] = 0
    BY <1>3, <2>2 DEF Unnested
  <2>3. QED
    BY <1>3, <2>1, <2>2 DEF Next
<1>4. QED
  BY <1>1, <1>2, <1>3, PTL DEF Spec, FreshAcquire
=============================================================================
