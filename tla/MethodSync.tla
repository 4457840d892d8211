----------------------------- MODULE MethodSync -----------------------------
(***************************************************************************)
(* The locking discipline of the AML interpreter: AML Mutex objects, the   *)
(* lock of every Serialized control method, and the stacks of the          *)
(* interpreters that take and drop them.                                   *)
(*                                                                         *)
(* Every host thread runs at most one interpreter.  Its frames and its     *)
(* half-evaluated calls are kept in one stack, in the order in which they  *)
(* were pushed, because unwind_stack discards them in that order:          *)
(*   call    a MethodArgs object: the callee's lock is already taken, its  *)
(*           arguments are still being evaluated                           *)
(*   method  a Frame of a control method together with its MethodFrame     *)
(*   load    the Frame and MethodFrame of a table being loaded by AML      *)
(*   block   a Frame of an If or While body, a scope or a package          *)
(*   scope   the bottom frame of a table executed by load_table            *)
(*   dead    a frame already destroyed by ~Interpreter                     *)
(*                                                                         *)
(* Mutex::lock and Mutex::unlock touch the host's mutex and then store the *)
(* owner.  The two writes are separate steps here.  What AML does is       *)
(* chosen freely, within AmlMay.  Memory allocation always succeeds.       *)
(***************************************************************************)
EXTENDS Integers, Sequences, FiniteSets

CONSTANTS
  Threads,      \* host threads that evaluate AML
  Mutexes,      \* AML Mutex objects (_GL_ is one)
  Methods,      \* control methods
  Serialized,   \* those declared Serialized: each owns a lock named after it
  None,         \* the null pointer
  MaxDepth,     \* Context::max_callstack_depth
  MaxStack,     \* bound of the model: entries of one stack
  MaxRecursion, \* bound of the model: nesting of one lock
  AtomicUnlock, \* TRUE: the host does not preempt inside Mutex::unlock
  AmlMay        \* liberties the AML code takes, a subset of AmlLiberties

AmlLiberties ==
  { "releaseElsewhere", \* Release in another method than the Acquire
    "endNested",        \* leave a method that still holds a mutex recursively
    "error",            \* fail while it runs
    "argError",         \* fail while a serialized call is locked but not begun
    "limit" }           \* reach MaxDepth

ASSUME ThreadsAssumption == None \notin Threads
ASSUME LocksAssumption ==
  /\ None \notin Mutexes /\ None \notin Methods
  /\ Serialized \subseteq Methods
  /\ Mutexes \cap Methods = {}
ASSUME BoundsAssumption ==
  /\ MaxDepth \in Nat \ {0} /\ MaxStack \in Nat /\ MaxRecursion \in Nat
  /\ AtomicUnlock \in BOOLEAN /\ AmlMay \subseteq AmlLiberties

Locks == Mutexes \cup Serialized

VARIABLES
  holder,     \* [Locks -> thread or None]: who has the host's mutex
  owner,      \* Mutex::owner
  recursion,  \* Mutex::recursion
  prev,       \* Mutex::prev, for AML mutexes
  next,       \* Mutex::next
  stack,      \* the interpreter's frames and pending calls, bottom first
  globalLink, \* Interpreter::global_locked_mutexes
  pc,         \* where the thread is inside the interpreter
  op,         \* the lock it is working on
  cur,        \* the mutex a destructor's loop has reached
  back        \* where control goes after a MethodFrame is destroyed

lockVars == <<holder, owner, recursion>>
listVars == <<prev, next>>
walkVars == <<cur, back>>
vars == <<holder, owner, recursion, prev, next, stack, globalLink, pc, op, cur, back>>

Link == Mutexes \cup {None}
Kinds == {"call", "method", "load", "block", "scope", "dead"}
Entry == [kind : Kinds, method : Methods \cup {None}, link : Link]
PCs == {"idle", "run", "invokeStore", "callStore", "acquireStore", "releaseClear",
        "serialClear", "walk", "walkClear", "unwind", "teardown"}

TypeOK ==
  /\ holder \in [Locks -> Threads \cup {None}]
  /\ owner \in [Locks -> Threads \cup {None}]
  /\ recursion \in [Locks -> Nat]
  /\ prev \in [Mutexes -> Link]
  /\ next \in [Mutexes -> Link]
  /\ stack \in [Threads -> Seq(Entry)]
  /\ globalLink \in [Threads -> Link]
  /\ pc \in [Threads -> PCs]
  /\ op \in [Threads -> Locks \cup {None}]
  /\ cur \in [Threads -> Link]
  /\ back \in [Threads -> {"run", "unwind", "teardown"}]

Init ==
  /\ holder = [l \in Locks |-> None]
  /\ owner = [l \in Locks |-> None]
  /\ recursion = [l \in Locks |-> 0]
  /\ prev = [m \in Mutexes |-> None]
  /\ next = [m \in Mutexes |-> None]
  /\ stack = [t \in Threads |-> <<>>]
  /\ globalLink = [t \in Threads |-> None]
  /\ pc = [t \in Threads |-> "idle"]
  /\ op = [t \in Threads |-> None]
  /\ cur = [t \in Threads |-> None]
  /\ back = [t \in Threads |-> "run"]

-----------------------------------------------------------------------------
(* The stack                                                               *)

NewEntry(k, f) == [kind |-> k, method |-> f, link |-> None]
Push(t, e) == stack' = [stack EXCEPT ![t] = Append(@, e)]
Depth(t) == Len(stack[t])
Top(t) == stack[t][Depth(t)]
Below(s) == SubSeq(s, 1, Len(s) - 1)
Pop(t) == stack' = [stack EXCEPT ![t] = Below(@)]
Put(t, i, e) == stack' = [stack EXCEPT ![t][i] = e]

\* Entries that come with a MethodFrame, and entries that come with a Frame.
MethodFrames(t) == {i \in 1 .. Depth(t) : stack[t][i].kind \in {"method", "load"}}
FramesAboveBase(t) == {i \in 2 .. Depth(t) : stack[t][i].kind \in {"method", "load", "block"}}

\* method_frames.back(): the innermost MethodFrame (there is one).
Innermost(t) == CHOOSE i \in MethodFrames(t) : \A j \in MethodFrames(t) : j <= i

\* The list Acquire and Release work on: the innermost method's, or the
\* interpreter's own when no method runs.
LinkOf(t) == IF MethodFrames(t) = {} THEN globalLink[t] ELSE stack[t][Innermost(t)].link

SetLink(t, m) ==
  IF MethodFrames(t) = {}
  THEN /\ globalLink' = [globalLink EXCEPT ![t] = m]
       /\ UNCHANGED stack
  ELSE /\ Put(t, Innermost(t), [stack[t][Innermost(t)] EXCEPT !.link = m])
       /\ UNCHANGED globalLink

\* The mutexes reached from m through Mutex::next.
ListOf(m) ==
  {k \in Mutexes : \A S \in SUBSET Mutexes :
     m \in S \cup {None} /\ (\A j \in S : next[j] \in S \cup {None}) => k \in S}

-----------------------------------------------------------------------------
(* Mutex::lock and Mutex::unlock                                           *)

\* Mutants of a definition stand before it, named after it: Owned_Any is Owned with
\* a bug that the properties find.
Owned_Any(t, l) == owner[l] # None
Owned(t, l) == owner[l] = t

\* A lock taken again by its owner only counts, up and down.
Nested_Above1(l) == recursion[l] > 1
Nested(l) == recursion[l] > 0
Nest_Down(l) == recursion[l] < MaxRecursion /\ recursion' = [recursion EXCEPT ![l] = @ - 1]
Nest(l) ==
  /\ recursion[l] < MaxRecursion
  /\ recursion' = [recursion EXCEPT ![l] = @ + 1]

\* AML gives up the mutexes ms at the end of a method, a table or by failing: it
\* has acquired each of them once only, unless it may do otherwise.
NothingNested(t, ms) ==
  "endNested" \in AmlMay \/ \A m \in ms : Owned(t, m) => recursion[m] = 0

\* Nothing unlocks for a MethodArgs that is discarded before its method begins:
\* unless it may do otherwise, AML fails only when no such lock is pending.
NoLockPending(t) ==
  \/ "argError" \in AmlMay
  \/ \A i \in 1 .. Depth(t) : stack[t][i].kind = "call" => stack[t][i].method \notin Serialized

OsLock_Refused(t, l, at) ==
  /\ holder' = [holder EXCEPT ![l] = t]
  /\ op' = [op EXCEPT ![t] = l]
  /\ pc' = [pc EXCEPT ![t] = at]
\* qacpi_os_mutex_lock: waits until the host's mutex is free.
OsLock(t, l, at) ==
  /\ holder[l] = None
  /\ holder' = [holder EXCEPT ![l] = t]
  /\ op' = [op EXCEPT ![t] = l]
  /\ pc' = [pc EXCEPT ![t] = at]

\* Mutex::unlock: qacpi_os_mutex_unlock frees the mutex, whoever has it, and the
\* owner is cleared afterwards: in a step of its own (at) unless AtomicUnlock.
OsUnlock(t, l, at, done) ==
  /\ holder' = [holder EXCEPT ![l] = None]
  /\ IF AtomicUnlock
     THEN /\ owner' = [owner EXCEPT ![l] = None]
          /\ pc' = [pc EXCEPT ![t] = done]
          /\ UNCHANGED op
     ELSE /\ op' = [op EXCEPT ![t] = l]
          /\ pc' = [pc EXCEPT ![t] = at]
          /\ UNCHANGED owner

ClearOwner_Kept(t, at, done) ==
  /\ pc[t] = at
  /\ op' = [op EXCEPT ![t] = None]
  /\ pc' = [pc EXCEPT ![t] = done]
  /\ UNCHANGED owner
\* The second half of Mutex::unlock.
ClearOwner(t, at, done) ==
  /\ pc[t] = at
  /\ owner' = [owner EXCEPT ![op[t]] = None]
  /\ op' = [op EXCEPT ![t] = None]
  /\ pc' = [pc EXCEPT ![t] = done]

-----------------------------------------------------------------------------
(* Starting an interpreter and entering methods                            *)

\* load_table: execute pushes the table's scope.
Execute(t) ==
  /\ pc[t] = "idle"
  /\ pc' = [pc EXCEPT ![t] = "run"]
  /\ Push(t, NewEntry("scope", None))
  /\ UNCHANGED <<lockVars, listVars, globalLink, op, walkVars>>

\* Take a serialized method's lock and push its entry: in this step when the
\* thread owns the lock or there is none, else once the owner is stored.
EnterMethod(t, f, kind, at) ==
  \/ /\ f \in Serialized => Owned(t, f)
     /\ IF f \in Serialized THEN Nest(f) ELSE UNCHANGED recursion
     /\ Push(t, NewEntry(kind, f))
     /\ pc' = [pc EXCEPT ![t] = "run"]
     /\ UNCHANGED <<holder, owner, op>>
  \/ /\ f \in Serialized /\ ~Owned(t, f)
     /\ OsLock(t, f, at)
     /\ UNCHANGED <<owner, recursion, stack>>

EnterStore(t, kind, at) ==
  /\ pc[t] = at
  /\ owner' = [owner EXCEPT ![op[t]] = t]
  /\ Push(t, NewEntry(kind, op[t]))
  /\ op' = [op EXCEPT ![t] = None]
  /\ pc' = [pc EXCEPT ![t] = "run"]
  /\ UNCHANGED <<holder, recursion, listVars, globalLink, walkVars>>

\* Context::evaluate of a method: invoke_method.
Invoke(t, f) ==
  /\ pc[t] = "idle"
  /\ EnterMethod(t, f, "method", "invokeStore")
  /\ UNCHANGED <<listVars, globalLink, walkVars>>
InvokeStore(t) == EnterStore(t, "method", "invokeStore")

\* handle_name meets a method's name: lock it, then evaluate its arguments.
BeginCall(t, f) ==
  /\ pc[t] = "run" /\ Depth(t) < MaxStack
  /\ EnterMethod(t, f, "call", "callStore")
  /\ UNCHANGED <<listVars, globalLink, walkVars>>
CallStore(t) == EnterStore(t, "call", "callStore")

\* OpHandler::Call: the arguments are there.
Call(t) ==
  /\ pc[t] = "run" /\ Top(t).kind = "call"
  /\ \/ /\ Cardinality(MethodFrames(t)) # MaxDepth
        /\ Put(t, Depth(t), [Top(t) EXCEPT !.kind = "method"])
        /\ UNCHANGED pc
     \/ /\ Cardinality(MethodFrames(t)) = MaxDepth /\ "limit" \in AmlMay
        /\ NothingNested(t, Mutexes) /\ NoLockPending(t)
        /\ Pop(t)
        /\ pc' = [pc EXCEPT ![t] = "unwind"]
  /\ UNCHANGED <<lockVars, listVars, globalLink, op, walkVars>>

\* Load and LoadTable push a method frame of their own, without a lock.
Load(t) ==
  /\ pc[t] = "run" /\ Depth(t) < MaxStack
  /\ Push(t, NewEntry("load", None))
  /\ UNCHANGED <<lockVars, listVars, globalLink, pc, op, walkVars>>

\* If, While, Scope, Device and Package push and pop a frame; Return and Break
\* pop several.
OpenBlock(t) ==
  /\ pc[t] = "run" /\ Depth(t) < MaxStack
  /\ Push(t, NewEntry("block", None))
  /\ UNCHANGED <<lockVars, listVars, globalLink, pc, op, walkVars>>
CloseBlock(t) ==
  /\ pc[t] = "run" /\ Top(t).kind = "block"
  /\ Pop(t)
  /\ UNCHANGED <<lockVars, listVars, globalLink, pc, op, walkVars>>

-----------------------------------------------------------------------------
(* Acquire and Release                                                     *)

\* An Acquire that times out changes nothing here and is not shown.
Acquire(t, m) ==
  /\ pc[t] = "run"
  /\ \/ /\ Owned(t, m) /\ Nest(m)
        /\ UNCHANGED <<holder, pc, op>>
     \/ /\ ~Owned(t, m)
        /\ OsLock(t, m, "acquireStore")
        /\ UNCHANGED recursion
  /\ UNCHANGED <<owner, listVars, stack, globalLink, walkVars>>

\* The rest of Acquire: store the owner, push on the front of the list.
AcquireStore(t) ==
  LET m == op[t] IN
  /\ pc[t] = "acquireStore"
  /\ owner' = [owner EXCEPT ![m] = t]
  /\ next' = [next EXCEPT ![m] = LinkOf(t)]
  /\ prev' = [k \in Mutexes |-> IF k = LinkOf(t) THEN m
                                ELSE IF k = m THEN None ELSE prev[k]]
  /\ SetLink(t, m)
  /\ op' = [op EXCEPT ![t] = None]
  /\ pc' = [pc EXCEPT ![t] = "run"]
  /\ UNCHANGED <<holder, recursion, walkVars>>

Unlink_KeepPrev(t, m) ==
  /\ IF prev[m] # None
     THEN next' = [next EXCEPT ![prev[m]] = next[m]] /\ UNCHANGED <<stack, globalLink>>
     ELSE SetLink(t, next[m]) /\ UNCHANGED next
  /\ UNCHANGED prev
\* Take m out of its list, which is taken to be the current one.
Unlink(t, m) ==
  /\ IF prev[m] # None
     THEN next' = [next EXCEPT ![prev[m]] = next[m]] /\ UNCHANGED <<stack, globalLink>>
     ELSE SetLink(t, next[m]) /\ UNCHANGED next
  /\ prev' = [k \in Mutexes |-> IF k = next[m] THEN prev[m] ELSE prev[k]]

Release(t, m) ==
  /\ pc[t] = "run" /\ Owned(t, m)
  /\ m \in ListOf(LinkOf(t)) \/ "releaseElsewhere" \in AmlMay
  /\ \/ /\ Nested(m)
        /\ recursion' = [recursion EXCEPT ![m] = @ - 1]
        /\ UNCHANGED <<holder, owner, listVars, stack, globalLink, pc, op>>
     \/ /\ ~Nested(m)
        /\ Unlink(t, m)
        /\ OsUnlock(t, m, "releaseClear", "run")
        /\ UNCHANGED recursion
  /\ UNCHANGED walkVars

ReleaseClear(t) ==
  /\ ClearOwner(t, "releaseClear", "run")
  /\ UNCHANGED <<holder, recursion, listVars, stack, globalLink, walkVars>>

-----------------------------------------------------------------------------
(* Leaving methods: ~MethodFrame, unwind_stack, ~Interpreter               *)

\* ~MethodFrame of entry e up to the serialized lock; the list is walked next.
Destroy(t, e, resume) ==
  /\ cur' = [cur EXCEPT ![t] = e.link]
  /\ back' = [back EXCEPT ![t] = resume]
  /\ \/ /\ e.method \notin Serialized
        /\ pc' = [pc EXCEPT ![t] = "walk"]
        /\ UNCHANGED <<lockVars, op>>
     \/ /\ e.method \in Serialized /\ Nested(e.method)
        /\ recursion' = [recursion EXCEPT ![e.method] = @ - 1]
        /\ pc' = [pc EXCEPT ![t] = "walk"]
        /\ UNCHANGED <<holder, owner, op>>
     \/ /\ e.method \in Serialized /\ ~Nested(e.method)
        /\ OsUnlock(t, e.method, "serialClear", "walk")
        /\ UNCHANGED recursion

SerialClear(t) ==
  /\ ClearOwner(t, "serialClear", "walk")
  /\ UNCHANGED <<holder, recursion, listVars, stack, globalLink, walkVars>>

\* The loop over mutex_link (or global_locked_mutexes): unlock, and only then
\* read mutex->next.  Recursion counts are left as they are.
Walk(t) ==
  /\ pc[t] = "walk"
  /\ \/ /\ cur[t] = None
        /\ pc' = [pc EXCEPT ![t] = back[t]]
        /\ back' = [back EXCEPT ![t] = "run"]
        /\ UNCHANGED <<lockVars, op, cur>>
     \/ /\ cur[t] # None
        /\ OsUnlock(t, cur[t], "walkClear", "walk")
        /\ cur' = IF AtomicUnlock THEN [cur EXCEPT ![t] = next[@]] ELSE cur
        /\ UNCHANGED <<recursion, back>>
  /\ UNCHANGED <<listVars, stack, globalLink>>

WalkClear(t) ==
  /\ ClearOwner(t, "walkClear", "walk")
  /\ cur' = [cur EXCEPT ![t] = next[@]]
  /\ UNCHANGED <<holder, recursion, listVars, stack, globalLink, back>>

\* parse() reaches the end of a method's AML.
MethodEnd(t) ==
  /\ pc[t] = "run" /\ Top(t).kind \in {"method", "load"}
  /\ NothingNested(t, ListOf(Top(t).link))
  /\ Pop(t)
  /\ Destroy(t, Top(t), IF Depth(t) = 1 THEN "teardown" ELSE "run")
  /\ UNCHANGED <<listVars, globalLink>>

\* parse() reaches the end of the table it executes.
ScopeEnd(t) ==
  /\ pc[t] = "run" /\ Top(t).kind = "scope"
  /\ NothingNested(t, ListOf(globalLink[t]))
  /\ Pop(t)
  /\ pc' = [pc EXCEPT ![t] = "teardown"]
  /\ UNCHANGED <<lockVars, listVars, globalLink, op, walkVars>>

\* An operation fails: with frames above the base they are unwound and the base
\* goes on, else the interpreter returns the error.
Fail(t) ==
  /\ pc[t] = "run" /\ "error" \in AmlMay /\ NothingNested(t, Mutexes) /\ NoLockPending(t)
  /\ pc' = [pc EXCEPT ![t] = IF FramesAboveBase(t) # {} THEN "unwind" ELSE "teardown"]
  /\ UNCHANGED <<lockVars, listVars, stack, globalLink, op, walkVars>>

\* Some errors (unknown opcode, no memory) return from parse() at any depth.
Abort(t) ==
  /\ pc[t] = "run" /\ "argError" \in AmlMay /\ NothingNested(t, Mutexes)
  /\ pc' = [pc EXCEPT ![t] = "teardown"]
  /\ UNCHANGED <<lockVars, listVars, stack, globalLink, op, walkVars>>

\* unwind_stack, one entry at a time.  A pending call is dropped as it is; the
\* frame of a Load is the last one to go.
UnwindDone(t) ==
  /\ pc[t] = "unwind" /\ FramesAboveBase(t) = {}
  /\ pc' = [pc EXCEPT ![t] = "run"]
  /\ UNCHANGED <<lockVars, listVars, stack, globalLink, op, walkVars>>
UnwindDrop(t) ==
  /\ pc[t] = "unwind" /\ FramesAboveBase(t) # {}
  /\ Top(t).kind \in {"call", "block"}
  /\ Pop(t)
  /\ UNCHANGED <<lockVars, listVars, globalLink, pc, op, walkVars>>
UnwindFrame(t) ==
  /\ pc[t] = "unwind" /\ FramesAboveBase(t) # {}
  /\ Top(t).kind \in {"method", "load"}
  /\ Pop(t)
  /\ Destroy(t, Top(t), IF Top(t).kind = "load" THEN "run" ELSE "unwind")
  /\ UNCHANGED <<listVars, globalLink>>

TeardownList_Kept(t) ==
  /\ pc[t] = "teardown" /\ globalLink[t] # None
  /\ cur' = [cur EXCEPT ![t] = globalLink[t]]
  /\ back' = [back EXCEPT ![t] = "teardown"]
  /\ pc' = [pc EXCEPT ![t] = "walk"]
  /\ UNCHANGED <<lockVars, listVars, stack, globalLink, op>>
\* ~Interpreter: its own list, then whatever frames are left, bottom first.
TeardownList(t) ==
  /\ pc[t] = "teardown" /\ globalLink[t] # None
  /\ cur' = [cur EXCEPT ![t] = globalLink[t]]
  /\ back' = [back EXCEPT ![t] = "teardown"]
  /\ globalLink' = [globalLink EXCEPT ![t] = None]
  /\ pc' = [pc EXCEPT ![t] = "walk"]
  /\ UNCHANGED <<lockVars, listVars, stack, op>>
TeardownFrame(t) ==
  /\ pc[t] = "teardown" /\ globalLink[t] = None
  /\ \E i \in MethodFrames(t) :
       /\ \A j \in MethodFrames(t) : i <= j
       /\ Put(t, i, NewEntry("dead", None))
       /\ Destroy(t, stack[t][i], "teardown")
  /\ UNCHANGED <<listVars, globalLink>>
TeardownDone(t) ==
  /\ pc[t] = "teardown" /\ globalLink[t] = None /\ MethodFrames(t) = {}
  /\ stack' = [stack EXCEPT ![t] = <<>>]
  /\ pc' = [pc EXCEPT ![t] = "idle"]
  /\ UNCHANGED <<lockVars, listVars, globalLink, op, walkVars>>

-----------------------------------------------------------------------------
\* What the AML program, or the caller of the interpreter, decides.
Aml(t) ==
  \/ Execute(t) \/ Load(t) \/ OpenBlock(t) \/ Fail(t) \/ Abort(t)
  \/ \E f \in Methods : Invoke(t, f) \/ BeginCall(t, f)
  \/ \E m \in Mutexes : Acquire(t, m) \/ Release(t, m)
  \/ Call(t) \/ CloseBlock(t) \/ MethodEnd(t) \/ ScopeEnd(t)

\* What the interpreter does on its own once it is under way.
Interpret(t) ==
  \/ InvokeStore(t) \/ CallStore(t) \/ AcquireStore(t) \/ ReleaseClear(t)
  \/ SerialClear(t) \/ Walk(t) \/ WalkClear(t)
  \/ UnwindDone(t) \/ UnwindDrop(t) \/ UnwindFrame(t)
  \/ TeardownList(t) \/ TeardownFrame(t) \/ TeardownDone(t)

Next == \E t \in Threads : Aml(t) \/ Interpret(t)

Spec == Init /\ [][Next]_vars

\* The interpreter's own code keeps running; AML may stop taking steps.
FairSpec == Spec /\ \A t \in Threads : WF_vars(Interpret(t))
-----------------------------------------------------------------------------
(* Properties                                                              *)

\* The frames of t in the body of method f.
Inside(t, f) == {i \in 1 .. Depth(t) : stack[t][i].kind = "method" /\ stack[t][i].method = f}

\* A Serialized method is executed by one thread at a time, whatever the
\* recursion, the errors and the mutexes of the AML around it: the lock is taken
\* in handle_name, handed to the MethodFrame and dropped by its destructor.
SerializedExclusion ==
  \A f \in Serialized, t, u \in Threads :
    Inside(t, f) # {} /\ Inside(u, f) # {} => t = u

\* Why: from handle_name on, whoever has entered f (its call may still be pending)
\* holds the lock of f, has entered it at most recursion + 1 times, and is its
\* owner's only possible value until ~MethodFrame has cleared it.
Entered(t, f) == {i \in 1 .. Depth(t) : stack[t][i].method = f}
LockCoversEntries ==
  \A f \in Serialized, t \in Threads :
    /\ Entered(t, f) # {} => holder[f] = t /\ Cardinality(Entered(t, f)) <= recursion[f] + 1
    /\ owner[f] = t => holder[f] = t \/ (pc[t] = "serialClear" /\ op[t] = f)
    /\ pc[t] \in {"invokeStore", "callStore"} /\ op[t] = f =>
         holder[f] = t /\ Entered(t, f) = {}

\* The lock of a Serialized method is freed only by the thread that has it, at the
\* end of the last of its activations (~MethodFrame), and whoever takes it counts
\* from nesting level zero: no lock is lost to another thread's Mutex::unlock.
MethodUnlocks ==
  [][\A f \in Serialized, t \in Threads :
       /\ holder[f] = t /\ holder'[f] # t =>
            /\ MethodEnd(t) \/ UnwindFrame(t) \/ TeardownFrame(t)
            /\ Entered(t, f)' = {}
       /\ holder[f] # t /\ holder'[f] = t => holder[f] = None /\ recursion[f] = 0]_vars

\* The same as a refinement: Serialized methods are reentrant monitors.
Activations == [f \in Serialized |-> [t \in Threads |-> Cardinality(Inside(t, f))]]
M == INSTANCE Monitor WITH inside <- Activations
Monitors == M!Spec

\* A thread whose interpreters have all returned holds no lock: what a method or
\* a table leaves locked is released by ~MethodFrame or ~Interpreter, through
\* the lists that Acquire and Release keep.
ReleasedAtExit ==
  \A t \in Threads : pc[t] = "idle" => \A l \in Locks : holder[l] # t

\* Mutex m is on a list of thread t: of a method that runs, of the interpreter, or
\* what is left of the one a destructor is at.
Listed(t, m) ==
  \/ m \in ListOf(globalLink[t])
  \/ pc[t] \in {"serialClear", "walk", "walkClear"} /\ m \in ListOf(cur[t])
  \/ \E i \in MethodFrames(t) : m \in ListOf(stack[t][i].link)

\* The intrusive lists are exact: outside the windows of lock and unlock a mutex
\* is on a list of the thread that holds it and of no other, prev undoes next,
\* and no mutex is on two lists of one thread.
ListsExact ==
  /\ \A m \in Mutexes, t \in Threads :
       (holder[m] = t /\ ~(pc[t] = "acquireStore" /\ op[t] = m)) <=> Listed(t, m)
  /\ \A t \in Threads, m \in Mutexes :
       Listed(t, m) => /\ next[m] # None => prev[next[m]] = m
                       /\ Cardinality({i \in MethodFrames(t) : m \in ListOf(stack[t][i].link)}) <= 1

\* No thread waits for a lock that it holds itself: Mutex::owner tells the thread
\* that a recursive Acquire or call only has to count.
NoSelfDeadlock ==
  \A t \in Threads, l \in Locks : pc[t] = "run" /\ holder[l] = t => owner[l] = t

\* Only the thread that holds a lock frees it.
OnlyHolderUnlocks ==
  [][\A l \in Locks, t \in Threads :
       holder[l] # holder'[l] /\ holder[l] = t => <<Aml(t) \/ Interpret(t)>>_vars]_vars

\* A mutex that was free is acquired at nesting level zero, so the Release that
\* balances this Acquire is the one that frees it.
FreshAcquire ==
  [][\A m \in Mutexes : holder[m] = None /\ holder'[m] # None => recursion[m] = 0]_vars

\* A destructor's loop over a list of mutexes ends, and so does unwinding.
TeardownEnds ==
  \A t \in Threads : pc[t] \in {"walk", "unwind", "teardown"} ~> pc[t] \in {"run", "idle"}

\* The bookkeeping of the locks: the lists hold what their method or interpreter
\* has locked, a thread that has left its methods holds nothing, and no thread
\* waits for itself (Acquire, Release and the destructors' walks).
LocksSound == ReleasedAtExit /\ ListsExact /\ NoSelfDeadlock
=============================================================================
