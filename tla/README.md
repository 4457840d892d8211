# TLA+ models of qacpi

qacpi is an ACPI implementation for kernels: it loads the ACPI tables of a machine,
interprets their AML bytecode, keeps the namespace of devices and methods, and handles
the power management events of the hardware. This directory holds TLA+ models of it, the
TLC configurations that check them and proofs checked by TLAPS. `src/` is the
repository; line numbers are those of the modelled commit.

Check a configuration with `tlc -config <cfg> <module>` and a proof module with
`tlapm <module>.tla`.

## 1. Inventory

| component | code | state | operations | what makes it correct |
|---|---|---|---|---|
| AML mutexes | `sync.cpp`, `interpreter.cpp` 2305-2350, 2451-2497, 5458-5465, 5734-5750 | per mutex: the host's mutex, `owner`, `recursion`, `prev`, `next`; per method and per interpreter the head of the list of its mutexes | Acquire, Release, the walks of `~MethodFrame` and `~Interpreter` | one holder; a thread that has left its methods holds nothing; the lists are exact; an owner never waits for itself |
| Serialized methods | `interpreter.cpp` 86-93, 295-302, 1617-1685, 5736-5743 | one `Mutex` per method, `MethodFrame::serialize_mutex` | taken in `handle_name` before the arguments are evaluated, dropped by `~MethodFrame` | one thread at a time in the body, under recursion and errors |
| interpreter control | `interpreter.cpp` 11-26, 79-147, 1122-1215, 4764-5456 | `frames` with their `op_blocks`, `method_frames`, `objects`, `current_scope` | `parse`, `execute`, `invoke_method`, Call, If, While, Return, Break, Continue, `unwind_stack` | the stacks agree; every method leaves what it promises on `objects`; errors return to the base frame; loops end |
| interpreter operations | `interpreter.cpp` 1217-4763 | none of its own | `handle_op` | results; failing leaves the stacks consistent |
| opcode tables | `ops.cpp`, `aml_ops.hpp` | static | | |
| AML events | `sync.cpp` 46-75 | the host's event | Signal, Reset, Wait | |
| namespace | `ns.cpp`, `context.cpp` 183-230, 997-1097, `interpreter.cpp` 1535-1640, 2074-2142, 5752-5762 | a tree of `NamespaceNode`, the list `all_nodes`, a method's and a load's list `node_link`, `current_scope` | `create_or_find_node`, Name, Scope, Device, `remove_child`, `~MethodFrame` | a node has one parent and one owner; nothing reaches a freed node; a method's nodes go with it; a search finds the nearest |
| initialisation, discovery | `context.cpp` 625-717, 765-985 | a stack of nodes to come | `init_namespace`, `discover_nodes`, `iterate_nodes` | _INI only under present parents, once and in order; each match is found, once |
| tables | `context.cpp` 11-181, 314-495, `interpreter.cpp` 4273-4598, 4787-4952 | `tables` with reference counts, the buffers of loads | `init`, find, `unref`, `load_namespace`, Load, LoadTable, their failure | code that may run is mapped; references balance; each definition block is loaded once |
| operation regions | `op_region.cpp`, `handlers.cpp`, `context.cpp` 600-765, `interpreter.cpp` 3279-3405 | the list of regions that wait, `attached` per region, the handlers per address space, the shared count of copies | OperationRegion, attach, `run_reg`, `register_address_space_handler`, `deregister_...` | _REG once per region, whatever came first; no access before attach; a mapping is freed once |
| fields | `interpreter.cpp` 453-507, 735-793, 2182-2246, 5467-5716 | bank and index registers | `read_field`, `write_field`, CreateField | a write changes the field's bits and no other; a read returns the field |
| objects | `object.hpp`, `shared_ptr.hpp`, `variant.hpp`, `interpreter.cpp` 325-1110, 1217-2031 | reference counted objects in names, locals, arguments and packages | store, copy, reference, dereference, index | a store changes its target only, to the value; objects are held once; references end |
| strings, buffers | `string.cpp`, `buffer.cpp` | | conversions | |
| power events | `event.cpp` 1-627, 1170-1206 | the GPE registers, per block the lists `enabled_events` and `aml_events` with their `work` items, the fixed handlers, the host's work queue | `init`, `on_sci`, `check_gpe_events`, `check_fixed_events`, the queued work, enable, disable | every event enabled and pending is handled; none is switched off for good; the SCI falls silent |
| sleep | `event.cpp` 628-688, 749-1116 | the wake lists, the sleep types, PM1 control | prepare, enter, `prepare_for_wake`, `wake_from_state`, `enable_acpi_mode` | sleeps in the state asked for, armed as asked; the runtime set comes back |
| notify | `event.cpp` 690-747 | a doubly linked list of handlers | install, uninstall, `on_notify` | a removed handler is not called and not read |
| resources | `resources.cpp` | | parse descriptors | stops within the buffer |
| containers | `small_vec.hpp`, `array.hpp` | | push, pop, remove | elements move when the storage grows |
| utilities, logger | `utils.cpp`, `logger.cpp` | | | |
| host interface | `os.hpp` | external | mutexes, events, work queue, memory, I/O | |

How they interact. The host calls `Context` and `EventContext` from its threads.
`Context::evaluate` builds an `Interpreter` per call, on the calling thread. Two interpreters
meet in the shared namespace, in the mutex objects, in reference counted objects and in the
table list; only the mutexes of the AML are locks. An operation region attach or a handler
registration evaluates `_REG`, so a second interpreter can run inside the first on one
thread. The SCI handler queues work; the host runs it on another thread, where it evaluates
`_Lxx`/`_Exx` methods. `Notify` is passed to the host
(`qacpi_os_notify`), which calls `on_notify`; the handler that is found may itself install and
uninstall handlers.

What is hard in it: locks whose ownership is a plain field written after the host's lock is
taken and dropped; intrusive lists shared between threads by way of those locks; destructors
that release locks while an error is unwound; deferred work that refers to elements of
growing vectors; register bits changed by read-modify-write from several contexts; evaluation
of AML in the middle of list updates; an interpreter that must recover from errors at any
depth of three stacks that grow and shrink together. The hazards are listed line by line in
PROJECT.json, with the properties that would catch them going wrong.

## 2. Modules

| section | module | models | abstract specification | composition |
|---|---|---|---|---|
| 3 | `MethodSync` | mutexes, Serialized methods, the stacks as the locks see them | `Monitor` | several interpreters, one per thread |
| 4 | `Opcodes`, `AmlInterp` | frames, operation blocks, object stack, control statements, calls, loads, loop timeouts, unwinding | | the operand scripts of `Opcodes` driven by `AmlInterp` |
| 5 | `GpeEvents` | SCI, GPE and fixed event dispatch, deferred work, enabling and disabling | | the chipset, the interrupt, the host's workers, the host's calls |
| 6 | `NotifyHandlers` | the list of notify handlers under handlers that change it | | |
| 7 | `SleepStates` | wake GPEs, sleep types, entering and leaving a sleep state, ACPI mode | | the host, the firmware, the GPEs of one register |
| 8 | `Tables` | table list, references, Load and LoadTable, failure | | the host, load_namespace and loads inside each other |
| 9 | `Namespace` | nodes, search rules, ownership of nodes by methods, loads and the context | | |
| 10 | `NamespaceWalks` | init_namespace, discover_nodes, iterate_nodes | | walks and loads that change what they walk over |
| 11 | `OpRegions` | region and handler lists, `_REG`, attach, the copies of a region | | threads that create, register and access at once |
| 12 | `FieldAccess` | fields of regions and of buffers, bit by bit | | |
| 13 | `Objects` | the graph of objects: stores, copies, references, calls | | |

`MC*` modules give a specification's constants their values; a `.cfg` is one run.
The modules `*Proofs` hold the proofs: `MethodSyncProofs` those of section 3, `AmlInterpProofs` those of section 4, `GpeEventsProofs` those of section 5, `NotifyHandlersProofs` those of section 6,
`SleepStatesProofs` those of section 7, `TablesProofs` those of section 8, `NamespaceProofs` those of section 9, `OpRegionsProofs` those of section 11.
Each begins with what it needs of numbers: least elements, induction over sets of numbers, recursion. Section 14 lists what the code does
not keep, section 15 what is checked and proved and what is not, section 16 what is not
modelled.

What can still be added, in this order: the relation of `MethodSync` to `AmlInterp`, whose frames and pending calls are the stack of the
first; the implicit conversions and the descriptor parser as pure functions.

## 3. Mutexes and Serialized methods: `MethodSync`

**State.** One interpreter runs per thread. `stack[t]` keeps the frames and the pending
calls of its interpreter in one sequence, in the order of pushing, because `unwind_stack`
discards objects and frames in that order. A `call` entry is a `MethodArgs` object on
`objects`, a `method` or `load` entry a `Frame` with its `MethodFrame`, a `block` entry any
other frame. `holder` is the host's mutex, `owner`, `recursion`, `prev` and `next` are the
fields of `Mutex`; `globalLink` is `Interpreter::global_locked_mutexes` and the `link` of an
entry is `MethodFrame::mutex_link`. `pc`, `op`, `cur` and `back` say where the thread is
inside an operation that takes several steps.

**Actions.** `Mutex::lock` takes the host's mutex and then stores the owner; `Mutex::unlock`
frees it and then clears the owner. Between the two writes other threads run, so each
operation that locks has a second action (`InvokeStore`, `CallStore`, `AcquireStore`) and each
that unlocks too (`ReleaseClear`, `SerialClear`, `WalkClear`). `Invoke`, `BeginCall`, `Call`,
`MethodEnd`, `Load`, `OpenBlock`, `CloseBlock` and `ScopeEnd` are what `parse` does to the
stacks; `Fail` and `Abort` are its two error paths; `Unwind*` is `unwind_stack`, `Destroy`
with `Walk` is `~MethodFrame`, `Teardown*` is `~Interpreter`. What AML does next is chosen
freely.

**Liberties.** AML and the host may do things under which parts of the discipline fail, and
CONSTANTS say whether they do: `AmlMay` holds the liberties of the AML
(`releaseElsewhere`, `endNested`, `error`, `argError`, `limit`), and `AtomicUnlock = TRUE`
means that the host does not preempt a thread between the two writes of `Mutex::unlock`.
`argError` is a failure, or a call refused at the recursion limit, while the call of a Serialized
method is pending: its lock was taken with the name, and nothing gives it back. What is proved
of exclusion, and of who frees a Serialized method's lock and when, needs no restriction. The lists
of locked mutexes are exact only under some, which the code does not enforce: the run `lists` and the
proofs named below are about hosts and AML that keep to them, and section 14 has what happens otherwise.

| run | liberties | checks | shows |
|---|---|---|---|
| `monitors` | all, preempted unlock included | `TypeOK`, `LockCoversEntries`, `SerializedExclusion`, `Monitors` | the inductive core of the proof; Serialized methods are reentrant monitors |
| `lists` | atomic unlock; `error`, `limit` (a call is refused, with no lock pending) | `LocksSound`, `OnlyHolderUnlocks`, `FreshAcquire`, `TeardownEnds` | nothing stays locked; the lists are exact; a balanced Release frees; destructors and unwinding end |

`LocksSound` is `ReleasedAtExit` (a thread without an interpreter holds nothing), `ListsExact`
(a mutex is on the list of its holder and on no other, and `prev` undoes `next`) and
`NoSelfDeadlock` (an owner is recognised, so it never waits for itself). `LocksSound` also
holds with `endNested`; `FreshAcquire` does not (section 14). `MethodUnlocks`, that the lock of a
Serialized method is freed only by the thread that has it, when none of its activations is left, and is
taken with `recursion` 0, holds with every liberty and is proved.

**Bounds.** Two threads suffice for a lock to pass from one to another; two mutexes give
lists with a front, a rear and a neighbour; one Serialized method can be called from itself.
`MaxStack` 2 gives a method called from a method or a call pending in one; `MaxRecursion`
bounds the nesting of one lock; `MaxDepth` is `Context::max_callstack_depth`. In `lists` (1) a call from
the first method meets the limit, of the method `g` that has no lock. In `monitors` (2) nothing meets
it: a call of a Serialized method that is refused takes three entries, more than the run can have, and
is covered by the proofs, which have no bound. `monitors` has every interleaving of the half-done locks.

**Fairness.** `FairSpec` assumes weak fairness of the steps the interpreter takes on its own
(`Interpret`), per thread: it is ordinary code that the host's scheduler runs. The AML
(`Aml`) has no fairness: a method may run for ever or wait for a lock.

**Deadlock** is not checked: two threads may acquire two mutexes in opposite orders, and a
thread whose lock leaked waits for ever; the AML program decides that.

### Proofs

`MethodSyncProofs` proves the typing, exclusion and the unlocking of Serialized methods, then, under
a condition, what concerns the lists of locked mutexes. Assumptions: `None` is no
thread and no lock; Serialized methods are methods; mutexes and methods are different; the
bounds are natural numbers. Threads, mutexes and methods may be any sets.

The argument. Mutual exclusion does not follow from `owner` being right, for it is not: the
late `owner = nullptr` may erase the owner of the next holder. What holds is
`LockCoversEntries`: (a) a thread that has entered a Serialized method (a pending call counts)
holds the host's mutex, and has entered it at most `recursion + 1` times; (b) if `owner` is t,
then t holds the mutex or is just about to clear `owner`; (c) a thread between lock and store
has no entry yet. (b) is why an erased owner is harmless for exclusion: it can only make a
thread wait for itself. (a) with the recursion count is why `~MethodFrame` frees the lock with
the last activation and never earlier. The invariant is inductive together with the types and
the facts on control in `ControlOK` and `BaseOK` (which `pc` belongs to which kind of `op`,
and that a running interpreter has a base frame), `IInv == TypeOK /\ ControlOK /\ BaseOK /\
LockCoversEntries`. Exclusion follows, because `holder` is a function; the refinement of
`Monitor` follows, because an activation starts under the lock.

| theorem | states | under |
|---|---|---|
| `Typing` | `Spec => [](TypeOK /\ ControlOK /\ BaseOK)` | nothing |
| `Invariance` | `Spec => []IInv` | nothing |
| `Covering` | `Spec => []LockCoversEntries` | nothing |
| `Exclusion` | `Spec => []SerializedExclusion` | nothing |
| `Implements` | `Spec => Monitors` | nothing |
| `Unlocks` | `Spec => MethodUnlocks` | nothing |
| `ListsInvariance` | `Spec => []LInv` | `Discipline` |
| `LocksBookkeeping` | `Spec => []LocksSound` | `Discipline` |
| `HolderUnlocks` | `Spec => OnlyHolderUnlocks` | `Discipline` |
| `FreshAcquires` | `Spec => FreshAcquire` | `Discipline`, no `endNested` |

`Unlocks` needs, beside `IInv`, that the mutex of a Serialized method which nobody holds has
`recursion` 0 (`FreeFlat`); that a step which frees one ends its last activation is said of each step (`SerialMove`, `GivesUp`).

The last four are conditional results. `Discipline` is `AtomicUnlock` without `releaseElsewhere` and
`argError`, the three under which section 14 has counterexamples; errors, refused calls and, for the
first three, methods that end with a mutex acquired twice are included. Neither the code nor its
interface to the host asks for `AtomicUnlock`: on a host that preempts `Mutex::unlock` between its two
writes (sync.cpp:38-44) these results say nothing.

`ListsExact` is not inductive: `next` and `prev` say nothing of a mutex on no list, and a list
could be a cycle, which `ListOf` would go round as well. `ListsOK` gives every mutex that is owned two
witnesses, the list `at` that it is on (0 is the interpreter's, i that of the i-th entry of the stack,
-1 what a walk has yet to free) and a place `pos` that grows along `next`. Pushing on a list, unlinking
from it and freeing its head keep such witnesses (`OnFront`, `OutOfList`, `WalkedPast`), and an
action does one of these, or starts a walk, or leaves the lists alone (`ListMove`). The others of `LInv`:
`StackFine` (only methods and loads have links, a thread without an interpreter has no entry and no
list, and what is thrown away has no pending lock), `OwnersOK` (owner is holder but between the steps of one lock), and `Balanced` (the
stack of a holder has entered its Serialized method `recursion + 1` times). With
these, a thread at the end of its teardown has no list and no entry, so it owns nothing, and
with `OwnersOK` holds nothing. `FreshAcquires` adds `Unnested`: a mutex that is free, or that a walk
is about to free without a look at its count, has `recursion` 0. Only model-checked: `TeardownEnds` (liveness).

### Left out

A second interpreter on the same thread (`_REG` evaluated by an operation region); running
out of memory; locks that fail or time out (a timed-out Acquire changes nothing); destruction
of a mutex object that is locked; `Mutex::sync_level`, which the code does not use.

## 4. Interpreter control: `Opcodes` and `AmlInterp`

`Opcodes` translates the table of `ops.cpp`: each handler's script of operands, and, from
the handlers in `handle_op`, the objects they take off the stack, by type. The two were
written by hand in different files and nothing in the code compares them; the handlers use
`get_unsafe`. Opcodes with the same handler (`Zero`, `One`, the constant prefixes, ...) are
one element.

**State.** `frames` are the `Frame`s with their `op_blocks`; the distance of `ptr` from `end`
is `left`, the number of statements not yet fetched; `again` says that `ptr` was set back
to a While. `end` and `exp` are the end of a loop body and whether its time has not run out
(`expiration_time`), `prevEnd` and `prevExp` what the frame remembers of the last loop that
ended in it. `methodFrames` says of each `MethodFrame` whether it is a method's or a loaded
table's. `objects` holds the types of what is on the object stack, with the counters of
`MethodArgs` and `FieldList`. `scope` is `current_scope`, as the number of the frame that
entered it. `status` is how `parse` returned.

**Actions.** One step is one round of the loop of `parse`: fetching a statement, starting an
operand (by its kind: `PlainOperand`, `TermOperand`, `ArgsOperand`, `ElementsOperand`,
`FieldsOperand`), checking it off (`OperandDone`), calling the handler (`HandleOp` for those
that leave the frames alone, one action for each of the others), or ending a frame
(`EndFrame`, `LoadEndFails`, `Finish`). `Fail` is an operation's error, at any place, or an
immediate return. `Unwound` is `unwind_stack` as a function of the stacks, because six
places call it. `Tick` is the passing of time. There is no AML text: what the next opcode is,
what a name means, how a predicate evaluates and how long a body is are chosen freely, so a
While may be true for ever and a method may call any other.

**Liberties** (`AmlMay`): `error` (operations fail), `outerWhile` (a While in the outermost
frame), `leaveScope` (an error leaves a Scope or Device block), `loadAtLimit` (Load with
`MaxDepth` method frames or more), `literals` (literals as statements, whose object stays on the stack:
`StatementsBalance` and `NoInternalError` are not claimed of these). `program` says which of three kinds
of AML is run, with its opcodes, bounds and liberties. Break and Continue are always in a loop of their own method: the
compiler rejects others.

| run, `program` | AML | checks | shows |
|---|---|---|---|
| `parse`, `Control` | If, While, Return, Break, Continue, calls, loads, devices; errors | `StacksAgree`, `CallsBounded`, `CallersOperandsKept`, `Returns` | the stacks stay consistent, a method yields one result, evaluation ends |
| `parse`, `Deep` | calls, loads and Return beyond the limit (`loadAtLimit`); errors | the same but `Returns` | the frame that is first beyond the limit is a load's |
| `parse`, `EveryOpcode` | every opcode as a statement, every kind of operand; errors, scopes left | `OperandsSound` and the above | handlers get what they take, with results, packages and calls in between |

`OperandsSound` is `OperandsMatch` (the top of the object stack is what the script promised the
handler, in type and number) and `NoTrap` (the traps of `parse` are unreachable).
`StacksAgree` is `TypeOK`, `FramesAgree` (a `MethodFrame` per frame of a method or load) and
`ScopeAgrees` (`current_scope` is that of the innermost scope frame), with
`StatementsBalance` (a statement leaves nothing behind but a method's one result) and
`NoInternalError` (the assertions at the end of `parse`). `CallsBounded` says what the `==` of
interpreter.cpp:1621 is good for: there are more than `MaxDepth` method frames only if AML loads a table at the
limit, and then the frame first beyond it is that load's. Calls on top of it are not refused, so
`Returns` is claimed of AML that does not do that.

**Bounds.** `MaxFrames` 4 in `Control` has a base, a block or method, a block in it, and a call or load
in that; `MaxBody` 2 lets a statement follow one that failed or returned. `MaxBlocks` 2 in
`EveryOpcode` nests an operation in another's operand, deeper nesting repeats the same block on
the same stack; it keeps two frames, for what more frames do to operands is `CallersOperandsKept`.
`MaxArgs` 1 tells no argument from one that is collected.

**Fairness** (`FairSpec`): weak fairness of `Parse`, which is a loop that runs, and of `Tick`,
since the host's timer advances. Without `Tick` a loop need not end, and does not.
**Deadlock** is not checked: `parse` returns.

### Proofs

`AmlInterpProofs` proves all four safety properties of the run, for any programs (`Programs` with
their opcodes, bounds and liberties) and any `MaxDepth`:

| theorem | states | assumes |
|---|---|---|
| `OperandsFit` | `OperandsSound`: a handler finds what the script promised it, no trap of `parse` is reached | nothing further |
| `StacksFit` | `StacksAgree`: frames, method frames, scope and object stack fit together | nothing further |
| `CallDepth` | `CallsBounded`: no call is the first beyond `MaxDepth`, only a load | nothing further |
| `CallersKept` | `CallersOperandsKept`: what a caller has collected survives what it calls | nothing further |

None of the four is inductive, for none says what lies below the top of the stack: an operand checked
off now was pushed by a frame that is gone, above objects that belong to frames which wait.
The inductive invariant `IInv` (theorem `Invariance`) therefore shares the whole object stack out.
From the bottom, each frame has what its statements or elements have left, then each operation
nested in it has the operands collected so far (`Collected`: from `Base` to `start`, of the types
the script says) and above them what the operand that is waited for may be (`Height` for the one
`parse` works on, `Waits`, `FieldsWait` and `PackageWaits` for the others). `Shape` says so of all frames,
and with it stand, each for a reason of its own:

- `BlocksPlaced`: which operations may be where (a statement first, operands above it, nothing that
  enters a frame at `MaxFrames`); without it a handler could be one whose script never advanced;
- `FramesLinked`: which frame lies on which; a block's frame lies on a frame between statements, so that
  Break, Continue and Return cut at a boundary of `Shape`;
- `MethodsFit`: the k-th method frame is that of the k-th frame of a method or load;
- `Balanced`, for programs without literals as statements: the height at which a statement ends;
- `ScopesFit`, for programs without `leaveScope`: every frame remembers the scope below it;
- the depth: a method frame beyond the limit lies on a load's that is the first beyond it.

`Fit` is stated of any four stacks, not of the variables, because `Unwound` takes the stacks of a step
half done (a Return whose frames are cut, an error inside a handler) to those after it: lemmas about
`Fit` of stacks cut, popped and pushed carry both. The scripts enter only through `ScriptFits`, proved of each
opcode of `Opcodes`: the operands that are collected one by one, their types, and the handler's
expectations are the same list. That is the comparison of the two tables
that the code never makes. The step lemmas (`NextMoves`, one per action below it) then say what a step does to the
shared-out stack.

**Left out.** Values of objects (section 13); running out of memory between two pushes; the namespace (a
name is found or not; section 9); the opcode bytes; errors of `unwind_stack` itself.

## 5. Power events: `GpeEvents`

**State.** `sts` and `en` are the status and enable bits of the GPE registers as sets of lines
(block, register, bit), `fixedSts` and `fixedEn` those of the PM1 event registers. `events` are
`enabled_events` and `aml_events` of each block, `fixedFn` the fixed events with a handler.
`queue` is the host's work queue and `job` what its workers and the SCI's handler do; an item of work
is the *address* of an element (`list`, `slot`) together with what was there when it was queued (`of`),
because `SmallVec::remove` shifts elements under it. `call` is the host's call into the event context,
`read` what a thread, the SCI's handler included, has read of an enable register and not yet written
back. `wants` is outside of the code: the sources that have asked for something nobody has done. A level
triggered source holds its status bit set for as long as it wants (`Latched`). `lost` is history: the
lines that were enabled and that a thread switched off which meant to write another.

**Actions.** `RaiseGpe`, `RaiseFixed` are the devices. `Sci` is `qacpi_on_sci`; nothing on its
processor interrupts it, but workers and calls run on the others. `SciFixed` (`check_fixed_events`)
comes before `check_gpe_events`: `SciFind` takes the first element of the four lists whose status bit is
set, `SciRead` reads its enable register, `SciWrite` writes it back without the line, clears the status
of an edge triggered one and queues the work. The work runs in `WorkStart`, `WorkGpeFn` or `WorkFixedFn`,
`WorkClear`, `WorkRead`, `WorkWrite`, as `acpi_gpe_work` does: handler, clear, enable, the last in two
accesses. It takes what is at its address without a look (`At`): in a list that has changed another
element, past its end anything. The API is `EnableGpe` and `EnableAmlGpe` (push, then `CallRead` and
`EnableWrite`; `EnableFails` pops), `DisableGpe` with `CallRead`, `DisableWrite` and `RemoveGpe`,
`EnableFixed` with `StoreFixed`, `DisableFixed` with `ClearFixed`. Every change of an enable register is
thus a read and a write with any steps of other threads in between, and any number of threads may
overlap. Where the GPE is *wired* (`Wired`) is kept apart from where the code looks for it (`LineOf`,
`get_reg`), and the number of an AML GPE from its method's name (`GpeOf`).

| run | checks | shows |
|---|---|---|
| `events` | `WorkSound`, `EventsKept`, `EdgeOnce`, `Served`, `Quietens` | no request is forgotten, an edge triggered handler is called once for each, work finds its event, the interrupt falls silent, every request of a handled source is served, but where an overlapping write has switched its line off |

`EventsKept` is `NotForgotten` (what is wanted is latched, or in work whose handler is still to be
called), `NeverDead` (what is installed is enabled, or work or a call is about to enable it, or its line
is in `lost`) and `SciClaimed` (an asserted interrupt finds something to handle). `WorkSound` is
`TypeOK` and `WorkFindsItsEvent`. `EdgeOnce`: of an edge triggered GPE there is at most one queued
work, call of its handler or latched status at a time, and none without a request, which is what the
order of disabling, clearing and queueing in `check_gpe_events` is for. `Served` excepts the lines in
`lost`: the code has no lock around event.cpp:34-50, does lose them, and the run meets it between any two of
the SCI, the workers and the host's calls (section 14).

**Liberties** (`HostMay`) are empty in the run: handlers of GPEs are removed or added, and that of a
fixed event removed, only while no work of theirs is outstanding and the interrupt is masked while one is
removed (`changeBusy`), the host does not disable a GPE that a method handles (`disableAml`), and
enabling fails only before the interrupt has found the event (`failLate`). Nothing in the code makes a
host keep to them. Section 14 says what each breaks.

**Bounds.** One block with two registers of two bits: GPE 2 is edge triggered and the host's, GPE
3 is level triggered and has a method, and the host may take it as well, so that two lists hold
the same line; both are in one register, which makes the read-modify-write matter. A second
raise (`MaxRaises` 2) comes while the first is at work; with two workers and a queue of one, two works
run at once while a third waits, and the interrupt meets a queue that is full; two changes
(`MaxChanges`) have the host's and the method's events, or an event that is enabled and disabled. With a
queue of two the same properties hold (412,266 states). A second block shows only what section 14 lists for it.

**Fairness** (`FairSpec`): the interrupt is delivered while it is asserted, the host's workers run
(`WF` of `Work(w)` each), a call that has begun goes on. `Served` and `Quietens` need all three;
the devices and the host's next call have none.

**Left out.** Reading of the FADT; allocation; the addresses and widths of registers, and the
failure of accesses other than the one in `enable_gpe`: one that fails in the SCI after it has disabled
the GPE, or in queued work before it has enabled it, leaves the GPE off.

### Proofs

`GpeEventsProofs` proves the safety properties of the run but `EdgeOnce` for any GPEs, methods,
fixed events (finitely many), workers, register widths and bounds, from `EventAssumption` (numbers
are numbers, a method's letter says whether its GPE is edge triggered, GPEs are not fixed events).

| theorem | states | under |
|---|---|---|
| `TypeCorrect` | `Spec => [](TypeOK /\ ThreadsOK)` | nothing: with all liberties |
| `NoEventLost` | `Spec => []EventsKept` | `WellUsed`: no liberties, one GPE block |

`ThreadsOK` says which steps of a job come with something read. `NoEventLost` is about every
interleaving of the register accesses of the SCI, the workers and the calls; the lines in `lost` are its
exception, and it shows that nothing but such an overlap ever leaves an installed event off.
`EventsKept` is far from inductive. The invariant has, beside the types: `WorkFindsItsEvent` and
`RemovalsAreIdle` (nothing is outstanding while a call removes; a push moves no element, and what
`EnableFails` pops was not queued); `Kept` (what is wanted is latched or to be called *also* without a
handler, and what is level triggered is latched until it is served, because `Latched` sets the bit again
after each clear); `ListsOK` (a list has a GPE once, and in its own block) and `CallOK` (what a call
knows: the last element is the one being enabled; the line to be removed is disabled, and no method has
it), so that `RemoveGpe` takes the only event of the line it has disabled; `ReadsOK` (what a thread has
read, and will write back, has a handler), so that a late write enables nothing that was
removed; and `EnabledOK` (what is installed is enabled, lost, has work that will enable it, or is in a
call; what is enabled has a handler). Clearing the bit of one event leaves the others alone because a line
finds its GPE (`LineFinds`, by division with remainder), which is where a second block with a wrong base
breaks it. Only model-checked: `EdgeOnce`, `Served` and `Quietens`.

## 6. Notify handlers: `NotifyHandlers`

**State** is the list itself: `head`, `prev`, `next` and `node` per allocated entry; `walks` are the
active `on_notify` calls, the innermost last, since a handler may notify again; `installed` is
history, the entries as they should be.

**Actions.** `Install`, `Uninstall` (the first entry of a node), and `on_notify` in its steps:
`NotifyBegin`, `NotifySkip`, `NotifyCall`, `NotifyReturn`, `NotifyNone`. While `calling`, the
handler may do any of these.

`ListSound` is `ListExact` (the links are those of `installed`, in both directions, and nothing
else is allocated) and `NoFreedRead` (a walk that goes on stands on an allocated entry);
`LatestCalled`, that the handler called is the last one installed for the node. Both are checked by
`handlers` with four entries for two nodes, calls three deep: an entry can be removed in front of,
at and behind the one being called, and its memory taken again. There is no liveness: a
handler may notify itself for ever. Two threads at once are left out: the list has no lock,
and the host must not do it.

### Proofs

`NotifyHandlersProofs` proves both properties for any entries, nodes and depth of calls, from
`NotifyAssumption` (`Null` is no entry and no node): `HandlersSound == Spec => []ListSound` and
`CallsLatest == Spec => LatestCalled`. The invariant adds three facts to `TypeOK`, `ListExact` and
`NoFreedRead`. `Distinct`: an entry is in the list once, without which unlinking at one place says
nothing of the others. `OutersCall`: every walk but the innermost is in its call; since only the
innermost can be between two entries, and the list changes only while it is not, nobody holds an
entry that is freed. `Passed`: what a walk has come past is for other nodes, which is what makes the
entry it calls the latest one. The shift of the links in `Install` and `Uninstall` is proved on
`At(i)`, the i-th entry or `Null` at both ends.

## 7. Sleep states: `SleepStates`

**State.** The registers `sts`, `en` of the GPEs and `cnt` of PM1 control a and b (SCI_EN, SLP_TYP,
SLP_EN); the lists `native`, `aml`, `wakeEvents`, `amlWakeEvents`; `slpTyp` and `slpTypS0` as the code
keeps them and `given` as AML gave them; `call`, how far the host's call has come. History: `missed`, the GPEs whose enabling
failed with nobody told; `failed`, whether a call has broken off since the last complete `wake_from_state`.

**Actions.** `Prepare` is `prepare_for_sleep_state` (a package of one integer has both types in its
bytes, a longer one has one per element); `Enter*` are the steps of `enter_sleep_state`: disable
all GPEs, clear their status, arm those for wake, read both control registers, write the types, then
SLP_EN. `FallAsleep`, `StayAwake`, `Raise` and `Firmware` are the chipset. `PrepareWake`, `WakeType` are
`prepare_for_wake`, `WakeDisable`, `WakeClear`, `WakeGpes` are `wake_from_state`; `AcpiMode`, `Poll`,
`ModeDone` are `enable_acpi_mode`, whose loop gives up after `MaxPolls` reads.

Accesses fail as the code lets them. Where it returns (`EnterFails`, `WakeFails`) the call ends with what
has been written so far, GPEs disabled or armed included, `failed` is set, and the host may call
`wake_from_state` to get its events back (`WakeAgain`). Where it does not look at the result the call goes
on: when GPEs are armed for sleep (event.cpp:964, 969) and when the handled ones are enabled
again (1094, 1098) any of them may stay disabled (`Arms`, with `missed` for which), and
`prepare_for_wake` returns success also where it wrote nothing (1050-1057).

`sleep` checks `AsleepAsAsked` (`TypeOK`; `SleepsAsAsked`: both registers hold the prepared types, if
they fit three bits; `NoEarlySleep`: SLP_EN is set only when they do, if they fit; `ArmedAsAsked`: a
sleeping machine has exactly the GPEs enabled that the host asked for, but for `missed`: the code
sleeps with a GPE unarmed and says nothing), `RuntimeRestored` (when no call is in progress, none has
broken off since the last that went to its end, the GPEs with a handler are enabled and no others, but
for `missed` and what work will enable) and `ModeReturns`. Two GPEs, one of each kind, S3 and S4, two
pairs of types that differ in both registers, one of them above 7, two sleeps, so that the second finds
what the first has left, broken off or not. `FairSpec`: a call that was made goes on. **Left out**:
results of `_PTS`, `_SST`, `_GTS`, `_WAK`; the wait for WAK_STS; the registers of hardware-reduced
machines; reboot. GPE work is drained before sleeping and a GPE is armed once; section 14 has what
happens otherwise.

### Proofs

`SleepStatesProofs` proves the two safety properties for any GPEs, states, types, bounds and number of
sleeps, with the same failures of accesses, under `WellUsed` (no liberties): `Asleep`, that
`AsleepAsAsked` always holds, and `Awake`, the same of `RuntimeRestored`. A GPE may have both kinds of
handler. The invariant has five parts. `CallsOK`: what a call carries in each of its steps; the merged
value has neither a type nor SLP_EN. `TypesOK`: from `Enter` on, the call is for the state that was
prepared, with the types that AML gave for it, because only a host that is in no call can prepare.
`RegistersOK`: how far each control register has been written, step by step. `ListsOK`: each GPE is armed
once, so that disarming it takes its only entry. `EnabledOK`: what is enabled, in a sleep and outside of
one, but for `missed`; it needs that nothing is pending from `Enter` to the end, which is what the liberty
`busy` breaks. `ModeReturns` (liveness) is only model-checked.

## 8. Tables: `Tables`

**State.** `tables` is the vector of `InternalTable` (signature, mapped, references, the buffer it
owns), `buffers` what Load has allocated, `loads` the loads that run inside each other, with the
memory they run from, `ssdt` the index in `load_namespace`. History: `host`, the host's references;
`old`, those of them whose `Table*` points to where the vector was before it grew; `code`, the memory
that methods in the namespace are in; `visited`; `leaked`, the buffers nobody will free.

**Actions.** `AddTable` is one entry of `init`, `LoadNamespace` and `NextSsdt` are
`load_namespace`, `HostFind` and `HostUnref` the host's; `Load`, `LoadTable` with the `Answer` of the
install handler (allow, deny, override), `LoadEnds`, `LoadFails` (the end of `parse` and
`unwind_stack`), `Abandon` (`parse` returns at once, interpreter.cpp:5013 and 5331: the buffers of the
loads that run are not freed and their nodes stay), and `Destroy` (`~Context`). A `Table` that the host
got keeps a pointer into the vector (context.cpp:352, 395): after the vector has moved, `HostUnref`
through it works on freed memory and may unmap what others use (`UnrefMoved`). The run has hosts that
give a reference back only while the list is where it was, or never; the liberty `unrefMoved` the others. Root tables are sequences of 32-bit words, so that
the width of an entry matters.

`tables` checks `ReferencesSound` (`TypeOK`; `RefsExact`: mapped if and only if referred to, and
every user counted; `CodeIsLive`: what runs or may be called is in live memory; `BufferOwned`: a
buffer of Load has one owner, and is freed once, but for `leaked`) and `LoadedOnce` (`AllTablesFound`: init finds what
the XSDT lists; `NamespaceOnce`: each definition block is loaded once, in order, although loads
append to the list). Bounds: an XSDT of a FACP, two SSDTs and another table, two buffers, three
loads deep (a table loads one that loads one), five references. One thread; the table's contents
are left out, and checksums.

### Proofs

`TablesProofs` proves both properties for any root table, addresses, buffers and bounds, from
`TablesAssumption` (words are numbers; the empty signature is none of the firmware's).

| theorem | states | under |
|---|---|---|
| `References` | `Spec => []ReferencesSound` | `OwnPointers`: no `unrefMoved` |
| `LoadsInOrder` | `Spec => []NamespaceOnce` | `OwnPointers` |
| `FoundAndLoaded` | `Spec => []LoadedOnce` | `OwnPointers`; `XsdtFine`: an XSDT, each of whose entries is the address of a table |

`BufferOwned` counts the buffers that `Abandon` leaks as owned by nobody and still allocated: the theorem
says that no other path leaks one and none frees one twice.

`RefsExact` counts the code that a load leaves behind only when no load runs from the same table,
and is not inductive: LoadTable may load a table again whose code is in the namespace, and what counts
when that load ends is not said while it runs. The invariant `Counted` counts the host, every load *and*
the code. With it stand `LoadFine` (only the innermost load waits for the handler, and it is a LoadTable
of a table; memory is a table's, a buffer's or the host's as the operation says), `CodeFine` (code in a
buffer is in one that a table owns or that is leaked) and `Owned`. A failed LoadTable drops a user and keeps its
reference, which is why references are bounded from below and not exact. `TypeOK` bounds no count:
`MaxFinds` limits what the host and AML do, and a count of the sum of all references is a fold, which
the provers cannot reason about.

`NamespaceOnce` compares a list of indices with a set. `Progress` says that load_namespace has
visited the first table named DSDT and then the SSDTs of rank 0, 1, ... (`Visits`), where the rank of a table
is the number of tables of its name before it. Loads append tables without a signature only
(`Labelled`, `Grown`), so ranks do not move under the walk. `Ranks` and `AllRanked` (induction over the
length of the list) make ranks of a set of n tables the numbers below n, so that the first rank that is
not found, where the walk stops, is n. `Searched` follows init: the signatures so far are the first
`entry - 1` parts of `FlattenSeq`, whose inner function is shown to exist by the same induction.
With an RSDT `FoundAndLoaded` is false (section 14).

## 9. Namespace: `Namespace`

**State.** The tree (`live`, `name`, `parent`, `children`, `kind`), `permanent` (`all_nodes`),
`frames` with the nodes each method or load has made (`node_link`), `scope` (`current_scope`). `stray` are
the nodes in no list. History: `misfreed`, a node was removed from a parent that was gone; `cutShort`,
`parse` has returned at once with one method inside of another.

**Actions.** `Create`, `Device` and `Scope` are the operations that name something:
`create_or_find_node` with its search (`Search`) or creation (`Make`) in one step, since it is one
thread. `TableBegins`, `Call`, `LoadBegins` push frames; `ScopeEnds`, `MethodEnds` (`~MethodFrame`),
`LoadEnds` (the nodes move to `all_nodes`) and `LoadFails` (they are deleted) pop them, innermost first.
`Abandon` is the end of an interpreter whose `parse` returns at once, for an opcode without a handler
(interpreter.cpp:5013, 5331): `~Interpreter` destroys `method_frames` from the outermost
(small_vec.hpp:61-74), each newest node first, and passes the frames of loads over (5752), whose nodes become
`stray`. There `remove_child` may be called on a parent that a caller's frame has freed: `misfreed` is set, and
the model goes no further, for what freed memory then does is not defined. A node's
`parent` is the scope that named it, whatever node has it as a child, as in the code.

`owners` checks `TreeSound` (`TypeOK`; `NoDangling`: nothing reaches a freed node, and no node is taken
from a freed parent unless `cutShort`; `ParentHolds`: the way up is the way down; `OwnedOnce`, by a
frame, the context, or nobody if `stray`; `ScopeLive`), `SearchNearest` (the search agrees with a
definition by the children) and `FailureDeletes` (a failed Load leaves no node, unless it is
abandoned). Three nodes, two names, three frames: a method in a load in a table, or one in another, or with
a scope. They end innermost first or all at once by `Abandon`. The names are plain; section 14 has what
absolute paths do. Aliases and the text of paths are left out.

### Proofs

`NamespaceProofs` proves all three for any number of nodes, names and frames, from
`NamespaceAssumption` (nodes and names are finite, the root is none of the nodes that are allocated)
and `PlainPaths`: what AML creates is named by one segment in the current scope, as in the run.
It is no convenience: with an absolute path the parent is not the node that has the child, and what
is stated here is false (section 14).

| theorem | states |
|---|---|
| `Tree` | `Spec => []TreeSound` |
| `Searches` | `Spec => []SearchNearest` |
| `Failures` | `Spec => FailureDeletes` |

They hold through `Abandon`, whose damage the properties name as their exceptions: `Tree` shows that
nodes are freed after their parents in no other way, `Failures` that nothing else leaves a node of a failed Load.

`OwnedOnce` and `NoDangling` are not inductive. That ending a method frees no parent before its child
depends on the order of `node_link`, and that an outer frame still finds its scope on who owns that
scope. `Fits` says both by the set `Held(frames, Keeps, k)` of nodes that stay (`Keeps`: those of
the context and the stray ones, which `Apart` keeps apart) or stay at least
until the k-th frame has ended. `live` is what is held in all; the scope a frame comes back to is held
below that frame; the parent of a node of a frame is held with the frame and is no newer node of it
(`Younger`); what a frame owns nothing else owns (`OwnsAlone`). A new node has `current_scope` for its
parent, which need not be below the owner: it is because the frames above the innermost
method or load own nothing. `ChildrenFit` says the tree is one: a child is alive, has the node as
its parent and shares its name with no other child; and no live node is without an object, so that
`Scope` and `Create` change no node that is there.

`Reachable` and both searches are recursive. `Recursion` gives the function of any step
on a set, whence `Levels` (what k steps from the root reach), `Seeks` and `Nears` (what the search by
parents and the one by children find in k scopes). By induction over the level of the start they
agree when k is greater than the level (`SameFound`, `Found`), and a level is at most the number of nodes.

## 10. Initialisation and discovery: `NamespaceWalks`

**State.** `children` in order of creation, the `stack` of nodes to come, `cur`, `phase`; for the
searches the `rest` of a _CID package and `id` (`cid_id`). History says what a node was found to be
(`sort`), which _INI ran (`order`), what matched and what was called.

**Actions.** `Begin` starts one of the four walks; `RootIni`, `SbIni`, `Take`, `Sta`, `Ini`, `Push`, `End`
are `init_namespace`; `Hid`, `Cid`, `CidPackage`, `Element`, `ElementsEnd`, `EvaluateFails` are
`discover_nodes` by EisaId and by string; `Visit` is `iterate_nodes`. `Load` adds a node anywhere
while AML runs. `visits` checks `Initialised` (`TypeOK`; `IniOnce`; `IniInOrder`: parents first, then in
order of creation; `AbsentStaysQuiet`; `AllInitialised`), `Discovered` (`FoundExact`: exactly the nodes
with a matching id; `Complete`; `CalledOnce`) and `WalkEnds`, under fairness of the walk's steps: it is
one loop, and the AML it evaluates returns. Two nodes beside the root and `\_SB` give siblings and
a child, each loaded before or during the walk; with three the same run passes with 3.7 million
states. Decoding of ids is left out.

## 11. Operation regions: `OpRegions`

**State.** `handlers` from the head of the list, `head`, `prev`, `next` of `regions_to_reg`, per region
its node, its `OpRegion` objects (`copies`), the count they share (`refs`), whether count and mapping
exist (`held`), `counting`, the count that a thread has read and has still to write, `attached`; `raced`,
history, the regions whose count two threads had read at once; `hasReg`, the devices with a _REG; `work`, what each thread is in the
middle of. A _REG and an attach evaluate AML, so they are steps of two actions.

**Actions.** `CreateRegion` with `CreateReturns`, `Register` and `InitNamespace` with the walk
(`WalkSkip`, `WalkReg`, `WalkReturns`, `WalkEnds`), `Deregister`, `DefineReg`, `Access` with
`AttachReturns` and `IoReturns`. `Clone`, `DropClone` and `MethodEnds` read the count of a region for
`++*refs` and `--*refs` (op_region.cpp:38, 45), a plain `size_t`, and `WriteCount` writes it back and frees
count and mapping when it is 0; other threads run in between. `regions` checks `Connected`
(`ListExact`: the list has exactly the regions that wait; `ConnectedOnce`: no second successful _REG;
`ConnectedAfterInit`: none that could be connected is left out, in whichever order region, _REG and
handler came), `AttachFirst` (a handler gets only regions its attach accepted), `MappingsSound`
(`TypeOK`; the count of copies is exact and the mapping lives as long as they do, of regions not in
`raced`: the code does lose a count there, section 14) and `WalksEnd`, under
fairness of each thread's steps. Two threads, two regions of tables (the _REG of one fails) and one
in memory of a method, which is copied (`Copied`) up to twice; a count that two threads have read at once
is not followed further. A thread that copies or drops does that alone, so it does not walk or attach meanwhile. Handlers are registered by one thread at a time, and one per
space (section 14). What the handlers of `handlers.cpp` do is left out.

### Proofs

`OpRegionsProofs` proves the three safety properties for any threads, regions, handlers, devices and
number of copies, from `RegionAssumption`.

| theorem | states | under |
|---|---|---|
| `Mapped` | `Spec => []MappingsSound` | nothing: with all liberties; it excepts the regions in `raced` |
| `Attached` | `Spec => []AttachFirst` | no `replace` |
| `RegOnce` | `Spec => []Connected` | no `overlap` |

`Mapped` needs what a thread in the middle of something holds on to (`WorkOK`): the node of a region
that is being created, or whose handler is at work, stays, and a node has an object
(`NodesHaveObjects`), and what one in the middle of counting has read (`CountsFine`: of a region not
in `raced` one thread is at the count, which is what it has read and one behind the objects, and equal
to their number otherwise). `AttachInv` adds to `AttachFirst` that a handler is alone in its space, that a
region is attached by one of its own space, and that an attached region has one.

`Connected` speaks of a list that a recursive function follows, and of walks that are somewhere in
it. Its invariant is `RegInv == RegBase /\ \E L : ListInv(L)`. `RegBase` says that one
thread at a time registers or walks (`Sole`, which `overlap` breaks), what is still being created
(`Creations`), and that no _REG succeeded twice. The witness `L` is the list as a sequence: `Linked`
(`head`, `next` and `prev` are those of `L`, and nothing stands in it twice), `Contents` (it has the
regions of tables that wait, and no other), `Walkers` (a walk stands at an element of `L` or at its end, and
whose _REG is running is still in it), `Served` (a region of `L` that could be connected is ahead
of a walk that will serve it, or is about to be walked over). A region whose _REG succeeds is taken out of `L` while
its walk goes on from the successor that was read before: that this successor is still
in the list is where `Sole` is needed. That the recursive list is the sequence `L` follows by
iteration along `L` (`Iteration`). Only model-checked: `WalksEnd` (liveness).

## 12. Fields: `FieldAccess`

A number is the set of the positions of its ones, so that masks, shifts and merges are set
operations. `mem` is the contents of the plain region, of each bank, behind the index register
and of the buffer; `bankReg`, `indexReg`; the access in progress with its bit `i` and byte `at`.
`read_field_to_buffer` and `write_field_from_buffer` are `Begin`, then per access `SelectFetch`,
`Fetch` or `NoFetch`, `SelectStore`, `Put`, then `End`; `ReadBuffer`, `WriteBuffer`, `WriteByte` are the
fields of buffers in `try_convert` and `store_to_target`. An undefined shift is a choice.

`fields` checks the layouts in four bytes of two bits that the code gets right: every offset and size
whose parts fit an access and are narrower than a word, access of one or two bytes, three update rules,
plain, banked, indexed or of a buffer. The others (`split`, `wholeWord`, `crossing`) are in section 14. `FieldExact` is `TypeOK`, `WriteExact` (the
field has the value, around it is what the update rule says, nothing else has changed) and
`ReadExact`; `AccessedOnce` says each register is accessed once and in order (an access may have
side effects); `Ends`, under fairness of the loop, that it ends. Bytes of two bits and a word of two
bytes have the cases that 8 and 8 have: parts within a byte, over several, whole words, fields of
several words; contents are all zeros or all ones, and values those and single bits, because no
step depends on a bit. One interpreter; the parsing of field lists is left out.

## 13. Objects: `Objects`

**State.** `heap` gives each address in use its object: an integer or buffer with its byte, a package
with its elements, a `Ref` (`RefOf`, and the wrappers `Arg` and `Local`), a `BufferField` (`byte`), or
`uninitialized`. `names` is what the nodes of the namespace hold, `frames` the argument and the local of
each method frame, of which the outermost has the global local. A step is one statement with its
operands; what nothing holds afterwards is gone, and addresses are given anew, since neither which
ones malloc returns nor a leaked cycle matters to what is said of them.

**Actions.** `Name`, `Store`, `CopyObject`, `Increment`, `ToBuffer` and `Divide` (the ways in which results are
stored), `Call`, `Return` into a Store of the caller, `End`, and `Mention`, the first use of a local. Operands
(`Eval`) are literals, names, locals and arguments, and RefOf, DerefOf and Index of them; targets are
places and Index of them. `Stored` is the end of `store_to_target` with its three ways: in place, by `Clone`,
and by a move of what `try_convert` gave.

`objects` checks `HeapSound` (`ReferencesEnd`: unwrapping comes to an end; `StoredApart`: no object is held
by two of names, locals and packages, so that AML's values are values; `OwnersAreBuffers`: what a
BufferField takes for a buffer is one) and `StoresExact`, of every Store that is possible in a state:
the target reads afterwards as the value did before, and no object has changed but those the target's
references lead through. **Bounds**: one name beside locals and arguments, five objects between
statements, two frames. Five objects have the argument of a method and its object, a local that
refers to something else, and a package with its element; stores relate two objects, and what they
change is seen by a third. **Liberties** (`AmlMay`): `intoItself`, `retype`, `storeReference`,
`packageOfNames`, `sizeFromName`, which section 14 explains. **Left out**: strings, the other conversions,
longer buffers and packages, RefOf and CondRefOf of what is not there, and several interpreters.

## 14. What the code does not keep

Some of the runs above are made under conditions on the host and on the AML, which are constants or
liberties of the models. Without them the code breaks the properties that follow; each line was
seen with the run's configuration and the named change.

| change | broken | because |
|---|---|---|
| `lists`, `AtomicUnlock = FALSE` | `ReleasedAtExit`, `NoSelfDeadlock` | the walks read `next` after unlocking (interpreter.cpp:5749), although mutex-2.asl:61 counts on the release of the rest; `owner` is cleared after the host's mutex is free (sync.cpp:42) |
| `lists`, `releaseElsewhere` | `ReleasedAtExit`, `ListsExact` | Release unlinks from the running method's list (interpreter.cpp:2476), and the mutex may be on another's |
| `lists`, `endNested` | `FreshAcquire` | the destructor unlocks once and leaves `recursion` (interpreter.cpp:5748) |
| `lists`, `argError` | `ReleasedAtExit` | the lock of a Serialized method is taken when its name is read (interpreter.cpp:300), and a call that is then refused at the limit (1621) or whose arguments fail drops `MethodArgs`, which has no destructor that unlocks |
| `parse`, `outerWhile` in `Control` | `Returns` | a timeout unwinds the frames above the base and goes on (interpreter.cpp:3157); hanging-while.asl has its loop in a called method |
| `parse`, `loadAtLimit` | that there are never more than `MaxDepth` method frames, and `Returns` without its condition | the limit is compared with `==` (interpreter.cpp:1621), and a Load steps over it; from there on calls are not refused |
| `parse`, `leaveScope` in `Control` | `ScopeAgrees` without its condition | unwinding pops a Scope or Device frame without its parent scope (interpreter.cpp:1131) |
| `events`, `changeBusy` | `WorkFindsItsEvent`, `EdgeOnce`, `SciClaimed` | work keeps the address of an element that `remove` shifts (event.cpp:294), and runs what it finds there |
| `events`, `disableAml` | `NeverDead` | `disable_gpe` disables before it looks for a handler (event.cpp:602) |
| `events`, `failLate` | `WorkFindsItsEvent`, `NeverDead`, `SciClaimed`, `EdgeOnce` | `enable_gpe` pops an event that the interrupt may have queued (event.cpp:583) |
| `events`, two blocks of one and two registers, `Gpe1Base` 2, host GPEs 0 and 1 or 2 and 3 | `Served` | the base of block 2 is never read from the FADT (event.cpp:129), so every GPE is taken for one of block 2, enabled at another line than it is wired to, or refused |
| `sleep`, `busy` | `ArmedAsAsked`, `RuntimeRestored` | pending work enables its GPE after all were disabled (event.cpp:952) |
| `sleep`, `armTwice` | `ArmedAsAsked` | disabling removes one of two entries (event.cpp:659) |
| `NoEarlySleep` for all types | `NoEarlySleep` | a type of 8 or more is not cut to its three bits and sets SLP_EN with it (event.cpp:1001) |
| `regions`, `overlap` | `ConnectedOnce`; with three regions and two handlers `ListExact` | two walks unlink from one list (context.cpp:728) |
| `regions`, `replace` and two handlers of a space | `AttachFirst` | `attached` does not say which handler it is about (op_region.cpp:105) |
| `tables`, `unrefMoved` | `ReferencesSound` | a `Table*` points into a vector that grows (context.cpp:352, 395): its `unref` works on freed memory and may unmap a table that is in use |
| `tables`, `Wide = FALSE` with `RsdtWords` | `AllTablesFound` | the entries of an RSDT are read as 64 bits wide (context.cpp:166; include/qacpi/tables.hpp:32) |
| `owners`, `AllPaths` | `FailureDeletes`, `ParentHolds`, `NoDangling` | a node created by an absolute path gets the current scope as its parent (interpreter.cpp:1551), so ~MethodFrame removes it from the wrong node; the comment at 1155 says a failed load's nodes are deleted |
| `visits`, `MayHaveSta = {Sb}` | `IniOnce` | the _INI of `\_SB` is run before the walk and by it (context.cpp:678) |
| `visits`, `CalledOnce` of the search by EisaId | `CalledOnce` | the package loop has no break, and an element that is no id counts as the one before it (context.cpp:825) |
| `fields`, `split` | `FieldExact` | a part that begins inside a byte of the value is copied in as many bytes as its bits fill (interpreter.cpp:5531, 5643): a 12-bit field at bit 4 with byte access loses bits |
| `fields`, `wholeWord` | `FieldExact` | `1 << 64` (interpreter.cpp:5527, 5635) |
| `fields`, `crossing` | `FieldExact` | a long field of a buffer that is not aligned is read with a byte more (interpreter.cpp:476) |
| `objects`, `intoItself` | `HeapSound` | a local that gets a reference to itself is a cycle that `unwrap_refs` follows (interpreter.cpp:380); `Store (Local0, Local0)` destroys a buffer or package before it is cloned (variant.hpp:203) |
| `objects`, `retype` | `HeapSound` | a BufferField keeps the object and not the buffer, and another type may be stored there (interpreter.cpp:736) |
| `objects`, `storeReference` | `StoresExact` | the value is moved out of the object that the stored reference refers to (interpreter.cpp:854) |
| `objects`, `packageOfNames` | `HeapSound` | a package holds the objects of the names in it (interpreter.cpp:1925) |
| `objects`, `sizeFromName` | `StoresExact` | `Buffer (Local1) {...}` is made in the object that `try_convert` gave, which is the one of Local1 (interpreter.cpp:1904); complex-package.asl:56 does it and does not look at Local1 again |
| `Ends` of a long buffer field's write | `Ends` | `i` never advances (interpreter.cpp:770), and the loop writes over the end of the buffer |

Other failures are part of the runs, because nothing in the code rules them out; the properties name them
as exceptions and say that nothing else goes wrong. Without its exception each property is violated.

| run | exception | because |
|---|---|---|
| `events` | `NeverDead`, `Served`: lines in `lost` | enable and disable read and write a register without a lock (event.cpp:34-50): the SCI, a worker or the host on another processor writes back what it read before, and the line that was enabled since is off, until its event happens to be found along with another one |
| `sleep` | `ArmedAsAsked`, `RuntimeRestored`: `missed` | the status of `enable` is not looked at when GPEs are armed for sleep (event.cpp:964, 969) or enabled again (1094, 1098) |
| `sleep` | `RuntimeRestored`, `NoEarlySleep`: `failed` | a register access that fails ends enter_sleep_state or wake_from_state with the GPEs disabled or armed for wake (event.cpp:1082-1090), and SLP_EN perhaps set |
| `tables` | `BufferOwned`: `leaked` | `parse` returns at once for an opcode without a handler (interpreter.cpp:5013, 5331), which frees no buffer of a Load |
| `owners` | `OwnedOnce`, `FailureDeletes`: `stray` | the same return passes no path that deletes a Load's nodes, against the comment at interpreter.cpp:1155; they stay in the namespace with no owner |
| `owners` | `NoDangling`: `cutShort` | the same return leaves the frames to ~Interpreter, which destroys them outermost first (small_vec.hpp:61-74): `remove_child` is called on a parent that is freed (interpreter.cpp:5755) |
| `regions` | `MappedWhileHeld`: `raced` | `++*refs` and `--*refs` of a plain integer (op_region.cpp:38, 45): two threads that copy one region lose a count, and it is unmapped early or never |
| `parse` | `CallsBounded`: the load that is first beyond the limit; `Returns` | see `loadAtLimit` above |

Seen in reading and not part of a model: a field's lock flag is parsed and never used
(interpreter.cpp:1077); AccessAs in a field list sets a local only; a Buffer stored to a field of up
to 64 bits is taken with `get_unsafe<uint64_t>` (5709); the status of a Serialized method's lock is
ignored (91); `method_frames.push` may fail after `frames.push` (110); the status of `unwind_stack`
is ignored (1145); a Break outside of a loop pops all frames (3220); Mod does not test for zero
(2698); the references of a table are not atomic (411); `SharedPtr` counts without a lock, too
(shared_ptr.hpp:37, 43); the list of notify handlers has no lock (event.cpp:721); a status that cannot be
cleared in the SCI leaves its GPE disabled and not queued (event.cpp:289, 310), and queued work does not look
at the results of its accesses (1181, 1194).

## 15. What is shown how

Proved for all constants: of `MethodSync` (section 3) the types and control facts, that a lock
covers the activations of its Serialized method, that Serialized methods exclude each other,
that they are reentrant monitors and that their locks are freed by their holder with the last activation, for any AML and host;
only for hosts and AML that keep to `Discipline`, which the code does not enforce, that the lists of locked
mutexes are exact, nothing stays locked, only the holder unlocks and an Acquire of a free mutex is fresh; of
`AmlInterp` (section 4) that operands fit their handlers, that the stacks agree, what a call may not
touch and that no call is the first beyond the limit; of
`OpRegions` (section 11) the mappings, the attached handlers and the list of regions that wait for
their _REG; of `Tables` (section 8) the references and, for an XSDT, that each table is found and loaded once; of `Namespace` (section 9), for
plain names, the tree and its owners, the search and what a failed Load leaves; of `GpeEvents` (section 5) the types and, for a host
without liberties and one block, that no event is lost but by overlapping writes; of `NotifyHandlers`
(section 6) and `SleepStates` (section 7) all safety properties. The first induction
needs `LockCoversEntries` because `owner` alone is wrong for moments, that of `GpeEvents` what each
thread knows of a register it has read. Everything else is model-checked on the bounds above, all of it without
symmetry where liveness is checked. Each property has been seen to fail for a changed definition
(`mutants` in PROJECT.json), and the operators with an underscore in the modules are those changed
definitions; they are no part of the specifications.

Only model-checked: liveness under fairness (`TeardownEnds`, `Returns`, `Served`, `Quietens`, `ModeReturns`, `WalkEnds`,
`WalksEnd`, `Ends`): the proof system has no rule for it here. `EdgeOnce` counts positions of a queue that
shifts; a proof of it has not been attempted. `HeapSound` and `StoresExact` are about
RECURSIVE operators, in whose modules no arithmetic can be proved. `FieldExact` and `AccessedOnce` compare loops over the
bits of a value with arithmetic on sets of positions, `Initialised` and `Discovered` the stack of a walk with the
order of a whole tree that grows meanwhile: no proof of these has been attempted. Where a
recursive function follows links (the lists of sections 3 and 11, the parents and children of section
9), an induction over the set of numbers, or places, for which a fact holds does.

Distinct states: `sleep` 1,778,464; `monitors` 1,049,682; `parse` 951,209; `fields` 659,880; `tables`
371,376; `handlers` 325,506; `events` 278,293; `lists` 234,334; `owners` 227,328; `regions` 201,460;
`visits` 172,861; `objects` 12,753. Deadlock is checked nowhere, because each model may stop: a
program that is over, a host that calls no more, threads that wait for AML's own locks; that what
must go on does is said by the liveness properties.

## 16. Not modelled

| component | reason |
|---|---|
| AML events | Signal, Reset and Wait call the host's event and keep no state of their own |
| strings, buffers, conversions | functions of text without state; the tests of the repository compare their wording |
| resource descriptors | byte layouts parsed into structures; no state, no interaction |
| lookup utilities | evaluations that change nothing; register accesses are steps of sections 5 and 7 |
| logger, test runner | output and test infrastructure |
| allocation failures | allocation succeeds in every model; the places where a failure leaves something half done are named at the end of section 14 |
