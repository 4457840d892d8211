------------------------------ MODULE GpeEvents ------------------------------
(***************************************************************************)
(* Power management events of qacpi (src/src/event.cpp): the registers of  *)
(* the general purpose events (GPEs) and of the fixed events, the handler  *)
(* of the system control interrupt (SCI), the work it queues, and the      *)
(* functions by which the host installs and removes handlers.              *)
(***************************************************************************)
EXTENDS Integers, Sequences, FiniteSets, SequencesExt

CONSTANTS NativeGpes,   \* the GPEs for which the host may install a handler
          AmlMethods,   \* the methods _Exx and _Lxx in \_GPE, by letter and digits
          EdgeGpes,     \* those that are edge triggered
          FixedEvents,  \* fixed events: the power button, the timer, ...
          RegBits,      \* bits in a GPE register
          BlockRegs,    \* registers in each of the two GPE blocks
          Gpe1Base,     \* the first GPE of block 2, in the FADT
          Workers,      \* the host's threads that run queued work
          HostMay,      \* liberties of the host, see below
          MaxRaises,    \* bound: how often a source raises its event
          MaxQueue,     \* bound: the length of the host's work queue
          MaxChanges    \* bound: calls that install or remove handlers

\* enable_events_from_ns: the number of a GPE is in its method's name, in hex.
GpeOf(method) == 16 * method.hi + method.lo
AmlGpes == {GpeOf(method) : method \in AmlMethods}

Gpes == NativeGpes \cup AmlGpes
Blocks == {1, 2}
Host == "host"
Interrupt == "sci"
Handlers == Workers \cup {Interrupt}
Threads == Handlers \cup {Host}

(***************************************************************************)
(* "changeBusy": handlers are removed while the SCI may come, and removed  *)
(*   or added while work is outstanding; "disableAml": the host disables a *)
(*   GPE that has a method; "failLate": enabling fails after the SCI has   *)
(*   already found the event.                                              *)
(***************************************************************************)
ASSUME EventAssumption ==
  /\ AmlMethods \subseteq [letter : {"E", "L"}, hi : 0..15, lo : 0..15]
  /\ Gpes \subseteq Nat /\ EdgeGpes \subseteq Gpes
  /\ \A method \in AmlMethods : method.letter = "E" <=> GpeOf(method) \in EdgeGpes
  /\ RegBits \in Nat \ {0} /\ Gpe1Base \in Nat
  /\ BlockRegs \in [Blocks -> Nat]
  /\ IsFiniteSet(FixedEvents) /\ Gpes \cap FixedEvents = {}
  /\ Workers \cap {Host, Interrupt} = {}
  /\ HostMay \subseteq {"changeBusy", "disableAml", "failLate"}
  /\ {MaxRaises, MaxQueue, MaxChanges} \subseteq Nat

VARIABLES sts, en,      \* status and enable bits that are set, as lines
          fixedSts, fixedEn,  \* the same of the PM1 event registers
          wants,        \* the sources whose request nobody has served
          raises,       \* how often each source has raised
          events,       \* the lists of GPE events of each block
          fixedFn,      \* the fixed events with a handler
          queue,        \* the host's work queue
          job,          \* what each worker and the SCI's handler do
          call,         \* the host's call into the event context
          read,         \* per thread, what it read of an enable register
          lost,         \* enabled lines that the write of another undid, a history
          changes       \* calls so far

hardware == <<sts, en, fixedSts, fixedEn>>
devices == <<wants, raises>>
context == <<events, fixedFn>>
threads == <<queue, job, read, lost>>
host == <<call, changes>>
vars == <<hardware, devices, context, threads, host>>

-----------------------------------------------------------------------------
(* Registers. A line is a bit of a GPE register: block, register, bit.     *)

Lines == Blocks \X Nat \X (0..(RegBits - 1))

\* GpeBlock::base: init does not set it.
Base == 0

BlockOf(g) == IF BlockRegs[2] > 0 /\ g >= Base THEN 2 ELSE 1
RegIndex(g) == (IF BlockOf(g) = 2 THEN g - Base ELSE g) \div RegBits

\* get_reg finds a register, and the line the code takes for that of g.
HasReg(g) == RegIndex(g) < BlockRegs[BlockOf(g)]
LineOf(g) == <<BlockOf(g), RegIndex(g), g % RegBits>>

\* Where the chipset has the event.
Wired(g) ==
  IF BlockRegs[2] > 0 /\ g >= Gpe1Base
    THEN <<2, (g - Gpe1Base) \div RegBits, (g - Gpe1Base) % RegBits>>
    ELSE <<1, g \div RegBits, g % RegBits>>

SameReg(line) == {<<line[1], line[2], i>> : i \in 0..(RegBits - 1)}

\* A level triggered event sets its status bit for as long as its source asks.
Latched(bits) == bits \cup {Wired(g) : g \in (wants \cap Gpes) \ EdgeGpes}
Asserted == (sts \cap en) # {} \/ (fixedSts \cap fixedEn) # {}

-----------------------------------------------------------------------------
(* Events and work                                                         *)

Event(g) == [gpe |-> g, line |-> LineOf(g), edge |-> g \in EdgeGpes]
Events == {Event(g) : g \in Gpes}

\* The order in which check_gpe_events goes through the lists.
Lists == <<<<1, "gpe">>, <<1, "aml">>, <<2, "gpe">>, <<2, "aml">>>>
ListSet == {Lists[i] : i \in DOMAIN Lists}
Installed(list) == {events[list][i].gpe : i \in DOMAIN events[list]}
Handled == UNION {Installed(list) : list \in ListSet}

\* Work is queued with the address of an element; `of` is what was there.
GpeWork(list, i) == [list |-> list, slot |-> i, of |-> events[list][i]]
FixedWork(f) == [list |-> <<0, "fixed">>, slot |-> 0, of |-> f]
IsFixed(work) == work.list = <<0, "fixed">>

Valid(work) ==
  \/ IsFixed(work)
  \/ /\ work.slot \in DOMAIN events[work.list]
     /\ events[work.list][work.slot] = work.of

\* The event at the address: in a list that has changed it may be another, and
\* outside of the list the memory may hold any.
At(work) ==
  IF work.slot \in DOMAIN events[work.list] THEN {events[work.list][work.slot]} ELSE Events

Idle == [at |-> "idle"]
Working(t) == job[t] # Idle
Outstanding == ToSet(queue) \cup {job[t].work : t \in {u \in Handlers : Working(u)}}
GpeOutstanding == {work \in Outstanding : ~IsFixed(work)}

\* Work that will still call the handler of a source.
ToCall ==
  ToSet(queue)
    \cup {job[t].work : t \in {u \in Handlers : job[u].at \in {"found", "disable", "fn"}}}

NoCall == [op |-> "none"]
Unread == {<<0, 0, 0>>}  \* no register has this line
\* The SCI is masked while a handler is removed.
Undisturbed ==
  "changeBusy" \in HostMay \/ call.op \notin {"disable", "remove", "clear"}

Init ==
  /\ sts = {} /\ en = {} /\ fixedSts = {} /\ fixedEn = {}
  /\ wants = {} /\ raises = [s \in Gpes \cup FixedEvents |-> 0]
  /\ events = [list \in ListSet |-> <<>>] /\ fixedFn = {}
  /\ queue = <<>> /\ job = [t \in Handlers |-> Idle]
  /\ call = NoCall /\ changes = 0
  /\ read = [t \in Threads |-> Unread] /\ lost = {}

-----------------------------------------------------------------------------
(* The devices                                                             *)

RaiseGpe(g) ==
  /\ g \notin wants /\ raises[g] < MaxRaises
  /\ wants' = wants \cup {g}
  /\ raises' = [raises EXCEPT ![g] = @ + 1]
  /\ sts' = sts \cup {Wired(g)}
  /\ UNCHANGED <<en, fixedSts, fixedEn, context, threads, host>>

\* Before it has a handler nobody waits for the event.
RaiseFixed(f) ==
  /\ raises[f] < MaxRaises
  /\ wants' = IF f \in fixedFn THEN wants \cup {f} ELSE wants
  /\ raises' = [raises EXCEPT ![f] = @ + 1]
  /\ fixedSts' = fixedSts \cup {f}
  /\ UNCHANGED <<sts, en, fixedEn, context, threads, host>>

-----------------------------------------------------------------------------
(* GpeRegister::enable and disable read a register, change a bit and write *)
(* it back, while other threads do the same.                               *)

SetJob(t, at) == job' = [job EXCEPT ![t].at = at]

ReadEnable(t, line) == read' = [read EXCEPT ![t] = en \cap SameReg(line)]

Written(line, bits) == (en \ SameReg(line)) \cup bits

\* A line other than its own that a write switches off was enabled since the read.
WriteEnable(t, line, bits) ==
  /\ en' = Written(line, bits)
  /\ lost' = (lost \cup en) \ (en' \cup {line})
  /\ read' = [read EXCEPT ![t] = Unread]

-----------------------------------------------------------------------------
(* qacpi_on_sci. Nothing else runs on its processor during the interrupt;  *)
(* the workers and the host's calls go on on the others.                   *)

Delivered ==
  Asserted /\ Undisturbed /\ ~Working(Interrupt) /\ Len(queue) < MaxQueue

FixedHits_Unchecked == fixedSts
FixedHits == fixedSts \cap fixedFn

SciFixed_Uncleared ==
  /\ Delivered /\ FixedHits # {}
  /\ queue' = queue \o SetToSeq({FixedWork(f) : f \in FixedHits})
  /\ UNCHANGED <<hardware, devices, context, job, read, lost, host>>
SciFixed ==
  /\ Delivered /\ FixedHits # {}
  /\ queue' = queue \o SetToSeq({FixedWork(f) : f \in FixedHits})
  /\ fixedSts' = {}
  /\ UNCHANGED <<sts, en, fixedEn, devices, context, job, read, lost, host>>

Hits(list) == {i \in DOMAIN events[list] : events[list][i].line \in sts}
HitLists == {n \in DOMAIN Lists : Hits(Lists[n]) # {}}

\* check_gpe_events looks at status bits only; the first event found is handled.
SciFind ==
  /\ Delivered /\ FixedHits = {} /\ HitLists # {}
  /\ LET list == Lists[Min(HitLists)] IN
       job' = [job EXCEPT ![Interrupt] =
                 [at |-> "found", work |-> GpeWork(list, Min(Hits(list)))]]
  /\ UNCHANGED <<hardware, devices, context, queue, read, lost, host>>

SciRead ==
  /\ job[Interrupt].at = "found"
  /\ ReadEnable(Interrupt, job[Interrupt].work.of.line)
  /\ SetJob(Interrupt, "disable")
  /\ UNCHANGED <<hardware, devices, context, queue, lost, host>>

SciWrite_Uncleared ==
  /\ job[Interrupt].at = "disable"
  /\ LET event == job[Interrupt].work.of IN
       WriteEnable(Interrupt, event.line, read[Interrupt] \ {event.line})
  /\ queue' = Append(queue, job[Interrupt].work)
  /\ job' = [job EXCEPT ![Interrupt] = Idle]
  /\ UNCHANGED <<sts, fixedSts, fixedEn, devices, context, host>>
\* The event is disabled, cleared if it is edge triggered, and queued.
SciWrite ==
  /\ job[Interrupt].at = "disable"
  /\ LET event == job[Interrupt].work.of IN
       /\ WriteEnable(Interrupt, event.line, read[Interrupt] \ {event.line})
       /\ sts' = IF event.edge THEN Latched(sts \ {event.line}) ELSE sts
  /\ queue' = Append(queue, job[Interrupt].work)
  /\ job' = [job EXCEPT ![Interrupt] = Idle]
  /\ UNCHANGED <<fixedSts, fixedEn, devices, context, host>>

Sci == SciFixed \/ SciFind \/ SciRead \/ SciWrite

-----------------------------------------------------------------------------
(* The queued work: acpi_gpe_work, acpi_aml_gpe_work, acpi_fixed_work.     *)
(* It looks at what is at its address without a check.                     *)

WorkStart(w) ==
  /\ ~Working(w) /\ queue # <<>>
  /\ job' = [job EXCEPT ![w] = [at |-> "fn", work |-> Head(queue)]]
  /\ queue' = Tail(queue)
  /\ UNCHANGED <<hardware, devices, context, read, lost, host>>

\* The handler or the method runs and serves the device; that a method failed
\* makes no difference to what follows.
WorkGpeFn(w) ==
  /\ job[w].at = "fn" /\ ~IsFixed(job[w].work)
  /\ \E event \in At(job[w].work) : wants' = wants \ {event.gpe}
  /\ SetJob(w, "clear")
  /\ UNCHANGED <<hardware, raises, context, queue, read, lost, host>>

WorkFixedFn(w) ==
  /\ job[w].at = "fn" /\ IsFixed(job[w].work)
  /\ wants' = wants \ {job[w].work.of}
  /\ job' = [job EXCEPT ![w] = Idle]
  /\ UNCHANGED <<hardware, raises, context, queue, read, lost, host>>

WorkClear_Always(w) ==
  /\ job[w].at = "clear"
  /\ \E event \in At(job[w].work) : sts' = Latched(sts \ {event.line})
  /\ SetJob(w, "read")
  /\ UNCHANGED <<en, fixedSts, fixedEn, devices, context, queue, read, lost, host>>
WorkClear(w) ==
  /\ job[w].at = "clear"
  /\ \E event \in At(job[w].work) :
       sts' = IF event.edge THEN sts ELSE Latched(sts \ {event.line})
  /\ SetJob(w, "read")
  /\ UNCHANGED <<en, fixedSts, fixedEn, devices, context, queue, read, lost, host>>

WorkRead(w) ==
  /\ job[w].at = "read"
  /\ \E event \in At(job[w].work) :
       /\ ReadEnable(w, event.line)
       /\ job' = [job EXCEPT ![w].at = "write", ![w].work.of = event]
  /\ UNCHANGED <<hardware, devices, context, queue, lost, host>>

WorkWrite_Unset(w) ==
  /\ job[w].at = "write"
  /\ WriteEnable(w, job[w].work.of.line, read[w])
  /\ job' = [job EXCEPT ![w] = Idle]
  /\ UNCHANGED <<sts, fixedSts, fixedEn, devices, context, queue, host>>
WorkWrite(w) ==
  /\ job[w].at = "write"
  /\ LET line == job[w].work.of.line IN WriteEnable(w, line, read[w] \cup {line})
  /\ job' = [job EXCEPT ![w] = Idle]
  /\ UNCHANGED <<sts, fixedSts, fixedEn, devices, context, queue, host>>

-----------------------------------------------------------------------------
(* The host's calls                                                        *)

MayCall == call = NoCall /\ changes < MaxChanges
MayChange == MayCall /\ ("changeBusy" \in HostMay \/ GpeOutstanding = {})
MayDisable(f) ==
  MayCall /\ ("changeBusy" \in HostMay \/ FixedWork(f) \notin Outstanding)

\* The event is pushed before it is enabled. A list has a GPE once.
Push(g, list) ==
  /\ MayChange /\ HasReg(g)
  /\ g \notin Installed(list)
  /\ events' = [events EXCEPT ![list] = Append(@, Event(g))]
  /\ call' = [op |-> "enable", list |-> list, line |-> LineOf(g)]
  /\ changes' = changes + 1
  /\ UNCHANGED <<hardware, devices, fixedFn, threads>>

EnableGpe(g) == Push(g, <<BlockOf(g), "gpe">>)

\* enable_aml_gpe for what enable_events_from_ns finds
EnableAmlGpe(method) == Push(GpeOf(method), <<BlockOf(GpeOf(method)), "aml">>)

CallRead ==
  /\ call.op \in {"enable", "disable"} /\ read[Host] = Unread
  /\ ReadEnable(Host, call.line)
  /\ UNCHANGED <<hardware, devices, context, queue, job, lost, host>>

EnableWrite ==
  /\ call.op = "enable" /\ read[Host] # Unread
  /\ WriteEnable(Host, call.line, read[Host] \cup {call.line})
  /\ call' = NoCall
  /\ UNCHANGED <<sts, fixedSts, fixedEn, devices, context, queue, job, changes>>

\* The access to the register fails: the event is popped again.
EnableFails ==
  /\ call.op = "enable"
  /\ \/ "failLate" \in HostMay
     \/ /\ GpeWork(call.list, Len(events[call.list])) \notin Outstanding
        /\ call.line \notin en /\ \A t \in Threads : call.line \notin read[t]
  /\ events' = [events EXCEPT ![call.list] = Front(@)]
  /\ read' = [read EXCEPT ![Host] = Unread]
  /\ call' = NoCall
  /\ UNCHANGED <<hardware, devices, fixedFn, queue, job, lost, changes>>

\* disable_gpe disables in the hardware first, and then looks for the event.
DisableGpe(g) ==
  /\ MayChange /\ HasReg(g)
  /\ "disableAml" \in HostMay \/ g \notin Installed(<<BlockOf(g), "aml">>)
  /\ call' = [op |-> "disable", gpe |-> g, line |-> LineOf(g)]
  /\ changes' = changes + 1
  /\ UNCHANGED <<hardware, devices, context, threads>>

DisableWrite ==
  /\ call.op = "disable" /\ read[Host] # Unread
  /\ WriteEnable(Host, call.line, read[Host] \ {call.line})
  /\ call' = [call EXCEPT !.op = "remove"]
  /\ UNCHANGED <<sts, fixedSts, fixedEn, devices, context, queue, job, changes>>

Matches(list, line) == {i \in DOMAIN events[list] : events[list][i].line = line}

RemoveGpe ==
  LET list == <<BlockOf(call.gpe), "gpe">> IN
  /\ call.op = "remove"
  /\ events' = IF Matches(list, call.line) = {} THEN events
               ELSE [events EXCEPT ![list] = RemoveAt(@, Min(Matches(list, call.line)))]
  /\ call' = NoCall
  /\ UNCHANGED <<hardware, devices, fixedFn, threads, changes>>

\* enable_fixed_event enables in the hardware before it stores the handler.
EnableFixed(f) ==
  /\ MayCall /\ f \notin fixedFn
  /\ fixedEn' = fixedEn \cup {f}
  /\ call' = [op |-> "store", event |-> f]
  /\ changes' = changes + 1
  /\ UNCHANGED <<sts, en, fixedSts, devices, context, threads>>

StoreFixed ==
  /\ call.op = "store"
  /\ fixedFn' = fixedFn \cup {call.event}
  /\ call' = NoCall
  /\ UNCHANGED <<hardware, devices, events, threads, changes>>

DisableFixed(f) ==
  /\ MayDisable(f) /\ f \in fixedFn
  /\ fixedEn' = fixedEn \ {f}
  /\ call' = [op |-> "clear", event |-> f]
  /\ changes' = changes + 1
  /\ UNCHANGED <<sts, en, fixedSts, devices, context, threads>>

\* Nobody waits for the event any more: the SCI of another one clears its status.
ClearFixed ==
  /\ call.op = "clear"
  /\ fixedFn' = fixedFn \ {call.event}
  /\ wants' = wants \ {call.event}
  /\ call' = NoCall
  /\ UNCHANGED <<hardware, raises, events, threads, changes>>

-----------------------------------------------------------------------------
Raise == (\E g \in Gpes : RaiseGpe(g)) \/ (\E f \in FixedEvents : RaiseFixed(f))

Work(w) ==
  \/ WorkStart(w) \/ WorkGpeFn(w) \/ WorkFixedFn(w)
  \/ WorkClear(w) \/ WorkRead(w) \/ WorkWrite(w)

BeginCall ==
  \/ \E g \in NativeGpes : EnableGpe(g)
  \/ \E method \in AmlMethods : EnableAmlGpe(method)
  \/ \E g \in Gpes : DisableGpe(g)
  \/ \E f \in FixedEvents : EnableFixed(f) \/ DisableFixed(f)

EndCall ==
  \/ CallRead \/ EnableWrite \/ EnableFails \/ DisableWrite \/ RemoveGpe
  \/ StoreFixed \/ ClearFixed

Next == Raise \/ Sci \/ (\E w \in Workers : Work(w)) \/ BeginCall \/ EndCall

Spec == Init /\ [][Next]_vars

(***************************************************************************)
(* The interrupt is delivered while it is asserted, the host's threads run *)
(* the work they are given, and a call that was made goes on.              *)
(***************************************************************************)
FairSpec ==
  /\ Spec
  /\ WF_vars(Sci) /\ WF_vars(EndCall)
  /\ \A w \in Workers : WF_vars(Work(w))

-----------------------------------------------------------------------------
(* Properties                                                              *)

Works == {FixedWork(f) : f \in FixedEvents}
           \cup [list : ListSet, slot : Nat, of : Events]
Jobs ==
  {Idle} \cup [at : {"found", "disable", "fn", "clear", "read", "write"}, work : Works]
Calls ==
  {NoCall}
    \cup [op : {"enable"}, list : ListSet, line : Lines]
    \cup [op : {"disable", "remove"}, gpe : Gpes, line : Lines]
    \cup [op : {"store", "clear"}, event : FixedEvents]

\* The types of the state.
TypeOK ==
  /\ sts \subseteq Lines /\ en \subseteq Lines
  /\ fixedSts \subseteq FixedEvents /\ fixedEn \subseteq FixedEvents
  /\ fixedFn \subseteq FixedEvents
  /\ wants \subseteq Gpes \cup FixedEvents
  /\ raises \in [Gpes \cup FixedEvents -> 0..MaxRaises]
  /\ events \in [ListSet -> Seq(Events)]
  /\ queue \in Seq(Works) /\ Len(queue) <= MaxQueue + Cardinality(FixedEvents)
  /\ job \in [Handlers -> Jobs]
  /\ call \in Calls /\ changes \in 0..MaxChanges
  /\ DOMAIN read = Threads /\ lost \subseteq Lines
  /\ \A t \in DOMAIN read : read[t] = Unread \/ read[t] \subseteq Lines

\* What a source with a handler asks for stays pending in its status bit, or
\* in work that has not yet called the handler (check_fixed_events and
\* check_gpe_events clear the bit, acpi_gpe_work clears it after the handler).
NotForgotten ==
  /\ \A g \in wants \cap Handled :
       Wired(g) \in sts \/ \E work \in ToCall : work.of = Event(g)
  /\ \A f \in wants \cap fixedFn : f \in fixedSts \/ FixedWork(f) \in ToCall

\* A GPE that is handled is enabled, unless work is on its way to enable it
\* again or a call is at work on it: no event is switched off for good. The
\* exception are lines whose enabling the write of another thread undid, because
\* that thread had read the register before (event.cpp:34-50 has no lock).
NeverDead ==
  \A g \in Handled :
    \/ LineOf(g) \in en \cup lost
    \/ \E work \in GpeOutstanding : work.of.line = LineOf(g)
    \/ call.op \in {"enable", "disable"} /\ call.line = LineOf(g)
    \/ call.op = "remove" /\ call.line = LineOf(g)

\* When the SCI is delivered, qacpi_on_sci finds an event to handle: the
\* interrupt never stays asserted with nobody to quiet it. The exception is
\* enable_fixed_event between enabling the event and storing its handler.
SciClaimed ==
  Asserted /\ Undisturbed /\ ~Working(Interrupt) =>
    FixedHits # {} \/ HitLists # {} \/ call.op = "store"

\* Queued work finds what it was queued for: the element it points to is
\* still that of its event, and a fixed event still has its handler.
WorkFindsItsEvent ==
  /\ \A work \in GpeOutstanding : Valid(work)
  /\ \A work \in ToCall : IsFixed(work) => work.of \in fixedFn

\* The handler of an edge triggered GPE is called once for each request: its
\* status is cleared before its work is queued (event.cpp:288, 309), so that an
\* interrupt that comes meanwhile does not find it again.
QueuedFor(g) == {i \in DOMAIN queue : ~IsFixed(queue[i]) /\ queue[i].of.gpe = g}
CalledFor(g) ==
  {t \in Workers : job[t].at = "fn" /\ ~IsFixed(job[t].work) /\ job[t].work.of.gpe = g}
FoundFor(g) ==
  Wired(g) \in sts \/ (Working(Interrupt) /\ job[Interrupt].work.of.gpe = g)
EdgeOnce ==
  \A g \in EdgeGpes :
    Cardinality(QueuedFor(g)) + Cardinality(CalledFor(g)) + (IF FoundFor(g) THEN 1 ELSE 0)
      <= IF g \in wants THEN 1 ELSE 0

\* With a handler, each request is served some day, if the handler stays and no
\* write of another thread undoes the enabling of its line.
Served ==
  \A s \in Gpes \cup FixedEvents :
    s \in wants /\ s \in Handled \cup fixedFn
      ~> \/ s \notin wants \/ s \notin Handled \cup fixedFn
         \/ s \in Gpes /\ LineOf(s) \in lost

\* The interrupt does not stay asserted for ever.
Quietens == []<>(~Asserted)

\* The deferred work: the variables have their types, and work that is queued or
\* runs finds the event and the handler it was queued for.
WorkSound == TypeOK /\ WorkFindsItsEvent

\* No event is lost between the SCI, the deferred work and the API: what is
\* requested is latched or on its way, what is installed is enabled or about to
\* be, and an interrupt that is asserted is claimed.
EventsKept == NotForgotten /\ NeverDead /\ SciClaimed
=============================================================================
