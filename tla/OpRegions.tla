------------------------------ MODULE OpRegions ------------------------------
(***************************************************************************)
(* Operation regions and the handlers of their address spaces: the regions *)
(* a table or a method creates (src/src/interpreter.cpp, OpRegion), the    *)
(* list of those that still wait for their _REG (regions_to_reg), the      *)
(* walks that run it (src/src/context.cpp, init_namespace and              *)
(* register_address_space_handler), and the accesses that attach a handler *)
(* to a region (src/src/op_region.cpp). A _REG and an attach evaluate AML, *)
(* so other threads act before they return.                                *)
(***************************************************************************)
EXTENDS Naturals, FiniteSets, Sequences, SequencesExt

CONSTANTS Threads, Regions, Handlers,
          Spaces,      \* address spaces that need a handler
          Memory,      \* the space that is mapped and needs none
          SpaceOf,     \* per region and handler, its address space
          Device,      \* per region, the scope it is created in
          Devices,
          InMethod,    \* the regions that methods create, or tables that methods load
          BrokenReg,   \* the devices whose _REG fails
          Null,
          Copied,      \* bound: the regions whose objects are copied and freed
          MaxClones,   \* bound: copies of a region object at a time
          HostMay      \* what the host may do beyond a plain use

ASSUME RegionAssumption ==
  /\ IsFiniteSet(Regions)
  /\ SpaceOf \in [Regions \cup Handlers -> Spaces \cup {Memory}]
  /\ \A h \in Handlers : SpaceOf[h] # Memory
  /\ Device \in [Regions -> Devices]
  /\ InMethod \subseteq Regions /\ BrokenReg \subseteq Devices /\ Copied \subseteq Regions
  /\ Null \notin Regions \cup Handlers \cup Threads
  /\ MaxClones \in Nat
  /\ HostMay \subseteq {"overlap", "replace"}

VARIABLES handlers,   \* region_handlers, from its head
          head,       \* regions_to_reg
          prev, next, \* prev_link and next_link of the region's node
          node,       \* per region, whether its namespace node exists
          copies,     \* per region, how many OpRegion objects there are of it
          refs,       \* per region, the shared count those objects use
          held,       \* per region, whether count and mapping are allocated
          counting,   \* per thread, the count it has read and has still to write
          raced,      \* history: the regions whose count two threads had read at once
          attached,   \* per region, the flag of the object of its node
          hasReg,     \* the devices that have a _REG
          inited,     \* whether init_namespace has been called
          work,       \* per thread, what it is doing
          connects,   \* history: successful _REG(space, 1) per region
          owners      \* history: per region, the handlers that attached it

links == <<head, prev, next>>
objects == <<node, copies, refs, held, counting, raced>>
vars == <<handlers, links, objects, attached, hasReg, inited, work, connects, owners>>

Idle == [pc |-> "idle", region |-> Null, handler |-> Null, all |-> FALSE, space |-> Memory]
NoCount == [region |-> Null, by |-> "clone", seen |-> 0]

Init ==
  /\ handlers = <<>>
  /\ head = Null
  /\ prev = [r \in Regions |-> Null] /\ next = [r \in Regions |-> Null]
  /\ node = [r \in Regions |-> FALSE]
  /\ copies = [r \in Regions |-> 0] /\ refs = [r \in Regions |-> 0]
  /\ held = [r \in Regions |-> FALSE]
  /\ counting = [t \in Threads |-> NoCount] /\ raced = {}
  /\ attached = [r \in Regions |-> FALSE]
  /\ hasReg = {}
  /\ inited = FALSE
  /\ work = [t \in Threads |-> Idle]
  /\ connects = [r \in Regions |-> 0]
  /\ owners = [r \in Regions |-> {}]

\* The first handler of a space, Null when there is none.
HandlerFor(s) ==
  LET at == {i \in 1..Len(handlers) : SpaceOf[handlers[i]] = s}
  IN  IF at = {} THEN Null ELSE handlers[Min(at)]

Does(t, pcs) == work[t].pc \in pcs
Rests(t) == Does(t, {"idle"}) /\ counting[t] = NoCount

\* The tables are loaded, and the handlers registered, by one thread at a time.
Free ==
  \/ "overlap" \in HostMay
  \/ \A t \in Threads :
       Does(t, {"walk", "reg", "create"}) => Does(t, {"create"}) /\ work[t].region \in InMethod

\* The region's node becomes the head of regions_to_reg.
PushRegion(r) ==
  /\ prev' = [q \in Regions |-> IF q = r THEN Null ELSE IF q = head THEN r ELSE prev[q]]
  /\ next' = [next EXCEPT ![r] = head]
  /\ head' = r

\* Both walks take a connected region off the list; its own links stay.
Unlink(r) ==
  /\ next' = [q \in Regions |-> IF q = prev[r] THEN next[r] ELSE next[q]]
  /\ prev' = [q \in Regions |-> IF q = next[r] THEN prev[r] ELSE prev[q]]
  /\ head' = IF prev[r] = Null THEN next[r] ELSE head

\* A _REG is in the scope of a region from here on.
DefineReg(d) ==
  /\ ~inited /\ Free /\ d \notin hasReg
  /\ hasReg' = hasReg \cup {d}
  /\ UNCHANGED <<handlers, links, objects, attached, inited, work, connects, owners>>

\* A new region object, not attached: mapped when it is memory, with a count of its own.
NewObject(r) ==
  /\ node' = [node EXCEPT ![r] = TRUE]
  /\ copies' = [copies EXCEPT ![r] = 1]
  /\ refs' = [refs EXCEPT ![r] = 1]
  /\ held' = [held EXCEPT ![r] = TRUE]
  /\ raced' = raced \ {r} /\ UNCHANGED counting

Counted(r) == \E t \in Threads : counting[t].region = r
Unattached(r) == copies[r] = 0 /\ ~node[r] /\ ~Counted(r)

CreateRegion_NoRetry(t, r) ==
  /\ Rests(t) /\ Unattached(r)
  /\ IF r \in InMethod THEN TRUE ELSE ~inited /\ Free
  /\ NewObject(r)
  /\ CASE SpaceOf[r] # Memory /\ HandlerFor(SpaceOf[r]) # Null /\ Device[r] \in hasReg ->
            /\ work' = [work EXCEPT ![t] = [Idle EXCEPT !.pc = "create", !.region = r]]
            /\ UNCHANGED links
       [] SpaceOf[r] # Memory /\ HandlerFor(SpaceOf[r]) = Null /\ r \notin InMethod ->
            PushRegion(r) /\ UNCHANGED work
       [] OTHER -> UNCHANGED <<links, work>>
  /\ UNCHANGED <<handlers, attached, hasReg, inited, connects, owners>>
\* OperationRegion: with a handler and a _REG it runs now; without one of them
\* a region of a table waits, a region of a method does not.
CreateRegion(t, r) ==
  /\ Rests(t) /\ Unattached(r)
  /\ IF r \in InMethod THEN TRUE ELSE ~inited /\ Free
  /\ NewObject(r)
  /\ CASE SpaceOf[r] # Memory /\ HandlerFor(SpaceOf[r]) # Null /\ Device[r] \in hasReg ->
            /\ work' = [work EXCEPT ![t] = [Idle EXCEPT !.pc = "create", !.region = r]]
            /\ UNCHANGED links
       [] SpaceOf[r] # Memory /\ (HandlerFor(SpaceOf[r]) = Null \/ Device[r] \notin hasReg)
            /\ r \notin InMethod ->
            PushRegion(r) /\ UNCHANGED work
       [] OTHER -> UNCHANGED <<links, work>>
  /\ UNCHANGED <<handlers, attached, hasReg, inited, connects, owners>>

\* The _REG of the creation returns. When it fails the table or method ends
\* with its error, and nothing runs the _REG again.
CreateReturns(t) ==
  /\ Does(t, {"create"})
  /\ connects' = IF Device[work[t].region] \in BrokenReg THEN connects
                 ELSE [connects EXCEPT ![work[t].region] = @ + 1]
  /\ work' = [work EXCEPT ![t] = Idle]
  /\ UNCHANGED <<handlers, links, objects, attached, hasReg, inited, owners>>

-----------------------------------------------------------------------------
\* register_address_space_handler: the handler comes first, and the walk begins.
Register(t, h) ==
  /\ Rests(t) /\ Free
  /\ h \notin ToSet(handlers)
  /\ "replace" \in HostMay \/ \A g \in Handlers : SpaceOf[g] = SpaceOf[h] => g = h
  /\ handlers' = <<h>> \o handlers
  /\ work' = [work EXCEPT ![t] =
       [Idle EXCEPT !.pc = "walk", !.region = head, !.space = SpaceOf[h]]]
  /\ UNCHANGED <<links, objects, attached, hasReg, inited, connects, owners>>

\* deregister_address_space_handler, while no thread is inside the handler.
\* The regions it attached stay attached, and no _REG(space, 0) is run.
Deregister(h) ==
  /\ Free
  /\ \A t \in Threads : work[t].handler # h
  /\ \E i \in 1..Len(handlers) : handlers[i] = h /\ handlers' = RemoveAt(handlers, i)
  /\ UNCHANGED <<links, objects, attached, hasReg, inited, work, connects, owners>>

\* init_namespace walks the list before it visits the nodes.
InitNamespace(t) ==
  /\ Rests(t) /\ Free /\ ~inited
  /\ work' = [work EXCEPT ![t] = [Idle EXCEPT !.pc = "walk", !.region = head, !.all = TRUE]]
  /\ inited' = TRUE
  /\ UNCHANGED <<handlers, links, objects, attached, hasReg, connects, owners>>

\* run_reg evaluates a _REG: it is asked for, there is a handler, there is a _REG.
RunsReg(t) ==
  LET r == work[t].region
  IN  /\ work[t].all \/ SpaceOf[r] = work[t].space
      /\ HandlerFor(SpaceOf[r]) # Null
      /\ Device[r] \in hasReg

StepTo(t, r, pc) == work' = [work EXCEPT ![t].region = r, ![t].pc = pc]

WalkSkip(t) ==
  /\ Does(t, {"walk"}) /\ work[t].region # Null /\ ~RunsReg(t)
  /\ StepTo(t, next[work[t].region], "walk")
  /\ UNCHANGED <<handlers, links, objects, attached, hasReg, inited, connects, owners>>

WalkReg(t) ==
  /\ Does(t, {"walk"}) /\ work[t].region # Null /\ RunsReg(t)
  /\ StepTo(t, work[t].region, "reg")
  /\ UNCHANGED <<handlers, links, objects, attached, hasReg, inited, connects, owners>>

WalkReturns_Stays(t) ==
  /\ Does(t, {"reg"})
  /\ LET r == work[t].region
     IN  IF Device[r] \in BrokenReg
         THEN UNCHANGED <<connects, links, work>>
         ELSE /\ connects' = [connects EXCEPT ![r] = @ + 1]
              /\ Unlink(r)
              /\ StepTo(t, next[r], "walk")
  /\ UNCHANGED <<handlers, objects, attached, hasReg, inited, owners>>
\* The _REG of a walk returns; a region whose _REG failed stays on the list.
WalkReturns(t) ==
  /\ Does(t, {"reg"})
  /\ LET r == work[t].region
     IN  /\ IF Device[r] \in BrokenReg
            THEN UNCHANGED <<connects, links>>
            ELSE connects' = [connects EXCEPT ![r] = @ + 1] /\ Unlink(r)
         /\ StepTo(t, next[r], "walk")
  /\ UNCHANGED <<handlers, objects, attached, hasReg, inited, owners>>

WalkEnds(t) ==
  /\ Does(t, {"walk"}) /\ work[t].region = Null
  /\ work' = [work EXCEPT ![t] = Idle]
  /\ UNCHANGED <<handlers, links, objects, attached, hasReg, inited, connects, owners>>

-----------------------------------------------------------------------------
\* OpRegion::read and write of a field: memory is accessed at once, a region
\* without a handler reads as ones; the others go to the first handler.
Access(t, r) ==
  LET h == HandlerFor(SpaceOf[r])
  IN  /\ Rests(t) /\ node[r]
      /\ SpaceOf[r] # Memory /\ h # Null
      /\ work' = [work EXCEPT ![t] = [Idle EXCEPT !.pc = IF attached[r] THEN "io" ELSE "attach",
                                                  !.region = r, !.handler = h]]
      /\ UNCHANGED <<handlers, links, objects, attached, hasReg, inited, connects, owners>>

AttachReturns_Early(t, ok) ==
  LET r == work[t].region
  IN  /\ Does(t, {"attach"})
      /\ attached' = [attached EXCEPT ![r] = TRUE]
      /\ owners' = IF ok THEN [owners EXCEPT ![r] = @ \cup {work[t].handler}] ELSE owners
      /\ work' = [work EXCEPT ![t] = IF ok THEN [@ EXCEPT !.pc = "io"] ELSE Idle]
      /\ UNCHANGED <<handlers, links, objects, hasReg, inited, connects>>
\* attach succeeds, or its error is the error of the access.
AttachReturns(t, ok) ==
  LET r == work[t].region
  IN  /\ Does(t, {"attach"})
      /\ attached' = IF ok THEN [attached EXCEPT ![r] = TRUE] ELSE attached
      /\ owners' = IF ok THEN [owners EXCEPT ![r] = @ \cup {work[t].handler}] ELSE owners
      /\ work' = [work EXCEPT ![t] = IF ok THEN [@ EXCEPT !.pc = "io"] ELSE Idle]
      /\ UNCHANGED <<handlers, links, objects, hasReg, inited, connects>>

IoReturns(t) ==
  /\ Does(t, {"io"})
  /\ work' = [work EXCEPT ![t] = Idle]
  /\ UNCHANGED <<handlers, links, objects, attached, hasReg, inited, connects, owners>>

\* ++*refs and --*refs read the count and write it in two steps of a plain integer,
\* and other threads run in between. (Bound: a count that two threads have read at
\* once is not followed any further.)
ReadCount(t, r, by) ==
  /\ Rests(t) /\ r \in Copied \ raced
  /\ counting' = [counting EXCEPT ![t] = [region |-> r, by |-> by, seen |-> refs[r]]]
  /\ raced' = IF Counted(r) THEN raced \cup {r} ELSE raced
  /\ copies' = [copies EXCEPT ![r] = IF by = "clone" THEN @ + 1 ELSE @ - 1]

Clone_NoCount(t, r) ==
  /\ copies[r] \in 1..MaxClones /\ r \in Copied
  /\ copies' = [copies EXCEPT ![r] = @ + 1]
  /\ UNCHANGED <<handlers, links, node, refs, held, counting, raced, attached, hasReg, inited,
                 work, connects, owners>>
\* OpRegion::clone, for a CopyObject or an argument
Clone(t, r) ==
  /\ copies[r] \in 1..MaxClones /\ ReadCount(t, r, "clone")
  /\ UNCHANGED <<handlers, links, node, refs, held, attached, hasReg, inited, work, connects, owners>>

\* A thread that copies a region keeps the object it copies.
Cloning(r) == \E t \in Threads : counting[t].region = r /\ counting[t].by = "clone"
Using(r) == \E t \in Threads : work[t].region = r

DropClone(t, r) ==
  /\ copies[r] > (IF Cloning(r) THEN 2 ELSE IF node[r] THEN 1 ELSE 0) /\ ~Using(r)
  /\ ReadCount(t, r, "drop")
  /\ UNCHANGED <<handlers, links, node, refs, held, attached, hasReg, inited, work, connects, owners>>

\* The method that made the region ends: its node goes, and the node's object.
MethodEnds(t, r) ==
  /\ r \in InMethod /\ node[r] /\ ~Using(r)
  /\ Cloning(r) => copies[r] > 2
  /\ node' = [node EXCEPT ![r] = FALSE]
  /\ ReadCount(t, r, "drop")
  /\ attached' = [attached EXCEPT ![r] = FALSE]
  /\ connects' = [connects EXCEPT ![r] = 0]
  /\ owners' = [owners EXCEPT ![r] = {}]
  /\ UNCHANGED <<handlers, links, refs, held, hasReg, inited, work>>

\* The count is written; ~OpRegion frees it and the mapping when it is 0.
WriteCount(t) ==
  LET c == counting[t]
      count == IF c.by = "clone" THEN c.seen + 1 ELSE c.seen - 1
  IN  /\ c.region # Null
      /\ refs' = [refs EXCEPT ![c.region] = count]
      /\ held' = [held EXCEPT ![c.region] = @ /\ count # 0]
      /\ counting' = [counting EXCEPT ![t] = NoCount]
      /\ UNCHANGED <<handlers, links, node, copies, raced, attached, hasReg, inited, work,
                     connects, owners>>

ThreadStep(t) ==
  \/ CreateReturns(t) \/ WalkSkip(t) \/ WalkReg(t) \/ WalkReturns(t) \/ WalkEnds(t)
  \/ \E ok \in BOOLEAN : AttachReturns(t, ok)
  \/ IoReturns(t) \/ WriteCount(t)

Next ==
  \/ \E d \in Devices : DefineReg(d)
  \/ \E t \in Threads, r \in Regions :
       CreateRegion(t, r) \/ Access(t, r) \/ Clone(t, r) \/ DropClone(t, r) \/ MethodEnds(t, r)
  \/ \E t \in Threads, h \in Handlers : Register(t, h)
  \/ \E h \in Handlers : Deregister(h)
  \/ \E t \in Threads : InitNamespace(t) \/ ThreadStep(t)

Spec == Init /\ [][Next]_vars /\ \A t \in Threads : WF_vars(ThreadStep(t))

-----------------------------------------------------------------------------
Doing == [pc : {"idle", "create", "walk", "reg", "attach", "io"},
          region : Regions \cup {Null}, handler : Handlers \cup {Null},
          all : BOOLEAN, space : Spaces \cup {Memory}]
Counts == [region : Regions \cup {Null}, by : {"clone", "drop"}, seen : Nat]
TypeOK ==
  /\ handlers \in Seq(Handlers) /\ IsInjective(handlers)
  /\ head \in Regions \cup {Null}
  /\ prev \in [Regions -> Regions \cup {Null}] /\ next \in [Regions -> Regions \cup {Null}]
  /\ node \in [Regions -> BOOLEAN] /\ attached \in [Regions -> BOOLEAN]
  /\ copies \in [Regions -> 0..(MaxClones + 1)] /\ refs \in [Regions -> Nat]
  /\ held \in [Regions -> BOOLEAN]
  /\ counting \in [Threads -> Counts] /\ raced \subseteq Regions
  /\ hasReg \subseteq Devices /\ inited \in BOOLEAN
  /\ work \in [Threads -> Doing]
  /\ connects \in [Regions -> Nat] /\ owners \in [Regions -> SUBSET Handlers]

\* The region that i steps from the head of regions_to_reg reach
Entry == LET f[i \in Nat] == IF i = 0 THEN head
                             ELSE IF f[i - 1] = Null THEN Null ELSE next[f[i - 1]]
         IN  f
OfTable(r) == node[r] /\ r \notin InMethod /\ SpaceOf[r] # Memory
Creating(r) == \E t \in Threads : Does(t, {"create"}) /\ work[t].region = r
Listed == {r \in Regions : \E i \in 0..Cardinality(Regions) : Entry[i] = r}

\* regions_to_reg ends, its links agree in both directions, and it holds the
\* regions of tables that still wait for a _REG: none that has had it, and
\* each that has not, except one whose _REG failed when it was created.
ListExact ==
  /\ Entry[Cardinality(Regions)] = Null
  /\ \A i \in 0..Cardinality(Regions) : Entry[i] # Null =>
       prev[Entry[i]] = IF i = 0 THEN Null ELSE Entry[i - 1]
  /\ \A r \in Listed : OfTable(r) /\ connects[r] = 0
  /\ \A r \in Regions :
       OfTable(r) /\ connects[r] = 0 /\ Device[r] \notin BrokenReg /\ ~Creating(r)
         => r \in Listed

\* _REG(space, 1) succeeds at most once for a region, whichever of the creation,
\* init_namespace and the registrations runs it (the test reg-devices.asl
\* counts a second one as an error).
ConnectedOnce == \A r \in Regions : connects[r] <= 1

\* Once init_namespace has run, a region of a table whose space has a handler
\* and whose scope has a _REG that succeeds has been told so, in whichever
\* order the region, the _REG and the handler came.
ConnectedAfterInit ==
  inited /\ (\A t \in Threads : ~Does(t, {"walk", "reg", "create"})) =>
    \A r \in Regions :
      OfTable(r) /\ HandlerFor(SpaceOf[r]) # Null /\ Device[r] \in hasReg \ BrokenReg
        => connects[r] = 1

\* A handler reads and writes only regions that its own attach has accepted,
\* although attach may fail, may run twice at once, and the flag that skips it
\* does not say which handler it is about.
AttachFirst ==
  \A t \in Threads : Does(t, {"io"}) => work[t].handler \in owners[work[t].region]

\* A region stays mapped as long as there is a copy of it, and when no thread is at
\* the count, it is the number of the copies and nothing is left mapped without one,
\* in every order of the copies, of their ends and of the method's, as long as no two
\* threads have been at the count at once.
MappedWhileHeld ==
  \A r \in Regions \ raced :
    /\ copies[r] > 0 => held[r]
    /\ ~Counted(r) => refs[r] = copies[r] /\ (held[r] => copies[r] > 0)

\* A walk over regions_to_reg comes to its end, whatever the _REGs return.
WalksEnd == \A t \in Threads : Does(t, {"walk"}) ~> Does(t, {"idle"})

\* _REG: the list holds the regions whose _REG was not run yet, each is connected
\* once, and after init_namespace all that can be are.
Connected == ListExact /\ ConnectedOnce /\ ConnectedAfterInit

\* The variables have their types, and the memory of a region is mapped as long as
\* a copy of it exists, and unmapped with the last one (OpRegion::~OpRegion).
MappingsSound == TypeOK /\ MappedWhileHeld
=============================================================================
