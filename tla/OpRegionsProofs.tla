--------------------------- MODULE OpRegionsProofs ---------------------------
(***************************************************************************)
(* Proofs about OpRegions, for any number of threads, regions, handlers,    *)
(* devices and copies.                                                      *)
(***************************************************************************)
EXTENDS OpRegions, Integers, SequenceTheorems, FiniteSetTheorems,
        WellFoundedInduction, NaturalsInduction, TLAPS

-----------------------------------------------------------------------------
(* Numbers                                                                 *)

\* A set of natural numbers that is not empty has a least element.
LEMMA NatMin ==
  ASSUME NEW T, T \subseteq Nat, T # {}
  PROVE  \E x \in T : \A y \in T : x <= y
<1>1. PICK x \in T : \A y \in T : ~ (<<y, x>> \in OpToRel(<, Nat))
  BY NatLessThanWellFounded, WFMin
<1>2. ASSUME NEW y \in T, y < x
      PROVE  FALSE
  <2>1. <<y, x>> \in {ss \in Nat \X Nat : ss[1] < ss[2]}
    BY <1>2
  <2>2. <<y, x>> \in OpToRel(<, Nat)
    BY <2>1, Zenon DEF OpToRel
  <2>3. QED
    BY <1>1, <2>2
<1>3. \A y \in T : ~ (y < x)
  BY <1>2
<1>4. QED
  BY <1>3

\* Induction: a set with 0, and with n + 1 whenever it has n, has every natural number.
LEMMA SetInduction ==
  ASSUME NEW T, 0 \in T, \A n \in Nat : n \in T => n + 1 \in T
  PROVE  Nat \subseteq T
<1>1. SUFFICES ASSUME Nat \ T # {}
               PROVE  FALSE
  OBVIOUS
<1>2. PICK x \in Nat \ T : \A y \in Nat \ T : x <= y
  BY <1>1, NatMin
<1>3. x - 1 \in Nat /\ x - 1 \in T
  BY <1>2
<1>4. QED
  BY <1>2, <1>3

\* The first n steps of the iteration of g from a
Steps(S, g, a, n) ==
  {f \in [0..n -> S] : f[0] = a /\ \A i \in 0..(n - 1) : f[i + 1] = g[f[i]]}

LEMMA StepsExist ==
  ASSUME NEW S, NEW g \in [S -> S], NEW a \in S, NEW n \in Nat
  PROVE  Steps(S, g, a, n) # {}
<1> DEFINE T == {k \in Nat : Steps(S, g, a, k) # {}}
<1>1. 0 \in T
  <2>1. [i \in 0..0 |-> a] \in Steps(S, g, a, 0)
    BY DEF Steps
  <2>2. QED
    BY <2>1
<1>2. ASSUME NEW k \in Nat, k \in T
      PROVE  k + 1 \in T
  <2>1. PICK f \in [0..k -> S] : f[0] = a /\ \A i \in 0..(k - 1) : f[i + 1] = g[f[i]]
    BY <1>2 DEF Steps
  <2> DEFINE h == [i \in 0..(k + 1) |-> IF i = k + 1 THEN g[f[k]] ELSE f[i]]
  <2>2. h \in [0..(k + 1) -> S] /\ h[0] = a
    BY <2>1
  <2>3. ASSUME NEW i \in 0..((k + 1) - 1)
        PROVE  h[i + 1] = g[h[i]]
    <3>1. CASE i = k
      BY <3>1
    <3>2. CASE i # k
      BY <2>1, <3>2
    <3>3. QED
      BY <3>1, <3>2
  <2>4. h \in Steps(S, g, a, k + 1)
    BY <2>2, <2>3 DEF Steps
  <2>5. QED
    BY <2>4
<1> HIDE DEF T
<1>3. Nat \subseteq T
  BY <1>1, <1>2, SetInduction
<1>4. QED
  BY <1>3 DEF T

LEMMA StepsAgree ==
  ASSUME NEW S, NEW g \in [S -> S], NEW a \in S, NEW n \in Nat, NEW m \in Nat, n <= m,
         NEW f \in Steps(S, g, a, n), NEW h \in Steps(S, g, a, m)
  PROVE  f[n] = h[n]
<1> DEFINE T == {k \in Nat : k <= n => f[k] = h[k]}
<1>1. 0 \in T
  BY DEF Steps
<1>2. ASSUME NEW k \in Nat, k \in T
      PROVE  k + 1 \in T
  <2>1. SUFFICES ASSUME k + 1 <= n
                 PROVE  f[k + 1] = h[k + 1]
    OBVIOUS
  <2>2. k \in 0..(n - 1) /\ k \in 0..(m - 1) /\ f[k] = h[k]
    BY <1>2, <2>1
  <2>3. f[k + 1] = g[f[k]] /\ h[k + 1] = g[h[k]]
    BY <2>2 DEF Steps
  <2>4. QED
    BY <2>2, <2>3
<1> HIDE DEF T
<1>3. n \in T
  BY <1>1, <1>2, SetInduction
<1>4. QED
  BY <1>3 DEF T

\* The iterations of g from a
Iterations(S, g, a) == {f \in [Nat -> S] : f[0] = a /\ \A n \in Nat : f[n + 1] = g[f[n]]}

\* A function from a set into itself can be iterated from any element of the set.
LEMMA Iteration ==
  ASSUME NEW S, NEW g \in [S -> S], NEW a \in S
  PROVE  Iterations(S, g, a) # {}
<1> DEFINE st(n) == CHOOSE h \in Steps(S, g, a, n) : TRUE
           f == [n \in Nat |-> st(n)[n]]
<1>1. ASSUME NEW n \in Nat
      PROVE  st(n) \in Steps(S, g, a, n)
  BY StepsExist
<1> HIDE DEF st
<1>2. f \in [Nat -> S]
  BY <1>1 DEF Steps
<1>3. f[0] = a
  BY <1>1 DEF Steps
<1>4. ASSUME NEW n \in Nat
      PROVE  f[n + 1] = g[f[n]]
  <2>1. st(n) \in Steps(S, g, a, n) /\ st(n + 1) \in Steps(S, g, a, n + 1)
    BY <1>1
  <2>2. st(n + 1)[n + 1] = g[st(n + 1)[n]]
    BY <2>1 DEF Steps
  <2>3. st(n)[n] = st(n + 1)[n]
    BY <2>1, StepsAgree
  <2>4. QED
    BY <2>2, <2>3
<1>5. f \in Iterations(S, g, a)
  BY <1>2, <1>3, <1>4 DEF Iterations
<1>6. QED
  BY <1>5

-----------------------------------------------------------------------------
\* The first of a sequence of handlers that is of a space
FirstFor(hs, s) ==
  LET at == {i \in 1..Len(hs) : SpaceOf[hs[i]] = s}
  IN  IF at = {} THEN Null ELSE hs[Min(at)]

\* It is in the sequence, of that space, and there is one if any is.
LEMMA FirstForProperties ==
  ASSUME NEW hs \in Seq(Handlers), NEW s
  PROVE  /\ FirstFor(hs, s) \in Handlers \cup {Null}
         /\ FirstFor(hs, s) # Null =>
              FirstFor(hs, s) \in Handlers /\ SpaceOf[FirstFor(hs, s)] = s
              /\ \E i \in 1..Len(hs) : hs[i] = FirstFor(hs, s)
         /\ FirstFor(hs, s) # Null <=> \E i \in 1..Len(hs) : SpaceOf[hs[i]] = s
<1> DEFINE at == {i \in 1..Len(hs) : SpaceOf[hs[i]] = s}
<1>1. \A i \in 1..Len(hs) : hs[i] \in Handlers /\ hs[i] # Null
  BY RegionAssumption
<1>2. CASE at = {}
  <2>1. FirstFor(hs, s) = Null
    BY <1>2 DEF FirstFor
  <2>2. QED
    BY <1>2, <2>1
<1>3. CASE at # {}
  <2>1. at \subseteq Nat
    OBVIOUS
  <2>2. \E x \in at : \A y \in at : x <= y
    BY <1>3, <2>1, NatMin
  <2>3. Min(at) \in at
    BY <2>2 DEF Min
  <2>4. FirstFor(hs, s) = hs[Min(at)]
    BY <1>3 DEF FirstFor
  <2>5. QED
    BY <1>1, <1>3, <2>3, <2>4
<1>4. QED
  BY <1>2, <1>3

LEMMA HandlerForIsFirst == \A s : HandlerFor(s) = FirstFor(handlers, s)
BY DEF HandlerFor, FirstFor

LEMMA HandlerForProperties ==
  ASSUME handlers \in Seq(Handlers), NEW s
  PROVE  /\ HandlerFor(s) \in Handlers \cup {Null}
         /\ HandlerFor(s) # Null =>
              HandlerFor(s) \in Handlers /\ SpaceOf[HandlerFor(s)] = s
              /\ \E i \in 1..Len(handlers) : handlers[i] = HandlerFor(s)
         /\ HandlerFor(s) # Null <=> \E i \in 1..Len(handlers) : SpaceOf[handlers[i]] = s
BY FirstForProperties, HandlerForIsFirst

LEMMA Removed ==
  ASSUME NEW S, NEW s \in Seq(S), NEW p \in 1..Len(s), NEW w, w = RemoveAt(s, p)
  PROVE  /\ w \in Seq(S) /\ Len(w) = Len(s) - 1
         /\ \A i \in 1..Len(w) : w[i] = s[IF i < p THEN i ELSE i + 1]
<1>1. Len(s) \in Nat /\ \A i \in 1..Len(s) : s[i] \in S
  OBVIOUS
<1> DEFINE a == SubSeq(s, 1, p - 1)
           b == SubSeq(s, p + 1, Len(s))
<1>2. a \in Seq(S) /\ Len(a) = p - 1 /\ \A i \in 1..(p - 1) : a[i] = s[i]
  <2>1. 1 \in 1..(Len(s) + 1) /\ p - 1 \in 0..Len(s)
    BY <1>1
  <2>2. QED
    BY <1>1, <2>1, SubSeqProperties
<1>3. b \in Seq(S) /\ Len(b) = Len(s) - p /\ \A i \in 1..(Len(s) - p) : b[i] = s[p + i]
  <2>1. p + 1 \in 1..(Len(s) + 1) /\ Len(s) \in 0..Len(s)
    BY <1>1
  <2>2. \A i \in 1..(Len(s) - p) : (p + 1) + i - 1 = p + i
    BY <1>1
  <2>3. QED
    BY <1>1, <2>1, <2>2, SubSeqProperties
<1>4. w = a \o b
  BY DEF RemoveAt
<1> HIDE DEF a, b
<1>5. /\ w \in Seq(S) /\ Len(w) = (p - 1) + (Len(s) - p)
      /\ \A i \in 1..Len(w) : w[i] = IF i <= p - 1 THEN a[i] ELSE b[i - (p - 1)]
  <2>1. /\ w \in Seq(S) /\ Len(w) = Len(a) + Len(b)
        /\ \A i \in 1..Len(w) : w[i] = IF i <= Len(a) THEN a[i] ELSE b[i - Len(a)]
    <3>1. a \in Seq(S) /\ b \in Seq(S)
      BY <1>2, <1>3
    <3>2. /\ a \o b \in Seq(S) /\ Len(a \o b) = Len(a) + Len(b)
          /\ \A i \in 1..(Len(a) + Len(b)) :
               (a \o b)[i] = IF i <= Len(a) THEN a[i] ELSE b[i - Len(a)]
      BY <3>1, ConcatProperties
    <3>3. QED
      BY <1>4, <3>2
  <2>2. QED
    BY <1>2, <1>3, <2>1
<1>6. ASSUME NEW i \in 1..Len(w)
      PROVE  w[i] = s[IF i < p THEN i ELSE i + 1]
  <2>1. CASE i < p
    BY <1>1, <1>2, <1>5, <2>1
  <2>2. CASE ~ (i < p)
    <3>1. i - (p - 1) \in 1..(Len(s) - p) /\ p + (i - (p - 1)) = i + 1 /\ ~ (i <= p - 1)
      BY <1>1, <1>5, <2>2
    <3>2. QED
      BY <1>3, <1>5, <2>2, <3>1
  <2>3. QED
    BY <2>1, <2>2
<1>7. QED
  BY <1>1, <1>5, <1>6

-----------------------------------------------------------------------------
\* What a thread is at has the region, and the handler, that its step uses; the node
\* of a region stays while a thread is inside the region's handler or its creation.
WorkOK ==
  \A t \in Threads :
    /\ Does(t, {"create", "attach", "io"}) =>
         work[t].region \in Regions /\ node[work[t].region]
    /\ Does(t, {"reg"}) => work[t].region \in Regions
    /\ Does(t, {"attach", "io"}) => work[t].handler \in Handlers

\* A node has an object.
NodesHaveObjects == \A r \in Regions : node[r] => copies[r] >= 1

Typed == TypeOK /\ WorkOK

\* A count that a thread has read is not 0, and a thread that copies a region holds the
\* object it copies.
Reading(t, r) ==
  counting[t].region = r =>
    counting[t].seen >= 1 /\ (counting[t].by = "clone" => copies[r] >= 2)

\* Where no two threads have been at the count at once, it is what the thread at it has
\* read, and one behind the objects; without a thread it is their number.
Exact(r) ==
  /\ held[r] <=> refs[r] > 0
  /\ ~Counted(r) => refs[r] = copies[r]
  /\ \A t, u \in Threads : counting[t].region = r /\ counting[u].region = r => t = u
  /\ \A t \in Threads : counting[t].region = r =>
       /\ counting[t].seen = refs[r]
       /\ counting[t].by = "clone" => refs[r] + 1 = copies[r]
       /\ counting[t].by = "drop" => refs[r] = copies[r] + 1

CountsFine ==
  /\ NodesHaveObjects
  /\ \A t \in Threads, r \in Regions : Reading(t, r)
  /\ \A r \in Regions \ raced : Exact(r)

LEMMA CountsFineIsMapped == TypeOK /\ CountsFine => MappedWhileHeld
<1> SUFFICES ASSUME TypeOK, CountsFine, NEW r \in Regions \ raced
             PROVE  /\ copies[r] > 0 => held[r]
                    /\ ~Counted(r) => refs[r] = copies[r] /\ (held[r] => copies[r] > 0)
  BY DEF MappedWhileHeld
<1>1. PICK c, n : c = copies[r] /\ n = refs[r]
  OBVIOUS
<1>2. c \in Nat /\ n \in Nat /\ Exact(r)
  BY <1>1, RegionAssumption DEF TypeOK, CountsFine
<1>3. CASE ~Counted(r)
  BY <1>1, <1>2, <1>3 DEF Exact
<1>4. CASE Counted(r)
  <2>1. PICK t \in Threads : counting[t].region = r
    BY <1>4 DEF Counted
  <2>2. n >= 1
    <3>1. counting[t].seen = n /\ counting[t].seen >= 1
      BY <1>1, <1>2, <2>1 DEF CountsFine, Reading, Exact
    <3>2. QED
      BY <3>1
  <2>3. QED
    BY <1>1, <1>2, <1>4, <2>2 DEF Exact
<1>5. QED
  BY <1>3, <1>4

LEMMA InitTyped == Init => Typed /\ CountsFine
<1> SUFFICES ASSUME Init
             PROVE  Typed /\ CountsFine
  OBVIOUS
<1>1. handlers \in Seq(Handlers) /\ IsInjective(handlers)
  <2>1. handlers = <<>>
    BY DEF Init
  <2>2. QED
    BY <2>1 DEF IsInjective
<1>2. work \in [Threads -> Doing]
  BY DEF Init, Idle, Doing
<1>3. /\ prev \in [Regions -> Regions \cup {Null}] /\ next \in [Regions -> Regions \cup {Null}]
      /\ copies \in [Regions -> 0..(MaxClones + 1)] /\ refs \in [Regions -> Nat]
      /\ counting \in [Threads -> Counts]
  BY RegionAssumption DEF Init, NoCount, Counts
<1>4. TypeOK
  BY <1>1, <1>2, <1>3 DEF Init, TypeOK
<1>5. WorkOK
  BY DEF Init, WorkOK, Does, Idle
<1>7. CountsFine
  BY RegionAssumption DEF Init, CountsFine, Reading, Exact, Counted, NodesHaveObjects, NoCount
<1>6. QED
  BY <1>4, <1>5, <1>7 DEF Typed

LEMMA WorkType ==
  ASSUME TypeOK, NEW t \in Threads
  PROVE  /\ work[t].pc \in {"idle", "create", "walk", "reg", "attach", "io"}
         /\ work[t].region \in Regions \cup {Null} /\ work[t].handler \in Handlers \cup {Null}
         /\ work[t].all \in BOOLEAN /\ work[t].space \in Spaces \cup {Memory}
         /\ DOMAIN work = Threads
BY DEF TypeOK, Doing

\* A thread goes to a place of its work, and the others stay at theirs.
Moved(t, pc, r, h, all, sp) ==
  /\ work' \in [Threads -> Doing]
  /\ work'[t].pc = pc /\ work'[t].region = r /\ work'[t].handler = h
  /\ work'[t].all = all /\ work'[t].space = sp
  /\ \A u \in Threads : u # t => work'[u] = work[u]

LEMMA Sets ==
  ASSUME TypeOK, NEW t \in Threads, NEW w \in Doing, work' = [work EXCEPT ![t] = w]
  PROVE  Moved(t, w.pc, w.region, w.handler, w.all, w.space)
BY DEF TypeOK, Moved

LEMMA SetsIdle ==
  ASSUME TypeOK, NEW t \in Threads, work' = [work EXCEPT ![t] = Idle]
  PROVE  Moved(t, "idle", Null, Null, FALSE, Memory)
<1>1. Idle \in Doing
  BY DEF Idle, Doing
<1>2. QED
  BY <1>1, Sets DEF Idle

LEMMA StepToMoves ==
  ASSUME TypeOK, NEW t \in Threads, NEW r \in Regions \cup {Null},
         NEW pc \in {"idle", "create", "walk", "reg", "attach", "io"}, StepTo(t, r, pc)
  PROVE  Moved(t, pc, r, work[t].handler, work[t].all, work[t].space)
<1>1. work[t] \in Doing
  BY DEF TypeOK
<1> DEFINE w == [work[t] EXCEPT !.region = r, !.pc = pc]
<1>2. w \in Doing
  BY <1>1 DEF Doing
<1>3. work' = [work EXCEPT ![t] = w]
  BY DEF StepTo, TypeOK
<1>4. QED
  BY <1>1, <1>2, <1>3, Sets DEF Doing

LEMMA CreateMoves ==
  ASSUME TypeOK, NEW t \in Threads, NEW r \in Regions,
         work' = [work EXCEPT ![t] = [Idle EXCEPT !.pc = "create", !.region = r]]
  PROVE  Moved(t, "create", r, Null, FALSE, Memory)
<1> DEFINE w == [Idle EXCEPT !.pc = "create", !.region = r]
<1>1. w \in Doing
  BY DEF Idle, Doing
<1>2. QED
  BY <1>1, Sets DEF Idle

LEMMA RegisterMoves ==
  ASSUME TypeOK, NEW t \in Threads, NEW h \in Handlers, Register(t, h)
  PROVE  Moved(t, "walk", head, Null, FALSE, SpaceOf[h])
<1> DEFINE w == [Idle EXCEPT !.pc = "walk", !.region = head, !.space = SpaceOf[h]]
<1>1. w \in Doing
  BY RegionAssumption DEF Idle, Doing, TypeOK
<1>2. work' = [work EXCEPT ![t] = w]
  BY DEF Register
<1>3. QED
  BY <1>1, <1>2, Sets DEF Idle

LEMMA InitMoves ==
  ASSUME TypeOK, NEW t \in Threads, InitNamespace(t)
  PROVE  Moved(t, "walk", head, Null, TRUE, Memory)
<1> DEFINE w == [Idle EXCEPT !.pc = "walk", !.region = head, !.all = TRUE]
<1>1. w \in Doing
  BY DEF Idle, Doing, TypeOK
<1>2. work' = [work EXCEPT ![t] = w]
  BY DEF InitNamespace
<1>3. QED
  BY <1>1, <1>2, Sets DEF Idle

LEMMA AccessMoves ==
  ASSUME TypeOK, NEW t \in Threads, NEW r \in Regions, Access(t, r)
  PROVE  Moved(t, IF attached[r] THEN "io" ELSE "attach", r, HandlerFor(SpaceOf[r]), FALSE, Memory)
<1> DEFINE w == [Idle EXCEPT !.pc = IF attached[r] THEN "io" ELSE "attach",
                             !.region = r, !.handler = HandlerFor(SpaceOf[r])]
<1>1. HandlerFor(SpaceOf[r]) \in Handlers \cup {Null}
  BY HandlerForProperties DEF TypeOK
<1>2. w \in Doing
  BY <1>1 DEF Idle, Doing, TypeOK
<1>3. work' = [work EXCEPT ![t] = w]
  BY DEF Access
<1> HIDE DEF w
<1>4. Moved(t, w.pc, w.region, w.handler, w.all, w.space)
  BY <1>2, <1>3, Sets
<1>5. QED
  BY <1>4 DEF Idle, w

LEMMA AttachMoves ==
  ASSUME TypeOK, NEW t \in Threads, NEW ok \in BOOLEAN, AttachReturns(t, ok)
  PROVE  IF ok THEN Moved(t, "io", work[t].region, work[t].handler, work[t].all, work[t].space)
               ELSE Moved(t, "idle", Null, Null, FALSE, Memory)
<1>1. CASE ok
  <2> DEFINE w == [work[t] EXCEPT !.pc = "io"]
  <2>1. work[t] \in Doing
    BY DEF TypeOK
  <2>2. w \in Doing
    BY <2>1 DEF Doing
  <2>3. work' = [work EXCEPT ![t] = w]
    BY <1>1 DEF AttachReturns, TypeOK
  <2>4. QED
    BY <1>1, <2>1, <2>2, <2>3, Sets DEF Doing
<1>2. CASE ~ok
  BY <1>2, SetsIdle DEF AttachReturns
<1>3. QED
  BY <1>1, <1>2

\* What a step leaves in order when it moves one thread, or none
LEMMA WorkMoved ==
  ASSUME WorkOK, NEW t \in Threads, NEW pc, NEW r, NEW h, NEW all, NEW sp,
         Moved(t, pc, r, h, all, sp), \A q \in Regions : node[q] => node'[q],
         pc \in {"create", "attach", "io"} => r \in Regions /\ node'[r],
         pc = "reg" => r \in Regions, pc \in {"attach", "io"} => h \in Handlers
  PROVE  WorkOK'
<1> SUFFICES ASSUME NEW u \in Threads
             PROVE  /\ Does(u, {"create", "attach", "io"})' =>
                         work'[u].region \in Regions /\ node'[work'[u].region]
                    /\ Does(u, {"reg"})' => work'[u].region \in Regions
                    /\ Does(u, {"attach", "io"})' => work'[u].handler \in Handlers
  BY DEF WorkOK
<1>1. CASE u = t
  BY <1>1 DEF Moved, Does
<1>2. CASE u # t
  BY <1>2 DEF Moved, Does, WorkOK
<1>3. QED
  BY <1>1, <1>2

LEMMA WorkKept ==
  ASSUME WorkOK, UNCHANGED work,
         \A t \in Threads : Does(t, {"create", "attach", "io"}) => 
           (node[work[t].region] => node'[work[t].region])
  PROVE  WorkOK'
BY DEF WorkOK, Does

\* A thread reads the count: there is one object more or less, and a thread at it.
Read(t, r, by) ==
  /\ counting[t] = NoCount /\ UNCHANGED <<refs, held>>
  /\ counting' \in [Threads -> Counts]
  /\ counting'[t] = [region |-> r, by |-> by, seen |-> refs[r]]
  /\ \A u \in Threads : u # t => counting'[u] = counting[u]
  /\ raced' \subseteq Regions /\ raced \subseteq raced'
  /\ \A q \in Regions : q # r => (q \in raced' => q \in raced) /\ copies'[q] = copies[q]
  /\ r \notin raced /\ (r \notin raced' => ~Counted(r))
  /\ copies' \in [Regions -> 0..(MaxClones + 1)]
  /\ copies'[r] = IF by = "clone" THEN copies[r] + 1 ELSE copies[r] - 1

LEMMA ReadIs ==
  ASSUME TypeOK, NEW t \in Threads, NEW r \in Regions, NEW by \in {"clone", "drop"},
         ReadCount(t, r, by), UNCHANGED <<refs, held>>,
         by = "clone" => copies[r] <= MaxClones, by = "drop" => copies[r] >= 1
  PROVE  Read(t, r, by)
<1>1. /\ copies \in [Regions -> 0..(MaxClones + 1)] /\ refs \in [Regions -> Nat]
      /\ MaxClones \in Nat /\ counting \in [Threads -> Counts] /\ raced \subseteq Regions
  BY RegionAssumption DEF TypeOK
<1>2. PICK c : c = IF by = "clone" THEN copies[r] + 1 ELSE copies[r] - 1
  OBVIOUS
<1>3. copies' = [copies EXCEPT ![r] = c]
  BY <1>2 DEF ReadCount
<1>4. c \in 0..(MaxClones + 1)
  BY <1>1, <1>2
<1>5. PICK w : w = [region |-> r, by |-> by, seen |-> refs[r]]
  OBVIOUS
<1>6. w \in Counts /\ counting' = [counting EXCEPT ![t] = w]
  BY <1>1, <1>5 DEF Counts, ReadCount
<1>7. /\ counting[t] = NoCount /\ r \notin raced
      /\ raced' = IF Counted(r) THEN raced \cup {r} ELSE raced
  BY DEF ReadCount, Rests
<1>8. /\ counting' \in [Threads -> Counts] /\ counting'[t] = w
      /\ \A u \in Threads : u # t => counting'[u] = counting[u]
  BY <1>1, <1>6
<1>9. /\ copies' \in [Regions -> 0..(MaxClones + 1)] /\ copies'[r] = c
      /\ \A q \in Regions : q # r => copies'[q] = copies[q]
  BY <1>1, <1>3, <1>4
<1>10. QED
  BY <1>1, <1>2, <1>5, <1>7, <1>8, <1>9 DEF Read

LEMMA ReadKeeps ==
  ASSUME TypeOK, CountsFine, NEW t \in Threads, NEW r \in Regions, NEW by \in {"clone", "drop"},
         Read(t, r, by), by = "clone" => copies[r] >= 1,
         by = "drop" => copies[r] >= 1 /\ (Cloning(r) => copies[r] > 2)
  PROVE  /\ \A u \in Threads, q \in Regions : Reading(u, q)'
         /\ \A q \in Regions \ raced' : Exact(q)'
<1>1. PICK c, d, n : c = copies[r] /\ d = copies'[r] /\ n = refs[r]
  OBVIOUS
<1>2. /\ c \in Nat /\ d \in Nat /\ n \in Nat /\ Exact(r)
      /\ by = "clone" => d = c + 1
      /\ by = "drop" => d = c - 1
  BY <1>1, RegionAssumption DEF TypeOK, CountsFine, Read
<1>3. n >= 1
  <2>1. CASE Counted(r)
    <3>1. PICK u \in Threads : counting[u].region = r
      BY <2>1 DEF Counted
    <3>2. counting[u].seen = n /\ counting[u].seen >= 1
      BY <1>1, <1>2, <3>1 DEF CountsFine, Reading, Exact
    <3>3. QED
      BY <3>2
  <2>2. CASE ~Counted(r)
    BY <1>1, <1>2, <2>2 DEF Exact
  <2>3. QED
    BY <2>1, <2>2
<1>4. r # Null /\ NoCount.region = Null
  BY RegionAssumption DEF NoCount
<1>5. ASSUME NEW u \in Threads, NEW q \in Regions
      PROVE  Reading(u, q)'
  <2>1. CASE u = t
    <3>1. /\ counting'[u].region = r /\ counting'[u].by = by /\ counting'[u].seen = n
      BY <1>1, <2>1 DEF Read
    <3>2. QED
      BY <1>1, <1>2, <1>3, <3>1 DEF Reading
  <2>2. CASE u # t /\ q # r
    BY <2>2 DEF Read, CountsFine, Reading
  <2>3. CASE u # t /\ q = r
    <3>1. counting'[u] = counting[u] /\ Reading(u, r)
      BY <2>3 DEF Read, CountsFine
    <3>2. counting[u].region = r /\ counting[u].by = "clone" => d >= 2
      <4>1. ASSUME counting[u].region = r, counting[u].by = "clone"
            PROVE  d >= 2
        <5>1. c >= 2
          BY <1>1, <3>1, <4>1 DEF Reading
        <5>2. by = "drop" => c > 2
          BY <1>1, <4>1 DEF Cloning
        <5>3. QED
          BY <1>2, <5>1, <5>2
      <4>2. QED
        BY <4>1
    <3>3. QED
      BY <1>1, <2>3, <3>1, <3>2 DEF Reading
  <2>4. QED
    BY <2>1, <2>2, <2>3
<1>6. ASSUME NEW q \in Regions \ raced', q # r
      PROVE  Exact(q)'
  <2>1. Exact(q) /\ copies'[q] = copies[q] /\ UNCHANGED <<refs, held>>
    BY <1>6 DEF Read, CountsFine
  <2>2. ASSUME NEW u \in Threads
        PROVE  /\ counting'[u].region = q <=> counting[u].region = q
               /\ counting[u].region = q => counting'[u] = counting[u]
    <3>1. CASE u = t
      <4>1. counting'[u].region = r /\ counting[u].region = Null /\ q # Null
        BY <1>4, <3>1, RegionAssumption DEF Read
      <4>2. QED
        BY <1>6, <4>1
    <3>2. CASE u # t
      BY <3>2 DEF Read
    <3>3. QED
      BY <3>1, <3>2
  <2>3. Counted(q)' <=> Counted(q)
    BY <2>2 DEF Counted
  <2>4. QED
    BY <2>1, <2>2, <2>3 DEF Exact
<1>7. ASSUME r \notin raced'
      PROVE  Exact(r)'
  <2>1. ~Counted(r) /\ n = c /\ UNCHANGED <<refs, held>> /\ (held[r] <=> n > 0)
    BY <1>1, <1>2, <1>7 DEF Read, Exact
  <2>2. ASSUME NEW u \in Threads
        PROVE  counting'[u].region = r <=> u = t
    BY <2>1 DEF Read, Counted
  <2>3. counting'[t].by = by /\ counting'[t].seen = n
    BY <1>1 DEF Read
  <2>4. Counted(r)'
    BY <2>2 DEF Counted
  <2>5. ASSUME NEW u \in Threads, counting'[u].region = r
        PROVE  /\ counting'[u].seen = n
               /\ counting'[u].by = "clone" => n + 1 = d
               /\ counting'[u].by = "drop" => n = d + 1
    <3>1. counting'[u].by = by /\ counting'[u].seen = n
      BY <2>2, <2>3, <2>5
    <3>2. QED
      BY <1>2, <2>1, <3>1
  <2>6. QED
    BY <1>1, <2>1, <2>2, <2>4, <2>5 DEF Exact
<1>8. QED
  BY <1>5, <1>6, <1>7

\* What a thread writes to the count it has read
LEMMA WriteIs ==
  ASSUME TypeOK, CountsFine, NEW t \in Threads, WriteCount(t)
  PROVE  \E r \in Regions, n \in Nat :
           /\ counting[t].region = r /\ counting[t].seen >= 1 /\ counting[t].seen \in Nat
           /\ n = IF counting[t].by = "clone" THEN counting[t].seen + 1 ELSE counting[t].seen - 1
           /\ refs' \in [Regions -> Nat] /\ held' \in [Regions -> BOOLEAN]
           /\ refs'[r] = n /\ (held'[r] <=> held[r] /\ n # 0)
           /\ \A q \in Regions : q # r => refs'[q] = refs[q] /\ held'[q] = held[q]
           /\ counting' \in [Threads -> Counts] /\ counting'[t] = NoCount
           /\ \A u \in Threads : u # t => counting'[u] = counting[u]
<1>1. PICK r : r = counting[t].region
  OBVIOUS
<1>2. r \in Regions /\ counting[t].seen \in Nat /\ counting[t].by \in {"clone", "drop"}
  BY <1>1 DEF WriteCount, TypeOK, Counts
<1>3. counting[t].seen >= 1
  BY <1>1, <1>2 DEF CountsFine, Reading
<1>4. PICK n : n = IF counting[t].by = "clone" THEN counting[t].seen + 1 ELSE counting[t].seen - 1
  OBVIOUS
<1>5. n \in Nat
  BY <1>2, <1>3, <1>4
<1>6. /\ refs' = [refs EXCEPT ![r] = n] /\ held' = [held EXCEPT ![r] = held[r] /\ n # 0]
      /\ counting' = [counting EXCEPT ![t] = NoCount]
  BY <1>1, <1>4 DEF WriteCount
<1>7. /\ refs \in [Regions -> Nat] /\ held \in [Regions -> BOOLEAN]
      /\ counting \in [Threads -> Counts] /\ NoCount \in Counts
  BY DEF TypeOK, NoCount, Counts
<1>8. /\ refs' \in [Regions -> Nat] /\ refs'[r] = n
      /\ \A q \in Regions : q # r => refs'[q] = refs[q]
  BY <1>2, <1>5, <1>6, <1>7
<1>9. PICK h \in BOOLEAN : h <=> held[r] /\ n # 0
  OBVIOUS
<1>10. /\ held' \in [Regions -> BOOLEAN] /\ (held'[r] <=> held[r] /\ n # 0)
       /\ \A q \in Regions : q # r => held'[q] = held[q]
  <2>1. held' = [held EXCEPT ![r] = (held[r] /\ n # 0)]
    BY <1>6
  <2>2. (held[r] /\ n # 0) \in BOOLEAN
    OBVIOUS
  <2>3. QED
    BY <1>2, <1>7, <2>1, <2>2
<1>11. /\ counting' \in [Threads -> Counts] /\ counting'[t] = NoCount
       /\ \A u \in Threads : u # t => counting'[u] = counting[u]
  BY <1>6, <1>7
<1>12. QED
  BY <1>1, <1>2, <1>3, <1>4, <1>5, <1>8, <1>10, <1>11

LEMMA WriteKeeps ==
  ASSUME TypeOK, CountsFine, NEW t \in Threads, WriteCount(t)
  PROVE  CountsFine'
<1>1. PICK r \in Regions, n \in Nat :
        /\ counting[t].region = r /\ counting[t].seen >= 1 /\ counting[t].seen \in Nat
        /\ n = IF counting[t].by = "clone" THEN counting[t].seen + 1 ELSE counting[t].seen - 1
        /\ refs'[r] = n /\ (held'[r] <=> held[r] /\ n # 0)
        /\ \A q \in Regions : q # r => refs'[q] = refs[q] /\ held'[q] = held[q]
        /\ counting'[t] = NoCount
        /\ \A u \in Threads : u # t => counting'[u] = counting[u]
  BY WriteIs
<1>2. UNCHANGED <<node, copies, raced>>
  BY DEF WriteCount
<1>3. NoCount.region = Null /\ Null \notin Regions
  BY RegionAssumption DEF NoCount
<1>4. ASSUME NEW u \in Threads, NEW q \in Regions
      PROVE  Reading(u, q)'
  <2>1. CASE u = t
    BY <1>1, <1>3, <2>1 DEF Reading
  <2>2. CASE u # t
    BY <1>1, <1>2, <2>2 DEF Reading, CountsFine
  <2>3. QED
    BY <2>1, <2>2
<1>5. ASSUME NEW q \in Regions \ raced', q # r
      PROVE  Exact(q)'
  <2>1. Exact(q) /\ refs'[q] = refs[q] /\ held'[q] = held[q] /\ copies'[q] = copies[q]
    BY <1>1, <1>2, <1>5 DEF CountsFine
  <2>2. ASSUME NEW u \in Threads
        PROVE  /\ counting'[u].region = q <=> counting[u].region = q
               /\ counting[u].region = q => counting'[u] = counting[u]
    BY <1>1, <1>3, <1>5
  <2>3. Counted(q)' <=> Counted(q)
    BY <2>2 DEF Counted
  <2>4. QED
    BY <2>1, <2>2, <2>3 DEF Exact
<1>6. ASSUME r \notin raced'
      PROVE  Exact(r)'
  <2>1. PICK c, m, s : c = copies[r] /\ m = refs[r] /\ s = counting[t].seen
    OBVIOUS
  <2>2. /\ c \in Nat /\ m \in Nat /\ s \in Nat /\ s >= 1 /\ s = m /\ Exact(r) /\ held[r]
        /\ counting[t].by = "clone" => n = c
        /\ counting[t].by = "drop" => n = c
    <3>1. Exact(r) /\ c \in Nat /\ m \in Nat
      BY <1>2, <1>6, <2>1, RegionAssumption DEF TypeOK, CountsFine
    <3>2. /\ s = m /\ s >= 1 /\ s \in Nat
          /\ counting[t].by = "clone" => m + 1 = c
          /\ counting[t].by = "drop" => m = c + 1
      BY <1>1, <2>1, <3>1 DEF Exact
    <3>3. held[r]
      <4>1. m > 0
        BY <3>2
      <4>2. QED
        BY <2>1, <3>1, <4>1 DEF Exact
    <3>4. counting[t].by = "clone" => n = s + 1
      BY <1>1, <2>1
    <3>5. counting[t].by = "drop" => n = s - 1
      BY <1>1, <2>1
    <3>6. (counting[t].by = "clone" => n = c) /\ (counting[t].by = "drop" => n = c)
      BY <3>1, <3>2, <3>4, <3>5
    <3>7. QED
      BY <3>1, <3>2, <3>3, <3>6
  <2>3. n = c
    <3>1. counting[t].by \in {"clone", "drop"}
      BY DEF TypeOK, Counts
    <3>2. QED
      BY <2>2, <3>1
  <2>4. ASSUME NEW u \in Threads
        PROVE  counting'[u].region # r
    <3>1. CASE u = t
      BY <1>1, <1>3, <3>1
    <3>2. CASE u # t
      BY <1>1, <2>2, <3>2 DEF Exact
    <3>3. QED
      BY <3>1, <3>2
  <2>5. ~Counted(r)'
    BY <2>4 DEF Counted
  <2>6. /\ refs'[r] = n /\ copies'[r] = n
        /\ held'[r] <=> n > 0
    BY <1>1, <1>2, <2>1, <2>2, <2>3
  <2>7. QED
    BY <2>4, <2>5, <2>6 DEF Exact
<1>7. NodesHaveObjects'
  BY <1>2 DEF CountsFine, NodesHaveObjects
<1>8. QED
  BY <1>2, <1>4, <1>5, <1>6, <1>7 DEF CountsFine

LEMMA TypedStep == Typed /\ CountsFine /\ [Next]_vars => Typed'
<1> SUFFICES ASSUME TypeOK, WorkOK, CountsFine, [Next]_vars
             PROVE  TypeOK' /\ WorkOK'
  BY DEF Typed
<1>1. ASSUME NEW d \in Devices, DefineReg(d)
      PROVE  TypeOK' /\ WorkOK'
  BY <1>1, WorkKept DEF TypeOK, DefineReg, links, objects
<1>2. ASSUME NEW t \in Threads, NEW r \in Regions, CreateRegion(t, r)
      PROVE  TypeOK' /\ WorkOK'
  <2> USE <1>2 DEF CreateRegion
  <2>1. /\ node' \in [Regions -> BOOLEAN] /\ copies' \in [Regions -> 0..(MaxClones + 1)]
        /\ refs' \in [Regions -> Nat] /\ held' \in [Regions -> BOOLEAN]
        /\ counting' = counting /\ raced' \subseteq Regions
        /\ node'[r] /\ \A q \in Regions : node[q] => node'[q]
    BY RegionAssumption DEF TypeOK, NewObject
  <2>2. /\ head' \in Regions \cup {Null}
        /\ prev' \in [Regions -> Regions \cup {Null}] /\ next' \in [Regions -> Regions \cup {Null}]
    <3>1. PushRegion(r) \/ UNCHANGED links
      OBVIOUS
    <3> HIDE <1>2 DEF CreateRegion
    <3>2. CASE PushRegion(r)
      BY <3>2 DEF TypeOK, PushRegion
    <3>3. CASE UNCHANGED links
      BY <3>3 DEF TypeOK, links
    <3>4. QED
      BY <3>1, <3>2, <3>3
  <2>3. Moved(t, "create", r, Null, FALSE, Memory) \/ UNCHANGED work
    BY CreateMoves
  <2>4. WorkOK'
    <3>1. CASE Moved(t, "create", r, Null, FALSE, Memory)
      <4> HIDE <1>2 DEF CreateRegion
      <4>1. QED
        BY <2>1, <3>1, WorkMoved
    <3>2. CASE UNCHANGED work
      <4> HIDE <1>2 DEF CreateRegion
      <4>1. \A u \in Threads : Does(u, {"create", "attach", "io"}) =>
              (node[work[u].region] => node'[work[u].region])
        BY <2>1 DEF WorkOK
      <4>2. QED
        BY <3>2, <4>1, WorkKept
    <3>3. QED
      BY <2>3, <3>1, <3>2
  <2>5. work' \in [Threads -> Doing]
    BY <2>3 DEF Moved, TypeOK
  <2>6. QED
    BY <2>1, <2>2, <2>4, <2>5 DEF TypeOK
<1>3. ASSUME NEW t \in Threads, CreateReturns(t)
      PROVE  TypeOK' /\ WorkOK'
  <2> USE <1>3 DEF CreateReturns
  <2>1. Moved(t, "idle", Null, Null, FALSE, Memory)
    BY SetsIdle
  <2>2. WorkOK'
    BY <2>1, WorkMoved DEF objects
  <2>3. connects' \in [Regions -> Nat]
    <3>1. work[t].region \in Regions /\ connects \in [Regions -> Nat]
      BY DEF TypeOK, WorkOK, Does
    <3>2. CASE connects' = connects
      BY <3>1, <3>2
    <3>3. CASE connects' = [connects EXCEPT ![work[t].region] = @ + 1]
      BY <3>1, <3>3
    <3>4. QED
      BY <3>2, <3>3
  <2>4. QED
    BY <2>1, <2>2, <2>3 DEF TypeOK, Moved, links, objects
<1>4. ASSUME NEW t \in Threads, NEW h \in Handlers, Register(t, h)
      PROVE  TypeOK' /\ WorkOK'
  <2>1. Moved(t, "walk", head, Null, FALSE, SpaceOf[h])
    BY <1>4, RegisterMoves
  <2>2. WorkOK'
    <3>1. UNCHANGED node
      BY <1>4 DEF Register, objects
    <3>2. PICK sp : sp = SpaceOf[h]
      OBVIOUS
    <3>3. Moved(t, "walk", head, Null, FALSE, sp)
      BY <2>1, <3>2
    <3>4. QED
      BY <3>1, <3>3, WorkMoved
  <2>3. handlers' \in Seq(Handlers) /\ IsInjective(handlers')
    <3>1. handlers' = <<h>> \o handlers /\ \A i \in 1..Len(handlers) : handlers[i] # h
      BY <1>4 DEF Register, ToSet, TypeOK
    <3>2. /\ handlers' \in Seq(Handlers) /\ Len(handlers') = Len(handlers) + 1
          /\ handlers'[1] = h /\ \A i \in 2..Len(handlers') : handlers'[i] = handlers[i - 1]
      BY <3>1 DEF TypeOK
    <3>3. ASSUME NEW i \in 1..Len(handlers'), NEW j \in 1..Len(handlers'),
                 handlers'[i] = handlers'[j]
          PROVE  i = j
      <4>1. Len(handlers) \in Nat
        BY DEF TypeOK
      <4>2. CASE i = 1 \/ j = 1
        <5>1. ASSUME NEW k \in 1..Len(handlers'), k # 1
              PROVE  handlers'[k] # h
          <6>1. k \in 2..Len(handlers') /\ k - 1 \in 1..Len(handlers)
            BY <3>2, <4>1, <5>1
          <6>2. QED
            BY <3>1, <3>2, <6>1
        <5>2. QED
          BY <3>2, <3>3, <4>2, <5>1
      <4>3. CASE i # 1 /\ j # 1
        <5>1. i - 1 \in 1..Len(handlers) /\ j - 1 \in 1..Len(handlers)
              /\ handlers[i - 1] = handlers[j - 1]
          BY <3>2, <3>3, <4>1, <4>3
        <5>2. DOMAIN handlers = 1..Len(handlers)
          BY DEF TypeOK
        <5>3. i - 1 = j - 1
          BY <5>1, <5>2 DEF TypeOK, IsInjective
        <5>4. QED
          BY <5>3
      <4>4. QED
        BY <4>2, <4>3
    <3>4. DOMAIN handlers' = 1..Len(handlers')
      BY <3>2
    <3>5. QED
      BY <3>2, <3>3, <3>4 DEF IsInjective
  <2>4. QED
    BY <1>4, <2>1, <2>2, <2>3 DEF TypeOK, Moved, Register, links, objects
<1>5. ASSUME NEW h \in Handlers, Deregister(h)
      PROVE  TypeOK' /\ WorkOK'
  <2>1. PICK p \in 1..Len(handlers) : handlers[p] = h /\ handlers' = RemoveAt(handlers, p)
    BY <1>5 DEF Deregister
  <2>2. handlers \in Seq(Handlers) /\ DOMAIN handlers = 1..Len(handlers) /\ Len(handlers) \in Nat
    BY DEF TypeOK
  <2>3. /\ handlers' \in Seq(Handlers) /\ Len(handlers') = Len(handlers) - 1
        /\ \A i \in 1..Len(handlers') : handlers'[i] = handlers[IF i < p THEN i ELSE i + 1]
    <3>1. PICK s, w : s = handlers /\ w = handlers'
      OBVIOUS
    <3>2. s \in Seq(Handlers) /\ p \in 1..Len(s) /\ w = RemoveAt(s, p)
      BY <2>1, <2>2, <3>1
    <3>3. /\ w \in Seq(Handlers) /\ Len(w) = Len(s) - 1
          /\ \A i \in 1..Len(w) : w[i] = s[IF i < p THEN i ELSE i + 1]
      BY <3>2, Removed
    <3>4. QED
      BY <3>1, <3>3
  <2>4. ASSUME NEW i \in 1..Len(handlers'), NEW j \in 1..Len(handlers'),
               handlers'[i] = handlers'[j]
        PROVE  i = j
    <3> DEFINE was(k) == IF k < p THEN k ELSE k + 1
    <3>1. was(i) \in 1..Len(handlers) /\ was(j) \in 1..Len(handlers)
      BY <2>2, <2>3
    <3>2. handlers[was(i)] = handlers[was(j)]
      BY <2>3, <2>4
    <3> HIDE DEF was
    <3>3. was(i) = was(j)
      BY <2>2, <3>1, <3>2 DEF TypeOK, IsInjective
    <3>4. QED
      BY <3>3 DEF was
  <2>5. DOMAIN handlers' = 1..Len(handlers')
    BY <2>3
  <2>6. IsInjective(handlers')
    BY <2>4, <2>5 DEF IsInjective
  <2>7. QED
    BY <1>5, <2>3, <2>6, WorkKept DEF TypeOK, Deregister, links, objects
<1>6. ASSUME NEW t \in Threads, InitNamespace(t)
      PROVE  TypeOK' /\ WorkOK'
  <2>1. Moved(t, "walk", head, Null, TRUE, Memory)
    BY <1>6, InitMoves
  <2>2. WorkOK'
    BY <1>6, <2>1, WorkMoved DEF InitNamespace, objects
  <2>3. QED
    BY <1>6, <2>1, <2>2 DEF TypeOK, Moved, InitNamespace, links, objects
<1>7. ASSUME NEW t \in Threads, WalkSkip(t)
      PROVE  TypeOK' /\ WorkOK'
  <2>1. next[work[t].region] \in Regions \cup {Null}
    BY <1>7, WorkType DEF WalkSkip, TypeOK
  <2>2. Moved(t, "walk", next[work[t].region], work[t].handler, work[t].all, work[t].space)
    BY <1>7, <2>1, StepToMoves DEF WalkSkip
  <2>3. WorkOK'
    BY <1>7, <2>2, WorkMoved DEF WalkSkip, objects
  <2>4. QED
    BY <1>7, <2>2, <2>3 DEF TypeOK, Moved, WalkSkip, links, objects
<1>8. ASSUME NEW t \in Threads, WalkReg(t)
      PROVE  TypeOK' /\ WorkOK'
  <2>1. work[t].region \in Regions
    BY <1>8, WorkType DEF WalkReg
  <2>2. Moved(t, "reg", work[t].region, work[t].handler, work[t].all, work[t].space)
    BY <1>8, <2>1, StepToMoves DEF WalkReg
  <2>3. WorkOK'
    BY <1>8, <2>1, <2>2, WorkMoved DEF WalkReg, objects
  <2>4. QED
    BY <1>8, <2>2, <2>3 DEF TypeOK, Moved, WalkReg, links, objects
<1>9. ASSUME NEW t \in Threads, WalkReturns(t)
      PROVE  TypeOK' /\ WorkOK'
  <2> DEFINE r == work[t].region
  <2>1. r \in Regions /\ next[r] \in Regions \cup {Null} /\ prev[r] \in Regions \cup {Null}
    BY <1>9 DEF WalkReturns, TypeOK, WorkOK
  <2>2. StepTo(t, next[r], "walk")
    BY <1>9 DEF WalkReturns
  <2>3. Moved(t, "walk", next[r], work[t].handler, work[t].all, work[t].space)
    BY <2>1, <2>2, StepToMoves
  <2>4. WorkOK'
    BY <1>9, <2>3, WorkMoved DEF WalkReturns, objects
  <2> HIDE DEF r
  <2>5. \/ UNCHANGED <<connects, links>>
        \/ connects' = [connects EXCEPT ![r] = @ + 1] /\ Unlink(r)
    BY <1>9 DEF WalkReturns, r
  <2>6. /\ connects' \in [Regions -> Nat] /\ head' \in Regions \cup {Null}
        /\ prev' \in [Regions -> Regions \cup {Null}] /\ next' \in [Regions -> Regions \cup {Null}]
    <3>1. CASE UNCHANGED <<connects, links>>
      BY <3>1 DEF TypeOK, links
    <3>2. CASE connects' = [connects EXCEPT ![r] = @ + 1] /\ Unlink(r)
      <4>1. connects' \in [Regions -> Nat]
        BY <2>1, <3>2 DEF TypeOK
      <4>2. head' \in Regions \cup {Null}
        BY <2>1, <3>2 DEF TypeOK, Unlink
      <4>3. prev' \in [Regions -> Regions \cup {Null}] /\ next' \in [Regions -> Regions \cup {Null}]
        BY <2>1, <3>2 DEF TypeOK, Unlink
      <4>4. QED
        BY <4>1, <4>2, <4>3
    <3>3. QED
      BY <2>5, <3>1, <3>2
  <2>7. QED
    BY <1>9, <2>3, <2>4, <2>6 DEF TypeOK, Moved, WalkReturns, objects
<1>10. ASSUME NEW t \in Threads, WalkEnds(t)
       PROVE  TypeOK' /\ WorkOK'
  <2>1. Moved(t, "idle", Null, Null, FALSE, Memory)
    BY <1>10, SetsIdle DEF WalkEnds
  <2>2. WorkOK'
    BY <1>10, <2>1, WorkMoved DEF WalkEnds, objects
  <2>3. QED
    BY <1>10, <2>1, <2>2 DEF TypeOK, Moved, WalkEnds, links, objects
<1>11. ASSUME NEW t \in Threads, NEW r \in Regions, Access(t, r)
       PROVE  TypeOK' /\ WorkOK'
  <2> DEFINE pc == IF attached[r] THEN "io" ELSE "attach"
  <2>1. Moved(t, pc, r, HandlerFor(SpaceOf[r]), FALSE, Memory)
    BY <1>11, AccessMoves
  <2>2. HandlerFor(SpaceOf[r]) \in Handlers
    BY <1>11, HandlerForProperties DEF Access, TypeOK
  <2>3. node[r] /\ UNCHANGED objects /\ pc # "reg"
    BY <1>11 DEF Access
  <2> HIDE DEF pc
  <2>4. WorkOK'
    BY <2>1, <2>2, <2>3, WorkMoved DEF objects
  <2>5. QED
    BY <1>11, <2>1, <2>4 DEF TypeOK, Moved, Access, links, objects
<1>12. ASSUME NEW t \in Threads, NEW ok \in BOOLEAN, AttachReturns(t, ok)
       PROVE  TypeOK' /\ WorkOK'
  <2>1. IF ok THEN Moved(t, "io", work[t].region, work[t].handler, work[t].all, work[t].space)
              ELSE Moved(t, "idle", Null, Null, FALSE, Memory)
    BY <1>12, AttachMoves
  <2>2. work[t].region \in Regions /\ node[work[t].region] /\ work[t].handler \in Handlers
    BY <1>12 DEF AttachReturns, WorkOK, Does
  <2>3. WorkOK'
    BY <1>12, <2>1, <2>2, WorkMoved DEF AttachReturns, objects
  <2>4. attached' \in [Regions -> BOOLEAN] /\ owners' \in [Regions -> SUBSET Handlers]
    BY <1>12, <2>2 DEF AttachReturns, TypeOK
  <2>5. QED
    BY <1>12, <2>1, <2>3, <2>4 DEF TypeOK, Moved, AttachReturns, links, objects
<1>13. ASSUME NEW t \in Threads, IoReturns(t)
       PROVE  TypeOK' /\ WorkOK'
  <2>1. Moved(t, "idle", Null, Null, FALSE, Memory)
    BY <1>13, SetsIdle DEF IoReturns
  <2>2. WorkOK'
    BY <1>13, <2>1, WorkMoved DEF IoReturns, objects
  <2>3. QED
    BY <1>13, <2>1, <2>2 DEF TypeOK, Moved, IoReturns, links, objects
<1>14. ASSUME NEW t \in Threads, NEW r \in Regions, Clone(t, r)
       PROVE  TypeOK' /\ WorkOK'
  <2>1. Read(t, r, "clone")
    BY <1>14, ReadIs DEF Clone
  <2>2. UNCHANGED <<handlers, links, node, refs, held, attached, hasReg, inited, work, connects, owners>>
    BY <1>14 DEF Clone
  <2>3. QED
    BY <2>1, <2>2, WorkKept DEF TypeOK, Read, links
<1>15. ASSUME NEW t \in Threads, NEW r \in Regions, DropClone(t, r)
       PROVE  TypeOK' /\ WorkOK'
  <2>1. Read(t, r, "drop")
    <3>1. copies[r] >= 1
      BY <1>15, RegionAssumption DEF DropClone, TypeOK
    <3>2. QED
      BY <1>15, <3>1, ReadIs DEF DropClone
  <2>2. UNCHANGED <<handlers, links, node, refs, held, attached, hasReg, inited, work, connects, owners>>
    BY <1>15 DEF DropClone
  <2>3. QED
    BY <2>1, <2>2, WorkKept DEF TypeOK, Read, links
<1>16. ASSUME NEW t \in Threads, NEW r \in Regions, MethodEnds(t, r)
       PROVE  TypeOK' /\ WorkOK'
  <2>1. /\ node' \in [Regions -> BOOLEAN] /\ attached' \in [Regions -> BOOLEAN]
        /\ connects' \in [Regions -> Nat] /\ owners' \in [Regions -> SUBSET Handlers]
    BY <1>16 DEF MethodEnds, TypeOK
  <2>2. Read(t, r, "drop")
    BY <1>16, ReadIs DEF MethodEnds, CountsFine, NodesHaveObjects
  <2>3. \A u \in Threads : node[work[u].region] => node'[work[u].region]
    BY <1>16 DEF MethodEnds, Using, TypeOK
  <2>4. WorkOK'
    BY <1>16, <2>3, WorkKept DEF MethodEnds
  <2>5. QED
    BY <1>16, <2>1, <2>2, <2>4 DEF MethodEnds, TypeOK, Read, links
<1>19. ASSUME NEW t \in Threads, WriteCount(t)
       PROVE  TypeOK' /\ WorkOK'
  <2>1. /\ refs' \in [Regions -> Nat] /\ held' \in [Regions -> BOOLEAN]
        /\ counting' \in [Threads -> Counts]
    BY <1>19, WriteIs
  <2>2. UNCHANGED <<handlers, links, node, copies, raced, attached, hasReg, inited, work, connects, owners>>
    BY <1>19 DEF WriteCount
  <2>3. QED
    BY <2>1, <2>2, WorkKept DEF TypeOK, links
<1>17. CASE UNCHANGED vars
  BY <1>17, WorkKept DEF TypeOK, vars, links, objects
<1>18. QED
  BY <1>1, <1>2, <1>3, <1>4, <1>5, <1>6, <1>7, <1>8, <1>9, <1>10, <1>11, <1>12, <1>13,
     <1>14, <1>15, <1>16, <1>17, <1>19 DEF Next, ThreadStep

LEMMA CountsStep == Typed /\ CountsFine /\ [Next]_vars => CountsFine'
<1> SUFFICES ASSUME TypeOK, WorkOK, CountsFine, [Next]_vars
             PROVE  CountsFine'
  BY DEF Typed
<1>1. CASE UNCHANGED objects
  BY <1>1 DEF objects, CountsFine, NodesHaveObjects, Reading, Exact, Counted
<1>2. ASSUME NEW t \in Threads, NEW r \in Regions, CreateRegion(t, r)
      PROVE  CountsFine'
  <2>1. NewObject(r) /\ ~Counted(r)
    BY <1>2 DEF CreateRegion, Unattached
  <2>2. /\ UNCHANGED counting /\ raced' = raced \ {r}
        /\ node'[r] /\ copies'[r] = 1 /\ refs'[r] = 1 /\ held'[r]
        /\ \A q \in Regions : q # r =>
             /\ node'[q] = node[q] /\ copies'[q] = copies[q]
             /\ refs'[q] = refs[q] /\ held'[q] = held[q]
    BY <2>1 DEF NewObject, TypeOK
  <2>3. ASSUME NEW u \in Threads
        PROVE  counting[u].region # r
    BY <2>1 DEF Counted
  <2>4. \A u \in Threads, q \in Regions : Reading(u, q)'
    BY <2>2, <2>3 DEF Reading, CountsFine
  <2>5. ASSUME NEW q \in Regions \ raced', q # r
        PROVE  Exact(q)'
    <3>1. Exact(q)
      BY <2>2, <2>5 DEF CountsFine
    <3>2. QED
      BY <2>2, <2>5, <3>1 DEF Exact, Counted
  <2>6. Exact(r)'
    BY <2>2, <2>3 DEF Exact, Counted
  <2>7. NodesHaveObjects'
    BY <2>2 DEF NodesHaveObjects, CountsFine
  <2>8. QED
    BY <2>4, <2>5, <2>6, <2>7 DEF CountsFine
<1>3. ASSUME NEW t \in Threads, NEW r \in Regions, Clone(t, r)
      PROVE  CountsFine'
  <2>1. Read(t, r, "clone") /\ UNCHANGED node /\ copies[r] >= 1
    BY <1>3, ReadIs DEF Clone
  <2>2. NodesHaveObjects'
    <3>1. PICK c : c = copies[r]
      OBVIOUS
    <3>2. c \in Nat /\ copies'[r] = c + 1 /\ \A q \in Regions : q # r => copies'[q] = copies[q]
      BY <2>1, <3>1, RegionAssumption DEF Read, TypeOK
    <3>3. ASSUME NEW q \in Regions, node'[q]
          PROVE  copies'[q] >= 1
      <4>1. CASE q = r
        BY <3>2, <4>1
      <4>2. CASE q # r
        BY <2>1, <3>2, <3>3, <4>2 DEF NodesHaveObjects, CountsFine
      <4>3. QED
        BY <4>1, <4>2
    <3>4. QED
      BY <3>3 DEF NodesHaveObjects
  <2>3. QED
    BY <2>1, <2>2, ReadKeeps DEF CountsFine
<1>4. ASSUME NEW t \in Threads, NEW r \in Regions, DropClone(t, r)
      PROVE  CountsFine'
  <2>1. /\ copies[r] \in Nat /\ UNCHANGED <<node, refs, held>> /\ ReadCount(t, r, "drop")
        /\ copies[r] > (IF Cloning(r) THEN 2 ELSE IF node[r] THEN 1 ELSE 0)
    BY <1>4, RegionAssumption DEF DropClone, TypeOK
  <2>2. copies[r] >= 1 /\ (node[r] => copies[r] >= 2) /\ (Cloning(r) => copies[r] > 2)
    BY <2>1
  <2>3. Read(t, r, "drop")
    BY <2>1, <2>2, ReadIs
  <2>4. copies'[r] = copies[r] - 1 /\ \A q \in Regions : q # r => copies'[q] = copies[q]
    BY <2>3 DEF Read
  <2>5. ASSUME NEW q \in Regions, node'[q]
        PROVE  copies'[q] >= 1
    <3>1. CASE q = r
      BY <2>1, <2>2, <2>4, <2>5, <3>1
    <3>2. CASE q # r
      BY <2>1, <2>4, <2>5, <3>2 DEF CountsFine, NodesHaveObjects
    <3>3. QED
      BY <3>1, <3>2
  <2>6. QED
    BY <2>2, <2>3, <2>5, ReadKeeps DEF CountsFine, NodesHaveObjects
<1>5. ASSUME NEW t \in Threads, NEW r \in Regions, MethodEnds(t, r)
      PROVE  CountsFine'
  <2>1. /\ copies[r] >= 1 /\ (Cloning(r) => copies[r] > 2) /\ UNCHANGED <<refs, held>>
        /\ ReadCount(t, r, "drop") /\ node' = [node EXCEPT ![r] = FALSE]
    BY <1>5 DEF MethodEnds, CountsFine, NodesHaveObjects
  <2>2. Read(t, r, "drop")
    BY <2>1, ReadIs
  <2>3. ASSUME NEW q \in Regions, node'[q]
        PROVE  copies'[q] >= 1
    <3>1. q # r /\ node[q]
      BY <2>1, <2>3 DEF TypeOK
    <3>2. QED
      BY <2>2, <3>1 DEF Read, CountsFine, NodesHaveObjects
  <2>4. QED
    BY <2>1, <2>2, <2>3, ReadKeeps DEF CountsFine, NodesHaveObjects
<1>7. ASSUME NEW t \in Threads, WriteCount(t)
      PROVE  CountsFine'
  BY <1>7, WriteKeeps
<1>6. QED
  BY <1>1, <1>2, <1>3, <1>4, <1>5, <1>7 DEF Next, ThreadStep, vars, DefineReg, CreateReturns,
     Register, Deregister, InitNamespace, WalkSkip, WalkReg, WalkReturns, WalkEnds, Access,
     AttachReturns, IoReturns

\* A region is mapped as long as an object of it exists and unmapped with the last one,
\* in every order of the copies and their ends in which no two threads are at the count
\* at once, even if other counts are lost (OpRegion::clone, OpRegion::~OpRegion); and the
\* variables have their types.
THEOREM Mapped == Spec => []MappingsSound
<1>1. Init => Typed /\ CountsFine
  BY InitTyped
<1>2. Typed /\ CountsFine /\ [Next]_vars => Typed' /\ CountsFine'
  BY TypedStep, CountsStep
<1>3. Typed /\ CountsFine => MappingsSound
  BY CountsFineIsMapped DEF Typed, MappingsSound
<1>4. QED
  BY <1>1, <1>2, <1>3, PTL DEF Spec

-----------------------------------------------------------------------------
\* The only handler of its space
Alone(h) == \A g \in Handlers : SpaceOf[g] = SpaceOf[h] => g = h

\* A region is attached by a handler of its space, and while no handler takes the
\* place of another that is the one that reads and writes it.
AttachInv ==
  /\ \A i \in 1..Len(handlers) : Alone(handlers[i])
  /\ \A r \in Regions : \A h \in owners[r] : SpaceOf[h] = SpaceOf[r]
  /\ \A r \in Regions : attached[r] => owners[r] # {}
  /\ \A t \in Threads : Does(t, {"attach", "io"}) =>
       SpaceOf[work[t].handler] = SpaceOf[work[t].region] /\ Alone(work[t].handler)
  /\ AttachFirst

LEMMA AttachMoved ==
  ASSUME AttachInv, NEW t \in Threads, NEW pc, NEW r, NEW h, NEW all, NEW sp,
         Moved(t, pc, r, h, all, sp), UNCHANGED handlers,
         pc \in {"attach", "io"} => SpaceOf[h] = SpaceOf[r] /\ Alone(h),
         pc = "io" => h \in owners'[r],
         \A q \in Regions : \A g \in owners'[q] : SpaceOf[g] = SpaceOf[q],
         \A q \in Regions : attached'[q] => owners'[q] # {},
         \A u \in Threads : Does(u, {"io"}) => owners[work[u].region] \subseteq owners'[work[u].region]
  PROVE  AttachInv'
<1>1. ASSUME NEW u \in Threads, Does(u, {"attach", "io"})'
      PROVE  SpaceOf[work'[u].handler] = SpaceOf[work'[u].region] /\ Alone(work'[u].handler)
  <2>1. CASE u = t
    BY <1>1, <2>1 DEF Moved, Does
  <2>2. CASE u # t
    BY <1>1, <2>2 DEF Moved, Does, AttachInv
  <2>3. QED
    BY <2>1, <2>2
<1>2. ASSUME NEW u \in Threads, Does(u, {"io"})'
      PROVE  work'[u].handler \in owners'[work'[u].region]
  <2>1. CASE u = t
    BY <1>2, <2>1 DEF Moved, Does
  <2>2. CASE u # t
    BY <1>2, <2>2 DEF Moved, Does, AttachInv, AttachFirst
  <2>3. QED
    BY <2>1, <2>2
<1>3. \A i \in 1..Len(handlers') : Alone(handlers'[i])
  BY DEF AttachInv
<1>4. QED
  BY <1>1, <1>2, <1>3 DEF AttachInv, AttachFirst, Alone

LEMMA AttachKept ==
  ASSUME AttachInv, UNCHANGED <<handlers, attached, work, owners>>
  PROVE  AttachInv'
BY DEF AttachInv, AttachFirst, Does, Alone

LEMMA AttachStep ==
  ASSUME "replace" \notin HostMay
  PROVE  AttachInv /\ Typed /\ [Next]_vars => AttachInv'
<1> SUFFICES ASSUME AttachInv, TypeOK, WorkOK, [Next]_vars
             PROVE  AttachInv'
  BY DEF Typed
<1>1. ASSUME NEW d \in Devices, DefineReg(d)
      PROVE  AttachInv'
  BY <1>1, AttachKept DEF DefineReg
<1>2. ASSUME NEW t \in Threads, NEW r \in Regions, CreateRegion(t, r)
      PROVE  AttachInv'
  <2>1. UNCHANGED <<handlers, attached, owners>>
    BY <1>2 DEF CreateRegion
  <2>2. Moved(t, "create", r, Null, FALSE, Memory) \/ UNCHANGED work
    BY <1>2, CreateMoves DEF CreateRegion
  <2>3. CASE Moved(t, "create", r, Null, FALSE, Memory)
    BY <2>1, <2>3, AttachMoved DEF AttachInv
  <2>4. CASE UNCHANGED work
    BY <2>1, <2>4, AttachKept
  <2>5. QED
    BY <2>2, <2>3, <2>4
<1>3. ASSUME NEW t \in Threads, CreateReturns(t) \/ WalkEnds(t) \/ IoReturns(t)
      PROVE  AttachInv'
  <2>1. Moved(t, "idle", Null, Null, FALSE, Memory)
    BY <1>3, SetsIdle DEF CreateReturns, WalkEnds, IoReturns
  <2>2. UNCHANGED <<handlers, attached, owners>>
    BY <1>3 DEF CreateReturns, WalkEnds, IoReturns
  <2>3. QED
    BY <2>1, <2>2, AttachMoved DEF AttachInv
<1>4. ASSUME NEW t \in Threads, NEW h \in Handlers, Register(t, h)
      PROVE  AttachInv'
  <2>1. Moved(t, "walk", head, Null, FALSE, SpaceOf[h]) /\ UNCHANGED <<attached, owners>>
    BY <1>4, RegisterMoves DEF Register
  <2>2. Alone(h) /\ handlers' = <<h>> \o handlers
    BY <1>4 DEF Register, Alone
  <2>3. ASSUME NEW i \in 1..Len(handlers')
        PROVE  Alone(handlers'[i])
    <3>1. /\ Len(handlers') = Len(handlers) + 1 /\ Len(handlers) \in Nat
          /\ handlers'[1] = h /\ \A j \in 2..Len(handlers') : handlers'[j] = handlers[j - 1]
      BY <2>2 DEF TypeOK
    <3>2. CASE i = 1
      BY <2>2, <3>1, <3>2
    <3>3. CASE i # 1
      <4>1. i - 1 \in 1..Len(handlers) /\ handlers'[i] = handlers[i - 1]
        BY <3>1, <3>3
      <4>2. QED
        BY <4>1 DEF AttachInv
    <3>4. QED
      BY <3>2, <3>3
  <2>4. ASSUME NEW u \in Threads, Does(u, {"attach", "io"})'
        PROVE  u # t /\ work'[u] = work[u] /\ Does(u, {"attach", "io"})
    BY <2>1, <2>4 DEF Moved, Does
  <2>5. \A u \in Threads : Does(u, {"attach", "io"})' =>
          SpaceOf[work'[u].handler] = SpaceOf[work'[u].region] /\ Alone(work'[u].handler)
    BY <2>4 DEF AttachInv
  <2>6. AttachFirst'
    BY <2>1, <2>4 DEF AttachInv, AttachFirst, Does
  <2>7. QED
    BY <2>1, <2>3, <2>5, <2>6 DEF AttachInv, Alone
<1>5. ASSUME NEW h \in Handlers, Deregister(h)
      PROVE  AttachInv'
  <2>1. UNCHANGED <<attached, work, owners>>
    BY <1>5 DEF Deregister
  <2>2. PICK p \in 1..Len(handlers) : handlers' = RemoveAt(handlers, p)
    BY <1>5 DEF Deregister
  <2>3. /\ Len(handlers') = Len(handlers) - 1 /\ Len(handlers) \in Nat
        /\ \A i \in 1..Len(handlers') : handlers'[i] = handlers[IF i < p THEN i ELSE i + 1]
    BY <2>2, Removed DEF TypeOK
  <2>4. ASSUME NEW i \in 1..Len(handlers')
        PROVE  Alone(handlers'[i])
    BY <2>3 DEF AttachInv
  <2>5. QED
    BY <2>1, <2>4 DEF AttachInv, AttachFirst, Does, Alone
<1>6. ASSUME NEW t \in Threads, InitNamespace(t)
      PROVE  AttachInv'
  <2>1. Moved(t, "walk", head, Null, TRUE, Memory) /\ UNCHANGED <<handlers, attached, owners>>
    BY <1>6, InitMoves DEF InitNamespace
  <2>2. QED
    BY <2>1, AttachMoved DEF AttachInv
<1>7. ASSUME NEW t \in Threads, WalkSkip(t) \/ WalkReg(t) \/ WalkReturns(t)
      PROVE  AttachInv'
  <2>1. PICK r \in Regions \cup {Null}, pc \in {"walk", "reg"} : StepTo(t, r, pc)
    <3>1. work[t].region \in Regions
      BY <1>7, WorkType DEF WalkSkip, WalkReg, WalkReturns, WorkOK
    <3>2. next[work[t].region] \in Regions \cup {Null}
      BY <3>1 DEF TypeOK
    <3>3. QED
      BY <1>7, <3>1, <3>2 DEF WalkSkip, WalkReg, WalkReturns
  <2>2. Moved(t, pc, r, work[t].handler, work[t].all, work[t].space)
    BY <2>1, StepToMoves
  <2>3. UNCHANGED <<handlers, attached, owners>>
    BY <1>7 DEF WalkSkip, WalkReg, WalkReturns
  <2>4. QED
    BY <2>2, <2>3, AttachMoved DEF AttachInv
<1>8. ASSUME NEW t \in Threads, NEW r \in Regions, Access(t, r)
      PROVE  AttachInv'
  <2> DEFINE pc == IF attached[r] THEN "io" ELSE "attach"
             h == HandlerFor(SpaceOf[r])
  <2>1. Moved(t, pc, r, h, FALSE, Memory) /\ UNCHANGED <<handlers, attached, owners>>
    BY <1>8, AccessMoves DEF Access
  <2>2. SpaceOf[h] = SpaceOf[r] /\ Alone(h)
    <3>1. h # Null
      BY <1>8 DEF Access
    <3>2. SpaceOf[h] = SpaceOf[r] /\ \E i \in 1..Len(handlers) : handlers[i] = h
      BY <3>1, HandlerForProperties DEF TypeOK
    <3>3. QED
      BY <3>2 DEF AttachInv
  <2>3. ASSUME pc = "io"
        PROVE  h \in owners[r]
    <3>1. attached[r]
      BY <2>3
    <3>2. PICK g \in owners[r] : SpaceOf[g] = SpaceOf[r]
      BY <3>1 DEF AttachInv
    <3>3. g \in Handlers
      BY <3>2 DEF TypeOK
    <3>4. QED
      BY <2>2, <3>2, <3>3 DEF Alone
  <2> HIDE DEF pc, h
  <2>4. QED
    BY <2>1, <2>2, <2>3, AttachMoved DEF AttachInv
<1>9. ASSUME NEW t \in Threads, NEW ok \in BOOLEAN, AttachReturns(t, ok)
      PROVE  AttachInv'
  <2> DEFINE r == work[t].region
             h == work[t].handler
  <2>1. /\ r \in Regions /\ h \in Handlers /\ SpaceOf[h] = SpaceOf[r] /\ Alone(h)
        /\ UNCHANGED handlers
    BY <1>9 DEF AttachReturns, WorkOK, AttachInv, Does
  <2>2. CASE ok
    <3>1. Moved(t, "io", r, h, work[t].all, work[t].space)
      BY <1>9, <2>2, AttachMoves
    <3>2. attached' = [attached EXCEPT ![r] = TRUE] /\ owners' = [owners EXCEPT ![r] = @ \cup {h}]
      BY <1>9, <2>2 DEF AttachReturns
    <3> HIDE DEF r, h
    <3>3. /\ \A q \in Regions : \A g \in owners'[q] : SpaceOf[g] = SpaceOf[q]
          /\ \A q \in Regions : attached'[q] => owners'[q] # {}
          /\ h \in owners'[r] /\ \A q \in Regions : owners[q] \subseteq owners'[q]
      BY <2>1, <3>2 DEF TypeOK, AttachInv
    <3>4. \A u \in Threads : Does(u, {"io"}) => work[u].region \in Regions
      BY DEF WorkOK, Does
    <3>5. QED
      BY <2>1, <3>1, <3>3, <3>4, AttachMoved
  <2>3. CASE ~ok
    <3>1. Moved(t, "idle", Null, Null, FALSE, Memory) /\ UNCHANGED <<attached, owners>>
      BY <1>9, <2>3, AttachMoves DEF AttachReturns
    <3>2. QED
      BY <2>1, <3>1, AttachMoved DEF AttachInv
  <2>4. QED
    BY <2>2, <2>3
<1>10. ASSUME NEW t \in Threads, NEW r \in Regions,
              Clone(t, r) \/ DropClone(t, r)
       PROVE  AttachInv'
  BY <1>10, AttachKept DEF Clone, DropClone
<1>14. ASSUME NEW t \in Threads, WriteCount(t)
       PROVE  AttachInv'
  BY <1>14, AttachKept DEF WriteCount
<1>11. ASSUME NEW t \in Threads, NEW r \in Regions, MethodEnds(t, r)
       PROVE  AttachInv'
  <2>1. /\ UNCHANGED <<handlers, work>> /\ attached' = [attached EXCEPT ![r] = FALSE]
        /\ owners' = [owners EXCEPT ![r] = {}] /\ \A u \in Threads : work[u].region # r
    BY <1>11 DEF MethodEnds, Using
  <2>2. AttachFirst'
    <3>1. SUFFICES ASSUME NEW u \in Threads, Does(u, {"io"})
                   PROVE  work[u].handler \in owners'[work[u].region]
      BY <2>1 DEF AttachFirst, Does
    <3>2. work[u].region \in Regions /\ work[u].handler \in owners[work[u].region]
      BY <3>1 DEF WorkOK, Does, AttachInv, AttachFirst
    <3>3. QED
      BY <2>1, <3>2 DEF TypeOK
  <2>3. /\ \A q \in Regions : \A g \in owners'[q] : SpaceOf[g] = SpaceOf[q]
        /\ \A q \in Regions : attached'[q] => owners'[q] # {}
    BY <2>1 DEF TypeOK, AttachInv
  <2>4. QED
    BY <2>1, <2>2, <2>3 DEF AttachInv, Alone, Does
<1>12. CASE UNCHANGED vars
  BY <1>12, AttachKept DEF vars
<1>13. QED
  BY <1>1, <1>2, <1>3, <1>4, <1>5, <1>6, <1>7, <1>8, <1>9, <1>10, <1>11, <1>12, <1>14
     DEF Next, ThreadStep

\* A handler reads and writes only regions that its own attach has accepted, as long
\* as the host gives a space to one handler only (OpRegion::read and write).
THEOREM Attached ==
  ASSUME "replace" \notin HostMay
  PROVE  Spec => []AttachFirst
<1>1. Init => Typed /\ CountsFine /\ AttachInv
  <2>1. Init => AttachInv
    BY DEF Init, AttachInv, AttachFirst, Does, Idle
  <2>2. QED
    BY <2>1, InitTyped
<1>2. Typed /\ CountsFine /\ AttachInv /\ [Next]_vars => (Typed /\ CountsFine /\ AttachInv)'
  BY TypedStep, CountsStep, AttachStep
<1>3. AttachInv => AttachFirst
  BY DEF AttachInv
<1>4. QED
  BY <1>1, <1>2, <1>3, PTL DEF Spec

-----------------------------------------------------------------------------
\* The i-th of a sequence of regions, Null beyond its ends
At(L, i) == IF i \in 1..Len(L) THEN L[i] ELSE Null
In(L, r) == \E i \in 1..Len(L) : L[i] = r

\* regions_to_reg holds the regions of L in their order, each once.
Linked(L) ==
  /\ L \in Seq(Regions) /\ \A i, j \in 1..Len(L) : L[i] = L[j] => i = j
  /\ head = At(L, 1)
  /\ \A i \in 1..Len(L) : next[L[i]] = At(L, i + 1) /\ prev[L[i]] = At(L, i - 1)

\* A region of a table whose _REG was not run, nor is run by its creation
Waits(r) == OfTable(r) /\ connects[r] = 0 /\ ~Creating(r)

\* The list has no other, and all but some whose _REG fails.
Contents(L) ==
  \A r \in Regions :
    /\ In(L, r) => Waits(r)
    /\ Waits(r) /\ Device[r] \notin BrokenReg => In(L, r)

\* A walk is at a region of the list or at its end.
Walkers(L) ==
  \A t \in Threads :
    /\ Does(t, {"walk"}) /\ work[t].region # Null => In(L, work[t].region)
    /\ Does(t, {"reg"}) => In(L, work[t].region)

\* A walk that would run a region's _REG
Serves(t, r) == Does(t, {"walk", "reg"}) /\ (work[t].all \/ work[t].space = SpaceOf[r])

\* After init_namespace, a listed region whose _REG could run has a walk before it,
\* or at it, that will run it.
Due(r) == HandlerFor(SpaceOf[r]) # Null /\ Device[r] \in hasReg \ BrokenReg
Served(L) ==
  inited => \A j \in 1..Len(L) : Due(L[j]) =>
    \E t \in Threads, i \in 1..j : Serves(t, L[j]) /\ work[t].region = L[i]

ListInv(L) == Linked(L) /\ Contents(L) /\ Walkers(L) /\ Served(L)

\* The threads that run the _REGs of tables: there is one at a time.
Active(t) ==
  \/ Does(t, {"walk", "reg"})
  \/ Does(t, {"create"}) /\ work[t].region \notin InMethod
Sole == \A t, u \in Threads : Active(t) /\ Active(u) => t = u

\* A region has one creation, before init_namespace when a table makes it, and no
\* _REG was run for it before.
Creations ==
  /\ \A t \in Threads : Does(t, {"create"}) =>
       connects[work[t].region] = 0 /\ (inited => work[t].region \in InMethod)
  /\ \A t, u \in Threads :
       Does(t, {"create"}) /\ Does(u, {"create"}) /\ work[t].region = work[u].region => t = u
  /\ \A r \in Regions : ~node[r] => connects[r] = 0

RegBase == Sole /\ Creations /\ ConnectedOnce
RegInv == RegBase /\ \E L : ListInv(L)

LEMMA AtProperties ==
  ASSUME NEW L \in Seq(Regions), NEW i \in Int
  PROVE  /\ At(L, i) \in Regions \cup {Null} /\ Len(L) \in Nat
         /\ At(L, i) = Null <=> i \notin 1..Len(L)
         /\ i \in 1..Len(L) => At(L, i) = L[i] /\ L[i] \in Regions
BY RegionAssumption DEF At

LEMMA FreeIsIdle ==
  ASSUME "overlap" \notin HostMay, TypeOK, Free
  PROVE  \A t \in Threads : ~Active(t)
BY DEF Free, Active, Does

LEMMA ServesIsActive ==
  ASSUME NEW t, NEW r, Serves(t, r)
  PROVE  Active(t)
BY DEF Serves, Active

\* A handler that is registered gives one to its space only; one that goes, to none.
LEMMA RegisterFor ==
  ASSUME TypeOK, NEW h \in Handlers, handlers' = <<h>> \o handlers,
         NEW s, s # SpaceOf[h], (HandlerFor(s) # Null)'
  PROVE  HandlerFor(s) # Null
<1>1. /\ handlers' \in Seq(Handlers) /\ Len(handlers') = Len(handlers) + 1
      /\ Len(handlers) \in Nat
      /\ handlers'[1] = h /\ \A i \in 2..Len(handlers') : handlers'[i] = handlers[i - 1]
  BY DEF TypeOK
<1>2. HandlerFor(s)' = FirstFor(handlers', s)
  BY DEF HandlerFor, FirstFor
<1>3. PICK i \in 1..Len(handlers') : SpaceOf[handlers'[i]] = s
  BY <1>1, <1>2, FirstForProperties
<1>4. i - 1 \in 1..Len(handlers) /\ SpaceOf[handlers[i - 1]] = s
  BY <1>1, <1>3
<1>5. QED
  BY <1>4, HandlerForProperties DEF TypeOK

LEMMA DeregisterFor ==
  ASSUME TypeOK, NEW h \in Handlers, Deregister(h), NEW s, (HandlerFor(s) # Null)'
  PROVE  HandlerFor(s) # Null
<1>1. PICK p \in 1..Len(handlers) : handlers' = RemoveAt(handlers, p)
  BY DEF Deregister
<1>2. /\ handlers' \in Seq(Handlers) /\ Len(handlers') = Len(handlers) - 1
      /\ Len(handlers) \in Nat
      /\ \A i \in 1..Len(handlers') : handlers'[i] = handlers[IF i < p THEN i ELSE i + 1]
  BY <1>1, Removed DEF TypeOK
<1>3. HandlerFor(s)' = FirstFor(handlers', s)
  BY DEF HandlerFor, FirstFor
<1>4. PICK i \in 1..Len(handlers') : SpaceOf[handlers'[i]] = s
  BY <1>2, <1>3, FirstForProperties
<1>5. PICK j \in 1..Len(handlers) : SpaceOf[handlers[j]] = s
  <2>1. (IF i < p THEN i ELSE i + 1) \in 1..Len(handlers)
    BY <1>2
  <2>2. QED
    BY <1>2, <1>4, <2>1
<1>6. QED
  BY <1>5, HandlerForProperties DEF TypeOK

-----------------------------------------------------------------------------
\* The list as it is before and after a step that leaves it
LEMMA LinksKept ==
  ASSUME NEW L, Linked(L), UNCHANGED links
  PROVE  Linked(L)'
BY DEF Linked, links

LEMMA ContentsKept ==
  ASSUME NEW L, Contents(L), \A r \in Regions : Waits(r)' <=> Waits(r)
  PROVE  Contents(L)'
BY DEF Contents

\* The walks stay where they are, and no region is due that was not.
LEMMA WalksKept ==
  ASSUME NEW L, Walkers(L), Served(L),
         \A t \in Threads : Does(t, {"walk", "reg"}) \/ Does(t, {"walk", "reg"})'
           => work'[t] = work[t],
         UNCHANGED inited, \A r \in Regions : inited /\ Due(r)' => Due(r),
         L \in Seq(Regions)
  PROVE  Walkers(L)' /\ Served(L)'
<1>1. Walkers(L)'
  <2>1. SUFFICES ASSUME NEW t \in Threads
                 PROVE  /\ Does(t, {"walk"})' /\ work'[t].region # Null => In(L, work'[t].region)
                        /\ Does(t, {"reg"})' => In(L, work'[t].region)
    BY DEF Walkers, In
  <2>2. CASE Does(t, {"walk", "reg"})'
    <3>1. work'[t] = work[t]
      BY <2>2
    <3>2. QED
      BY <3>1 DEF Walkers, Does
  <2>3. CASE ~Does(t, {"walk", "reg"})'
    BY <2>3 DEF Does
  <2>4. QED
    BY <2>2, <2>3
<1>2. Served(L)'
  <2>1. SUFFICES ASSUME inited', NEW j \in 1..Len(L), Due(L[j])'
                 PROVE  \E t \in Threads, i \in 1..j : Serves(t, L[j])' /\ work'[t].region = L[i]
    BY DEF Served
  <2>2. Due(L[j]) /\ inited
    BY <2>1
  <2>3. PICK t \in Threads, i \in 1..j : Serves(t, L[j]) /\ work[t].region = L[i]
    BY <2>2 DEF Served
  <2>4. work'[t] = work[t]
    BY <2>3 DEF Serves
  <2>5. QED
    BY <2>3, <2>4 DEF Serves, Does
<1>3. QED
  BY <1>1, <1>2

\* No handler comes, nor a _REG.
LEMMA DueKept ==
  ASSUME NEW r, UNCHANGED <<handlers, hasReg>>, Due(r)'
  PROVE  Due(r)
BY DEF Due, HandlerFor

-----------------------------------------------------------------------------
\* Sole and the first parts of Creations, when one thread moves
LEMMA ActiveMoved ==
  ASSUME Sole, NEW t \in Threads, NEW pc, NEW r, NEW h, NEW all, NEW sp,
         Moved(t, pc, r, h, all, sp),
         pc \in {"walk", "reg"} \/ (pc = "create" /\ r \notin InMethod) =>
           \A u \in Threads : Active(u) => u = t
  PROVE  Sole'
<1>1. \A u \in Threads : u # t => (Active(u)' <=> Active(u))
  BY DEF Moved, Active, Does
<1>2. Active(t)' => pc \in {"walk", "reg"} \/ (pc = "create" /\ r \notin InMethod)
  BY DEF Moved, Active, Does
<1>3. QED
  BY <1>1, <1>2 DEF Sole

LEMMA CreatesMoved ==
  ASSUME Creations, NEW t \in Threads, NEW pc, NEW r, NEW h, NEW all, NEW sp,
         Moved(t, pc, r, h, all, sp), pc # "create",
         \A u \in Threads : u # t /\ Does(u, {"create"}) =>
           connects'[work[u].region] = 0 /\ (inited' => work[u].region \in InMethod),
         \A q \in Regions : ~node'[q] => connects'[q] = 0
  PROVE  Creations'
<1>1. ASSUME NEW u \in Threads, Does(u, {"create"})'
      PROVE  u # t /\ work'[u] = work[u] /\ Does(u, {"create"})
  BY <1>1 DEF Moved, Does
<1>2. QED
  BY <1>1 DEF Creations

LEMMA BaseKept ==
  ASSUME RegBase, UNCHANGED <<node, inited, work, connects>>
  PROVE  RegBase'
BY DEF RegBase, Sole, Active, Creations, ConnectedOnce, Does

LEMMA BaseMoved ==
  ASSUME RegBase, NEW t \in Threads, NEW pc, NEW r, NEW h, NEW all, NEW sp,
         Moved(t, pc, r, h, all, sp), pc # "create", UNCHANGED <<node, connects>>,
         pc \in {"walk", "reg"} => \A u \in Threads : Active(u) => u = t,
         inited' # inited => \A u \in Threads : ~Active(u)
  PROVE  RegBase'
<1>1. Sole'
  BY ActiveMoved DEF RegBase
<1>2. ASSUME NEW u \in Threads, Does(u, {"create"})
      PROVE  connects'[work[u].region] = 0 /\ (inited' => work[u].region \in InMethod)
  BY <1>2 DEF RegBase, Creations, Active
<1>3. Creations'
  BY <1>2, CreatesMoved DEF RegBase, Creations
<1>4. QED
  BY <1>1, <1>3 DEF RegBase, ConnectedOnce

LEMMA BaseStep ==
  ASSUME "overlap" \notin HostMay
  PROVE  RegInv /\ Typed /\ [Next]_vars => RegBase'
<1> SUFFICES ASSUME RegBase, NEW L, ListInv(L), TypeOK, WorkOK, [Next]_vars
             PROVE  RegBase'
  BY DEF Typed, RegInv
<1>1. CASE UNCHANGED <<node, inited, work, connects>>
  BY <1>1, BaseKept
<1>2. ASSUME NEW t \in Threads, NEW r \in Regions, CreateRegion(t, r)
      PROVE  RegBase'
  <2>1. /\ ~node[r] /\ UNCHANGED <<connects, inited>> /\ node' = [node EXCEPT ![r] = TRUE]
        /\ Does(t, {"idle"}) /\ (r \notin InMethod => ~inited /\ Free)
    BY <1>2 DEF CreateRegion, Unattached, NewObject, Rests
  <2>2. Moved(t, "create", r, Null, FALSE, Memory) \/ UNCHANGED work
    BY <1>2, CreateMoves DEF CreateRegion
  <2>3. \A q \in Regions : ~node'[q] => ~node[q]
    BY <2>1 DEF TypeOK
  <2>4. CASE Moved(t, "create", r, Null, FALSE, Memory)
    <3>1. Sole'
      BY <2>1, <2>4, FreeIsIdle, ActiveMoved DEF RegBase
    <3>2. ASSUME NEW u \in Threads, Does(u, {"create"})'
          PROVE  \/ u = t /\ work'[u].region = r
                 \/ u # t /\ work'[u] = work[u] /\ Does(u, {"create"}) /\ work[u].region # r
      <4>1. CASE u = t
        BY <2>4, <4>1 DEF Moved
      <4>2. CASE u # t
        <5>1. work'[u] = work[u] /\ Does(u, {"create"})
          BY <2>4, <3>2, <4>2 DEF Moved, Does
        <5>2. node[work[u].region]
          BY <5>1 DEF WorkOK, Does
        <5>3. QED
          BY <2>1, <4>2, <5>1, <5>2
      <4>3. QED
        BY <4>1, <4>2
    <3>3. connects[r] = 0
      BY <2>1 DEF RegBase, Creations
    <3>4. ASSUME NEW u \in Threads, Does(u, {"create"})'
          PROVE  connects'[work'[u].region] = 0 /\ (inited' => work'[u].region \in InMethod)
      BY <2>1, <3>2, <3>3, <3>4 DEF RegBase, Creations
    <3>5. ASSUME NEW u \in Threads, NEW v \in Threads, Does(u, {"create"})', Does(v, {"create"})',
                 work'[u].region = work'[v].region
          PROVE  u = v
      BY <3>2, <3>5 DEF RegBase, Creations
    <3>6. \A q \in Regions : ~node'[q] => connects'[q] = 0
      BY <2>1, <2>3 DEF RegBase, Creations
    <3>7. QED
      BY <2>1, <3>1, <3>4, <3>5, <3>6 DEF RegBase, Creations, ConnectedOnce
  <2>5. CASE UNCHANGED work
    BY <2>1, <2>3, <2>5 DEF RegBase, Sole, Active, Creations, ConnectedOnce, Does
  <2>6. QED
    BY <2>2, <2>4, <2>5
<1>3. ASSUME NEW t \in Threads, CreateReturns(t)
      PROVE  RegBase'
  <2> DEFINE r == work[t].region
  <2>1. /\ r \in Regions /\ node[r] /\ connects[r] = 0
        /\ Does(t, {"create"}) /\ UNCHANGED <<node, inited>>
    BY <1>3 DEF CreateReturns, WorkOK, RegBase, Creations, Does, objects
  <2>2. Moved(t, "idle", Null, Null, FALSE, Memory)
    BY <1>3, SetsIdle DEF CreateReturns
  <2>3. \A q \in Regions : q # r => connects'[q] = connects[q]
    BY <1>3 DEF CreateReturns, TypeOK
  <2>4. connects'[r] \in {0, 1}
    BY <1>3, <2>1 DEF CreateReturns, TypeOK
  <2>5. \A u \in Threads : u # t /\ Does(u, {"create"}) => work[u].region # r
    BY <2>1 DEF RegBase, Creations
  <2>6. \A u \in Threads : Does(u, {"create"}) => work[u].region \in Regions
    BY DEF WorkOK, Does
  <2> HIDE DEF r
  <2>7. Sole'
    BY <2>2, ActiveMoved DEF RegBase
  <2>8. \A u \in Threads : u # t /\ Does(u, {"create"}) =>
          connects'[work[u].region] = 0 /\ (inited' => work[u].region \in InMethod)
    BY <2>1, <2>3, <2>5, <2>6 DEF RegBase, Creations
  <2>9. \A q \in Regions : ~node'[q] => connects'[q] = 0
    BY <2>1, <2>3 DEF RegBase, Creations
  <2>10. Creations'
    BY <2>2, <2>8, <2>9, CreatesMoved DEF RegBase
  <2>11. ConnectedOnce'
    BY <2>3, <2>4 DEF RegBase, ConnectedOnce
  <2>12. QED
    BY <2>7, <2>10, <2>11 DEF RegBase
<1>4. ASSUME NEW t \in Threads, NEW h \in Handlers, Register(t, h)
      PROVE  RegBase'
  <2>1. PICK sp : sp = SpaceOf[h]
    OBVIOUS
  <2>2. Moved(t, "walk", head, Null, FALSE, sp)
    BY <1>4, <2>1, RegisterMoves
  <2>3. /\ UNCHANGED <<node, connects, inited>> /\ \A u \in Threads : ~Active(u)
    BY <1>4, FreeIsIdle DEF Register, objects
  <2>4. QED
    BY <2>2, <2>3, BaseMoved
<1>5. ASSUME NEW t \in Threads, InitNamespace(t)
      PROVE  RegBase'
  <2>1. Moved(t, "walk", head, Null, TRUE, Memory)
    BY <1>5, InitMoves
  <2>2. /\ UNCHANGED <<node, connects>> /\ \A u \in Threads : ~Active(u)
    BY <1>5, FreeIsIdle DEF InitNamespace, objects
  <2>3. QED
    BY <2>1, <2>2, BaseMoved
<1>6. ASSUME NEW t \in Threads, WalkSkip(t) \/ WalkReg(t)
      PROVE  RegBase'
  <2>1. PICK r \in Regions \cup {Null}, pc \in {"walk", "reg"} : StepTo(t, r, pc)
    <3>1. work[t].region \in Regions
      BY <1>6, WorkType DEF WalkSkip, WalkReg
    <3>2. next[work[t].region] \in Regions \cup {Null}
      BY <3>1 DEF TypeOK
    <3>3. QED
      BY <1>6, <3>1, <3>2 DEF WalkSkip, WalkReg
  <2>2. Moved(t, pc, r, work[t].handler, work[t].all, work[t].space)
    BY <2>1, StepToMoves
  <2>3. /\ UNCHANGED <<node, connects, inited>> /\ Active(t)
    BY <1>6 DEF WalkSkip, WalkReg, objects, Active, Does
  <2>4. \A u \in Threads : Active(u) => u = t
    BY <2>3 DEF RegBase, Sole
  <2>5. QED
    BY <2>2, <2>3, <2>4, BaseMoved
<1>7. ASSUME NEW t \in Threads, WalkReturns(t)
      PROVE  RegBase'
  <2> DEFINE r == work[t].region
  <2>1. /\ r \in Regions /\ next[r] \in Regions \cup {Null} /\ Active(t) /\ Waits(r)
        /\ UNCHANGED <<node, inited>>
    BY <1>7 DEF WalkReturns, WorkOK, Active, Does, TypeOK, ListInv, Walkers, Contents, objects
  <2>2. Moved(t, "walk", next[r], work[t].handler, work[t].all, work[t].space)
    BY <1>7, <2>1, StepToMoves DEF WalkReturns
  <2>3. \A q \in Regions : q # r => connects'[q] = connects[q]
    BY <1>7 DEF WalkReturns, TypeOK, links
  <2>4. connects'[r] \in {0, 1} /\ node[r] /\ ~Creating(r)
    BY <1>7, <2>1 DEF WalkReturns, TypeOK, Waits, OfTable
  <2>5. \A u \in Threads : Does(u, {"create"}) => work[u].region # r /\ work[u].region \in Regions
    BY <2>4 DEF Creating, WorkOK, Does
  <2> HIDE DEF r
  <2>6. \A u \in Threads : Active(u) => u = t
    BY <2>1 DEF RegBase, Sole
  <2>7. Sole'
    BY <2>2, <2>6, ActiveMoved DEF RegBase
  <2>8. \A u \in Threads : u # t /\ Does(u, {"create"}) =>
          connects'[work[u].region] = 0 /\ (inited' => work[u].region \in InMethod)
    BY <2>1, <2>3, <2>5 DEF RegBase, Creations
  <2>9. \A q \in Regions : ~node'[q] => connects'[q] = 0
    BY <2>1, <2>3, <2>4 DEF RegBase, Creations
  <2>10. Creations'
    BY <2>2, <2>8, <2>9, CreatesMoved DEF RegBase
  <2>11. ConnectedOnce'
    BY <2>3, <2>4 DEF RegBase, ConnectedOnce
  <2>12. QED
    BY <2>7, <2>10, <2>11 DEF RegBase
<1>8. ASSUME NEW t \in Threads, WalkEnds(t) \/ IoReturns(t)
      PROVE  RegBase'
  <2>1. Moved(t, "idle", Null, Null, FALSE, Memory)
    BY <1>8, SetsIdle DEF WalkEnds, IoReturns
  <2>2. UNCHANGED <<node, connects, inited>>
    BY <1>8 DEF WalkEnds, IoReturns, objects
  <2>3. QED
    BY <2>1, <2>2, BaseMoved
<1>9. ASSUME NEW t \in Threads, NEW r \in Regions, Access(t, r)
      PROVE  RegBase'
  <2>1. PICK h : h = HandlerFor(SpaceOf[r])
    OBVIOUS
  <2>2. \/ Moved(t, "io", r, h, FALSE, Memory)
        \/ Moved(t, "attach", r, h, FALSE, Memory)
    BY <1>9, <2>1, AccessMoves
  <2>3. UNCHANGED <<node, connects, inited>>
    BY <1>9 DEF Access, objects
  <2>4. QED
    BY <2>2, <2>3, BaseMoved
<1>10. ASSUME NEW t \in Threads, NEW ok \in BOOLEAN, AttachReturns(t, ok)
       PROVE  RegBase'
  <2>1. PICK r, h, all, sp : /\ r = work[t].region /\ h = work[t].handler
                             /\ all = work[t].all /\ sp = work[t].space
    OBVIOUS
  <2>2. Moved(t, "io", r, h, all, sp) \/ Moved(t, "idle", Null, Null, FALSE, Memory)
    BY <1>10, <2>1, AttachMoves
  <2>3. UNCHANGED <<node, connects, inited>>
    BY <1>10 DEF AttachReturns, objects
  <2>4. QED
    BY <2>2, <2>3, BaseMoved
<1>11. ASSUME NEW t \in Threads, NEW r \in Regions, MethodEnds(t, r)
       PROVE  RegBase'
  <2>1. /\ UNCHANGED <<work, inited>> /\ node' = [node EXCEPT ![r] = FALSE]
        /\ connects' = [connects EXCEPT ![r] = 0]
    BY <1>11 DEF MethodEnds
  <2>2. \A u \in Threads : Does(u, {"create"}) => work[u].region \in Regions
    BY DEF WorkOK, Does
  <2>3. QED
    BY <2>1, <2>2 DEF TypeOK, RegBase, Sole, Active, Creations, ConnectedOnce, Does
<1>12. QED
  BY <1>1, <1>2, <1>3, <1>4, <1>5, <1>6, <1>7, <1>8, <1>9, <1>10, <1>11
     DEF Next, ThreadStep, vars, objects, DefineReg, Deregister, Clone, DropClone,
         WriteCount

-----------------------------------------------------------------------------
\* A region in front of a list, and a list without one of its regions
IsPush(M, r, L) ==
  /\ M \in Seq(Regions) /\ Len(M) = Len(L) + 1 /\ Len(L) \in Nat
  /\ M[1] = r
  /\ \A i \in 1..Len(L) : M[i + 1] = L[i]
  /\ \A i \in 2..Len(M) : M[i] = L[i - 1]
  /\ At(M, 1) = r /\ At(M, 0) = Null
  /\ \A i \in Nat : i > 1 => At(M, i) = At(L, i - 1)

LEMMA Pushed ==
  ASSUME NEW L \in Seq(Regions), NEW r \in Regions, NEW M, M = <<r>> \o L
  PROVE  IsPush(M, r, L)
<1>1. /\ M \in Seq(Regions) /\ Len(M) = Len(L) + 1 /\ Len(L) \in Nat
      /\ M[1] = r /\ \A i \in 2..Len(M) : M[i] = L[i - 1]
  OBVIOUS
<1>2. \A i \in 1..Len(L) : M[i + 1] = L[i]
  <2>1. SUFFICES ASSUME NEW i \in 1..Len(L)
                 PROVE  M[i + 1] = L[i]
    OBVIOUS
  <2>2. i + 1 \in 2..Len(M) /\ (i + 1) - 1 = i
    BY <1>1
  <2>3. QED
    BY <1>1, <2>2
<1>3. At(M, 1) = r /\ At(M, 0) = Null
  BY <1>1 DEF At
<1>4. ASSUME NEW i \in Nat, i > 1
      PROVE  At(M, i) = At(L, i - 1)
  BY <1>1, <1>4 DEF At
<1>5. QED
  BY <1>1, <1>2, <1>3, <1>4 DEF IsPush

LEMMA PushLinks ==
  ASSUME TypeOK, NEW L, Linked(L), NEW r \in Regions, ~In(L, r), PushRegion(r),
         NEW M, M = <<r>> \o L
  PROVE  Linked(M)'
<1>1. L \in Seq(Regions) /\ Len(L) \in Nat /\ \A i \in 1..Len(L) : L[i] \in Regions /\ L[i] # r
  BY DEF Linked, In
<1>2. /\ M \in Seq(Regions) /\ Len(M) = Len(L) + 1
      /\ M[1] = r
      /\ \A i \in 2..Len(M) : M[i] = L[i - 1]
      /\ At(M, 1) = r /\ At(M, 0) = Null
      /\ \A i \in Nat : i > 1 => At(M, i) = At(L, i - 1)
  <2>1. L \in Seq(Regions)
    BY <1>1
  <2>2. IsPush(M, r, L)
    BY <2>1, Pushed, Zenon
  <2>3. QED
    BY <2>2 DEF IsPush
<1>3. /\ next'[r] = head /\ prev'[r] = Null /\ head' = r
      /\ \A q \in Regions : q # r => next'[q] = next[q] /\ prev'[q] = IF q = head THEN r ELSE prev[q]
  BY DEF PushRegion, TypeOK
<1>4. ASSUME NEW i \in 1..Len(M), NEW j \in 1..Len(M), M[i] = M[j]
      PROVE  i = j
  <2>1. ASSUME NEW k \in 1..Len(M), k # 1
        PROVE  k - 1 \in 1..Len(L) /\ M[k] = L[k - 1] /\ M[k] # r
    BY <1>1, <1>2, <2>1
  <2>2. CASE i = 1 \/ j = 1
    BY <1>2, <1>4, <2>1, <2>2
  <2>3. CASE i # 1 /\ j # 1
    <3>1. i - 1 = j - 1
      BY <1>4, <2>1, <2>3 DEF Linked
    <3>2. QED
      BY <3>1
  <2>4. QED
    BY <2>2, <2>3
<1>5. ASSUME NEW i \in 1..Len(M)
      PROVE  next'[M[i]] = At(M, i + 1) /\ prev'[M[i]] = At(M, i - 1)
  <2>1. CASE i = 1
    <3>1. At(M, 2) = At(L, 1) /\ At(M, i - 1) = Null /\ M[i] = r
      BY <1>2, <2>1
    <3>2. QED
      BY <1>3, <2>1, <3>1 DEF Linked
  <2>2. CASE i # 1
    <3> DEFINE k == i - 1
               q == L[k]
    <3>1. k \in 1..Len(L) /\ M[i] = q /\ q \in Regions /\ q # r /\ i = k + 1
      BY <1>1, <1>2, <2>2
    <3> HIDE DEF q, k
    <3>2. next[q] = At(L, k + 1) /\ prev[q] = At(L, k - 1)
      BY <3>1 DEF Linked, q
    <3>3. At(M, i + 1) = At(L, k + 1)
      <4>1. i + 1 \in Nat /\ i + 1 > 1 /\ (i + 1) - 1 = k + 1
        BY <3>1
      <4>2. QED
        BY <1>2, <4>1
    <3>4. CASE k = 1
      <4>1. q = head /\ At(M, i - 1) = r
        BY <1>2, <3>1, <3>4 DEF Linked, At, q
      <4>2. QED
        BY <1>3, <3>1, <3>2, <3>3, <4>1
    <3>5. CASE k # 1
      <4>1. q # head
        <5>1. 1 \in 1..Len(L) /\ head = L[1]
          BY <1>1, <3>1 DEF Linked, At
        <5>2. QED
          BY <3>1, <3>5, <5>1 DEF Linked, q
      <4>2. At(M, i - 1) = At(L, k - 1)
        <5>1. i - 1 \in Nat /\ i - 1 > 1 /\ (i - 1) - 1 = k - 1
          BY <3>1, <3>5
        <5>2. QED
          BY <1>2, <5>1
      <4>3. QED
        BY <1>3, <3>1, <3>2, <3>3, <4>1, <4>2
    <3>6. QED
      BY <3>4, <3>5
  <2>3. QED
    BY <2>1, <2>2
<1>6. QED
  BY <1>2, <1>3, <1>4, <1>5 DEF Linked

LEMMA CutAt ==
  ASSUME NEW L \in Seq(Regions), NEW p \in 1..Len(L), NEW M, M = RemoveAt(L, p)
  PROVE  \A i \in Nat : At(M, i) = IF i < p THEN At(L, i) ELSE At(L, i + 1)
<1>1. /\ M \in Seq(Regions) /\ Len(M) = Len(L) - 1 /\ Len(L) \in Nat
      /\ \A i \in 1..Len(M) : M[i] = L[IF i < p THEN i ELSE i + 1]
  BY Removed
<1>2. QED
  BY <1>1 DEF At

LEMMA UnlinkLinks ==
  ASSUME TypeOK, NEW L, Linked(L), NEW p \in 1..Len(L), NEW r, r = L[p], Unlink(r),
         NEW M, M = RemoveAt(L, p)
  PROVE  Linked(M)'
<1>1. L \in Seq(Regions) /\ Len(L) \in Nat /\ \A i \in 1..Len(L) : L[i] \in Regions
  BY DEF Linked
<1>2. /\ M \in Seq(Regions) /\ Len(M) = Len(L) - 1
      /\ \A i \in 1..Len(M) : M[i] = L[IF i < p THEN i ELSE i + 1]
  BY <1>1, Removed
<1>3. \A i \in Nat : At(M, i) = IF i < p THEN At(L, i) ELSE At(L, i + 1)
  BY <1>1, CutAt
<1>4. next[r] = At(L, p + 1) /\ prev[r] = At(L, p - 1) /\ head = At(L, 1)
  BY DEF Linked
<1>5. \A q \in Regions : /\ next'[q] = IF q = At(L, p - 1) THEN At(L, p + 1) ELSE next[q]
                         /\ prev'[q] = IF q = At(L, p + 1) THEN At(L, p - 1) ELSE prev[q]
  BY <1>4 DEF Unlink, TypeOK
<1>6. head' = At(M, 1)
  <2>1. At(M, 1) = IF 1 < p THEN At(L, 1) ELSE At(L, 1 + 1)
    BY <1>3
  <2>2. At(L, p - 1) = Null <=> p = 1
    BY <1>1, AtProperties
  <2>3. head' = IF At(L, p - 1) = Null THEN At(L, p + 1) ELSE At(L, 1)
    BY <1>4 DEF Unlink
  <2>4. CASE p = 1
    BY <2>1, <2>2, <2>3, <2>4
  <2>5. CASE p # 1
    BY <2>1, <2>2, <2>3, <2>5
  <2>6. QED
    BY <2>4, <2>5
<1>7. ASSUME NEW i \in 1..Len(M), NEW j \in 1..Len(M), M[i] = M[j]
      PROVE  i = j
  <2> DEFINE was(k) == IF k < p THEN k ELSE k + 1
  <2>1. was(i) \in 1..Len(L) /\ was(j) \in 1..Len(L)
    BY <1>1, <1>2
  <2>2. L[was(i)] = L[was(j)]
    BY <1>2, <1>7
  <2> HIDE DEF was
  <2>3. was(i) = was(j)
    BY <2>1, <2>2 DEF Linked
  <2>4. QED
    BY <2>3 DEF was
<1>8. ASSUME NEW i \in 1..Len(M)
      PROVE  next'[M[i]] = At(M, i + 1) /\ prev'[M[i]] = At(M, i - 1)
  <2> DEFINE k == IF i < p THEN i ELSE i + 1
             q == L[k]
  <2>1. k \in 1..Len(L) /\ k # p /\ M[i] = q
    BY <1>1, <1>2
  <2>2. q \in Regions /\ \A j \in 1..Len(L) : q = L[j] <=> j = k
    BY <1>1, <2>1 DEF Linked
  <2>3. next[q] = At(L, k + 1) /\ prev[q] = At(L, k - 1)
    BY <2>1 DEF Linked
  <2>4. (q = At(L, p - 1) <=> k = p - 1) /\ (q = At(L, p + 1) <=> k = p + 1)
    <3>1. q # Null
      BY <2>2, RegionAssumption
    <3> HIDE DEF q, k
    <3>2. q = At(L, p - 1) <=> k = p - 1
      BY <1>1, <2>1, <2>2, <3>1 DEF At
    <3>3. q = At(L, p + 1) <=> k = p + 1
      BY <1>1, <2>1, <2>2, <3>1 DEF At
    <3>4. QED
      BY <3>2, <3>3
  <2>5. /\ next'[q] = IF k = p - 1 THEN At(L, p + 1) ELSE At(L, k + 1)
        /\ prev'[q] = IF k = p + 1 THEN At(L, p - 1) ELSE At(L, k - 1)
    BY <1>5, <2>2, <2>3, <2>4
  <2>6. /\ At(M, i + 1) = IF i + 1 < p THEN At(L, i + 1) ELSE At(L, (i + 1) + 1)
        /\ At(M, i - 1) = IF i - 1 < p THEN At(L, i - 1) ELSE At(L, (i - 1) + 1)
    <3>1. i + 1 \in Nat /\ i - 1 \in Nat
      BY <1>1, <1>2
    <3> HIDE DEF q, k
    <3>2. QED
      BY <1>3, <3>1
  <2> HIDE DEF q
  <2>7. next'[q] = At(M, i + 1)
    <3>1. CASE i + 1 < p
      BY <2>5, <2>6, <3>1
    <3>2. CASE i + 1 = p
      BY <2>5, <2>6, <3>2
    <3>3. CASE i + 1 > p
      <4>1. k = i + 1 /\ k # p - 1 /\ ~(i + 1 < p)
        BY <1>1, <1>2, <3>3
      <4>2. QED
        BY <2>5, <2>6, <4>1
    <3>4. QED
      BY <1>1, <1>2, <3>1, <3>2, <3>3
  <2>8. prev'[q] = At(M, i - 1)
    <3>1. CASE i < p
      <4>1. k = i /\ k # p + 1 /\ i - 1 < p
        BY <1>1, <1>2, <3>1
      <4>2. QED
        BY <2>5, <2>6, <4>1
    <3>2. CASE i = p
      <4>1. k = p + 1 /\ i - 1 < p /\ i - 1 = p - 1
        BY <1>1, <1>2, <3>2
      <4>2. QED
        BY <2>5, <2>6, <4>1
    <3>3. CASE i > p
      <4>1. k = i + 1 /\ k # p + 1 /\ ~(i - 1 < p) /\ k - 1 = (i - 1) + 1
        BY <1>1, <1>2, <3>3
      <4>2. QED
        BY <2>5, <2>6, <4>1
    <3>4. QED
      BY <1>1, <1>2, <3>1, <3>2, <3>3
  <2>9. QED
    BY <2>1, <2>7, <2>8
<1>9. QED
  BY <1>2, <1>6, <1>7, <1>8 DEF Linked

-----------------------------------------------------------------------------
\* The steps of threads that are in no walk, and of the host without one, keep the list.
LEMMA ListKept ==
  ASSUME NEW L, ListInv(L), UNCHANGED <<links, inited>>,
         \A r \in Regions : Waits(r)' <=> Waits(r),
         \A t \in Threads : Does(t, {"walk", "reg"}) \/ Does(t, {"walk", "reg"})'
           => work'[t] = work[t],
         \A r \in Regions : inited /\ Due(r)' => Due(r)
  PROVE  ListInv(L)'
<1>1. Linked(L)'
  BY LinksKept DEF ListInv
<1>2. Contents(L)'
  BY ContentsKept DEF ListInv
<1>3. Walkers(L)' /\ Served(L)'
  <2>1. Walkers(L) /\ Served(L) /\ L \in Seq(Regions) /\ UNCHANGED inited
    BY DEF ListInv, Linked
  <2>2. QED
    BY <2>1, WalksKept
<1>4. QED
  BY <1>1, <1>2, <1>3 DEF ListInv

\* A step that moves one thread, which is in no walk before or after it
LEMMA NotWalking ==
  ASSUME NEW t \in Threads, NEW pc, NEW r, NEW h, NEW all, NEW sp,
         Moved(t, pc, r, h, all, sp), pc \notin {"walk", "reg"}, ~Does(t, {"walk", "reg"})
  PROVE  \A u \in Threads : Does(u, {"walk", "reg"}) \/ Does(u, {"walk", "reg"})'
           => work'[u] = work[u]
BY DEF Moved, Does

\* A region's creation begins and ends with the step of its thread.
LEMMA CreatingMoved ==
  ASSUME NEW t \in Threads, NEW pc, NEW r, NEW h, NEW all, NEW sp,
         Moved(t, pc, r, h, all, sp), pc # "create", NEW q, ~(Does(t, {"create"}) /\ work[t].region = q)
  PROVE  Creating(q)' <=> Creating(q)
<1>1. ASSUME NEW u \in Threads
      PROVE  Does(u, {"create"})' /\ work'[u].region = q
               <=> Does(u, {"create"}) /\ work[u].region = q
  <2>1. CASE u = t
    BY <2>1 DEF Moved, Does
  <2>2. CASE u # t
    BY <2>2 DEF Moved, Does
  <2>3. QED
    BY <2>1, <2>2
<1>2. QED
  BY <1>1 DEF Creating

LEMMA WaitsMoved ==
  ASSUME NEW t \in Threads, NEW pc, NEW r, NEW h, NEW all, NEW sp,
         Moved(t, pc, r, h, all, sp), pc # "create", ~Does(t, {"create"}),
         UNCHANGED <<node, connects>>
  PROVE  \A q \in Regions : Waits(q)' <=> Waits(q)
<1>1. \A q \in Regions : Creating(q)' <=> Creating(q)
  BY CreatingMoved
<1>2. QED
  BY <1>1 DEF Waits, OfTable

LEMMA WaitsKept ==
  ASSUME UNCHANGED <<node, connects, work>>
  PROVE  \A q \in Regions : Waits(q)' <=> Waits(q)
BY DEF Waits, OfTable, Creating, Does

\* A thread that is not at a list's walk, nor at the creation of a region, moves.
LEMMA ListMoved ==
  ASSUME NEW L, ListInv(L), NEW t \in Threads, NEW pc, NEW r, NEW h, NEW all, NEW sp,
         Moved(t, pc, r, h, all, sp), pc \notin {"create", "walk", "reg"},
         ~Does(t, {"create", "walk", "reg"}),
         UNCHANGED <<links, inited, node, connects, handlers, hasReg>>
  PROVE  ListInv(L)'
<1>1. \A q \in Regions : Waits(q)' <=> Waits(q)
  BY WaitsMoved DEF Does
<1>2. \A u \in Threads : Does(u, {"walk", "reg"}) \/ Does(u, {"walk", "reg"})'
        => work'[u] = work[u]
  BY NotWalking DEF Does
<1>3. \A q \in Regions : Due(q)' => Due(q)
  BY DueKept
<1>4. QED
  BY <1>1, <1>2, <1>3, ListKept

\* OperationRegion keeps the list, or puts its region before the others.
LEMMA CreateList ==
  ASSUME "overlap" \notin HostMay, RegBase, TypeOK, WorkOK, NEW L, ListInv(L),
         NEW t \in Threads, NEW r \in Regions, CreateRegion(t, r)
  PROVE  \E M : ListInv(M)'
<1>1. /\ Does(t, {"idle"}) /\ ~node[r] /\ node' = [node EXCEPT ![r] = TRUE]
      /\ UNCHANGED <<handlers, hasReg, inited, connects>>
      /\ (r \notin InMethod => ~inited)
  BY DEF CreateRegion, Unattached, NewObject, Rests
<1>2. connects[r] = 0 /\ ~Creating(r) /\ ~In(L, r)
  <2>1. ~Waits(r)
    BY <1>1 DEF Waits, OfTable
  <2>2. QED
    BY <1>1, <2>1 DEF RegBase, Creations, Creating, WorkOK, Does, ListInv, Contents
<1>3. \A q \in Regions : Due(q)' => Due(q)
  BY <1>1, DueKept
<1>4. \A q \in Regions : q # r => node'[q] = node[q]
  BY <1>1 DEF TypeOK
<1>5. CASE UNCHANGED links /\ Moved(t, "create", r, Null, FALSE, Memory)
  <2>1. Creating(r)' /\ \A q \in Regions : q # r => (Creating(q)' <=> Creating(q))
    BY <1>1, <1>5 DEF Moved, Creating, Does
  <2>2. \A q \in Regions : Waits(q)' <=> Waits(q)
    BY <1>1, <1>4, <2>1 DEF Waits, OfTable
  <2>3. \A u \in Threads : Does(u, {"walk", "reg"}) \/ Does(u, {"walk", "reg"})'
          => work'[u] = work[u]
    <3>1. ~Does(t, {"walk", "reg"}) /\ "create" \notin {"walk", "reg"}
      BY <1>1 DEF Does
    <3>2. QED
      BY <1>5, <3>1, NotWalking
  <2>4. ListInv(L)'
    BY <1>1, <1>3, <1>5, <2>2, <2>3, ListKept
  <2>5. QED
    BY <2>4
<1>6. CASE UNCHANGED <<links, work>> /\ (SpaceOf[r] = Memory \/ r \in InMethod)
  <2>1. \A q \in Regions : Waits(q)' <=> Waits(q)
    BY <1>1, <1>4, <1>6 DEF Waits, OfTable, Creating, Does
  <2>2. ListInv(L)'
    BY <1>1, <1>3, <1>6, <2>1, ListKept
  <2>3. QED
    BY <2>2
<1>7. CASE PushRegion(r) /\ UNCHANGED work /\ SpaceOf[r] # Memory /\ r \notin InMethod
  <2>1. PICK M : M = <<r>> \o L
    OBVIOUS
  <2>2. Linked(L) /\ L \in Seq(Regions)
    BY DEF ListInv, Linked
  <2>3. Linked(M)'
    BY <1>2, <1>7, <2>1, <2>2, PushLinks
  <2>4. IsPush(M, r, L)
    BY <2>1, <2>2, Pushed, Zenon
  <2>5. ASSUME NEW q \in Regions
        PROVE  In(M, q) <=> q = r \/ In(L, q)
    <3>1. ASSUME NEW i \in 1..Len(M), M[i] = q, q # r
          PROVE  In(L, q)
      <4>1. i - 1 \in 1..Len(L) /\ L[i - 1] = q
        BY <2>4, <3>1 DEF IsPush
      <4>2. QED
        BY <4>1 DEF In
    <3>2. ASSUME NEW i \in 1..Len(L), L[i] = q
          PROVE  In(M, q)
      <4>1. i + 1 \in 1..Len(M) /\ M[i + 1] = q
        BY <2>4, <3>2 DEF IsPush
      <4>2. QED
        BY <4>1 DEF In
    <3>3. 1 \in 1..Len(M) /\ M[1] = r
      BY <2>4 DEF IsPush
    <3>4. QED
      BY <3>1, <3>2, <3>3 DEF In
  <2>6. \A q \in Regions : q # r => (Waits(q)' <=> Waits(q))
    BY <1>1, <1>4, <1>7 DEF Waits, OfTable, Creating, Does
  <2>7. Waits(r)'
    BY <1>1, <1>2, <1>7 DEF Waits, OfTable, Creating, Does, TypeOK
  <2>8. Contents(M)'
    <3>1. Contents(L)
      BY DEF ListInv
    <3>2. QED
      BY <2>5, <2>6, <2>7, <3>1 DEF Contents, In
  <2>9. Walkers(M)'
    <3>1. Walkers(L)
      BY DEF ListInv
    <3>2. \A q \in Regions : In(L, q) => In(M, q)
      BY <2>5
    <3>3. \A u \in Threads : Does(u, {"walk", "reg"}) => work[u].region \in Regions \cup {Null}
      BY WorkType
    <3>4. \A q : In(L, q) => q \in Regions
      BY <2>2 DEF In
    <3>5. QED
      BY <1>7, <3>1, <3>2, <3>4 DEF Walkers, In, Does
  <2>10. Served(M)'
    BY <1>1, <1>7 DEF Served
  <2>11. QED
    BY <2>3, <2>8, <2>9, <2>10 DEF ListInv
<1>8. QED
  BY <1>5, <1>6, <1>7, CreateMoves DEF CreateRegion

\* The _REG of a creation returns: its region was not listed, and is not.
LEMMA CreateReturnsList ==
  ASSUME TypeOK, WorkOK, NEW L, ListInv(L), NEW t \in Threads, CreateReturns(t)
  PROVE  ListInv(L)'
<1>0. PICK r : r = work[t].region
  OBVIOUS
<1>1. /\ r \in Regions /\ Does(t, {"create"}) /\ Creating(r)
      /\ UNCHANGED <<handlers, links, node, hasReg, inited>>
  BY <1>0 DEF CreateReturns, WorkOK, Does, Creating, objects
<1>2. Moved(t, "idle", Null, Null, FALSE, Memory)
  BY SetsIdle DEF CreateReturns
<1>3. ~In(L, r)
  BY <1>1 DEF ListInv, Contents, Waits
<1>4. Waits(r)' => Device[r] \in BrokenReg
  <2>1. ASSUME Device[r] \notin BrokenReg
        PROVE  connects'[r] # 0
    <3>1. connects' = [connects EXCEPT ![r] = @ + 1]
      BY <1>0, <2>1 DEF CreateReturns
    <3>2. connects'[r] = connects[r] + 1 /\ connects[r] \in Nat
      BY <1>1, <3>1 DEF TypeOK
    <3>3. QED
      BY <3>2
  <2>2. QED
    BY <2>1 DEF Waits
<1>5. \A q \in Regions : q # r => connects'[q] = connects[q]
  BY <1>0 DEF CreateReturns, TypeOK
<1>6. \A q \in Regions : q # r => (Creating(q)' <=> Creating(q))
  BY <1>0, <1>2, CreatingMoved
<1>7. \A q \in Regions : q # r => (Waits(q)' <=> Waits(q))
  BY <1>1, <1>5, <1>6 DEF Waits, OfTable
<1>8. Contents(L)'
  BY <1>3, <1>4, <1>7 DEF ListInv, Contents, In
<1>9. Linked(L)'
  BY <1>1, LinksKept DEF ListInv
<1>10. Walkers(L)' /\ Served(L)'
  <2>1. \A u \in Threads : Does(u, {"walk", "reg"}) \/ Does(u, {"walk", "reg"})'
          => work'[u] = work[u]
    <3>1. ~Does(t, {"walk", "reg"}) /\ "idle" \notin {"walk", "reg"}
      BY <1>1 DEF Does
    <3>2. QED
      BY <1>2, <3>1, NotWalking
  <2>2. \A q \in Regions : Due(q)' => Due(q)
    BY <1>1, DueKept
  <2>3. Walkers(L) /\ Served(L) /\ L \in Seq(Regions) /\ UNCHANGED inited
    BY <1>1 DEF ListInv, Linked
  <2>4. QED
    BY <2>1, <2>2, <2>3, WalksKept
<1>11. QED
  BY <1>8, <1>9, <1>10 DEF ListInv

-----------------------------------------------------------------------------
\* What a new walk over a list asks for is all that is due.
AsksAll(L, all, sp) ==
  \A r \in Regions : In(L, r) /\ inited' /\ Due(r)' => all \/ sp = SpaceOf[r]

\* A walk begins at the head while there is no other.
LEMMA WalkBegins ==
  ASSUME NEW L, ListInv(L), NEW t \in Threads, NEW h, NEW all, NEW sp,
         Moved(t, "walk", head, h, all, sp), Does(t, {"idle"}), \A u \in Threads : ~Active(u),
         UNCHANGED <<links, node, connects>>, AsksAll(L, all, sp)
  PROVE  ListInv(L)'
<1>1. Linked(L) /\ Contents(L) /\ L \in Seq(Regions) /\ head = At(L, 1) /\ Len(L) \in Nat
  BY DEF ListInv, Linked
<1>2. \A q \in Regions : Waits(q)' <=> Waits(q)
  BY WaitsMoved DEF Does
<1>3. Linked(L)' /\ Contents(L)'
  BY <1>1, <1>2, LinksKept, ContentsKept
<1>4. ASSUME NEW u \in Threads, Does(u, {"walk", "reg"})'
      PROVE  u = t
  BY <1>4 DEF Moved, Active, Does
<1>5. /\ work'[t].pc = "walk" /\ work'[t].region = head
      /\ work'[t].all = all /\ work'[t].space = sp
  BY DEF Moved
<1>6. head # Null => In(L, head)
  BY <1>1 DEF At, In
<1>7. Walkers(L)'
  BY <1>4, <1>5, <1>6 DEF Walkers, In, Does
<1>8. Served(L)'
  <2>1. SUFFICES ASSUME inited', NEW j \in 1..Len(L), Due(L[j])'
                 PROVE  \E u \in Threads, i \in 1..j : Serves(u, L[j])' /\ work'[u].region = L[i]
    BY DEF Served
  <2>2. L[j] \in Regions /\ In(L, L[j])
    BY <1>1 DEF In
  <2>3. all \/ sp = SpaceOf[L[j]]
    BY <2>1, <2>2 DEF AsksAll
  <2>4. 1 \in 1..j /\ head = L[1]
    BY <1>1 DEF At
  <2>5. Serves(t, L[j])' /\ work'[t].region = L[1]
    BY <1>5, <2>3, <2>4 DEF Serves, Does
  <2>6. QED
    BY <2>4, <2>5
<1>9. QED
  BY <1>3, <1>7, <1>8 DEF ListInv

LEMMA RegisterList ==
  ASSUME "overlap" \notin HostMay, TypeOK, NEW L, ListInv(L),
         NEW t \in Threads, NEW h \in Handlers, Register(t, h)
  PROVE  ListInv(L)'
<1>1. PICK sp : sp = SpaceOf[h]
  OBVIOUS
<1>2. Moved(t, "walk", head, Null, FALSE, sp)
  BY <1>1, RegisterMoves
<1>3. /\ Does(t, {"idle"}) /\ \A u \in Threads : ~Active(u)
      /\ UNCHANGED <<links, node, connects, hasReg, inited>> /\ handlers' = <<h>> \o handlers
  BY FreeIsIdle DEF Register, objects, Rests
<1>4. ASSUME NEW r \in Regions, In(L, r), inited', Due(r)'
      PROVE  sp = SpaceOf[r]
  <2>1. SUFFICES ASSUME SpaceOf[r] # SpaceOf[h]
                 PROVE  FALSE
    BY <1>1
  <2>2. HandlerFor(SpaceOf[r]) # Null
    <3>1. PICK s : s = SpaceOf[r]
      OBVIOUS
    <3>2. (HandlerFor(s) # Null)'
      BY <1>4, <3>1 DEF Due
    <3>3. QED
      BY <1>3, <2>1, <3>1, <3>2, RegisterFor
  <2>3. Due(r) /\ inited
    BY <1>3, <1>4, <2>2 DEF Due
  <2>4. PICK j \in 1..Len(L) : L[j] = r
    BY <1>4 DEF In
  <2>5. PICK u \in Threads : Serves(u, r)
    BY <2>3, <2>4 DEF ListInv, Served
  <2>6. QED
    BY <1>3, <2>5, ServesIsActive
<1>5. AsksAll(L, FALSE, sp)
  BY <1>4 DEF AsksAll
<1>6. UNCHANGED <<links, node, connects>>
  BY <1>3
<1>7. QED
  BY <1>2, <1>3, <1>5, <1>6, WalkBegins

LEMMA InitList ==
  ASSUME "overlap" \notin HostMay, TypeOK, NEW L, ListInv(L),
         NEW t \in Threads, InitNamespace(t)
  PROVE  ListInv(L)'
<1>1. Moved(t, "walk", head, Null, TRUE, Memory)
  BY InitMoves
<1>2. /\ Does(t, {"idle"}) /\ \A u \in Threads : ~Active(u)
      /\ UNCHANGED <<links, node, connects>>
  BY FreeIsIdle DEF InitNamespace, objects, Rests
<1>3. AsksAll(L, TRUE, Memory)
  BY DEF AsksAll
<1>4. QED
  BY <1>1, <1>2, <1>3, WalkBegins

\* The walk's place in the list, and the walk as the only one
LEMMA WalkPlace ==
  ASSUME Sole, TypeOK, NEW L, ListInv(L), NEW t \in Threads,
         Does(t, {"reg"}) \/ (Does(t, {"walk"}) /\ work[t].region # Null)
  PROVE  /\ \E k \in 1..Len(L) :
              /\ work[t].region = L[k] /\ next[work[t].region] = At(L, k + 1)
              /\ \A i \in 1..Len(L) : L[i] = L[k] => i = k
         /\ work[t].region \in Regions /\ L \in Seq(Regions) /\ Len(L) \in Nat
         /\ \A u \in Threads : Active(u) => u = t
<1>1. In(L, work[t].region)
  BY DEF ListInv, Walkers
<1>2. Active(t)
  BY DEF Active, Does
<1>3. Linked(L)
  BY DEF ListInv
<1>4. PICK k \in 1..Len(L) : work[t].region = L[k]
  BY <1>1 DEF In
<1>5. \A u \in Threads : Active(u) => u = t
  BY <1>2 DEF Sole
<1>6. L \in Seq(Regions) /\ Len(L) \in Nat /\ L[k] \in Regions
  BY <1>3 DEF Linked
<1>7. next[work[t].region] = At(L, k + 1) /\ \A i \in 1..Len(L) : L[i] = L[k] => i = k
  BY <1>3, <1>4 DEF Linked
<1>8. QED
  BY <1>4, <1>5, <1>6, <1>7

\* The list M has only regions of the list L, and a walk that asks for a region of M that
\* is due, and had it before it in L, has it before it, at r, in M.
GoesOn(L, M, at, r, all, sp) ==
  \A j \in 1..Len(M) :
    /\ \E i \in 1..Len(L) : L[i] = M[j]
    /\ Due(M[j]) /\ (all \/ sp = SpaceOf[M[j]]) =>
         \A i \in 1..Len(L) : L[i] = M[j] /\ (\E k \in 1..i : at = L[k]) =>
           \E k \in 1..j : M[k] = r

\* A walk goes on, at the region it is at or behind it, in the list that there is after
\* the step; what it leaves behind is not due, or not its own.
LEMMA WalkGoesOn ==
  ASSUME NEW L, NEW M, Served(L), NEW t \in Threads, NEW pc \in {"walk", "reg"}, NEW r, NEW h,
         NEW all, NEW sp, Moved(t, pc, r, h, all, sp),
         all = work[t].all, sp = work[t].space, NEW at, at = work[t].region,
         \A u \in Threads : Active(u) => u = t,
         UNCHANGED <<handlers, hasReg, inited>>,
         In(M, r) \/ (pc = "walk" /\ r = Null), GoesOn(L, M, at, r, all, sp)
  PROVE  Walkers(M)' /\ Served(M)'
<1>1. \A u \in Threads : Does(u, {"walk", "reg"})' => u = t
  BY DEF Moved, Active, Does
<1>2. /\ work'[t].pc = pc /\ work'[t].region = r
      /\ work'[t].all = all /\ work'[t].space = sp
  BY DEF Moved
<1>3. Walkers(M)'
  <2>1. SUFFICES ASSUME NEW u \in Threads
                 PROVE  /\ Does(u, {"walk"})' /\ work'[u].region # Null => In(M, work'[u].region)
                        /\ Does(u, {"reg"})' => In(M, work'[u].region)
    BY DEF Walkers, In
  <2>2. CASE u = t
    BY <1>2, <2>2 DEF Does
  <2>3. CASE u # t
    BY <1>1, <2>3 DEF Does
  <2>4. QED
    BY <2>2, <2>3
<1>4. Served(M)'
  <2>1. SUFFICES ASSUME inited', NEW j \in 1..Len(M), Due(M[j])'
                 PROVE  \E u \in Threads, k \in 1..j : Serves(u, M[j])' /\ work'[u].region = M[k]
    BY DEF Served
  <2>2. inited /\ Due(M[j])
    <3>1. PICK q : q = M[j]
      OBVIOUS
    <3>2. Due(q)
      BY <2>1, <3>1, DueKept
    <3>3. QED
      BY <2>1, <3>1, <3>2
  <2>3. PICK i \in 1..Len(L) : L[i] = M[j]
    BY DEF GoesOn
  <2>4. PICK u \in Threads, k \in 1..i : Serves(u, L[i]) /\ work[u].region = L[k]
    BY <2>2, <2>3 DEF Served
  <2>5. u = t
    BY <2>4, ServesIsActive
  <2>6. all \/ sp = SpaceOf[M[j]]
    BY <2>3, <2>4, <2>5 DEF Serves
  <2>7. PICK m \in 1..j : M[m] = r
    BY <2>2, <2>3, <2>4, <2>5, <2>6 DEF GoesOn
  <2>8. Serves(t, M[j])'
    BY <1>2, <2>6 DEF Serves, Does
  <2>9. QED
    BY <1>2, <2>7, <2>8
<1>5. QED
  BY <1>3, <1>4

LEMMA WalkSkipList ==
  ASSUME RegBase, TypeOK, NEW L, ListInv(L), NEW t \in Threads, WalkSkip(t)
  PROVE  ListInv(L)'
<1>1. Does(t, {"walk"}) /\ work[t].region # Null /\ ~RunsReg(t)
      /\ UNCHANGED <<handlers, links, node, hasReg, inited, connects>>
  BY DEF WalkSkip, objects
<1>2. /\ \E k \in 1..Len(L) :
           /\ work[t].region = L[k] /\ next[work[t].region] = At(L, k + 1)
           /\ \A i \in 1..Len(L) : L[i] = L[k] => i = k
      /\ work[t].region \in Regions /\ L \in Seq(Regions) /\ Len(L) \in Nat
      /\ \A u \in Threads : Active(u) => u = t
  BY <1>1, WalkPlace DEF RegBase
<1>3. PICK k \in 1..Len(L) :
        /\ work[t].region = L[k] /\ next[work[t].region] = At(L, k + 1)
        /\ \A i \in 1..Len(L) : L[i] = L[k] => i = k
  BY <1>2
<1>4. PICK at, r, h, all, sp : /\ at = work[t].region /\ r = At(L, k + 1)
                               /\ h = work[t].handler /\ all = work[t].all /\ sp = work[t].space
  OBVIOUS
<1>5. Moved(t, "walk", r, h, all, sp)
  <2>1. StepTo(t, r, "walk") /\ r \in Regions \cup {Null}
    BY <1>2, <1>3, <1>4, AtProperties DEF WalkSkip
  <2>2. QED
    BY <1>4, <2>1, StepToMoves
<1>6. ~(Due(L[k]) /\ (all \/ sp = SpaceOf[L[k]]))
  BY <1>1, <1>3, <1>4 DEF RunsReg, Due
<1>7. ASSUME NEW j \in 1..Len(L), Due(L[j]), all \/ sp = SpaceOf[L[j]],
             NEW i \in 1..Len(L), L[i] = L[j], NEW m \in 1..i, work[t].region = L[m]
      PROVE  \E n \in 1..j : L[n] = r
  <2>1. m \in 1..Len(L) /\ m = k
    BY <1>2, <1>3, <1>7
  <2>2. i = j
    BY <1>2, <1>7 DEF ListInv, Linked
  <2>3. k # j
    BY <1>6, <1>7
  <2>4. k + 1 \in 1..j /\ k + 1 \in 1..Len(L)
    BY <1>2, <2>1, <2>2, <2>3
  <2>5. QED
    BY <1>4, <2>4 DEF At
<1>8. r # Null => In(L, r)
  BY <1>4 DEF At, In
<1>9. Walkers(L)' /\ Served(L)'
  <2>1. Served(L) /\ "walk" \in {"walk", "reg"} /\ "walk" # "reg"
    BY DEF ListInv
  <2>2. GoesOn(L, L, at, r, all, sp)
    BY <1>4, <1>7 DEF GoesOn
  <2>3. UNCHANGED <<handlers, hasReg, inited>>
    BY <1>1
  <2>4. \A u \in Threads : Active(u) => u = t
    BY <1>2
  <2>5. QED
    BY <1>4, <1>5, <1>8, <2>1, <2>2, <2>3, <2>4, WalkGoesOn
<1>10. Linked(L)' /\ Contents(L)'
  <2>1. \A q \in Regions : Waits(q)' <=> Waits(q)
    <3>1. ~Does(t, {"create"}) /\ UNCHANGED <<node, connects>>
      BY <1>1 DEF Does
    <3>2. QED
      BY <1>5, <3>1, WaitsMoved
  <2>2. QED
    BY <1>1, <2>1, LinksKept, ContentsKept DEF ListInv
<1>11. QED
  BY <1>9, <1>10 DEF ListInv

LEMMA WalkRegList ==
  ASSUME RegBase, TypeOK, NEW L, ListInv(L), NEW t \in Threads, WalkReg(t)
  PROVE  ListInv(L)'
<1>1. Does(t, {"walk"}) /\ work[t].region # Null
      /\ UNCHANGED <<handlers, links, node, hasReg, inited, connects>>
  BY DEF WalkReg, objects
<1>2. /\ \E k \in 1..Len(L) :
           /\ work[t].region = L[k] /\ next[work[t].region] = At(L, k + 1)
           /\ \A i \in 1..Len(L) : L[i] = L[k] => i = k
      /\ work[t].region \in Regions /\ L \in Seq(Regions) /\ Len(L) \in Nat
      /\ \A u \in Threads : Active(u) => u = t
  BY <1>1, WalkPlace DEF RegBase
<1>3. PICK k \in 1..Len(L) : work[t].region = L[k]
  BY <1>2
<1>4. PICK at, r, h, all, sp : /\ at = work[t].region /\ r = work[t].region
                               /\ h = work[t].handler /\ all = work[t].all /\ sp = work[t].space
  OBVIOUS
<1>5. Moved(t, "reg", r, h, all, sp)
  <2>1. StepTo(t, r, "reg") /\ r \in Regions \cup {Null}
    BY <1>2, <1>4 DEF WalkReg
  <2>2. QED
    BY <1>4, <2>1, StepToMoves
<1>6. ASSUME NEW j \in 1..Len(L), NEW i \in 1..Len(L), L[i] = L[j],
             NEW m \in 1..i, work[t].region = L[m]
      PROVE  \E n \in 1..j : L[n] = r
  <2>1. i = j
    BY <1>2, <1>6 DEF ListInv, Linked
  <2>2. QED
    BY <1>4, <1>6, <2>1
<1>7. In(L, r)
  BY <1>3, <1>4 DEF In
<1>8. Walkers(L)' /\ Served(L)'
  <2>1. Served(L) /\ "reg" \in {"walk", "reg"} /\ "walk" # "reg"
    BY DEF ListInv
  <2>2. GoesOn(L, L, at, r, all, sp)
    BY <1>4, <1>6 DEF GoesOn
  <2>3. UNCHANGED <<handlers, hasReg, inited>>
    BY <1>1
  <2>4. \A u \in Threads : Active(u) => u = t
    BY <1>2
  <2>5. QED
    BY <1>4, <1>5, <1>7, <2>1, <2>2, <2>3, <2>4, WalkGoesOn
<1>9. Linked(L)' /\ Contents(L)'
  <2>1. \A q \in Regions : Waits(q)' <=> Waits(q)
    <3>1. ~Does(t, {"create"}) /\ UNCHANGED <<node, connects>>
      BY <1>1 DEF Does
    <3>2. QED
      BY <1>5, <3>1, WaitsMoved
  <2>2. QED
    BY <1>1, <2>1, LinksKept, ContentsKept DEF ListInv
<1>10. QED
  BY <1>8, <1>9 DEF ListInv

\* The _REG of a walk returns: its region stays, or the others close the gap.
LEMMA WalkReturnsList ==
  ASSUME RegBase, TypeOK, WorkOK, NEW L, ListInv(L), NEW t \in Threads, WalkReturns(t)
  PROVE  \E M : ListInv(M)'
<1>1. PICK r, h, all, sp : /\ r = work[t].region /\ h = work[t].handler
                           /\ all = work[t].all /\ sp = work[t].space
  OBVIOUS
<1>2. /\ Does(t, {"reg"}) /\ UNCHANGED <<handlers, node, hasReg, inited>>
      /\ StepTo(t, next[r], "walk")
      /\ IF Device[r] \in BrokenReg THEN UNCHANGED <<connects, links>>
         ELSE connects' = [connects EXCEPT ![r] = @ + 1] /\ Unlink(r)
  BY <1>1 DEF WalkReturns, objects
<1>3. /\ \E k \in 1..Len(L) :
           /\ r = L[k] /\ next[r] = At(L, k + 1)
           /\ \A i \in 1..Len(L) : L[i] = L[k] => i = k
      /\ r \in Regions /\ L \in Seq(Regions) /\ Len(L) \in Nat
      /\ \A u \in Threads : Active(u) => u = t
  BY <1>1, <1>2, WalkPlace DEF RegBase
<1>4. PICK k \in 1..Len(L) :
        r = L[k] /\ next[r] = At(L, k + 1) /\ \A i \in 1..Len(L) : L[i] = L[k] => i = k
  BY <1>3
<1>5. PICK n : n = At(L, k + 1)
  OBVIOUS
<1>6. Moved(t, "walk", n, h, all, sp)
  <2>1. StepTo(t, n, "walk") /\ n \in Regions \cup {Null}
    BY <1>2, <1>3, <1>4, <1>5, AtProperties
  <2>2. QED
    BY <1>1, <2>1, StepToMoves
<1>7. Served(L) /\ "walk" \in {"walk", "reg"} /\ "walk" # "reg" /\ Linked(L) /\ Contents(L)
  BY DEF ListInv
<1>8. \A q \in Regions : Creating(q)' <=> Creating(q)
  <2>1. ~Does(t, {"create"})
    BY <1>2 DEF Does
  <2>2. QED
    BY <1>6, <2>1, CreatingMoved
<1>9. UNCHANGED <<handlers, hasReg, inited>>
  BY <1>2
<1>10. CASE Device[r] \in BrokenReg
  <2>1. UNCHANGED <<connects, links>>
    BY <1>2, <1>10
  <2>2. n # Null => In(L, n)
    BY <1>5 DEF At, In
  <2>3. ASSUME NEW j \in 1..Len(L), Due(L[j]),
               NEW i \in 1..Len(L), L[i] = L[j], NEW m \in 1..i, r = L[m]
        PROVE  \E x \in 1..j : L[x] = n
    <3>1. m \in 1..Len(L) /\ m = k
      <4>1. m \in 1..Len(L) /\ L[m] = L[k]
        BY <1>3, <1>4, <2>3
      <4>2. QED
        BY <1>4, <4>1
    <3>2. i = j
      BY <1>7, <2>3 DEF Linked
    <3>3. k # j
      BY <1>4, <1>10, <2>3 DEF Due
    <3>4. k + 1 \in 1..j /\ k + 1 \in 1..Len(L)
      BY <1>3, <3>1, <3>2, <3>3
    <3>5. QED
      BY <1>5, <3>4 DEF At
  <2>4. Walkers(L)' /\ Served(L)'
    <3>1. GoesOn(L, L, r, n, all, sp)
      BY <2>3 DEF GoesOn
    <3>2. \A u \in Threads : Active(u) => u = t
      BY <1>3
    <3>3. QED
      BY <1>1, <1>6, <1>7, <1>9, <2>2, <3>1, <3>2, WalkGoesOn
  <2>5. Linked(L)' /\ Contents(L)'
    <3>1. \A q \in Regions : Waits(q)' <=> Waits(q)
      BY <1>2, <1>8, <2>1 DEF Waits, OfTable
    <3>2. QED
      BY <1>7, <2>1, <3>1, LinksKept, ContentsKept
  <2>6. ListInv(L)'
    BY <2>4, <2>5 DEF ListInv
  <2>7. QED
    BY <2>6
<1>11. CASE Device[r] \notin BrokenReg
  <2>1. connects' = [connects EXCEPT ![r] = @ + 1] /\ Unlink(r)
    BY <1>2, <1>11
  <2>2. PICK M : M = RemoveAt(L, k)
    OBVIOUS
  <2>3. Linked(M)'
    BY <1>4, <1>7, <2>1, <2>2, UnlinkLinks
  <2>4. /\ M \in Seq(Regions) /\ Len(M) = Len(L) - 1
        /\ \A i \in 1..Len(M) : M[i] = L[IF i < k THEN i ELSE i + 1]
    BY <1>3, <2>2, Removed
  <2>5. \A i \in Nat : At(M, i) = IF i < k THEN At(L, i) ELSE At(L, i + 1)
    BY <1>3, <2>2, CutAt
  <2>6. ASSUME NEW q \in Regions
        PROVE  In(M, q) <=> q # r /\ In(L, q)
    <3>1. ASSUME NEW i \in 1..Len(M), M[i] = q
          PROVE  q # r /\ In(L, q)
      <4>1. (IF i < k THEN i ELSE i + 1) \in 1..Len(L) /\ (IF i < k THEN i ELSE i + 1) # k
        BY <1>3, <2>4
      <4>2. QED
        BY <1>4, <2>4, <3>1, <4>1 DEF In
    <3>2. ASSUME q # r, NEW i \in 1..Len(L), L[i] = q
          PROVE  In(M, q)
      <4>1. i # k
        BY <1>4, <3>2
      <4>2. CASE i < k
        <5>1. i \in 1..Len(M) /\ M[i] = L[i]
          BY <1>3, <2>4, <4>2
        <5>2. QED
          BY <3>2, <5>1 DEF In
      <4>3. CASE i > k
        <5>1. i - 1 \in 1..Len(M) /\ ~(i - 1 < k) /\ (i - 1) + 1 = i
          BY <1>3, <2>4, <4>3
        <5>2. M[i - 1] = L[i]
          BY <2>4, <5>1
        <5>3. QED
          BY <3>2, <5>1, <5>2 DEF In
      <4>4. QED
        BY <1>3, <4>1, <4>2, <4>3
    <3>3. QED
      BY <3>1, <3>2 DEF In
  <2>7. connects'[r] # 0 /\ \A q \in Regions : q # r => connects'[q] = connects[q]
    <3>1. connects[r] \in Nat /\ connects'[r] = connects[r] + 1
      BY <1>3, <2>1 DEF TypeOK
    <3>2. QED
      BY <2>1, <3>1 DEF TypeOK
  <2>8. ~Waits(r)' /\ \A q \in Regions : q # r => (Waits(q)' <=> Waits(q))
    BY <1>2, <1>8, <2>7 DEF Waits, OfTable
  <2>9. Contents(M)'
    BY <1>7, <2>6, <2>8 DEF Contents, In
  <2>10. n # Null => In(M, n)
    <3>1. At(M, k) = n
      BY <1>3, <1>5, <2>5
    <3>2. QED
      BY <3>1 DEF At, In
  <2>11. ASSUME NEW j \in 1..Len(M),
                NEW i \in 1..Len(L), L[i] = M[j], NEW m \in 1..i, r = L[m]
         PROVE  \E x \in 1..j : M[x] = n
    <3>1. m \in 1..Len(L) /\ m = k
      <4>1. m \in 1..Len(L) /\ L[m] = L[k]
        BY <1>3, <1>4, <2>11
      <4>2. QED
        BY <1>4, <4>1
    <3>2. i = IF j < k THEN j ELSE j + 1
      <4>1. (IF j < k THEN j ELSE j + 1) \in 1..Len(L)
        BY <1>3, <2>4
      <4>2. L[IF j < k THEN j ELSE j + 1] = L[i]
        BY <2>4, <2>11
      <4>3. \A x, y \in 1..Len(L) : L[x] = L[y] => x = y
        BY <1>7 DEF Linked
      <4>4. QED
        BY <4>1, <4>2, <4>3
    <3>3. k \in 1..j /\ k \in 1..Len(M)
      BY <1>3, <2>4, <3>1, <3>2
    <3>4. M[k] = n
      BY <1>3, <1>5, <2>5, <3>3 DEF At
    <3>5. QED
      BY <3>3, <3>4
  <2>12. Walkers(M)' /\ Served(M)'
    <3>1. ASSUME NEW j \in 1..Len(M)
          PROVE  \E i \in 1..Len(L) : L[i] = M[j]
      <4>1. (IF j < k THEN j ELSE j + 1) \in 1..Len(L)
        BY <1>3, <2>4
      <4>2. QED
        BY <2>4, <4>1
    <3>2. GoesOn(L, M, r, n, all, sp)
      BY <2>11, <3>1 DEF GoesOn
    <3>3. \A u \in Threads : Active(u) => u = t
      BY <1>3
    <3>4. QED
      BY <1>1, <1>6, <1>7, <1>9, <2>10, <3>2, <3>3, WalkGoesOn
  <2>13. QED
    BY <2>3, <2>9, <2>12 DEF ListInv
<1>12. QED
  BY <1>10, <1>11

LEMMA ListStep ==
  ASSUME "overlap" \notin HostMay
  PROVE  RegInv /\ Typed /\ [Next]_vars => \E M : ListInv(M)'
<1> SUFFICES ASSUME RegBase, NEW L, ListInv(L), TypeOK, WorkOK, [Next]_vars
             PROVE  \E M : ListInv(M)'
  BY DEF Typed, RegInv
<1>1. ASSUME NEW d \in Devices, DefineReg(d)
      PROVE  ListInv(L)'
  <2>1. UNCHANGED <<links, inited, node, connects, work>> /\ ~inited
    BY <1>1 DEF DefineReg, objects
  <2>2. \A q \in Regions : Waits(q)' <=> Waits(q)
    BY <2>1, WaitsKept
  <2>3. QED
    BY <2>1, <2>2, ListKept
<1>2. ASSUME NEW t \in Threads, NEW r \in Regions, CreateRegion(t, r)
      PROVE  \E M : ListInv(M)'
  BY <1>2, CreateList
<1>3. ASSUME NEW t \in Threads, CreateReturns(t)
      PROVE  ListInv(L)'
  BY <1>3, CreateReturnsList
<1>4. ASSUME NEW t \in Threads, NEW h \in Handlers, Register(t, h)
      PROVE  ListInv(L)'
  BY <1>4, RegisterList
<1>5. ASSUME NEW h \in Handlers, Deregister(h)
      PROVE  ListInv(L)'
  <2>1. UNCHANGED <<links, inited, node, connects, work, hasReg>>
    BY <1>5 DEF Deregister, objects
  <2>2. \A q \in Regions : Waits(q)' <=> Waits(q)
    BY <2>1, WaitsKept
  <2>3. ASSUME NEW q \in Regions, Due(q)'
        PROVE  Due(q)
    <3>1. PICK s : s = SpaceOf[q]
      OBVIOUS
    <3>2. (HandlerFor(s) # Null)'
      BY <2>3, <3>1 DEF Due
    <3>3. HandlerFor(s) # Null
      BY <1>5, <3>2, DeregisterFor
    <3>4. QED
      BY <2>1, <2>3, <3>1, <3>3 DEF Due
  <2>4. QED
    BY <2>1, <2>2, <2>3, ListKept
<1>6. ASSUME NEW t \in Threads, InitNamespace(t)
      PROVE  ListInv(L)'
  BY <1>6, InitList
<1>7. ASSUME NEW t \in Threads, WalkSkip(t)
      PROVE  ListInv(L)'
  BY <1>7, WalkSkipList
<1>8. ASSUME NEW t \in Threads, WalkReg(t)
      PROVE  ListInv(L)'
  BY <1>8, WalkRegList
<1>9. ASSUME NEW t \in Threads, WalkReturns(t)
      PROVE  \E M : ListInv(M)'
  BY <1>9, WalkReturnsList
<1>10. ASSUME NEW t \in Threads, WalkEnds(t)
       PROVE  ListInv(L)'
  <2>1. /\ Does(t, {"walk"}) /\ work[t].region = Null
        /\ UNCHANGED <<links, inited, node, connects, handlers, hasReg>>
    BY <1>10 DEF WalkEnds, objects
  <2>2. Moved(t, "idle", Null, Null, FALSE, Memory)
    BY <1>10, SetsIdle DEF WalkEnds
  <2>3. Linked(L)' /\ Contents(L)'
    <3>1. \A q \in Regions : Waits(q)' <=> Waits(q)
      <4>1. ~Does(t, {"create"}) /\ UNCHANGED <<node, connects>>
        BY <2>1 DEF Does
      <4>2. QED
        BY <2>2, <4>1, WaitsMoved
    <3>2. QED
      BY <2>1, <3>1, LinksKept, ContentsKept DEF ListInv
  <2>4. \A u \in Threads : Active(u) => u = t
    BY <2>1 DEF RegBase, Sole, Active, Does
  <2>5. \A u \in Threads : ~Does(u, {"walk", "reg"})'
    BY <2>2, <2>4 DEF Moved, Active, Does
  <2>6. Walkers(L)'
    BY <2>5 DEF Walkers, Does
  <2>7. \A j \in 1..Len(L) : L[j] # Null
    BY RegionAssumption DEF ListInv, Linked
  <2>8. ASSUME inited', NEW j \in 1..Len(L), Due(L[j])'
        PROVE  FALSE
    <3>1. PICK q : q = L[j]
      OBVIOUS
    <3>2. Due(q) /\ inited
      BY <2>1, <2>8, <3>1, DueKept
    <3>3. PICK u \in Threads, i \in 1..j : Serves(u, L[j]) /\ work[u].region = L[i]
      BY <3>1, <3>2 DEF ListInv, Served
    <3>4. u = t
      BY <2>4, <3>3, ServesIsActive
    <3>5. i \in 1..Len(L) /\ L[i] = Null
      BY <2>1, <3>3, <3>4 DEF ListInv, Linked
    <3>6. QED
      BY <2>7, <3>5
  <2>9. Served(L)'
    BY <2>8 DEF Served
  <2>10. QED
    BY <2>3, <2>6, <2>9 DEF ListInv
<1>11. ASSUME NEW t \in Threads, NEW r \in Regions, Access(t, r)
       PROVE  ListInv(L)'
  <2>1. PICK h : h = HandlerFor(SpaceOf[r])
    OBVIOUS
  <2>2. \/ Moved(t, "io", r, h, FALSE, Memory)
        \/ Moved(t, "attach", r, h, FALSE, Memory)
    BY <1>11, <2>1, AccessMoves
  <2>3. /\ UNCHANGED <<links, inited, node, connects, handlers, hasReg>>
        /\ ~Does(t, {"create", "walk", "reg"})
    BY <1>11 DEF Access, objects, Does, Rests
  <2>4. "io" \notin {"create", "walk", "reg"} /\ "attach" \notin {"create", "walk", "reg"}
    OBVIOUS
  <2>5. QED
    BY <2>2, <2>3, <2>4, ListMoved
<1>12. ASSUME NEW t \in Threads, NEW ok \in BOOLEAN, AttachReturns(t, ok)
       PROVE  ListInv(L)'
  <2>1. PICK r, h, all, sp : /\ r = work[t].region /\ h = work[t].handler
                             /\ all = work[t].all /\ sp = work[t].space
    OBVIOUS
  <2>2. Moved(t, "io", r, h, all, sp) \/ Moved(t, "idle", Null, Null, FALSE, Memory)
    BY <1>12, <2>1, AttachMoves
  <2>3. /\ UNCHANGED <<links, inited, node, connects, handlers, hasReg>>
        /\ ~Does(t, {"create", "walk", "reg"})
    BY <1>12 DEF AttachReturns, objects, Does
  <2>4. "io" \notin {"create", "walk", "reg"} /\ "idle" \notin {"create", "walk", "reg"}
    OBVIOUS
  <2>5. QED
    BY <2>2, <2>3, <2>4, ListMoved
<1>13. ASSUME NEW t \in Threads, IoReturns(t)
       PROVE  ListInv(L)'
  <2>1. Moved(t, "idle", Null, Null, FALSE, Memory)
    BY <1>13, SetsIdle DEF IoReturns
  <2>2. /\ UNCHANGED <<links, inited, node, connects, handlers, hasReg>>
        /\ ~Does(t, {"create", "walk", "reg"})
    BY <1>13 DEF IoReturns, objects, Does
  <2>3. "idle" \notin {"create", "walk", "reg"}
    OBVIOUS
  <2>4. QED
    BY <2>1, <2>2, <2>3, ListMoved
<1>14. CASE UNCHANGED <<handlers, links, node, hasReg, inited, work, connects>>
  <2>1. \A q \in Regions : Waits(q)' <=> Waits(q)
    BY <1>14, WaitsKept
  <2>2. \A q \in Regions : Due(q)' => Due(q)
    BY <1>14, DueKept
  <2>3. QED
    BY <1>14, <2>1, <2>2, ListKept
<1>15. ASSUME NEW t \in Threads, NEW r \in Regions, MethodEnds(t, r)
       PROVE  ListInv(L)'
  <2>1. /\ UNCHANGED <<handlers, links, hasReg, inited, work>> /\ r \in InMethod
        /\ node' = [node EXCEPT ![r] = FALSE] /\ connects' = [connects EXCEPT ![r] = 0]
    BY <1>15 DEF MethodEnds
  <2>2. \A q \in Regions : Waits(q)' <=> Waits(q)
    BY <2>1 DEF Waits, OfTable, Creating, Does, TypeOK
  <2>3. \A q \in Regions : Due(q)' => Due(q)
    BY <2>1, DueKept
  <2>4. QED
    BY <2>1, <2>2, <2>3, ListKept
<1>16. QED
  <2>1. ASSUME NEW t \in Threads, WriteCount(t) \/ \E r \in Regions : Clone(t, r) \/ DropClone(t, r)
        PROVE  UNCHANGED <<handlers, links, node, hasReg, inited, work, connects>>
    BY <2>1 DEF Clone, DropClone, WriteCount
  <2>2. ASSUME UNCHANGED vars
        PROVE  UNCHANGED <<handlers, links, node, hasReg, inited, work, connects>>
    BY <2>2 DEF vars, objects
  <2>3. QED
    BY <1>1, <1>2, <1>3, <1>4, <1>5, <1>6, <1>7, <1>8, <1>9, <1>10, <1>11, <1>12, <1>13,
       <1>14, <1>15, <2>1, <2>2 DEF Next, ThreadStep

-----------------------------------------------------------------------------
\* The definition of Entry has a solution, and so the entries that it says.
LEMMA EntryIs ==
  ASSUME TypeOK
  PROVE  /\ Entry[0] = head
         /\ \A n \in Nat : Entry[n + 1] = IF Entry[n] = Null THEN Null ELSE next[Entry[n]]
<1> DEFINE S == Regions \cup {Null}
           g == [x \in S |-> IF x = Null THEN Null ELSE next[x]]
           Rhs(f) == [i \in Nat |-> IF i = 0 THEN head
                                   ELSE IF f[i - 1] = Null THEN Null ELSE next[f[i - 1]]]
<1>1. g \in [S -> S] /\ head \in S
  BY DEF TypeOK
<1>2. PICK f \in [Nat -> S] : f[0] = head /\ \A n \in Nat : f[n + 1] = g[f[n]]
  <2>1. PICK Z, k, a : Z = S /\ k = g /\ a = head
    OBVIOUS
  <2>2. k \in [Z -> Z] /\ a \in Z
    BY <1>1, <2>1
  <2>3. Iterations(Z, k, a) # {}
    BY <2>2, Iteration, Zenon
  <2> HIDE DEF g, S
  <2>4. QED
    BY <2>1, <2>3 DEF Iterations
<1>3. ASSUME NEW n \in Nat
      PROVE  f[n] = IF n = 0 THEN head ELSE IF f[n - 1] = Null THEN Null ELSE next[f[n - 1]]
  <2>1. CASE n = 0
    BY <1>2, <2>1
  <2>2. CASE n # 0
    <3>1. n - 1 \in Nat /\ (n - 1) + 1 = n
      BY <2>2
    <3>2. f[n] = g[f[n - 1]] /\ f[n - 1] \in S
      BY <1>2, <3>1
    <3>3. QED
      BY <2>2, <3>2
  <2>3. QED
    BY <2>1, <2>2
<1>4. f = Rhs(f)
  BY <1>2, <1>3
<1>5. Entry = CHOOSE h : h = Rhs(h)
  BY DEF Entry
<1> HIDE DEF Rhs
<1>6. Entry = Rhs(Entry)
  BY <1>4, <1>5
<1>7. \A n \in Nat : Entry[n] = IF n = 0 THEN head
                                ELSE IF Entry[n - 1] = Null THEN Null ELSE next[Entry[n - 1]]
  <2>1. PICK e : e = Entry
    OBVIOUS
  <2>2. e = Rhs(e)
    BY <1>6, <2>1
  <2>3. \A n \in Nat : e[n] = IF n = 0 THEN head
                               ELSE IF e[n - 1] = Null THEN Null ELSE next[e[n - 1]]
    BY <2>2 DEF Rhs
  <2>4. QED
    BY <2>1, <2>3
<1>8. ASSUME NEW n \in Nat
      PROVE  Entry[n + 1] = IF Entry[n] = Null THEN Null ELSE next[Entry[n]]
  <2>1. n + 1 \in Nat /\ n + 1 # 0 /\ (n + 1) - 1 = n
    OBVIOUS
  <2>2. QED
    BY <1>7, <2>1
<1>9. QED
  BY <1>7, <1>8

LEMMA EntriesOfList ==
  ASSUME TypeOK, NEW L, Linked(L)
  PROVE  \A n \in Nat : Entry[n] = At(L, n + 1)
<1>1. L \in Seq(Regions) /\ Len(L) \in Nat
  BY DEF Linked
<1> DEFINE T == {n \in Nat : Entry[n] = At(L, n + 1)}
<1>2. 0 \in T
  <2>1. Entry[0] = head /\ head = At(L, 1)
    BY EntryIs DEF Linked
  <2>2. QED
    BY <2>1
<1>3. ASSUME NEW n \in Nat, n \in T
      PROVE  n + 1 \in T
  <2>1. Entry[n] = At(L, n + 1)
        /\ Entry[n + 1] = IF Entry[n] = Null THEN Null ELSE next[Entry[n]]
    BY <1>3, EntryIs
  <2>2. CASE n + 1 \in 1..Len(L)
    <3>1. At(L, n + 1) = L[n + 1] /\ At(L, n + 1) # Null
      BY <1>1, <2>2, AtProperties
    <3>2. next[L[n + 1]] = At(L, (n + 1) + 1)
      BY <2>2 DEF Linked
    <3>3. QED
      BY <2>1, <3>1, <3>2
  <2>3. CASE n + 1 \notin 1..Len(L)
    <3>1. At(L, n + 1) = Null /\ At(L, (n + 1) + 1) = Null
      BY <1>1, <2>3 DEF At
    <3>2. QED
      BY <2>1, <3>1
  <2>4. QED
    BY <2>2, <2>3
<1> HIDE DEF T
<1>4. Nat \subseteq T
  BY <1>2, <1>3, SetInduction
<1>5. QED
  BY <1>4 DEF T

LEMMA ListIsShort ==
  ASSUME NEW L, Linked(L)
  PROVE  Len(L) <= Cardinality(Regions) /\ Cardinality(Regions) \in Nat
<1>1. L \in Seq(Regions) /\ Len(L) \in Nat /\ \A i, j \in 1..Len(L) : L[i] = L[j] => i = j
  BY DEF Linked
<1>2. L \in Injection(1..Len(L), Regions)
  BY <1>1 DEF Injection, IsInjective
<1>3. Cardinality(1..Len(L)) = Len(L)
  <2>1. PICK n : n = Len(L)
    OBVIOUS
  <2>2. 1 \in Int /\ n \in Int /\ n \in Nat
    BY <1>1, <2>1
  <2>3. Cardinality(1..n) = IF 1 > n THEN 0 ELSE n - 1 + 1
    BY <2>2, FS_Interval, Zenon
  <2>4. Cardinality(1..n) = n
    BY <2>2, <2>3
  <2>5. QED
    BY <2>1, <2>4
<1>4. IsFiniteSet(Regions)
  BY RegionAssumption
<1>5. Cardinality(1..Len(L)) <= Cardinality(Regions)
  BY <1>2, <1>4, FS_Injection
<1>6. QED
  BY <1>3, <1>4, <1>5, FS_CardinalityType

LEMMA RegInvIsEnough == RegInv /\ Typed => Connected
<1> SUFFICES ASSUME RegBase, NEW L, ListInv(L), TypeOK
             PROVE  Connected
  BY DEF Typed, RegInv
<1> DEFINE N == Cardinality(Regions)
<1>1. /\ L \in Seq(Regions) /\ Len(L) \in Nat /\ Linked(L)
      /\ Len(L) <= N /\ N \in Nat
  BY ListIsShort DEF ListInv, Linked
<1>2. \A n \in Nat : Entry[n] = At(L, n + 1)
  BY <1>1, EntriesOfList
<1> HIDE DEF N
<1>3. Entry[N] = Null
  <2>1. Entry[N] = At(L, N + 1) /\ N + 1 \notin 1..Len(L)
    BY <1>1, <1>2
  <2>2. QED
    BY <2>1 DEF At
<1>4. ASSUME NEW i \in 0..N, Entry[i] # Null
      PROVE  prev[Entry[i]] = IF i = 0 THEN Null ELSE Entry[i - 1]
  <2>1. i \in Nat /\ Entry[i] = At(L, i + 1)
    BY <1>1, <1>2
  <2>2. i + 1 \in 1..Len(L) /\ Entry[i] = L[i + 1]
    BY <1>4, <2>1 DEF At
  <2>3. prev[L[i + 1]] = At(L, (i + 1) - 1)
    BY <1>1, <2>2 DEF Linked
  <2>4. CASE i = 0
    BY <2>2, <2>3, <2>4 DEF At
  <2>5. CASE i # 0
    <3>1. i - 1 \in Nat /\ (i - 1) + 1 = (i + 1) - 1
      BY <2>1, <2>5
    <3>2. Entry[i - 1] = At(L, (i + 1) - 1)
      BY <1>2, <3>1
    <3>3. QED
      BY <2>2, <2>3, <2>5, <3>2
  <2>6. QED
    BY <2>4, <2>5
<1>5. ASSUME NEW r \in Regions
      PROVE  r \in Listed <=> In(L, r)
  <2>1. ASSUME NEW i \in 0..N, Entry[i] = r
        PROVE  In(L, r)
    <3>0. i \in Nat
      BY <1>1
    <3>1. Entry[i] = At(L, i + 1) /\ r # Null
      BY <1>2, <3>0, RegionAssumption
    <3>2. QED
      BY <2>1, <3>0, <3>1 DEF At, In
  <2>2. ASSUME NEW j \in 1..Len(L), L[j] = r
        PROVE  j - 1 \in 0..N /\ Entry[j - 1] = r
    <3>1. j - 1 \in 0..N /\ j - 1 \in Nat /\ (j - 1) + 1 = j
      BY <1>1
    <3>2. Entry[j - 1] = At(L, j)
      BY <1>2, <3>1
    <3>3. QED
      BY <2>2, <3>1, <3>2 DEF At
  <2>3. QED
    BY <2>1, <2>2 DEF Listed, In, N
<1>6. ListExact
  <2>1. \A r \in Regions : In(L, r) => OfTable(r) /\ connects[r] = 0
    BY DEF ListInv, Contents, Waits
  <2>2. \A r \in Regions :
          OfTable(r) /\ connects[r] = 0 /\ Device[r] \notin BrokenReg /\ ~Creating(r) => In(L, r)
    BY DEF ListInv, Contents, Waits
  <2>3. Listed \subseteq Regions
    BY DEF Listed
  <2>4. QED
    BY <1>3, <1>4, <1>5, <2>1, <2>2, <2>3 DEF ListExact, N
<1>7. ConnectedAfterInit
  <2>1. SUFFICES ASSUME inited, \A t \in Threads : ~Does(t, {"walk", "reg", "create"}),
                        NEW r \in Regions, OfTable(r), HandlerFor(SpaceOf[r]) # Null,
                        Device[r] \in hasReg \ BrokenReg, connects[r] # 1
                 PROVE  FALSE
    BY DEF ConnectedAfterInit
  <2>2. connects[r] = 0 /\ ~Creating(r)
    BY <2>1 DEF RegBase, ConnectedOnce, TypeOK, Creating, Does
  <2>3. PICK j \in 1..Len(L) : L[j] = r
    BY <2>1, <2>2 DEF ListInv, Contents, Waits, In
  <2>4. Due(r)
    BY <2>1 DEF Due
  <2>5. PICK t \in Threads : Serves(t, r)
    BY <2>1, <2>3, <2>4 DEF ListInv, Served
  <2>6. QED
    BY <2>1, <2>5 DEF Serves, Does
<1>8. QED
  BY <1>6, <1>7 DEF Connected, RegBase

LEMMA InitRegInv == Init => RegInv
<1> SUFFICES ASSUME Init
             PROVE  RegInv
  OBVIOUS
<1>1. RegBase
  BY DEF Init, RegBase, Sole, Active, Creations, ConnectedOnce, Does, Idle
<1>2. PICK L : L = <<>>
  OBVIOUS
<1>3. L \in Seq(Regions) /\ Len(L) = 0
  BY <1>2
<1>4. Linked(L)
  BY <1>3 DEF Init, Linked, At
<1>5. Contents(L) /\ Walkers(L) /\ Served(L)
  BY <1>3 DEF Init, Contents, Walkers, Served, In, Waits, OfTable, Does, Idle
<1>6. QED
  BY <1>1, <1>4, <1>5 DEF RegInv, ListInv

\* regions_to_reg holds what waits for a _REG, each region is connected once, and after
\* init_namespace all that can be are, if the host loads tables, registers handlers and
\* calls init_namespace from one thread at a time.
THEOREM RegOnce ==
  ASSUME "overlap" \notin HostMay
  PROVE  Spec => []Connected
<1>1. Init => Typed /\ CountsFine /\ RegInv
  BY InitTyped, InitRegInv
<1>2. RegInv /\ Typed /\ [Next]_vars => RegInv'
  <2>1. RegInv /\ Typed /\ [Next]_vars => RegBase' /\ \E M : ListInv(M)'
    BY BaseStep, ListStep
  <2>2. QED
    BY <2>1 DEF RegInv
<1>3. Typed /\ CountsFine /\ RegInv /\ [Next]_vars => (Typed /\ CountsFine /\ RegInv)'
  BY <1>2, TypedStep, CountsStep
<1>4. Typed /\ RegInv => Connected
  BY RegInvIsEnough
<1>5. QED
  BY <1>1, <1>3, <1>4, PTL DEF Spec
=============================================================================
