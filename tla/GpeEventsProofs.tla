--------------------------- MODULE GpeEventsProofs ---------------------------
(***************************************************************************)
(* Proofs about GpeEvents, for any GPEs, fixed events, workers and bounds. *)
(***************************************************************************)
EXTENDS GpeEvents, FiniteSetTheorems, SequenceTheorems, WellFoundedInduction, TLAPS

-----------------------------------------------------------------------------
(* Lemmas on numbers, sets and sequences                                   *)

\* A nonempty set of natural numbers has a least one.
LEMMA MinNat ==
  ASSUME NEW S \in SUBSET Nat, S # {}
  PROVE  Min(S) \in S /\ \A y \in S : Min(S) <= y
<1> DEFINE R == {ss \in Nat \X Nat : ss[1] < ss[2]}
<1>1. IsWellFoundedOn(R, Nat)
  BY NatLessThanWellFounded, Zenon DEF OpToRel
<1>2. ASSUME NEW x \in Nat, NEW y \in Nat, y < x
      PROVE  <<y, x>> \in R
  <2>1. <<y, x>> \in Nat \X Nat
    OBVIOUS
  <2>2. <<y, x>>[1] < <<y, x>>[2]
    BY <1>2
  <2> QED BY <2>1, <2>2, Zenon
<1> HIDE DEF R
<1>3. PICK x \in S : \A y \in S : <<y, x>> \notin R
  BY <1>1, WFMin
<1>4. x \in Nat /\ S \subseteq Nat
  OBVIOUS
<1>5. ASSUME NEW y \in S
      PROVE  x <= y
  <2>1. ~(y < x)
    BY <1>2, <1>3, <1>4
  <2> QED BY <1>4, <2>1
<1> QED BY <1>5 DEF Min

\* SetToSeq lists a finite set, each element once.
LEMMA SetToSeqLists ==
  ASSUME NEW S, IsFiniteSet(S)
  PROVE  /\ SetToSeq(S) \in Seq(S) /\ Len(SetToSeq(S)) = Cardinality(S)
         /\ ToSet(SetToSeq(S)) = S
<1> DEFINE n == Cardinality(S)
           f == SetToSeq(S)
<1>1. n \in Nat /\ ExistsBijection(1..n, S)
  BY FS_CardinalityType
<1>2. \E h \in [1..n -> S] : IsInjective(h)
  BY <1>1, Zenon DEF ExistsBijection, Bijection, Injection
<1>3. f \in [1..n -> S] /\ IsInjective(f)
  BY <1>2, Zenon DEF SetToSeq
<1>4. f \in Injection(1..n, S)
  BY <1>3, Zenon DEF Injection
<1>5. IsFiniteSet(1..n) /\ Cardinality(1..n) = n
  BY <1>1, FS_Interval, 1 \in Int, n \in Int
<1>6. f \in Surjection(1..n, S)
  BY <1>4, <1>5, FS_Injection
<1>7. \A x \in S : \E i \in 1..n : f[i] = x
  BY <1>6 DEF Surjection
<1> HIDE DEF f, n
<1>8. f \in Seq(S) /\ Len(f) = n /\ DOMAIN f = 1..n
  BY <1>1, <1>3
<1>9. ToSet(f) = S
  BY <1>3, <1>7, <1>8 DEF ToSet
<1> QED BY <1>8, <1>9 DEF f, n

LEMMA ToSetAppend ==
  ASSUME NEW S, NEW s \in Seq(S), NEW e \in S
  PROVE  ToSet(Append(s, e)) = ToSet(s) \cup {e}
<1>1. DOMAIN s = 1..Len(s) /\ Len(s) \in Nat
  BY LenProperties
<1>2. Append(s, e) \in Seq(S) /\ Len(Append(s, e)) = Len(s) + 1
  BY AppendProperties
<1>3. DOMAIN Append(s, e) = (DOMAIN s) \cup {Len(s) + 1}
  BY <1>1, <1>2
<1>4. /\ \A i \in DOMAIN s : Append(s, e)[i] = s[i]
      /\ Append(s, e)[Len(s) + 1] = e
  BY <1>1, AppendProperties
<1> QED BY <1>3, <1>4 DEF ToSet

LEMMA ToSetConcat ==
  ASSUME NEW S, NEW s \in Seq(S), NEW t \in Seq(S)
  PROVE  ToSet(s \o t) = ToSet(s) \cup ToSet(t)
<1>1. /\ DOMAIN s = 1..Len(s) /\ Len(s) \in Nat
      /\ DOMAIN t = 1..Len(t) /\ Len(t) \in Nat
  BY LenProperties
<1>2. /\ s \o t \in Seq(S) /\ Len(s \o t) = Len(s) + Len(t)
      /\ \A i \in 1..Len(s) + Len(t) :
           (s \o t)[i] = IF i <= Len(s) THEN s[i] ELSE t[i - Len(s)]
  BY ConcatProperties
<1>3. DOMAIN (s \o t) = 1..Len(s) + Len(t)
  BY <1>2
<1>4. ASSUME NEW x \in ToSet(s \o t)
      PROVE  x \in ToSet(s) \cup ToSet(t)
  <2>1. PICK i \in 1..Len(s) + Len(t) : x = (s \o t)[i]
    BY <1>3 DEF ToSet
  <2>2. CASE i <= Len(s)
    BY <1>1, <1>2, <2>1, <2>2 DEF ToSet
  <2>3. CASE i > Len(s)
    <3>1. i - Len(s) \in DOMAIN t /\ x = t[i - Len(s)]
      BY <1>1, <1>2, <2>1, <2>3
    <3> QED BY <3>1 DEF ToSet
  <2> QED BY <1>1, <2>2, <2>3
<1>5. ASSUME NEW x \in ToSet(s)
      PROVE  x \in ToSet(s \o t)
  <2>1. PICK i \in DOMAIN s : x = s[i]
    BY DEF ToSet
  <2>2. i \in DOMAIN (s \o t) /\ x = (s \o t)[i]
    BY <1>1, <1>2, <1>3, <2>1
  <2> QED BY <2>2 DEF ToSet
<1>6. ASSUME NEW x \in ToSet(t)
      PROVE  x \in ToSet(s \o t)
  <2>1. PICK i \in DOMAIN t : x = t[i]
    BY DEF ToSet
  <2>2. i + Len(s) \in DOMAIN (s \o t) /\ x = (s \o t)[i + Len(s)]
    BY <1>1, <1>2, <1>3, <2>1
  <2> QED BY <2>2 DEF ToSet
<1> QED BY <1>4, <1>5, <1>6

LEMMA ToSetTail ==
  ASSUME NEW S, NEW s \in Seq(S), s # <<>>
  PROVE  Head(s) \in S /\ ToSet(s) = ToSet(Tail(s)) \cup {Head(s)}
<1>1. DOMAIN s = 1..Len(s) /\ Len(s) \in Nat /\ Len(s) > 0
  BY LenProperties, EmptySeq
<1>2. /\ Head(s) \in S /\ Head(s) = s[1]
      /\ Tail(s) \in Seq(S) /\ Len(Tail(s)) = Len(s) - 1
      /\ \A i \in 1..Len(Tail(s)) : Tail(s)[i] = s[i + 1]
  BY HeadTailProperties
<1>3. DOMAIN Tail(s) = 1..(Len(s) - 1)
  BY <1>2
<1>4. ASSUME NEW x \in ToSet(s)
      PROVE  x \in ToSet(Tail(s)) \cup {Head(s)}
  <2>1. PICK i \in DOMAIN s : x = s[i]
    BY DEF ToSet
  <2>2. CASE i = 1
    BY <1>2, <2>1, <2>2
  <2>3. CASE i # 1
    <3>1. i - 1 \in DOMAIN Tail(s) /\ x = Tail(s)[i - 1]
      BY <1>1, <1>2, <1>3, <2>1, <2>3
    <3> QED BY <3>1 DEF ToSet
  <2> QED BY <2>2, <2>3
<1>5. ASSUME NEW x \in ToSet(Tail(s))
      PROVE  x \in ToSet(s)
  <2>1. PICK i \in DOMAIN Tail(s) : x = Tail(s)[i]
    BY DEF ToSet
  <2>2. i + 1 \in DOMAIN s /\ x = s[i + 1]
    BY <1>1, <1>2, <1>3, <2>1
  <2> QED BY <2>2 DEF ToSet
<1>6. Head(s) \in ToSet(s)
  BY <1>1, <1>2 DEF ToSet
<1> QED BY <1>2, <1>4, <1>5, <1>6

\* Front and RemoveAt: what is left of a sequence.
LEMMA RemoveLeaves ==
  ASSUME NEW S, NEW s \in Seq(S), NEW i \in 1..Len(s)
  PROVE  /\ RemoveAt(s, i) \in Seq(S) /\ Len(RemoveAt(s, i)) = Len(s) - 1
         /\ \A j \in 1..(Len(s) - 1) :
              RemoveAt(s, i)[j] = IF j < i THEN s[j] ELSE s[j + 1]
<1>1. Len(s) \in Nat /\ \A j \in 1..Len(s) : s[j] \in S
  BY LenProperties, ElementOfSeq
<1> DEFINE a == SubSeq(s, 1, i - 1)
           b == SubSeq(s, i + 1, Len(s))
<1>2. /\ a \in Seq(S) /\ Len(a) = i - 1
      /\ \A j \in 1..(i - 1) : a[j] = s[j]
  <2>1. \A j \in 1..(i - 1) : s[j] \in S
    BY <1>1
  <2>2. 1 \in Int /\ i - 1 \in Int
    BY <1>1
  <2>3. /\ a \in Seq(S) /\ Len(a) = IF 1 <= i - 1 THEN i - 1 - 1 + 1 ELSE 0
        /\ \A j \in 1..(i - 1 - 1 + 1) : a[j] = s[1 + j - 1]
    BY <2>1, <2>2, SubSeqProperties
  <2> QED BY <1>1, <2>3
<1>3. /\ b \in Seq(S) /\ Len(b) = Len(s) - i
      /\ \A j \in 1..(Len(s) - i) : b[j] = s[i + j]
  <2>1. \A j \in (i + 1)..Len(s) : s[j] \in S
    BY <1>1
  <2>2. Len(s) \in Int /\ i + 1 \in Int
    BY <1>1
  <2>3. /\ b \in Seq(S) /\ Len(b) = IF i + 1 <= Len(s) THEN Len(s) - (i + 1) + 1 ELSE 0
        /\ \A j \in 1..(Len(s) - (i + 1) + 1) : b[j] = s[(i + 1) + j - 1]
    BY <2>1, <2>2, SubSeqProperties
  <2> QED BY <1>1, <2>3
<1> HIDE DEF a, b
<1>4. /\ a \o b \in Seq(S) /\ Len(a \o b) = Len(a) + Len(b)
      /\ \A j \in 1..Len(a) + Len(b) :
           (a \o b)[j] = IF j <= Len(a) THEN a[j] ELSE b[j - Len(a)]
  BY <1>2, <1>3, ConcatProperties
<1>5. ASSUME NEW j \in 1..(Len(s) - 1)
      PROVE  (a \o b)[j] = IF j < i THEN s[j] ELSE s[j + 1]
  <2>1. CASE j < i
    BY <1>1, <1>2, <1>3, <1>4, <2>1
  <2>2. CASE j >= i
    <3>1. (a \o b)[j] = b[j - (i - 1)]
      BY <1>1, <1>2, <1>3, <1>4, <2>2
    <3>2. j - (i - 1) \in 1..(Len(s) - i)
      BY <1>1, <2>2
    <3>3. b[j - (i - 1)] = s[i + (j - (i - 1))]
      BY <1>3, <3>2
    <3>4. i + (j - (i - 1)) = j + 1
      BY <1>1
    <3>5. ~(j < i)
      BY <1>1, <2>2
    <3> QED BY <3>1, <3>3, <3>4, <3>5
  <2>3. j < i \/ j >= i
    BY <1>1
  <2> QED BY <2>1, <2>2, <2>3
<1>6. RemoveAt(s, i) = a \o b
  BY DEF RemoveAt, a, b
<1> QED BY <1>1, <1>2, <1>3, <1>4, <1>5, <1>6

LEMMA FrontLeaves ==
  ASSUME NEW S, NEW s \in Seq(S)
  PROVE  /\ Front(s) \in Seq(S)
         /\ Len(Front(s)) = IF s = <<>> THEN 0 ELSE Len(s) - 1
         /\ \A j \in 1..(Len(s) - 1) : Front(s)[j] = s[j]
<1>1. Len(s) \in Nat /\ \A j \in 1..Len(s) : s[j] \in S
  BY LenProperties, ElementOfSeq
<1>2. \A j \in 1..(Len(s) - 1) : s[j] \in S
  BY <1>1
<1>3. 1 \in Int /\ Len(s) - 1 \in Int
  BY <1>1
<1>4. /\ Front(s) \in Seq(S)
      /\ Len(Front(s)) = IF 1 <= Len(s) - 1 THEN Len(s) - 1 - 1 + 1 ELSE 0
      /\ \A j \in 1..(Len(s) - 1 - 1 + 1) : Front(s)[j] = s[1 + j - 1]
  BY <1>2, <1>3, SubSeqProperties DEF Front
<1>5. s = <<>> <=> Len(s) = 0
  BY <1>1, EmptySeq
<1> QED BY <1>1, <1>4, <1>5

-----------------------------------------------------------------------------
(* Lemmas on lists, lines and work                                         *)

LEMMA ListFacts ==
  /\ DOMAIN Lists = 1..4
  /\ ListSet = {<<1, "gpe">>, <<1, "aml">>, <<2, "gpe">>, <<2, "aml">>}
  /\ \A i \in 1..4 : Lists[i] \in ListSet
  /\ \A list \in ListSet : \E i \in 1..4 : Lists[i] = list
  /\ \A g : BlockOf(g) \in Blocks
  /\ \A g : <<BlockOf(g), "gpe">> \in ListSet /\ <<BlockOf(g), "aml">> \in ListSet
<1>1. DOMAIN Lists = 1..4 /\ ListSet = {Lists[i] : i \in 1..4}
  BY DEF Lists, ListSet
<1>2. ListSet = {<<1, "gpe">>, <<1, "aml">>, <<2, "gpe">>, <<2, "aml">>}
  BY DEF Lists, ListSet
<1>3. \A g : BlockOf(g) \in Blocks
  BY DEF BlockOf, Blocks
<1>4. \A g : <<BlockOf(g), "gpe">> \in ListSet /\ <<BlockOf(g), "aml">> \in ListSet
  BY <1>2 DEF BlockOf
<1> QED BY <1>1, <1>2, <1>3, <1>4

LEMMA LineFacts ==
  ASSUME NEW g \in Gpes
  PROVE  /\ g \in Nat /\ LineOf(g) \in Lines /\ Wired(g) \in Lines
         /\ Event(g) \in Events /\ Event(g).gpe = g /\ Event(g).line = LineOf(g)
         /\ Event(g).edge = (g \in EdgeGpes)
<1>1. g \in Nat /\ RegBits \in Nat \ {0} /\ Gpe1Base \in Nat
  BY EventAssumption
<1>2. g % RegBits \in 0..(RegBits - 1) /\ g \div RegBits \in Nat
  BY <1>1
<1>3. LineOf(g) \in Lines
  BY <1>1, <1>2 DEF LineOf, Lines, BlockOf, RegIndex, Base, Blocks
<1>4. Wired(g) \in Lines
  <2>1. CASE BlockRegs[2] > 0 /\ g >= Gpe1Base
    <3>1. g - Gpe1Base \in Nat
      BY <1>1, <2>1
    <3>2. /\ (g - Gpe1Base) % RegBits \in 0..(RegBits - 1)
          /\ (g - Gpe1Base) \div RegBits \in Nat
      BY <1>1, <3>1
    <3> QED BY <2>1, <3>2 DEF Wired, Lines, Blocks
  <2>2. CASE ~(BlockRegs[2] > 0 /\ g >= Gpe1Base)
    BY <1>2, <2>2 DEF Wired, Lines, Blocks
  <2> QED BY <2>1, <2>2
<1> QED BY <1>1, <1>3, <1>4 DEF Event, Events

LEMMA WorkFacts ==
  /\ \A f \in FixedEvents :
       /\ FixedWork(f) \in Works /\ IsFixed(FixedWork(f)) /\ FixedWork(f).of = f
  /\ \A work \in Works :
       IF IsFixed(work)
         THEN work.of \in FixedEvents /\ work = FixedWork(work.of)
         ELSE work \in [list : ListSet, slot : Nat, of : Events]
<1>1. <<0, "fixed">> \notin ListSet
  BY ListFacts
<1> QED BY <1>1 DEF Works, IsFixed, FixedWork

Stages == {"found", "disable", "fn", "clear", "read", "write"}

LEMMA ThreadFacts ==
  /\ Workers \subseteq Handlers /\ Interrupt \in Handlers /\ Interrupt \notin Workers
  /\ Handlers \subseteq Threads /\ Host \in Threads /\ Host \notin Handlers
  /\ Threads = Handlers \cup {Host}
BY EventAssumption DEF Handlers, Threads, Host, Interrupt

LEMMA JobFacts ==
  ASSUME job \in [Handlers -> Jobs], NEW t \in Handlers
  PROVE  /\ Working(t) <=> job[t].at # "idle"
         /\ Working(t) => /\ job[t].work \in Works
                          /\ job[t] = [at |-> job[t].at, work |-> job[t].work]
                          /\ job[t].at \in Stages
         /\ \A at \in {"clear", "read", "disable"} :
              SetJob(t, at) /\ Working(t) =>
                job' = [job EXCEPT ![t] = [at |-> at, work |-> job[t].work]]
BY DEF Jobs, Idle, Working, SetJob, Stages

LEMMA EmptyIsIdle == Idle.at = "idle" /\ Idle \in Jobs
BY DEF Idle, Jobs

LEMMA NewJob ==
  ASSUME NEW at \in Stages, NEW work \in Works
  PROVE  [at |-> at, work |-> work] \in Jobs
BY DEF Jobs, Stages

-----------------------------------------------------------------------------
(* Types                                                                   *)

LEMMA InitTypeOK == Init => TypeOK
<1> SUFFICES ASSUME Init PROVE TypeOK
  OBVIOUS
<1>1. Cardinality(FixedEvents) \in Nat
  BY EventAssumption, FS_CardinalityType
<1>2. {MaxRaises, MaxQueue, MaxChanges} \subseteq Nat
  BY EventAssumption
<1>3. <<>> \in Seq(Events) /\ <<>> \in Seq(Works) /\ Len(<<>>) = 0
  BY EmptySeq
<1>4. events \in [ListSet -> Seq(Events)]
  BY <1>3 DEF Init
<1>5. job \in [Handlers -> Jobs]
  BY EmptyIsIdle DEF Init
<1>6. queue \in Seq(Works) /\ Len(queue) <= MaxQueue + Cardinality(FixedEvents)
  BY <1>1, <1>2, <1>3 DEF Init
<1>7. call \in Calls
  BY DEF Init, Calls
<1> QED BY <1>2, <1>4, <1>5, <1>6, <1>7 DEF Init, TypeOK

\* Bits that a level triggered event latches are bits of the registers.
LEMMA LatchedType ==
  ASSUME TypeOK, NEW bits \in SUBSET Lines
  PROVE  Latched(bits) \subseteq Lines
BY LineFacts DEF Latched, TypeOK

LEMMA FixedHitsFacts ==
  ASSUME TypeOK
  PROVE  LET new == {FixedWork(f) : f \in FixedHits}
         IN  /\ new \subseteq Works
             /\ SetToSeq(new) \in Seq(Works) /\ ToSet(SetToSeq(new)) = new
             /\ Len(SetToSeq(new)) \in Nat
             /\ Len(SetToSeq(new)) <= Cardinality(FixedEvents)
<1> DEFINE new == {FixedWork(f) : f \in FixedHits}
<1>1. FixedHits \subseteq FixedEvents
  BY DEF FixedHits, TypeOK
<1>2. IsFiniteSet(FixedHits) /\ Cardinality(FixedHits) <= Cardinality(FixedEvents)
  BY <1>1, EventAssumption, FS_Subset
<1>3. IsFiniteSet(new) /\ Cardinality(new) <= Cardinality(FixedHits)
  <2> DEFINE m == [f \in FixedHits |-> FixedWork(f)]
  <2>1. m \in Surjection(FixedHits, new)
    BY DEF Surjection
  <2> HIDE DEF m, new
  <2> QED BY <1>2, <2>1, FS_Surjection
<1>4. new \subseteq Works
  BY <1>1, WorkFacts
<1>5. /\ SetToSeq(new) \in Seq(new) /\ Len(SetToSeq(new)) = Cardinality(new)
      /\ ToSet(SetToSeq(new)) = new
  BY <1>3, SetToSeqLists
<1>6. SetToSeq(new) \in Seq(Works)
  BY <1>4, <1>5, SeqMonotonic
<1>7. /\ Cardinality(FixedHits) \in Nat /\ Cardinality(new) \in Nat
      /\ Cardinality(FixedEvents) \in Nat
  BY <1>2, <1>3, EventAssumption, FS_CardinalityType
<1> QED BY <1>2, <1>3, <1>4, <1>5, <1>6, <1>7

\* What check_gpe_events finds is an event of one of the lists.
LEMMA HitFacts ==
  ASSUME TypeOK, HitLists # {}
  PROVE  LET list == Lists[Min(HitLists)]
             i == Min(Hits(list))
         IN  /\ list \in ListSet /\ i \in DOMAIN events[list] /\ i \in Nat
             /\ events[list][i] \in Events /\ events[list][i].line \in sts
             /\ GpeWork(list, i) \in Works /\ ~IsFixed(GpeWork(list, i))
             /\ GpeWork(list, i).list = list /\ GpeWork(list, i).slot = i
             /\ GpeWork(list, i).of = events[list][i]
<1> DEFINE list == Lists[Min(HitLists)]
           i == Min(Hits(list))
<1>1. HitLists \subseteq 1..4
  BY ListFacts DEF HitLists
<1>2. Min(HitLists) \in HitLists
  BY <1>1, MinNat
<1>3. list \in ListSet /\ Hits(list) # {}
  BY <1>1, <1>2, ListFacts DEF HitLists
<1> HIDE DEF list
<1>4. events[list] \in Seq(Events)
  BY <1>3 DEF TypeOK
<1>5. DOMAIN events[list] = 1..Len(events[list]) /\ Len(events[list]) \in Nat
  BY <1>4, LenProperties
<1>6. Hits(list) \in SUBSET Nat /\ Hits(list) \subseteq DOMAIN events[list]
  BY <1>5 DEF Hits
<1>7. i \in Hits(list)
  BY <1>3, <1>6, MinNat
<1> HIDE DEF i
<1>8. i \in DOMAIN events[list] /\ i \in Nat /\ events[list][i].line \in sts
  BY <1>6, <1>7 DEF Hits
<1>9. events[list][i] \in Events
  BY <1>4, <1>5, <1>8, ElementOfSeq
<1>10. /\ GpeWork(list, i) \in Works /\ ~IsFixed(GpeWork(list, i))
       /\ GpeWork(list, i).list = list /\ GpeWork(list, i).slot = i
       /\ GpeWork(list, i).of = events[list][i]
  BY <1>3, <1>8, <1>9, ListFacts DEF GpeWork, Works, IsFixed
<1> QED BY <1>3, <1>8, <1>9, <1>10 DEF list, i

LEMMA RaiseTypeOK ==
  ASSUME TypeOK, Raise
  PROVE  TypeOK'
<1>1. ASSUME NEW g \in Gpes, RaiseGpe(g)
      PROVE  TypeOK'
  <2>1. sts' \subseteq Lines
    BY <1>1, LineFacts DEF RaiseGpe, TypeOK
  <2>2. raises' \in [Gpes \cup FixedEvents -> 0..MaxRaises]
    BY <1>1, EventAssumption DEF RaiseGpe, TypeOK
  <2> QED BY <1>1, <2>1, <2>2 DEF RaiseGpe, TypeOK, context, threads, host
<1>2. ASSUME NEW f \in FixedEvents, RaiseFixed(f)
      PROVE  TypeOK'
  <2>1. raises' \in [Gpes \cup FixedEvents -> 0..MaxRaises]
    BY <1>2, EventAssumption DEF RaiseFixed, TypeOK
  <2> QED BY <1>2, <2>1 DEF RaiseFixed, TypeOK, context, threads, host
<1> QED BY <1>1, <1>2 DEF Raise

\* What a worker is about in each of its steps.
LEMMA GpeJob ==
  ASSUME TypeOK, NEW t \in Handlers, Working(t), ~IsFixed(job[t].work)
  PROVE  /\ job[t].work.of \in Events /\ job[t].work.list \in ListSet
         /\ job[t].work \in [list : ListSet, slot : Nat, of : Events]
         /\ \E g \in Gpes : /\ job[t].work.of = Event(g) /\ job[t].work.of.gpe = g
                            /\ job[t].work.of.line = LineOf(g)
                            /\ job[t].work.of.line \in Lines
<1>1. job[t].work \in Works
  BY JobFacts DEF TypeOK
<1>2. job[t].work \in [list : ListSet, slot : Nat, of : Events]
  BY <1>1, WorkFacts
<1>3. PICK g \in Gpes : job[t].work.of = Event(g)
  BY <1>2 DEF Events
<1> QED BY <1>2, <1>3, LineFacts

\* What is at the address of work on a GPE is an event of some GPE.
LEMMA AtFacts ==
  ASSUME TypeOK, NEW t \in Handlers, Working(t), ~IsFixed(job[t].work),
         NEW event \in At(job[t].work)
  PROVE  event \in Events /\ event.line \in Lines
<1>1. job[t].work.list \in ListSet
  BY GpeJob
<1>2. events[job[t].work.list] \in Seq(Events)
  BY <1>1 DEF TypeOK
<1>3. \A i \in DOMAIN events[job[t].work.list] : events[job[t].work.list][i] \in Events
  BY <1>2, LenProperties, ElementOfSeq
<1>4. event \in Events
  BY <1>3 DEF At
<1>5. PICK g \in Gpes : event = Event(g)
  BY <1>4 DEF Events
<1> QED BY <1>4, <1>5, LineFacts

\* Only work on a GPE gets past its handler, and only events of GPEs are looked up;
\* between its read and its write of a register a thread knows what it read.
ThreadsOK ==
  /\ \A t \in Handlers :
       /\ job[t].at \in Stages \ {"fn"} => ~IsFixed(job[t].work)
       /\ job[t].at \in {"write", "disable"} <=> read[t] # Unread
  /\ Working(Interrupt) => Len(queue) < MaxQueue
  /\ read[Host] # Unread => call.op \in {"enable", "disable"}

LEMMA WorkingAt ==
  ASSUME TypeOK, NEW t \in Handlers, job[t].at \in Stages
  PROVE  /\ Working(t) /\ job[t].work \in Works
         /\ job[t] = [at |-> job[t].at, work |-> job[t].work]
BY JobFacts DEF TypeOK, Stages

LEMMA SetJobType ==
  ASSUME TypeOK, NEW t \in Handlers, Working(t),
         NEW at \in {"clear", "read", "disable"}, SetJob(t, at)
  PROVE  /\ job' \in [Handlers -> Jobs]
         /\ job' = [job EXCEPT ![t] = [at |-> at, work |-> job[t].work]]
<1>1. job' = [job EXCEPT ![t] = [at |-> at, work |-> job[t].work]]
  BY JobFacts DEF TypeOK
<1>2. [at |-> at, work |-> job[t].work] \in Jobs
  BY JobFacts, NewJob DEF TypeOK, Stages
<1> QED BY <1>1, <1>2 DEF TypeOK

\* A worker that reads a register has the event it found at its address.
LEMMA ReadJob ==
  ASSUME TypeOK, ThreadsOK, NEW w \in Handlers, WorkRead(w)
  PROVE  \E event \in At(job[w].work) :
           LET new == [at |-> "write", work |-> [job[w].work EXCEPT !.of = event]]
           IN  /\ event \in Events /\ event.line \in Lines /\ ReadEnable(w, event.line)
               /\ new \in Jobs /\ ~IsFixed(new.work) /\ new.work.of = event
               /\ job' = [job EXCEPT ![w] = new]
<1>1. job[w].at = "read" /\ job[w].at \in Stages \ {"fn"}
  BY DEF WorkRead, Stages
<1>2. /\ Working(w) /\ ~IsFixed(job[w].work)
      /\ job[w] = [at |-> job[w].at, work |-> job[w].work]
  BY <1>1, WorkingAt DEF ThreadsOK
<1>3. PICK event \in At(job[w].work) :
        /\ ReadEnable(w, event.line)
        /\ job' = [job EXCEPT ![w].at = "write", ![w].work.of = event]
  BY DEF WorkRead
<1>4. event \in Events /\ event.line \in Lines
  BY <1>2, AtFacts
<1> DEFINE of == [job[w].work EXCEPT !.of = event]
           new == [at |-> "write", work |-> of]
<1>5. job[w].work \in [list : ListSet, slot : Nat, of : Events]
  BY <1>2, GpeJob
<1>6. of \in [list : ListSet, slot : Nat, of : Events] /\ of.of = event /\ of.list = job[w].work.list
  BY <1>4, <1>5
<1>7. of \in Works
  BY <1>6 DEF Works
<1>8. ~IsFixed(of)
  BY <1>2, <1>6 DEF IsFixed
<1>9. job' = [job EXCEPT ![w] = new]
  <2>1. job \in [Handlers -> Jobs]
    BY DEF TypeOK
  <2>2. [job EXCEPT ![w].at = "write", ![w].work.of = event] =
          [job EXCEPT ![w] = [[job[w] EXCEPT !.at = "write"] EXCEPT !.work.of = event]]
    BY <2>1
  <2>3. [job[w] EXCEPT !.at = "write"] = [at |-> "write", work |-> job[w].work]
    BY <1>2
  <2>4. [[at |-> "write", work |-> job[w].work] EXCEPT !.work.of = event] = new
    OBVIOUS
  <2> QED BY <1>3, <2>2, <2>3, <2>4
<1>10. new \in Jobs /\ new.work = of
  BY <1>7, NewJob DEF Stages
<1> QED BY <1>3, <1>4, <1>6, <1>8, <1>9, <1>10

LEMMA SameRegType ==
  ASSUME NEW line \in Lines
  PROVE  SameReg(line) \subseteq Lines /\ line \in SameReg(line)
BY DEF SameReg, Lines

LEMMA ReadType ==
  ASSUME NEW bits \in SUBSET Lines
  PROVE  bits # Unread
<1>1. \A l \in Lines : l[1] # 0
  BY DEF Lines, Blocks
<1>2. <<0, 0, 0>> \notin Lines
  BY <1>1
<1> QED BY <1>2 DEF Unread

\* A write of an enable register.
LEMMA WriteType ==
  ASSUME TypeOK, NEW t \in Threads, NEW line \in Lines, NEW bits \in SUBSET Lines,
         WriteEnable(t, line, bits)
  PROVE  /\ en' \subseteq Lines /\ lost' \subseteq Lines /\ DOMAIN read' = Threads
         /\ \A u \in DOMAIN read' : read'[u] = Unread \/ read'[u] \subseteq Lines
         /\ read'[t] = Unread /\ \A u \in Threads \ {t} : read'[u] = read[u]
BY DEF TypeOK, WriteEnable, Written

LEMMA SciTypeOK ==
  ASSUME TypeOK, ThreadsOK, Sci
  PROVE  TypeOK'
<1>1. queue \in Seq(Works) /\ Len(queue) \in Nat
  BY EmptySeq, LenProperties DEF TypeOK
<1>2. Cardinality(FixedEvents) \in Nat /\ MaxQueue \in Nat
  BY EventAssumption, FS_CardinalityType
<1>3. CASE SciFixed
  <2> DEFINE new == SetToSeq({FixedWork(f) : f \in FixedHits})
  <2>1. new \in Seq(Works) /\ Len(new) \in Nat /\ Len(new) <= Cardinality(FixedEvents)
    BY FixedHitsFacts
  <2>2. queue' = queue \o new /\ Len(queue) < MaxQueue
    BY <1>3 DEF SciFixed, Delivered
  <2> HIDE DEF new
  <2>3. queue' \in Seq(Works) /\ Len(queue') = Len(queue) + Len(new)
    BY <1>1, <2>1, <2>2, ConcatProperties
  <2>4. Len(queue') <= MaxQueue + Cardinality(FixedEvents)
    BY <1>1, <1>2, <2>1, <2>2, <2>3
  <2> QED BY <1>3, <2>3, <2>4 DEF SciFixed, TypeOK, devices, context, host
<1>4. CASE SciFind
  <2> DEFINE list == Lists[Min(HitLists)]
             new == [at |-> "found", work |-> GpeWork(list, Min(Hits(list)))]
  <2>1. HitLists # {} /\ job' = [job EXCEPT ![Interrupt] = new]
    BY <1>4 DEF SciFind
  <2>2. new \in Jobs
    BY <2>1, HitFacts, NewJob DEF Stages
  <2> HIDE DEF new
  <2>3. job' \in [Handlers -> Jobs]
    BY <2>1, <2>2 DEF TypeOK
  <2> QED BY <1>4, <2>3 DEF SciFind, TypeOK, hardware, devices, context, host
<1>5. CASE SciRead
  <2>1. Working(Interrupt) /\ SetJob(Interrupt, "disable")
    BY <1>5, ThreadFacts, WorkingAt DEF SciRead, Stages
  <2>2. job' \in [Handlers -> Jobs]
    BY <2>1, ThreadFacts, SetJobType
  <2>3. /\ DOMAIN read' = Threads
        /\ \A t \in DOMAIN read' : read'[t] = Unread \/ read'[t] \subseteq Lines
    BY <1>5 DEF SciRead, ReadEnable, TypeOK
  <2> QED BY <1>5, <2>2, <2>3 DEF SciRead, TypeOK, hardware, devices, context, host
<1>6. CASE SciWrite
  <2> DEFINE event == job[Interrupt].work.of
  <2>1. /\ Working(Interrupt) /\ ~IsFixed(job[Interrupt].work)
        /\ Interrupt \in Threads /\ read[Interrupt] # Unread
    BY <1>6, ThreadFacts, WorkingAt DEF SciWrite, Stages, ThreadsOK
  <2>2. job[Interrupt].work \in Works /\ event.line \in Lines
    BY <2>1, ThreadFacts, GpeJob, JobFacts DEF TypeOK
  <2>3. /\ WriteEnable(Interrupt, event.line, read[Interrupt] \ {event.line})
        /\ sts' = IF event.edge THEN Latched(sts \ {event.line}) ELSE sts
        /\ queue' = Append(queue, job[Interrupt].work)
        /\ job' = [job EXCEPT ![Interrupt] = Idle]
    BY <1>6 DEF SciWrite
  <2>4. read[Interrupt] \ {event.line} \in SUBSET Lines
    BY <2>1 DEF TypeOK
  <2>5. /\ en' \subseteq Lines /\ lost' \subseteq Lines /\ DOMAIN read' = Threads
        /\ \A t \in DOMAIN read' : read'[t] = Unread \/ read'[t] \subseteq Lines
    BY <2>1, <2>2, <2>3, <2>4, WriteType
  <2>6. Len(queue) < MaxQueue
    BY <2>1 DEF ThreadsOK
  <2>7. queue' \in Seq(Works) /\ Len(queue') = Len(queue) + 1
    BY <1>1, <2>2, <2>3, AppendProperties
  <2>8. Len(queue') <= MaxQueue + Cardinality(FixedEvents)
    BY <1>1, <1>2, <2>6, <2>7
  <2>9. sts \ {event.line} \in SUBSET Lines
    BY DEF TypeOK
  <2>10. sts' \subseteq Lines
    BY <2>3, <2>9, LatchedType DEF TypeOK
  <2>11. job' \in [Handlers -> Jobs]
    BY <2>3, EmptyIsIdle DEF TypeOK
  <2> QED BY <1>6, <2>5, <2>7, <2>8, <2>10, <2>11
           DEF SciWrite, TypeOK, devices, context, host
<1> QED BY <1>3, <1>4, <1>5, <1>6 DEF Sci

LEMMA InitThreadsOK == Init => ThreadsOK
BY EmptyIsIdle, ThreadFacts DEF Init, ThreadsOK, Working, Stages

LEMMA WorkTypeOK ==
  ASSUME TypeOK, ThreadsOK, NEW w \in Handlers, Work(w)
  PROVE  TypeOK'
<1>1. CASE WorkStart(w)
  <2>1. queue \in Seq(Works) /\ queue # <<>> /\ Len(queue) \in Nat
    BY <1>1, LenProperties DEF WorkStart, TypeOK
  <2>2. Head(queue) \in Works /\ queue' \in Seq(Works) /\ Len(queue') = Len(queue) - 1
    BY <1>1, <2>1, HeadTailProperties DEF WorkStart
  <2>3. MaxQueue + Cardinality(FixedEvents) \in Nat
    BY EventAssumption, FS_CardinalityType
  <2>4. Len(queue') <= MaxQueue + Cardinality(FixedEvents)
    BY <2>1, <2>2, <2>3 DEF TypeOK
  <2>5. job' \in [Handlers -> Jobs]
    BY <1>1, <2>2, NewJob DEF WorkStart, TypeOK, Stages
  <2> QED BY <1>1, <2>2, <2>4, <2>5
           DEF WorkStart, TypeOK, hardware, devices, context, host
<1>2. CASE WorkGpeFn(w)
  <2>1. Working(w)
    BY <1>2, WorkingAt DEF WorkGpeFn, Stages
  <2>2. job' \in [Handlers -> Jobs]
    BY <1>2, <2>1, SetJobType DEF WorkGpeFn
  <2>3. wants' \subseteq wants
    BY <1>2 DEF WorkGpeFn
  <2> QED BY <1>2, <2>2, <2>3 DEF WorkGpeFn, TypeOK, hardware, context, host
<1>3. CASE WorkFixedFn(w)
  <2>1. job' \in [Handlers -> Jobs]
    BY <1>3, EmptyIsIdle DEF WorkFixedFn, TypeOK
  <2> QED BY <1>3, <2>1 DEF WorkFixedFn, TypeOK, hardware, context, host
<1>4. CASE WorkClear(w)
  <2>1. Working(w) /\ ~IsFixed(job[w].work)
    BY <1>4, WorkingAt DEF WorkClear, Stages, ThreadsOK
  <2>2. job' \in [Handlers -> Jobs]
    BY <1>4, <2>1, SetJobType DEF WorkClear
  <2>3. PICK event \in At(job[w].work) :
          sts' = IF event.edge THEN sts ELSE Latched(sts \ {event.line})
    BY <1>4 DEF WorkClear
  <2>4. sts \ {event.line} \in SUBSET Lines
    BY DEF TypeOK
  <2>5. sts' \subseteq Lines
    BY <2>3, <2>4, LatchedType DEF TypeOK
  <2> QED BY <1>4, <2>2, <2>5 DEF WorkClear, TypeOK, devices, context, host
<1>5. CASE WorkRead(w)
  <2>1. PICK event \in At(job[w].work) :
          LET new == [at |-> "write", work |-> [job[w].work EXCEPT !.of = event]]
          IN  /\ event \in Events /\ event.line \in Lines /\ ReadEnable(w, event.line)
              /\ new \in Jobs /\ ~IsFixed(new.work) /\ new.work.of = event
              /\ job' = [job EXCEPT ![w] = new]
    BY <1>5, ReadJob
  <2>2. job' \in [Handlers -> Jobs]
    BY <2>1 DEF TypeOK
  <2>3. /\ DOMAIN read' = Threads
        /\ \A t \in DOMAIN read' : read'[t] = Unread \/ read'[t] \subseteq Lines
    BY <2>1 DEF ReadEnable, TypeOK
  <2> QED BY <1>5, <2>2, <2>3 DEF WorkRead, TypeOK, hardware, devices, context, host
<1>6. CASE WorkWrite(w)
  <2> DEFINE line == job[w].work.of.line
  <2>1. job[w].at = "write" /\ job[w].at \in Stages \ {"fn"} /\ w \in Threads
    BY <1>6, ThreadFacts DEF WorkWrite, Stages
  <2>2. Working(w) /\ ~IsFixed(job[w].work) /\ read[w] # Unread
    BY <2>1, WorkingAt DEF ThreadsOK
  <2>3. job' \in [Handlers -> Jobs]
    BY <1>6, EmptyIsIdle DEF WorkWrite, TypeOK
  <2>4. line \in Lines
    BY <2>2, GpeJob
  <2>5. read[w] \cup {line} \in SUBSET Lines
    BY <2>1, <2>2, <2>4 DEF TypeOK
  <2>6. WriteEnable(w, line, read[w] \cup {line})
    BY <1>6 DEF WorkWrite
  <2> HIDE DEF line
  <2>7. /\ en' \subseteq Lines /\ lost' \subseteq Lines /\ DOMAIN read' = Threads
        /\ \A u \in DOMAIN read' : read'[u] = Unread \/ read'[u] \subseteq Lines
    BY <2>1, <2>4, <2>5, <2>6, WriteType
  <2> QED BY <1>6, <2>3, <2>7 DEF WorkWrite, TypeOK, devices, context, host
<1> QED BY <1>1, <1>2, <1>3, <1>4, <1>5, <1>6 DEF Work

\* What a call has in hand.
LEMMA CallFacts ==
  ASSUME TypeOK
  PROVE  /\ call.op = "enable" => call.list \in ListSet /\ call.line \in Lines
         /\ call.op \in {"disable", "remove"} => call.gpe \in Gpes /\ call.line \in Lines
         /\ call.op \in {"store", "clear"} => call.event \in FixedEvents
         /\ call.op \in {"disable", "remove"} =>
              call = [op |-> call.op, gpe |-> call.gpe, line |-> call.line]
         /\ call = NoCall <=> call.op = "none"
BY DEF TypeOK, Calls, NoCall

LEMMA NewCall ==
  /\ NoCall \in Calls /\ NoCall.op = "none"
  /\ \A list \in ListSet, line \in Lines :
       [op |-> "enable", list |-> list, line |-> line] \in Calls
  /\ \A g \in Gpes, line \in Lines, op \in {"disable", "remove"} :
       [op |-> op, gpe |-> g, line |-> line] \in Calls
  /\ \A f \in FixedEvents, op \in {"store", "clear"} :
       [op |-> op, event |-> f] \in Calls
BY DEF Calls, NoCall

LEMMA PushTypeOK ==
  ASSUME TypeOK, NEW g \in Gpes, NEW list \in ListSet, Push(g, list)
  PROVE  TypeOK'
<1>1. Event(g) \in Events /\ LineOf(g) \in Lines
  BY LineFacts
<1>2. events[list] \in Seq(Events)
  BY DEF TypeOK
<1>3. Append(events[list], Event(g)) \in Seq(Events)
  BY <1>1, <1>2, AppendProperties
<1>4. events' \in [ListSet -> Seq(Events)]
  BY <1>3 DEF Push, TypeOK
<1>5. call' \in Calls
  BY <1>1, NewCall DEF Push
<1>6. changes' \in 0..MaxChanges
  BY EventAssumption DEF Push, MayChange, MayCall, TypeOK
<1> QED BY <1>4, <1>5, <1>6 DEF Push, TypeOK, hardware, devices, threads

LEMMA BeginCallCases ==
  ASSUME BeginCall
  PROVE  \/ \E g \in Gpes, list \in ListSet :
              Push(g, list) /\ BlockOf(g) = list[1]
         \/ \E g \in Gpes : DisableGpe(g)
         \/ \E f \in FixedEvents : EnableFixed(f) \/ DisableFixed(f)
<1>1. ASSUME NEW g \in NativeGpes, EnableGpe(g)
      PROVE  \E list \in ListSet : Push(g, list) /\ BlockOf(g) = list[1]
  BY <1>1, ListFacts DEF EnableGpe
<1>2. ASSUME NEW method \in AmlMethods, EnableAmlGpe(method)
      PROVE  \E list \in ListSet :
               Push(GpeOf(method), list) /\ BlockOf(GpeOf(method)) = list[1]
  BY <1>2, ListFacts DEF EnableAmlGpe
<1> QED BY <1>1, <1>2 DEF BeginCall, Gpes, AmlGpes

LEMMA BeginCallTypeOK ==
  ASSUME TypeOK, BeginCall
  PROVE  TypeOK'
<1>1. ASSUME NEW g \in Gpes, NEW list \in ListSet, Push(g, list)
      PROVE  TypeOK'
  BY <1>1, PushTypeOK
<1>2. ASSUME NEW g \in Gpes, DisableGpe(g)
      PROVE  TypeOK'
  <2>1. call' \in Calls
    BY <1>2, NewCall, LineFacts DEF DisableGpe
  <2>2. changes' \in 0..MaxChanges
    BY <1>2, EventAssumption DEF DisableGpe, MayChange, MayCall, TypeOK
  <2> QED BY <1>2, <2>1, <2>2 DEF DisableGpe, TypeOK, hardware, devices, context, threads
<1>3. ASSUME NEW f \in FixedEvents, EnableFixed(f)
      PROVE  TypeOK'
  <2>1. call' \in Calls
    BY <1>3, NewCall DEF EnableFixed
  <2>2. changes' \in 0..MaxChanges
    BY <1>3, EventAssumption DEF EnableFixed, MayCall, TypeOK
  <2> QED BY <1>3, <2>1, <2>2 DEF EnableFixed, TypeOK, devices, context, threads
<1>4. ASSUME NEW f \in FixedEvents, DisableFixed(f)
      PROVE  TypeOK'
  <2>1. call' \in Calls
    BY <1>4, NewCall DEF DisableFixed
  <2>2. changes' \in 0..MaxChanges
    BY <1>4, EventAssumption DEF DisableFixed, MayDisable, MayCall, TypeOK
  <2> QED BY <1>4, <2>1, <2>2 DEF DisableFixed, TypeOK, devices, context, threads
<1> QED BY <1>1, <1>2, <1>3, <1>4, BeginCallCases

LEMMA EndCallTypeOK ==
  ASSUME TypeOK, ThreadsOK, EndCall
  PROVE  TypeOK'
<1>1. CASE CallRead
  <2>1. /\ DOMAIN read' = Threads
        /\ \A t \in DOMAIN read' : read'[t] = Unread \/ read'[t] \subseteq Lines
    BY <1>1 DEF CallRead, ReadEnable, TypeOK
  <2> QED BY <1>1, <2>1 DEF CallRead, TypeOK, hardware, devices, context, host
<1> DEFINE Cleared == /\ DOMAIN read' = Threads
                      /\ \A t \in DOMAIN read' : read'[t] = Unread \/ read'[t] \subseteq Lines
<1>2. ASSUME read' = [read EXCEPT ![Host] = Unread]
      PROVE  Cleared
  BY <1>2 DEF TypeOK
<1>3. ASSUME NEW bits \in SUBSET Lines, call.line \in Lines,
             WriteEnable(Host, call.line, bits)
      PROVE  Cleared /\ en' \subseteq Lines /\ lost' \subseteq Lines
  BY <1>3, ThreadFacts, WriteType
<1> HIDE DEF Cleared
<1>4. CASE EnableWrite
  <2>1. /\ call.line \in Lines /\ read[Host] # Unread
        /\ WriteEnable(Host, call.line, read[Host] \cup {call.line})
    BY <1>4, CallFacts DEF EnableWrite
  <2>2. read[Host] \cup {call.line} \in SUBSET Lines
    BY <2>1, ThreadFacts DEF TypeOK
  <2>3. Cleared /\ en' \subseteq Lines /\ lost' \subseteq Lines
    BY <1>3, <2>1, <2>2
  <2> QED BY <1>4, <2>3, NewCall
           DEF EnableWrite, TypeOK, devices, context, Cleared
<1>5. CASE EnableFails
  <2>1. Cleared /\ call.list \in ListSet
    BY <1>2, <1>5, CallFacts DEF EnableFails
  <2>2. events' \in [ListSet -> Seq(Events)]
    BY <1>5, <2>1, FrontLeaves DEF EnableFails, TypeOK
  <2> QED BY <1>5, <2>1, <2>2, NewCall
           DEF EnableFails, TypeOK, hardware, devices, Cleared
<1>6. CASE DisableWrite
  <2>1. /\ call.line \in Lines /\ read[Host] # Unread
        /\ WriteEnable(Host, call.line, read[Host] \ {call.line})
    BY <1>6, CallFacts DEF DisableWrite
  <2>2. Cleared /\ en' \subseteq Lines /\ lost' \subseteq Lines
    <3>1. read[Host] \ {call.line} \in SUBSET Lines
      BY <2>1, ThreadFacts DEF TypeOK
    <3> QED BY <1>3, <2>1, <3>1
  <2>3. call' \in Calls
    <3>1. call = [op |-> "disable", gpe |-> call.gpe, line |-> call.line]
      BY <1>6, CallFacts DEF DisableWrite
    <3>2. call' = [op |-> "remove", gpe |-> call.gpe, line |-> call.line]
      BY <1>6, <3>1 DEF DisableWrite
    <3> QED BY <1>6, <3>2, CallFacts, NewCall DEF DisableWrite
  <2> QED BY <1>6, <2>2, <2>3
           DEF DisableWrite, TypeOK, devices, context, Cleared
<1>7. CASE RemoveGpe
  <2> DEFINE list == <<BlockOf(call.gpe), "gpe">>
             i == Min(Matches(list, call.line))
  <2>1. list \in ListSet
    BY ListFacts
  <2> HIDE DEF list
  <2>2. events[list] \in Seq(Events) /\ DOMAIN events[list] = 1..Len(events[list])
    BY <2>1, LenProperties DEF TypeOK
  <2>3. CASE Matches(list, call.line) # {}
    <3>1. i \in 1..Len(events[list])
      <4>1. Matches(list, call.line) \in SUBSET Nat
        BY <2>2 DEF Matches
      <4>2. i \in Matches(list, call.line)
        BY <2>3, <4>1, MinNat
      <4> QED BY <2>2, <4>2 DEF Matches
    <3> HIDE DEF i
    <3>2. RemoveAt(events[list], i) \in Seq(Events)
      BY <2>2, <3>1, RemoveLeaves
    <3>3. events' = [events EXCEPT ![list] = RemoveAt(@, i)]
      BY <1>7, <2>3 DEF RemoveGpe, list, i
    <3> QED BY <1>7, <3>2, <3>3, NewCall
             DEF RemoveGpe, TypeOK, hardware, devices, threads
  <2>4. CASE Matches(list, call.line) = {}
    <3>1. events' = events
      BY <1>7, <2>4 DEF RemoveGpe, list
    <3> QED BY <1>7, <3>1, NewCall DEF RemoveGpe, TypeOK, hardware, devices, threads
  <2> QED BY <2>3, <2>4
<1>8. CASE StoreFixed
  BY <1>8, CallFacts, NewCall DEF StoreFixed, TypeOK, hardware, devices, threads
<1>9. CASE ClearFixed
  BY <1>9, CallFacts, NewCall DEF ClearFixed, TypeOK, hardware, threads
<1> QED BY <1>1, <1>4, <1>5, <1>6, <1>7, <1>8, <1>9 DEF EndCall

LEMMA WorkThreadsOK ==
  ASSUME TypeOK, ThreadsOK, NEW w \in Workers, Work(w)
  PROVE  ThreadsOK'
<1>1. /\ w \in Handlers /\ w # Interrupt /\ Interrupt \in Handlers /\ Host \notin Handlers
      /\ DOMAIN read = Handlers \cup {Host} /\ job \in [Handlers -> Jobs]
  BY ThreadFacts DEF TypeOK
<1> DEFINE Fits == /\ job'[w].at \in Stages \ {"fn"} => ~IsFixed(job'[w].work)
                   /\ job'[w].at \in {"write", "disable"} <=> read'[w] # Unread
<1>2. ASSUME NEW new \in Jobs, job' = [job EXCEPT ![w] = new], Fits,
             \A t \in Threads \ {w} : read'[t] = read[t],
             Len(queue') <= Len(queue), UNCHANGED call
      PROVE  ThreadsOK'
  <2>1. \A t \in Handlers \ {w} : job'[t] = job[t] /\ read'[t] = read[t]
    BY <1>1, <1>2, ThreadFacts
  <2>2. read'[Host] = read[Host] /\ job'[Interrupt] = job[Interrupt]
    BY <1>1, <1>2, ThreadFacts
  <2>3. Working(Interrupt)' => Len(queue') < MaxQueue
    <3>1. Len(queue) \in Nat /\ Len(queue') \in Nat /\ MaxQueue \in Nat
      <4>1. queue \in Seq(Works) /\ queue' \in Seq(Works)
        BY <1>1, WorkTypeOK DEF TypeOK
      <4> QED BY <4>1, LenProperties, EventAssumption
    <3> QED BY <1>2, <2>2, <3>1 DEF Working, ThreadsOK
  <2> QED BY <1>2, <2>1, <2>2, <2>3 DEF ThreadsOK
<1>3. job[w].at \in Stages \ {"fn"} => ~IsFixed(job[w].work)
  BY <1>1 DEF ThreadsOK
<1>4. read[w] # Unread => job[w].at \in {"write", "disable"}
  BY <1>1 DEF ThreadsOK
<1>5. Idle \in Jobs /\ Idle.at \notin Stages
  BY EmptyIsIdle DEF Stages
<1> HIDE DEF Fits
<1>6. ASSUME NEW new \in Jobs, job' = [job EXCEPT ![w] = new], UNCHANGED <<read, call>>,
             new.at \notin {"write", "disable"},
             new.at \in Stages \ {"fn"} => ~IsFixed(new.work),
             job[w].at \notin {"write", "disable"}, Len(queue') <= Len(queue)
      PROVE  ThreadsOK'
  <2>1. job'[w] = new
    BY <1>1, <1>6
  <2>2. Fits
    BY <1>4, <1>6, <2>1 DEF Fits
  <2> QED BY <1>2, <1>6, <2>2
<1>7. UNCHANGED queue => Len(queue') <= Len(queue)
  <2>1. queue \in Seq(Works)
    BY DEF TypeOK
  <2> QED BY <2>1, LenProperties
<1>8. CASE WorkStart(w)
  <2> DEFINE new == [at |-> "fn", work |-> Head(queue)]
  <2>1. queue \in Seq(Works) /\ queue # <<>> /\ queue' = Tail(queue) /\ Len(queue) \in Nat
    BY <1>8, LenProperties DEF WorkStart, TypeOK
  <2>2. Head(queue) \in Works /\ Len(queue') <= Len(queue)
    BY <2>1, HeadTailProperties
  <2>3. new \in Jobs /\ new.at = "fn"
    BY <2>2, NewJob DEF Stages
  <2>4. job' = [job EXCEPT ![w] = new] /\ UNCHANGED <<read, call>> /\ job[w] = Idle
    BY <1>8 DEF WorkStart, Working, host
  <2> HIDE DEF new
  <2> QED BY <1>5, <1>6, <2>2, <2>3, <2>4, EmptyIsIdle
<1>9. CASE WorkGpeFn(w)
  <2> DEFINE new == [at |-> "clear", work |-> job[w].work]
  <2>1. Working(w) /\ job[w].work \in Works /\ job[w].at = "fn" /\ ~IsFixed(job[w].work)
    BY <1>1, <1>9, WorkingAt DEF WorkGpeFn, Stages
  <2>2. job' = [job EXCEPT ![w] = new] /\ UNCHANGED <<read, call, queue>>
    BY <1>1, <1>9, <2>1, SetJobType DEF WorkGpeFn, host
  <2>3. new \in Jobs /\ new.at = "clear" /\ new.work = job[w].work
    BY <2>1, NewJob DEF Stages
  <2> HIDE DEF new
  <2> QED BY <1>6, <1>7, <2>1, <2>2, <2>3
<1>10. CASE WorkFixedFn(w)
  <2>1. /\ job' = [job EXCEPT ![w] = Idle] /\ UNCHANGED <<read, call, queue>>
        /\ job[w].at = "fn"
    BY <1>10 DEF WorkFixedFn, host
  <2> QED BY <1>5, <1>6, <1>7, <2>1, EmptyIsIdle
<1>11. CASE WorkClear(w)
  <2> DEFINE new == [at |-> "read", work |-> job[w].work]
  <2>1. Working(w) /\ job[w].work \in Works /\ job[w].at = "clear" /\ ~IsFixed(job[w].work)
    BY <1>1, <1>3, <1>11, WorkingAt DEF WorkClear, Stages
  <2>2. job' = [job EXCEPT ![w] = new] /\ UNCHANGED <<read, call, queue>>
    BY <1>1, <1>11, <2>1, SetJobType DEF WorkClear, host
  <2>3. new \in Jobs /\ new.at = "read" /\ new.work = job[w].work
    BY <2>1, NewJob DEF Stages
  <2> HIDE DEF new
  <2> QED BY <1>6, <1>7, <2>1, <2>2, <2>3
<1>12. CASE WorkRead(w)
  <2>1. PICK event \in At(job[w].work) :
          LET new == [at |-> "write", work |-> [job[w].work EXCEPT !.of = event]]
          IN  /\ event \in Events /\ event.line \in Lines /\ ReadEnable(w, event.line)
              /\ new \in Jobs /\ ~IsFixed(new.work) /\ new.work.of = event
              /\ job' = [job EXCEPT ![w] = new]
    BY <1>1, <1>12, ReadJob
  <2> DEFINE new == [at |-> "write", work |-> [job[w].work EXCEPT !.of = event]]
  <2>2. new \in Jobs /\ ~IsFixed(new.work) /\ new.at = "write" /\ job' = [job EXCEPT ![w] = new]
    BY <2>1
  <2> HIDE DEF new
  <2>3. /\ read'[w] = en \cap SameReg(event.line)
        /\ \A t \in Threads \ {w} : read'[t] = read[t]
    BY <1>1, <2>1, ThreadFacts DEF ReadEnable
  <2>4. read'[w] # Unread
    <3>1. en \cap SameReg(event.line) \in SUBSET Lines
      BY DEF TypeOK
    <3> QED BY <2>3, <3>1, ReadType
  <2>5. job'[w] = new
    BY <1>1, <2>2
  <2>6. UNCHANGED <<call, queue>>
    BY <1>12 DEF WorkRead, host
  <2>7. Fits
    BY <2>2, <2>4, <2>5 DEF Fits
  <2> QED BY <1>2, <1>7, <2>2, <2>3, <2>6, <2>7
<1>13. CASE WorkWrite(w)
  <2>1. /\ job' = [job EXCEPT ![w] = Idle] /\ UNCHANGED <<call, queue>>
        /\ read' = [read EXCEPT ![w] = Unread]
    BY <1>13 DEF WorkWrite, WriteEnable, host
  <2>2. read'[w] = Unread /\ \A t \in Threads \ {w} : read'[t] = read[t]
    BY <1>1, <2>1, ThreadFacts
  <2>3. job'[w] = Idle
    BY <1>1, <2>1
  <2>4. Fits
    BY <1>5, <2>2, <2>3, EmptyIsIdle DEF Fits
  <2> QED BY <1>2, <1>5, <1>7, <2>1, <2>2, <2>4
<1> QED BY <1>8, <1>9, <1>10, <1>11, <1>12, <1>13 DEF Work

LEMMA SciThreadsOK ==
  ASSUME TypeOK, ThreadsOK, Sci
  PROVE  ThreadsOK'
<1>1. /\ Interrupt \in Handlers /\ Host \notin Handlers
      /\ DOMAIN read = Handlers \cup {Host} /\ job \in [Handlers -> Jobs]
  BY ThreadFacts DEF TypeOK
<1>2. UNCHANGED call
  BY DEF Sci, SciFixed, SciFind, SciRead, SciWrite, host
<1>3. CASE SciFixed
  <2>1. UNCHANGED <<job, read>> /\ ~Working(Interrupt)
    BY <1>3 DEF SciFixed, Delivered
  <2> QED BY <1>2, <2>1 DEF ThreadsOK, Working
<1>4. CASE SciFind
  <2> DEFINE list == Lists[Min(HitLists)]
             work == GpeWork(list, Min(Hits(list)))
             new == [at |-> "found", work |-> work]
  <2>1. /\ HitLists # {} /\ job' = [job EXCEPT ![Interrupt] = new]
        /\ UNCHANGED <<read, queue>> /\ Len(queue) < MaxQueue /\ job[Interrupt] = Idle
    BY <1>4 DEF SciFind, Delivered, Working
  <2>2. ~IsFixed(work)
    BY <2>1, HitFacts
  <2> HIDE DEF work
  <2>3. /\ job'[Interrupt] = new /\ new.at = "found" /\ new.work = work
        /\ \A t \in Handlers \ {Interrupt} : job'[t] = job[t]
    BY <1>1, <2>1
  <2>4. read[Interrupt] = Unread
    BY <1>1, <2>1, EmptyIsIdle DEF ThreadsOK
  <2> HIDE DEF new
  <2> QED BY <1>2, <2>1, <2>2, <2>3, <2>4 DEF ThreadsOK
<1>5. CASE SciRead
  <2> DEFINE work == job[Interrupt].work
             new == [at |-> "disable", work |-> work]
  <2>1. /\ job[Interrupt].at = "found" /\ job[Interrupt].at \in Stages \ {"fn"}
        /\ UNCHANGED queue
    BY <1>5 DEF SciRead, Stages
  <2>2. Working(Interrupt) /\ ~IsFixed(work) /\ Len(queue) < MaxQueue
    BY <1>1, <2>1, WorkingAt DEF ThreadsOK
  <2>3. job' = [job EXCEPT ![Interrupt] = new]
    BY <1>1, <1>5, <2>2, SetJobType DEF SciRead
  <2> HIDE DEF work
  <2>4. /\ job'[Interrupt] = new /\ new.at = "disable" /\ new.work = work
        /\ \A t \in Handlers \ {Interrupt} : job'[t] = job[t]
    BY <1>1, <2>3
  <2>5. /\ read'[Interrupt] = en \cap SameReg(work.of.line)
        /\ \A t \in Threads \ {Interrupt} : read'[t] = read[t]
    BY <1>1, <1>5, ThreadFacts DEF SciRead, ReadEnable, work
  <2>6. read'[Interrupt] # Unread
    <3>1. en \cap SameReg(work.of.line) \in SUBSET Lines
      BY DEF TypeOK
    <3> QED BY <2>5, <3>1, ReadType
  <2>7. read'[Host] = read[Host] /\ \A t \in Handlers \ {Interrupt} : read'[t] = read[t]
    BY <1>1, <2>5, ThreadFacts
  <2> HIDE DEF new
  <2> QED BY <1>1, <1>2, <2>1, <2>2, <2>4, <2>6, <2>7 DEF ThreadsOK
<1>6. CASE SciWrite
  <2>1. /\ job' = [job EXCEPT ![Interrupt] = Idle]
        /\ read' = [read EXCEPT ![Interrupt] = Unread]
    BY <1>6 DEF SciWrite, WriteEnable
  <2>2. /\ job'[Interrupt] = Idle /\ read'[Interrupt] = Unread /\ read'[Host] = read[Host]
        /\ \A t \in Handlers \ {Interrupt} : job'[t] = job[t] /\ read'[t] = read[t]
    BY <1>1, <2>1
  <2>3. Idle.at \notin Stages /\ ~Working(Interrupt)'
    BY <2>2, EmptyIsIdle DEF Stages, Working
  <2> QED BY <1>2, <2>2, <2>3, EmptyIsIdle DEF ThreadsOK
<1> QED BY <1>3, <1>4, <1>5, <1>6 DEF Sci

LEMMA BeginCallThreadsOK ==
  ASSUME TypeOK, ThreadsOK, BeginCall
  PROVE  ThreadsOK' /\ call.op = "none" /\ call'.op # "none" /\ read[Host] = Unread
<1>1. ASSUME MayCall
      PROVE  call.op = "none" /\ read[Host] = Unread
  BY <1>1, NewCall DEF MayCall, ThreadsOK
<1>2. ASSUME NEW g \in Gpes, NEW list \in ListSet, Push(g, list)
      PROVE  MayCall /\ UNCHANGED <<job, read, queue>> /\ call'.op = "enable"
  BY <1>2 DEF Push, MayChange, threads
<1>3. ASSUME NEW g \in Gpes, DisableGpe(g)
      PROVE  MayCall /\ UNCHANGED <<job, read, queue>> /\ call'.op = "disable"
  BY <1>3 DEF DisableGpe, MayChange, threads
<1>4. ASSUME NEW f \in FixedEvents, EnableFixed(f) \/ DisableFixed(f)
      PROVE  MayCall /\ UNCHANGED <<job, read, queue>> /\ call'.op \in {"store", "clear"}
  BY <1>4 DEF EnableFixed, DisableFixed, MayDisable, threads
<1>5. MayCall /\ UNCHANGED <<job, read, queue>> /\ call'.op # "none"
  BY <1>2, <1>3, <1>4, BeginCallCases
<1> QED BY <1>1, <1>5 DEF ThreadsOK, Working

LEMMA EndCallThreadsOK ==
  ASSUME TypeOK, ThreadsOK, EndCall
  PROVE  ThreadsOK'
<1>1. Host \notin Handlers /\ Host \in DOMAIN read /\ Handlers \subseteq DOMAIN read
  BY ThreadFacts DEF TypeOK
<1>2. UNCHANGED <<queue, job>>
  BY DEF EndCall, CallRead, EnableWrite, EnableFails, DisableWrite, RemoveGpe,
         StoreFixed, ClearFixed, threads
<1>3. /\ \A t \in Handlers : read'[t] = read[t]
      /\ read'[Host] # Unread => call'.op \in {"enable", "disable"}
  <2>1. CASE CallRead
    BY <1>1, <2>1 DEF CallRead, ReadEnable, host
  <2>2. CASE EnableWrite \/ EnableFails \/ DisableWrite
    BY <1>1, <2>2 DEF EnableWrite, EnableFails, DisableWrite, WriteEnable
  <2>3. CASE RemoveGpe \/ StoreFixed \/ ClearFixed
    BY <2>3 DEF RemoveGpe, StoreFixed, ClearFixed, ThreadsOK, threads
  <2> QED BY <2>1, <2>2, <2>3 DEF EndCall
<1> QED BY <1>2, <1>3 DEF ThreadsOK, Working

LEMMA TypeInductive == TypeOK /\ ThreadsOK /\ [Next]_vars => (TypeOK /\ ThreadsOK)'
<1> SUFFICES ASSUME TypeOK, ThreadsOK, [Next]_vars
             PROVE  (TypeOK /\ ThreadsOK)'
  OBVIOUS
<1>1. CASE Raise
  <2>1. UNCHANGED <<job, read, queue, call>>
    BY <1>1 DEF Raise, RaiseGpe, RaiseFixed, threads, host
  <2> QED BY <1>1, <2>1, RaiseTypeOK DEF ThreadsOK, Working
<1>2. CASE Sci
  BY <1>2, SciTypeOK, SciThreadsOK
<1>3. CASE \E w \in Workers : Work(w)
  BY <1>3, WorkTypeOK, WorkThreadsOK, ThreadFacts
<1>4. CASE BeginCall
  BY <1>4, BeginCallTypeOK, BeginCallThreadsOK
<1>5. CASE EndCall
  BY <1>5, EndCallTypeOK, EndCallThreadsOK
<1>6. CASE UNCHANGED vars
  BY <1>6 DEF vars, hardware, devices, context, threads, host, TypeOK, ThreadsOK, Working
<1> QED BY <1>1, <1>2, <1>3, <1>4, <1>5, <1>6 DEF Next

\* The variables of the event context have their types in every state, whatever the
\* host does.
THEOREM TypeCorrect == Spec => [](TypeOK /\ ThreadsOK)
<1>1. Init => TypeOK /\ ThreadsOK
  BY InitTypeOK, InitThreadsOK
<1> QED BY <1>1, TypeInductive, PTL DEF Spec

-----------------------------------------------------------------------------
(* What each step does to the outstanding work                             *)

Calling == {"found", "disable", "fn"}

LEMMA OutstandingType ==
  ASSUME TypeOK
  PROVE  Outstanding \subseteq Works /\ ToCall \subseteq Outstanding
<1>1. ToSet(queue) \subseteq Works
  <2>1. queue \in Seq(Works)
    BY DEF TypeOK
  <2>2. DOMAIN queue = 1..Len(queue) /\ \A i \in 1..Len(queue) : queue[i] \in Works
    BY <2>1, LenProperties, ElementOfSeq
  <2> QED BY <2>2 DEF ToSet
<1>2. \A t \in Handlers : Working(t) => job[t].work \in Works
  BY JobFacts DEF TypeOK
<1>3. \A t \in Handlers : job[t].at \in Calling => Working(t)
  BY WorkingAt DEF Calling, Stages
<1> QED BY <1>1, <1>2, <1>3 DEF Outstanding, ToCall, Calling

\* The works of the threads but one, and those that will still call a handler.
WorksBut(t) == {job[u].work : u \in {v \in Handlers \ {t} : Working(v)}}
CallsBut(t) == {job[u].work : u \in {v \in Handlers \ {t} : job[v].at \in Calling}}
InHand(j) == IF j # Idle THEN {j.work} ELSE {}
ToBeCalled(j) == IF j.at \in Calling THEN {j.work} ELSE {}

\* When one thread's job changes, outstanding is what the queue and this thread have,
\* and what the others had.
LEMMA OneJob ==
  ASSUME TypeOK, NEW t \in Handlers, NEW new, job' = [job EXCEPT ![t] = new]
  PROVE  /\ Outstanding = ToSet(queue) \cup InHand(job[t]) \cup WorksBut(t)
         /\ Outstanding' = ToSet(queue') \cup InHand(new) \cup WorksBut(t)
         /\ ToCall = ToSet(queue) \cup ToBeCalled(job[t]) \cup CallsBut(t)
         /\ ToCall' = ToSet(queue') \cup ToBeCalled(new) \cup CallsBut(t)
<1>1. job'[t] = new /\ \A u \in Handlers \ {t} : job'[u] = job[u]
  BY DEF TypeOK
<1>2. Outstanding = ToSet(queue) \cup InHand(job[t]) \cup WorksBut(t)
  BY DEF Outstanding, Working, InHand, WorksBut
<1>3. ToCall = ToSet(queue) \cup ToBeCalled(job[t]) \cup CallsBut(t)
  BY DEF ToCall, Calling, ToBeCalled, CallsBut
<1>4. Outstanding' = ToSet(queue') \cup InHand(new) \cup WorksBut(t)
  BY <1>1 DEF Outstanding, Working, InHand, WorksBut
<1>5. ToCall' = ToSet(queue') \cup ToBeCalled(new) \cup CallsBut(t)
  BY <1>1 DEF ToCall, Calling, ToBeCalled, CallsBut
<1> QED BY <1>2, <1>3, <1>4, <1>5

\* A thread goes on with its work.
LEMMA JobGoesOn ==
  ASSUME TypeOK, NEW t \in Handlers, Working(t), UNCHANGED queue,
         NEW at \in {"clear", "read", "write", "disable"},
         job' = [job EXCEPT ![t] = [at |-> at, work |-> job[t].work]]
  PROVE  /\ Outstanding' = Outstanding
         /\ ToCall' \subseteq ToCall \/ at = "disable"
         /\ ToCall \subseteq ToCall' \cup {job[t].work}
         /\ (job[t].at \in Calling <=> at \in Calling) => ToCall' = ToCall
<1> DEFINE new == [at |-> at, work |-> job[t].work]
<1>1. new # Idle /\ new.work = job[t].work /\ new.at = at /\ job[t] # Idle
  BY EmptyIsIdle DEF Working
<1>2. job' = [job EXCEPT ![t] = new]
  OBVIOUS
<1>3. at \in Calling => at = "disable"
  BY DEF Calling
<1> HIDE DEF new
<1>4. InHand(new) = {job[t].work} /\ InHand(job[t]) = {job[t].work}
  BY <1>1 DEF InHand
<1>5. /\ ToBeCalled(job[t]) \subseteq {job[t].work}
      /\ at = "disable" \/ ToBeCalled(new) = {}
      /\ (job[t].at \in Calling <=> at \in Calling) => ToBeCalled(new) = ToBeCalled(job[t])
  BY <1>1, <1>3 DEF ToBeCalled
<1>6. /\ Outstanding = ToSet(queue) \cup InHand(job[t]) \cup WorksBut(t)
      /\ Outstanding' = ToSet(queue) \cup InHand(new) \cup WorksBut(t)
      /\ ToCall = ToSet(queue) \cup ToBeCalled(job[t]) \cup CallsBut(t)
      /\ ToCall' = ToSet(queue) \cup ToBeCalled(new) \cup CallsBut(t)
  BY <1>2, OneJob
<1> QED BY <1>4, <1>5, <1>6

\* A thread ends its work.
LEMMA JobEnds ==
  ASSUME TypeOK, NEW t \in Handlers, Working(t), UNCHANGED queue,
         job' = [job EXCEPT ![t] = Idle]
  PROVE  /\ Outstanding' \subseteq Outstanding
         /\ Outstanding \subseteq Outstanding' \cup {job[t].work}
         /\ ToCall' \subseteq ToCall /\ ToCall \subseteq ToCall' \cup {job[t].work}
         /\ job[t].at \notin Calling => ToCall' = ToCall
<1>1. Idle.at \notin Calling /\ job[t] # Idle
  BY EmptyIsIdle DEF Calling, Working
<1>2. /\ InHand(Idle) = {} /\ InHand(job[t]) = {job[t].work} /\ ToBeCalled(Idle) = {}
      /\ ToBeCalled(job[t]) \subseteq {job[t].work}
      /\ job[t].at \notin Calling => ToBeCalled(job[t]) = {}
  BY <1>1 DEF InHand, ToBeCalled
<1>3. /\ Outstanding = ToSet(queue) \cup InHand(job[t]) \cup WorksBut(t)
      /\ Outstanding' = ToSet(queue) \cup InHand(Idle) \cup WorksBut(t)
      /\ ToCall = ToSet(queue) \cup ToBeCalled(job[t]) \cup CallsBut(t)
      /\ ToCall' = ToSet(queue) \cup ToBeCalled(Idle) \cup CallsBut(t)
  BY OneJob
<1> QED BY <1>2, <1>3

LEMMA WorkStartEffect ==
  ASSUME TypeOK, NEW w \in Workers, WorkStart(w)
  PROVE  Outstanding' = Outstanding /\ ToCall' = ToCall
<1> DEFINE new == [at |-> "fn", work |-> Head(queue)]
<1>1. queue \in Seq(Works) /\ queue # <<>> /\ queue' = Tail(queue)
  BY DEF WorkStart, TypeOK
<1>2. ToSet(queue) = ToSet(queue') \cup {Head(queue)}
  BY <1>1, ToSetTail
<1>3. w \in Handlers /\ job[w] = Idle /\ job' = [job EXCEPT ![w] = new]
  BY ThreadFacts DEF WorkStart, Working
<1>4. /\ new # Idle /\ new.at \in Calling /\ new.work = Head(queue)
      /\ Idle.at \notin Calling
  BY EmptyIsIdle DEF Calling
<1> HIDE DEF new
<1>5. /\ InHand(Idle) = {} /\ ToBeCalled(Idle) = {}
      /\ InHand(new) = {Head(queue)} /\ ToBeCalled(new) = {Head(queue)}
  BY <1>4 DEF InHand, ToBeCalled
<1>6. /\ Outstanding = ToSet(queue) \cup InHand(Idle) \cup WorksBut(w)
      /\ Outstanding' = ToSet(queue') \cup InHand(new) \cup WorksBut(w)
      /\ ToCall = ToSet(queue) \cup ToBeCalled(Idle) \cup CallsBut(w)
      /\ ToCall' = ToSet(queue') \cup ToBeCalled(new) \cup CallsBut(w)
  BY <1>3, OneJob
<1> QED BY <1>2, <1>5, <1>6

\* A worker that reads a register has the event it was given, if it is still there.
LEMMA ReadGoesOn ==
  ASSUME TypeOK, ThreadsOK, WorkFindsItsEvent, NEW w \in Workers, WorkRead(w)
  PROVE  /\ Working(w) /\ ReadEnable(w, job[w].work.of.line)
         /\ job' = [job EXCEPT ![w] = [at |-> "write", work |-> job[w].work]]
<1>1. w \in Handlers /\ job[w].at = "read" /\ job[w].at \in Stages \ {"fn"}
  BY ThreadFacts DEF WorkRead, Stages
<1>2. Working(w) /\ ~IsFixed(job[w].work)
  BY <1>1, WorkingAt DEF ThreadsOK
<1>3. PICK event \in At(job[w].work) :
        LET new == [at |-> "write", work |-> [job[w].work EXCEPT !.of = event]]
        IN  /\ event \in Events /\ event.line \in Lines /\ ReadEnable(w, event.line)
            /\ new \in Jobs /\ ~IsFixed(new.work) /\ new.work.of = event
            /\ job' = [job EXCEPT ![w] = new]
  BY <1>1, ReadJob
<1>4. event = job[w].work.of
  <2>1. Valid(job[w].work)
    BY <1>1, <1>2 DEF WorkFindsItsEvent, GpeOutstanding, Outstanding
  <2> QED BY <1>2, <1>3, <2>1 DEF Valid, At
<1>5. [job[w].work EXCEPT !.of = event] = job[w].work
  <2>1. job[w].work \in [list : ListSet, slot : Nat, of : Events]
    BY <1>1, <1>2, GpeJob
  <2> QED BY <1>4, <2>1
<1> QED BY <1>2, <1>3, <1>4, <1>5

\* What a worker looks up is what its work was queued for.
LEMMA AtOwn ==
  ASSUME TypeOK, WorkFindsItsEvent, NEW w \in Workers, Working(w), ~IsFixed(job[w].work)
  PROVE  At(job[w].work) = {job[w].work.of}
<1>1. Valid(job[w].work)
  BY ThreadFacts DEF WorkFindsItsEvent, GpeOutstanding, Outstanding
<1> QED BY <1>1 DEF Valid, At

\* A worker adds no work, and takes away only its own.
LEMMA WorkEffect ==
  ASSUME TypeOK, ThreadsOK, WorkFindsItsEvent, NEW w \in Workers, Work(w)
  PROVE  /\ Outstanding' \subseteq Outstanding /\ ToCall' \subseteq ToCall
         /\ WorkFixedFn(w) \/ WorkWrite(w) \/ Outstanding' = Outstanding
         /\ WorkGpeFn(w) \/ WorkFixedFn(w) \/ ToCall' = ToCall
         /\ WorkFixedFn(w) \/ WorkWrite(w) =>
              Outstanding \subseteq Outstanding' \cup {job[w].work}
         /\ WorkGpeFn(w) \/ WorkFixedFn(w) => ToCall \subseteq ToCall' \cup {job[w].work}
<1>0. /\ w \in Handlers
      /\ "clear" \notin Calling /\ "read" \notin Calling /\ "write" \notin Calling
  BY ThreadFacts DEF Calling
<1>1. CASE WorkStart(w)
  <2>1. ~WorkGpeFn(w) /\ ~WorkFixedFn(w) /\ ~WorkWrite(w)
    BY <1>1, EmptyIsIdle DEF WorkStart, WorkGpeFn, WorkFixedFn, WorkWrite, Working
  <2> QED BY <1>1, <2>1, WorkStartEffect
<1>2. CASE WorkGpeFn(w)
  <2>1. Working(w) /\ UNCHANGED queue
    BY <1>0, <1>2, WorkingAt DEF WorkGpeFn, Stages
  <2>2. job' = [job EXCEPT ![w] = [at |-> "clear", work |-> job[w].work]]
    BY <1>0, <1>2, <2>1, SetJobType DEF WorkGpeFn
  <2>3. /\ Outstanding' = Outstanding /\ ToCall' \subseteq ToCall
        /\ ToCall \subseteq ToCall' \cup {job[w].work}
    BY <1>0, <2>1, <2>2, JobGoesOn
  <2>4. ~WorkFixedFn(w) /\ ~WorkWrite(w)
    BY <1>2 DEF WorkGpeFn, WorkFixedFn, WorkWrite
  <2> QED BY <1>2, <2>3, <2>4
<1>3. CASE WorkFixedFn(w)
  <2>1. Working(w) /\ UNCHANGED queue
    BY <1>0, <1>3, WorkingAt DEF WorkFixedFn, Stages
  <2>2. job' = [job EXCEPT ![w] = Idle]
    BY <1>3 DEF WorkFixedFn
  <2> QED BY <1>0, <1>3, <2>1, <2>2, JobEnds
<1>4. CASE WorkClear(w)
  <2>1. Working(w) /\ UNCHANGED queue /\ job[w].at = "clear"
    BY <1>0, <1>4, WorkingAt DEF WorkClear, Stages
  <2>2. job' = [job EXCEPT ![w] = [at |-> "read", work |-> job[w].work]]
    BY <1>0, <1>4, <2>1, SetJobType DEF WorkClear
  <2>3. Outstanding' = Outstanding /\ ToCall' = ToCall
    BY <1>0, <2>1, <2>2, JobGoesOn
  <2>4. ~WorkGpeFn(w) /\ ~WorkFixedFn(w) /\ ~WorkWrite(w)
    BY <2>1 DEF WorkGpeFn, WorkFixedFn, WorkWrite
  <2> QED BY <2>3, <2>4
<1>5. CASE WorkRead(w)
  <2>1. UNCHANGED queue /\ job[w].at = "read"
    BY <1>5 DEF WorkRead
  <2>2. Working(w) /\ job' = [job EXCEPT ![w] = [at |-> "write", work |-> job[w].work]]
    BY <1>5, ReadGoesOn
  <2>3. Outstanding' = Outstanding /\ ToCall' = ToCall
    BY <1>0, <2>1, <2>2, JobGoesOn
  <2>4. ~WorkGpeFn(w) /\ ~WorkFixedFn(w) /\ ~WorkWrite(w)
    BY <2>1 DEF WorkGpeFn, WorkFixedFn, WorkWrite
  <2> QED BY <2>3, <2>4
<1>6. CASE WorkWrite(w)
  <2>1. Working(w) /\ UNCHANGED queue /\ job[w].at = "write"
    BY <1>0, <1>6, WorkingAt DEF WorkWrite, Stages
  <2>2. job' = [job EXCEPT ![w] = Idle]
    BY <1>6 DEF WorkWrite
  <2>3. ~WorkGpeFn(w) /\ ~WorkFixedFn(w)
    BY <2>1 DEF WorkGpeFn, WorkFixedFn
  <2> QED BY <1>0, <1>6, <2>1, <2>2, <2>3, JobEnds
<1> QED BY <1>1, <1>2, <1>3, <1>4, <1>5, <1>6 DEF Work

\* The work that the SCI adds: that of the fixed events, or of the GPE it finds.
SciWorks ==
  IF SciFixed THEN {FixedWork(f) : f \in FixedHits}
  ELSE IF SciFind
    THEN LET list == Lists[Min(HitLists)] IN {GpeWork(list, Min(Hits(list)))}
    ELSE {}

LEMMA SciEffect ==
  ASSUME TypeOK, ThreadsOK, Sci
  PROVE  Outstanding' = Outstanding \cup SciWorks /\ ToCall' = ToCall \cup SciWorks
<1>1. Interrupt \in Handlers /\ queue \in Seq(Works)
  BY ThreadFacts DEF TypeOK
<1>2. CASE SciFixed
  <2> DEFINE new == {FixedWork(f) : f \in FixedHits}
  <2>1. SetToSeq(new) \in Seq(Works) /\ ToSet(SetToSeq(new)) = new
    BY FixedHitsFacts
  <2>2. queue' = queue \o SetToSeq(new) /\ UNCHANGED job
    BY <1>2 DEF SciFixed
  <2>3. SciWorks = new
    BY <1>2 DEF SciWorks
  <2> HIDE DEF new
  <2>4. ToSet(queue') = ToSet(queue) \cup new
    BY <1>1, <2>1, <2>2, ToSetConcat
  <2> QED BY <2>2, <2>3, <2>4 DEF Outstanding, ToCall, Working
<1>3. CASE SciFind
  <2> DEFINE list == Lists[Min(HitLists)]
             work == GpeWork(list, Min(Hits(list)))
             new == [at |-> "found", work |-> work]
  <2>1. /\ job' = [job EXCEPT ![Interrupt] = new] /\ UNCHANGED queue
        /\ job[Interrupt] = Idle /\ ~SciFixed
    BY <1>3 DEF SciFind, SciFixed, Delivered, Working
  <2>2. SciWorks = {work}
    BY <1>3, <2>1 DEF SciWorks
  <2> HIDE DEF work
  <2>3. /\ new # Idle /\ new.at \in Calling /\ new.work = work
        /\ Idle.at \notin Calling
    BY EmptyIsIdle DEF Calling
  <2> HIDE DEF new
  <2>4. /\ InHand(Idle) = {} /\ ToBeCalled(Idle) = {}
        /\ InHand(new) = {work} /\ ToBeCalled(new) = {work}
    BY <2>3 DEF InHand, ToBeCalled
  <2>5. /\ Outstanding = ToSet(queue) \cup InHand(Idle) \cup WorksBut(Interrupt)
        /\ Outstanding' = ToSet(queue) \cup InHand(new) \cup WorksBut(Interrupt)
        /\ ToCall = ToSet(queue) \cup ToBeCalled(Idle) \cup CallsBut(Interrupt)
        /\ ToCall' = ToSet(queue) \cup ToBeCalled(new) \cup CallsBut(Interrupt)
    BY <1>1, <2>1, OneJob
  <2> QED BY <2>2, <2>4, <2>5
<1>4. CASE SciRead
  <2>1. Working(Interrupt) /\ UNCHANGED queue /\ job[Interrupt].at \in Calling
    BY <1>1, <1>4, WorkingAt DEF SciRead, Calling, Stages
  <2>2. job' = [job EXCEPT ![Interrupt] = [at |-> "disable", work |-> job[Interrupt].work]]
    BY <1>1, <1>4, <2>1, SetJobType DEF SciRead
  <2>3. "disable" \in Calling
    BY DEF Calling
  <2>4. Outstanding' = Outstanding /\ ToCall' = ToCall
    BY <1>1, <2>1, <2>2, <2>3, JobGoesOn
  <2>5. SciWorks = {}
    BY <1>4, <2>1 DEF SciWorks, SciRead, SciFixed, SciFind, Delivered
  <2> QED BY <2>4, <2>5
<1>5. CASE SciWrite
  <2> DEFINE work == job[Interrupt].work
  <2>1. Working(Interrupt) /\ work \in Works /\ job[Interrupt].at \in Calling
    BY <1>1, <1>5, WorkingAt DEF SciWrite, Calling, Stages
  <2>2. queue' = Append(queue, work) /\ job' = [job EXCEPT ![Interrupt] = Idle]
    BY <1>5 DEF SciWrite
  <2>3. SciWorks = {}
    BY <2>1 DEF SciWorks, SciFixed, SciFind, Delivered
  <2> HIDE DEF work
  <2>4. ToSet(queue') = ToSet(queue) \cup {work}
    BY <1>1, <2>1, <2>2, ToSetAppend
  <2>5. job[Interrupt] # Idle /\ Idle.at \notin Calling
    BY <2>1, EmptyIsIdle DEF Calling, Working
  <2>6. /\ InHand(Idle) = {} /\ ToBeCalled(Idle) = {}
        /\ InHand(job[Interrupt]) = {work} /\ ToBeCalled(job[Interrupt]) = {work}
    BY <2>1, <2>5 DEF InHand, ToBeCalled, work
  <2>7. /\ Outstanding = ToSet(queue) \cup InHand(job[Interrupt]) \cup WorksBut(Interrupt)
        /\ Outstanding' = ToSet(queue') \cup InHand(Idle) \cup WorksBut(Interrupt)
        /\ ToCall = ToSet(queue) \cup ToBeCalled(job[Interrupt]) \cup CallsBut(Interrupt)
        /\ ToCall' = ToSet(queue') \cup ToBeCalled(Idle) \cup CallsBut(Interrupt)
    BY <1>1, <2>2, OneJob
  <2> QED BY <2>3, <2>4, <2>6, <2>7
<1> QED BY <1>2, <1>3, <1>4, <1>5 DEF Sci

\* The event that the SCI finds is at the address that its work has.
LEMMA FoundIsThere ==
  ASSUME TypeOK, SciFind, NEW work \in SciWorks
  PROVE  ~IsFixed(work) /\ Valid(work) /\ work.of \in Events /\ work.list \in ListSet
<1>1. ~SciFixed /\ HitLists # {}
  BY DEF SciFind, SciFixed
<1> DEFINE list == Lists[Min(HitLists)]
           i == Min(Hits(list))
<1>2. work = GpeWork(list, i)
  BY <1>1 DEF SciWorks
<1>3. /\ list \in ListSet /\ i \in DOMAIN events[list] /\ events[list][i] \in Events
      /\ ~IsFixed(GpeWork(list, i))
      /\ GpeWork(list, i).list = list /\ GpeWork(list, i).slot = i
      /\ GpeWork(list, i).of = events[list][i]
  BY <1>1, HitFacts
<1> HIDE DEF list, i
<1> QED BY <1>2, <1>3 DEF Valid

-----------------------------------------------------------------------------
(* Queued work finds its event                                             *)

\* No handler is removed under its work, and enabling fails before the SCI has found
\* the event.
HostIsQuiet == "changeBusy" \notin HostMay /\ "failLate" \notin HostMay

\* While a handler is removed there is no work that could miss it.
RemovalsAreIdle ==
  /\ call.op \in {"disable", "remove"} => GpeOutstanding = {}
  /\ call.op = "clear" => FixedWork(call.event) \notin Outstanding

\* Queued work lasts as long as the list it points into keeps its element.
LEMMA ValidStays ==
  ASSUME TypeOK, WorkFindsItsEvent,
         NEW list \in ListSet, NEW seq \in Seq(Events),
         events' = [events EXCEPT ![list] = seq],
         \A work \in GpeOutstanding : work.list = list =>
           work.slot \in DOMAIN seq /\ seq[work.slot] = events[list][work.slot]
  PROVE  \A work \in GpeOutstanding : Valid(work)'
<1> SUFFICES ASSUME NEW work \in GpeOutstanding
             PROVE  Valid(work)'
  OBVIOUS
<1>1. work.list \in ListSet /\ ~IsFixed(work)
  BY OutstandingType, WorkFacts DEF GpeOutstanding
<1>2. work.slot \in DOMAIN events[work.list] /\ events[work.list][work.slot] = work.of
  BY <1>1 DEF WorkFindsItsEvent, Valid
<1>3. work.slot \in DOMAIN events'[work.list] /\ events'[work.list][work.slot] = work.of
  BY <1>1, <1>2 DEF TypeOK
<1> QED BY <1>3 DEF Valid

LEMMA SciFindsEvent ==
  ASSUME TypeOK, ThreadsOK, HostIsQuiet, WorkFindsItsEvent, RemovalsAreIdle, Sci
  PROVE  (WorkFindsItsEvent /\ RemovalsAreIdle)'
<1>1. UNCHANGED <<call, events, fixedFn>>
  BY DEF Sci, SciFixed, SciFind, SciRead, SciWrite, context, host
<1>2. Outstanding' = Outstanding \cup SciWorks /\ ToCall' = ToCall \cup SciWorks
  BY SciEffect
<1>3. GpeOutstanding' = GpeOutstanding \cup {work \in SciWorks : ~IsFixed(work)}
  BY <1>2 DEF GpeOutstanding
<1>4. SciWorks # {} => call.op \notin {"disable", "remove", "clear"}
  BY DEF SciWorks, SciFixed, SciFind, Delivered, Undisturbed, HostIsQuiet
<1>5. RemovalsAreIdle'
  BY <1>1, <1>2, <1>3, <1>4 DEF RemovalsAreIdle
<1>6. \A work \in SciWorks :
        IF IsFixed(work) THEN work.of \in fixedFn ELSE Valid(work)
  <2>1. CASE SciFixed
    <3>1. \A f \in FixedHits : IsFixed(FixedWork(f)) /\ FixedWork(f).of \in fixedFn
      BY WorkFacts DEF FixedHits, TypeOK
    <3> QED BY <2>1, <3>1 DEF SciWorks
  <2>2. CASE SciFind
    BY <2>2, FoundIsThere
  <2>3. CASE ~SciFixed /\ ~SciFind
    BY <2>3 DEF SciWorks
  <2> QED BY <2>1, <2>2, <2>3
<1>7. \A work : Valid(work)' <=> Valid(work)
  BY <1>1 DEF Valid
<1>8. \A work \in GpeOutstanding' : Valid(work)'
  BY <1>3, <1>6, <1>7 DEF WorkFindsItsEvent
<1>9. \A work \in ToCall' : IsFixed(work) => work.of \in fixedFn'
  BY <1>1, <1>2, <1>6 DEF WorkFindsItsEvent
<1> QED BY <1>5, <1>8, <1>9 DEF WorkFindsItsEvent

LEMMA WorkFindsEvent ==
  ASSUME TypeOK, ThreadsOK, WorkFindsItsEvent, RemovalsAreIdle, NEW w \in Workers,
         Work(w)
  PROVE  (WorkFindsItsEvent /\ RemovalsAreIdle)'
<1>1. Outstanding' \subseteq Outstanding /\ ToCall' \subseteq ToCall
  BY WorkEffect
<1>2. UNCHANGED <<call, events, fixedFn>>
  BY DEF Work, WorkStart, WorkGpeFn, WorkFixedFn, WorkClear, WorkRead, WorkWrite,
         context, host
<1>3. GpeOutstanding' \subseteq GpeOutstanding
  BY <1>1 DEF GpeOutstanding
<1>4. \A work \in GpeOutstanding : Valid(work)'
  BY <1>2 DEF WorkFindsItsEvent, Valid
<1> QED BY <1>1, <1>2, <1>3, <1>4 DEF WorkFindsItsEvent, RemovalsAreIdle

LEMMA CallKeepsWork ==
  ASSUME BeginCall \/ EndCall
  PROVE  /\ UNCHANGED <<queue, job, Outstanding, ToCall, GpeOutstanding>>
         /\ UNCHANGED raises
<1>1. BeginCall => UNCHANGED <<queue, job, raises>>
  BY BeginCallCases DEF Push, DisableGpe, EnableFixed, DisableFixed, threads, devices
<1>2. EndCall => UNCHANGED <<queue, job, raises>>
  BY DEF EndCall, CallRead, EnableWrite, EnableFails, DisableWrite, RemoveGpe,
         StoreFixed, ClearFixed, threads, devices
<1>3. UNCHANGED <<queue, job, raises>>
  BY <1>1, <1>2
<1> QED BY <1>3 DEF Outstanding, ToCall, GpeOutstanding, Working

LEMMA BeginFindsEvent ==
  ASSUME TypeOK, HostIsQuiet, WorkFindsItsEvent, BeginCall
  PROVE  (WorkFindsItsEvent /\ RemovalsAreIdle)'
<1>1. UNCHANGED <<Outstanding, ToCall, GpeOutstanding>>
  BY CallKeepsWork
<1>2. ASSUME NEW g \in Gpes, NEW list \in ListSet, Push(g, list)
      PROVE  (WorkFindsItsEvent /\ RemovalsAreIdle)'
  <2> DEFINE seq == Append(events[list], Event(g))
  <2>1. events[list] \in Seq(Events) /\ Event(g) \in Events
    BY LineFacts DEF TypeOK
  <2>2. /\ seq \in Seq(Events) /\ Len(seq) = Len(events[list]) + 1
        /\ \A i \in 1..Len(events[list]) : seq[i] = events[list][i]
    BY <2>1, AppendProperties
  <2>3. \A i \in DOMAIN events[list] : i \in DOMAIN seq /\ seq[i] = events[list][i]
    BY <2>1, <2>2, LenProperties
  <2>4. events' = [events EXCEPT ![list] = seq]
    BY <1>2 DEF Push
  <2> HIDE DEF seq
  <2>5. \A work \in GpeOutstanding : work.list = list => work.slot \in DOMAIN events[list]
    BY DEF GpeOutstanding, WorkFindsItsEvent, Valid
  <2>6. \A work \in GpeOutstanding : Valid(work)'
    <3>1. \A work \in GpeOutstanding : work.list = list =>
            work.slot \in DOMAIN seq /\ seq[work.slot] = events[list][work.slot]
      BY <2>3, <2>5
    <3>2. seq \in Seq(Events)
      BY <2>2
    <3> QED BY <2>4, <3>1, <3>2, ValidStays
  <2>7. UNCHANGED fixedFn /\ call'.op = "enable"
    BY <1>2 DEF Push
  <2> QED BY <1>1, <2>6, <2>7 DEF WorkFindsItsEvent, RemovalsAreIdle
<1>3. ASSUME UNCHANGED <<events, fixedFn>>
      PROVE  WorkFindsItsEvent'
  BY <1>1, <1>3 DEF WorkFindsItsEvent, Valid
<1>4. ASSUME NEW g \in Gpes, DisableGpe(g)
      PROVE  (WorkFindsItsEvent /\ RemovalsAreIdle)'
  <2>1. GpeOutstanding = {} /\ call'.op = "disable" /\ UNCHANGED <<events, fixedFn>>
    BY <1>4 DEF DisableGpe, MayChange, HostIsQuiet, context
  <2> QED BY <1>1, <1>3, <2>1 DEF RemovalsAreIdle
<1>5. ASSUME NEW f \in FixedEvents, EnableFixed(f) \/ DisableFixed(f)
      PROVE  (WorkFindsItsEvent /\ RemovalsAreIdle)'
  <2>1. /\ UNCHANGED <<events, fixedFn>>
        /\ \/ call'.op = "store"
           \/ call'.op = "clear" /\ call'.event = f /\ FixedWork(f) \notin Outstanding
    BY <1>5 DEF EnableFixed, DisableFixed, MayDisable, HostIsQuiet, context
  <2> QED BY <1>1, <1>3, <2>1 DEF RemovalsAreIdle, FixedWork
<1> QED BY <1>2, <1>4, <1>5, BeginCallCases

LEMMA EndFindsEvent ==
  ASSUME TypeOK, HostIsQuiet, WorkFindsItsEvent, RemovalsAreIdle, EndCall
  PROVE  (WorkFindsItsEvent /\ RemovalsAreIdle)'
<1>1. UNCHANGED <<Outstanding, ToCall, GpeOutstanding>>
  BY CallKeepsWork
<1>2. ASSUME UNCHANGED <<events, fixedFn>>
      PROVE  WorkFindsItsEvent'
  BY <1>1, <1>2 DEF WorkFindsItsEvent, Valid
<1>3. CASE CallRead \/ EnableWrite \/ DisableWrite
  <2>1. /\ UNCHANGED <<events, fixedFn>>
        /\ call'.op \in {"disable", "remove"} => call.op \in {"disable", "remove"}
        /\ call'.op # "clear"
    BY <1>3, NewCall, CallFacts
       DEF CallRead, EnableWrite, DisableWrite, context, host, TypeOK, Calls
  <2> QED BY <1>1, <1>2, <2>1 DEF RemovalsAreIdle
<1>4. CASE EnableFails
  <2> DEFINE list == call.list
             seq == Front(events[list])
             last == Len(events[list])
  <2>1. list \in ListSet /\ call' = NoCall /\ UNCHANGED fixedFn
    BY <1>4, CallFacts DEF EnableFails
  <2>2. events[list] \in Seq(Events) /\ DOMAIN events[list] = 1..last /\ last \in Nat
    BY <2>1, LenProperties DEF TypeOK
  <2>3. /\ seq \in Seq(Events) /\ Len(seq) = IF events[list] = <<>> THEN 0 ELSE last - 1
        /\ \A i \in 1..(last - 1) : seq[i] = events[list][i]
    BY <2>2, FrontLeaves
  <2>4. GpeWork(list, last) \notin Outstanding
    BY <1>4 DEF EnableFails, HostIsQuiet
  <2>5. events' = [events EXCEPT ![list] = seq]
    BY <1>4 DEF EnableFails
  <2>6. DOMAIN seq = 1..(last - 1)
    <3>1. last = 0 <=> events[list] = <<>>
      BY <2>2, EmptySeq
    <3> QED BY <2>2, <2>3, <3>1, LenProperties
  <2> HIDE DEF seq, last
  <2>7. ASSUME NEW work \in GpeOutstanding, work.list = list
        PROVE  work.slot \in DOMAIN seq /\ seq[work.slot] = events[list][work.slot]
    <3>1. work \in [list : ListSet, slot : Nat, of : Events] /\ work \in Outstanding
      BY OutstandingType, WorkFacts DEF GpeOutstanding
    <3>2. work.slot \in 1..last /\ events[list][work.slot] = work.of
      BY <2>2, <2>7 DEF WorkFindsItsEvent, Valid, GpeOutstanding
    <3>3. work.slot # last
      <4>1. SUFFICES ASSUME work.slot = last PROVE FALSE
        OBVIOUS
      <4>2. work = GpeWork(list, last)
        BY <2>7, <3>1, <3>2, <4>1 DEF GpeWork
      <4> QED BY <2>4, <3>1, <4>2
    <3> QED BY <2>2, <2>3, <2>6, <3>2, <3>3
  <2>8. \A work \in GpeOutstanding : Valid(work)'
    BY <2>1, <2>3, <2>5, <2>7, ValidStays
  <2> QED BY <1>1, <2>1, <2>8, NewCall DEF WorkFindsItsEvent, RemovalsAreIdle
<1>5. CASE RemoveGpe
  <2>1. GpeOutstanding = {} /\ call' = NoCall /\ UNCHANGED fixedFn
    BY <1>5 DEF RemoveGpe, RemovalsAreIdle
  <2> QED BY <1>1, <2>1, NewCall DEF WorkFindsItsEvent, RemovalsAreIdle
<1>6. CASE StoreFixed
  <2>1. fixedFn \subseteq fixedFn' /\ UNCHANGED events /\ call' = NoCall
    BY <1>6 DEF StoreFixed
  <2>2. \A work \in GpeOutstanding : Valid(work)'
    BY <2>1 DEF WorkFindsItsEvent, Valid
  <2> QED BY <1>1, <2>1, <2>2, NewCall DEF WorkFindsItsEvent, RemovalsAreIdle
<1>7. CASE ClearFixed
  <2>1. /\ fixedFn' = fixedFn \ {call.event} /\ UNCHANGED events /\ call' = NoCall
        /\ FixedWork(call.event) \notin Outstanding
    BY <1>7 DEF ClearFixed, RemovalsAreIdle
  <2>2. \A work \in GpeOutstanding : Valid(work)'
    BY <2>1 DEF WorkFindsItsEvent, Valid
  <2>3. ASSUME NEW work \in ToCall, IsFixed(work)
        PROVE  work.of \in fixedFn'
    <3>1. work \in Outstanding /\ work = FixedWork(work.of)
      BY <2>3, OutstandingType, WorkFacts
    <3> QED BY <2>1, <2>3, <3>1 DEF WorkFindsItsEvent
  <2> QED BY <1>1, <2>1, <2>2, <2>3, NewCall DEF WorkFindsItsEvent, RemovalsAreIdle
<1> QED BY <1>3, <1>4, <1>5, <1>6, <1>7 DEF EndCall

LEMMA InitFindsEvent == Init => WorkFindsItsEvent /\ RemovalsAreIdle
<1> SUFFICES ASSUME Init PROVE WorkFindsItsEvent /\ RemovalsAreIdle
  OBVIOUS
<1>1. ToSet(queue) = {} /\ \A t \in Handlers : job[t] = Idle
  <2>1. DOMAIN <<>> = {}
    OBVIOUS
  <2> QED BY <2>1 DEF Init, ToSet
<1>2. Outstanding = {} /\ ToCall = {}
  BY <1>1, EmptyIsIdle DEF Outstanding, ToCall, Working
<1>3. call.op = "none"
  BY NewCall DEF Init
<1> QED BY <1>2, <1>3 DEF WorkFindsItsEvent, RemovalsAreIdle, GpeOutstanding

LEMMA EventsInductive ==
  ASSUME TypeOK, ThreadsOK, HostIsQuiet, WorkFindsItsEvent, RemovalsAreIdle, [Next]_vars
  PROVE  (WorkFindsItsEvent /\ RemovalsAreIdle)'
<1>1. CASE Raise
  <2>1. UNCHANGED <<queue, job, events, fixedFn, call>>
    BY <1>1 DEF Raise, RaiseGpe, RaiseFixed, context, threads, host
  <2> QED BY <2>1 DEF WorkFindsItsEvent, RemovalsAreIdle, GpeOutstanding, Outstanding,
                      ToCall, Working, Valid
<1>2. CASE Sci
  BY <1>2, SciFindsEvent
<1>3. CASE \E w \in Workers : Work(w)
  BY <1>3, WorkFindsEvent
<1>4. CASE BeginCall
  BY <1>4, BeginFindsEvent
<1>5. CASE EndCall
  BY <1>5, EndFindsEvent
<1>6. CASE UNCHANGED vars
  <2>1. UNCHANGED <<queue, job, events, fixedFn, call>>
    BY <1>6 DEF vars, context, threads, host
  <2> QED BY <2>1 DEF WorkFindsItsEvent, RemovalsAreIdle, GpeOutstanding, Outstanding,
                      ToCall, Working, Valid
<1> QED BY <1>1, <1>2, <1>3, <1>4, <1>5, <1>6 DEF Next

LEMMA HandledFacts ==
  ASSUME TypeOK
  PROVE  /\ Handled \subseteq Gpes /\ Handled \cap FixedEvents = {}
         /\ \A list \in ListSet : \A i \in DOMAIN events[list] :
              /\ i \in Nat /\ events[list][i] \in Events
              /\ events[list][i] = Event(events[list][i].gpe)
              /\ events[list][i].gpe \in Handled
<1>1. ASSUME NEW list \in ListSet, NEW i \in DOMAIN events[list]
      PROVE  /\ i \in Nat /\ events[list][i] \in Events
             /\ events[list][i].gpe \in Gpes
             /\ events[list][i] = Event(events[list][i].gpe)
             /\ events[list][i].gpe \in Handled
  <2>1. events[list] \in Seq(Events)
    BY DEF TypeOK
  <2>2. i \in 1..Len(events[list]) /\ i \in Nat /\ events[list][i] \in Events
    BY <2>1, LenProperties, ElementOfSeq
  <2>3. PICK g \in Gpes : events[list][i] = Event(g)
    BY <2>2 DEF Events
  <2> QED BY <2>2, <2>3, LineFacts DEF Handled, Installed
<1>2. Handled \subseteq Gpes
  BY <1>1 DEF Handled, Installed
<1> QED BY <1>1, <1>2, EventAssumption

-----------------------------------------------------------------------------
(***************************************************************************)
(* No event is lost between the SCI, the deferred work and the calls of    *)
(* the host, for any GPEs, fixed events, workers and bounds.               *)
(*                                                                         *)
(* EventsKept is not inductive. A request is latched or on its way also    *)
(* while nobody handles its source, and a level triggered one is latched   *)
(* until it is served (Kept). What a thread read of a register may be old  *)
(* when it writes it back: it may undo what another has enabled since, and *)
(* that line is then in lost, but it enables only lines that still have a  *)
(* handler (ReadsOK). The rest is what a call knows of the lists (CallOK), *)
(* that lists have a GPE once and in its own block (ListsOK), and what is  *)
(* enabled (EnabledOK).                                                    *)
(***************************************************************************)

\* The host takes no liberties, and there is one GPE block.
WellUsed == HostMay = {} /\ BlockRegs[2] = 0

Requested(g) == \E work \in ToCall : ~IsFixed(work) /\ work.of = Event(g)

Kept ==
  /\ \A g \in wants \cap Gpes : Wired(g) \in sts \/ Requested(g)
  /\ \A g \in (wants \cap Gpes) \ EdgeGpes : Wired(g) \in sts
  /\ \A f \in wants \cap FixedEvents :
       f \in fixedFn /\ (f \in fixedSts \/ FixedWork(f) \in ToCall)

\* The line is enabled, or another's write has undone that, or work will enable it.
Alive(line) ==
  line \in en \cup lost \/ \E work \in GpeOutstanding : work.of.line = line

ListsOK ==
  \A list \in ListSet :
    /\ \A i \in DOMAIN events[list] : BlockOf(events[list][i].gpe) = list[1]
    /\ \A i, j \in DOMAIN events[list] : events[list][i].gpe = events[list][j].gpe => i = j

CallOK ==
  /\ call.op = "enable" =>
       /\ events[call.list] # <<>>
       /\ events[call.list][Len(events[call.list])].line = call.line
  /\ call.op \in {"disable", "remove"} =>
       /\ call.line = LineOf(call.gpe)
       /\ call.gpe \notin Installed(<<BlockOf(call.gpe), "aml">>)
  /\ call.op = "remove" => call.line \notin en
  /\ call.op = "clear" => call.event \notin fixedEn

\* An event that is being enabled, or disabled.
Coming(list, i) == call.op = "enable" /\ call.list = list /\ i = Len(events[list])
Leaving(line) == call.op \in {"disable", "remove"} /\ call.line = line

HandledLine(line) ==
  \E list \in ListSet : \E i \in DOMAIN events[list] : events[list][i].line = line

\* Nobody has read a line that has lost its handler since.
ReadsOK == \A t \in Threads : read[t] = Unread \/ \A l \in read[t] : HandledLine(l)

EnabledOK ==
  /\ \A list \in ListSet : \A i \in DOMAIN events[list] :
       Alive(events[list][i].line) \/ Coming(list, i) \/ Leaving(events[list][i].line)
  /\ \A line \in en : HandledLine(line)
  /\ \A f \in fixedEn : f \in fixedFn \/ (call.op = "store" /\ call.event = f)

-----------------------------------------------------------------------------
(* Lines                                                                   *)

LEMMA SameQuotient ==
  ASSUME NEW a \in Nat, NEW b \in Nat, NEW n \in Nat \ {0},
         a \div n = b \div n, a % n = b % n
  PROVE  a = b
<1>1. a = n * (a \div n) + (a % n) /\ b = n * (b \div n) + (b % n)
  OBVIOUS
<1> QED BY <1>1

\* A GPE is the only one with its line, and its line is where it is wired.
LEMMA LineFinds ==
  ASSUME WellUsed
  PROVE  /\ \A g \in Gpes : Wired(g) = LineOf(g) /\ BlockOf(g) = 1
         /\ \A g, h \in Gpes : LineOf(g) = LineOf(h) => g = h
<1>1. BlockRegs[2] = 0
  BY DEF WellUsed
<1>2. ASSUME NEW g \in Gpes
      PROVE  /\ Wired(g) = LineOf(g) /\ BlockOf(g) = 1
             /\ LineOf(g) = <<1, g \div RegBits, g % RegBits>>
  BY <1>1 DEF Wired, LineOf, BlockOf, RegIndex
<1>3. ASSUME NEW g \in Gpes, NEW h \in Gpes, LineOf(g) = LineOf(h)
      PROVE  g = h
  <2>1. g \div RegBits = h \div RegBits /\ g % RegBits = h % RegBits
    BY <1>2, <1>3
  <2>2. g \in Nat /\ h \in Nat /\ RegBits \in Nat \ {0}
    BY EventAssumption
  <2> QED BY <2>1, <2>2, SameQuotient
<1> QED BY <1>2, <1>3

\* Clearing a line leaves the requests of all other GPEs latched, and those of its
\* own if they are level triggered.
LEMMA ClearingKeeps ==
  ASSUME TypeOK, WellUsed, NEW h \in Gpes, NEW g \in wants \cap Gpes,
         Wired(g) \in sts, g # h \/ g \notin EdgeGpes
  PROVE  Wired(g) \in Latched(sts \ {LineOf(h)})
<1>1. CASE g # h
  <2>1. Wired(g) # LineOf(h)
    BY <1>1, LineFinds
  <2> QED BY <2>1 DEF Latched
<1>2. CASE g \notin EdgeGpes
  BY <1>2 DEF Latched
<1> QED BY <1>1, <1>2

-----------------------------------------------------------------------------
(* Requests are kept                                                       *)

LEMMA RaiseKeeps ==
  ASSUME TypeOK, Kept, Raise
  PROVE  Kept'
<1>1. UNCHANGED <<queue, job, fixedFn>>
  BY DEF Raise, RaiseGpe, RaiseFixed, context, threads
<1>2. ToCall' = ToCall
  BY <1>1 DEF ToCall
<1>3. ASSUME NEW g \in Gpes, RaiseGpe(g)
      PROVE  Kept'
  <2>1. /\ wants' = wants \cup {g} /\ sts' = sts \cup {Wired(g)} /\ UNCHANGED fixedSts
        /\ g \notin FixedEvents
    BY <1>3, EventAssumption DEF RaiseGpe
  <2> QED BY <1>1, <1>2, <2>1 DEF Kept, Requested, Wired
<1>4. ASSUME NEW f \in FixedEvents, RaiseFixed(f)
      PROVE  Kept'
  <2>1. /\ wants' \cap Gpes = wants \cap Gpes /\ UNCHANGED sts
        /\ wants' = wants \/ (wants' = wants \cup {f} /\ f \in fixedFn)
        /\ fixedSts' = fixedSts \cup {f}
    BY <1>4, EventAssumption DEF RaiseFixed
  <2> QED BY <1>1, <1>2, <2>1 DEF Kept, Requested, Wired
<1> QED BY <1>3, <1>4 DEF Raise

LEMMA SciKeeps ==
  ASSUME TypeOK, ThreadsOK, WellUsed, Kept, Sci
  PROVE  Kept'
<1>1. UNCHANGED <<wants, fixedFn>>
  BY DEF Sci, SciFixed, SciFind, SciRead, SciWrite, devices, context
<1>2. ToCall' = ToCall \cup SciWorks
  BY SciEffect
<1>3. \A g \in Gpes : Requested(g) => Requested(g)'
  BY <1>2 DEF Requested, Event, LineOf, BlockOf, RegIndex, IsFixed
<1>4. \A f : FixedWork(f) \in ToCall => FixedWork(f) \in ToCall'
  BY <1>2
<1>5. CASE SciFixed
  <2>1. UNCHANGED sts
    BY <1>5 DEF SciFixed
  <2>2. \A f \in fixedSts : f \in fixedFn => FixedWork(f) \in ToCall'
    BY <1>2, <1>5 DEF FixedHits, SciWorks
  <2> QED BY <1>1, <1>3, <1>4, <2>1, <2>2 DEF Kept, Wired
<1>6. CASE SciFind \/ SciRead
  <2>1. UNCHANGED <<sts, fixedSts>>
    BY <1>6 DEF SciFind, SciRead, hardware
  <2> QED BY <1>1, <1>3, <1>4, <2>1 DEF Kept, Wired
<1>7. CASE SciWrite
  <2> DEFINE work == job[Interrupt].work
  <2>1. /\ job[Interrupt].at = "disable" /\ UNCHANGED fixedSts
        /\ sts' = IF work.of.edge THEN Latched(sts \ {work.of.line}) ELSE sts
    BY <1>7 DEF SciWrite
  <2>2. Interrupt \in Handlers /\ Working(Interrupt) /\ ~IsFixed(work) /\ work \in ToCall
    BY <2>1, ThreadFacts, WorkingAt DEF Stages, ThreadsOK, ToCall
  <2>3. PICK h \in Gpes : work.of = Event(h)
    BY <2>2, GpeJob
  <2> HIDE DEF work
  <2>4. work.of.line = LineOf(h) /\ work.of.edge = (h \in EdgeGpes)
    BY <2>3, LineFacts
  <2>5. Requested(h)'
    <3>1. Requested(h)
      BY <2>2, <2>3 DEF Requested
    <3> QED BY <1>3, <3>1
  <2>6. ASSUME NEW g \in wants \cap Gpes, Wired(g) \in sts
        PROVE  Wired(g) \in sts' \/ (g = h /\ g \in EdgeGpes)
    BY <2>1, <2>4, <2>6, ClearingKeeps
  <2>7. \A g \in wants' \cap Gpes : Wired(g) \in sts' \/ Requested(g)'
    BY <1>1, <1>3, <2>5, <2>6 DEF Kept
  <2>8. \A g \in (wants' \cap Gpes) \ EdgeGpes : Wired(g) \in sts'
    BY <1>1, <2>6 DEF Kept
  <2> QED BY <1>1, <1>4, <2>1, <2>7, <2>8 DEF Kept, Wired
<1> QED BY <1>5, <1>6, <1>7 DEF Sci

LEMMA WorkKeeps ==
  ASSUME TypeOK, ThreadsOK, WellUsed, WorkFindsItsEvent, Kept, NEW w \in Workers, Work(w)
  PROVE  Kept'
<1>0. w \in Handlers
  BY ThreadFacts
<1>1. UNCHANGED <<fixedSts, fixedFn>>
  BY DEF Work, WorkStart, WorkGpeFn, WorkFixedFn, WorkClear, WorkRead, WorkWrite,
         hardware, context
<1>2. CASE WorkStart(w) \/ WorkRead(w) \/ WorkWrite(w)
  <2>1. UNCHANGED <<wants, sts>>
    BY <1>2 DEF WorkStart, WorkRead, WorkWrite, hardware, devices
  <2>2. ToCall' = ToCall
    <3>1. CASE WorkStart(w)
      BY <3>1, WorkStartEffect
    <3>2. CASE WorkRead(w) \/ WorkWrite(w)
      BY <3>2, WorkEffect DEF Work, WorkRead, WorkWrite, WorkGpeFn, WorkFixedFn
    <3> QED BY <1>2, <3>1, <3>2
  <2> QED BY <1>1, <2>1, <2>2 DEF Kept, Requested, Wired
<1>3. CASE WorkGpeFn(w)
  <2>0. job[w].at = "fn" /\ ~IsFixed(job[w].work) /\ UNCHANGED sts /\ Working(w)
    BY <1>0, <1>3, WorkingAt DEF WorkGpeFn, hardware, Stages
  <2>1. /\ ~IsFixed(job[w].work) /\ UNCHANGED sts
        /\ wants' = wants \ {job[w].work.of.gpe}
    BY <1>3, <2>0, AtOwn DEF WorkGpeFn
  <2>2. PICK h \in Gpes : job[w].work.of = Event(h) /\ job[w].work.of.gpe = h
    BY <1>0, <2>0, GpeJob
  <2>3. ToCall \subseteq ToCall' \cup {job[w].work}
    BY <1>3, WorkEffect DEF Work
  <2>4. \A g \in Gpes \ {h} : Requested(g) => Requested(g)'
    <3>1. \A g \in Gpes \ {h} : Event(g) # Event(h)
      BY LineFacts
    <3> QED BY <2>2, <2>3, <3>1
            DEF Requested, Event, LineOf, BlockOf, RegIndex, IsFixed
  <2>5. \A f \in FixedEvents : FixedWork(f) \in ToCall => FixedWork(f) \in ToCall'
    BY <2>1, <2>3, WorkFacts
  <2> QED BY <1>1, <2>1, <2>2, <2>4, <2>5 DEF Kept, Wired
<1>4. CASE WorkFixedFn(w)
  <2>1. IsFixed(job[w].work) /\ UNCHANGED sts /\ wants' = wants \ {job[w].work.of}
    BY <1>4 DEF WorkFixedFn, hardware
  <2>2. ToCall \subseteq ToCall' \cup {job[w].work}
    BY <1>4, WorkEffect DEF Work
  <2>3. \A g \in Gpes : Requested(g) => Requested(g)'
    BY <2>1, <2>2 DEF Requested, Event, LineOf, BlockOf, RegIndex, IsFixed
  <2>4. \A f \in FixedEvents \ {job[w].work.of} :
          FixedWork(f) \in ToCall => FixedWork(f) \in ToCall'
    BY <2>2, WorkFacts
  <2> QED BY <1>1, <2>1, <2>3, <2>4 DEF Kept, Wired, FixedWork
<1>5. CASE WorkClear(w)
  <2>0. job[w].at = "clear" /\ Working(w) /\ ~IsFixed(job[w].work)
    BY <1>0, <1>5, WorkingAt DEF WorkClear, Stages, ThreadsOK
  <2>1. /\ UNCHANGED wants
        /\ sts' = IF job[w].work.of.edge THEN sts
                  ELSE Latched(sts \ {job[w].work.of.line})
    BY <1>5, <2>0, AtOwn DEF WorkClear, devices
  <2>2. PICK h \in Gpes : job[w].work.of = Event(h)
    BY <1>0, <2>0, GpeJob
  <2>3. job[w].work.of.line = LineOf(h) /\ job[w].work.of.edge = (h \in EdgeGpes)
    BY <2>2, LineFacts
  <2>4. \A g \in wants \cap Gpes : Wired(g) \in sts => Wired(g) \in sts'
    BY <2>1, <2>3, ClearingKeeps
  <2>5. ToCall' = ToCall
    BY <1>5, WorkEffect DEF Work, WorkClear, WorkGpeFn, WorkFixedFn
  <2> QED BY <1>1, <2>1, <2>4, <2>5 DEF Kept, Requested, Wired
<1> QED BY <1>2, <1>3, <1>4, <1>5 DEF Work

LEMMA CallKeeps ==
  ASSUME TypeOK, Kept, BeginCall \/ EndCall
  PROVE  Kept'
<1>1. ToCall' = ToCall
  BY CallKeepsWork
<1>2. UNCHANGED <<sts, fixedSts>>
  BY BeginCallCases
     DEF Push, DisableGpe, EnableFixed, DisableFixed, EndCall, CallRead, EnableWrite,
         EnableFails, DisableWrite, RemoveGpe, StoreFixed, ClearFixed, hardware
<1>3. \/ UNCHANGED wants /\ fixedFn \subseteq fixedFn'
      \/ /\ wants' = wants \ {call.event} /\ fixedFn' = fixedFn \ {call.event}
         /\ call.event \in FixedEvents
  <2>1. CASE ClearFixed
    BY <2>1, CallFacts DEF ClearFixed
  <2>2. CASE BeginCall \/ (EndCall /\ ~ClearFixed)
    BY <2>2, BeginCallCases
       DEF Push, DisableGpe, EnableFixed, DisableFixed, EndCall, CallRead, EnableWrite,
           EnableFails, DisableWrite, RemoveGpe, StoreFixed, devices, context
  <2> QED BY <2>1, <2>2
<1> QED BY <1>1, <1>2, <1>3 DEF Kept, Requested, Wired

-----------------------------------------------------------------------------
(* The lists and the calls                                                 *)

\* What a call does to the lists: nothing, an element more at the end of one, or one
\* less.
LEMMA PushAppends ==
  ASSUME TypeOK, NEW g \in Gpes, NEW list \in ListSet, Push(g, list)
  PROVE  LET n == Len(events[list]) IN
         /\ n \in Nat /\ DOMAIN events[list] = 1..n
         /\ DOMAIN events'[list] = 1..(n + 1) /\ Len(events'[list]) = n + 1
         /\ \A i \in 1..n : events'[list][i] = events[list][i]
         /\ events'[list][n + 1] = Event(g)
         /\ \A other \in ListSet \ {list} : events'[other] = events[other]
<1> DEFINE seq == Append(events[list], Event(g))
<1>1. events[list] \in Seq(Events) /\ Event(g) \in Events
  BY LineFacts DEF TypeOK
<1>2. /\ seq \in Seq(Events) /\ Len(seq) = Len(events[list]) + 1
      /\ \A i \in 1..Len(events[list]) : seq[i] = events[list][i]
      /\ seq[Len(events[list]) + 1] = Event(g)
  BY <1>1, AppendProperties
<1>3. /\ DOMAIN events[list] = 1..Len(events[list]) /\ Len(events[list]) \in Nat
      /\ DOMAIN seq = 1..(Len(events[list]) + 1)
  BY <1>1, <1>2, LenProperties
<1>4. events' = [events EXCEPT ![list] = seq]
  BY DEF Push
<1> HIDE DEF seq
<1>5. events'[list] = seq /\ \A other \in ListSet \ {list} : events'[other] = events[other]
  BY <1>4 DEF TypeOK
<1> QED BY <1>2, <1>3, <1>5

LEMMA FailPops ==
  ASSUME TypeOK, CallOK, EnableFails
  PROVE  LET list == call.list
             n == Len(events[list]) IN
         /\ list \in ListSet
         /\ n \in Nat /\ n > 0 /\ DOMAIN events[list] = 1..n
         /\ DOMAIN events'[list] = 1..(n - 1)
         /\ \A i \in 1..(n - 1) : events'[list][i] = events[list][i]
         /\ \A other \in ListSet \ {list} : events'[other] = events[other]
<1> DEFINE list == call.list
           n == Len(events[list])
           seq == Front(events[list])
<1>1. list \in ListSet /\ call.op = "enable" /\ events[list] # <<>>
  BY CallFacts DEF EnableFails, CallOK
<1>2. events[list] \in Seq(Events) /\ DOMAIN events[list] = 1..n /\ n \in Nat
  BY <1>1, LenProperties DEF TypeOK
<1>3. n > 0
  BY <1>1, <1>2, EmptySeq
<1>4. /\ seq \in Seq(Events) /\ Len(seq) = n - 1
      /\ \A i \in 1..(n - 1) : seq[i] = events[list][i]
  BY <1>1, <1>2, FrontLeaves
<1>5. DOMAIN seq = 1..(n - 1)
  BY <1>2, <1>3, <1>4, LenProperties
<1>6. events' = [events EXCEPT ![list] = seq]
  BY DEF EnableFails
<1> HIDE DEF seq, n
<1>7. events'[list] = seq /\ \A other \in ListSet \ {list} : events'[other] = events[other]
  BY <1>1, <1>6 DEF TypeOK
<1> QED BY <1>1, <1>2, <1>3, <1>4, <1>5, <1>7 DEF n

LEMMA RemoveDrops ==
  ASSUME TypeOK, RemoveGpe
  PROVE  LET list == <<BlockOf(call.gpe), "gpe">>
             n == Len(events[list]) IN
         /\ list \in ListSet /\ n \in Nat /\ DOMAIN events[list] = 1..n
         /\ \/ /\ Matches(list, call.line) = {} /\ UNCHANGED events
            \/ \E i \in 1..n :
                 /\ events[list][i].line = call.line
                 /\ DOMAIN events'[list] = 1..(n - 1)
                 /\ \A j \in 1..(n - 1) :
                      events'[list][j] =
                        IF j < i THEN events[list][j] ELSE events[list][j + 1]
                 /\ \A other \in ListSet \ {list} : events'[other] = events[other]
<1> DEFINE list == <<BlockOf(call.gpe), "gpe">>
           n == Len(events[list])
           i == Min(Matches(list, call.line))
           seq == RemoveAt(events[list], i)
<1>1. list \in ListSet
  BY ListFacts
<1>2. events[list] \in Seq(Events) /\ DOMAIN events[list] = 1..n /\ n \in Nat
  BY <1>1, LenProperties DEF TypeOK
<1>3. CASE Matches(list, call.line) = {}
  BY <1>1, <1>2, <1>3 DEF RemoveGpe
<1>4. CASE Matches(list, call.line) # {}
  <2>1. Matches(list, call.line) \in SUBSET Nat
    BY <1>2 DEF Matches
  <2>2. i \in Matches(list, call.line)
    BY <1>4, <2>1, MinNat
  <2>3. i \in 1..n /\ events[list][i].line = call.line
    BY <1>2, <2>2 DEF Matches
  <2>4. events' = [events EXCEPT ![list] = seq]
    BY <1>4 DEF RemoveGpe
  <2> HIDE DEF i
  <2>5. /\ seq \in Seq(Events) /\ Len(seq) = n - 1
        /\ \A j \in 1..(n - 1) :
             seq[j] = IF j < i THEN events[list][j] ELSE events[list][j + 1]
    BY <1>2, <2>3, RemoveLeaves
  <2>6. DOMAIN seq = 1..(n - 1)
    BY <1>2, <2>3, <2>5, LenProperties
  <2> HIDE DEF seq, n, list
  <2>7. events'[list] = seq /\ \A other \in ListSet \ {list} : events'[other] = events[other]
    BY <1>1, <2>4 DEF TypeOK
  <2> QED BY <1>1, <1>2, <2>3, <2>5, <2>6, <2>7 DEF n, list
<1> QED BY <1>3, <1>4

\* What BeginCall and EndCall leave alone.
LEMMA ListsStay ==
  \/ Raise \/ Sci \/ UNCHANGED vars \/ (\E w \in Workers : Work(w))
    => UNCHANGED <<events, fixedFn, fixedEn, call>>
BY DEF Raise, RaiseGpe, RaiseFixed, Sci, SciFixed, SciFind, SciRead, SciWrite, Work, WorkStart, WorkGpeFn, WorkFixedFn,
       WorkClear, WorkRead, WorkWrite, vars, hardware, context, host

LEMMA BeginListsOK ==
  ASSUME TypeOK, ListsOK, BeginCall
  PROVE  ListsOK'
<1>1. ASSUME NEW g \in Gpes, NEW list \in ListSet, Push(g, list), BlockOf(g) = list[1]
      PROVE  ListsOK'
  <2> DEFINE n == Len(events[list])
  <2>1. /\ n \in Nat /\ DOMAIN events[list] = 1..n /\ DOMAIN events'[list] = 1..(n + 1)
        /\ \A i \in 1..n : events'[list][i] = events[list][i]
        /\ events'[list][n + 1] = Event(g)
        /\ \A other \in ListSet \ {list} : events'[other] = events[other]
    BY <1>1, PushAppends
  <2>2. \A i \in 1..n : events[list][i].gpe # g
    BY <1>1, <2>1 DEF Push, Installed
  <2> HIDE DEF n
  <2>3. Event(g).gpe = g
    BY LineFacts
  <2>4. \A i \in 1..(n + 1) : i \in 1..n \/ i = n + 1
    BY <2>1
  <2>5. ASSUME NEW i \in 1..(n + 1)
        PROVE  BlockOf(events'[list][i].gpe) = list[1]
    <3>1. CASE i \in 1..n
      <4>1. events'[list][i] = events[list][i] /\ i \in DOMAIN events[list]
        BY <2>1, <3>1
      <4> QED BY <4>1 DEF ListsOK
    <3>2. CASE i = n + 1
      <4>1. events'[list][i].gpe = g
        BY <2>1, <2>3, <3>2
      <4> QED BY <1>1, <4>1
    <3> QED BY <2>4, <3>1, <3>2
  <2>6. ASSUME NEW i \in 1..(n + 1), NEW j \in 1..(n + 1),
               events'[list][i].gpe = events'[list][j].gpe
        PROVE  i = j
    <3>1. \A k \in 1..n : events'[list][k].gpe = events[list][k].gpe /\ k \in DOMAIN events[list]
      BY <2>1
    <3>2. events'[list][n + 1].gpe = g
      BY <2>1, <2>3
    <3>3. CASE i \in 1..n /\ j \in 1..n
      <4>1. events[list][i].gpe = events[list][j].gpe
        BY <2>6, <3>1, <3>3
      <4> QED BY <3>1, <3>3, <4>1 DEF ListsOK
    <3>4. CASE i = n + 1 \/ j = n + 1
      BY <2>2, <2>4, <2>6, <3>1, <3>2, <3>4
    <3> QED BY <2>4, <3>3, <3>4
  <2>7. ASSUME NEW other \in ListSet
        PROVE  /\ \A i \in DOMAIN events'[other] :
                    BlockOf(events'[other][i].gpe) = other[1]
               /\ \A i, j \in DOMAIN events'[other] :
                    events'[other][i].gpe = events'[other][j].gpe => i = j
    <3>1. CASE other = list
      BY <2>1, <2>5, <2>6, <3>1
    <3>2. CASE other # list
      <4>1. events'[other] = events[other]
        BY <2>1, <3>2
      <4> QED BY <4>1 DEF ListsOK
    <3> QED BY <3>1, <3>2
  <2> QED BY <2>7 DEF ListsOK, BlockOf
<1>2. ASSUME UNCHANGED events
      PROVE  ListsOK'
  BY <1>2 DEF ListsOK, BlockOf
<1> QED BY <1>1, <1>2, BeginCallCases
        DEF DisableGpe, EnableFixed, DisableFixed, context

LEMMA EndListsOK ==
  ASSUME TypeOK, ListsOK, CallOK, EndCall
  PROVE  ListsOK'
<1>1. CASE EnableFails
  <2>1. \A list \in ListSet : \A i \in DOMAIN events'[list] :
          i \in DOMAIN events[list] /\ events'[list][i] = events[list][i]
    BY <1>1, FailPops
  <2> QED BY <2>1 DEF ListsOK, BlockOf
<1>2. CASE RemoveGpe /\ ~UNCHANGED events
  <2> DEFINE list == <<BlockOf(call.gpe), "gpe">>
             n == Len(events[list])
  <2>1. PICK i \in 1..n :
          /\ list \in ListSet /\ n \in Nat /\ DOMAIN events[list] = 1..n
          /\ DOMAIN events'[list] = 1..(n - 1)
          /\ \A j \in 1..(n - 1) :
               events'[list][j] = IF j < i THEN events[list][j] ELSE events[list][j + 1]
          /\ \A other \in ListSet \ {list} : events'[other] = events[other]
    BY <1>2, RemoveDrops
  <2> HIDE DEF list, n
  <2> DEFINE old(j) == IF j < i THEN j ELSE j + 1
  <2>2. \A j \in 1..(n - 1) : old(j) \in 1..n /\ events'[list][j] = events[list][old(j)]
    BY <2>1
  <2>3. \A j, k \in 1..(n - 1) : old(j) = old(k) => j = k
    BY <2>1
  <2> HIDE DEF old
  <2>4. \A j \in 1..(n - 1) : BlockOf(events'[list][j].gpe) = list[1]
    BY <2>1, <2>2 DEF ListsOK
  <2>5. ASSUME NEW j \in 1..(n - 1), NEW k \in 1..(n - 1),
               events'[list][j].gpe = events'[list][k].gpe
        PROVE  j = k
    <3>1. events[list][old(j)].gpe = events[list][old(k)].gpe
      BY <2>2, <2>5
    <3>2. old(j) \in DOMAIN events[list] /\ old(k) \in DOMAIN events[list]
      BY <2>1, <2>2
    <3>3. old(j) = old(k)
      BY <2>1, <3>1, <3>2 DEF ListsOK
    <3> QED BY <2>3, <3>3
  <2> QED BY <2>1, <2>4, <2>5 DEF ListsOK, BlockOf
<1>3. ASSUME UNCHANGED events
      PROVE  ListsOK'
  BY <1>3 DEF ListsOK, BlockOf
<1> QED BY <1>1, <1>2, <1>3
        DEF EndCall, CallRead, EnableWrite, DisableWrite, StoreFixed, ClearFixed, context

\* Who reads or writes a register has work on a GPE.
LEMMA WriterWorks ==
  ASSUME TypeOK, ThreadsOK, NEW t \in Handlers, job[t].at \in Stages \ {"fn"}
  PROVE  /\ job[t].work \in GpeOutstanding /\ job[t].work.of.line \in Lines
         /\ job[t].at \in {"write", "disable"} => read[t] # Unread
<1>1. Working(t) /\ ~IsFixed(job[t].work)
  BY WorkingAt DEF ThreadsOK
<1>2. job[t].work.of.line \in Lines
  BY <1>1, GpeJob
<1> QED BY <1>1, <1>2 DEF GpeOutstanding, Outstanding, ThreadsOK

\* Who has read a register, while no work is outstanding.
LEMMA OnlyHostReads ==
  ASSUME TypeOK, ThreadsOK, GpeOutstanding = {}
  PROVE  \A t \in Handlers : read[t] = Unread
<1> SUFFICES ASSUME NEW t \in Handlers, read[t] # Unread PROVE FALSE
  OBVIOUS
<1>1. job[t].at \in {"write", "disable"}
  BY DEF ThreadsOK
<1>2. job[t].at \in Stages \ {"fn"}
  BY <1>1 DEF Stages
<1> QED BY <1>2, WriterWorks

LEMMA OtherCallOK ==
  ASSUME TypeOK, ThreadsOK, RemovalsAreIdle, CallOK,
         Raise \/ Sci \/ UNCHANGED vars \/ (\E w \in Workers : Work(w))
  PROVE  CallOK'
<1>1. UNCHANGED <<events, fixedFn, fixedEn, call>>
  BY ListsStay
<1>2. call.op = "remove" => en' \subseteq en
  <2>1. ASSUME NEW w \in Workers, Work(w), call.op = "remove"
        PROVE  UNCHANGED en
    <3>1. ~WorkWrite(w)
      BY <2>1, ThreadFacts, WriterWorks DEF WorkWrite, RemovalsAreIdle, Stages
    <3> QED BY <2>1, <3>1
            DEF Work, WorkStart, WorkGpeFn, WorkFixedFn, WorkClear, WorkRead, hardware
  <2>2. ASSUME Sci, call.op = "remove"
        PROVE  UNCHANGED en
    <3>1. ~SciWrite
      BY <2>2, ThreadFacts, WriterWorks DEF SciWrite, RemovalsAreIdle, Stages
    <3> QED BY <2>2, <3>1 DEF Sci, SciFixed, SciFind, SciRead, hardware
  <2>3. Raise \/ UNCHANGED vars => UNCHANGED en
    BY DEF Raise, RaiseGpe, RaiseFixed, vars, hardware
  <2> QED BY <2>1, <2>2, <2>3
<1> QED BY <1>1, <1>2 DEF CallOK, Installed, LineOf, BlockOf, RegIndex

LEMMA BeginCallOK ==
  ASSUME TypeOK, WellUsed, BeginCall
  PROVE  CallOK'
<1>1. ASSUME NEW g \in Gpes, NEW list \in ListSet, Push(g, list)
      PROVE  CallOK'
  <2>1. /\ Len(events'[list]) \in Nat /\ Len(events'[list]) # 0
        /\ events'[list][Len(events'[list])] = Event(g)
    BY <1>1, PushAppends
  <2>2. Len(<<>>) = 0
    OBVIOUS
  <2>3. events'[list] # <<>>
    BY <2>1, <2>2
  <2>4. call'.op = "enable" /\ call'.list = list /\ call'.line = LineOf(g)
    BY <1>1 DEF Push
  <2> QED BY <2>1, <2>3, <2>4, LineFacts DEF CallOK
<1>2. ASSUME NEW g \in Gpes, DisableGpe(g)
      PROVE  CallOK'
  <2>1. /\ call'.op = "disable" /\ call'.gpe = g /\ call'.line = LineOf(g)
        /\ g \notin Installed(<<BlockOf(g), "aml">>) /\ UNCHANGED events
    BY <1>2 DEF DisableGpe, WellUsed, context
  <2> QED BY <2>1 DEF CallOK, Installed, LineOf, BlockOf, RegIndex
<1>3. ASSUME NEW f \in FixedEvents, EnableFixed(f) \/ DisableFixed(f)
      PROVE  CallOK'
  <2>1. \/ call'.op = "store"
        \/ call'.op = "clear" /\ call'.event = f /\ fixedEn' = fixedEn \ {f}
    BY <1>3 DEF EnableFixed, DisableFixed
  <2> QED BY <2>1 DEF CallOK
<1> QED BY <1>1, <1>2, <1>3, BeginCallCases

LEMMA EndCallOK ==
  ASSUME TypeOK, CallOK, EndCall
  PROVE  CallOK'
<1>1. CASE CallRead
  BY <1>1 DEF CallRead, CallOK, hardware, context, host, Installed, LineOf, BlockOf, RegIndex
<1>2. CASE DisableWrite
  <2>1. /\ call.op = "disable" /\ call.line \in Lines
        /\ call = [op |-> call.op, gpe |-> call.gpe, line |-> call.line]
    BY <1>2, CallFacts DEF DisableWrite
  <2>2. call' = [op |-> "remove", gpe |-> call.gpe, line |-> call.line]
    BY <1>2, <2>1 DEF DisableWrite
  <2>3. call.line \notin en'
    BY <1>2, <2>1, SameRegType DEF DisableWrite, WriteEnable, Written
  <2>4. UNCHANGED events
    BY <1>2 DEF DisableWrite, context
  <2> QED BY <2>1, <2>2, <2>3, <2>4 DEF CallOK, Installed, LineOf, BlockOf, RegIndex
<1>3. CASE call' = NoCall
  BY <1>3, NewCall DEF CallOK
<1> QED BY <1>1, <1>2, <1>3
        DEF EndCall, EnableWrite, EnableFails, RemoveGpe, StoreFixed, ClearFixed

-----------------------------------------------------------------------------
(* What is alive stays so                                                  *)

\* A write of an enable register: what was enabled is so still, or it is in lost, but
\* for the line the write is about.
LEMMA WriteKeeps ==
  ASSUME NEW t, NEW line, NEW bits, WriteEnable(t, line, bits)
  PROVE  /\ \A l \in en \cup lost : l \in en' \cup lost' \/ l = line
         /\ en' \subseteq en \cup bits /\ bits \subseteq en'
BY DEF WriteEnable, Written

\* The event whose line the SCI disables is on its way to be enabled again.
LEMMA SciKeepsAlive ==
  ASSUME TypeOK, ThreadsOK, Sci
  PROVE  /\ \A line : Alive(line) => Alive(line)'
         /\ \A line \in en' : line \in en \/ (SciWrite /\ line \in read[Interrupt])
<1>1. GpeOutstanding \subseteq GpeOutstanding'
  BY SciEffect DEF GpeOutstanding
<1>2. CASE SciFixed \/ SciFind \/ SciRead
  <2>1. UNCHANGED <<en, lost>>
    BY <1>2 DEF SciFixed, SciFind, SciRead, hardware
  <2> QED BY <1>1, <2>1 DEF Alive
<1>3. CASE SciWrite
  <2> DEFINE own == job[Interrupt].work.of.line
  <2>1. /\ job[Interrupt].at = "disable"
        /\ WriteEnable(Interrupt, own, read[Interrupt] \ {own})
    BY <1>3 DEF SciWrite
  <2>2. job[Interrupt].work \in GpeOutstanding
    BY <2>1, ThreadFacts, WriterWorks DEF Stages
  <2>3. /\ \A l \in en \cup lost : l \in en' \cup lost' \/ l = own
        /\ en' \subseteq en \cup (read[Interrupt] \ {own})
    BY <2>1, WriteKeeps
  <2>4. \E work \in GpeOutstanding' : work.of.line = own
    BY <1>1, <2>2
  <2> HIDE DEF own
  <2>5. ASSUME NEW line, Alive(line)
        PROVE  Alive(line)'
    <3>1. CASE line \in en \cup lost
      BY <2>3, <2>4, <3>1 DEF Alive
    <3>2. CASE \E work \in GpeOutstanding : work.of.line = line
      BY <1>1, <3>2 DEF Alive
    <3> QED BY <2>5, <3>1, <3>2 DEF Alive
  <2> QED BY <1>3, <2>3, <2>5
<1> QED BY <1>2, <1>3 DEF Sci

\* A worker writes back what it has read, and its own line.
LEMMA WorkKeepsAlive ==
  ASSUME TypeOK, ThreadsOK, WorkFindsItsEvent, NEW w \in Workers, Work(w)
  PROVE  /\ \A line : Alive(line) => Alive(line)'
         /\ \A line \in en' :
              \/ line \in en
              \/ /\ job[w].work \in GpeOutstanding /\ read[w] # Unread
                 /\ line \in read[w] \cup {job[w].work.of.line}
<1>1. CASE WorkWrite(w)
  <2> DEFINE own == job[w].work.of.line
  <2>1. job[w].at = "write" /\ WriteEnable(w, own, read[w] \cup {own})
    BY <1>1 DEF WorkWrite
  <2>2. job[w].work \in GpeOutstanding /\ read[w] # Unread
    BY <2>1, ThreadFacts, WriterWorks DEF Stages
  <2>3. /\ \A l \in en \cup lost : l \in en' \cup lost' \/ l = own
        /\ en' \subseteq en \cup (read[w] \cup {own}) /\ own \in en'
    BY <2>1, WriteKeeps
  <2>4. GpeOutstanding \subseteq GpeOutstanding' \cup {job[w].work}
    BY <1>1, WorkEffect DEF Work, GpeOutstanding
  <2>5. ASSUME NEW line, Alive(line)
        PROVE  Alive(line)'
    <3>1. CASE line \in en \cup lost
      BY <2>3, <3>1 DEF Alive
    <3>2. ASSUME NEW work \in GpeOutstanding, work.of.line = line
          PROVE  Alive(line)'
      <4>1. CASE work = job[w].work
        BY <2>3, <3>2, <4>1 DEF Alive
      <4>2. CASE work # job[w].work
        BY <2>4, <3>2, <4>2 DEF Alive
      <4> QED BY <4>1, <4>2
    <3> QED BY <2>5, <3>1, <3>2 DEF Alive
  <2> QED BY <2>2, <2>3, <2>5
<1>2. CASE ~WorkWrite(w)
  <2>1. UNCHANGED <<en, lost>>
    BY <1>2 DEF Work, WorkStart, WorkGpeFn, WorkFixedFn, WorkClear, WorkRead, hardware
  <2>2. UNCHANGED GpeOutstanding
    <3>1. CASE WorkFixedFn(w)
      <4>1. /\ IsFixed(job[w].work) /\ Outstanding' \subseteq Outstanding
            /\ Outstanding \subseteq Outstanding' \cup {job[w].work}
        BY <3>1, WorkEffect DEF WorkFixedFn
      <4> QED BY <4>1 DEF GpeOutstanding
    <3>2. CASE ~WorkFixedFn(w)
      <4>1. Outstanding' = Outstanding
        BY <1>2, <3>2, WorkEffect
      <4> QED BY <4>1 DEF GpeOutstanding
    <3> QED BY <3>1, <3>2
  <2> QED BY <2>1, <2>2 DEF Alive
<1> QED BY <1>1, <1>2

\* So does a call.
LEMMA CallKeepsAlive ==
  ASSUME TypeOK, ThreadsOK, EndCall
  PROVE  /\ UNCHANGED GpeOutstanding
         /\ EnableWrite \/ DisableWrite =>
              /\ read[Host] # Unread
              /\ \A l \in en \cup lost : l \in en' \cup lost' \/ l = call.line
              /\ en' \subseteq en \cup read[Host] \cup {call.line}
         /\ EnableWrite => call.line \in en'
         /\ DisableWrite => en' \subseteq en \cup read[Host]
         /\ ~EnableWrite /\ ~DisableWrite => UNCHANGED <<en, lost>>
<1>1. UNCHANGED GpeOutstanding
  BY CallKeepsWork
<1>2. CASE EnableWrite
  <2>1. /\ read[Host] # Unread /\ ~DisableWrite
        /\ WriteEnable(Host, call.line, read[Host] \cup {call.line})
    BY <1>2 DEF EnableWrite, DisableWrite
  <2>2. /\ \A l \in en \cup lost : l \in en' \cup lost' \/ l = call.line
        /\ en' \subseteq en \cup (read[Host] \cup {call.line}) /\ call.line \in en'
    BY <2>1, WriteKeeps
  <2> QED BY <1>1, <1>2, <2>1, <2>2
<1>3. CASE DisableWrite
  <2>1. /\ read[Host] # Unread /\ ~EnableWrite
        /\ WriteEnable(Host, call.line, read[Host] \ {call.line})
    BY <1>3 DEF EnableWrite, DisableWrite
  <2>2. /\ \A l \in en \cup lost : l \in en' \cup lost' \/ l = call.line
        /\ en' \subseteq en \cup (read[Host] \ {call.line})
    BY <2>1, WriteKeeps
  <2> QED BY <1>1, <1>3, <2>1, <2>2
<1>4. CASE ~EnableWrite /\ ~DisableWrite
  BY <1>1, <1>4
     DEF EndCall, CallRead, EnableFails, RemoveGpe, StoreFixed, ClearFixed, hardware,
         threads
<1> QED BY <1>2, <1>3, <1>4

-----------------------------------------------------------------------------
(* What the threads have read                                              *)

\* A step reads what is enabled, or forgets what was read, or leaves it.
LEMMA ReadSteps ==
  ASSUME TypeOK, ThreadsOK, [Next]_vars
  PROVE  \A t \in Threads : read'[t] = read[t] \/ read'[t] = Unread \/ read'[t] \subseteq en
<1>1. DOMAIN read = Threads
  BY DEF TypeOK
<1>2. ASSUME NEW t, NEW line, ReadEnable(t, line)
      PROVE  \A u \in Threads : read'[u] = read[u] \/ read'[u] \subseteq en
  BY <1>1, <1>2 DEF ReadEnable
<1>3. ASSUME NEW t, read' = [read EXCEPT ![t] = Unread]
      PROVE  \A u \in Threads : read'[u] = read[u] \/ read'[u] = Unread
  BY <1>1, <1>3
<1>4. CASE Raise \/ UNCHANGED vars
  BY <1>4 DEF Raise, RaiseGpe, RaiseFixed, vars, threads
<1>5. CASE Sci
  <2>1. CASE SciFixed \/ SciFind
    BY <2>1 DEF SciFixed, SciFind
  <2>2. CASE SciRead
    BY <1>2, <2>2 DEF SciRead
  <2>3. CASE SciWrite
    BY <1>3, <2>3 DEF SciWrite, WriteEnable
  <2> QED BY <1>5, <2>1, <2>2, <2>3 DEF Sci
<1>6. ASSUME NEW w \in Workers, Work(w)
      PROVE  \A u \in Threads : read'[u] = read[u] \/ read'[u] = Unread \/ read'[u] \subseteq en
  <2>1. CASE WorkStart(w) \/ WorkGpeFn(w) \/ WorkFixedFn(w) \/ WorkClear(w)
    BY <2>1 DEF WorkStart, WorkGpeFn, WorkFixedFn, WorkClear
  <2>2. CASE WorkRead(w)
    BY <1>2, <2>2 DEF WorkRead
  <2>3. CASE WorkWrite(w)
    BY <1>3, <2>3 DEF WorkWrite, WriteEnable
  <2> QED BY <1>6, <2>1, <2>2, <2>3 DEF Work
<1>7. CASE BeginCall
  BY <1>7, BeginCallCases DEF Push, DisableGpe, EnableFixed, DisableFixed, threads
<1>8. CASE EndCall
  <2>1. CASE CallRead
    BY <1>2, <2>1 DEF CallRead
  <2>2. CASE EnableWrite \/ DisableWrite \/ EnableFails
    BY <1>3, <2>2 DEF EnableWrite, DisableWrite, EnableFails, WriteEnable
  <2>3. CASE RemoveGpe \/ StoreFixed \/ ClearFixed
    BY <2>3 DEF RemoveGpe, StoreFixed, ClearFixed, threads
  <2> QED BY <1>8, <2>1, <2>2, <2>3 DEF EndCall
<1> QED BY <1>4, <1>5, <1>6, <1>7, <1>8 DEF Next

\* A line keeps its handler but when the call that enables it fails, or a handler is
\* removed.
LEMMA HandledStays ==
  ASSUME TypeOK, CallOK, [Next]_vars, ~RemoveGpe,
         NEW line, HandledLine(line), EnableFails => line # call.line
  PROVE  HandledLine(line)'
<1>1. PICK list \in ListSet : \E i \in DOMAIN events[list] : events[list][i].line = line
  BY DEF HandledLine
<1>2. PICK i \in DOMAIN events[list] : events[list][i].line = line
  BY <1>1
<1> SUFFICES i \in DOMAIN events'[list] /\ events'[list][i] = events[list][i]
  BY <1>2 DEF HandledLine
<1>3. CASE UNCHANGED events
  BY <1>3
<1>4. ASSUME NEW g \in Gpes, NEW other \in ListSet, Push(g, other)
      PROVE  i \in DOMAIN events'[list] /\ events'[list][i] = events[list][i]
  BY <1>4, PushAppends
<1>5. CASE EnableFails
  <2>1. events[call.list][Len(events[call.list])].line = call.line
    BY <1>5 DEF EnableFails, CallOK
  <2>2. ~(list = call.list /\ i = Len(events[call.list]))
    BY <1>2, <1>5, <2>1
  <2> QED BY <1>5, <2>2, FailPops
<1>6. CASE BeginCall
  BY <1>3, <1>4, <1>6, BeginCallCases DEF DisableGpe, EnableFixed, DisableFixed, context
<1>7. CASE EndCall
  BY <1>3, <1>5, <1>7
     DEF EndCall, CallRead, EnableWrite, DisableWrite, StoreFixed, ClearFixed, context
<1>8. CASE Raise \/ Sci \/ UNCHANGED vars \/ (\E w \in Workers : Work(w))
  BY <1>3, <1>8, ListsStay
<1> QED BY <1>6, <1>7, <1>8 DEF Next

LEMMA ReadsInductive ==
  ASSUME TypeOK, ThreadsOK, WellUsed, RemovalsAreIdle, CallOK, ReadsOK, EnabledOK,
         [Next]_vars
  PROVE  ReadsOK'
<1> SUFFICES ASSUME NEW t \in Threads, read'[t] # Unread, NEW l \in read'[t]
             PROVE  HandledLine(l)'
  BY DEF ReadsOK
<1>1. read'[t] = read[t] \/ read'[t] \subseteq en
  BY ReadSteps
<1>2. HandledLine(l)
  BY <1>1 DEF ReadsOK, EnabledOK
<1>3. CASE RemoveGpe
  <2>1. GpeOutstanding = {} /\ call.op = "remove" /\ UNCHANGED read
    BY <1>3 DEF RemoveGpe, RemovalsAreIdle, threads
  <2>2. read[t] = Unread
    BY <2>1, OnlyHostReads, ThreadFacts DEF ThreadsOK
  <2> QED BY <2>1, <2>2
<1>4. ASSUME EnableFails
      PROVE  l # call.line
  <2>1. call.line \notin en /\ \A u \in Threads : call.line \notin read[u]
    BY <1>4 DEF EnableFails, WellUsed
  <2> QED BY <1>1, <2>1
<1> QED BY <1>2, <1>3, <1>4, HandledStays

-----------------------------------------------------------------------------
(* What is handled is enabled, and the other way round                     *)

\* The line is alive after the step.
AliveNext(line) ==
  line \in en' \cup lost' \/ \E work \in GpeOutstanding' : work.of.line = line

\* A line that work will enable has a handler.
LEMMA WorkHandled ==
  ASSUME TypeOK, WorkFindsItsEvent, NEW work \in GpeOutstanding
  PROVE  HandledLine(work.of.line)
<1>1. work.list \in ListSet /\ ~IsFixed(work)
  BY OutstandingType, WorkFacts DEF GpeOutstanding
<1>2. work.slot \in DOMAIN events[work.list] /\ events[work.list][work.slot] = work.of
  BY <1>1 DEF WorkFindsItsEvent, Valid
<1> QED BY <1>1, <1>2 DEF HandledLine

LEMMA OtherEnabledOK ==
  ASSUME TypeOK, ThreadsOK, WorkFindsItsEvent, ReadsOK, EnabledOK,
         Raise \/ Sci \/ UNCHANGED vars \/ (\E w \in Workers : Work(w))
  PROVE  EnabledOK'
<1>1. UNCHANGED <<events, fixedFn, fixedEn, call>>
  BY ListsStay
<1>2. /\ \A line : Alive(line) => Alive(line)'
      /\ \A line \in en' : HandledLine(line)
  <2>1. CASE Sci
    <3>1. \A line \in en' : line \in en \/ (SciWrite /\ line \in read[Interrupt])
      BY <2>1, SciKeepsAlive
    <3>2. SciWrite => read[Interrupt] # Unread
      BY ThreadFacts, WriterWorks DEF SciWrite, Stages
    <3>3. \A line : Alive(line) => Alive(line)'
      BY <2>1, SciKeepsAlive
    <3> QED BY <3>1, <3>2, <3>3, ThreadFacts DEF EnabledOK, ReadsOK
  <2>2. ASSUME NEW w \in Workers, Work(w)
        PROVE  /\ \A line : Alive(line) => Alive(line)'
               /\ \A line \in en' : HandledLine(line)
    <3>1. \A line \in en' :
            \/ line \in en
            \/ /\ job[w].work \in GpeOutstanding /\ read[w] # Unread
               /\ line \in read[w] \cup {job[w].work.of.line}
      BY <2>2, WorkKeepsAlive
    <3> QED BY <2>2, <3>1, WorkKeepsAlive, WorkHandled, ThreadFacts DEF EnabledOK, ReadsOK
  <2>3. CASE Raise \/ UNCHANGED vars
    <3>1. UNCHANGED <<en, lost, queue, job>>
      BY <2>3 DEF Raise, RaiseGpe, RaiseFixed, vars, hardware, threads
    <3> QED BY <3>1 DEF Alive, GpeOutstanding, Outstanding, Working, EnabledOK
  <2> QED BY <2>1, <2>2, <2>3
<1>3. \A line : HandledLine(line) => HandledLine(line)'
  BY <1>1 DEF HandledLine
<1> QED BY <1>1, <1>2, <1>3 DEF EnabledOK, Coming, Leaving

LEMMA BeginEnabledOK ==
  ASSUME TypeOK, ThreadsOK, EnabledOK, BeginCall
  PROVE  EnabledOK'
<1>1. UNCHANGED GpeOutstanding /\ call.op = "none"
  BY CallKeepsWork, BeginCallThreadsOK
<1>2. UNCHANGED <<en, lost>>
  BY BeginCallCases DEF Push, DisableGpe, EnableFixed, DisableFixed, hardware, threads
<1>3. \A line : Alive(line) => AliveNext(line)
  BY <1>1, <1>2 DEF Alive, AliveNext
<1>4. \A list \in ListSet : \A i \in DOMAIN events[list] : Alive(events[list][i].line)
  BY <1>1 DEF EnabledOK, Coming, Leaving
<1>5. ASSUME NEW g \in Gpes, NEW list \in ListSet, Push(g, list)
      PROVE  EnabledOK'
  <2> DEFINE n == Len(events[list])
  <2>1. /\ n \in Nat /\ DOMAIN events[list] = 1..n
        /\ DOMAIN events'[list] = 1..(n + 1) /\ Len(events'[list]) = n + 1
        /\ \A i \in 1..n : events'[list][i] = events[list][i]
        /\ \A other \in ListSet \ {list} : events'[other] = events[other]
    BY <1>5, PushAppends
  <2>2. /\ call'.op = "enable" /\ call'.list = list
        /\ UNCHANGED <<fixedEn, fixedFn>>
    BY <1>5 DEF Push, hardware
  <2> HIDE DEF n
  <2>3. ASSUME NEW other \in ListSet, NEW i \in DOMAIN events'[other]
        PROVE  AliveNext(events'[other][i].line) \/ Coming(other, i)'
    <3>1. CASE other = list /\ i = n + 1
      BY <2>1, <2>2, <3>1 DEF Coming
    <3>2. CASE other # list \/ i # n + 1
      <4>1. i \in DOMAIN events[other] /\ events'[other][i] = events[other][i]
        BY <2>1, <2>3, <3>2
      <4> QED BY <1>3, <1>4, <4>1
    <3> QED BY <3>1, <3>2
  <2>4. \A line : HandledLine(line) => HandledLine(line)'
    <3>1. \A other \in ListSet : \A i \in DOMAIN events[other] :
            i \in DOMAIN events'[other] /\ events'[other][i] = events[other][i]
      BY <2>1
    <3> QED BY <3>1 DEF HandledLine
  <2>5. \A f \in fixedEn : f \in fixedFn
    BY <1>1 DEF EnabledOK
  <2> QED BY <1>2, <2>2, <2>3, <2>4, <2>5 DEF EnabledOK, Alive, AliveNext
<1>6. ASSUME UNCHANGED events, \A f \in fixedEn' : f \in fixedFn' \/ (call'.op = "store" /\ call'.event = f)
      PROVE  EnabledOK'
  <2>1. \A line : HandledLine(line) => HandledLine(line)'
    BY <1>6 DEF HandledLine
  <2> QED BY <1>2, <1>3, <1>4, <1>6, <2>1 DEF EnabledOK, Alive, AliveNext
<1>7. ASSUME NEW g \in Gpes, DisableGpe(g)
      PROVE  EnabledOK'
  <2>1. UNCHANGED <<events, fixedFn, fixedEn>>
    BY <1>7 DEF DisableGpe, hardware, context
  <2> QED BY <1>1, <1>6, <2>1 DEF EnabledOK
<1>8. ASSUME NEW f \in FixedEvents, EnableFixed(f) \/ DisableFixed(f)
      PROVE  EnabledOK'
  <2>1. /\ UNCHANGED <<events, fixedFn>>
        /\ \/ fixedEn' = fixedEn \cup {f} /\ call'.op = "store" /\ call'.event = f
           \/ fixedEn' = fixedEn \ {f}
    BY <1>8 DEF EnableFixed, DisableFixed, context
  <2>2. \A e \in fixedEn : e \in fixedFn
    BY <1>1 DEF EnabledOK
  <2> QED BY <1>6, <2>1, <2>2
<1> QED BY <1>5, <1>7, <1>8, BeginCallCases

\* RemoveGpe takes away the only event on the line that was disabled.
LEMMA RemovesTheLast ==
  ASSUME TypeOK, WellUsed, ListsOK, CallOK, RemoveGpe,
         NEW list \in ListSet, NEW i \in DOMAIN events[list],
         events[list][i].line = call.line
  PROVE  /\ list = <<BlockOf(call.gpe), "gpe">>
         /\ \A j \in DOMAIN events[list] : events[list][j].line = call.line => j = i
<1>1. call.op = "remove" /\ call.gpe \in Gpes /\ call.line = LineOf(call.gpe)
  BY CallFacts DEF RemoveGpe, CallOK
<1>2. ASSUME NEW j \in DOMAIN events[list], events[list][j].line = call.line
      PROVE  events[list][j].gpe = call.gpe
  <2>1. events[list][j] \in Events
    BY HandledFacts
  <2>2. PICK g \in Gpes : events[list][j] = Event(g)
    BY <2>1 DEF Events
  <2> QED BY <1>1, <1>2, <2>2, LineFacts, LineFinds
<1>3. events[list][i].gpe = call.gpe
  BY <1>2
<1>4. list[1] = BlockOf(call.gpe) /\ BlockOf(call.gpe) = 1
  BY <1>1, <1>3, LineFinds DEF ListsOK
<1>5. list # <<1, "aml">>
  BY <1>1, <1>3, <1>4 DEF CallOK, Installed
<1>6. list = <<1, "gpe">>
  BY <1>4, <1>5, ListFacts
<1> QED BY <1>2, <1>3, <1>4, <1>6 DEF ListsOK

LEMMA EndEnabledOK ==
  ASSUME TypeOK, ThreadsOK, WellUsed, WorkFindsItsEvent, RemovalsAreIdle,
         ListsOK, CallOK, ReadsOK, EnabledOK, EndCall
  PROVE  EnabledOK'
<1>1. UNCHANGED GpeOutstanding
  BY CallKeepsAlive
<1>2. ASSUME EnableWrite \/ DisableWrite \/ CallRead
      PROVE  EnabledOK'
  <2>1. UNCHANGED <<events, fixedFn, fixedEn>> /\ call.op \in {"enable", "disable"}
    BY <1>2 DEF EnableWrite, DisableWrite, CallRead, context, hardware
  <2>2. \A line : HandledLine(line) => HandledLine(line)'
    BY <2>1 DEF HandledLine
  <2>3. \A f \in fixedEn : f \in fixedFn
    BY <2>1 DEF EnabledOK
  <2>4. CASE EnableWrite
    <3>1. /\ call.op = "enable" /\ call.line \in en' /\ read[Host] # Unread
          /\ \A l \in en \cup lost : l \in en' \cup lost' \/ l = call.line
          /\ en' \subseteq en \cup read[Host] \cup {call.line}
      BY <2>4, CallKeepsAlive DEF EnableWrite
    <3>2. /\ call.list \in ListSet /\ Len(events[call.list]) \in DOMAIN events[call.list]
          /\ events[call.list][Len(events[call.list])].line = call.line
      <4>1. /\ call.list \in ListSet /\ events[call.list] # <<>>
            /\ events[call.list][Len(events[call.list])].line = call.line
        BY <3>1, CallFacts DEF CallOK
      <4>2. events[call.list] \in Seq(Events)
        BY <4>1 DEF TypeOK
      <4> QED BY <4>1, <4>2, LenProperties, EmptySeq
    <3>3. \A list \in ListSet : \A i \in DOMAIN events[list] : AliveNext(events[list][i].line)
      BY <1>1, <3>1, <3>2 DEF EnabledOK, Coming, Leaving, Alive, AliveNext
    <3>4. HandledLine(call.line)
      BY <3>2 DEF HandledLine
    <3>5. \A line \in en' : HandledLine(line)
      BY <3>1, <3>4, ThreadFacts DEF EnabledOK, ReadsOK
    <3> QED BY <2>1, <2>2, <2>3, <3>3, <3>5 DEF EnabledOK, Alive, AliveNext
  <2>5. CASE DisableWrite
    <3>1. /\ call.op = "disable" /\ read[Host] # Unread
          /\ \A l \in en \cup lost : l \in en' \cup lost' \/ l = call.line
          /\ en' \subseteq en \cup read[Host]
      BY <2>5, CallKeepsAlive DEF DisableWrite
    <3>2. call'.op = "remove" /\ call'.line = call.line
      <4>1. call = [op |-> call.op, gpe |-> call.gpe, line |-> call.line]
        BY <3>1, CallFacts
      <4> QED BY <2>5, <4>1 DEF DisableWrite
    <3>3. \A list \in ListSet : \A i \in DOMAIN events[list] :
            AliveNext(events[list][i].line) \/ events[list][i].line = call.line
      BY <1>1, <3>1 DEF EnabledOK, Coming, Leaving, Alive, AliveNext
    <3>4. \A line \in en' : HandledLine(line)
      BY <3>1, ThreadFacts DEF EnabledOK, ReadsOK
    <3> QED BY <2>1, <2>2, <2>3, <3>2, <3>3, <3>4 DEF EnabledOK, Leaving, Alive, AliveNext
  <2>6. CASE CallRead
    <3>1. UNCHANGED <<en, lost, call>>
      BY <2>6 DEF CallRead, hardware, host
    <3> QED BY <1>1, <2>1, <2>2, <3>1 DEF EnabledOK, Alive, Coming, Leaving
  <2> QED BY <1>2, <2>4, <2>5, <2>6
<1>3. CASE EnableFails
  <2> DEFINE n == Len(events[call.list])
  <2>1. /\ call.list \in ListSet
        /\ n \in Nat /\ n > 0 /\ DOMAIN events[call.list] = 1..n
        /\ DOMAIN events'[call.list] = 1..(n - 1)
        /\ \A i \in 1..(n - 1) : events'[call.list][i] = events[call.list][i]
        /\ \A other \in ListSet \ {call.list} : events'[other] = events[other]
    BY <1>3, FailPops
  <2>2. /\ call.op = "enable" /\ call.line \notin en
        /\ UNCHANGED <<en, lost, fixedEn, fixedFn>>
        /\ events[call.list][n].line = call.line
    BY <1>3 DEF EnableFails, WellUsed, CallOK, hardware
  <2>3. \A line : AliveNext(line) <=> Alive(line)
    BY <1>1, <2>2 DEF Alive, AliveNext
  <2>4. \A f \in fixedEn : f \in fixedFn
    BY <2>2 DEF EnabledOK
  <2> HIDE DEF n
  <2>5. ASSUME NEW list \in ListSet, NEW i \in DOMAIN events'[list]
        PROVE  AliveNext(events'[list][i].line)
    <3>1. /\ i \in DOMAIN events[list] /\ events'[list][i] = events[list][i]
          /\ ~(list = call.list /\ i = n)
      BY <2>1, <2>5
    <3>2. Alive(events[list][i].line)
      BY <2>2, <3>1 DEF EnabledOK, Coming, Leaving, n
    <3> QED BY <2>3, <3>1, <3>2
  <2>6. ASSUME NEW line \in en
        PROVE  HandledLine(line)'
    <3>1. PICK list \in ListSet : \E i \in DOMAIN events[list] : events[list][i].line = line
      BY DEF EnabledOK, HandledLine
    <3>2. PICK i \in DOMAIN events[list] : events[list][i].line = line
      BY <3>1
    <3>3. ~(list = call.list /\ i = n)
      BY <2>2, <3>2
    <3>4. i \in DOMAIN events'[list] /\ events'[list][i] = events[list][i]
      BY <2>1, <3>3
    <3> QED BY <3>2, <3>4 DEF HandledLine
  <2> QED BY <2>2, <2>4, <2>5, <2>6 DEF EnabledOK, Alive, AliveNext
<1>4. CASE RemoveGpe
  <2> DEFINE mine == <<BlockOf(call.gpe), "gpe">>
             n == Len(events[mine])
  <2>1. /\ call.op = "remove" /\ UNCHANGED <<en, lost, fixedEn, fixedFn>>
        /\ call.line \notin en /\ GpeOutstanding = {}
    BY <1>4 DEF RemoveGpe, CallOK, RemovalsAreIdle, hardware, threads
  <2>2. \A line : Alive(line) <=> line \in en \cup lost
    BY <2>1 DEF Alive
  <2>3. \A line : AliveNext(line) <=> line \in en \cup lost
    BY <1>1, <2>1 DEF Alive, AliveNext
  <2>4. \A f \in fixedEn : f \in fixedFn
    BY <2>1 DEF EnabledOK
  <2>5. \A list \in ListSet : \A i \in DOMAIN events[list] :
          events[list][i].line \in en \cup lost \/ events[list][i].line = call.line
    BY <2>1, <2>2 DEF EnabledOK, Coming, Leaving
  <2>6. CASE UNCHANGED events /\ Matches(mine, call.line) = {}
    <3>1. \A list \in ListSet : \A i \in DOMAIN events[list] :
            events[list][i].line \in en \cup lost
      BY <1>4, <2>5, <2>6, RemovesTheLast DEF Matches
    <3>2. \A line : HandledLine(line) => HandledLine(line)'
      BY <2>6 DEF HandledLine
    <3> QED BY <2>1, <2>3, <2>4, <2>6, <3>1, <3>2 DEF EnabledOK, Alive, AliveNext
  <2>7. CASE ~(UNCHANGED events /\ Matches(mine, call.line) = {})
    <3>1. PICK k \in 1..n :
            /\ mine \in ListSet /\ n \in Nat /\ DOMAIN events[mine] = 1..n
            /\ events[mine][k].line = call.line
            /\ DOMAIN events'[mine] = 1..(n - 1)
            /\ \A j \in 1..(n - 1) :
                 events'[mine][j] = IF j < k THEN events[mine][j] ELSE events[mine][j + 1]
            /\ \A other \in ListSet \ {mine} : events'[other] = events[other]
      BY <1>4, <2>7, RemoveDrops
    <3>2. \A list \in ListSet : \A i \in DOMAIN events[list] :
            events[list][i].line = call.line => list = mine /\ i = k
      <4>1. k \in DOMAIN events[mine]
        BY <3>1
      <4> QED BY <1>4, <3>1, <4>1, RemovesTheLast
    <3> HIDE DEF mine, n
    <3>3. ASSUME NEW list \in ListSet, NEW i \in DOMAIN events'[list]
          PROVE  events'[list][i].line \in en \cup lost
      <4>1. CASE list # mine
        BY <2>5, <3>1, <3>2, <4>1
      <4>2. CASE list = mine
        <5> DEFINE old == IF i < k THEN i ELSE i + 1
        <5>1. /\ old \in DOMAIN events[mine] /\ old # k
              /\ events'[list][i] = events[mine][old]
          BY <3>1, <3>3, <4>2
        <5> HIDE DEF old
        <5> QED BY <2>5, <3>1, <3>2, <5>1
      <4> QED BY <4>1, <4>2
    <3>4. ASSUME NEW line \in en
          PROVE  HandledLine(line)'
      <4>1. PICK list \in ListSet : \E i \in DOMAIN events[list] : events[list][i].line = line
        BY DEF EnabledOK, HandledLine
      <4>2. PICK i \in DOMAIN events[list] : events[list][i].line = line
        BY <4>1
      <4>3. CASE list # mine
        BY <3>1, <4>2, <4>3 DEF HandledLine
      <4>4. CASE list = mine
        <5>1. i # k /\ i \in 1..n
          BY <2>1, <3>1, <4>2, <4>4
        <5> DEFINE new == IF i < k THEN i ELSE i - 1
        <5>2. new \in 1..(n - 1) /\ i = IF new < k THEN new ELSE new + 1
          BY <3>1, <5>1
        <5> HIDE DEF new
        <5>3. new \in DOMAIN events'[mine] /\ events'[mine][new] = events[mine][i]
          BY <3>1, <5>2
        <5> QED BY <4>2, <4>4, <5>3 DEF HandledLine
      <4> QED BY <4>3, <4>4
    <3> QED BY <2>1, <2>3, <2>4, <3>3, <3>4 DEF EnabledOK, Alive, AliveNext
  <2> QED BY <2>6, <2>7
<1>5. CASE StoreFixed \/ ClearFixed
  <2>1. /\ call.op \in {"store", "clear"} /\ UNCHANGED <<en, lost, events, fixedEn>>
        /\ \/ fixedFn' = fixedFn \cup {call.event}
           \/ /\ fixedFn' = fixedFn \ {call.event} /\ call.event \notin fixedEn
              /\ call.op = "clear"
    BY <1>5 DEF StoreFixed, ClearFixed, CallOK, hardware, threads
  <2>2. \A f \in fixedEn : f \in fixedFn'
    BY <2>1 DEF EnabledOK
  <2>3. \A list \in ListSet : \A i \in DOMAIN events[list] : AliveNext(events[list][i].line)
    BY <1>1, <2>1 DEF EnabledOK, Coming, Leaving, Alive, AliveNext
  <2>4. \A line \in en : HandledLine(line)'
    BY <2>1 DEF EnabledOK, HandledLine
  <2> QED BY <2>1, <2>2, <2>3, <2>4 DEF EnabledOK, Alive, AliveNext
<1> QED BY <1>2, <1>3, <1>4, <1>5 DEF EndCall

-----------------------------------------------------------------------------
(* The theorem                                                             *)

\* What the invariant promises: a request is not forgotten, a handled GPE is not dead,
\* and an interrupt has a taker.
LEMMA InvariantKeeps ==
  ASSUME TypeOK, WellUsed, CallOK, Kept, EnabledOK
  PROVE  EventsKept
<1>1. NotForgotten
  <2>1. /\ wants \cap Handled \subseteq wants \cap Gpes
        /\ wants \cap fixedFn \subseteq wants \cap FixedEvents
    BY HandledFacts DEF TypeOK
  <2> QED BY <2>1 DEF NotForgotten, Kept, Requested
<1>2. NeverDead
  <2> SUFFICES ASSUME NEW g \in Handled
               PROVE  \/ Alive(LineOf(g))
                      \/ call.op \in {"enable", "disable"} /\ call.line = LineOf(g)
                      \/ call.op = "remove" /\ call.line = LineOf(g)
    BY DEF NeverDead, Alive
  <2>1. PICK list \in ListSet : \E i \in DOMAIN events[list] : events[list][i].gpe = g
    BY DEF Handled, Installed
  <2>2. PICK i \in DOMAIN events[list] : events[list][i].gpe = g
    BY <2>1
  <2>3. events[list][i].line = LineOf(g)
    <3>1. events[list][i] = Event(g) /\ g \in Gpes
      BY <2>2, HandledFacts
    <3> QED BY <3>1, LineFacts
  <2>4. CASE Coming(list, i)
    BY <2>3, <2>4 DEF Coming, CallOK
  <2> QED BY <2>3, <2>4 DEF EnabledOK, Leaving
<1>3. SciClaimed
  <2> SUFFICES ASSUME Asserted
               PROVE  FixedHits # {} \/ HitLists # {} \/ call.op = "store"
    BY DEF SciClaimed
  <2>1. ASSUME NEW line \in sts \cap en
        PROVE  HitLists # {}
    <3>1. PICK list \in ListSet : \E i \in DOMAIN events[list] : events[list][i].line = line
      BY <2>1 DEF EnabledOK, HandledLine
    <3>2. Hits(list) # {}
      BY <2>1, <3>1 DEF Hits
    <3>3. PICK n \in 1..4 : Lists[n] = list
      BY ListFacts
    <3>4. n \in HitLists
      BY <3>2, <3>3, ListFacts DEF HitLists
    <3> QED BY <3>4
  <2>2. ASSUME NEW f \in fixedSts \cap fixedEn
        PROVE  FixedHits # {} \/ call.op = "store"
    BY <2>2 DEF EnabledOK, FixedHits
  <2> QED BY <2>1, <2>2 DEF Asserted
<1> QED BY <1>1, <1>2, <1>3 DEF EventsKept

\* No event is lost, however the reads and writes of the SCI, the workers and the calls
\* interleave: a request stays latched or on its way to its handler, what is installed
\* is enabled or about to be, unless an overlapping write has undone that, and an
\* asserted interrupt finds an event. The host takes none of the liberties of HostMay,
\* and the chipset has one GPE block.
THEOREM NoEventLost == WellUsed => (Spec => []EventsKept)
<1> DEFINE Inv == /\ TypeOK /\ ThreadsOK /\ WorkFindsItsEvent /\ RemovalsAreIdle
                  /\ Kept /\ ListsOK /\ CallOK /\ ReadsOK /\ EnabledOK
<1> SUFFICES ASSUME WellUsed
             PROVE  Spec => []EventsKept
  OBVIOUS
<1>1. HostIsQuiet
  BY DEF WellUsed, HostIsQuiet
<1>2. Init => Inv
  <2> SUFFICES ASSUME Init PROVE Inv
    OBVIOUS
  <2>1. TypeOK /\ ThreadsOK
    BY InitTypeOK, InitThreadsOK
  <2>2. WorkFindsItsEvent /\ RemovalsAreIdle
    BY <1>1, InitFindsEvent
  <2>3. call.op = "none"
    BY NewCall DEF Init
  <2>4. wants = {} /\ en = {} /\ fixedEn = {}
    BY DEF Init
  <2>5. \A list \in ListSet : DOMAIN events[list] = {}
    <3>1. DOMAIN <<>> = {}
      OBVIOUS
    <3> QED BY <3>1 DEF Init
  <2>6. ListsOK
    BY <2>5 DEF ListsOK
  <2>7. ReadsOK
    BY DEF Init, ReadsOK
  <2> QED BY <2>1, <2>2, <2>3, <2>4, <2>5, <2>6, <2>7 DEF Kept, CallOK, EnabledOK
<1>3. Inv /\ [Next]_vars => Inv'
  <2> SUFFICES ASSUME Inv, [Next]_vars
               PROVE  Inv'
    OBVIOUS
  <2>1. (TypeOK /\ ThreadsOK)'
    BY TypeInductive
  <2>2. (WorkFindsItsEvent /\ RemovalsAreIdle)' /\ ReadsOK'
    BY <1>1, EventsInductive, ReadsInductive
  <2>3. CASE Raise \/ Sci \/ UNCHANGED vars \/ (\E w \in Workers : Work(w))
    <3>1. ListsOK'
      BY <2>3, ListsStay DEF ListsOK, BlockOf
    <3>2. CallOK' /\ EnabledOK'
      BY <2>3, OtherCallOK, OtherEnabledOK
    <3>3. Kept'
      <4>1. CASE UNCHANGED vars
        BY <4>1 DEF vars, hardware, devices, context, threads, Kept, Requested, ToCall,
                    Wired
      <4> QED BY <2>3, <4>1, RaiseKeeps, SciKeeps, WorkKeeps
    <3> QED BY <2>1, <2>2, <3>1, <3>2, <3>3
  <2>4. CASE BeginCall
    <3>1. Kept' /\ ListsOK'
      BY <2>4, CallKeeps, BeginListsOK
    <3>2. CallOK' /\ EnabledOK'
      BY <2>4, BeginCallOK, BeginEnabledOK
    <3> QED BY <2>1, <2>2, <3>1, <3>2
  <2>5. CASE EndCall
    <3>1. Kept' /\ ListsOK'
      BY <2>5, CallKeeps, EndListsOK
    <3>2. CallOK' /\ EnabledOK'
      BY <2>5, EndCallOK, EndEnabledOK
    <3> QED BY <2>1, <2>2, <3>1, <3>2
  <2> QED BY <2>3, <2>4, <2>5 DEF Next
<1>4. Inv => EventsKept
  BY InvariantKeeps
<1> QED BY <1>2, <1>3, <1>4, PTL DEF Spec
=============================================================================
