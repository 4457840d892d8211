--------------------------- MODULE SleepStatesProofs ---------------------------
(***************************************************************************)
(* Proofs about SleepStates, for any GPEs, any states and any number of     *)
(* sleeps: a machine sleeps as the host asked and, awake again, has the     *)
(* GPEs enabled that have handlers, as far as the accesses to the registers *)
(* succeed. The host takes no liberties.                                    *)
(***************************************************************************)
EXTENDS SleepStates, Integers, SequenceTheorems, TLAPS

\* The condition of both theorems.
WellUsed == HostMay = {}

-----------------------------------------------------------------------------
(* The inductive invariant                                                 *)

\* What a call carries with it. The merged value that is written to the control
\* registers has neither a type nor SLP_EN.
Merges == [sci : BOOLEAN, typ : {0}, slp : {FALSE}]
WritingOps == {"typ a", "typ b", "slp a", "slp b", "entered", "woken",
               "wake a", "wake b", "wake", "wake clear", "wake arm"}
EnteringOps == {"disable", "clear", "arm", "read"}
Entering == [op : EnteringOps, state : States]
Writing == [op : WritingOps, state : States, cnt : Merges]
Polling == [op : {"poll", "timed out"}, state : {0}, on : BOOLEAN, seen : BOOLEAN]

CallsOK ==
  /\ call \in {NoCall} \cup Entering \cup Writing \cup Polling
  /\ cnt \in [Sides -> [sci : BOOLEAN, typ : 0..7, slp : BOOLEAN]]
  /\ call.op = "poll" /\ ~call.seen => polls < MaxPolls
  /\ polls \in 0..MaxPolls /\ sleeps \in 0..MaxSleeps
  /\ power \in {"on", "asleep", "off"} /\ (power # "on" => call.op = "entered")

Quiet == {"none", "poll", "timed out"}

\* A call on the way to sleep is for the state that was prepared, with its types.
TypesOK ==
  /\ given \in (0..15) \X (0..15) /\ slpTyp = given
  /\ slpTypS0 \in {NoType, <<0, 0>>}
  /\ prepared \in {0} \cup States
  /\ call.op \notin Quiet => prepared = call.state
  /\ call.op \in {"wake a", "wake b"} => slpTypS0 = <<0, 0>>

\* How far the control registers have been written. A type of more than three bits
\* has set SLP_EN with it.
Typed == {"typ b", "slp a", "slp b", "entered"}
Waking == {"wake a", "wake b", "wake", "wake clear", "wake arm"}

TypA == ThreeBits(given) => cnt["a"].typ = given[1]
TypB == ThreeBits(given) => cnt["b"].typ = given[2]

RegistersOK ==
  /\ call.op \in Typed \/ (call.op = "woken" /\ ~failed) => TypA
  /\ call.op \in Typed \ {"typ b"} \/ (call.op = "woken" /\ ~failed) => TypB
  /\ call.op \in {"slp b", "entered"} => cnt["a"].slp
  /\ call.op = "entered" => cnt["b"].slp
  /\ call.op \in Waking => ~cnt["a"].slp /\ ~cnt["b"].slp
  /\ ~failed /\ (cnt["a"].slp \/ cnt["b"].slp) =>
       /\ call.op \in Typed \cup {"woken"}
       /\ ThreeBits(given) => call.op \in {"slp b", "entered", "woken"}

\* The wake lists have each GPE that the host asked for once.
Once(list) == \A i, j \in DOMAIN list : list[i] = list[j] => i = j

ListsOK ==
  /\ wakeEvents \in Seq(Gpes) /\ amlWakeEvents \in Seq(AmlGpes)
  /\ Len(wakeEvents) + Len(amlWakeEvents) <= MaxArmed
  /\ Once(wakeEvents) /\ Once(amlWakeEvents)
  /\ ToSet(wakeEvents) \cap ToSet(amlWakeEvents) = {}
  /\ asked = ToSet(wakeEvents) \cup ToSet(amlWakeEvents)

\* What is enabled: for the handlers while the machine runs, for wake from the
\* moment they are armed, and nothing in between, when no work is pending.
EnabledOK ==
  /\ sts \subseteq All /\ en \subseteq All
  /\ native \subseteq Gpes /\ aml \subseteq AmlGpes
  /\ working \subseteq native \cup aml
  /\ call.op \notin Quiet => working = {}
  /\ missed \subseteq All
  /\ call.op \in Quiet /\ ~failed => en = (native \cup aml) \ (working \cup missed)
  /\ call.op \in {"clear", "arm", "wake clear", "wake arm"} => en = {}
  /\ call.op \in {"read", "typ a", "typ b", "slp a", "slp b", "entered"} => en = asked \ missed

IInv == CallsOK /\ TypesOK /\ RegistersOK /\ ListsOK /\ EnabledOK

-----------------------------------------------------------------------------
(* Calls                                                                   *)

Writes(o) ==
  /\ call' \in Writing /\ call'.op = o
  /\ call'.state = call.state /\ call'.cnt = call.cnt

LEMMA CallKinds ==
  ASSUME call \in {NoCall} \cup Entering \cup Writing \cup Polling
  PROVE  /\ call.op = "none" => call = NoCall
         /\ call.op \in EnteringOps => call \in Entering
         /\ call.op \in WritingOps => call \in Writing
         /\ call.op \in {"poll", "timed out"} => call \in Polling
<1>1. NoCall.op = "none"
  BY DEF NoCall
<1>2. call \in Entering => call.op \in EnteringOps
  BY DEF Entering
<1>3. call \in Writing => call.op \in WritingOps
  BY DEF Writing
<1>4. call \in Polling => call.op \in {"poll", "timed out"}
  BY DEF Polling
<1> QED
  BY <1>1, <1>2, <1>3, <1>4 DEF WritingOps, EnteringOps

LEMMA NoCallOp == NoCall.op = "none"
BY DEF NoCall

\* A step of the call that sets SLP_EN and the types, or of the one that wakes.
LEMMA GoesOn ==
  ASSUME CallsOK, call.op \in WritingOps, NEW o \in WritingOps, GoTo(o)
  PROVE  Writes(o)
<1>1. call \in Writing
  BY CallKinds DEF CallsOK
<1>2. QED
  BY <1>1 DEF GoTo, Writing, Writes, WritingOps

LEMMA EntersOn ==
  ASSUME CallsOK, call.op \in EnteringOps, NEW o \in EnteringOps, GoTo(o)
  PROVE  call' \in Entering /\ call'.op = o /\ call'.state = call.state
<1>1. call \in Entering
  BY CallKinds DEF CallsOK
<1>2. QED
  BY <1>1 DEF GoTo, Entering

LEMMA MergedType ==
  ASSUME CallsOK
  PROVE  Merged \in Merges
BY DEF CallsOK, Merged, Merges, Sides

\* A type of three bits does not reach SLP_EN.
LEMMA TypeFits ==
  ASSUME NEW c \in Merges, NEW t \in 0..15
  PROVE  /\ WithType(c, t) \in [sci : BOOLEAN, typ : 0..7, slp : BOOLEAN]
         /\ t < 8 => WithType(c, t).typ = t /\ WithType(c, t).slp = FALSE
<1>1. t % 8 \in 0..7 /\ (t < 8 => t % 8 = t /\ ~(t >= 8))
  OBVIOUS
<1>2. QED
  BY <1>1 DEF Merges, WithType

LEMMA PairConcat ==
  ASSUME NEW a \in Nat, NEW b \in Nat
  PROVE  /\ Len(<<a, b>> \o <<0, 0>>) = 4
         /\ (<<a, b>> \o <<0, 0>>)[1] = a /\ (<<a, b>> \o <<0, 0>>)[2] = b
<1> DEFINE s == <<a, b>>
           z == <<0, 0>>
<1>1. s \in Seq(Nat) /\ Len(s) = 2 /\ s[1] = a /\ s[2] = b
  OBVIOUS
<1>2. z \in Seq(Nat) /\ Len(z) = 2
  OBVIOUS
<1> HIDE DEF s, z
<1>3. /\ Len(s \o z) = Len(s) + Len(z)
      /\ \A i \in 1..Len(s) + Len(z) :
           (s \o z)[i] = IF i <= Len(s) THEN s[i] ELSE z[i - Len(s)]
  BY <1>1, <1>2, ConcatProperties
<1>4. Len(s \o z) = 4 /\ (s \o z)[1] = a /\ (s \o z)[2] = b
  BY <1>1, <1>2, <1>3
<1>5. QED
  BY <1>4 DEF s, z

\* Both forms of a package give the types that AML has put into it.
LEMMA PackageTypes ==
  ASSUME NEW t \in (0..15) \X (0..15), NEW package \in Packages(t)
  PROVE  TypesOf(package) = t
<1>1. /\ t[1] \in 0..15 /\ t[2] \in 0..15 /\ t = <<t[1], t[2]>>
      /\ t[1] % 256 = t[1] /\ t[2] % 256 = t[2]
  OBVIOUS
<1>2. CASE package = <<t[1] + 256 * t[2]>>
  <2>1. (t[1] + 256 * t[2]) % 256 = t[1] /\ ((t[1] + 256 * t[2]) \div 256) % 256 = t[2]
    BY <1>1
  <2>2. QED
    BY <1>1, <1>2, <2>1 DEF TypesOf
<1>3. CASE package = t
  BY <1>1, <1>3 DEF TypesOf
<1>4. CASE package = t \o <<0, 0>>
  <2>1. PICK a \in Nat, b \in Nat : t = <<a, b>>
    BY <1>1
  <2>2. package = <<a, b>> \o <<0, 0>>
    BY <1>4, <2>1, Zenon
  <2>3. t[1] = a /\ t[2] = b
    BY <2>1
  <2>4. Len(package) = 4 /\ package[1] = t[1] /\ package[2] = t[2]
    BY <2>2, <2>3, PairConcat
  <2>5. QED
    BY <1>1, <2>4 DEF TypesOf
<1>5. QED
  BY <1>2, <1>3, <1>4 DEF Packages

-----------------------------------------------------------------------------
(* The wake lists                                                          *)

LEMMA AppendOnce ==
  ASSUME NEW S, NEW s \in Seq(S), Once(s), NEW g \in S, g \notin ToSet(s)
  PROVE  /\ Append(s, g) \in Seq(S) /\ Len(Append(s, g)) = Len(s) + 1
         /\ Once(Append(s, g)) /\ ToSet(Append(s, g)) = ToSet(s) \cup {g}
<1> DEFINE r == Append(s, g)
<1>1. /\ r \in Seq(S) /\ Len(r) = Len(s) + 1 /\ DOMAIN r = 1..(Len(s) + 1)
      /\ r[Len(s) + 1] = g /\ \A i \in 1..Len(s) : r[i] = s[i]
      /\ DOMAIN s = 1..Len(s) /\ Len(s) \in Nat
  OBVIOUS
<1> HIDE DEF r
<1>2. Once(r)
  BY <1>1 DEF Once, ToSet
<1>3. ToSet(r) = ToSet(s) \cup {g}
  BY <1>1 DEF ToSet
<1>4. QED
  BY <1>1, <1>2, <1>3 DEF r

LEMMA RemovePlaces ==
  ASSUME NEW S, NEW s \in Seq(S), NEW i \in 1..Len(s)
  PROVE  /\ RemoveAt(s, i) \in Seq(S) /\ Len(RemoveAt(s, i)) = Len(s) - 1
         /\ \A j \in 1..(Len(s) - 1) :
              RemoveAt(s, i)[j] = IF j < i THEN s[j] ELSE s[j + 1]
<1> DEFINE front == SubSeq(s, 1, i - 1)
           rest == SubSeq(s, i + 1, Len(s))
<1>1. Len(s) \in Nat /\ \A j \in 1..Len(s) : s[j] \in S
  BY LenProperties, ElementOfSeq
<1>2. /\ front \in Seq(S) /\ Len(front) = i - 1
      /\ \A j \in 1..(i - 1) : front[j] = s[j]
  <2>1. /\ 1 \in Int /\ i - 1 \in Int
        /\ \A j \in 1..(i - 1) : s[j] \in S
    BY <1>1
  <2>2. /\ front \in Seq(S) /\ Len(front) = IF 1 <= i - 1 THEN i - 1 - 1 + 1 ELSE 0
        /\ \A j \in 1..(i - 1 - 1 + 1) : front[j] = s[1 + j - 1]
    BY <2>1, SubSeqProperties
  <2>3. QED
    BY <1>1, <2>2
<1>3. /\ rest \in Seq(S) /\ Len(rest) = Len(s) - i
      /\ \A j \in 1..(Len(s) - i) : rest[j] = s[i + j]
  <2>1. /\ Len(s) \in Int /\ i + 1 \in Int
        /\ \A j \in (i + 1)..Len(s) : s[j] \in S
    BY <1>1
  <2>2. /\ rest \in Seq(S)
        /\ Len(rest) = IF i + 1 <= Len(s) THEN Len(s) - (i + 1) + 1 ELSE 0
        /\ \A j \in 1..(Len(s) - (i + 1) + 1) : rest[j] = s[(i + 1) + j - 1]
    BY <2>1, SubSeqProperties
  <2>3. QED
    BY <1>1, <2>2
<1> HIDE DEF front, rest
<1>4. /\ front \o rest \in Seq(S) /\ Len(front \o rest) = Len(front) + Len(rest)
      /\ \A j \in 1..Len(front) + Len(rest) :
           (front \o rest)[j] = IF j <= Len(front) THEN front[j] ELSE rest[j - Len(front)]
  BY <1>2, <1>3, ConcatProperties
<1>5. ASSUME NEW j \in 1..(Len(s) - 1)
      PROVE  (front \o rest)[j] = IF j < i THEN s[j] ELSE s[j + 1]
  <2>1. CASE j < i
    BY <1>1, <1>2, <1>3, <1>4, <2>1
  <2>2. CASE j >= i
    <3>1. /\ (front \o rest)[j] = rest[j - (i - 1)]
          /\ j - (i - 1) \in 1..(Len(s) - i)
          /\ i + (j - (i - 1)) = j + 1
      BY <1>1, <1>2, <1>3, <1>4, <2>2
    <3>2. rest[j - (i - 1)] = s[i + (j - (i - 1))]
      BY <1>3, <3>1
    <3>3. QED
      BY <2>2, <3>1, <3>2
  <2>3. j < i \/ j >= i
    BY <1>1
  <2>4. QED
    BY <2>1, <2>2, <2>3, Zenon
<1>6. Len(front \o rest) = Len(s) - 1
  BY <1>1, <1>2, <1>3, <1>4
<1>7. QED
  BY <1>4, <1>5, <1>6 DEF RemoveAt, front, rest

\* The only entry of a GPE goes, and the others stay.
LEMMA RemoveOnce ==
  ASSUME NEW S, NEW s \in Seq(S), Once(s), NEW g \in ToSet(s)
  PROVE  /\ RemoveAt(s, First(s, g)) \in Seq(S)
         /\ Len(RemoveAt(s, First(s, g))) = Len(s) - 1
         /\ Once(RemoveAt(s, First(s, g)))
         /\ ToSet(RemoveAt(s, First(s, g))) = ToSet(s) \ {g}
<1> DEFINE k == First(s, g)
           r == RemoveAt(s, k)
<1>1. /\ DOMAIN s = 1..Len(s) /\ Len(s) \in Nat
      /\ \E i \in 1..Len(s) : s[i] = g
  BY DEF ToSet
<1>2. k \in 1..Len(s) /\ s[k] = g
  <2>1. PICK i \in 1..Len(s) : s[i] = g
    BY <1>1
  <2>2. i \in DOMAIN s /\ s[i] = g /\ \A j \in 1..(i - 1) : s[j] # g
    BY <1>1, <2>1 DEF Once
  <2>3. QED
    BY <1>1, <2>2 DEF First
<1> HIDE DEF k
<1>3. /\ r \in Seq(S) /\ Len(r) = Len(s) - 1 /\ DOMAIN r = 1..(Len(s) - 1)
      /\ \A j \in 1..(Len(s) - 1) : r[j] = IF j < k THEN s[j] ELSE s[j + 1]
  <2>1. /\ r \in Seq(S) /\ Len(r) = Len(s) - 1
        /\ \A j \in 1..(Len(s) - 1) : r[j] = IF j < k THEN s[j] ELSE s[j + 1]
    BY <1>2, RemovePlaces
  <2>2. DOMAIN r = 1..(Len(s) - 1)
    BY <2>1, LenProperties
  <2>3. QED
    BY <2>1, <2>2
<1> HIDE DEF r
<1>4. Once(r)
  <2> SUFFICES ASSUME NEW i \in 1..(Len(s) - 1), NEW j \in 1..(Len(s) - 1),
                      r[i] = r[j]
               PROVE  i = j
    BY <1>3 DEF Once
  <2> DEFINE from(n) == IF n < k THEN n ELSE n + 1
  <2>1. /\ from(i) \in 1..Len(s) /\ from(j) \in 1..Len(s)
        /\ r[i] = s[from(i)] /\ r[j] = s[from(j)]
    BY <1>1, <1>2, <1>3
  <2>2. from(i) = from(j)
    BY <1>1, <2>1 DEF Once
  <2>3. QED
    BY <1>1, <1>2, <2>2
<1>5. ToSet(r) \subseteq ToSet(s) \ {g}
  <2> SUFFICES ASSUME NEW i \in 1..(Len(s) - 1)
               PROVE  r[i] \in ToSet(s) \ {g}
    BY <1>3 DEF ToSet
  <2> DEFINE n == IF i < k THEN i ELSE i + 1
  <2>1. n \in 1..Len(s) /\ r[i] = s[n] /\ n # k
    BY <1>1, <1>2, <1>3
  <2>2. QED
    BY <1>1, <1>2, <2>1 DEF Once, ToSet
<1>6. ToSet(s) \ {g} \subseteq ToSet(r)
  <2> SUFFICES ASSUME NEW i \in 1..Len(s), s[i] # g
               PROVE  s[i] \in ToSet(r)
    BY <1>1 DEF ToSet
  <2>1. CASE i < k
    BY <1>1, <1>2, <1>3, <2>1 DEF ToSet
  <2>2. CASE i > k
    <3>1. i - 1 \in 1..(Len(s) - 1) /\ ~(i - 1 < k) /\ (i - 1) + 1 = i
      BY <1>1, <1>2, <2>2
    <3>2. r[i - 1] = s[i]
      BY <1>3, <3>1
    <3>3. QED
      BY <1>3, <3>1, <3>2 DEF ToSet
  <2>3. QED
    BY <1>1, <1>2, <2>1, <2>2
<1>7. QED
  BY <1>3, <1>4, <1>5, <1>6 DEF r, k

-----------------------------------------------------------------------------
(* The steps preserve each part of the invariant                           *)

LEMMA CallsInductive ==
  ASSUME CallsOK, TypesOK, Next, WellUsed
  PROVE  CallsOK'
<1>1. /\ MaxPolls \in Nat \ {0} /\ MaxSleeps \in Nat
      /\ polls \in Nat /\ sleeps \in Nat
  BY SleepAssumption DEF CallsOK
<1>2. ASSUME NEW g \in All, Enable(g) \/ Disable(g) \/ EnableForWake(g)
                             \/ DisableForWake(g) \/ Sci(g) \/ WorkDone(g)
      PROVE  CallsOK'
  BY <1>2 DEF Enable, Disable, EnableForWake, DisableForWake, Sci, WorkDone,
              types, CallsOK
<1>3. ASSUME NEW g \in All, Raise(g)
      PROVE  CallsOK'
  <2>1. CASE power = "asleep" /\ g \in en
    <3>1. call.op = "entered" /\ GoTo("woken")
      BY <1>3, <2>1 DEF Raise, CallsOK, GoTo
    <3>2. Writes("woken")
      BY <3>1, GoesOn DEF WritingOps
    <3>3. QED
      BY <1>3, <2>1, <3>2 DEF Raise, CallsOK, Writes, types
  <2>2. CASE ~(power = "asleep" /\ g \in en)
    BY <1>3, <2>2 DEF Raise, CallsOK, types
  <2>3. QED
    BY <2>1, <2>2
<1>4. CASE (\E s \in States : Prepare(s)) \/ PrepareFails
  BY <1>4 DEF Prepare, PrepareFails, CallsOK
<1>5. ASSUME NEW s \in States, Enter(s)
      PROVE  CallsOK'
  <2>1. call' \in Entering /\ call'.op = "disable"
    BY <1>5 DEF Enter, Entering, EnteringOps
  <2>2. sleeps' \in 0..MaxSleeps
    BY <1>1, <1>5 DEF Enter
  <2>3. QED
    BY <1>5, <2>1, <2>2 DEF Enter, Free, CallsOK
<1>6. CASE EnterDisable \/ EnterClear \/ EnterArm
  <2>1. call' \in Entering /\ call'.op \in {"clear", "arm", "read"}
    BY <1>6, EntersOn DEF EnterDisable, EnterClear, EnterArm, At, EnteringOps
  <2>2. power = "on" /\ UNCHANGED <<cnt, power, polls, sleeps>>
    BY <1>6 DEF EnterDisable, EnterClear, EnterArm, At, CallsOK
  <2>3. QED
    BY <2>1, <2>2 DEF CallsOK
<1>7. CASE EnterRead
  <2>1. call \in Entering
    BY <1>7, CallKinds DEF EnterRead, At, CallsOK, EnteringOps
  <2>2. call' \in Writing /\ call'.op = "typ a"
    BY <1>7, <2>1, MergedType DEF EnterRead, Entering, Writing, WritingOps
  <2>3. power = "on" /\ UNCHANGED <<cnt, power, polls, sleeps>>
    BY <1>7 DEF EnterRead, At, CallsOK
  <2>4. QED
    BY <2>2, <2>3 DEF CallsOK
<1>8. ASSUME NEW s \in Sides, EnterType(s)
      PROVE  CallsOK'
  <2>1. call.op = TypeOp(s) /\ call.op \in {"typ a", "typ b"}
    BY <1>8 DEF EnterType, At, TypeOp
  <2>2. call \in Writing /\ call.cnt \in Merges
    BY <2>1, CallKinds DEF CallsOK, WritingOps, Writing
  <2>3. After(call.op) \in {"typ b", "slp a"}
    BY <2>1 DEF After
  <2>4. Writes(After(call.op))
    BY <1>8, <2>1, <2>3, GoesOn DEF EnterType, WritingOps
  <2>5. slpTyp[Side(s)] \in 0..15
    BY DEF TypesOK, Side
  <2>6. cnt' \in [Sides -> [sci : BOOLEAN, typ : 0..7, slp : BOOLEAN]]
    BY <1>8, <2>2, <2>5, TypeFits DEF EnterType, CallsOK
  <2>7. QED
    BY <1>8, <2>1, <2>3, <2>4, <2>6 DEF EnterType, CallsOK, Writes
<1>9. ASSUME NEW s \in Sides, EnterSleep(s)
      PROVE  CallsOK'
  <2>1. call.op \in {"slp a", "slp b"}
    BY <1>9 DEF EnterSleep, At, SleepOp
  <2>2. After(call.op) \in {"slp b", "entered"}
    BY <2>1 DEF After
  <2>3. Writes(After(call.op))
    BY <1>9, <2>1, <2>2, GoesOn DEF EnterSleep, WritingOps
  <2>4. cnt' \in [Sides -> [sci : BOOLEAN, typ : 0..7, slp : BOOLEAN]]
    BY <1>9 DEF EnterSleep, CallsOK
  <2>5. QED
    BY <1>9, <2>1, <2>2, <2>3, <2>4 DEF EnterSleep, CallsOK, Writes
<1>10. CASE FallAsleep
  BY <1>10 DEF FallAsleep, At, CallsOK
<1>11. CASE StayAwake
  <2>1. Writes("woken")
    BY <1>11, GoesOn DEF StayAwake, At, WritingOps
  <2>2. QED
    BY <1>11, <2>1 DEF StayAwake, CallsOK, Writes
<1>12. CASE EnterFails \/ WakeFails
  <2>1. power = "on"
    BY <1>12 DEF EnterFails, WakeFails, CallsOK
  <2>2. QED
    BY <1>12, <2>1, NoCallOp DEF EnterFails, WakeFails, CallsOK
<1>13. CASE PrepareWake
  <2>1. call \in Writing
    BY <1>13, CallKinds DEF PrepareWake, At, CallsOK, WritingOps
  <2>2. call' \in Writing /\ call'.op \in {"wake", "wake a"}
    <3>1. CASE call' = [call EXCEPT !.op = "wake"]
      BY <2>1, <3>1 DEF Writing, WritingOps
    <3>2. CASE call' = [op |-> "wake a", state |-> call.state, cnt |-> Merged]
      BY <2>1, <3>2, MergedType DEF Writing, WritingOps
    <3>3. QED
      BY <1>13, <3>1, <3>2 DEF PrepareWake
  <2>3. cnt' \in [Sides -> [sci : BOOLEAN, typ : 0..7, slp : BOOLEAN]]
    <3>1. cnt' = [s \in Sides |-> [cnt[s] EXCEPT !.slp = FALSE]]
      BY <1>13 DEF PrepareWake
    <3>2. QED
      BY <3>1 DEF CallsOK
  <2>4. QED
    BY <1>13, <2>2, <2>3 DEF PrepareWake, CallsOK
<1>14. ASSUME NEW s \in Sides, WakeType(s)
       PROVE  CallsOK'
  <2>1. call.op \in {"wake a", "wake b"}
    BY <1>14 DEF WakeType, At, WakeOp
  <2>2. call \in Writing /\ call.cnt \in Merges
    BY <2>1, CallKinds DEF CallsOK, WritingOps, Writing
  <2>3. After(call.op) \in {"wake b", "wake"}
    BY <2>1 DEF After
  <2>4. Writes(After(call.op))
    BY <1>14, <2>1, <2>3, GoesOn DEF WakeType, WritingOps
  <2>5. slpTypS0[Side(s)] \in 0..15 /\ slpTypS0[Side(s)] < 8
    <3>1. slpTypS0 = <<0, 0>> /\ Side(s) \in {1, 2}
      BY <2>1 DEF TypesOK, Side
    <3>2. QED
      BY <3>1
  <2>6. cnt' \in [Sides -> [sci : BOOLEAN, typ : 0..7, slp : BOOLEAN]]
    <3> DEFINE new == WithType(call.cnt, slpTypS0[Side(s)])
    <3>1. new \in [sci : BOOLEAN, typ : 0..7, slp : BOOLEAN]
      BY <2>2, <2>5, TypeFits
    <3>2. cnt' = cnt \/ cnt' = [cnt EXCEPT ![s] = new]
      BY <1>14 DEF WakeType
    <3> HIDE DEF new
    <3>3. QED
      BY <3>1, <3>2 DEF CallsOK
  <2>7. QED
    BY <1>14, <2>1, <2>3, <2>4, <2>6 DEF WakeType, CallsOK, Writes
<1>15. CASE WakeGpes
  <2>1. power = "on"
    BY <1>15 DEF WakeGpes, At, CallsOK
  <2>2. QED
    BY <1>15, <2>1, NoCallOp DEF WakeGpes, CallsOK
<1>21. CASE WakeDisable \/ WakeClear
  <2>1. Writes("wake clear") \/ Writes("wake arm")
    BY <1>21, GoesOn DEF WakeDisable, WakeClear, At, WritingOps
  <2>2. power = "on" /\ UNCHANGED <<cnt, power, polls, sleeps>>
    BY <1>21 DEF WakeDisable, WakeClear, At, CallsOK
  <2>3. QED
    BY <2>1, <2>2 DEF Writes, CallsOK
<1>22. CASE WakeAgain
  <2>1. prepared \in States
    BY <1>22 DEF WakeAgain, TypesOK
  <2>2. call' \in Writing /\ call'.op = "woken"
    BY <1>22, <2>1, MergedType DEF WakeAgain, Writing, WritingOps
  <2>3. power = "on" /\ UNCHANGED <<cnt, power, polls, sleeps>>
    BY <1>22 DEF WakeAgain, Free
  <2>4. QED
    BY <2>2, <2>3 DEF CallsOK
<1>16. ASSUME NEW on \in BOOLEAN, AcpiMode(on)
       PROVE  CallsOK'
  <2>1. call' \in Polling
    BY <1>16 DEF AcpiMode, Polling
  <2>2. QED
    BY <1>1, <1>16, <2>1 DEF AcpiMode, Free, CallsOK
<1>17. CASE Firmware
  <2>1. call \in Polling
    BY <1>17, CallKinds DEF Firmware, At, CallsOK
  <2>2. cnt' \in [Sides -> [sci : BOOLEAN, typ : 0..7, slp : BOOLEAN]]
    BY <1>17, <2>1 DEF Firmware, CallsOK, Polling
  <2>3. QED
    BY <1>17, <2>2 DEF Firmware, CallsOK
<1>18. CASE Poll
  <2> DEFINE seen == SciEn(cnt) = call.on
  <2>1. call \in Polling /\ call.op = "poll" /\ ~call.seen /\ polls < MaxPolls
    BY <1>18, CallKinds DEF Poll, At, CallsOK
  <2>2. polls' = polls + 1 /\ polls' \in 0..MaxPolls
    BY <1>1, <1>18, <2>1 DEF Poll
  <2>3. seen \in BOOLEAN
    OBVIOUS
  <2>4. call' = IF polls + 1 = MaxPolls THEN [call EXCEPT !.op = "timed out", !.seen = seen]
                ELSE [call EXCEPT !.seen = seen]
    BY <1>18 DEF Poll
  <2> HIDE DEF seen
  <2>5. call' \in Polling /\ (call'.op = "poll" => polls + 1 # MaxPolls)
    BY <2>1, <2>3, <2>4 DEF Polling
  <2>6. polls' < MaxPolls \/ polls' = MaxPolls
    BY <1>1, <2>2
  <2>7. power = "on" /\ UNCHANGED <<cnt, power, sleeps>>
    BY <1>18, <2>1 DEF Poll, CallsOK
  <2>8. QED
    BY <2>2, <2>5, <2>6, <2>7 DEF CallsOK
<1>19. CASE ModeDone
  <2>1. power = "on"
    BY <1>19 DEF ModeDone, At, CallsOK
  <2>2. call' = NoCall /\ call'.op = "none"
    BY <1>19, NoCallOp DEF ModeDone
  <2>3. polls' \in 0..MaxPolls
    <3>1. polls' = 0
      BY <1>19, Zenon DEF ModeDone
    <3>2. QED
      BY <1>1, <3>1
  <2>4. QED
    BY <1>19, <2>1, <2>2, <2>3 DEF ModeDone, CallsOK
<1>20. QED
  BY <1>2, <1>3, <1>4, <1>5, <1>6, <1>7, <1>8, <1>9, <1>10, <1>11, <1>12, <1>13,
     <1>14, <1>15, <1>16, <1>17, <1>18, <1>19, <1>21, <1>22 DEF Next, EnterStep, WakeStep

\* Where a step takes the call: the steps within a sleep keep its state.
Advances(from, to) ==
  call.op = from /\ call'.op = to /\ call'.state = call.state

LEMMA Progress ==
  ASSUME CallsOK
  PROVE  /\ EnterDisable => Advances("disable", "clear")
         /\ EnterClear => Advances("clear", "arm")
         /\ EnterArm => Advances("arm", "read")
         /\ EnterRead => Advances("read", "typ a")
         /\ EnterType("a") => Advances("typ a", "typ b")
         /\ EnterType("b") => Advances("typ b", "slp a")
         /\ EnterSleep("a") => Advances("slp a", "slp b")
         /\ EnterSleep("b") => Advances("slp b", "entered")
         /\ StayAwake => Advances("entered", "woken")
         /\ PrepareWake => \/ Advances("woken", "wake")
                           \/ Advances("woken", "wake a") /\ slpTypS0[1] # 255
         /\ WakeType("a") => Advances("wake a", "wake b")
         /\ WakeType("b") => Advances("wake b", "wake")
         /\ WakeDisable => Advances("wake", "wake clear")
         /\ WakeClear => Advances("wake clear", "wake arm")
<1>1. /\ EnterDisable => Advances("disable", "clear")
      /\ EnterClear => Advances("clear", "arm")
      /\ EnterArm => Advances("arm", "read")
  BY EntersOn DEF EnterDisable, EnterClear, EnterArm, At, Advances, EnteringOps
<1>2. EnterRead => Advances("read", "typ a")
  <2> SUFFICES ASSUME EnterRead
               PROVE  Advances("read", "typ a")
    OBVIOUS
  <2>1. call' = [op |-> "typ a", state |-> call.state, cnt |-> Merged]
    BY Zenon DEF EnterRead
  <2>2. call'.op = "typ a" /\ call'.state = call.state
    BY <2>1 DEF Merged
  <2>3. QED
    BY <2>2 DEF EnterRead, At, Advances
<1>3. /\ EnterType("a") => Advances("typ a", "typ b")
      /\ EnterType("b") => Advances("typ b", "slp a")
  BY GoesOn DEF EnterType, At, TypeOp, After, Writes, WritingOps, Advances
<1>4. /\ EnterSleep("a") => Advances("slp a", "slp b")
      /\ EnterSleep("b") => Advances("slp b", "entered")
  BY GoesOn DEF EnterSleep, At, SleepOp, After, Writes, WritingOps, Advances
<1>5. StayAwake => Advances("entered", "woken")
  BY GoesOn DEF StayAwake, At, Writes, WritingOps, Advances
<1>6. ASSUME PrepareWake
      PROVE  \/ Advances("woken", "wake")
             \/ Advances("woken", "wake a") /\ slpTypS0[1] # 255
  <2>1. call \in Writing
    BY <1>6, CallKinds DEF PrepareWake, At, CallsOK, WritingOps
  <2>2. CASE call' = [call EXCEPT !.op = "wake"]
    BY <1>6, <2>1, <2>2 DEF PrepareWake, At, Advances, Writing
  <2>3. CASE slpTypS0[1] # 255
             /\ call' = [op |-> "wake a", state |-> call.state, cnt |-> Merged]
    <3>1. call'.op = "wake a" /\ call'.state = call.state
      BY <2>3
    <3>2. QED
      BY <1>6, <2>3, <3>1 DEF PrepareWake, At, Advances
  <2>4. QED
    BY <1>6, <2>2, <2>3 DEF PrepareWake
<1>7. /\ WakeType("a") => Advances("wake a", "wake b")
      /\ WakeType("b") => Advances("wake b", "wake")
  BY GoesOn DEF WakeType, At, WakeOp, After, Writes, WritingOps, Advances
<1>8. /\ WakeDisable => Advances("wake", "wake clear")
      /\ WakeClear => Advances("wake clear", "wake arm")
  BY GoesOn DEF WakeDisable, WakeClear, At, Writes, WritingOps, Advances
<1>9. QED
  BY <1>1, <1>2, <1>3, <1>4, <1>5, <1>6, <1>7, <1>8

\* A wake GPE that comes while the machine sleeps resumes the host in the call.
LEMMA Raises ==
  ASSUME CallsOK, NEW g \in All, Raise(g)
  PROVE  \/ UNCHANGED <<call, power>>
         \/ call' = call /\ power' = "on"
         \/ Advances("entered", "woken") /\ power' = "on"
<1>1. CASE power = "asleep" /\ g \in en
  <2>1. call.op = "entered" /\ GoTo("woken") /\ power' = "on"
    BY <1>1 DEF Raise, CallsOK, GoTo
  <2>2. QED
    BY <2>1, GoesOn DEF Writes, WritingOps, Advances
<1>2. CASE ~(power = "asleep" /\ g \in en)
  BY <1>2 DEF Raise
<1>3. QED
  BY <1>1, <1>2

\* The calls that enable ACPI mode are quiet, and the others end so.
LEMMA QuietSteps ==
  ASSUME CallsOK
  PROVE  /\ Free => call.op = "none"
         /\ EnterFails \/ WakeFails \/ WakeGpes \/ ModeDone => call'.op = "none"
         /\ (\E on \in BOOLEAN : AcpiMode(on)) => call'.op = "poll"
         /\ Poll => call.op = "poll" /\ call'.op \in {"poll", "timed out"}
         /\ ModeDone => call.op \in {"poll", "timed out"}
<1>1. Free => call.op = "none"
  BY NoCallOp DEF Free
<1>2. EnterFails \/ WakeFails \/ WakeGpes \/ ModeDone => call'.op = "none"
  BY NoCallOp DEF EnterFails, WakeFails, WakeGpes, ModeDone
<1>3. (\E on \in BOOLEAN : AcpiMode(on)) => call'.op = "poll"
  BY DEF AcpiMode
<1>4. ASSUME Poll
      PROVE  call.op = "poll" /\ call'.op \in {"poll", "timed out"}
  <2>1. call \in Polling /\ call.op = "poll"
    BY <1>4, CallKinds DEF Poll, At, CallsOK
  <2>2. QED
    BY <1>4, <2>1 DEF Poll, Polling
<1>5. ModeDone => call.op \in {"poll", "timed out"}
  BY DEF ModeDone, At
<1>6. QED
  BY <1>1, <1>2, <1>3, <1>4, <1>5

LEMMA TypesInductive ==
  ASSUME CallsOK, TypesOK, Next, WellUsed
  PROVE  TypesOK'
<1>1. ASSUME NEW g \in All, Enable(g) \/ Disable(g) \/ EnableForWake(g)
                             \/ DisableForWake(g) \/ Sci(g) \/ WorkDone(g)
      PROVE  TypesOK'
  BY <1>1 DEF Enable, Disable, EnableForWake, DisableForWake, Sci, WorkDone,
              types, TypesOK
<1>2. ASSUME NEW g \in All, Raise(g)
      PROVE  TypesOK'
  BY <1>2, Raises DEF Raise, types, TypesOK, Advances, Quiet
<1>3. ASSUME NEW s \in States, Prepare(s)
      PROVE  TypesOK'
  <2>1. PICK t \in Types, t0 \in {slpTypS0, <<0, 0>>} :
          /\ \E package \in Packages(t) : slpTyp' = TypesOf(package)
          /\ given' = t /\ slpTypS0' = t0
    BY <1>3 DEF Prepare
  <2>2. t \in (0..15) \X (0..15)
    BY SleepAssumption
  <2>3. slpTyp' = t
    BY <2>1, <2>2, PackageTypes
  <2>4. call' = call /\ call.op \in Quiet /\ prepared' = s
    BY <1>3, QuietSteps DEF Prepare, Quiet
  <2>5. QED
    BY <2>1, <2>2, <2>3, <2>4 DEF TypesOK, Quiet
<1>4. CASE PrepareFails
  BY <1>4, QuietSteps DEF PrepareFails, TypesOK, Quiet
<1>5. ASSUME NEW s \in States, Enter(s)
      PROVE  TypesOK'
  <2>1. call'.op = "disable" /\ call'.state = s /\ prepared = s
    BY <1>5 DEF Enter
  <2>2. QED
    BY <1>5, <2>1 DEF Enter, types, TypesOK, Quiet
<1>6. CASE \/ EnterDisable \/ EnterClear \/ EnterArm \/ EnterRead \/ StayAwake
           \/ WakeDisable \/ WakeClear
  BY <1>6, Progress
     DEF EnterDisable, EnterClear, EnterArm, EnterRead, StayAwake, WakeDisable, WakeClear,
         types, TypesOK, Quiet, Advances
<1>7. ASSUME NEW s \in Sides, EnterType(s) \/ EnterSleep(s) \/ WakeType(s)
      PROVE  TypesOK'
  <2>1. UNCHANGED types
    BY <1>7 DEF EnterType, EnterSleep, WakeType
  <2>2. /\ call'.state = call.state /\ call.op \notin Quiet
        /\ call'.op \in {"wake a", "wake b"} => call.op \in {"wake a", "wake b"}
    <3>1. \/ s = "a" /\ (EnterType("a") \/ EnterSleep("a") \/ WakeType("a"))
          \/ s = "b" /\ (EnterType("b") \/ EnterSleep("b") \/ WakeType("b"))
      BY <1>7 DEF Sides
    <3>2. \/ Advances("typ a", "typ b") \/ Advances("typ b", "slp a")
          \/ Advances("slp a", "slp b") \/ Advances("slp b", "entered")
          \/ Advances("wake a", "wake b") \/ Advances("wake b", "wake")
      BY <3>1, Progress
    <3>3. QED
      BY <3>2 DEF Advances, Quiet
  <2>3. QED
    BY <2>1, <2>2 DEF types, TypesOK
<1>8. CASE FallAsleep
  BY <1>8 DEF FallAsleep, types, TypesOK
<1>9. CASE PrepareWake
  <2>1. slpTypS0[1] # 255 => slpTypS0 = <<0, 0>>
    <3>1. NoType[1] = 255
      BY DEF NoType
    <3>2. QED
      BY <3>1 DEF TypesOK
  <2>2. UNCHANGED types
    BY <1>9 DEF PrepareWake
  <2>3. \/ Advances("woken", "wake")
        \/ Advances("woken", "wake a") /\ slpTypS0[1] # 255
    BY <1>9, Progress
  <2>4. QED
    BY <2>1, <2>2, <2>3 DEF types, TypesOK, Advances, Quiet
<1>10. CASE EnterFails \/ WakeFails \/ ModeDone
  BY <1>10, QuietSteps DEF EnterFails, WakeFails, ModeDone, types, TypesOK, Quiet
<1>11. CASE WakeGpes
  BY <1>11, QuietSteps DEF WakeGpes, TypesOK, Quiet
<1>12. CASE (\E on \in BOOLEAN : AcpiMode(on)) \/ Poll
  BY <1>12, QuietSteps DEF AcpiMode, Poll, types, TypesOK, Quiet
<1>13. CASE Firmware
  BY <1>13 DEF Firmware, types, TypesOK
<1>14. CASE WakeAgain
  <2>1. call'.op = "woken" /\ call'.state = prepared /\ UNCHANGED types
    BY <1>14 DEF WakeAgain
  <2>2. QED
    BY <2>1 DEF types, TypesOK
<1>15. QED
  BY <1>1, <1>2, <1>3, <1>4, <1>5, <1>6, <1>7, <1>8, <1>9, <1>10, <1>11, <1>12,
     <1>13, <1>14 DEF Next, EnterStep, WakeStep

LEMMA RegistersInductive ==
  ASSUME CallsOK, TypesOK, RegistersOK, EnabledOK, Next, WellUsed
  PROVE  RegistersOK'
<1>1. ASSUME NEW g \in All, Enable(g) \/ Disable(g) \/ EnableForWake(g)
                             \/ DisableForWake(g) \/ Sci(g) \/ WorkDone(g)
      PROVE  RegistersOK'
  BY <1>1 DEF Enable, Disable, EnableForWake, DisableForWake, Sci, WorkDone,
              types, RegistersOK, TypA, TypB
<1>2. ASSUME NEW g \in All, Raise(g)
      PROVE  RegistersOK'
  <2>1. UNCHANGED <<cnt, given, failed>>
    BY <1>2 DEF Raise, types
  <2>2. QED
    BY <1>2, <2>1, Raises DEF RegistersOK, TypA, TypB, Typed, Waking, Advances
<1>3. CASE (\E s \in States : Prepare(s)) \/ PrepareFails
  <2>1. UNCHANGED <<cnt, call, failed>> /\ call.op = "none"
    BY <1>3, QuietSteps DEF Prepare, PrepareFails
  <2>2. QED
    BY <2>1 DEF RegistersOK, TypA, TypB, Typed, Waking
<1>4. ASSUME NEW s \in States, Enter(s)
      PROVE  RegistersOK'
  <2>1. UNCHANGED <<cnt, given, failed>> /\ call.op = "none" /\ call'.op = "disable"
    <3>1. call' = [op |-> "disable", state |-> s] /\ call.op = "none"
      BY <1>4, QuietSteps DEF Enter
    <3>2. QED
      BY <1>4, <3>1 DEF Enter, types
  <2>2. QED
    BY <2>1 DEF RegistersOK, TypA, TypB, Typed, Waking
<1>5. CASE EnterDisable \/ EnterClear \/ EnterArm \/ EnterRead \/ StayAwake
  <2>1. UNCHANGED <<cnt, given, failed>>
    BY <1>5 DEF EnterDisable, EnterClear, EnterArm, EnterRead, StayAwake, types
  <2>2. QED
    BY <1>5, <2>1, Progress DEF RegistersOK, TypA, TypB, Typed, Waking, Advances
<1>6. ASSUME NEW s \in Sides, EnterType(s)
      PROVE  RegistersOK'
  <2>1. call.op = TypeOp(s) /\ call.op \in {"typ a", "typ b"}
    BY <1>6 DEF EnterType, At, TypeOp
  <2>2. call.cnt \in Merges
    BY <2>1, CallKinds DEF CallsOK, WritingOps, Writing
  <2>3. given[Side(s)] \in 0..15 /\ slpTyp = given
    BY DEF TypesOK, Side
  <2>4. /\ cnt' = [cnt EXCEPT ![s] = WithType(call.cnt, given[Side(s)])]
        /\ UNCHANGED <<given, failed>>
    BY <1>6, <2>3 DEF EnterType, types
  <2>5. /\ given[Side(s)] < 8 => cnt'[s].typ = given[Side(s)] /\ cnt'[s].slp = FALSE
        /\ \A r \in Sides \ {s} : cnt'[r] = cnt[r]
    BY <2>2, <2>3, <2>4, TypeFits DEF CallsOK
  <2>6. CASE s = "a"
    <3>1. Advances("typ a", "typ b")
      BY <1>6, <2>6, Progress
    <3>2. TypA'
      BY <2>4, <2>5, <2>6 DEF TypA, ThreeBits, Side
    <3>3. ThreeBits(given) => cnt'["a"].slp = FALSE /\ cnt'["b"] = cnt["b"]
      BY <2>5, <2>6 DEF ThreeBits, Side, Sides
    <3>4. QED
      BY <2>4, <3>1, <3>2, <3>3 DEF RegistersOK, Typed, Waking, Advances, ThreeBits
  <2>7. CASE s = "b"
    <3>1. Advances("typ b", "slp a")
      BY <1>6, <2>7, Progress
    <3>2. TypB' /\ TypA'
      <4>1. TypA /\ cnt'["a"] = cnt["a"]
        BY <2>5, <2>7, <3>1 DEF RegistersOK, Typed, Advances, Sides
      <4>2. TypA'
        BY <2>4, <4>1 DEF TypA, ThreeBits
      <4>3. TypB'
        BY <2>4, <2>5, <2>7 DEF TypB, ThreeBits, Side
      <4>4. QED
        BY <4>2, <4>3
    <3>3. ThreeBits(given) => cnt'["b"].slp = FALSE /\ cnt'["a"] = cnt["a"]
      BY <2>5, <2>7 DEF ThreeBits, Side, Sides
    <3>4. QED
      BY <2>4, <3>1, <3>2, <3>3 DEF RegistersOK, Typed, Waking, Advances, ThreeBits
  <2>8. QED
    BY <2>6, <2>7 DEF Sides
<1>7. ASSUME NEW s \in Sides, EnterSleep(s)
      PROVE  RegistersOK'
  <2>1. /\ cnt'[s].slp = TRUE /\ cnt'[s].typ = cnt[s].typ
        /\ \A r \in Sides \ {s} : cnt'[r] = cnt[r]
        /\ UNCHANGED <<given, failed>>
    BY <1>7 DEF EnterSleep, CallsOK, types
  <2>2. CASE s = "a"
    BY <1>7, <2>1, <2>2, Progress DEF RegistersOK, TypA, TypB, Typed, Waking, Advances, Sides
  <2>3. CASE s = "b"
    BY <1>7, <2>1, <2>3, Progress DEF RegistersOK, TypA, TypB, Typed, Waking, Advances, Sides
  <2>4. QED
    BY <2>2, <2>3 DEF Sides
<1>8. CASE FallAsleep
  BY <1>8 DEF FallAsleep, types, RegistersOK, TypA, TypB
<1>9. CASE EnterFails \/ WakeFails
  <2>1. call'.op = "none" /\ failed' = TRUE
    BY <1>9, QuietSteps DEF EnterFails, WakeFails
  <2>2. QED
    BY <2>1 DEF RegistersOK, TypA, TypB, Typed, Waking
<1>10. CASE PrepareWake
  <2>1. /\ cnt'["a"].slp = FALSE /\ cnt'["b"].slp = FALSE
    BY <1>10 DEF PrepareWake, CallsOK, Sides
  <2>2. call'.op \in {"wake", "wake a"}
    BY <1>10, Progress DEF Advances
  <2>3. QED
    BY <2>1, <2>2 DEF RegistersOK, TypA, TypB, Typed, Waking
<1>11. ASSUME NEW s \in Sides, WakeType(s)
       PROVE  RegistersOK'
  <2>1. call.op = WakeOp(s) /\ call.op \in {"wake a", "wake b"}
    BY <1>11 DEF WakeType, At, WakeOp
  <2>2. call.cnt \in Merges
    BY <2>1, CallKinds DEF CallsOK, WritingOps, Writing
  <2>3. slpTypS0[Side(s)] \in 0..15 /\ slpTypS0[Side(s)] < 8
    <3>1. slpTypS0 = <<0, 0>> /\ Side(s) \in {1, 2}
      BY <2>1 DEF TypesOK, Side
    <3>2. QED
      BY <3>1
  <2>4. cnt'["a"].slp = FALSE /\ cnt'["b"].slp = FALSE
    <3>1. cnt["a"].slp = FALSE /\ cnt["b"].slp = FALSE
      BY <2>1 DEF RegistersOK, Waking, CallsOK, Sides
    <3>2. WithType(call.cnt, slpTypS0[Side(s)]).slp = FALSE
      BY <2>2, <2>3, TypeFits
    <3>3. QED
      BY <1>11, <3>1, <3>2 DEF WakeType, CallsOK, Sides
  <2>5. call'.op \in {"wake b", "wake"}
    BY <1>11, Progress DEF Advances, Sides
  <2>6. QED
    BY <2>1, <2>4, <2>5 DEF RegistersOK, TypA, TypB, Typed, Waking, Sides
<1>12. CASE WakeGpes
  <2>1. call.op = "wake arm" /\ call'.op = "none" /\ UNCHANGED cnt
    BY <1>12, QuietSteps DEF WakeGpes, At
  <2>2. QED
    BY <2>1 DEF RegistersOK, TypA, TypB, Typed, Waking
<1>13. CASE (\E on \in BOOLEAN : AcpiMode(on)) \/ Poll \/ ModeDone
  <2>1. /\ call.op \in Quiet /\ call'.op \in Quiet
        /\ UNCHANGED <<cnt, failed>>
    BY <1>13, QuietSteps DEF AcpiMode, Poll, ModeDone, Quiet
  <2>2. QED
    BY <2>1 DEF RegistersOK, TypA, TypB, Typed, Waking, Quiet
<1>14. CASE Firmware
  <2>1. /\ cnt'["a"].slp = cnt["a"].slp /\ cnt'["b"].slp = cnt["b"].slp
        /\ UNCHANGED <<call, failed>> /\ call.op = "poll"
    BY <1>14 DEF Firmware, CallsOK, Sides, At
  <2>2. QED
    BY <2>1 DEF RegistersOK, TypA, TypB, Typed, Waking
<1>15. CASE WakeDisable \/ WakeClear
  <2>1. UNCHANGED <<cnt, given, failed>>
    BY <1>15 DEF WakeDisable, WakeClear, types
  <2>2. QED
    BY <1>15, <2>1, Progress DEF RegistersOK, TypA, TypB, Typed, Waking, Advances
<1>16. CASE WakeAgain
  <2>1. call'.op = "woken" /\ failed' = TRUE
    BY <1>16 DEF WakeAgain, EnabledOK
  <2>2. QED
    BY <2>1 DEF RegistersOK, TypA, TypB, Typed, Waking
<1>17. QED
  BY <1>1, <1>2, <1>3, <1>4, <1>5, <1>6, <1>7, <1>8, <1>9, <1>10, <1>11, <1>12,
     <1>13, <1>14, <1>15, <1>16 DEF Next, EnterStep, WakeStep

LEMMA ListsInductive ==
  ASSUME CallsOK, EnabledOK, ListsOK, Next, WellUsed
  PROVE  ListsOK'
<1> DEFINE same == UNCHANGED <<wakeEvents, amlWakeEvents, asked>>
<1>1. same => ListsOK'
  BY DEF ListsOK, Once
<1>2. ASSUME NEW g \in All, EnableForWake(g)
      PROVE  ListsOK'
  <2>1. /\ Len(wakeEvents) \in Nat /\ Len(amlWakeEvents) \in Nat /\ MaxArmed \in Nat
        /\ Len(wakeEvents) + Len(amlWakeEvents) < MaxArmed
        /\ g \notin ToSet(wakeEvents) /\ g \notin ToSet(amlWakeEvents)
        /\ asked' = asked \cup {g}
    BY <1>2, SleepAssumption DEF EnableForWake, ListsOK, WellUsed, Armed
  <2>2. CASE g \in native /\ wakeEvents' = Append(wakeEvents, g) /\ UNCHANGED amlWakeEvents
    <3>1. g \in Gpes
      BY <2>2 DEF EnabledOK
    <3>2. /\ wakeEvents' \in Seq(Gpes) /\ Len(wakeEvents') = Len(wakeEvents) + 1
          /\ Once(wakeEvents') /\ ToSet(wakeEvents') = ToSet(wakeEvents) \cup {g}
      BY <2>1, <2>2, <3>1, AppendOnce DEF ListsOK
    <3>3. Once(amlWakeEvents)' /\ ToSet(amlWakeEvents)' = ToSet(amlWakeEvents)
      BY <2>2 DEF ListsOK, Once
    <3>4. QED
      BY <2>1, <2>2, <3>2, <3>3 DEF ListsOK
  <2>3. CASE g \in aml \ native /\ amlWakeEvents' = Append(amlWakeEvents, g)
             /\ UNCHANGED wakeEvents
    <3>1. g \in AmlGpes
      BY <2>3 DEF EnabledOK
    <3>2. /\ amlWakeEvents' \in Seq(AmlGpes) /\ Len(amlWakeEvents') = Len(amlWakeEvents) + 1
          /\ Once(amlWakeEvents') /\ ToSet(amlWakeEvents') = ToSet(amlWakeEvents) \cup {g}
      BY <2>1, <2>3, <3>1, AppendOnce DEF ListsOK
    <3>3. Once(wakeEvents)' /\ ToSet(wakeEvents)' = ToSet(wakeEvents)
      BY <2>3 DEF ListsOK, Once
    <3>4. QED
      BY <2>1, <2>3, <3>2, <3>3 DEF ListsOK
  <2>4. QED
    BY <1>2, <2>2, <2>3 DEF EnableForWake
<1>3. ASSUME NEW g \in All, DisableForWake(g)
      PROVE  ListsOK'
  <2>1. /\ Len(wakeEvents) \in Nat /\ Len(amlWakeEvents) \in Nat /\ MaxArmed \in Nat
        /\ asked' = asked \ {g} /\ g \in ToSet(wakeEvents) \cup ToSet(amlWakeEvents)
    BY <1>3, SleepAssumption DEF DisableForWake, ListsOK, Armed
  <2>2. CASE g \in ToSet(wakeEvents)
    <3>1. wakeEvents' = RemoveAt(wakeEvents, First(wakeEvents, g)) /\ UNCHANGED amlWakeEvents
      BY <1>3, <2>2 DEF DisableForWake
    <3>2. /\ wakeEvents' \in Seq(Gpes) /\ Len(wakeEvents') = Len(wakeEvents) - 1
          /\ Once(wakeEvents') /\ ToSet(wakeEvents') = ToSet(wakeEvents) \ {g}
      BY <2>2, <3>1, RemoveOnce DEF ListsOK
    <3>3. Once(amlWakeEvents)' /\ ToSet(amlWakeEvents)' = ToSet(amlWakeEvents)
      BY <3>1 DEF ListsOK, Once
    <3>4. QED
      BY <2>1, <2>2, <3>1, <3>2, <3>3 DEF ListsOK
  <2>3. CASE g \notin ToSet(wakeEvents)
    <3>1. /\ amlWakeEvents' = RemoveAt(amlWakeEvents, First(amlWakeEvents, g))
          /\ UNCHANGED wakeEvents
      BY <1>3, <2>3 DEF DisableForWake
    <3>2. /\ amlWakeEvents' \in Seq(AmlGpes) /\ Len(amlWakeEvents') = Len(amlWakeEvents) - 1
          /\ Once(amlWakeEvents') /\ ToSet(amlWakeEvents') = ToSet(amlWakeEvents) \ {g}
      BY <2>1, <2>3, <3>1, RemoveOnce DEF ListsOK
    <3>3. Once(wakeEvents)' /\ ToSet(wakeEvents)' = ToSet(wakeEvents)
      BY <3>1 DEF ListsOK, Once
    <3>4. QED
      BY <2>1, <2>3, <3>1, <3>2, <3>3 DEF ListsOK
  <2>4. QED
    BY <2>2, <2>3
<1>4. ASSUME NEW g \in All, Enable(g) \/ Disable(g) \/ Raise(g) \/ Sci(g) \/ WorkDone(g)
      PROVE  same
  BY <1>4 DEF Enable, Disable, Raise, Sci, WorkDone, lists
<1>5. ASSUME NEW s \in States, Prepare(s) \/ Enter(s)
      PROVE  same
  BY <1>5 DEF Prepare, Enter, lists
<1>6. CASE \/ PrepareFails \/ EnterFails \/ WakeFails \/ WakeAgain
           \/ Firmware \/ Poll \/ ModeDone
  <2>1. same
    BY <1>6 DEF PrepareFails, EnterFails, WakeFails, WakeAgain, Firmware, Poll, ModeDone, lists
  <2>2. QED
    BY <1>1, <2>1
<1>7. EnterStep => same
  BY DEF EnterStep, EnterDisable, EnterClear, EnterArm, EnterRead, EnterType, EnterSleep,
         FallAsleep, StayAwake, lists
<1>8. WakeStep => same
  BY DEF WakeStep, PrepareWake, WakeType, WakeDisable, WakeClear, WakeGpes, lists
<1>9. ASSUME NEW on \in BOOLEAN, AcpiMode(on)
      PROVE  same
  BY <1>9 DEF AcpiMode, lists
<1> HIDE DEF same
<1>10. QED
  BY <1>1, <1>2, <1>3, <1>4, <1>5, <1>6, <1>7, <1>8, <1>9 DEF Next

LEMMA EnabledInductive ==
  ASSUME CallsOK, ListsOK, EnabledOK, Next, WellUsed
  PROVE  EnabledOK'
<1>1. ASSUME NEW g \in All, Enable(g) \/ Disable(g)
      PROVE  EnabledOK'
  <2>1. call' = call /\ call.op = "none" /\ working = {} /\ working' = {}
        /\ sts' = sts /\ failed' = failed
    BY <1>1, QuietSteps DEF Enable, Disable
  <2>2. CASE Enable(g)
    BY <2>1, <2>2 DEF Enable, EnabledOK, Quiet, All
  <2>3. CASE Disable(g)
    BY <2>1, <2>3 DEF Disable, EnabledOK, Quiet, All
  <2>4. QED
    BY <1>1, <2>2, <2>3
<1>2. ASSUME NEW g \in All, EnableForWake(g) \/ DisableForWake(g)
      PROVE  EnabledOK'
  <2>1. /\ call' = call /\ call.op = "none"
        /\ UNCHANGED <<sts, en, working, native, aml, missed, failed>>
    BY <1>2, QuietSteps DEF EnableForWake, DisableForWake, gpes
  <2>2. QED
    BY <2>1 DEF EnabledOK, Quiet
<1>3. ASSUME NEW g \in All, Raise(g)
      PROVE  EnabledOK'
  BY <1>3, Raises DEF Raise, EnabledOK, Advances, Quiet, lists
<1>4. ASSUME NEW g \in All, Sci(g)
      PROVE  EnabledOK'
  <2>1. call' = call /\ call.op = "none"
    BY <1>4, NoCallOp DEF Sci, WellUsed
  <2>2. QED
    BY <1>4, <2>1 DEF Sci, EnabledOK, Quiet, lists
<1>5. ASSUME NEW g \in All, WorkDone(g)
      PROVE  EnabledOK'
  <2>1. call' = call /\ call.op \in Quiet /\ g \in working
    BY <1>5 DEF WorkDone, EnabledOK
  <2>2. QED
    BY <1>5, <2>1 DEF WorkDone, EnabledOK, Quiet, lists
<1>6. CASE (\E s \in States : Prepare(s)) \/ PrepareFails \/ Firmware \/ FallAsleep
  <2>1. UNCHANGED <<call, sts, en, working, native, aml, asked, missed, failed>>
    BY <1>6 DEF Prepare, PrepareFails, Firmware, FallAsleep, gpes, lists
  <2>2. QED
    BY <2>1 DEF EnabledOK
<1>7. ASSUME NEW s \in States, Enter(s)
      PROVE  EnabledOK'
  <2>1. call' = [op |-> "disable", state |-> s] /\ working = {}
    BY <1>7 DEF Enter, WellUsed
  <2>2. UNCHANGED <<sts, en, working, native, aml, asked, missed, failed>>
    BY <1>7 DEF Enter, gpes, lists
  <2>3. QED
    BY <2>1, <2>2 DEF EnabledOK, Quiet
<1>8. CASE EnterDisable \/ EnterClear
  <2>1. Advances("disable", "clear") \/ Advances("clear", "arm")
    BY <1>8, Progress
  <2>2. /\ en' = {} /\ sts' \subseteq sts
        /\ UNCHANGED <<working, native, aml, asked, missed, failed>>
    <3>1. CASE EnterDisable
      BY <3>1 DEF EnterDisable, lists
    <3>2. CASE EnterClear
      BY <3>2 DEF EnterClear, At, EnabledOK, lists
    <3>3. QED
      BY <1>8, <3>1, <3>2
  <2>3. QED
    BY <2>1, <2>2 DEF EnabledOK, Advances, Quiet
<1>9. CASE EnterArm
  <2>1. asked \subseteq All
    BY DEF ListsOK, ToSet, All
  <2>2. /\ en' = asked \ missed' /\ missed' \subseteq asked
        /\ UNCHANGED <<sts, working, native, aml, asked, failed>>
    BY <1>9 DEF EnterArm, Arms, At, EnabledOK, ListsOK, lists
  <2>3. QED
    BY <1>9, <2>1, <2>2, Progress DEF EnabledOK, Advances, Quiet
<1>10. CASE EnterRead \/ StayAwake \/ PrepareWake
  <2>1. UNCHANGED <<sts, en, working, native, aml, asked, missed, failed>>
    BY <1>10 DEF EnterRead, StayAwake, PrepareWake, gpes, lists
  <2>2. \/ Advances("read", "typ a") \/ Advances("entered", "woken")
        \/ Advances("woken", "wake") \/ Advances("woken", "wake a")
    BY <1>10, Progress
  <2>3. QED
    BY <2>1, <2>2 DEF EnabledOK, Advances, Quiet
<1>11. ASSUME NEW s \in Sides, EnterType(s) \/ EnterSleep(s) \/ WakeType(s)
       PROVE  EnabledOK'
  <2>1. UNCHANGED <<sts, en, working, native, aml, asked, missed, failed>>
    BY <1>11 DEF EnterType, EnterSleep, WakeType, gpes, lists
  <2>2. \/ s = "a" /\ (EnterType("a") \/ EnterSleep("a") \/ WakeType("a"))
        \/ s = "b" /\ (EnterType("b") \/ EnterSleep("b") \/ WakeType("b"))
    BY <1>11 DEF Sides
  <2>3. \/ Advances("typ a", "typ b") \/ Advances("typ b", "slp a")
        \/ Advances("slp a", "slp b") \/ Advances("slp b", "entered")
        \/ Advances("wake a", "wake b") \/ Advances("wake b", "wake")
    BY <2>2, Progress
  <2>4. QED
    BY <2>1, <2>3 DEF EnabledOK, Advances, Quiet
<1>12. CASE EnterFails \/ WakeFails
  <2>1. call'.op = "none" /\ failed' = TRUE /\ working = {}
    BY <1>12, QuietSteps DEF EnterFails, WakeFails, EnabledOK, Quiet
  <2>2. QED
    BY <1>12, <2>1 DEF EnterFails, WakeFails, EnabledOK, gpes, lists
<1>13. CASE WakeGpes
  <2>1. call'.op = "none" /\ working = {}
    BY <1>13, QuietSteps DEF WakeGpes, At, EnabledOK, Quiet
  <2>2. /\ en' = (native \cup aml) \ missed' /\ missed' \subseteq native \cup aml
        /\ UNCHANGED <<sts, working, native, aml, asked>>
    BY <1>13 DEF WakeGpes, Arms, At, EnabledOK, lists
  <2>3. QED
    BY <2>1, <2>2 DEF EnabledOK, All, Quiet
<1>16. CASE WakeDisable \/ WakeClear
  <2>1. Advances("wake", "wake clear") \/ Advances("wake clear", "wake arm")
    BY <1>16, Progress
  <2>2. /\ en' = {} /\ sts' \subseteq sts
        /\ UNCHANGED <<working, native, aml, asked, missed, failed>>
    <3>1. CASE WakeDisable
      BY <3>1 DEF WakeDisable, lists
    <3>2. CASE WakeClear
      BY <3>2 DEF WakeClear, At, EnabledOK, lists
    <3>3. QED
      BY <1>16, <3>1, <3>2
  <2>3. QED
    BY <2>1, <2>2 DEF EnabledOK, Advances, Quiet
<1>17. CASE WakeAgain
  <2>1. call'.op = "woken" /\ working = {}
    BY <1>17 DEF WakeAgain, WellUsed
  <2>2. UNCHANGED <<sts, en, working, native, aml, asked, missed, failed>>
    BY <1>17 DEF WakeAgain, gpes, lists
  <2>3. QED
    BY <2>1, <2>2 DEF EnabledOK, Quiet
<1>14. CASE (\E on \in BOOLEAN : AcpiMode(on)) \/ Poll \/ ModeDone
  <2>1. /\ call.op \in Quiet /\ call'.op \in Quiet
        /\ UNCHANGED <<sts, en, working, native, aml, asked, missed, failed>>
    BY <1>14, QuietSteps DEF AcpiMode, Poll, ModeDone, Quiet, gpes, lists
  <2>2. QED
    BY <2>1 DEF EnabledOK, Quiet
<1>15. QED
  BY <1>1, <1>2, <1>3, <1>4, <1>5, <1>6, <1>7, <1>8, <1>9, <1>10, <1>11, <1>12,
     <1>13, <1>14, <1>16, <1>17 DEF Next, EnterStep, WakeStep

-----------------------------------------------------------------------------
(* The theorems                                                            *)

LEMMA Initially ==
  ASSUME Init
  PROVE  IInv
<1>1. CallsOK /\ call.op = "none"
  BY SleepAssumption, NoCallOp DEF Init, CallsOK
<1>2. TypesOK
  BY <1>1 DEF Init, TypesOK, Quiet
<1>3. RegistersOK
  BY <1>1 DEF Init, RegistersOK, Typed, Waking, Sides
<1>4. ListsOK
  BY SleepAssumption DEF Init, ListsOK, Once, ToSet
<1>5. EnabledOK
  BY <1>1 DEF Init, EnabledOK, Quiet
<1>6. QED
  BY <1>1, <1>2, <1>3, <1>4, <1>5 DEF IInv

LEMMA Inductive ==
  ASSUME IInv, [Next]_vars, WellUsed
  PROVE  IInv'
<1>1. CASE Next
  <2>1. CallsOK /\ TypesOK /\ RegistersOK /\ ListsOK /\ EnabledOK
    BY DEF IInv
  <2>2. CallsOK' /\ TypesOK'
    BY <1>1, <2>1, CallsInductive, TypesInductive
  <2>3. RegistersOK' /\ ListsOK' /\ EnabledOK'
    BY <1>1, <2>1, RegistersInductive, ListsInductive, EnabledInductive
  <2>4. QED
    BY <2>2, <2>3 DEF IInv
<1>2. CASE UNCHANGED vars
  <2>1. CallsOK' /\ TypesOK' /\ RegistersOK'
    <3>1. CallsOK'
      BY <1>2 DEF vars, IInv, CallsOK
    <3>2. TypesOK'
      BY <1>2 DEF vars, types, IInv, TypesOK
    <3>3. RegistersOK'
      BY <1>2 DEF vars, types, IInv, RegistersOK, TypA, TypB
    <3>4. QED
      BY <3>1, <3>2, <3>3
  <2>2. ListsOK'
    BY <1>2 DEF vars, lists, IInv, ListsOK, Once
  <2>3. EnabledOK'
    BY <1>2 DEF vars, gpes, lists, IInv, EnabledOK
  <2>4. QED
    BY <2>1, <2>2, <2>3 DEF IInv
<1>3. QED
  BY <1>1, <1>2

LEMMA InvariantIsEnough ==
  ASSUME IInv
  PROVE  AsleepAsAsked /\ RuntimeRestored
<1>1. TypeOK
  <2>1. working \subseteq All /\ asked \subseteq All
    <3>1. working \subseteq All
      BY DEF IInv, EnabledOK, All
    <3>2. asked \subseteq All
      BY DEF IInv, ListsOK, ToSet, All
    <3>3. QED
      BY <3>1, <3>2
  <2>2. call.op \in Steps
    <3>1. call \in Writing => call.op \in Steps
      BY DEF Writing, WritingOps, Steps
    <3>2. call \in Entering \cup Polling => call.op \in Steps
      BY DEF Entering, EnteringOps, Polling, Steps
    <3>3. call = NoCall => call.op \in Steps
      BY NoCallOp DEF Steps
    <3>4. QED
      BY <3>1, <3>2, <3>3 DEF IInv, CallsOK
  <2>3. sleeps <= MaxSleeps /\ polls <= MaxPolls
    BY SleepAssumption DEF IInv, CallsOK
  <2>4. QED
    BY <2>1, <2>2, <2>3 DEF IInv, CallsOK, TypesOK, ListsOK, EnabledOK, TypeOK
<1>2. NoEarlySleep
  BY DEF IInv, RegistersOK, TypA, TypB, Typed, NoEarlySleep, Sides, Side
<1>3. SleepsAsAsked
  BY DEF IInv, CallsOK, TypesOK, RegistersOK, TypA, TypB, Typed, SleepsAsAsked, Sides, Side, Quiet
<1>4. ArmedAsAsked
  BY DEF IInv, CallsOK, EnabledOK, ArmedAsAsked
<1>5. RuntimeRestored
  BY QuietSteps DEF IInv, EnabledOK, RuntimeRestored, Quiet
<1>6. QED
  BY <1>1, <1>2, <1>3, <1>4, <1>5 DEF AsleepAsAsked

LEMMA Always == ASSUME WellUsed PROVE Spec => []IInv
<1>1. WellUsed /\ IInv /\ [Next]_vars => IInv'
  BY Inductive
<1>2. QED
  BY <1>1, Initially, PTL DEF Spec

\* The machine sleeps as the host asked: in the state prepared for, with the types of
\* both control registers written before SLP_EN if they have three bits, and with the
\* GPEs armed by enable_gpe_for_wake and no others enabled, but for those whose
\* enabling failed in enter_sleep_state.
THEOREM Asleep == ASSUME WellUsed PROVE Spec => []AsleepAsAsked
BY Always, InvariantIsEnough, PTL

\* After a wake_from_state that went to its end, also one that makes up for a call that
\* broke off, the GPEs with a handler are enabled and no others, but for those whose
\* work is pending and those whose enabling failed.
THEOREM Awake == ASSUME WellUsed PROVE Spec => []RuntimeRestored
BY Always, InvariantIsEnough, PTL
=============================================================================
