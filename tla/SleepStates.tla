----------------------------- MODULE SleepStates -----------------------------
(***************************************************************************)
(* Sleeping and waking (src/src/event.cpp): the GPEs armed for wake, the   *)
(* sleep types that AML gives for a state, the PM1 control registers and   *)
(* the switch to ACPI mode. The GPEs are those of one register; how they   *)
(* are dispatched is in GpeEvents.                                         *)
(***************************************************************************)
EXTENDS Naturals, Sequences, FiniteSets, SequencesExt

CONSTANTS Gpes,       \* native GPEs
          AmlGpes,    \* GPEs with a method
          States,     \* the sleep states the host uses
          Types,      \* what AML may give for the SLP_TYP of both registers
          MaxPolls,   \* reads of PM1_CNT before enable_acpi_mode gives up
          HostMay,    \* liberties, see below
          MaxSleeps,  \* bound: how often the host goes to sleep
          MaxArmed    \* bound: entries in a wake list

(***************************************************************************)
(* "armTwice": the host arms a GPE that is armed; "busy": work is pending  *)
(*   or the SCI comes while it goes to sleep.                              *)
(***************************************************************************)
All == Gpes \cup AmlGpes
NoType == <<255, 255>>

ASSUME SleepAssumption ==
  /\ States \subseteq 1..5 /\ Types \subseteq (0..15) \X (0..15)
  /\ HostMay \subseteq {"armTwice", "busy"}
  /\ MaxPolls \in Nat \ {0} /\ {MaxSleeps, MaxArmed} \subseteq Nat

VARIABLES sts, en,      \* GPE register
          cnt,          \* PM1 control registers a and b
          native, aml,  \* GPEs with a handler (enabled_events, aml_events)
          wakeEvents, amlWakeEvents,
          slpTyp, slpTypS0,  \* the types of a and b as the code keeps them
          given,        \* what AML has given for the state
          power,        \* "on", "asleep", "off"
          call,         \* the call the host makes, with its progress
          working,      \* GPEs whose work is pending
          prepared,     \* the state that was prepared for, or 0
          asked,        \* the GPEs the host asked to wake the machine
          sleeps,
          polls,        \* of enable_acpi_mode
          missed,       \* history: GPEs whose enabling failed, with nobody told
          failed        \* history: a call broke off at a register access and no
                        \* complete wake_from_state has come since

gpes == <<sts, en, working>>
lists == <<native, aml, wakeEvents, amlWakeEvents, asked>>
types == <<slpTyp, slpTypS0, given, prepared>>
vars == <<gpes, lists, types, cnt, power, call, sleeps, polls, missed, failed>>

Sides == {"a", "b"}
Side(s) == IF s = "a" THEN 1 ELSE 2
NoCall == [op |-> "none", state |-> 0]
At(op) == call.op = op
GoTo(op) == call' = [call EXCEPT !.op = op]

Init ==
  /\ sts = {} /\ en = {} /\ working = {}
  /\ cnt = [s \in Sides |-> [sci |-> FALSE, typ |-> 0, slp |-> FALSE]]
  /\ native = {} /\ aml = {} /\ wakeEvents = <<>> /\ amlWakeEvents = <<>>
  /\ asked = {}
  /\ slpTyp = <<0, 0>> /\ slpTypS0 = NoType /\ given = <<0, 0>> /\ prepared = 0
  /\ power = "on" /\ call = NoCall /\ sleeps = 0 /\ polls = 0
  /\ missed = {} /\ failed = FALSE

-----------------------------------------------------------------------------
(* The GPEs while the machine runs                                         *)

Free == power = "on" /\ call = NoCall

\* Handlers change while no work is pending (GpeEvents has the reason).
Enable(g) ==
  /\ Free /\ working = {}
  /\ \/ g \in Gpes \ native /\ native' = native \cup {g} /\ UNCHANGED aml
     \/ g \in AmlGpes \ aml /\ aml' = aml \cup {g} /\ UNCHANGED native
  /\ en' = en \cup {g} /\ missed' = missed \ {g}
  /\ UNCHANGED <<sts, working, wakeEvents, amlWakeEvents, asked, types, cnt, power, call, sleeps, polls, failed>>

\* disable_gpe leaves the wake lists alone.
Disable(g) ==
  /\ Free /\ g \in native /\ g \notin aml /\ working = {}
  /\ native' = native \ {g}
  /\ en' = en \ {g}
  /\ UNCHANGED <<sts, working, aml, wakeEvents, amlWakeEvents, asked, types, cnt, power, call, sleeps, polls, missed, failed>>

Armed(g) == g \in ToSet(wakeEvents) \cup ToSet(amlWakeEvents)

\* enable_gpe_for_wake copies the first event it finds, native before AML.
EnableForWake(g) ==
  /\ Free /\ Len(wakeEvents) + Len(amlWakeEvents) < MaxArmed
  /\ "armTwice" \in HostMay \/ ~Armed(g)
  /\ \/ /\ g \in native
        /\ wakeEvents' = Append(wakeEvents, g)
        /\ UNCHANGED amlWakeEvents
     \/ /\ g \in aml \ native
        /\ amlWakeEvents' = Append(amlWakeEvents, g)
        /\ UNCHANGED wakeEvents
  /\ asked' = asked \cup {g}
  /\ UNCHANGED <<gpes, native, aml, types, cnt, power, call, sleeps, polls, missed, failed>>

First(list, g) == CHOOSE i \in DOMAIN list : list[i] = g /\ \A j \in 1..(i - 1) : list[j] # g

\* disable_gpe_for_wake removes one entry, from the native list if it is there.
DisableForWake(g) ==
  /\ Free /\ Armed(g)
  /\ IF g \in ToSet(wakeEvents)
       THEN /\ wakeEvents' = RemoveAt(wakeEvents, First(wakeEvents, g))
            /\ UNCHANGED amlWakeEvents
       ELSE /\ amlWakeEvents' = RemoveAt(amlWakeEvents, First(amlWakeEvents, g))
            /\ UNCHANGED wakeEvents
  /\ asked' = asked \ {g}
  /\ UNCHANGED <<gpes, native, aml, types, cnt, power, call, sleeps, polls, missed, failed>>

\* An armed GPE wakes the machine; the host resumes in prepare_for_wake.
Raise(g) ==
  /\ g \notin sts /\ power # "off"
  /\ sts' = sts \cup {g}
  /\ power' = IF g \in en THEN "on" ELSE power
  /\ call' = IF power = "asleep" /\ g \in en THEN [call EXCEPT !.op = "woken"] ELSE call
  /\ UNCHANGED <<en, working, lists, types, cnt, sleeps, polls, missed, failed>>

Sci(g) ==
  /\ power = "on" /\ g \in sts \cap en /\ g \in native \cup aml
  /\ call = NoCall \/ "busy" \in HostMay
  /\ en' = en \ {g} /\ working' = working \cup {g}
  /\ UNCHANGED <<sts, lists, types, cnt, power, call, sleeps, polls, missed, failed>>

WorkDone(g) ==
  /\ power = "on" /\ g \in working
  /\ sts' = sts \ {g} /\ en' = en \cup {g} /\ working' = working \ {g}
  /\ missed' = missed \ {g}
  /\ UNCHANGED <<lists, types, cnt, power, call, sleeps, polls, failed>>

-----------------------------------------------------------------------------
(* prepare_for_sleep_state. AML's _PTS and _SST run, and may fail or be    *)
(* missing; the types come from \_Sx, and those of S0 may be missing.      *)

\* get_sleep_values: a package of one integer has both types in its bytes, a
\* longer one has one type per element.
TypesOf(package) ==
  IF Len(package) = 1 THEN <<package[1] % 256, (package[1] \div 256) % 256>>
  ELSE <<package[1] % 256, package[2] % 256>>

Packages(t) == {<<t[1] + 256 * t[2]>>, t, t \o <<0, 0>>}

Prepare(s) ==
  /\ Free
  /\ \E t \in Types, t0 \in {slpTypS0, <<0, 0>>} :
       \E package \in Packages(t) :
         /\ slpTyp' = TypesOf(package) /\ given' = t
         /\ slpTypS0' = t0
  /\ prepared' = s
  /\ UNCHANGED <<gpes, lists, cnt, power, call, sleeps, polls, missed, failed>>

PrepareFails ==
  /\ Free /\ prepared' = 0
  /\ UNCHANGED <<gpes, lists, slpTyp, slpTypS0, given, cnt, power, call, sleeps, polls, missed, failed>>

-----------------------------------------------------------------------------
(* enter_sleep_state, step by step; each access to a register may fail     *)

Enter(s) ==
  /\ Free /\ prepared = s /\ sleeps < MaxSleeps
  /\ working = {} \/ "busy" \in HostMay
  /\ call' = [op |-> "disable", state |-> s]
  /\ sleeps' = sleeps + 1
  /\ UNCHANGED <<gpes, lists, types, cnt, power, polls, missed, failed>>

EnterDisable ==
  /\ At("disable")
  /\ en' = {} /\ GoTo("clear")
  /\ UNCHANGED <<sts, working, lists, types, cnt, power, sleeps, polls, missed, failed>>

EnterClear ==
  /\ At("clear")
  /\ sts' = {} /\ GoTo("arm")
  /\ UNCHANGED <<en, working, lists, types, cnt, power, sleeps, polls, missed, failed>>

\* What enable returns is not looked at: some of the GPEs may stay disabled, and
\* the call goes on.
Arms(wanted) == \E lost \in SUBSET wanted : en' = en \cup (wanted \ lost) /\ missed' = lost

EnterArm ==
  /\ At("arm")
  /\ Arms(ToSet(wakeEvents) \cup ToSet(amlWakeEvents)) /\ GoTo("read")
  /\ UNCHANGED <<sts, working, lists, types, cnt, power, sleeps, polls, failed>>

\* The values of both registers are merged; the type is cleared.
Merged == [sci |-> cnt["a"].sci \/ cnt["b"].sci, typ |-> 0, slp |-> FALSE]

EnterRead ==
  /\ At("read")
  /\ call' = [op |-> "typ a", state |-> call.state, cnt |-> Merged]
  /\ UNCHANGED <<gpes, lists, types, cnt, power, sleeps, polls, missed, failed>>

\* value | type << 10 in a register whose bits 10-12 are SLP_TYP and whose bit
\* 13 is SLP_EN: nothing keeps a type within its three bits.
WithType(value, type) ==
  [value EXCEPT !.typ = type % 8, !.slp = value.slp \/ type >= 8]

TypeOp(s) == IF s = "a" THEN "typ a" ELSE "typ b"
SleepOp(s) == IF s = "a" THEN "slp a" ELSE "slp b"
WakeOp(s) == IF s = "a" THEN "wake a" ELSE "wake b"
After(op) ==
  CASE op = "typ a" -> "typ b" [] op = "typ b" -> "slp a" [] op = "slp a" -> "slp b"
    [] op = "slp b" -> "entered" [] op = "wake a" -> "wake b" [] op = "wake b" -> "wake"

EnterType_WithSleep(s) ==
  /\ At(TypeOp(s))
  /\ cnt' = [cnt EXCEPT ![s] = [WithType(call.cnt, slpTyp[Side(s)]) EXCEPT !.slp = TRUE]]
  /\ GoTo(After(call.op))
  /\ UNCHANGED <<gpes, lists, types, power, sleeps, polls, missed, failed>>
EnterType(s) ==
  /\ At(TypeOp(s))
  /\ cnt' = [cnt EXCEPT ![s] = WithType(call.cnt, slpTyp[Side(s)])]
  /\ GoTo(After(call.op))
  /\ UNCHANGED <<gpes, lists, types, power, sleeps, polls, missed, failed>>

EnterSleep(s) ==
  /\ At(SleepOp(s))
  /\ cnt' = [cnt EXCEPT ![s].slp = TRUE]
  /\ GoTo(After(call.op))
  /\ UNCHANGED <<gpes, lists, types, power, sleeps, polls, missed, failed>>

\* Both registers ask for sleep: the machine stops, unless an armed GPE is
\* pending or the hardware does not do it (then S4 and S5 time out).
FallAsleep ==
  /\ At("entered")
  /\ power' = IF call.state > 3 THEN "off" ELSE "asleep"
  /\ sts \cap en = {}
  /\ UNCHANGED <<gpes, lists, types, cnt, call, sleeps, polls, missed, failed>>

StayAwake ==
  /\ At("entered") /\ power = "on"
  /\ GoTo("woken")
  /\ UNCHANGED <<gpes, lists, types, cnt, power, sleeps, polls, missed, failed>>

\* All other accesses end the call where they fail. (After the events are armed
\* it is a write to the PM1 status, before the read of the control registers.)
EnterFails ==
  /\ call.op \in {"disable", "clear", "read", "typ a", "typ b", "slp a", "slp b"}
  /\ call' = NoCall /\ failed' = TRUE
  /\ UNCHANGED <<gpes, lists, types, cnt, power, sleeps, polls, missed>>

-----------------------------------------------------------------------------
(* prepare_for_wake and wake_from_state, which the host calls in turn      *)

\* SLP_EN reads as zero. Success is returned also where nothing was written: S0
\* has no type or a register cannot be read.
PrepareWake ==
  /\ At("woken") /\ power = "on"
  /\ \/ call' = [call EXCEPT !.op = "wake"]
     \/ /\ slpTypS0[1] # 255
        /\ call' = [op |-> "wake a", state |-> call.state, cnt |-> Merged]
  /\ cnt' = [s \in Sides |-> [cnt[s] EXCEPT !.slp = FALSE]]
  /\ UNCHANGED <<gpes, lists, types, power, sleeps, polls, missed, failed>>

\* A write that fails is not noticed.
WakeType(s) ==
  /\ At(WakeOp(s))
  /\ cnt' \in {cnt, [cnt EXCEPT ![s] = WithType(call.cnt, slpTypS0[Side(s)])]}
  /\ GoTo(After(call.op))
  /\ UNCHANGED <<gpes, lists, types, power, sleeps, polls, missed, failed>>

WakeDisable ==
  /\ At("wake")
  /\ en' = {} /\ GoTo("wake clear")
  /\ UNCHANGED <<sts, working, lists, types, cnt, power, sleeps, polls, missed, failed>>

WakeClear ==
  /\ At("wake clear")
  /\ sts' = {} /\ GoTo("wake arm")
  /\ UNCHANGED <<en, working, lists, types, cnt, power, sleeps, polls, missed, failed>>

WakeGpes_NoAml ==
  /\ At("wake arm")
  /\ Arms(native)
  /\ call' = NoCall /\ prepared' = 0 /\ failed' = FALSE
  /\ UNCHANGED <<sts, working, lists, slpTyp, slpTypS0, given, cnt, power, sleeps, polls>>
\* What has a handler is enabled, again with no look at failures; _WAK runs.
WakeGpes ==
  /\ At("wake arm")
  /\ Arms(native \cup aml)
  /\ call' = NoCall /\ prepared' = 0 /\ failed' = FALSE
  /\ UNCHANGED <<sts, working, lists, slpTyp, slpTypS0, given, cnt, power, sleeps, polls>>

\* With an access that fails wake_from_state returns, the events disabled or not.
WakeFails ==
  /\ call.op \in {"wake", "wake clear"}
  /\ call' = NoCall /\ failed' = TRUE
  /\ UNCHANGED <<gpes, lists, types, cnt, power, sleeps, polls, missed>>

\* A host whose call broke off may make the calls for waking to get its events back.
WakeAgain ==
  /\ Free /\ failed /\ prepared # 0
  /\ working = {} \/ "busy" \in HostMay
  /\ call' = [op |-> "woken", state |-> prepared, cnt |-> Merged]
  /\ UNCHANGED <<gpes, lists, types, cnt, power, sleeps, polls, missed, failed>>

-----------------------------------------------------------------------------
(* enable_acpi_mode: a command to the firmware, then SCI_EN is polled      *)

SciEn(c) == \E s \in Sides : c[s].sci

AcpiMode(on) ==
  /\ Free /\ SciEn(cnt) # on
  /\ call' = [op |-> "poll", state |-> 0, on |-> on, seen |-> FALSE]
  /\ polls' = 0
  /\ UNCHANGED <<gpes, lists, types, cnt, power, sleeps, missed, failed>>

Firmware ==
  /\ At("poll")
  /\ SciEn(cnt) # call.on
  /\ cnt' = [s \in Sides |-> [cnt[s] EXCEPT !.sci = call.on]]
  /\ UNCHANGED <<gpes, lists, types, power, call, sleeps, polls, missed, failed>>

Poll_Endless ==
  /\ At("poll") /\ ~call.seen
  /\ call' = [call EXCEPT !.seen = SciEn(cnt) = call.on]
  /\ UNCHANGED <<gpes, lists, types, cnt, power, sleeps, polls, missed, failed>>
\* One round of the loop: the time runs out also when the bit has just come.
Poll ==
  /\ At("poll") /\ ~call.seen
  /\ polls' = polls + 1
  /\ LET seen == SciEn(cnt) = call.on IN
       call' = IF polls + 1 = MaxPolls THEN [call EXCEPT !.op = "timed out", !.seen = seen]
               ELSE [call EXCEPT !.seen = seen]
  /\ UNCHANGED <<gpes, lists, types, cnt, power, sleeps, missed, failed>>

ModeDone ==
  /\ At("timed out") \/ (At("poll") /\ call.seen)
  /\ call' = NoCall /\ polls' = 0
  /\ UNCHANGED <<gpes, lists, types, cnt, power, sleeps, missed, failed>>

-----------------------------------------------------------------------------
EnterStep ==
  \/ EnterDisable \/ EnterClear \/ EnterArm \/ EnterRead \/ FallAsleep \/ StayAwake
  \/ \E s \in Sides : EnterType(s) \/ EnterSleep(s)

WakeStep ==
  \/ PrepareWake \/ (\E s \in Sides : WakeType(s))
  \/ WakeDisable \/ WakeClear \/ WakeGpes

Next ==
  \/ \E g \in All :
       \/ Enable(g) \/ Disable(g) \/ EnableForWake(g) \/ DisableForWake(g)
       \/ Raise(g) \/ Sci(g) \/ WorkDone(g)
  \/ \E s \in States : Prepare(s) \/ Enter(s)
  \/ PrepareFails \/ EnterStep \/ EnterFails \/ WakeStep \/ WakeFails \/ WakeAgain
  \/ \E on \in BOOLEAN : AcpiMode(on)
  \/ Firmware \/ Poll \/ ModeDone

Spec == Init /\ [][Next]_vars

\* A call that was made goes on.
FairSpec ==
  Spec /\ WF_vars(EnterStep) /\ WF_vars(WakeStep) /\ WF_vars(Poll) /\ WF_vars(ModeDone)

-----------------------------------------------------------------------------
(* Properties                                                              *)

Steps == {"none", "disable", "clear", "arm", "read", "typ a", "typ b", "slp a", "slp b",
          "entered", "woken", "wake a", "wake b", "wake", "wake clear", "wake arm",
          "poll", "timed out"}

\* The types of the state.
TypeOK ==
  /\ sts \subseteq All /\ en \subseteq All /\ working \subseteq All
  /\ native \subseteq Gpes /\ aml \subseteq AmlGpes /\ asked \subseteq All
  /\ missed \subseteq All
  /\ Len(wakeEvents) + Len(amlWakeEvents) <= MaxArmed
  /\ cnt \in [Sides -> [sci : BOOLEAN, typ : 0..7, slp : BOOLEAN]]
  /\ call.op \in Steps /\ power \in {"on", "asleep", "off"}
  /\ prepared \in {0} \cup States /\ sleeps <= MaxSleeps /\ polls <= MaxPolls

\* SLP_TYP has three bits; nothing cuts a larger type, which spills into SLP_EN.
ThreeBits(type) == type[1] < 8 /\ type[2] < 8

\* The machine sleeps in the state that was asked for: both registers hold the
\* types that AML gave for it, if they fit into SLP_TYP.
SleepsAsAsked ==
  power # "on" =>
    /\ prepared = call.state
    /\ \A s \in Sides : cnt[s].slp
    /\ ThreeBits(given) => \A s \in Sides : cnt[s].typ = given[Side(s)]

\* SLP_EN is not set in any register before both hold their type, and is clear
\* again afterwards, if the types fit; a call that broke off may leave it set.
NoEarlySleep ==
  ~failed /\ ThreeBits(given) => \A s \in Sides : cnt[s].slp =>
    /\ call.op \in {"slp b", "entered", "woken"}
    /\ \A r \in Sides : cnt[r].typ = given[Side(r)]

\* A sleeping machine is woken by the GPEs the host asked for and no others, but
\* for those whose enabling failed: of these enter_sleep_state says nothing.
ArmedAsAsked == power # "on" => en = asked \ missed

\* When the machine runs and no call is in progress, the GPEs with a handler
\* are enabled and no others, but for those whose work is pending and those whose
\* enabling failed. A call that broke off leaves them disabled, or the wake GPEs
\* armed, until wake_from_state has been called with success.
RuntimeRestored ==
  Free /\ ~failed => en = (native \cup aml) \ (working \cup missed)

\* enable_acpi_mode returns, whatever the firmware does.
ModeReturns == At("poll") ~> call = NoCall

\* The machine sleeps as the host asked: in the state it prepared, not before both
\* control registers have its type, and armed with the wake GPEs alone.
AsleepAsAsked == TypeOK /\ NoEarlySleep /\ SleepsAsAsked /\ ArmedAsAsked
=============================================================================
