----------------------------- MODULE PinConfig -----------------------------
(***************************************************************************)
(* Loading the pins of one device: loadPinConfiguration(),                 *)
(* loadPWMConfiguration() and checkPinExistsInConfig() of                  *)
(* src/src/pin/pin.c, called in this order by loadConfiguredDevices() of   *)
(* src/src/config/config.c.  One step handles one entry of a list.         *)
(*                                                                         *)
(* The device comes from malloc() and nothing sets numberOfPins before the *)
(* lists are loaded: it starts with whatever the memory held.  The pin     *)
(* list is stored by a counter of its own that starts at 0, the PWM list   *)
(* at numberOfPins, and the search for duplicates goes by numberOfPins.    *)
(*                                                                         *)
(* An access outside pins[], or through a pointer nobody stored, ends the  *)
(* behaviour (pc = "crashed") where the build cannot be relied on to       *)
(* survive it.                                                             *)
(***************************************************************************)
EXTENDS Integers, Sequences, FiniteSets

CONSTANTS
    MAX_PINS,       \* number of slots of pins[], pokey.h:14; pins are numbered 1 .. MAX_PINS
    CHANNELS,       \* number of PWM channels: 6
    PWM_BASE,       \* channel ch is on pin PWM_BASE - ch: 23
    Configs,        \* the configurations a behaviour may start from
    FirstCounts,    \* what the memory of numberOfPins may hold
    Missing,        \* a setting absent from an entry
    Garbage         \* a pointer nobody stored

DigitalTypes == {"DIGITAL_INPUT", "DIGITAL_OUTPUT"}

\* Entries of the two lists.  Of a name only its presence matters; every type that is not
\* digital is handled alike.
PinEntry == [pin : Int \cup {Missing}, type : DigitalTypes \cup {"other", Missing},
             named : BOOLEAN, default : Int \cup {Missing}]
PwmEntry == [channel : Int \cup {Missing}, dutyCycle : Int \cup {Missing}]

\* An absent list and an empty one are the same: NO_PINS.
Config == [pins : Seq(PinEntry), pwm : Seq(PwmEntry)]

\* device_port_t as the loaders fill it; both clear it first.
PortTypes == DigitalTypes \cup {"UKNOWN_PIN_TYPE", "PWM_INPUT"}
Port == [pin : Int, type : PortTypes, defaultValue : Int, dutyCycle : Int]

ASSUME ConstantsAssumption ==
    /\ MAX_PINS \in Nat \ {0}
    /\ CHANNELS \in Nat /\ PWM_BASE \in Nat
    /\ PWM_BASE - CHANNELS >= 1 /\ PWM_BASE - 1 <= MAX_PINS
    /\ Configs \subseteq Config
    /\ FirstCounts \subseteq Int
    /\ Missing \notin Int \cup DigitalTypes \cup {"other"}
    /\ Garbage \notin Port

VARIABLES
    pc,            \* "pins", "pwm": the list being loaded; "done", "crashed"
    config,        \* the entry of the device in the configuration
    firstCount,    \* what numberOfPins held before the lists were loaded
    i,             \* entries of the current list handled so far
    pinIndex,      \* loadPinConfiguration()'s own index into pins[]
    numberOfPins,
    pins

vars == <<pc, config, firstCount, i, pinIndex, numberOfPins, pins>>

-----------------------------------------------------------------------------
Slots == 0 .. MAX_PINS - 1

\* PwmPin: the chain of comparisons at pin.c:280-296.
PwmPin_OffByOne(channel) == PWM_BASE + 1 - channel
PwmPin(channel) == PWM_BASE - channel

TypeOf_Verbatim(type) == type
TypeOf(type) == IF type \in DigitalTypes THEN type ELSE "UKNOWN_PIN_TYPE"

\* The default is looked up, and then reset by the result of looking up the name.
DefaultOf(entry) == IF entry.named /\ entry.default # Missing THEN entry.default ELSE 0

PinPort(entry) ==
    [pin |-> entry.pin, type |-> TypeOf(entry.type),
     defaultValue |-> DefaultOf(entry), dutyCycle |-> 0]

PwmPort(entry) ==
    [pin |-> PwmPin(entry.channel), type |-> "PWM_INPUT", defaultValue |-> 0,
     dutyCycle |-> IF entry.dutyCycle # Missing THEN entry.dutyCycle ELSE 100]

\* checkPinExistsInConfig() reads the slots below numberOfPins.  A slot nobody stored to
\* may end the process or look like any pin.
Counted == 0 .. numberOfPins - 1

Stored(k) == k \in Slots /\ pins[k] # Garbage
Holding(pin) == {k \in Counted : Stored(k) /\ pins[k].pin = pin}
Stray(pin) == {k \in Counted : ~Stored(k) /\ \A l \in Holding(pin) : k < l}

MayExist(pin) == Holding(pin) # {} \/ Stray(pin) # {}
MayBeFree(pin) == Holding(pin) = {}

Init ==
    /\ pc = "pins"
    /\ config \in Configs
    /\ firstCount \in FirstCounts
    /\ i = 0 /\ pinIndex = 0
    /\ numberOfPins = firstCount
    /\ pins = [k \in Slots |-> Garbage]

-----------------------------------------------------------------------------
(* Steps. *)

Handling(list) == pc = list /\ i < Len(config[list])

\* The entry in turn: its pin, Missing if it names none, and the port it asks for.
Entry == config[pc][i + 1]
Channel(n) == n \in 1 .. CHANNELS
PinOf ==
    IF pc = "pins" THEN Entry.pin
    ELSE IF Channel(Entry.channel) THEN PwmPin(Entry.channel) ELSE Missing

Typed_Ignored == TRUE
Typed == pc = "pins" => Entry.type # Missing

\* Passed over: no pin or a channel that does not exist, a pin that is taken, or no type.
Skip ==
    /\ Handling("pins") \/ Handling("pwm")
    /\ PinOf = Missing \/ MayExist(PinOf) \/ (MayBeFree(PinOf) /\ ~Typed)
    /\ i' = i + 1
    /\ UNCHANGED <<pc, config, firstCount, pinIndex, numberOfPins, pins>>

StorePin ==
    /\ Handling("pins")
    /\ PinOf # Missing /\ MayBeFree(PinOf) /\ Typed
    /\ pinIndex \in Slots
    /\ pins' = [pins EXCEPT ![pinIndex] = PinPort(Entry)]
    /\ pinIndex' = pinIndex + 1
    /\ numberOfPins' = numberOfPins + 1
    /\ i' = i + 1
    /\ UNCHANGED <<pc, config, firstCount>>

PwmSlot_FromZero == i
PwmSlot == numberOfPins
StorePwm ==
    /\ Handling("pwm")
    /\ PinOf # Missing /\ MayBeFree(PinOf)
    /\ PwmSlot \in Slots
    /\ pins' = [pins EXCEPT ![PwmSlot] = PwmPort(Entry)]
    /\ numberOfPins' = numberOfPins + 1
    /\ i' = i + 1
    /\ UNCHANGED <<pc, config, firstCount, pinIndex>>

\* Reading a slot nobody stored to, or writing one that does not exist.
Crash ==
    /\ Handling("pins") \/ Handling("pwm")
    /\ PinOf # Missing
    /\ \/ Stray(PinOf) # {}
       \/ MayBeFree(PinOf) /\ Typed /\ pc = "pins" /\ pinIndex \notin Slots
       \/ MayBeFree(PinOf) /\ pc = "pwm" /\ PwmSlot \notin Slots
    /\ pc' = "crashed"
    /\ UNCHANGED <<config, firstCount, i, pinIndex, numberOfPins, pins>>

PinsDone ==
    /\ pc = "pins" /\ i = Len(config.pins)
    /\ pc' = "pwm" /\ i' = 0
    /\ UNCHANGED <<config, firstCount, pinIndex, numberOfPins, pins>>

PwmDone ==
    /\ pc = "pwm" /\ i = Len(config.pwm)
    /\ pc' = "done"
    /\ UNCHANGED <<config, firstCount, i, pinIndex, numberOfPins, pins>>

Next ==
    \/ Skip \/ StorePin \/ StorePwm \/ Crash \/ PinsDone \/ PwmDone

Spec == Init /\ [][Next]_vars

-----------------------------------------------------------------------------
(* Properties. *)

TypeOK ==
    /\ pc \in {"pins", "pwm", "done", "crashed"}
    /\ config \in Configs
    /\ firstCount \in FirstCounts
    /\ i \in Nat /\ pinIndex \in Nat /\ numberOfPins \in Int
    /\ pins \in [Slots -> Port \cup {Garbage}]

\* No pin has two ports, over both lists: checkPinExistsInConfig() keeps them out as long
\* as numberOfPins counts from 0.
NoDuplicatePins ==
    firstCount = 0 =>
        \A k, l \in Slots : Stored(k) /\ Stored(l) /\ pins[k].pin = pins[l].pin => k = l

\* pins[] is written without a bounds check, and a list may have any length.  With the pins
\* config.cfg:22 documents (1-55) it nevertheless never overflows, and no slot is read that
\* was not stored to: different pins are as many as there are slots.
DocumentedPins ==
    \A e \in 1 .. Len(config.pins) : config.pins[e].pin \in 1 .. MAX_PINS \cup {Missing}
DocumentedPinsFit == firstCount = 0 /\ DocumentedPins => pc # "crashed"

\* What the lists ask for, entry by entry: of the complete entries of a pin the first one,
\* and of the channels those whose pin no complete entry of the other list has.
Complete(e) == config.pins[e].pin # Missing /\ config.pins[e].type # Missing
FirstOfPin(e) ==
    Complete(e) /\ \A d \in 1 .. e - 1 : Complete(d) => config.pins[d].pin # config.pins[e].pin
FirstOfChannel(e) ==
    LET channel == config.pwm[e].channel IN
    /\ Channel(channel)
    /\ \A d \in 1 .. e - 1 : config.pwm[d].channel # channel
    /\ \A d \in 1 .. Len(config.pins) : Complete(d) => config.pins[d].pin # PwmPin(channel)

Handled == [pins |-> IF pc = "pins" THEN 1 .. i ELSE 1 .. Len(config.pins),
            pwm  |-> CASE pc = "pins" -> {}
                       [] pc = "pwm" -> 1 .. i
                       [] OTHER -> 1 .. Len(config.pwm)]

FirstPins == {e \in Handled.pins : FirstOfPin(e)}
FirstChannels == {e \in Handled.pwm : FirstOfChannel(e)}

Ports == {pins[k] : k \in Counted}

\* After every entry, the ports are those the entries so far ask for: an entry that is
\* incomplete never blocks a later one, a duplicate never replaces an earlier one.
LoadsFirstOfEachPin ==
    firstCount = 0 /\ pc # "crashed" =>
        Ports = {PinPort(config.pins[e]) : e \in FirstPins}
                \cup {PwmPort(config.pwm[e]) : e \in FirstChannels}

\* The loaders implement a table of ports with one port per pin.
Table == INSTANCE PortTable WITH ports <- IF firstCount = 0 THEN Ports ELSE {}
TableSpec == Table!Spec
=============================================================================
