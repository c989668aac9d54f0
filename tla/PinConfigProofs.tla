-------------------------- MODULE PinConfigProofs --------------------------
(***************************************************************************)
(* Proofs, for every table size, channel layout and configuration, of the  *)
(* properties of PinConfig and of its refinement of PortTable.             *)
(*                                                                         *)
(* The invariant says what the table looks like when numberOfPins counted  *)
(* from 0: stored below the count, empty above it, one port per pin, and a *)
(* port for every complete entry handled so far.                           *)
(***************************************************************************)
EXTENDS PinConfig, FiniteSetTheorems, TLAPS

\* Both indices into pins[] agree, and count what has been stored.
TableInv ==
    /\ numberOfPins \in 0 .. MAX_PINS
    /\ pc = "pins" => pinIndex = numberOfPins
    /\ \A k \in Slots : k < numberOfPins <=> Stored(k)
    /\ \A k, l \in Counted : pins[k].pin = pins[l].pin => k = l

\* Every entry that could be stored has a port on its pin.
Taken(pin) == \E k \in Counted : pins[k].pin = pin
CoveredInv ==
    pc # "crashed" =>
        /\ \A e \in Handled.pins : Complete(e) => Taken(config.pins[e].pin)
        /\ \A e \in Handled.pwm :
                Channel(config.pwm[e].channel) => Taken(PwmPin(config.pwm[e].channel))

RangeInv == DocumentedPins => \A k \in Counted : pins[k].pin \in 1 .. MAX_PINS

PositionInv ==
    /\ pc = "pins" => i <= Len(config.pins)
    /\ pc = "pwm" => i <= Len(config.pwm)

IInv ==
    /\ TypeOK /\ PositionInv
    /\ firstCount = 0 =>
        /\ TableInv /\ CoveredInv /\ RangeInv
        /\ LoadsFirstOfEachPin /\ DocumentedPinsFit

-----------------------------------------------------------------------------
(* Types. *)

LEMMA ConfigTypes ==
    ASSUME TypeOK
    PROVE  /\ config.pins \in Seq(PinEntry) /\ config.pwm \in Seq(PwmEntry)
           /\ Len(config.pins) \in Nat /\ Len(config.pwm) \in Nat
           /\ \A e \in 1 .. Len(config.pins) : config.pins[e] \in PinEntry
           /\ \A e \in 1 .. Len(config.pwm) : config.pwm[e] \in PwmEntry
<1>1. config \in Config
  BY ConstantsAssumption DEF TypeOK
<1>. QED  BY <1>1 DEF Config

\* A channel's pin is a documented one, and different channels have different pins.
LEMMA PwmPinRange ==
    ASSUME NEW c \in Int, Channel(c)
    PROVE  PwmPin(c) \in 1 .. MAX_PINS
BY ConstantsAssumption DEF Channel, PwmPin

LEMMA PwmPinInjective ==
    ASSUME NEW c, NEW d, Channel(c), Channel(d), PwmPin(c) = PwmPin(d)
    PROVE  c = d
BY ConstantsAssumption DEF Channel, PwmPin

LEMMA PinPortType ==
    ASSUME NEW entry \in PinEntry, entry.pin # Missing, entry.type # Missing
    PROVE  PinPort(entry) \in Port /\ PinPort(entry).pin = entry.pin
BY ConstantsAssumption
   DEF PinEntry, PinPort, Port, PortTypes, TypeOf, DefaultOf, DigitalTypes

LEMMA PwmPortType ==
    ASSUME NEW entry \in PwmEntry, Channel(entry.channel)
    PROVE  PwmPort(entry) \in Port /\ PwmPort(entry).pin = PwmPin(entry.channel)
<1>1. PwmPin(entry.channel) \in Int
  BY ConstantsAssumption DEF Channel, PwmPin
<1>. QED  BY <1>1, ConstantsAssumption DEF PwmEntry, PwmPort, Port, PortTypes

LEMMA HandlingEntry ==
    ASSUME TypeOK
    PROVE  /\ Handling("pins") => /\ Entry = config.pins[i + 1] /\ Entry \in PinEntry
                                  /\ PinOf = Entry.pin /\ i + 1 \in 1 .. Len(config.pins)
                                  /\ pc = "pins"
           /\ Handling("pwm") => /\ Entry = config.pwm[i + 1] /\ Entry \in PwmEntry
                                 /\ i + 1 \in 1 .. Len(config.pwm) /\ pc = "pwm"
                                 /\ PinOf # Missing => /\ Channel(Entry.channel)
                                                       /\ PinOf = PwmPin(Entry.channel)
                                 /\ PinOf = Missing => ~Channel(Entry.channel)
<1>1. i \in Nat
  BY DEF TypeOK
<1>2. ASSUME Handling("pins")
      PROVE  /\ Entry = config.pins[i + 1] /\ Entry \in PinEntry
             /\ PinOf = Entry.pin /\ i + 1 \in 1 .. Len(config.pins) /\ pc = "pins"
  BY <1>1, <1>2, ConfigTypes DEF Handling, Entry, PinOf
<1>3. ASSUME Handling("pwm")
      PROVE  /\ Entry = config.pwm[i + 1] /\ Entry \in PwmEntry
             /\ i + 1 \in 1 .. Len(config.pwm) /\ pc = "pwm"
             /\ PinOf # Missing => Channel(Entry.channel) /\ PinOf = PwmPin(Entry.channel)
  BY <1>1, <1>3, ConfigTypes DEF Handling, Entry, PinOf
<1>4. ASSUME Handling("pwm"), Channel(Entry.channel) PROVE PinOf # Missing
  <2>1. PwmPin(Entry.channel) \in Int
    BY <1>4, ConstantsAssumption DEF Channel, PwmPin
  <2>. QED  BY <1>4, <2>1, ConstantsAssumption DEF Handling, PinOf
<1>. QED  BY <1>2, <1>3, <1>4

LEMMA InitType == Init => TypeOK
BY ConstantsAssumption DEF Init, TypeOK, Slots

LEMMA NextType ==
    ASSUME TypeOK, [Next]_vars
    PROVE  TypeOK'
<1>1. ASSUME Skip PROVE TypeOK'
  BY <1>1 DEF Skip, TypeOK
<1>2. ASSUME StorePin PROVE TypeOK'
  <2>1. PinPort(Entry) \in Port
    BY <1>2, HandlingEntry, PinPortType DEF StorePin, Typed
  <2>. QED  BY <1>2, <2>1 DEF StorePin, TypeOK
<1>3. ASSUME StorePwm PROVE TypeOK'
  <2>1. PwmPort(Entry) \in Port
    BY <1>3, HandlingEntry, PwmPortType DEF StorePwm
  <2>. QED  BY <1>3, <2>1 DEF StorePwm, TypeOK
<1>4. ASSUME Crash PROVE TypeOK'
  BY <1>4 DEF Crash, TypeOK
<1>5. ASSUME PinsDone PROVE TypeOK'
  BY <1>5 DEF PinsDone, TypeOK
<1>6. ASSUME PwmDone PROVE TypeOK'
  BY <1>6 DEF PwmDone, TypeOK
<1>7. ASSUME UNCHANGED vars PROVE TypeOK'
  BY <1>7 DEF vars, TypeOK
<1>. QED  BY <1>1, <1>2, <1>3, <1>4, <1>5, <1>6, <1>7 DEF Next

LEMMA NextPosition ==
    ASSUME TypeOK, PositionInv, [Next]_vars
    PROVE  PositionInv'
<1>. USE DEF PositionInv
<1>0. i \in Nat /\ Len(config.pins) \in Nat /\ Len(config.pwm) \in Nat
  BY ConfigTypes DEF TypeOK
<1>1. ASSUME Handling("pins") \/ Handling("pwm"), i' = i + 1, UNCHANGED <<pc, config>>
      PROVE  PositionInv'
  BY <1>0, <1>1 DEF Handling
<1>. QED
  BY <1>0, <1>1 DEF Next, Skip, StorePin, StorePwm, Crash, PinsDone, PwmDone, vars

-----------------------------------------------------------------------------
(* The table. *)

\* The search for duplicates is exact: it reads stored slots only, and all of them.
LEMMA SearchIsExact ==
    ASSUME TypeOK, TableInv, NEW pin
    PROVE  /\ Stray(pin) = {}
           /\ MayExist(pin) <=> Taken(pin)
           /\ MayBeFree(pin) <=> ~Taken(pin)
<1>1. \A k \in Counted : Stored(k)
  BY ConstantsAssumption DEF TableInv, Counted, Slots
<1>. QED  BY <1>1 DEF Stray, MayExist, MayBeFree, Holding, Taken

LEMMA CountedPorts ==
    ASSUME TypeOK, TableInv, NEW k \in Counted
    PROVE  k \in Slots /\ pins[k] \in Port
BY ConstantsAssumption DEF TypeOK, TableInv, Counted, Slots, Stored

\* Storing a port on a pin that is not taken: the table gains exactly that port.
LEMMA StoreAddsPort ==
    ASSUME TypeOK, TableInv, NEW port \in Port, ~Taken(port.pin), numberOfPins \in Slots,
           pins' = [pins EXCEPT ![numberOfPins] = port],
           numberOfPins' = numberOfPins + 1, pc' = pc,
           pc = "pins" => pinIndex' = pinIndex + 1
    PROVE  /\ TableInv'
           /\ Ports' = Ports \cup {port} /\ port \notin Ports
           /\ \A pin : Taken(pin)' <=> Taken(pin) \/ pin = port.pin
<1>. DEFINE n == numberOfPins
<1>1. n \in 0 .. MAX_PINS - 1 /\ MAX_PINS \in Nat /\ port # Garbage
  BY ConstantsAssumption DEF Slots
<1>2. Counted' = Counted \cup {n} /\ n \notin Counted /\ Counted \subseteq Slots
  BY <1>1 DEF Counted, Slots
<1>3. pins'[n] = port /\ \A k \in Slots \ {n} : pins'[k] = pins[k]
  BY <1>1 DEF TypeOK, Slots
<1>4. \A k \in Counted : pins'[k] = pins[k]
  BY <1>2, <1>3
<1>5. \A k \in Slots : Stored(k)' <=> Stored(k) \/ k = n
  BY <1>1, <1>3 DEF Stored
<1>6. \A k, l \in Counted' : pins'[k].pin = pins'[l].pin => k = l
  BY <1>2, <1>3, <1>4 DEF TableInv, Taken
<1>7. TableInv'
  <2>1. numberOfPins' \in 0 .. MAX_PINS
    BY <1>1
  <2>2. \A k \in Slots : k < numberOfPins' <=> Stored(k)'
    <3>1. \A k \in Slots : k < n + 1 <=> k < n \/ k = n
      BY <1>1 DEF Slots
    <3>. QED  BY <1>5, <3>1 DEF TableInv
  <2>. QED  BY <1>6, <2>1, <2>2 DEF TableInv
<1>8. Ports' = Ports \cup {port}
  BY <1>2, <1>3, <1>4 DEF Ports
<1>9. port \notin Ports
  BY DEF Ports, Taken
<1>10. \A pin : Taken(pin)' <=> Taken(pin) \/ pin = port.pin
  BY <1>2, <1>3, <1>4 DEF Taken
<1>. QED  BY <1>7, <1>8, <1>9, <1>10

\* A table with one port per documented pin has room for every pin that is not taken.
LEMMA RoomForDocumentedPin ==
    ASSUME TypeOK, TableInv, RangeInv, DocumentedPins, NEW pin \in 1 .. MAX_PINS, ~Taken(pin)
    PROVE  numberOfPins \in Slots
<1>. DEFINE n == numberOfPins
            Holes == 1 .. MAX_PINS
            Pigeons == 0 .. n
            f == [k \in Pigeons |-> IF k < n THEN pins[k].pin ELSE pin]
<1>1. SUFFICES ASSUME n = MAX_PINS PROVE FALSE
  BY ConstantsAssumption DEF TableInv, Slots
<1>2. n \in Nat /\ \A k \in Pigeons : k < n => k \in Counted
  BY <1>1, ConstantsAssumption DEF Counted
<1>3. f \in [Pigeons -> Holes]
  <2>1. \A k \in Counted : pins[k].pin \in 1 .. MAX_PINS
    BY DEF RangeInv
  <2>. QED  BY <1>2, <2>1
<1>4. /\ IsFiniteSet(Pigeons) /\ Cardinality(Pigeons) = n + 1
      /\ IsFiniteSet(Holes) /\ Cardinality(Holes) = n
  <2>1. IsFiniteSet(0 .. n) /\ Cardinality(0 .. n) = n + 1
    BY <1>2, FS_Interval
  <2>2. IsFiniteSet(1 .. n) /\ Cardinality(1 .. n) = n
    BY <1>2, FS_Interval
  <2>. QED  BY <1>1, <2>1, <2>2
<1>5. PICK k, l \in Pigeons : k # l /\ f[k] = f[l]
  <2>. HIDE DEF Holes, Pigeons, f
  <2>1. Cardinality(Holes) < Cardinality(Pigeons)
    BY <1>2, <1>4
  <2>. QED  BY <1>3, <1>4, <2>1, FS_PigeonHole
<1>6. CASE k < n /\ l < n
  BY <1>2, <1>5, <1>6 DEF TableInv
<1>7. CASE ~(k < n /\ l < n)
  BY <1>2, <1>5, <1>7 DEF Taken
<1>. QED  BY <1>6, <1>7

-----------------------------------------------------------------------------
(* The steps. *)

Loaded == TableInv /\ CoveredInv /\ RangeInv /\ LoadsFirstOfEachPin /\ DocumentedPinsFit

LEMMA SkipKeepsLoaded ==
    ASSUME TypeOK, PositionInv, firstCount = 0, Loaded, Skip
    PROVE  Loaded'
<1>1. /\ UNCHANGED <<pc, config, firstCount, pinIndex, numberOfPins, pins>> /\ i' = i + 1
      /\ i \in Nat /\ pc \in {"pins", "pwm"}
  BY HandlingEntry DEF Skip, TypeOK
<1>2. UNCHANGED <<Counted, Ports>> /\ \A pin : Taken(pin)' <=> Taken(pin)
  BY <1>1 DEF Counted, Ports, Taken
<1>3. TableInv' /\ RangeInv'
  BY <1>1, <1>2 DEF Loaded, TableInv, RangeInv, DocumentedPins, Stored
<1>4. DocumentedPinsFit'
  BY <1>1 DEF DocumentedPinsFit
<1>5. PinOf = Missing \/ Taken(PinOf) \/ ~Typed
  BY SearchIsExact DEF Skip, Loaded
<1>6. CASE pc = "pins"
  <2>1. /\ Entry = config.pins[i + 1] /\ PinOf = Entry.pin
    BY <1>6, HandlingEntry DEF Skip, Handling
  <2>2. ~Complete(i + 1) \/ Taken(config.pins[i + 1].pin)
    BY <1>5, <1>6, <2>1 DEF Complete, Typed
  <2>3. Handled.pins = 1 .. i /\ Handled'.pins = 1 .. i + 1 /\ Handled.pwm = {} /\ Handled'.pwm = {}
    BY <1>1, <1>6 DEF Handled
  <2>4. ~FirstOfPin(i + 1)
    <3>1. SUFFICES ASSUME FirstOfPin(i + 1) PROVE FALSE
      OBVIOUS
    <3>2. PICK k \in Counted : pins[k].pin = config.pins[i + 1].pin
      BY <2>2, <3>1 DEF FirstOfPin, Taken
    <3>3. pins[k] \in {PinPort(config.pins[e]) : e \in FirstPins}
      BY <1>6, <2>3, CountedPorts DEF Loaded, LoadsFirstOfEachPin, Ports, FirstChannels
    <3>4. PICK e \in 1 .. i : FirstOfPin(e) /\ pins[k] = PinPort(config.pins[e])
      BY <2>3, <3>3 DEF FirstPins
    <3>. QED  BY <1>1, <3>1, <3>2, <3>4 DEF FirstOfPin, PinPort
  <2>5. FirstPins' = FirstPins /\ FirstChannels' = FirstChannels
    <3>1. \A e : FirstOfPin(e)' <=> FirstOfPin(e)
      BY <1>1 DEF FirstOfPin, Complete
    <3>. QED  BY <1>1, <2>3, <2>4, <3>1 DEF FirstPins, FirstChannels
  <2>6. LoadsFirstOfEachPin'
    BY <1>1, <1>2, <1>6, <2>5 DEF Loaded, LoadsFirstOfEachPin
  <2>7. CoveredInv'
    BY <1>1, <1>2, <1>6, <2>2, <2>3 DEF Loaded, CoveredInv, Complete
  <2>. QED  BY <1>3, <1>4, <2>6, <2>7 DEF Loaded
<1>7. CASE pc = "pwm"
  <2>1. /\ Entry = config.pwm[i + 1] /\ Typed
        /\ IF Channel(Entry.channel) THEN PinOf = PwmPin(Entry.channel) ELSE PinOf = Missing
    BY <1>7, HandlingEntry DEF Skip, Handling, Typed
  <2>2. Channel(config.pwm[i + 1].channel) => Taken(PwmPin(config.pwm[i + 1].channel))
    <3>1. ASSUME Channel(Entry.channel) PROVE PinOf # Missing
      BY <1>7, <3>1, HandlingEntry DEF Skip, Handling
    <3>. QED  BY <1>5, <2>1, <3>1
  <2>3. /\ Handled.pwm = 1 .. i /\ Handled'.pwm = 1 .. i + 1
        /\ Handled.pins = 1 .. Len(config.pins) /\ Handled'.pins = Handled.pins
    BY <1>1, <1>7 DEF Handled
  <2>4. ~FirstOfChannel(i + 1)
    <3>1. SUFFICES ASSUME FirstOfChannel(i + 1) PROVE FALSE
      OBVIOUS
    <3>2. PICK k \in Counted : pins[k].pin = PwmPin(config.pwm[i + 1].channel)
      BY <2>2, <3>1 DEF FirstOfChannel, Taken
    <3>3. \/ pins[k] \in {PinPort(config.pins[e]) : e \in FirstPins}
          \/ pins[k] \in {PwmPort(config.pwm[e]) : e \in FirstChannels}
      BY <1>7 DEF Loaded, LoadsFirstOfEachPin, Ports
    <3>4. ASSUME NEW e \in FirstPins, pins[k] = PinPort(config.pins[e]) PROVE FALSE
      BY <2>3, <3>1, <3>2, <3>4 DEF FirstPins, FirstOfPin, FirstOfChannel, PinPort
    <3>5. ASSUME NEW e \in FirstChannels, pins[k] = PwmPort(config.pwm[e]) PROVE FALSE
      <4>1. e \in 1 .. i /\ Channel(config.pwm[e].channel)
            /\ PwmPin(config.pwm[e].channel) = PwmPin(config.pwm[i + 1].channel)
        BY <2>3, <3>2, <3>5 DEF FirstChannels, FirstOfChannel, PwmPort
      <4>2. config.pwm[e].channel = config.pwm[i + 1].channel
        BY <3>1, <4>1, PwmPinInjective DEF FirstOfChannel
      <4>. QED  BY <1>1, <3>1, <4>1, <4>2 DEF FirstOfChannel
    <3>. QED  BY <3>3, <3>4, <3>5
  <2>5. FirstPins' = FirstPins /\ FirstChannels' = FirstChannels
    <3>1. \A e : FirstOfPin(e)' <=> FirstOfPin(e)
      BY <1>1 DEF FirstOfPin, Complete
    <3>2. \A e : FirstOfChannel(e)' <=> FirstOfChannel(e)
      BY <1>1 DEF FirstOfChannel, Complete
    <3>. QED  BY <1>1, <2>3, <2>4, <3>1, <3>2 DEF FirstPins, FirstChannels
  <2>6. LoadsFirstOfEachPin'
    BY <1>1, <1>2, <1>7, <2>5 DEF Loaded, LoadsFirstOfEachPin
  <2>7. CoveredInv'
    BY <1>1, <1>2, <1>7, <2>2, <2>3 DEF Loaded, CoveredInv, Complete
  <2>. QED  BY <1>3, <1>4, <2>6, <2>7 DEF Loaded
<1>. QED  BY <1>1, <1>6, <1>7

LEMMA StorePinKeepsLoaded ==
    ASSUME TypeOK, PositionInv, firstCount = 0, Loaded, StorePin
    PROVE  Loaded' /\ \E port \in Port : /\ port \notin Ports /\ Ports' = Ports \cup {port}
                                         /\ ~Taken(port.pin)
<1>. DEFINE port == PinPort(Entry)
<1>1. /\ UNCHANGED <<pc, config, firstCount>> /\ i' = i + 1 /\ i \in Nat /\ pc = "pins"
      /\ Entry = config.pins[i + 1] /\ PinOf = Entry.pin /\ i + 1 \in 1 .. Len(config.pins)
      /\ Entry \in PinEntry /\ Complete(i + 1)
  BY HandlingEntry DEF StorePin, TypeOK, Complete, Typed
<1>2. port \in Port /\ port.pin = Entry.pin /\ ~Taken(port.pin)
  BY <1>1, PinPortType, SearchIsExact DEF StorePin, Loaded, Complete
<1>3. /\ TableInv' /\ Ports' = Ports \cup {port} /\ port \notin Ports
      /\ \A pin : Taken(pin)' <=> Taken(pin) \/ pin = port.pin
  <2>1. /\ numberOfPins \in Slots /\ pins' = [pins EXCEPT ![numberOfPins] = port]
        /\ numberOfPins' = numberOfPins + 1 /\ pinIndex' = pinIndex + 1
    BY <1>1 DEF StorePin, Loaded, TableInv
  <2>. HIDE DEF port
  <2>. QED  BY <1>1, <1>2, <2>1, StoreAddsPort DEF Loaded
<1>4. /\ Handled.pins = 1 .. i /\ Handled'.pins = 1 .. i + 1
      /\ Handled.pwm = {} /\ Handled'.pwm = {}
  BY <1>1 DEF Handled
<1>5. FirstOfPin(i + 1)
  <2>1. ASSUME NEW d \in 1 .. i, Complete(d), config.pins[d].pin = config.pins[i + 1].pin
        PROVE  FALSE
    BY <1>1, <1>2, <1>4, <2>1 DEF Loaded, CoveredInv
  <2>. QED  BY <1>1, <2>1 DEF FirstOfPin
<1>6. FirstPins' = FirstPins \cup {i + 1} /\ FirstChannels' = {} /\ FirstChannels = {}
  <2>1. \A e : FirstOfPin(e)' <=> FirstOfPin(e)
    BY <1>1 DEF FirstOfPin, Complete
  <2>2. 1 .. i + 1 = (1 .. i) \cup {i + 1}
    BY <1>1
  <2>. QED  BY <1>4, <1>5, <2>1, <2>2 DEF FirstPins, FirstChannels
<1>7. LoadsFirstOfEachPin'
  <2>1. Ports = {PinPort(config.pins[e]) : e \in FirstPins}
    BY <1>1, <1>6 DEF Loaded, LoadsFirstOfEachPin
  <2>2. Ports' = {PinPort(config.pins[e]) : e \in FirstPins'}
    BY <1>1, <1>3, <1>6, <2>1
  <2>. QED  BY <1>1, <1>6, <2>2 DEF LoadsFirstOfEachPin
<1>8. CoveredInv'
  BY <1>1, <1>2, <1>3, <1>4 DEF Loaded, CoveredInv, Complete
<1>9. RangeInv'
  <2>1. SUFFICES ASSUME DocumentedPins, NEW k \in Counted' PROVE pins'[k].pin \in 1 .. MAX_PINS
    BY <1>1 DEF RangeInv, DocumentedPins
  <2>2. pins'[k] \in Ports \/ pins'[k] = port
    BY <1>3 DEF Ports
  <2>3. port.pin \in 1 .. MAX_PINS
    BY <1>1, <1>2, <2>1 DEF DocumentedPins, Complete
  <2>. QED  BY <2>1, <2>2, <2>3 DEF Loaded, RangeInv, Ports
<1>10. DocumentedPinsFit'
  BY <1>1 DEF DocumentedPinsFit
<1>. QED  BY <1>2, <1>3, <1>7, <1>8, <1>9, <1>10 DEF Loaded

LEMMA StorePwmKeepsLoaded ==
    ASSUME TypeOK, PositionInv, firstCount = 0, Loaded, StorePwm
    PROVE  Loaded' /\ \E port \in Port : /\ port \notin Ports /\ Ports' = Ports \cup {port}
                                         /\ ~Taken(port.pin)
<1>. DEFINE port == PwmPort(Entry)
            channel == config.pwm[i + 1].channel
<1>1. /\ UNCHANGED <<pc, config, firstCount>> /\ i' = i + 1 /\ i \in Nat /\ pc = "pwm"
      /\ Entry = config.pwm[i + 1] /\ PinOf = PwmPin(channel) /\ i + 1 \in 1 .. Len(config.pwm)
      /\ Entry \in PwmEntry /\ Channel(channel)
  BY HandlingEntry DEF StorePwm, TypeOK
<1>2. port \in Port /\ port.pin = PwmPin(channel) /\ ~Taken(port.pin)
  BY <1>1, PwmPortType, SearchIsExact DEF StorePwm, Loaded
<1>3. /\ TableInv' /\ Ports' = Ports \cup {port} /\ port \notin Ports
      /\ \A pin : Taken(pin)' <=> Taken(pin) \/ pin = port.pin
  <2>1. /\ numberOfPins \in Slots /\ pins' = [pins EXCEPT ![numberOfPins] = port]
        /\ numberOfPins' = numberOfPins + 1
    BY DEF StorePwm, PwmSlot
  <2>. HIDE DEF port
  <2>. QED  BY <1>1, <1>2, <2>1, StoreAddsPort DEF Loaded
<1>4. /\ Handled.pwm = 1 .. i /\ Handled'.pwm = (1 .. i) \cup {i + 1}
      /\ Handled.pins = 1 .. Len(config.pins) /\ Handled'.pins = Handled.pins
  BY <1>1 DEF Handled
<1>5. FirstOfChannel(i + 1)
  <2>1. ASSUME NEW d \in 1 .. i, config.pwm[d].channel = channel PROVE FALSE
    BY <1>1, <1>2, <1>4, <2>1 DEF Loaded, CoveredInv
  <2>2. ASSUME NEW d \in 1 .. Len(config.pins), Complete(d), config.pins[d].pin = PwmPin(channel)
        PROVE  FALSE
    BY <1>1, <1>2, <1>4, <2>2 DEF Loaded, CoveredInv
  <2>. QED  BY <1>1, <2>1, <2>2 DEF FirstOfChannel
<1>6. FirstPins' = FirstPins /\ FirstChannels' = FirstChannels \cup {i + 1}
  <2>1. \A e : FirstOfPin(e)' <=> FirstOfPin(e)
    BY <1>1 DEF FirstOfPin, Complete
  <2>2. \A e : FirstOfChannel(e)' <=> FirstOfChannel(e)
    BY <1>1 DEF FirstOfChannel, Complete
  <2>. QED  BY <1>4, <1>5, <2>1, <2>2 DEF FirstPins, FirstChannels
<1>7. LoadsFirstOfEachPin'
  <2>. DEFINE FromPins == {PinPort(config.pins[e]) : e \in FirstPins}
  <2>1. Ports = FromPins \cup {PwmPort(config.pwm[e]) : e \in FirstChannels}
    BY <1>1 DEF Loaded, LoadsFirstOfEachPin
  <2>2. {PwmPort(config.pwm[e]) : e \in FirstChannels \cup {i + 1}}
          = {PwmPort(config.pwm[e]) : e \in FirstChannels} \cup {port}
    BY <1>1
  <2>3. Ports' = FromPins \cup {PwmPort(config.pwm[e]) : e \in FirstChannels \cup {i + 1}}
    BY <1>3, <2>1, <2>2
  <2>. QED  BY <1>1, <1>6, <2>3 DEF LoadsFirstOfEachPin
<1>8. CoveredInv'
  BY <1>1, <1>2, <1>3, <1>4 DEF Loaded, CoveredInv, Complete
<1>9. RangeInv'
  <2>1. SUFFICES ASSUME DocumentedPins, NEW k \in Counted' PROVE pins'[k].pin \in 1 .. MAX_PINS
    BY <1>1 DEF RangeInv, DocumentedPins
  <2>2. pins'[k] \in Ports \/ pins'[k] = port
    BY <1>3 DEF Ports
  <2>3. port.pin \in 1 .. MAX_PINS
    BY <1>1, <1>2, PwmPinRange, ConstantsAssumption DEF Channel
  <2>. QED  BY <2>1, <2>2, <2>3 DEF Loaded, RangeInv, Ports
<1>10. DocumentedPinsFit'
  BY <1>1 DEF DocumentedPinsFit
<1>. QED  BY <1>2, <1>3, <1>7, <1>8, <1>9, <1>10 DEF Loaded

\* With documented pins nothing ends the process.
LEMMA DocumentedPinsDoNotCrash ==
    ASSUME TypeOK, Loaded, DocumentedPins, Crash
    PROVE  FALSE
<1>1. Stray(PinOf) = {} /\ (MayBeFree(PinOf) <=> ~Taken(PinOf))
  BY SearchIsExact DEF Loaded
<1>2. PinOf \in 1 .. MAX_PINS
  <2>1. CASE Handling("pins")
    BY <2>1, HandlingEntry DEF DocumentedPins, Crash
  <2>2. CASE Handling("pwm")
    BY <2>2, HandlingEntry, PwmPinRange, ConstantsAssumption DEF Crash, Channel
  <2>. QED  BY <2>1, <2>2 DEF Crash
<1>3. numberOfPins \in Slots
  BY <1>1, <1>2, RoomForDocumentedPin DEF Loaded, Crash
<1>. QED  BY <1>1, <1>3 DEF Crash, Loaded, TableInv, PwmSlot

LEMMA OthersKeepLoaded ==
    ASSUME TypeOK, PositionInv, firstCount = 0, Loaded,
           Crash \/ PinsDone \/ PwmDone \/ UNCHANGED vars
    PROVE  Loaded' /\ UNCHANGED Ports
<1>1. UNCHANGED <<config, firstCount, pinIndex, numberOfPins, pins>>
  BY DEF Crash, PinsDone, PwmDone, vars
<1>2. UNCHANGED <<Counted, Ports>> /\ \A pin : Taken(pin)' <=> Taken(pin)
  BY <1>1 DEF Counted, Ports, Taken
<1>3. (pc' = "pins" => pc = "pins") /\ TableInv' /\ RangeInv'
  BY <1>1, <1>2
     DEF Loaded, TableInv, RangeInv, DocumentedPins, Stored, Crash, PinsDone, PwmDone, vars
<1>4. DocumentedPinsFit'
  <2>1. DocumentedPins' <=> DocumentedPins
    BY <1>1 DEF DocumentedPins
  <2>. QED
    BY <1>1, <2>1, DocumentedPinsDoNotCrash
       DEF Loaded, DocumentedPinsFit, PinsDone, PwmDone, vars
<1>5. pc' # "crashed" => pc # "crashed" /\ UNCHANGED Handled
  <2>1. Len(config.pins) \in Nat /\ Len(config.pwm) \in Nat
    BY ConfigTypes
  <2>2. CASE Crash
    BY <2>2 DEF Crash
  <2>3. CASE PinsDone
    <3>1. Handled = [pins |-> 1 .. Len(config.pins), pwm |-> {}]
      BY <2>3 DEF Handled, PinsDone
    <3>2. Handled' = [pins |-> 1 .. Len(config.pins), pwm |-> 1 .. 0]
      BY <1>1, <2>3 DEF Handled, PinsDone
    <3>3. 1 .. 0 = {}
      OBVIOUS
    <3>. QED  BY <2>3, <3>1, <3>2, <3>3 DEF PinsDone
  <2>4. CASE PwmDone
    <3>1. Handled = [pins |-> 1 .. Len(config.pins), pwm |-> 1 .. Len(config.pwm)]
      BY <2>4 DEF Handled, PwmDone
    <3>2. Handled' = [pins |-> 1 .. Len(config.pins), pwm |-> 1 .. Len(config.pwm)]
      BY <1>1, <2>4 DEF Handled, PwmDone
    <3>. QED  BY <2>4, <3>1, <3>2 DEF PwmDone
  <2>5. CASE UNCHANGED vars
    BY <2>5 DEF vars, Handled
  <2>. QED  BY <2>2, <2>3, <2>4, <2>5
<1>6. CoveredInv'
  BY <1>1, <1>2, <1>5 DEF Loaded, CoveredInv, Complete
<1>7. LoadsFirstOfEachPin'
  <2>1. SUFFICES ASSUME pc' # "crashed" PROVE LoadsFirstOfEachPin'
    BY DEF LoadsFirstOfEachPin
  <2>2. FirstPins' = FirstPins /\ FirstChannels' = FirstChannels
    <3>1. \A e : FirstOfPin(e)' <=> FirstOfPin(e)
      BY <1>1 DEF FirstOfPin, Complete
    <3>2. \A e : FirstOfChannel(e)' <=> FirstOfChannel(e)
      BY <1>1 DEF FirstOfChannel, Complete
    <3>. QED  BY <1>5, <2>1, <3>1, <3>2 DEF FirstPins, FirstChannels
  <2>. QED  BY <1>1, <1>2, <1>5, <2>1, <2>2 DEF Loaded, LoadsFirstOfEachPin
<1>. QED  BY <1>2, <1>3, <1>4, <1>6, <1>7 DEF Loaded

-----------------------------------------------------------------------------
(* Theorems. *)

LEMMA InitIInv == Init => IInv
<1>1. ASSUME Init PROVE IInv
  <2>1. TypeOK
    BY <1>1, InitType
  <2>2. Len(config.pins) \in Nat /\ i = 0 /\ pc = "pins"
    BY <1>1, <2>1, ConfigTypes DEF Init
  <2>3. PositionInv
    BY <2>2 DEF PositionInv
  <2>4. ASSUME firstCount = 0 PROVE Loaded
    <3>1. numberOfPins = 0 /\ Counted = {} /\ Ports = {} /\ \A k \in Slots : ~Stored(k)
      BY <1>1, <2>4 DEF Init, Counted, Ports, Stored
    <3>2. Handled.pins = {} /\ Handled.pwm = {}
      BY <2>2 DEF Handled
    <3>3. TableInv
      BY <1>1, <3>1, ConstantsAssumption DEF Init, TableInv, Slots
    <3>4. LoadsFirstOfEachPin
      BY <3>1, <3>2 DEF LoadsFirstOfEachPin, FirstPins, FirstChannels
    <3>. QED  BY <2>2, <3>1, <3>2, <3>3, <3>4 DEF Loaded, CoveredInv, RangeInv, DocumentedPinsFit
  <2>. QED  BY <2>1, <2>3, <2>4 DEF IInv, Loaded
<1>. QED  BY <1>1

LEMMA NextIInv == IInv /\ [Next]_vars => IInv'
<1>1. ASSUME IInv, [Next]_vars PROVE IInv'
  <2>1. TypeOK' /\ PositionInv'
    BY <1>1, NextType, NextPosition DEF IInv
  <2>2. firstCount' = firstCount
    BY <1>1 DEF Next, Skip, StorePin, StorePwm, Crash, PinsDone, PwmDone, vars
  <2>3. ASSUME firstCount = 0 PROVE Loaded'
    BY <1>1, <2>3, SkipKeepsLoaded, StorePinKeepsLoaded, StorePwmKeepsLoaded, OthersKeepLoaded
       DEF IInv, Loaded, Next
  <2>. QED  BY <2>1, <2>2, <2>3 DEF IInv, Loaded
<1>. QED  BY <1>1

LEMMA IInvInvariant == Spec => []IInv
BY InitIInv, NextIInv, PTL DEF Spec

\* Every variable keeps its type: pins[] holds ports the lists asked for and nothing else.
THEOREM TypeCorrect == Spec => []TypeOK
BY IInvInvariant, PTL DEF IInv

\* No pin gets two ports, over both lists (pin.c:138-148).
THEOREM PinsAreUnique == Spec => []NoDuplicatePins
<1>1. IInv => NoDuplicatePins
  BY DEF IInv, Loaded, TableInv, NoDuplicatePins, Counted, Slots, Stored
<1>. QED  BY <1>1, IInvInvariant, PTL

\* The unchecked writes to pins[] stay inside however long the lists are, if their pins are
\* documented ones: a full table has a port on every pin (pin.c:231, pin.c:325).
THEOREM DocumentedPinsAreSafe == Spec => []DocumentedPinsFit
<1>1. IInv => DocumentedPinsFit
  BY DEF IInv, DocumentedPinsFit
<1>. QED  BY <1>1, IInvInvariant, PTL

\* After every entry the table holds exactly the ports of the first complete entry of each
\* pin (pin.c:174-233, pin.c:266-327).
THEOREM FirstEntriesAreLoaded == Spec => []LoadsFirstOfEachPin
<1>1. IInv => LoadsFirstOfEachPin
  BY DEF IInv, LoadsFirstOfEachPin
<1>. QED  BY <1>1, IInvInvariant, PTL

\* The loaders implement the abstract table of ports: a step of theirs adds one port on a
\* free pin, or changes nothing.
THEOREM ImplementsPortTable == Spec => TableSpec
<1>. DEFINE ports == IF firstCount = 0 THEN Ports ELSE {}
<1>1. Init => Table!Init
  BY DEF Init, Table!Init, Ports, Counted
<1>2. IInv /\ [Next]_vars => [Table!Accept]_ports
  <2>1. ASSUME IInv, [Next]_vars PROVE Table!Accept \/ UNCHANGED ports
    <3>1. firstCount' = firstCount
      BY <2>1 DEF Next, Skip, StorePin, StorePwm, Crash, PinsDone, PwmDone, vars
    <3>2. CASE firstCount # 0
      BY <3>1, <3>2
    <3>3. CASE firstCount = 0 /\ Skip
      BY <3>1, <3>3 DEF Skip, Ports, Counted
    <3>4. CASE firstCount = 0 /\ (StorePin \/ StorePwm)
      <4>1. PICK port \in Port : /\ port \notin Ports /\ Ports' = Ports \cup {port}
                                 /\ ~Taken(port.pin)
        BY <2>1, <3>4, StorePinKeepsLoaded, StorePwmKeepsLoaded DEF IInv, Loaded
      <4>2. \A other \in Ports : other.pin # port.pin
        BY <4>1 DEF Ports, Taken
      <4>3. port \in Ports' \ Ports
        BY <4>1
      <4>. QED  BY <3>1, <3>4, <4>1, <4>2, <4>3 DEF Table!Accept
    <3>5. CASE firstCount = 0 /\ (Crash \/ PinsDone \/ PwmDone \/ UNCHANGED vars)
      BY <2>1, <3>1, <3>5, OthersKeepLoaded DEF IInv, Loaded
    <3>. QED  BY <2>1, <3>2, <3>3, <3>4, <3>5 DEF Next
  <2>. QED  BY <2>1
<1>. QED  BY <1>1, <1>2, IInvInvariant, PTL DEF Spec, TableSpec, Table!Spec

=============================================================================
