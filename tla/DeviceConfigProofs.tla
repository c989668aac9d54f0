------------------------- MODULE DeviceConfigProofs -------------------------
(***************************************************************************)
(* Proofs, for any board and any list of ports that PinConfig can load, of *)
(* the safety properties of DeviceConfig.  The invariant says that valid   *)
(* has exactly the ports the board supports, that the mirror is as the     *)
(* board reported it until ports are applied, and that the PWM block is    *)
(* one of some valid port, whatever its unwritten bytes.                   *)
(***************************************************************************)
EXTENDS DeviceConfig, TLAPS

\* The position in the list of ports.
PlaceInv ==
    /\ pc = "refresh" => i = 0
    /\ pc = "done" => i = Len(device.ports)

\* Checked ports are valid as the board supports them, and others are not yet.
ValidInv ==
    /\ pc \in {"refresh", "check"} =>
        \A k \in Ports : valid[k] <=> k <= i /\ Supports(device.ports[k])
    /\ pc \in {"apply", "done"} => \A k \in Ports : valid[k] <=> Supports(device.ports[k])
    /\ pc = "crashed" => \A k \in Ports : valid[k] => Supports(device.ports[k])

\* Nothing is set before ports are applied.
MirrorInv == pc \in {"refresh", "check"} => mirror = reported

OutputInv == \A p \in Pins : output[p] # Unset => "digitalOutput" \in device.capable[p]

\* A block that a port sends, whatever the bytes it does not write.
IsBlockOf(block, port) ==
    \E stray \in SUBSET Channels :
        block = [enabled |-> {ChannelOf(port)} \cup stray,
                 duty |-> [ch \in Channels |-> IF ch = ChannelOf(port) THEN DutyOf(port) ELSE Unset]]
PwmInv ==
    \/ pwm = NoBlock
    \/ \E k \in Ports :
        /\ device.ports[k].type = "PWM_INPUT" /\ device.ports[k].dutyCycle # 0
        /\ valid[k] /\ IsBlockOf(pwm, device.ports[k])

IInv == TypeOK /\ PlaceInv /\ ValidInv /\ MirrorInv /\ AppliedAsAsked /\ OutputInv /\ PwmInv

-----------------------------------------------------------------------------
(* Facts about devices and blocks. *)

LEMMA DeviceFacts ==
  ASSUME TypeOK
  PROVE  /\ device.ports \in Seq(Port) /\ Len(device.ports) \in Nat /\ Ports = 1 .. Len(device.ports)
         /\ device.capable \in [Pins -> SUBSET Capabilities]
         /\ \A k \in Ports : device.ports[k] \in Port
         /\ \A k, l \in Ports : device.ports[k].pin = device.ports[l].pin => k = l
         /\ \A k \in Ports : device.ports[k].type = "PWM_INPUT" =>
                PWM_BASE - device.ports[k].pin \in 1 .. CHANNELS
<1>1. device \in Device /\ PinsDiffer(device) /\ PwmOnChannels(device)
  BY ConstantsAssumption DEF TypeOK
<1>2. device.ports \in Seq(Port) /\ device.capable \in [Pins -> SUBSET Capabilities]
  BY <1>1 DEF Device, Pins
<1>3. Len(device.ports) \in Nat /\ \A k \in Ports : device.ports[k] \in Port
  BY <1>2 DEF Ports
<1>. QED  BY <1>1, <1>2, <1>3 DEF Ports, PinsDiffer, PwmOnChannels

\* The port handled next.
LEMMA CurrentFacts ==
  ASSUME TypeOK, i < Len(device.ports)
  PROVE  /\ i \in Nat /\ i + 1 \in Ports /\ Current = device.ports[i + 1] /\ Current \in Port
         /\ \A k \in 1 .. i : k \in Ports /\ device.ports[k].pin # Current.pin
         /\ 1 .. (i + 1) = 1 .. i \cup {i + 1}
<1>1. i \in Nat /\ Len(device.ports) \in Nat /\ Ports = 1 .. Len(device.ports)
  BY DeviceFacts DEF TypeOK
<1>2. i + 1 \in Ports /\ (\A k \in 1 .. i : k \in Ports /\ k # i + 1)
      /\ 1 .. (i + 1) = 1 .. i \cup {i + 1}
  BY <1>1
<1>. QED  BY <1>1, <1>2, DeviceFacts DEF Current

\* A duty cycle with a positive denominator is within the period.
LEMMA QuotientBound ==
  ASSUME NEW a \in Nat, NEW b \in Nat, b > 0
  PROVE  a \div b \in Nat /\ a \div b <= a
<1>1. a \div b \in Int /\ a % b \in 0 .. b - 1 /\ a = b * (a \div b) + (a % b)
  OBVIOUS
<1>. DEFINE q == a \div b
<1>2. q \in Int /\ b * q > -b /\ b * q <= a
  BY <1>1
<1>. HIDE DEF q
<1>3. q >= 0
  BY <1>2
<1>4. q <= b * q
  BY <1>2, <1>3
<1>5. q <= a
  BY <1>2, <1>4
<1>. QED  BY <1>2, <1>3, <1>5 DEF q

LEMMA DutyFacts ==
  ASSUME NEW port \in Port, port.dutyCycle # 0
  PROVE  /\ DutyOf(port) \in 0 .. WORD - 1
         /\ port.dutyCycle > 0 =>
                DutyOf(port) = PWM_CLOCK \div port.dutyCycle /\ DutyOf(port) <= PWM_CLOCK
<1>1. port.dutyCycle \in Int
  BY DEF Port
<1>2. CASE port.dutyCycle > 0
  <2>1. PWM_CLOCK \div port.dutyCycle \in Nat /\ PWM_CLOCK \div port.dutyCycle <= PWM_CLOCK
    BY <1>1, <1>2, QuotientBound, ConstantsAssumption
  <2>. QED  BY <1>2, <2>1, ConstantsAssumption DEF DutyOf
<1>3. CASE port.dutyCycle < 0
  <2>. DEFINE d == -port.dutyCycle
              q == PWM_CLOCK \div d
  <2>1. d \in Nat /\ d > 0
    BY <1>1, <1>3
  <2>2. q \in Nat
    BY <2>1, QuotientBound, ConstantsAssumption
  <2>3. DutyOf(port) = (-q) % WORD
    BY <1>1, <1>3 DEF DutyOf
  <2>. HIDE DEF q
  <2>4. (-q) % WORD \in 0 .. WORD - 1
    BY <2>2, ConstantsAssumption
  <2>. QED  BY <1>1, <1>3, <2>3, <2>4
<1>. QED  BY <1>1, <1>2, <1>3

LEMMA BlockType ==
  ASSUME NEW port \in Port, port.dutyCycle # 0, ChannelOf(port) \in Channels,
         NEW block, IsBlockOf(block, port)
  PROVE  block \in Block
<1>1. DutyOf(port) \in 0 .. WORD - 1
  BY DutyFacts
<1>. QED  BY <1>1 DEF IsBlockOf, Block

-----------------------------------------------------------------------------
(* The invariant is inductive. *)

LEMMA InitIInv == Init => IInv
<1>. SUFFICES ASSUME Init  PROVE IInv
  OBVIOUS
<1>1. device \in Devices /\ device.ports \in Seq(Port)
  BY ConstantsAssumption DEF Init, Device
<1>2. Len(device.ports) \in Nat
  BY <1>1
<1>3. TypeOK
  BY <1>1, <1>2 DEF Init, TypeOK, PinFunctions
<1>4. PlaceInv /\ MirrorInv /\ AppliedAsAsked /\ OutputInv /\ PwmInv
  BY DEF Init, PlaceInv, MirrorInv, AppliedAsAsked, OutputInv, PwmInv
<1>5. ValidInv
  BY <1>2 DEF Init, ValidInv, Ports
<1>. QED  BY <1>3, <1>4, <1>5 DEF IInv

LEMMA RefreshIInv == ASSUME IInv, Refresh  PROVE IInv'
<1>1. TypeOK'
  BY DEF IInv, TypeOK, Refresh, PinFunctions, Ports
<1>2. PlaceInv' /\ MirrorInv' /\ AppliedAsAsked' /\ OutputInv'
  BY DEF IInv, PlaceInv, MirrorInv, AppliedAsAsked, OutputInv, Refresh
<1>3. ValidInv'
  BY <1>1, DeviceFacts DEF IInv, PlaceInv, ValidInv, Refresh, Ports
<1>4. PwmInv'
  BY DEF IInv, PwmInv, Refresh, Ports
<1>. QED  BY <1>1, <1>2, <1>3, <1>4 DEF IInv

LEMMA CheckIInv == ASSUME IInv, Check  PROVE IInv'
<1>1. /\ pc = "check" /\ pc' = "check" /\ i' = i + 1 /\ i < Len(device.ports)
      /\ valid' = [valid EXCEPT ![i + 1] = @ \/ Supports(Current)]
      /\ UNCHANGED <<device, reported, mirror, output, pwm>> /\ Ports' = Ports
  BY DEF Check, Handling, Ports
<1>2. /\ i \in Nat /\ Len(device.ports) \in Nat /\ i + 1 \in Ports
      /\ Current = device.ports[i + 1] /\ Ports = 1 .. Len(device.ports)
  BY <1>1, CurrentFacts, DeviceFacts DEF IInv
<1>3. Supports(Current) \in BOOLEAN /\ valid \in [Ports -> BOOLEAN]
  BY DEF Supports, IInv, TypeOK
<1>4. valid' \in [Ports -> BOOLEAN]
  BY <1>1, <1>3
<1>5. TypeOK'
  BY <1>1, <1>2, <1>4 DEF IInv, TypeOK, Pins
<1>6. PlaceInv' /\ MirrorInv' /\ AppliedAsAsked' /\ OutputInv'
  BY <1>1 DEF IInv, PlaceInv, MirrorInv, AppliedAsAsked, OutputInv, Pins
<1>7. ASSUME NEW k \in Ports  PROVE valid'[k] <=> k <= i + 1 /\ Supports(device.ports[k])
  <2>1. CASE k = i + 1
    <3>1. valid'[k] <=> valid[k] \/ Supports(Current)
      BY <1>1, <1>2, <1>3, <2>1
    <3>2. valid[k] => Supports(Current)
      BY <1>1, <1>2, <2>1 DEF IInv, ValidInv
    <3>. QED  BY <1>2, <2>1, <3>1, <3>2
  <2>2. CASE k # i + 1
    <3>1. valid'[k] = valid[k]
      BY <1>1, <1>3, <2>2
    <3>2. k <= i <=> k <= i + 1
      BY <1>2, <2>2
    <3>. QED  BY <1>1, <3>1, <3>2 DEF IInv, ValidInv
  <2>. QED  BY <2>1, <2>2
<1>8. ValidInv'
  BY <1>1, <1>7 DEF ValidInv, Supports, Pins
<1>9. PwmInv'
  <2>1. \A k \in Ports : valid[k] => valid'[k]
    BY <1>1, <1>3
  <2>. QED  BY <1>1, <2>1 DEF IInv, PwmInv
<1>. QED  BY <1>5, <1>6, <1>8, <1>9 DEF IInv

LEMMA CheckDoneIInv == ASSUME IInv, CheckDone  PROVE IInv'
<1>1. /\ pc = "check" /\ pc' = "apply" /\ i' = 0 /\ i = Len(device.ports)
      /\ UNCHANGED <<device, valid, reported, mirror, output, pwm>> /\ Ports' = Ports
  BY DEF CheckDone, Ports
<1>2. Len(device.ports) \in Nat /\ Ports = 1 .. Len(device.ports)
  BY DeviceFacts DEF IInv
<1>3. TypeOK' /\ PlaceInv' /\ MirrorInv' /\ OutputInv' /\ PwmInv'
  BY <1>1, <1>2 DEF IInv, TypeOK, PlaceInv, MirrorInv, OutputInv, PwmInv, Pins
<1>4. ValidInv'
  BY <1>1, <1>2 DEF IInv, ValidInv, Supports, Pins
<1>5. AppliedAsAsked'
  BY <1>1 DEF IInv, MirrorInv, AppliedAsAsked, Applied, Pins
<1>. QED  BY <1>3, <1>4, <1>5 DEF IInv

\* A crash only stops the process.
LEMMA CrashIInv ==
  ASSUME IInv, CheckCrash \/ ApplyCrash
  PROVE  IInv'
<1>1. /\ pc \in {"check", "apply"} /\ pc' = "crashed"
      /\ UNCHANGED <<device, i, valid, reported, mirror, output, pwm>> /\ Ports' = Ports
  BY DEF CheckCrash, ApplyCrash, Handling, Ports
<1>2. TypeOK' /\ PlaceInv' /\ MirrorInv' /\ AppliedAsAsked' /\ OutputInv' /\ PwmInv'
  BY <1>1 DEF IInv, TypeOK, PlaceInv, MirrorInv, AppliedAsAsked, OutputInv, PwmInv, Pins
<1>3. \A k \in Ports : valid[k] => Supports(device.ports[k])
  BY <1>1 DEF IInv, ValidInv
<1>4. ValidInv'
  BY <1>1, <1>3 DEF ValidInv, Supports, Pins
<1>. QED  BY <1>2, <1>4 DEF IInv

\* What a port in its turn has to do to the mirror.
LEMMA AppliedStep ==
  ASSUME IInv, pc = "apply", i < Len(device.ports),
         pc' = pc, i' = i + 1, UNCHANGED <<device, reported>>,
         \A p \in Pins : p # Current.pin => mirror'[p] = mirror[p],
         Current.pin \in Pins /\ mirror[Current.pin] = reported[Current.pin] =>
            mirror'[Current.pin] = Asked(Current)
  PROVE  AppliedAsAsked'
<1>1. /\ i + 1 \in Ports /\ Current = device.ports[i + 1] /\ 1 .. (i + 1) = 1 .. i \cup {i + 1}
      /\ \A k \in 1 .. i : k \in Ports /\ device.ports[k].pin # Current.pin
  BY CurrentFacts DEF IInv
<1>2. Applied = 1 .. i /\ Applied' = 1 .. i \cup {i + 1}
  BY <1>1 DEF Applied
<1>3. \A k \in Ports : Asked(device.ports[k])' = Asked(device.ports[k])
  BY DEF Asked, Supports, Pins
<1>4. ASSUME NEW p \in Pins
      PROVE  \/ \E k \in Applied' : device.ports[k].pin = p /\ mirror'[p] = Asked(device.ports[k])
             \/ (\A k \in Applied' : device.ports[k].pin # p) /\ mirror'[p] = reported[p]
  <2>1. CASE p = Current.pin
    <3>1. mirror[p] = reported[p]
      BY <1>1, <1>2, <2>1 DEF IInv, AppliedAsAsked
    <3>2. mirror'[p] = Asked(Current)
      BY <2>1, <3>1
    <3>. QED  BY <1>1, <1>2, <2>1, <3>2
  <2>2. CASE p # Current.pin
    <3>1. mirror'[p] = mirror[p]
      BY <2>2
    <3>2. \/ \E k \in Applied : device.ports[k].pin = p /\ mirror[p] = Asked(device.ports[k])
          \/ (\A k \in Applied : device.ports[k].pin # p) /\ mirror[p] = reported[p]
      BY DEF IInv, AppliedAsAsked
    <3>. QED  BY <1>1, <1>2, <2>2, <3>1, <3>2
  <2>. QED  BY <2>1, <2>2
<1>5. \A k \in Applied' : k \in Ports
  BY <1>1, <1>2
<1>. QED  BY <1>3, <1>4, <1>5 DEF AppliedAsAsked, Pins

\* The conjuncts that a step of the second loop leaves alone.
LEMMA ApplyingKeeps ==
  ASSUME IInv, pc = "apply", pc' = pc, i < Len(device.ports), i' = i + 1,
         UNCHANGED <<device, valid, reported>>
  PROVE  /\ PlaceInv' /\ ValidInv' /\ MirrorInv'
         /\ i' \in 0 .. Len(device.ports) /\ Ports' = Ports
         /\ UNCHANGED pwm => PwmInv'
         /\ UNCHANGED output => OutputInv'
<1>1. Ports' = Ports /\ i \in Nat /\ Len(device.ports) \in Nat
  BY CurrentFacts, DeviceFacts DEF IInv, Ports
<1>2. PlaceInv' /\ MirrorInv' /\ i' \in 0 .. Len(device.ports)
  BY <1>1 DEF PlaceInv, MirrorInv
<1>3. ValidInv'
  BY <1>1 DEF IInv, ValidInv, Supports, Pins
<1>4. (UNCHANGED pwm => PwmInv') /\ (UNCHANGED output => OutputInv')
  BY <1>1 DEF IInv, PwmInv, OutputInv, Pins
<1>. QED  BY <1>1, <1>2, <1>3, <1>4

\* A port that sets the function of its pin.
LEMMA SetIInv ==
  ASSUME IInv, NEW function \in {"reserved", "digitalInput", "digitalOutput"},
         pc = "apply", pc' = pc, i < Len(device.ports), i' = i + 1,
         Asked(Current) = function, SetFunction(function),
         UNCHANGED <<device, valid, reported, pwm>>,
         output' \in [Pins -> {0, Unset}], OutputInv'
  PROVE  IInv'
<1>1. mirror' = IF Current.pin \in Pins THEN [mirror EXCEPT ![Current.pin] = function] ELSE mirror
  BY DEF SetFunction, MirrorPin
<1>2. mirror \in [Pins -> PinFunctions]
  BY DEF IInv, TypeOK
<1>3. TypeOK'
  BY <1>1, <1>2, ApplyingKeeps DEF IInv, TypeOK, PinFunctions, Pins
<1>4. AppliedAsAsked'
  BY <1>1, <1>2, AppliedStep
<1>. QED  BY <1>3, <1>4, ApplyingKeeps DEF IInv

LEMMA ReserveIInv == ASSUME IInv, Reserve  PROVE IInv'
<1>1. /\ pc = "apply" /\ pc' = pc /\ i < Len(device.ports) /\ i' = i + 1 /\ ~valid[i + 1]
      /\ SetFunction("reserved") /\ UNCHANGED <<device, valid, reported, output, pwm>>
  BY DEF Reserve, Handling
<1>2. Asked(Current) = "reserved"
  BY <1>1, CurrentFacts DEF IInv, ValidInv, Asked
<1>3. output' \in [Pins -> {0, Unset}] /\ OutputInv'
  BY <1>1, ApplyingKeeps DEF IInv, TypeOK
<1>. QED  BY <1>1, <1>2, <1>3, SetIInv

LEMMA ApplyInputIInv == ASSUME IInv, ApplyInput  PROVE IInv'
<1>1. /\ pc = "apply" /\ pc' = pc /\ i < Len(device.ports) /\ i' = i + 1 /\ valid[i + 1]
      /\ Current.type = "DIGITAL_INPUT"
      /\ SetFunction("digitalInput") /\ UNCHANGED <<device, valid, reported, output, pwm>>
  BY DEF ApplyInput, Handling
<1>2. Asked(Current) = "digitalInput"
  BY <1>1, CurrentFacts DEF IInv, ValidInv, Asked
<1>3. output' \in [Pins -> {0, Unset}] /\ OutputInv'
  BY <1>1, ApplyingKeeps DEF IInv, TypeOK
<1>. QED  BY <1>1, <1>2, <1>3, SetIInv

LEMMA ApplyOutputIInv == ASSUME IInv, ApplyOutput  PROVE IInv'
<1>1. /\ pc = "apply" /\ pc' = pc /\ i < Len(device.ports) /\ i' = i + 1 /\ valid[i + 1]
      /\ Current.type = "DIGITAL_OUTPUT"
      /\ SetFunction("digitalOutput") /\ UNCHANGED <<device, valid, reported, pwm>>
      /\ output' = [output EXCEPT ![Current.pin] = 0]
  BY DEF ApplyOutput, Handling, MirrorPin
<1>2. Supports(Current)
  BY <1>1, CurrentFacts DEF IInv, ValidInv
<1>3. Asked(Current) = "digitalOutput"
  BY <1>1, <1>2 DEF Asked
<1>4. Current.pin \in Pins /\ "digitalOutput" \in device.capable[Current.pin]
  BY <1>1, <1>2 DEF Supports, Needed
<1>5. output' \in [Pins -> {0, Unset}] /\ OutputInv'
  BY <1>1, <1>4 DEF IInv, TypeOK, OutputInv, Pins
<1>. QED  BY <1>1, <1>3, <1>5, SetIInv

LEMMA ApplyPwmIInv == ASSUME IInv, ApplyPwm  PROVE IInv'
<1>1. /\ pc = "apply" /\ pc' = pc /\ i < Len(device.ports) /\ i' = i + 1 /\ valid[i + 1]
      /\ Current.type = "PWM_INPUT" /\ Current.dutyCycle # 0
      /\ UNCHANGED <<device, valid, reported, mirror, output>>
      /\ IsBlockOf(pwm', Current)
  BY DEF ApplyPwm, Handling, IsBlockOf
<1>2. i + 1 \in Ports /\ Current = device.ports[i + 1] /\ Current \in Port
  BY <1>1, CurrentFacts DEF IInv
<1>3. TypeOK'
  <2>1. pwm' \in Block
    BY <1>1, <1>2, BlockType, DeviceFacts DEF IInv, ChannelOf, Channels
  <2>. QED  BY <1>1, <2>1, ApplyingKeeps DEF IInv, TypeOK, Pins
<1>4. Current.pin \in Pins /\ mirror[Current.pin] = reported[Current.pin]
        => Asked(Current) = mirror[Current.pin]
  BY <1>1, <1>2 DEF IInv, ValidInv, Asked
<1>5. AppliedAsAsked'
  BY <1>1, <1>4, AppliedStep
<1>6. PwmInv'
  BY <1>1, <1>2, ApplyingKeeps DEF PwmInv, IsBlockOf, ChannelOf, DutyOf
<1>. QED  BY <1>1, <1>3, <1>5, <1>6, ApplyingKeeps DEF IInv

\* A step that handles no port.
LEMMA AppliedKept ==
  ASSUME IInv, pc \in {"apply", "done"}, Applied' = Applied, UNCHANGED <<device, reported, mirror>>
  PROVE  AppliedAsAsked'
<1>1. \A k : Asked(device.ports[k])' = Asked(device.ports[k])
  BY DEF Asked, Supports, Pins
<1>2. \A p \in Pins :
        \/ \E k \in Applied : device.ports[k].pin = p /\ mirror[p] = Asked(device.ports[k])
        \/ (\A k \in Applied : device.ports[k].pin # p) /\ mirror[p] = reported[p]
  BY DEF IInv, AppliedAsAsked
<1>. QED  BY <1>1, <1>2 DEF AppliedAsAsked, Pins

LEMMA ApplyDoneIInv == ASSUME IInv, ApplyDone  PROVE IInv'
<1>1. /\ pc = "apply" /\ pc' = "done" /\ i = Len(device.ports) /\ Ports' = Ports
      /\ UNCHANGED <<device, i, valid, reported, mirror, output, pwm>>
  BY DEF ApplyDone, Ports
<1>2. TypeOK' /\ PlaceInv' /\ MirrorInv' /\ OutputInv' /\ PwmInv'
  BY <1>1 DEF IInv, TypeOK, PlaceInv, MirrorInv, OutputInv, PwmInv, Pins
<1>3. ValidInv'
  BY <1>1 DEF IInv, ValidInv, Supports, Pins
<1>4. Applied' = Applied
  BY <1>1, DeviceFacts DEF IInv, Applied
<1>5. AppliedAsAsked'
  BY <1>1, <1>4, AppliedKept
<1>. QED  BY <1>2, <1>3, <1>5 DEF IInv

LEMMA StutterIInv == ASSUME IInv, UNCHANGED vars  PROVE IInv'
<1>1. UNCHANGED <<pc, device, i, valid, reported, mirror, output, pwm>> /\ Ports' = Ports
  BY DEF vars, Ports
<1>2. TypeOK' /\ PlaceInv' /\ ValidInv' /\ MirrorInv' /\ OutputInv' /\ PwmInv'
  BY <1>1 DEF IInv, TypeOK, PlaceInv, ValidInv, MirrorInv, OutputInv, PwmInv, Pins, Supports
<1>3. AppliedAsAsked'
  <2>1. Applied' = Applied
    BY <1>1 DEF Applied
  <2>2. CASE pc \in {"apply", "done"}
    BY <1>1, <2>1, <2>2, AppliedKept
  <2>3. CASE pc \notin {"apply", "done"}
    BY <1>1, <2>3 DEF AppliedAsAsked
  <2>. QED  BY <2>2, <2>3
<1>. QED  BY <1>2, <1>3 DEF IInv

LEMMA IInvInvariant == Spec => []IInv
<1>1. ASSUME IInv, [Next]_vars  PROVE IInv'
  BY <1>1, RefreshIInv, CheckIInv, CheckDoneIInv, CrashIInv, ReserveIInv, ApplyInputIInv,
     ApplyOutputIInv, ApplyPwmIInv, ApplyDoneIInv, StutterIInv DEF Next
<1>. QED  BY <1>1, InitIInv, PTL DEF Spec

-----------------------------------------------------------------------------
(* Results. *)

\* Every variable keeps its type: the PWM settings are always a whole block of unsigned
\* numbers.
THEOREM TypeCorrect == Spec => []TypeOK
BY IInvInvariant, PTL DEF IInv

\* The mirror has what the ports so far ask for, and nothing else (pin.c:334-399).
THEOREM PortsAreApplied == Spec => []AppliedAsAsked
BY IInvInvariant, PTL DEF IInv

\* The channels that a block gives a duty cycle.
LEMMA BlockOfPort ==
  ASSUME IInv, NEW ch \in SetChannels
  PROVE  \E k \in Ports : /\ PwmPort(k, ch) /\ device.ports[k] \in Port
                          /\ device.ports[k].dutyCycle # 0
                          /\ Supports(device.ports[k])
                          /\ pwm.duty[ch] = DutyOf(device.ports[k]) /\ ch \in pwm.enabled
<1>1. pwm # NoBlock
  BY DEF SetChannels, NoBlock
<1>2. PICK k \in Ports :
        /\ device.ports[k].type = "PWM_INPUT" /\ device.ports[k].dutyCycle # 0
        /\ valid[k] /\ IsBlockOf(pwm, device.ports[k])
  BY <1>1 DEF IInv, PwmInv
<1>3. /\ ChannelOf(device.ports[k]) \in pwm.enabled
      /\ pwm.duty = [c \in Channels |-> IF c = ChannelOf(device.ports[k])
                                          THEN DutyOf(device.ports[k]) ELSE Unset]
  BY <1>2 DEF IsBlockOf
<1>4. ch \in Channels /\ ch = ChannelOf(device.ports[k])
  BY <1>3 DEF SetChannels
<1>5. pwm.duty[ch] = DutyOf(device.ports[k]) /\ ch \in pwm.enabled
  BY <1>3, <1>4
<1>6. device.ports[k] \in Port /\ PWM_BASE - ch = device.ports[k].pin
  <2>1. device.ports[k] \in Port
    BY DeviceFacts DEF IInv
  <2>2. device.ports[k].pin \in Int
    BY <2>1 DEF Port
  <2>. QED  BY <1>4, <2>1, <2>2, ConstantsAssumption DEF ChannelOf, Channels
<1>7. Supports(device.ports[k])
  BY <1>2 DEF IInv, TypeOK, ValidInv
<1>. QED  BY <1>2, <1>5, <1>6, <1>7 DEF PwmPort

\* No output and no duty cycle is set for a pin that cannot be driven so (pin.c:334-394).
THEOREM OnlyCapablePinsDriven == Spec => []DrivesOnlyCapablePins
<1>1. ASSUME IInv, NEW ch \in SetChannels
      PROVE  PWM_BASE - ch \in Pins /\ "PWMOut" \in device.capable[PWM_BASE - ch]
  BY <1>1, BlockOfPort DEF PwmPort, Supports, Needed
<1>2. IInv => DrivesOnlyCapablePins
  BY <1>1 DEF IInv, OutputInv, DrivesOnlyCapablePins
<1>. QED  BY <1>2, IInvInvariant, PTL

\* A channel with a duty cycle is enabled with it, and the duty cycle is the one of a valid
\* port (pin.c:361-391).
THEOREM DutyIsThePorts == Spec => []EnabledChannelHasItsDuty
<1>1. ASSUME IInv, NEW ch \in SetChannels
      PROVE  ch \in pwm.enabled /\ \E k \in Ports :
                /\ PwmPort(k, ch)
                /\ device.ports[k].dutyCycle > 0 =>
                    /\ pwm.duty[ch] = PWM_CLOCK \div device.ports[k].dutyCycle
                    /\ pwm.duty[ch] <= PWM_CLOCK
  BY <1>1, BlockOfPort, DutyFacts
<1>2. IInv => EnabledChannelHasItsDuty
  BY <1>1 DEF EnabledChannelHasItsDuty
<1>. QED  BY <1>2, IInvInvariant, PTL

\* The process ends at no port but one the board does not support, whose reason overruns
\* its message, or one that is PWM (pin.c:61-136, 334-399).
THEOREM OnlyUnsoundPortsCrash == Spec => []DigitalPortsSurvive
<1>1. Init => DigitalPortsSurvive
  BY DEF Init, DigitalPortsSurvive
<1>2. ASSUME IInv, DigitalPortsSurvive, [Next]_vars  PROVE DigitalPortsSurvive'
  <2>1. CASE CheckCrash
    <3>1. i < Len(device.ports) /\ ~Supports(Current)
      BY <2>1 DEF CheckCrash, Handling, Overruns
    <3>2. UNCHANGED <<device, i>>
      BY <2>1 DEF CheckCrash
    <3>. QED  BY <3>1, <3>2 DEF DigitalPortsSurvive, Supports, Current, Pins
  <2>2. CASE ApplyCrash
    <3>1. i < Len(device.ports) /\ pc = "apply" /\ UNCHANGED <<device, i>>
      BY <2>2 DEF ApplyCrash, Handling
    <3>2. valid[i + 1] <=> Supports(Current)
      BY <1>2, <3>1, CurrentFacts DEF IInv, ValidInv
    <3>3. ~Supports(Current) \/ Current.type = "PWM_INPUT"
      BY <2>2, <3>2 DEF ApplyCrash
    <3>. QED  BY <3>1, <3>3 DEF DigitalPortsSurvive, Supports, Current, Pins
  <2>3. CASE ~CheckCrash /\ ~ApplyCrash
    <3>1. UNCHANGED device /\ (pc' = "crashed" => pc = "crashed" /\ UNCHANGED i)
      BY <1>2, <2>3
         DEF Next, Refresh, Check, CheckDone, Reserve, ApplyInput, ApplyOutput, ApplyPwm,
             ApplyDone, Handling, vars
    <3>. QED  BY <1>2, <3>1 DEF DigitalPortsSurvive, Supports, Current, Pins
  <2>. QED  BY <2>1, <2>2, <2>3
<1>. QED  BY <1>1, <1>2, IInvInvariant, PTL DEF Spec
=============================================================================
