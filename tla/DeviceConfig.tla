---------------------------- MODULE DeviceConfig ----------------------------
(***************************************************************************)
(* Checking the loaded pins of one connected device and applying them:     *)
(* checkValidPinConfiguration() and applyPinConfigurationToDevice() of     *)
(* src/src/pin/pin.c, called in this order by main() for each board.  One  *)
(* step handles one port.                                                  *)
(*                                                                         *)
(* Ports are applied to the mirror of the board that PoKeysLib keeps, not  *)
(* to the board.  Only the PWM settings are sent, as a block for all       *)
(* channels, which every PWM port allocates anew and fills in for its own  *)
(* channel only; its list of enabled channels has room for one.  Nothing   *)
(* else is ever sent: the call of PK_DigitalIOSet() at pin.c:395 needs a   *)
(* valid port that is neither digital nor PWM, and only these three types  *)
(* are ever found valid among those the loaders produce.                   *)
(*                                                                         *)
(* An access outside an allocation may go unnoticed or end the process     *)
(* (pc = "crashed").                                                       *)
(***************************************************************************)
EXTENDS Integers, Sequences

CONSTANTS
    PINS,        \* number of pins of the board, and of entries of the mirror
    CHANNELS,    \* number of PWM channels: 6
    PWM_BASE,    \* channel ch is on pin PWM_BASE - ch: 23
    PWM_CLOCK,   \* the PWM period, pokey.h:10
    WORD,        \* 2^32, the range of an unsigned int
    Functions,   \* the functions a board may report for its pins
    Devices,     \* the devices a behaviour may start from
    Unset        \* an entry of a PWM block nobody wrote

\* What a port of a type needs of its pin.  The loaders produce no other type that is checked.
Needed == [DIGITAL_INPUT |-> "digitalInput", DIGITAL_OUTPUT |-> "digitalOutput",
           PWM_INPUT |-> "PWMOut"]
Capabilities == {Needed[type] : type \in DOMAIN Needed}
PortTypes == DOMAIN Needed \cup {"UKNOWN_PIN_TYPE"}

Port == [pin : Int, type : PortTypes, defaultValue : Int, dutyCycle : Int]
Device == [ports : Seq(Port), capable : [1 .. PINS -> SUBSET Capabilities]]

PinsDiffer(device) ==
    \A k, l \in 1 .. Len(device.ports) : device.ports[k].pin = device.ports[l].pin => k = l
PwmOnChannels(device) ==
    \A k \in 1 .. Len(device.ports) :
        device.ports[k].type = "PWM_INPUT" => PWM_BASE - device.ports[k].pin \in 1 .. CHANNELS

\* What PinConfig guarantees of the ports: different pins, PWM on the pin of a channel.
ASSUME ConstantsAssumption ==
    /\ PINS \in Nat /\ CHANNELS \in Nat /\ PWM_BASE \in Nat /\ PWM_CLOCK \in Nat
    /\ WORD \in Nat /\ PWM_CLOCK < WORD
    /\ Devices \subseteq Device
    /\ \A d \in Devices : PinsDiffer(d) /\ PwmOnChannels(d)
    /\ Unset \notin Int

PinFunctions == Functions \cup {"reserved", "digitalInput", "digitalOutput"}
Channels == 1 .. CHANNELS
Block == [enabled : SUBSET Channels, duty : [Channels -> 0 .. WORD - 1 \cup {Unset}]]
NoBlock == [enabled |-> {}, duty |-> <<>>]

VARIABLES
    pc,       \* "refresh", "check", "apply", "done", "crashed"
    device,   \* the device: its ports, and what its board is capable of
    i,        \* ports handled so far in the current loop
    valid,    \* of each port
    reported, \* the functions of the pins when the ports are applied
    mirror,   \* PinFunction of each pin in the mirror
    output,   \* DigitalValueSet of each pin in the mirror, Unset as it was
    pwm       \* the PWM block last sent to the board

vars == <<pc, device, i, valid, reported, mirror, output, pwm>>

Ports == 1 .. Len(device.ports)
Pins == 1 .. PINS

Init ==
    /\ pc = "refresh"
    /\ device \in Devices
    /\ i = 0
    /\ valid = [k \in Ports |-> FALSE]
    /\ mirror \in [Pins -> Functions]
    /\ reported = mirror
    /\ output = [p \in Pins |-> Unset]
    /\ pwm = NoBlock

\* PK_PinConfigurationGet(): if it fails the mirror stays as it is, and nobody asks.
Refresh ==
    /\ pc = "refresh"
    /\ pc' = "check"
    /\ reported' \in [Pins -> Functions]
    /\ mirror' = reported'
    /\ UNCHANGED <<device, i, valid, output, pwm>>

-----------------------------------------------------------------------------
(* Checking. *)

Handling(loop) == pc = loop /\ i < Len(device.ports)
Current == device.ports[i + 1]

\* PK_CheckPinCapability() for the type of the port.
Supports_AnyPin(port) == port.type \in DOMAIN Needed
Supports(port) ==
    /\ port.type \in DOMAIN Needed
    /\ port.pin \in Pins
    /\ Needed[port.type] \in device.capable[port.pin]

\* The reason is appended to a message that has no room for it.
Overruns_Always(port) == TRUE
Overruns(port) == port.type \in DOMAIN Needed /\ ~Supports(port)

Check ==
    /\ Handling("check")
    /\ valid' = [valid EXCEPT ![i + 1] = @ \/ Supports(Current)]
    /\ i' = i + 1
    /\ UNCHANGED <<pc, device, reported, mirror, output, pwm>>

CheckCrash ==
    /\ Handling("check") /\ Overruns(Current)
    /\ pc' = "crashed"
    /\ UNCHANGED <<device, i, valid, reported, mirror, output, pwm>>

CheckDone ==
    /\ pc = "check" /\ i = Len(device.ports)
    /\ pc' = "apply" /\ i' = 0
    /\ UNCHANGED <<device, valid, reported, mirror, output, pwm>>

-----------------------------------------------------------------------------
(* Applying. *)

MirrorPin_ZeroBased(port) == port.pin + 1
MirrorPin(port) == port.pin

SetFunction(function) ==
    mirror' = IF MirrorPin(Current) \in Pins
              THEN [mirror EXCEPT ![MirrorPin(Current)] = function] ELSE mirror

Reserve ==
    /\ Handling("apply") /\ ~valid[i + 1]
    /\ SetFunction("reserved")
    /\ i' = i + 1
    /\ UNCHANGED <<pc, device, valid, reported, output, pwm>>

ApplyInput ==
    /\ Handling("apply") /\ valid[i + 1] /\ Current.type = "DIGITAL_INPUT"
    /\ SetFunction("digitalInput")
    /\ i' = i + 1
    /\ UNCHANGED <<pc, device, valid, reported, output, pwm>>

ApplyOutput ==
    /\ Handling("apply") /\ valid[i + 1] /\ Current.type = "DIGITAL_OUTPUT"
    /\ SetFunction("digitalOutput")
    /\ output' = [output EXCEPT ![MirrorPin(Current)] = 0]
    /\ i' = i + 1
    /\ UNCHANGED <<pc, device, valid, reported, pwm>>

\* ChannelOf: the chain of comparisons at pin.c:368-379.
ChannelOf_OffByOne(port) == PWM_BASE - port.pin - 1
ChannelOf(port) == PWM_BASE - port.pin

\* C divides towards 0, and the result becomes unsigned.
DutyOf_Signed(port) ==
    IF port.dutyCycle > 0 THEN PWM_CLOCK \div port.dutyCycle
    ELSE -(PWM_CLOCK \div (-port.dutyCycle))
DutyOf(port) ==
    IF port.dutyCycle > 0 THEN PWM_CLOCK \div port.dutyCycle
    ELSE (-(PWM_CLOCK \div (-port.dutyCycle))) % WORD

\* The bytes allocated for the list of enabled channels, of which the library reads one per
\* channel.
EnabledRoom == 1

\* The bytes nobody wrote may be anything, and enable any channel.
ApplyPwm ==
    /\ Handling("apply") /\ valid[i + 1] /\ Current.type = "PWM_INPUT"
    /\ Current.dutyCycle # 0
    /\ \E stray \in SUBSET Channels :
          pwm' = [enabled |-> {ChannelOf(Current)} \cup stray,
                  duty |-> [ch \in Channels |->
                              IF ch = ChannelOf(Current) THEN DutyOf(Current) ELSE Unset]]
    /\ i' = i + 1
    /\ UNCHANGED <<pc, device, valid, reported, mirror, output>>

\* A pin outside the mirror; a division by 0; or a list that the enabled channel is written
\* outside of, and the others are read outside of.
ApplyCrash ==
    /\ Handling("apply")
    /\ \/ ~valid[i + 1] /\ MirrorPin(Current) \notin Pins
       \/ /\ valid[i + 1] /\ Current.type = "PWM_INPUT"
          /\ Current.dutyCycle = 0 \/ CHANNELS > EnabledRoom
    /\ pc' = "crashed"
    /\ UNCHANGED <<device, i, valid, reported, mirror, output, pwm>>

ApplyDone ==
    /\ pc = "apply" /\ i = Len(device.ports)
    /\ pc' = "done"
    /\ UNCHANGED <<device, i, valid, reported, mirror, output, pwm>>

Next ==
    \/ Refresh
    \/ Check \/ CheckCrash \/ CheckDone
    \/ Reserve \/ ApplyInput \/ ApplyOutput \/ ApplyPwm \/ ApplyCrash \/ ApplyDone

Spec == Init /\ [][Next]_vars

-----------------------------------------------------------------------------
(* Properties. *)

TypeOK ==
    /\ pc \in {"refresh", "check", "apply", "done", "crashed"}
    /\ device \in Devices
    /\ i \in 0 .. Len(device.ports)
    /\ valid \in [Ports -> BOOLEAN]
    /\ reported \in [Pins -> Functions]
    /\ mirror \in [Pins -> PinFunctions]
    /\ output \in [Pins -> {0, Unset}]
    /\ pwm \in Block \cup {NoBlock}

Applied == CASE pc = "apply" -> 1 .. i [] pc = "done" -> Ports [] OTHER -> {}

\* The function the mirror should have on the pin of a port.  PWM is not a pin function.
Asked(port) ==
    IF ~Supports(port) THEN "reserved"
    ELSE CASE port.type = "DIGITAL_INPUT" -> "digitalInput"
           [] port.type = "DIGITAL_OUTPUT" -> "digitalOutput"
           [] port.type = "PWM_INPUT" -> reported[port.pin]

\* After every port, the mirror has what the ports so far ask for, and on every other pin
\* what the board reported.
AppliedAsAsked ==
    pc \in {"apply", "done"} =>
        \A p \in Pins :
            \/ \E k \in Applied :
                device.ports[k].pin = p /\ mirror[p] = Asked(device.ports[k])
            \/ (\A k \in Applied : device.ports[k].pin # p) /\ mirror[p] = reported[p]

\* The channels the program gave a duty cycle in the last block.
SetChannels == {ch \in DOMAIN pwm.duty : pwm.duty[ch] # Unset}

\* No output value and no duty cycle is ever set for a pin that the board cannot drive so.
\* Which channels the block enables beside, by bytes nobody wrote, is not said here.
DrivesOnlyCapablePins ==
    /\ \A p \in Pins : output[p] # Unset => "digitalOutput" \in device.capable[p]
    /\ \A ch \in SetChannels :
        PWM_BASE - ch \in Pins /\ "PWMOut" \in device.capable[PWM_BASE - ch]

PwmPort(k, ch) ==
    valid[k] /\ device.ports[k].type = "PWM_INPUT" /\ device.ports[k].pin = PWM_BASE - ch

\* A channel that the program gives a duty cycle is enabled with it and belongs to a valid
\* port, and a positive denominator makes it a duty cycle within the period (config.cfg:43).
EnabledChannelHasItsDuty ==
    \A ch \in SetChannels : ch \in pwm.enabled /\ \E k \in Ports :
        /\ PwmPort(k, ch)
        /\ device.ports[k].dutyCycle > 0 =>
            /\ pwm.duty[ch] = PWM_CLOCK \div device.ports[k].dutyCycle
            /\ pwm.duty[ch] <= PWM_CLOCK

\* The process ends only at a port that the board does not support, or that is PWM: digital
\* ports are configured without touching memory that is not their own.
DigitalPortsSurvive ==
    pc = "crashed" =>
        i < Len(device.ports) /\ (~Supports(Current) \/ Current.type = "PWM_INPUT")

\* config.cfg:43 "dutyCycle = 2    # denominator", for every channel.
EveryChannelHasItsDuty ==
    pc = "done" =>
        \A ch \in 1 .. CHANNELS : \A k \in Ports :
            PwmPort(k, ch) /\ device.ports[k].dutyCycle > 0 =>
                pwm.duty[ch] = PWM_CLOCK \div device.ports[k].dutyCycle
=============================================================================
