---------------------------- MODULE MCPinConfig ----------------------------
(* Small instances of PinConfig for TLC. *)
EXTENDS PinConfig

CONSTANTS MaxPins, MaxChannels, Undocumented  \* longest lists explored; a pin out of range

UpTo(S, n) == UNION {[1 .. len -> S] : len \in 0 .. n}

\* Every documented pin, an entry without a name, one without a type, one without a pin,
\* and one with neither a documented pin nor a digital type.
PinEntries ==
    [pin : 1 .. MAX_PINS, type : {"DIGITAL_OUTPUT"}, named : {TRUE}, default : {1}]
    \cup {[pin |-> 1, type |-> "DIGITAL_INPUT", named |-> FALSE, default |-> 1],
          [pin |-> 2, type |-> Missing, named |-> TRUE, default |-> Missing],
          [pin |-> Missing, type |-> "DIGITAL_INPUT", named |-> TRUE, default |-> Missing],
          [pin |-> Undocumented, type |-> "other", named |-> FALSE, default |-> 1]}

PwmEntries ==
    [channel : 1 .. CHANNELS, dutyCycle : {2}]
    \cup [channel : {CHANNELS + 1}, dutyCycle : {Missing}]

\* Fresh memory, and memory that makes the count run ahead of the table or behind it.
MCFirstCounts == {-1, 0, 1}

MCConfigs == [pins : UpTo(PinEntries, MaxPins), pwm : UpTo(PwmEntries, MaxChannels)]
=============================================================================
