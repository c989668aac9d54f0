--------------------------- MODULE MCDeviceConfig ---------------------------
(* Small instances of DeviceConfig for TLC. *)
EXTENDS DeviceConfig

CONSTANT MaxPorts  \* longest list of ports explored

\* Denominators: none, one that divides, one that does not, one below 0.
Denominators == {0, 2, 5, -5}

\* One pin more than the board has; PWM ports on the pins of the channels.
PortsOn(pin) ==
    [pin : {pin}, type : PortTypes \ {"PWM_INPUT"}, defaultValue : {1}, dutyCycle : {0}]
    \cup IF PWM_BASE - pin \in 1 .. CHANNELS
         THEN [pin : {pin}, type : {"PWM_INPUT"}, defaultValue : {0}, dutyCycle : Denominators]
         ELSE {}
AnyPort == UNION {PortsOn(pin) : pin \in 1 .. PINS + 1}

PortLists ==
    {list \in UNION {[1 .. len -> AnyPort] : len \in 0 .. MaxPorts} :
        \A k, l \in DOMAIN list : list[k].pin = list[l].pin => k = l}

\* Pins that can do everything, and pins that can do some of it.
MCDevices ==
    [ports : PortLists,
     capable : [1 .. PINS -> {Capabilities, {"digitalInput"}}]]
=============================================================================
