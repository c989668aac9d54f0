\* config.cfg:43 against pin.c:366-389: two PWM channels.
SPECIFICATION Spec
CHECK_DEADLOCK FALSE
CONSTANTS
    PINS = 3
    CHANNELS = 2
    PWM_BASE = 4
    PWM_CLOCK = 12
    WORD = 32
    Functions = {"restricted", "digitalInput"}
    MaxPorts = 2
    Unset = Unset
    Devices <- MCDevices
INVARIANTS
    EveryChannelHasItsDuty
