\* A board of 3 pins with PWM channels 1 and 2 on pins 3 and 2.  Configuring ends, so there
\* are final states.
SPECIFICATION Spec
CHECK_DEADLOCK FALSE
CONSTANTS
    PINS = 3
    CHANNELS = 2
    PWM_BASE = 4
    PWM_CLOCK = 12
    WORD = 32
    Functions = {"restricted", "digitalInput"}
    MaxPorts = 2
    Unset = Unset
    Devices <- MCDevices
INVARIANTS
    TypeOK
    AppliedAsAsked
    DrivesOnlyCapablePins
    EnabledChannelHasItsDuty
    DigitalPortsSurvive
