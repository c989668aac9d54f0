\* Both lists, over a table of 2 slots with PWM channels 1 and 2 on pins 2 and 1.  Loading
\* ends, so there are final states.
SPECIFICATION Spec
CHECK_DEADLOCK FALSE
CONSTANTS
    MAX_PINS = 2
    CHANNELS = 2
    PWM_BASE = 3
    Undocumented = 9
    MaxPins = 3
    MaxChannels = 2
    FirstCounts <- MCFirstCounts
    Missing = Missing
    Garbage = Garbage
    Configs <- MCConfigs
INVARIANTS
    TypeOK
    DocumentedPinsFit
    LoadsFirstOfEachPin
PROPERTIES
    TableSpec
