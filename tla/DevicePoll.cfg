\* Two inputs of the board, in another order than the pins, and one on a pin it lacks.
SPECIFICATION FairSpec
CONSTANTS
    Pins = {1, 2}
    Ports <- MCPorts
    Bytes = {0, 1, 2}
INVARIANTS
    TypeOK
    OnlyLastCallbackMeetsTeardown
PROPERTIES
    TrackerSpec
    SteadyLevelIsSeen
