\* Every configuration of up to 2 entries, and of 3, against every answer of up to 2 boards,
\* and of 3, with a table of 2 slots.  The handler runs in main()'s thread, in another one, or
\* in both.  The process ends, so there are final states.
SPECIFICATION FairSpec
CHECK_DEADLOCK FALSE
CONSTANTS
    MAX_DEVICES = 2
    INT_MAX = 1
    MaxLoaded = 2
    NULL = NULL
    Missing = Missing
    Garbage = Garbage
    Main = Main
    Others = {other}
    Configs <- MCConfigs
    Networks <- MCNetworks
INVARIANTS
    TypeOK
    ServedSlotIsItsBoard
    ConnectedDevicesShareNoPins
    IndexesStayInside
    RunsOnlyWithinConfiguration
    QuitClosesConnections
PROPERTIES
    EntriesAheadAreFound
    StartupEnds
