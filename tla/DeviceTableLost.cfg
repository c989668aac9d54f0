\* main.c:123 against main.c:108-119: a board with an entry is passed over.
SPECIFICATION Spec
CHECK_DEADLOCK FALSE
CONSTANTS
    MAX_DEVICES = 2
    INT_MAX = 1
    MaxLoaded = 2
    NULL = NULL
    Missing = Missing
    Garbage = Garbage
    Main = Main
    Others = {}
    Configs <- MCConfigs
    Networks <- MCNetworks
PROPERTIES
    EveryConfiguredBoardIsFound
