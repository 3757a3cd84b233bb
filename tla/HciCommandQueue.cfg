SPECIFICATION FairSpec
CONSTANTS
    Room = 1
    MinAllowance = 0
    Timeout = 2
    MaxCommands = 4
INVARIANTS NoOverrun NothingLostToReset
PROPERTIES EveryCommandLeaves ImplementsFifo
CHECK_DEADLOCK FALSE
