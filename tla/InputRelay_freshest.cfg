SPECIFICATION Spec
SYMMETRY Symmetry
CONSTANTS
    Depth = 2
    WriteOff = 1
    Handles = {h1, h2}
    NoLink = NoLink
    Pool = 3
    MaxReports = 4
    MaxHeldPackets = 3
PROPERTY SentIsFreshest
CHECK_DEADLOCK FALSE
