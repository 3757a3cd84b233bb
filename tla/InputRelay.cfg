SPECIFICATION Spec
SYMMETRY Symmetry
CONSTANTS
    Depth = 2
    WriteOff = 1
    Handles = {h1, h2}
    NoLink = NoLink
    Pool = 3
    MaxReports = 3
    MaxHeldPackets = 3
INVARIANTS TotalIsSum NoPhantomDebt InputKeepsABufferFree HeldIsNewest
PROPERTY OnlyNewer
CHECK_DEADLOCK FALSE
