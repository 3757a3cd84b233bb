SPECIFICATION FairSpec
CONSTANTS
    Events = 2
    Attempts = 2
    MaxReports = 3
    MaxQuiet = 1
    MaxStores = 8
    MaxMishaps = 1
    MaxLate = 1
INVARIANTS SnapshotsWhole NeverHalfWritten LostAreGone MissesExplained
PROPERTY LogSettles
CHECK_DEADLOCK FALSE
