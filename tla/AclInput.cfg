SPECIFICATION FairSpec
CONSTANTS
    Handles = {h1, h2}
    Lengths = {2}
    MaxLinks = 2
    MaxPdus = 2
    MaxRuns = 1
    MaxUnread = 2
    MaxLosses = 2
INVARIANTS RoutedWhole GhostsNeverServed ShutdownTells
CHECK_DEADLOCK FALSE
PROPERTY GhostsGo
