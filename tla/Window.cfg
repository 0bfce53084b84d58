SPECIFICATION Spec
CONSTANTS
    Processes <- MCProcesses
    Addresses <- MCAddresses
    Chains <- MCChains
    Resolves <- MCResolves
    MaxWatches = 2
    MaxFreezes = 1
    None = None
INVARIANTS
    TypeOK
    Belongs
    FrozenIsHeld
    RowsMatch
    RefinesWhatItShows
PROPERTY BusyEnds
CHECK_DEADLOCK FALSE
