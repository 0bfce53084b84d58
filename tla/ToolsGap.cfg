SPECIFICATION Spec
CONSTANTS
    Regions <- MCRegions
    Ranges <- MCRanges
    ChunkSize = 4
    PageSize = 2
    Base = 2
    MaxChanges = 1
    Width <- MCWidth
    Wanted = {1}
    MaxResults = 3
    MaxRequests = 3
    None = None
    Patterns <- MCPatterns
    ModuleBases <- MCModuleBases
    ModuleSize = 3
    MaxHits = 3
    MaxSearches = 4
    Nothing = Nothing
    Parts <- MCParts
    Writable = {1, 2, 3}
    ModuleSlots = 1
    Options <- MCOptions
    Targets = {2, 3}
    Worlds <- MCWorlds
    MaxScans = 4
    MaxWrites = 1
    MaxLosses = 1
    Absent = Absent
    Memories <- MCMemories
    Gaps <- MCGaps
    Beginnings <- MCBeginnings
INVARIANT BadPageHidesNoOther
CHECK_DEADLOCK FALSE
