SPECIFICATION FairSpec
CONSTANTS
    Targets = {t1}
    MaxEngines = 1
    MaxRequests = 2
    None = None
PROPERTY NoOrphanEngine
CHECK_DEADLOCK FALSE
