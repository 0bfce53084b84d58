SPECIFICATION FairSpec
CONSTANTS
    Targets = {t1, t2}
    MaxEngines = 2
    MaxRequests = 5
    None = None
INVARIANTS
    TypeOK
    WorksOnTheShownProcess
    NoStaleAnswer
    NoForgottenEngine
PROPERTIES
    ServesEachCallOnce
    CallsReturn
    ServingEngineEnds
CHECK_DEADLOCK FALSE
