SPECIFICATION FairSpec
CONSTANTS
    Callers = {c1, c2}
    Targets = {t1, t2}
    Addresses = {a1, a2}
    Values = {v1, v2}
    Requested = {1, 9}
    MinInterval = 3
    MaxInterval = 4
    WriteTicks = 1
    MaxId = 2
    None = None
INVARIANTS
    TypeOK
    WriteIsBacked
    NoLostWakeup
PROPERTIES
    KeepsPromise
    JobsKeepBeingWritten
    CallsReturn
    DestructorReturns
