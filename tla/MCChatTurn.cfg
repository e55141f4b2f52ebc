SPECIFICATION Spec
CONSTANTS
    Turns = {t1, t2}
    Users = {u1}
    Sessions = {s1}
    Nobody = Nobody
    PoolSize = 1
    MaxRows = 1
    MaxIter = 2
    MaxCalls = 2
CHECK_DEADLOCK FALSE
INVARIANTS
    TypeOK
    HistoryComplete
    MemoriesAreTheirs
PROPERTIES
    RefinesStream
    TurnsEnd
