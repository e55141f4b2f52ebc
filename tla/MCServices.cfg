SPECIFICATION MCSpec
CONSTANTS
    Widgets = {w1}
    Procs = {p1, p2}
    MaxVersion = 3
    CacheTTL = 2
    MaxLag = 1
    Faults = {"redis", "ack"}
    Calls = {c1, c2}
    Users = {u1}
    Sessions = {s1}
    Nobody = Nobody
    PoolSize = 2
    MaxRows = 2
INVARIANTS
    TypeOK
    MemoryTypeOK
    StaleEntriesAge
    RowsAndAuditAgree
    AckedWritesStored
PROPERTIES
    RefinesStore
    EventuallyFresh
    PoolRecovers
