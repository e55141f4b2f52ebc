SPECIFICATION Spec
CONSTANTS
    Turns = {t1}
    Users = {u1}
    Sessions = {s1}
    Nobody = Nobody
    PoolSize = 1
    MaxRows = 1
    MaxIter = 2
    MaxCalls = 2
CHECK_DEADLOCK FALSE
PROPERTIES
    ToolErrorsReachTheModel
