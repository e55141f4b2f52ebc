SPECIFICATION MCSpec
CONSTANTS
    Pipelines = {p1, p2}
    Shas = {s1, s2}
    Metrics = {"faithfulness"}
    Required = {}
    MaxScore = 3
    Floor <- MCFloor
    Margin <- MCMargin
    MaxReruns = 1
    None = None
    Workers = {m1, m2, m3}
    Main = m1
    Questions = 3
    Limits = {2, 4}
    MaxTrainings = 2
    NoFault = NoFault
CHECK_DEADLOCK FALSE
SYMMETRY Symmetry
INVARIANTS
    TypesOK
    BaselineMeetsFloors
    HistoryWasInForce
    SpendIsBounded
    ServesConfigured
    OneTraining
PROPERTIES
    DropsAreWithinMargin
