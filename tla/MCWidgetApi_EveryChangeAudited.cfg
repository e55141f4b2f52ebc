SPECIFICATION Spec
CONSTANTS
    Widgets = {w1}
    Procs = {p1, p2}
    MaxVersion = 2
    CacheTTL = 1
    MaxLag = 1
    Faults = {}
    page1 = page1
    Origins = {page1}
    NoOrigin = NoOrigin
    Allow <- MCAllow
INVARIANT EveryChangeAudited
