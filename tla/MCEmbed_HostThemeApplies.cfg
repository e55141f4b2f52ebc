SPECIFICATION Spec
CONSTANT MaxQueue = 2
CHECK_DEADLOCK FALSE
PROPERTY
    HostThemeApplies
