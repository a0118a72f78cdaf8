SPECIFICATION LifecycleSpec
CONSTANTS
    Projects = {p, q}
    Clients = {c}
    MaxCalls = 1
    MaxStarts = 1
    MaxTurns = 1
CHECK_DEADLOCK FALSE
INVARIANT StopIsTold
PROPERTY EndIsNoticed
