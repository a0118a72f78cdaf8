SPECIFICATION Spec
CONSTANTS
    Clients = {c1}
    RunLoop = RunLoop
    SigHandler = SigHandler
    Policy = "on-failure"
    MaxCrashLoop = 2
    MaxStarts = 2
    MaxSignals = 0
INVARIANTS
    OneServer
    TerminalSnapshotIsDead
    CrashBudget
    NoOrphans
PROPERTY SlotSpec
CHECK_DEADLOCK FALSE
