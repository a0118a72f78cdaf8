SPECIFICATION FairSpec
CONSTANTS
    Clients = {}
    RunLoop = RunLoop
    SigHandler = SigHandler
    Policy = "always"
    MaxCrashLoop = 2
    MaxStarts = 2
    MaxSignals = 2
PROPERTY StopTerminates
CHECK_DEADLOCK FALSE
