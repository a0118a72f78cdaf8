SPECIFICATION Spec
CONSTANTS
    r1 = r1
    r2 = r2
    web = web
    Agents = {r1, r2}
    Procs = {web}
    ProcOf <- OneProcess
    Nobody = Nobody
    Jobs = {"start", "restore"}
    Systemd = TRUE
    MaxSups = 2
    MaxServers = 2
INVARIANT RestoreNotOverRunning
CHECK_DEADLOCK FALSE
