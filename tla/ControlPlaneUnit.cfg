SPECIFICATION Spec
CONSTANTS
    r1 = r1
    r2 = r2
    web = web
    Agents = {r1, r2}
    Procs = {web}
    ProcOf <- OneProcess
    Nobody = Nobody
    Jobs = {"start", "stop", "restart", "force", "restore", "cli-restore", "reset"}
    Systemd = TRUE
    MaxSups = 2
    MaxServers = 2
INVARIANTS
    OneMinecraft
    StoppedMeansDown
CHECK_DEADLOCK FALSE
