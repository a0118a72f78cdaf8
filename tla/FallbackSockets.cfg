SPECIFICATION MCSpec
CONSTANTS
    r1 = r1
    web = web
    Agents = {r1}
    Procs = {web}
    ProcOf <- OneRequest
    Nobody = Nobody
    Jobs = {"start", "stop", "restart", "force"}
    Systemd = FALSE
    MaxSups = 2
    MaxServers = 1
    Clients = {c1}
    Broadcasters = {b1, b2}
    Capacity = 2
    MaxRevision = 2
INVARIANT NoSendOnClosed
PROPERTIES LockIsReleased RevokedSocketEnds
CHECK_DEADLOCK FALSE
