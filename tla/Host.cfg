SPECIFICATION MCSpec
CONSTANTS
    Workers = {w1, w2}
    Commands = {w2}
    Ids = {b1, b2, b3}
    Roots = {r1, r2}
    HomeRoot = r1
    MaxVersion = 1
    MaxDeaths = 1
    MaxTasks = 3
    Torn = Torn
    Gone = Gone
    a1 = a1
    a2 = a2
    a3 = a3
    before = before
    after = after
    Agents = {a1, a2, a3}
    Pids = {before, after}
    PidOf <- MCPidOf
    NoPid = NoPid
    MaxTunnels = 2
    MaxReboots = 1
INVARIANTS
    SavingOffIsHeld SafetyCopyIsCurrent VerifiedIsInStorage
    ExclusiveUntilADeath TunnelsAreKnown DisabledMeansStopped
 
SYMMETRY MCSymmetry
CHECK_DEADLOCK FALSE
