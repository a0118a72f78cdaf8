SPECIFICATION MCSpec
CONSTANTS
    k1 = k1
    k2 = k2
    k3 = k3
    s1 = s1
    s2 = s2
    t1 = t1
    t2 = t2
    u1 = u1
    u2 = u2
    u3 = u3
    None = None
    Groups = {k1, k2}
    Channels <- MCChannels
    Guilds = {s1, s2}
    GuildOf <- MCGuildOf
    Tokens = {t1, t2}
    Limit = 2
    MaxBots = 1
    Kinds = {"left", "here"}
    MaxUpdates = 2
    Users = {u1, u2, u3}
    FirstOwners = {u1}
    Invites = {i1}
    MaxSets = 2
    Forgetful = {u1}
    Wanted = {"owner", "admin"}
    Requests = {q1, q2}
    Nobody = Nobody
INVARIANTS
     LeftStaysOut
    OwnerLossNeedsOverlap InvitationMakesOneUser RecoveryCodeSpentOnce
SYMMETRY MCSymmetry
CHECK_DEADLOCK FALSE
