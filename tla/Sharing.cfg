SPECIFICATION Spec
CONSTANTS
    r1 = r1
    r2 = r2
    r3 = r3
    Evictor = evictor
    Free = free
    NoProject = none
    NoBranch = default
    Req = {r1, r2, r3}
    Branches <- OneBranch
    Slots = {s1, s2}
    Workload <- ReadsWritesMigrations
    GitMayFail = FALSE
    Sweeping = FALSE
    FetchTime = 2
    TTL = 1
    MaxTime = 1
    MaxCrashes = 0
SYMMETRY AlikeRequestsAndSlots
INVARIANTS OneCloneServesAll AcknowledgedWritesAreOnRemote
