SPECIFICATION Spec
CONSTANTS
    r1 = r1
    r2 = r2
    r3 = r3
    Evictor = evictor
    Free = free
    NoProject = none
    NoBranch = default
    Req = {r1, r2}
    Branches <- OneBranch
    Slots = {s1, s2}
    Workload <- Writes
    GitMayFail = FALSE
    Sweeping = FALSE
    FetchTime = 1
    TTL = 2
    MaxTime = 2
    MaxCrashes = 0
SYMMETRY AlikeRequestsAndSlots
INVARIANTS AcknowledgedWritesAreOnRemote
