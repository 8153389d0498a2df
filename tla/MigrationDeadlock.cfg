SPECIFICATION FairSpec
CONSTANTS
    r1 = r1
    r2 = r2
    r3 = r3
    Evictor = evictor
    Free = free
    NoProject = none
    NoBranch = default
    Req = {r1, r2}
    Branches <- OneBranch
    Slots = {s1, s2}
    Workload <- Migrations
    GitMayFail = FALSE
    Sweeping = FALSE
    FetchTime = 1
    TTL = 1
    MaxTime = 1
    MaxCrashes = 0
PROPERTIES EveryRequestIsAnswered
CHECK_DEADLOCK FALSE
