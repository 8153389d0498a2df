SPECIFICATION FairSpec
CONSTANTS
    r1 = r1
    r2 = r2
    r3 = r3
    Evictor = evictor
    Free = free
    NoProject = none
    NoBranch = default
    Req = {r1, r2}
    Branches <- OneBranch
    Slots = {s1, s2}
    Workload <- AllKinds
    GitMayFail = TRUE
    Sweeping = TRUE
    FetchTime = 1
    TTL = 2
    MaxTime = 2
    MaxCrashes = 1
INVARIANTS NothingLeaks TypeOK LockedWorkRunsAlone
PROPERTIES OnlySyncDisturbsOperations SharesTheClone EveryRequestIsAnswered
