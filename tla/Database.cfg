SPECIFICATION FairSpec
CONSTANTS
    Trees = {root, t}
    Items = {a, b}
    Root = root
    Project = project
    MaxFaults = 1
INVARIANTS TypeOK CommitSavesEverything NothingDangles
PROPERTIES CommitEnds
