SPECIFICATION Spec
CONSTANTS
    c1 = c1
    c2 = c2
    c3 = c3
    t1 = t1
    t2 = t2
    Main = main
    Version = version
    Free = free
    Commands = {c1, c2, c3}
    KindsOf <- Mixed
    ThreadOf <- OneThreadTwice
    Cli = {c3}
    MaxCrashes = 1
INVARIANTS TypeOK ThreadsStayUsable
PROPERTIES OnlyOverlapsLoseUpdates CommandsCommitTheirOwn CommitsAreKept
