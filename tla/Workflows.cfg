SPECIFICATION Spec
CONSTANTS
    A = A B = B C = C D = D
    i = i w = w x = x y = y z = z
    Files = {i, x, y, z}
    Sources = {i}
    Plans = {A, B, C, D}
    Uses <- SomeUses
    Gens <- SomeGens
    MaxRuns = 3
    MaxActivities = 6
    MaxEdits = 1
    MaxRemovals = 1
INVARIANTS TypeOK CatalogIsExact DependenciesAreAcyclic UpdateIsComplete StepsFollowTheirProducers RevertRestoresFiles
CHECK_DEADLOCK FALSE
