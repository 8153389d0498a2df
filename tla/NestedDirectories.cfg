SPECIFICATION Spec
CONSTANTS
    A = A B = B C = C D = D
    i = i w = w x = x y = y z = z
    Files = {i, w, x, y, z}
    Sources = {i, w}
    Plans = {A, B, C}
    Uses <- NestedUses
    Gens <- NestedGens
    MaxRuns = 3
    MaxActivities = 6
    MaxEdits = 1
    MaxRemovals = 0
INVARIANT UpdateIsConsistent
CHECK_DEADLOCK FALSE
