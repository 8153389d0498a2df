SPECIFICATION Spec
CONSTANTS
    Branches = {main, work}
    Names = {d, e}
    Files = {f, g}
    Tags = {t}
    Keywords = {k}
    MaxVersions = 4
    MaxLists = 2
    MaxCommands = 3
SYMMETRY Symmetry
INVARIANTS TypeOK ProvenanceIsKept
PROPERTIES MergeKeepsUpdates
CHECK_DEADLOCK FALSE
