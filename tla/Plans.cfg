SPECIFICATION Spec
CONSTANTS
    m = m
    n = n
    s = s
    t = t
    u = u
    v = v
    Names = {m, n}
    Steps = {s, t}
    Descriptions = {u, v}
    Definitions <- FileDefinitions
    Sizes <- Small
INVARIANTS NamesFindNewest
PROPERTIES HistoryIsKept OnlyForceBreaksComposites UnchangedFilesKeepTheirPlans
CHECK_DEADLOCK FALSE
