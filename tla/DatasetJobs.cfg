SPECIFICATION FairJobsSpec
CONSTANTS
    Jobs = {j1, j2}
    Adds = {j1}
    Workers = 2
    MaxKills = 1
INVARIANTS CompletedAddsArePushed
PROPERTIES EndedAddsStay QueuedAddsEnd
