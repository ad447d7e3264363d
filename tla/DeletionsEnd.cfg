\* Two deletions of a workspace whose terminal may jam.
CONSTANTS
    w1 = w1
    a1 = a1
    a2 = a2
    r1 = r1
    r2 = r2
    s1 = s1
    s2 = s2
    NoSlot = NoSlot
    NoTask = NoTask
    Workspaces = {w1}
    Attachers = {a1}
    Releasers = {r1, r2}
    Slots = {s1}
    MaxJams = 1
SPECIFICATION FairCleanupSpec
CHECK_DEADLOCK FALSE
PROPERTIES
    WaitsEndOrJam
    DeletedOrReported
