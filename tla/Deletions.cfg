\* Two attachments to a workspace and two deletions of it.
CONSTANTS
    w1 = w1
    a1 = a1
    a2 = a2
    r1 = r1
    r2 = r2
    s1 = s1
    s2 = s2
    NoSlot = NoSlot
    NoTask = NoTask
    Workspaces = {w1}
    Attachers = {a1, a2}
    Releasers = {r1, r2}
    Slots = {s1, s2}
    MaxJams = 0
SPECIFICATION CleanupSpec
CHECK_DEADLOCK FALSE
SYMMETRY Symmetry
INVARIANTS
    TypesOK
    OneShell
    NoLostWakeup
    ReleaseKills
    NothingForgotten
PROPERTIES
    LatestDecides
    ShellsEndFirst
