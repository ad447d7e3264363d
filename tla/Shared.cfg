\* Two creates and two lookups, a session lives for two ticks; two migration commands,
\* four runs of which two die; two resets, or one and a snapshot, and two changes by the
\* user; two connections that watch one shell, with channels that hold one chunk.
CONSTANTS
    c1 = c1
    c2 = c2
    l1 = l1
    l2 = l2
    Creators = {c1, c2}
    Lookups = {l1, l2}
    TTL = 2
    MaxTime = 2
    MaxFaults = 2
    m1 = m1
    m2 = m2
    Commands = {m1, m2}
    MaxRuns = 4
    MaxCrashes = 2
    r1 = r1
    r2 = r2
    Resets = {r1, r2}
    Creation = creation
    MaxEdits = 2
    k1 = k1
    k2 = k2
    Readers = {k1, k2}
    Typists = {}
    Cap = 1
    MaxChunks = 3
SPECIFICATION Parts
SYMMETRY Symmetry
CHECK_DEADLOCK FALSE
INVARIANTS
    TypesOK
    NeverOlder
    AbandonedPaidByFaults
    OnlyNewerHides
    SchemaCompletes
    WorkspaceKept
    OutputInOrder
