\* Three logins and two logouts in the tabs of one browser, two faults and a restart;
\* three sessions and four calls of the page; two sessions, three commands, four fetches
\* and a reset for the card.
CONSTANTS
    l1 = l1
    l2 = l2
    l3 = l3
    o1 = o1
    o2 = o2
    None = None
    Logins = {l1, l2, l3}
    Logouts = {o1, o2}
    MaxFaults = 2
    MaxRestarts = 1
    MaxSessions = 3
    MaxTasks = 4
    s1 = s1
    s2 = s2
    NoSession = NoSession
    Sessions = {s1, s2}
    MaxCommands = 3
    MaxFetches = 4
    MaxResets = 1
SPECIFICATION Parts
SYMMETRY Symmetry
CHECK_DEADLOCK FALSE
INVARIANTS
    TypesOK
    CookieIsKnown
    OutMeansRevoked
    SettledReported
    CardIsCurrent
PROPERTY NeverBack
