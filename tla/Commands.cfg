\* Two calls of the command API, commands of five runes and two arguments of two;
\* one connection whose channel holds one chunk; outputs of three pieces, cut anywhere;
\* two frames each way.
CONSTANTS
    c1 = c1
    c2 = c2
    Commands = {c1, c2}
    HelpersEnd = TRUE
    k1 = k1
    Readers = {k1}
    Typists = {k1}
    Cap = 1
    MaxChunks = 2
    G = G
    E = E
    T = T
    C = C
    X = X
    A = A
    N = N
    d1 = d1
    d2 = d2
    Data = {d1, d2}
    ExitLine = ExitLine
    MaxSegments = 3
    MaxInputs = 2
    Browser = Browser
    Runner = Runner
    MaxFrames = 2
    Dq = "dq"
    Sq = "sq"
    Bs = "bs"
    Sp = "sp"
    Ch = "ch"
    MaxRaw = 5
    MaxArg = 2
    MaxArgs = 2
SPECIFICATION FairStages
CHECK_DEADLOCK FALSE
INVARIANTS
    TypesOK
    OutputKept
    PassedOnIsComplete
    ParsedAsWritten
    EventsPaired
    OutcomeRecorded
PROPERTIES
    SessionEnds
    BridgeEnds
    CommandsReturn
