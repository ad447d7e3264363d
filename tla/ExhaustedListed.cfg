\* Is an exhausted clean-up always visible, as the retry policy says?
CONSTANTS
    s1 = s1
    s2 = s2
    r1 = r1
    r2 = r2
    Sessions = {s1}
    Requests = {r1}
    NoSession = NoSession
    TTL = 1
    Grace = 1
    Lease = 2
    MaxAttempts = 3
    Retry1 = 1
    Retry2 = 2
    Retry3 = 2
    Limit = 2
    FaultKinds = {"crash", "runner"}
    MaxFaults = 4
    PromptWrites = TRUE
SPECIFICATION Spec
INVARIANT ExhaustedIsListed
