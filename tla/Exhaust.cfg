\* More runner faults than attempts: removed, or shown to the operator.
CONSTANTS
    s1 = s1
    s2 = s2
    r1 = r1
    r2 = r2
    Sessions = {s1}
    Requests = {r1, r2}
    NoSession = NoSession
    TTL = 1
    Grace = 1
    Lease = 2
    MaxAttempts = 3
    Retry1 = 1
    Retry2 = 2
    Retry3 = 2
    Limit = 2
    FaultKinds = {"runner", "restart"}
    MaxFaults = 4
    PromptWrites = TRUE
SPECIFICATION FairSpec
INVARIANT NoForgottenWorkspace
PROPERTY RemovedOrListed
