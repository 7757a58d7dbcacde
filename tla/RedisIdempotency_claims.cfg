\* A handler takes as long as its claim lasts, or longer; a command fails.
SPECIFICATION FairSpec
CONSTANTS
    r1 = r1
    r2 = r2
    r3 = r3
    b1 = b1
    b2 = b2
    NoRequest = NoRequest
    Requests = {r1, r2, r3}
    Body <- Bodies
    Ttl = 3
    InProgressTtl = 2
    Patience = 2
    MaxFaults = 1
INVARIANTS OneAtATime ReplayHonest
PROPERTIES KeepsPromise KeyReturns
CHECK_DEADLOCK FALSE
