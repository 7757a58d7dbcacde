\* Any two calls fail, processes die, Redis forgets; the jobs and the clock go on.
SPECIFICATION FairSpec
CONSTANTS
    r1 = r1
    r2 = r2
    r3 = r3
    b1 = b1
    b2 = b2
    NoRequest = NoRequest
    Requests = {r1, r2, r3}
    Body <- Bodies
    Ttl = 3
    SweepAfter = 1
    Patience = 1
    MaxFaults = 2
INVARIANTS OneAtATime ReplayHonest AnswersStand ExecuteOnce CacheAgrees
PROPERTIES KeepsPromise KeyReturns
