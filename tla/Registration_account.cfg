\* Registrations of one address overlap; the account lives through its
\* commands meanwhile.
SPECIFICATION RegSpec
CONSTANTS
    c1 = c1  c2 = c2  c3 = c3
    Clients = {c1, c2}
    Nobody = Nobody
    Undefined = Undefined
    JobAttempts = 3
    MaxFaults = 1
    MaxAttempts = 3
    Duration = 1
    MaxCount = 4
    KeepsAfterThrow = FALSE
SYMMETRY ClientSymmetry
INVARIANTS CountTellsLock AccountConsistent OneLiveUser
PROPERTIES LockSurvives
CHECK_DEADLOCK FALSE
