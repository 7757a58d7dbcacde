SPECIFICATION Spec
CONSTANTS
    p1 = p1  p2 = p2  e1 = e1  e2 = e2  email = email  audit = audit  nobody = nobody
    Processors = {p1, p2}
    Nobody = nobody
    Events <- TwoEvents
    Queues = {email}
    Routes <- TwoRoutes
    OccurredAt <- OldestFirst
    BatchSize = 2
    Concurrency = 1
    LockDuration = 1
    MaxAttempts = 2
    BaseBackoff = 1
    MaxBackoff = 1
    MaxFaults = 1
    Timely = TRUE
SYMMETRY ProcessorSymmetry
INVARIANTS WakeupKept
PROPERTIES DuplicatesOnlyByRetry
