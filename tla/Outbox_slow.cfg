SPECIFICATION Spec
CONSTANTS
    p1 = p1  p2 = p2  e1 = e1  e2 = e2  email = email  audit = audit  nobody = nobody
    Processors = {p1, p2}
    Nobody = nobody
    Events <- OneEvent
    Queues = {email, audit}
    Routes <- FanOut
    OccurredAt <- AtOnce
    BatchSize = 1
    Concurrency = 1
    LockDuration = 1
    MaxAttempts = 2
    BaseBackoff = 0
    MaxBackoff = 0
    MaxFaults = 1
    Timely = FALSE
SYMMETRY QueueSymmetry
INVARIANTS NothingStranded PublishedDelivered
