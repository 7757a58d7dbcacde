\* One registration, and nothing fails.
SPECIFICATION RegSpec
CONSTANTS
    c1 = c1  c2 = c2  c3 = c3
    Clients = {c1}
    Nobody = Nobody
    Undefined = Undefined
    JobAttempts = 3
    MaxFaults = 0
    MaxAttempts = 3
    Duration = 1
    MaxCount = 4
    KeepsAfterThrow = FALSE
INVARIANTS MailFailsOnlyByFault
CHECK_DEADLOCK FALSE
