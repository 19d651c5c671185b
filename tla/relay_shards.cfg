SPECIFICATION FairSpec
CONSTANTS
    Relays = {r1}
    NoRelay = NoRelay
    Ids = {1, 2}
    Batch = 2
    Workers = 2
    MaxAttempts = 2
    MaxFaults = 2
    Disturbances = {"provider", "panic", "late", "budget", "stop", "mysql"}
INVARIANTS
    DeletedWasDelivered
    DeadLetterAtMaxAttempts
    AttemptsAreCharged
    CleanTicksSettle
PROPERTIES
    EveryMessageResolves
    DrainCompletes
CHECK_DEADLOCK FALSE
