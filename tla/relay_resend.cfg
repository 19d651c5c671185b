SPECIFICATION Spec
CONSTANTS
    Relays = {r1, r2}
    NoRelay = NoRelay
    Ids = {1, 2}
    Batch = 2
    Workers = 2
    MaxAttempts = 2
    MaxFaults = 1
    Disturbances = {"crash"}
INVARIANT CrashNeverResends
CHECK_DEADLOCK FALSE
