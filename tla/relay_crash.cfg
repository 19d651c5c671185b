SPECIFICATION Spec
CONSTANTS
    Relays = {r1, r2}
    NoRelay = NoRelay
    Ids = {1, 2}
    Batch = 2
    Workers = 1
    MaxAttempts = 2
    MaxFaults = 2
    Disturbances = {"mysql", "crash", "redis", "expiry", "panic", "provider"}
SYMMETRY RelaySymmetry
INVARIANTS
    IInv
    DuplicatesPaidByFaults
PROPERTIES
    ResolvedRowsAreFinal
    ImplementsOutbox
CHECK_DEADLOCK FALSE
