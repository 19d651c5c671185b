SPECIFICATION Spec
CONSTANTS
    Users = {1, 2}
    Trusted = {1}
    Requests = 2
    Window = 4
    TTL = 3
    Second = 2
    MaxTime = 5
    MaxOutages = 1
    Readers = {1, 2}
    Admins = {1}
    Reads <- MCReads
    Limit = 2
    FirstTables <- MCTables
    Changes <- MCChanges
    MaxChanges = 2
INVARIANTS
    RateBound
    HonestRefusal
    TokenLifetime
    WalkComplete
