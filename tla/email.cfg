SPECIFICATION FairSpec
CONSTANTS
    Shards = {s1, s2}
    MaxFailures = 2
    Texts <- MCTexts
    MaxErrLen = 3
    MaxChanges = 3
INVARIANTS
    TripsAreTheProviders
    StoredErrorFits
PROPERTY Recovers
