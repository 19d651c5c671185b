SPECIFICATION FairSpec
CONSTANTS
    Configs <- MCConfigs
    DedupGrace = 1
    SettleGrace = 1
    MaxRequests = 1
INVARIANTS
    ReadyOnlyWhileServing
    SettledBeforeRelease
    NothingForgotten
PROPERTIES
    ReleaseHasAFullPhase
    NoIdleWait
    ShutdownEnds
\* The process exits.
CHECK_DEADLOCK FALSE
