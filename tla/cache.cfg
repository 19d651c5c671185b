SPECIFICATION FairSpec
CONSTANTS
    Writes = {w1, w2}
    Flaky = {w1}
    Readers = {q1, q2}
INVARIANTS
    Fresh
    EntriesComplete
PROPERTY StaleUntilItExpires
CHECK_DEADLOCK FALSE
