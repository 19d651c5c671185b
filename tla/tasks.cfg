SPECIFICATION TasksSpec
CONSTANTS
    Requests = {q1, q2}
    NoRequest = NoRequest
    Users = {ann, bob}
    Bodies = {"", "a", "b"}
    MaxId = 2
    MaxCalls = 3
    Updates = {p1, p2, p3}
    NoUpdate = NoUpdate
    People = {"7", "8"}
    Admins = {"8"}
    Inputs <- MCInputs
SYMMETRY Symmetry
INVARIANTS
    LocksEndWithTheirRequest
    HistoryChain
    CompletedIffDone
    AssigneeIsMember
    ChangesAreShown
PROPERTIES
    OnlyAuthorOrAdmin
    AcknowledgedWritesHold
    CompletedAtKept
    ImplementsAuditedTask
\* The calls are used up and the updates end.
CHECK_DEADLOCK FALSE
