SPECIFICATION TasksSpec
CONSTANTS
    Requests = {q1, q2}
    NoRequest = NoRequest
    Users = {ann, bob}
    Bodies = {"", "a", "b"}
    MaxId = 2
    MaxCalls = 3
    Updates = {p1, p2}
    NoUpdate = NoUpdate
    People = {"7", "8"}
    Admins = {"8"}
    Inputs <- MCInputs
PROPERTY UpdatedCommentIsThere
\* The calls are used up.
CHECK_DEADLOCK FALSE
