SPECIFICATION Spec
CONSTANTS
    Emails = {ann, bob, eve}
    Requests = {q1, q2}
    Nobody = Nobody
    MaxTeams = 1
    MaxMails = 2
    MaxCalls = 4
    MaxAttempts = 2
SYMMETRY RequestSymmetry
INVARIANTS
    TypeOK
    MembershipsAccountedFor
PROPERTIES
    RolesOnlyGained
    InvitedByAdmin
    InviteAnswers
\* The calls are used up.
CHECK_DEADLOCK FALSE
