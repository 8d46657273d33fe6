\* Two accounts, two requests in flight, three sessions; everything may fail
\* and the tables may be truncated, after which nothing is left to do.
CONSTANTS
    UserIds = {u1, u2}
    SessionIds = {s1, s2, s3}
    TokenIds = {}
    Emails = {e1, e2}
    Passwords = {p1, p2}
    Placeholder = Placeholder
    Null = Null
    Reqs = {r1, r2}
    OperatorStatuses = {"ACTIVE", "SUSPENDED"}
    Faults = TRUE
    DeleteEnabled = TRUE
SYMMETRY Symmetry
SPECIFICATION AuthSpec
INVARIANTS
    AuthTypeOK
    RotatedParentRevoked
    OnePairPerRequest
PROPERTY IssueNeedsActive
CHECK_DEADLOCK FALSE
