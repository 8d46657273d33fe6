\* One account, two requests in flight, three sessions; no statement fails, but
\* the tables may be truncated, after which nothing is left to do.
CONSTANTS
    UserIds = {u1}
    SessionIds = {s1, s2, s3}
    TokenIds = {}
    Emails = {e1}
    Passwords = {p1, p2}
    Placeholder = Placeholder
    Null = Null
    Reqs = {r1, r2}
    OperatorStatuses = {"ACTIVE", "SUSPENDED"}
    Faults = FALSE
    DeleteEnabled = TRUE
SPECIFICATION FairAuthSpec
INVARIANT RevokedHasSuccessor
PROPERTIES
    EveryRequestEnds
    RotationReachesClient
    ImplementsLedger
CHECK_DEADLOCK FALSE
