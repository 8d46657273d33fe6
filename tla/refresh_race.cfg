\* Two requests present one refresh token; nothing fails.
CONSTANTS
    UserIds = {u1}
    SessionIds = {s1, s2, s3}
    TokenIds = {}
    Emails = {e1}
    Passwords = {p1, p2}
    Placeholder = Placeholder
    Null = Null
    Reqs = {r1, r2}
    OperatorStatuses = {"ACTIVE", "SUSPENDED"}
    Faults = FALSE
    DeleteEnabled = FALSE
SPECIFICATION AuthSpec
INVARIANT RefreshTokenUsedOnce
