\* Two ResetPass requests present one token; nothing fails.
CONSTANTS
    UserIds = {u1}
    SessionIds = {}
    TokenIds = {t1}
    Emails = {e1}
    Passwords = {p1}
    Placeholder = Placeholder
    OperatorStatuses = {"SUSPENDED"}
    Faults = FALSE
    DeleteEnabled = FALSE
    Null = Null
    Creators = {c1}
    Resets = {r1, r2}
SYMMETRY Symmetry
SPECIFICATION AccountSpec
INVARIANT TokenConsumedOnce
CHECK_DEADLOCK FALSE
