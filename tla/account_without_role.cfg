\* One CreateUser request; nothing fails, but the role may be unknown.
CONSTANTS
    UserIds = {u1}
    SessionIds = {}
    TokenIds = {t1}
    Emails = {e1}
    Passwords = {p1}
    Placeholder = Placeholder
    OperatorStatuses = {"SUSPENDED"}
    Faults = FALSE
    DeleteEnabled = FALSE
    Null = Null
    Creators = {c1}
    Resets = {r1}
SYMMETRY Symmetry
SPECIFICATION AccountSpec
INVARIANT AccountHasRole
CHECK_DEADLOCK FALSE
