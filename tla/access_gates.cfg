\* An account whose role and status change, a request in flight, two pairs;
\* statements fail, the tables are truncated, the clock ticks at any point.
\* One role code of each list of administrators (the migrations seed only the
\* first); an account without a role stands for everybody else.
CONSTANTS
    UserIds = {u1}
    SessionIds = {s1, s2}
    TokenIds = {}
    Emails = {e1}
    Passwords = {p1, p2}
    Placeholder = Placeholder
    Null = Null
    Reqs = {r1}
    OperatorStatuses = {"ACTIVE", "SUSPENDED"}
    Faults = TRUE
    DeleteEnabled = TRUE
    Roles = {"ADMIN_CHECK_ON", "AdminCheckOn"}
    AccessTTL = 1
    AgeBound = 3
SYMMETRY Symmetry
SPECIFICATION AccessSpec
INVARIANTS
    AccessTypeOK
    RoleAgesOut
    StatusAgesOut
CHECK_DEADLOCK FALSE
