\* Two creators of one address and two resets over two tokens, with failing
\* statements, soft deletes and truncation.  Ids run out, hence no deadlock check.
CONSTANTS
    UserIds = {u1, u2}
    SessionIds = {}
    TokenIds = {t1, t2}
    Emails = {e1}
    Passwords = {p1}
    Placeholder = Placeholder
    OperatorStatuses = {"SUSPENDED"}
    Faults = TRUE
    DeleteEnabled = TRUE
    Null = Null
    Creators = {c1, c2}
    Resets = {r1, r2}
SYMMETRY Symmetry
SPECIFICATION AccountSpec
INVARIANTS
    AccountTypeOK
    EmailUnique
    MintedAccountHasRole
    PasswordNeedsToken
PROPERTY LateReuseRejected
CHECK_DEADLOCK FALSE
