\* One request of each kind over an account, two tokens and two sessions; no
\* statement fails, but the tables may be truncated, after which nothing is
\* left to do.
CONSTANTS
    UserIds = {u1}
    SessionIds = {s1, s2}
    TokenIds = {t1, t2}
    Emails = {e1}
    Passwords = {p1}
    Placeholder = Placeholder
    OperatorStatuses = {"SUSPENDED"}
    Faults = FALSE
    DeleteEnabled = TRUE
    Null = Null
    Reqs = {q1}
    Creators = {c1}
    Resets = {r1}
SPECIFICATION FairIdentitySpec
INVARIANTS
    SessionNeedsToken
    ReopenedUnderNewPassword
PROPERTIES
    IssueNeedsUsable
    EveryAccountRequestEnds
CHECK_DEADLOCK FALSE
