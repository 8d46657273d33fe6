\* Two accounts, two logins in flight, a history of up to four entries: enough
\* to come back to a login page with a login left in flight, or while signed in,
\* with the list of either account cached or being fetched.
CONSTANTS
    Accounts = {a1, a2}
    Logins = {l1, l2}
    MaxEntries = 4
    Null = Null
SYMMETRY Symmetry
SPECIFICATION TabSpec
INVARIANTS
    TabTypeOK
    ProtectedNeedsAuth
    PairUnlessOverlapped
    WaitingHasLogin
    ForeignListIsBrief
