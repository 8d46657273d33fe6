\* Two accounts and two logins: the second one meets a stored token.
CONSTANTS
    Accounts = {a1, a2}
    Logins = {l1, l2}
    MaxEntries = 4
    Null = Null
SYMMETRY Symmetry
SPECIFICATION WebSpec
INVARIANT PairBelongsTogether
