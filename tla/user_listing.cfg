\* Three accounts with two roles, pages of one: accounts move between all pages
\* and both answers of a fetch.
CONSTANTS
    Accounts = {a1, a2, a3}
    ALL_ROLES <- TwoRoles
    Matches <- FewMatches
    Limit = 1
    PAGE_SIZE = 1
    Null = Null
SYMMETRY Symmetry
SPECIFICATION ListingSpec
INVARIANTS
    ListingTypeOK
    PagesMissNobody
    ListedOnce
    PagesCoverList
PROPERTIES
    NobodyDropped
    NobodyRevived
