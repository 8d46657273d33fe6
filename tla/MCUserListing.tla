--------------------------- MODULE MCUserListing ---------------------------
(* Small instances of UserListing.                                         *)
EXTENDS UserListing, TLC

TwoRoles == <<"CLIENTE", "RH">>

(* No filter, one that nobody passes, and those that one account passes.   *)
FewMatches == {Accounts, {}} \cup {{a} : a \in Accounts}

Symmetry == Permutations(Accounts)
=============================================================================
