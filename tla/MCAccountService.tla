-------------------------- MODULE MCAccountService --------------------------
(* Small instances of AccountService.                                      *)
EXTENDS AccountService, TLC

Symmetry ==
    Permutations(UserIds) \cup Permutations(TokenIds) \cup Permutations(Creators)
      \cup Permutations(Resets) \cup Permutations(Emails) \cup Permutations(Passwords)
=============================================================================
