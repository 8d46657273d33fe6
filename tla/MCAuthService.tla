--------------------------- MODULE MCAuthService ---------------------------
(* Small instances of AuthService.                                         *)
EXTENDS AuthService, TLC

Symmetry ==
    Permutations(UserIds) \cup Permutations(SessionIds) \cup Permutations(Reqs)
      \cup Permutations(Emails) \cup Permutations(Passwords)
=============================================================================
