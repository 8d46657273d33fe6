-------------------------- MODULE MCAccessControl --------------------------
(* Small instances of AccessControl.                                       *)
EXTENDS AccessControl, TLC

Symmetry == Permutations(SessionIds) \cup Permutations(Passwords)
=============================================================================
