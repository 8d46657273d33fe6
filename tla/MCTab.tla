-------------------------------- MODULE MCTab -------------------------------
(* Small instances of Tab.                                                 *)
EXTENDS Tab, TLC

Symmetry == Permutations(Accounts) \cup Permutations(Logins)
=============================================================================
