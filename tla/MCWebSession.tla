---------------------------- MODULE MCWebSession ----------------------------
(* Small instances of WebSession.                                          *)
EXTENDS WebSession, TLC

Symmetry == Permutations(Accounts) \cup Permutations(Logins)
=============================================================================
