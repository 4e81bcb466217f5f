------------------------ MODULE MCAccountSessions ------------------------
(* Small instances of AccountSessions: requests and accounts are            *)
(* interchangeable.                                                         *)
EXTENDS AccountSessions, TLC

Interchangeable == Permutations(Requests)
=============================================================================
