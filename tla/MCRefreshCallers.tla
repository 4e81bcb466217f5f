-------------------------- MODULE MCRefreshCallers --------------------------
(* RefreshCallers on a small instance: the bounds are in the .cfg file.    *)
EXTENDS RefreshCallers, TLC

\* Identifiers and requests are interchangeable.
Interchangeable ==
  Permutations(Tokens) \cup Permutations(Clients) \cup Permutations(Families)
    \cup Permutations(Accounts)

=============================================================================
