---------------------------- MODULE MCOAuthFlows ----------------------------
(* Small instances of OAuthFlows: identities, sessions, grants and state    *)
(* values are model values and interchangeable.                             *)
EXTENDS OAuthFlows, TLC

Interchangeable ==
    Permutations(Identities) \cup Permutations(Sessions) \cup Permutations(Grants)
        \cup Permutations(Transactions) \cup Permutations(Requests)
=============================================================================
