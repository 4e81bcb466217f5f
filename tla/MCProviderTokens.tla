------------------------- MODULE MCProviderTokens -------------------------
(* Two identities of one provider, an account with a local method and one   *)
(* that a login may provision.                                              *)
EXTENDS ProviderTokens

CONSTANTS a1, a2, i1, i2, google

OneLocal    == [a \in {a1} |-> 1]
OneProvider == [i \in {i1, i2} |-> google]
=============================================================================
