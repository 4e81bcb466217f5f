------------------------- MODULE MCProviderClients -------------------------
(* ProviderClients on a small instance: a client of one realm, a sibling  *)
(* realm on the same origin, and GitHub.                                   *)
EXTENDS ProviderClients, TLC

CONSTANTS web, github, realm, sibling

MCIssuerOf == (web :> realm) @@ (github :> github)

MCSharesOrigin ==
  (realm :> {realm, sibling}) @@ (sibling :> {realm, sibling}) @@ (github :> {github})

Interchangeable == Permutations(Kids)
=============================================================================
