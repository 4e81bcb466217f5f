----------------------------- MODULE MCFactors -----------------------------
EXTENDS Factors, TLC

CONSTANTS alice, bob, web, app, r1, r2

MCOwner == web :> alice @@ app :> alice
Symmetry == Permutations(Requests) \cup Permutations(Transports)
=============================================================================
