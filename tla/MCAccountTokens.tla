-------------------------- MODULE MCAccountTokens --------------------------
EXTENDS AccountTokens, TLC

CONSTANTS a, b, c, r1, r2

\* Windows of one second; resets have room for two in one window,
\* registrations and resends are not limited.
MCPolicies ==
  "recovery" :> [limit |-> 1, window |-> 1] @@
  "reset" :> [limit |-> 2, window |-> 1] @@ "confirm" :> [limit |-> 1, window |-> 1]
\* A member has asked for a new password and has invited somebody.
MCOutstanding ==
  <<[purpose |-> "recovery", account |-> a, epoch |-> 1, expires |-> 1, wrong |-> 0],
    [purpose |-> "invitation", account |-> a, epoch |-> 0, expires |-> 1, wrong |-> 0]>>
Symmetry == Permutations(Requests)
=============================================================================
