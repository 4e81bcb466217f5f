-------------------------- MODULE MCJWKSProvider --------------------------
(* Small instances of JWKSProvider: identities are model values and         *)
(* interchangeable, time and generations are bounded by the cfg.            *)
EXTENDS JWKSProvider, TLC

Interchangeable ==
  Permutations(Clients) \cup Permutations(TaskIds) \cup Permutations(Providers)
    \cup Permutations(Kids)
=============================================================================
