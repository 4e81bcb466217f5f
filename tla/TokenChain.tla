----------------------------- MODULE TokenChain -----------------------------
(***************************************************************************)
(* What a refresh-family store promises, and nothing about how: a family   *)
(* has at most one live token, its tip; a token is used in one family and  *)
(* is never a tip again once it has been replaced; a closed family stays   *)
(* as it was closed.                                                       *)
(***************************************************************************)
CONSTANTS Families, Tokens, None

VARIABLES
  tip,      \* the token of each family that can still be rotated
  used,     \* every token that is or was a tip
  closed    \* the revoked families

vars == <<tip, used, closed>>

Init ==
  /\ tip = [f \in Families |-> None]
  /\ used = {}
  /\ closed = {}

Start(f, t) ==
  /\ tip[f] = None
  /\ t \notin used
  /\ tip' = [tip EXCEPT ![f] = t]
  /\ used' = used \cup {t}
  /\ UNCHANGED closed

Advance(f, t) ==
  /\ tip[f] # None
  /\ f \notin closed
  /\ t \notin used
  /\ tip' = [tip EXCEPT ![f] = t]
  /\ used' = used \cup {t}
  /\ UNCHANGED closed

Close(fs) ==
  /\ \A f \in fs : tip[f] # None
  /\ closed' = closed \cup fs
  /\ UNCHANGED <<tip, used>>

Next ==
  \/ \E fs \in SUBSET Families : Close(fs)
  \/ \E f \in Families, t \in Tokens : Start(f, t) \/ Advance(f, t)

Spec == Init /\ [][Next]_vars

=============================================================================
