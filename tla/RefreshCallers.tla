--------------------------- MODULE RefreshCallers ---------------------------
(***************************************************************************)
(* Who calls the refresh endpoint.  An arbitrary caller may present any    *)
(* token with any key at any time, and revoke.  An honest one is the       *)
(* caller the endpoint is documented for: it sends a token with an         *)
(* Idempotency-Key, and when an answer is lost it sends the same token     *)
(* with the same key again, as often as it likes and even while an earlier *)
(* attempt is still running, but no later than the receipt window after    *)
(* its first attempt.  Nobody else knows its tokens and nobody revokes its *)
(* families.                                                               *)
(***************************************************************************)
EXTENDS RefreshFamily

CONSTANT ArbitraryTime   \* bound of the clock under arbitrary callers

ASSUME ArbitraryTimeAssumption == ArbitraryTime \in Nat

VARIABLES
  honest,  \* what the callers of this behaviour are
  first    \* the key and time of the honest caller's first attempt with each token

callerVars == <<now, account, tokens, request, delivered, honest, first>>

Attempt == [key : Keys, at : Times]

\* Python's None is no receipt and no attempt.
ASSUME NoRecordAssumption == None \notin Receipt /\ None \notin Attempt

CallersInit ==
  /\ Init
  /\ honest \in BOOLEAN
  /\ first = [t \in Tokens |-> None]

FirstAttempt(c, t, key) ==
  /\ first[t] = None
  /\ BeginRotate(c, t, key, TRUE)
  /\ first' = [first EXCEPT ![t] = [key |-> key, at |-> now]]

Retry(c, t) ==
  /\ first[t] # None
  /\ now < first[t].at + Window
  /\ BeginRotate(c, t, first[t].key, TRUE)
  /\ UNCHANGED first

\* What happens to honest and arbitrary callers alike.
Unprompted ==
  \/ \E c \in Clients : Serve(c) \/ Abort(c) \/ \E a \in Accounts : BeginIssue(c, a)
  \/ \E a \in Accounts : BumpEpoch(a) \/ SetActive(a)

HonestNext ==
  /\ honest
  /\ \/ \E c \in Clients, t \in Known :
          Retry(c, t) \/ \E key \in Keys : FirstAttempt(c, t, key)
     \/ (Unprompted \/ Tick) /\ UNCHANGED first
  /\ UNCHANGED honest

ArbitraryNext ==
  /\ ~honest
  /\ Next
  /\ now' <= ArbitraryTime
  /\ UNCHANGED <<honest, first>>

CallersNext == HonestNext \/ ArbitraryNext

CallersSpec == CallersInit /\ [][CallersNext]_callerVars

----------------------------------------------------------------------------
\* Reuse detection never strikes the honest: lost answers, duplicates in
\* flight and retries inside the window do not revoke a family that has not
\* reached its end anyway.
HonestFamilySurvives ==
  honest => \A t \in DOMAIN tokens : tokens[t].revoked => now >= tokens[t].familyExpires

=============================================================================
