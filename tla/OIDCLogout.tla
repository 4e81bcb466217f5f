------------------------------- MODULE OIDCLogout -------------------------------
(***************************************************************************)
(* Provider-initiated logout: a back-channel logout token, consumed once,  *)
(* revokes the sessions of the subject or session it names; a front-       *)
(* channel request revokes the sessions of one provider session if it      *)
(* comes from the browser that owns it.                                    *)
(***************************************************************************)
EXTENDS BearerTokens

CONSTANTS
  Sessions,   \* local sessions, each established by a provider's login
  MappingOf,  \* the provider's subject and session of each
  BindingOf   \* the browser each provider session is bound to

VARIABLES
  revoked,   \* local sessions whose mapping is revoked
  consumedTokens,    \* logout tokens that were used
  consumedSessions,  \* provider sessions whose front-channel logout was used
  logouts    \* for the properties: the logouts the provider was told had happened

logoutVars == <<revoked, consumedTokens, consumedSessions, logouts>>

ProviderSessions == DOMAIN BindingOf

LogoutInit == revoked = {} /\ consumedTokens = {} /\ consumedSessions = {} /\ logouts = {}

NamedBy(token, s) ==
  /\ token.subject \in {"none", MappingOf[s].subject}
  /\ token.sid \in {"none", MappingOf[s].sid}

\* A logout token within the clock skew of its expiry verifies, and the
\* store still refuses it.
Backchannel(token) ==
  /\ LogoutTokenAccepted(token) /\ token.exp > now /\ token \notin consumedTokens
  /\ consumedTokens' = consumedTokens \cup {token}
  /\ revoked'  = revoked \cup {s \in Sessions : NamedBy(token, s)}
  /\ logouts'  = logouts \cup {[subject |-> token.subject, sid |-> token.sid]}
  /\ UNCHANGED consumedSessions

\* The limiter's bucket is charged first (RateLimits); a provider session is
\* used up by its logout even when a logout token was faster.
FrontchannelOfSid(sid) ==
  {s \in Sessions : MappingOf[s].sid = sid}
Frontchannel(sid, binding) ==
  /\ sid \notin consumedSessions /\ BindingOf[sid] = binding /\ FrontchannelOfSid(sid) # {}
  /\ consumedSessions' = consumedSessions \cup {sid}
  /\ revoked'  = revoked \cup FrontchannelOfSid(sid)
  /\ logouts'  = logouts \cup {[subject |-> "none", sid |-> sid]}
  /\ UNCHANGED consumedTokens
===============================================================================
