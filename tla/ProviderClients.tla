-------------------------- MODULE ProviderClients --------------------------
(***************************************************************************)
(* The clients of the login providers: OIDCDiscoveryClient                 *)
(* (providers/oidc/_discovery.py), OAuthProviderClient and its GitHub      *)
(* specialization (providers/oauth/_provider.py), and OIDCProvider with    *)
(* the verifier discovery builds for it (providers/oidc/_provider.py).     *)
(*                                                                         *)
(* A flow is one login from the authorization URL to the identity, and the *)
(* refreshes and the revocation of its grant afterwards.  Every await is a *)
(* step of its own: the addresses of an endpoint, the answer of the        *)
(* provider, the key selection and the worker that checks a signature.     *)
(* Between them other flows run, the issuer replaces its key and clients   *)
(* are closed.                                                             *)
(*                                                                         *)
(* External: the authorization server (what it answers and what it keeps   *)
(* of a grant), the issuer's signing key, and the JWKS provider, of which  *)
(* only the key it would select is kept (JWKSProvider has the rest).       *)
(***************************************************************************)
EXTENDS Integers, Sequences, FiniteSets, SequencesExt

CONSTANTS
  OIDC, GitHub,        \* provider names: discovered ones, and ones with fixed endpoints
  Issuers,
  IssuerOf,            \* provider -> its issuer; a client id is its provider's name
  SharesOrigin,        \* issuer -> the issuers on its origin, itself included
  OtherClient,         \* a client of the same issuers that is not ours
  Flows,
  Kids,                \* key identifiers an issuer may use, again and again
  None,
  Allowed, Required,   \* allowed_scopes and required_scopes
  Unlisted,            \* scopes outside the allowlist that a server may name
  MaxEvents            \* bound: flows begun, refreshes, keys replaced and clients closed

Providers == OIDC \cup GitHub

ASSUME ProvidersAssumption ==
  /\ OIDC \cap GitHub = {} /\ Providers # {} /\ IssuerOf \in [Providers -> Issuers]
  /\ SharesOrigin \in [Issuers -> SUBSET Issuers]
  /\ OtherClient \notin Providers /\ None \notin Providers \cup Issuers \cup Kids
  /\ \A scopes \in SUBSET (Allowed \cup Unlisted) : scopes # None
  /\ Required # {} /\ Required \subseteq Allowed /\ Unlisted \cap Allowed = {}
  /\ MaxEvents \in Nat

VARIABLES
  signing,     \* external: the key each issuer publishes and signs with
  selectable,  \* external: the key the JWKS provider holds for each jwks_uri
  discovery,   \* whether the shared discovery client is open
  client,      \* each provider's client, from discovery to aclose
  flow,        \* each flow's coroutine, with the values it holds
  grant,       \* external: the authorization server's record of each flow's grant
  events

clientsVars == <<signing, selectable, discovery, client, flow, grant, events>>

----------------------------------------------------------------------------
Generations == 0 .. MaxEvents + 1

\* A published key: the identifier may return with another key.
Key == [kid : Kids, version : Generations]

\* A jwks_uri is named by the issuer whose keys are served there.
Client == [stage : {"absent", "fetching", "built", "failed"},
           closed : BOOLEAN,
           source : Issuers \cup {None},            \* whose document is asked for
           jwks : Issuers \cup {None},
           verifiers : [Kids -> Generations]]       \* DynamicVerifierCache, 0 for no entry

\* The bindings of a consumed transaction; every login has a nonce of its own.
Nonces == 1 .. MaxEvents

Transaction == [provider : Providers, issuer : Issuers, nonce : Nonces \cup {None},
                scopes : SUBSET (Allowed \cup Unlisted)]

\* What an ID token says, and the key that signed it.  sound stands for the
\* claims nothing else here reads: the lifetime, the types of the optional ones.
Assertion == [iss : Issuers, key : Key, aud : SUBSET (Providers \cup {OtherClient}),
              azp : Providers \cup {OtherClient, None}, nonce : Nonces \cup {None},
              sound : BOOLEAN]

\* A provider answer, as the token endpoint's client reads it.
TokenAnswer == [status : {"ok", "malformed", "invalid_grant", "error"},
           scopes : {None} \cup SUBSET (Allowed \cup Unlisted),
           refresh : Generations, id : Assertion \cup {None}]

Email == [primary : BOOLEAN, verified : BOOLEAN]

Flow == [pc : {"idle", "redirected", "exchanging", "asked", "tokens", "selecting",
               "verifying", "identified", "refreshing", "kept", "revoking", "over"},
         by : Providers, tx : Transaction \cup {None},
         fallback : SUBSET (Allowed \cup Unlisted),
         answer : TokenAnswer \cup {None},
         scopes : SUBSET (Allowed \cup Unlisted), refresh : Generations,
         id : Assertion \cup {None}, key : Key \cup {None}, verifier : Generations,
         emails : Seq(Email), email : 0 .. 2,
         error : {"none", "closed", "refused", "reauthorize", "unavailable"}]

\* live is the refresh token the server would accept, 0 for none; missed is
\* set when an answer that changed the grant did not reach its client.
Grant == [live : Generations, scopes : SUBSET (Allowed \cup Unlisted), missed : BOOLEAN]

NoFlow == [pc |-> "idle", by |-> CHOOSE p \in Providers : TRUE, tx |-> None, fallback |-> {},
         answer |-> None, scopes |-> {}, refresh |-> 0, id |-> None, key |-> None,
         verifier |-> 0, emails |-> <<>>, email |-> 0, error |-> "none"]

NoGrant == [live |-> 0, scopes |-> {}, missed |-> FALSE]

----------------------------------------------------------------------------
(* Discovery                                                               *)

\* What a metadata URL may answer: the document of the issuer it belongs to,
\* trusted when every origin it names is listed and resolves to public
\* addresses, compatible when it advertises a pinned algorithm.
Documents(source) ==
  [issuer : {source}, jwks : {source}, trusted : BOOLEAN, compatible : BOOLEAN]

\* _parse_metadata, and OIDCProvider.__post_init__ over what it returned.
Parses(document, issuer) ==
  /\ document.issuer = issuer
  /\ document.trusted
  /\ document.compatible

Stage(p, stage) ==
  client' = [client EXCEPT ![p].stage = stage, ![p].source = None]

\* _discovery_url: the well-known URL, or an override that shares the issuer's
\* origin, where a sibling realm may live.
Requestable(p, source) == source \in SharesOrigin[IssuerOf[p]]

\* discover up to the address lookup.
Discover(p, source) ==
  /\ client[p].stage = "absent"
  /\ IF discovery = "open" /\ Requestable(p, source)
     THEN client' = [client EXCEPT ![p].stage = "fetching", ![p].source = source]
     ELSE Stage(p, "failed")
  /\ UNCHANGED <<signing, selectable, discovery, flow, grant, events>>

\* The addresses of the issuer's host are not public or not known; or the
\* discovery client was closed during the lookup and refuses to send.
DiscoveryFails(p) ==
  /\ client[p].stage = "fetching"
  /\ Stage(p, "failed")
  /\ UNCHANGED <<signing, selectable, discovery, flow, grant, events>>

\* oidc_provider over the parsed document; the verifier cache starts empty.
Built(document) ==
  [stage |-> "built", closed |-> FALSE, source |-> None, jwks |-> document.jwks,
   verifiers |-> [k \in Kids |-> 0]]

\* The document arrives and the provider is built over it.
FetchDocument(p, document) ==
  /\ client[p].stage = "fetching" /\ discovery = "open"
  /\ IF Parses(document, IssuerOf[p])
     THEN client' = [client EXCEPT ![p] = Built(document)]
     ELSE Stage(p, "failed")
  /\ UNCHANGED <<signing, selectable, discovery, flow, grant, events>>

----------------------------------------------------------------------------
(* Flows                                                                   *)

Set(f, state) == flow' = [flow EXCEPT ![f] = state]

Over(f, error) ==
  Set(f, [NoFlow EXCEPT !.pc = "over", !.by = flow[f].by, !.refresh = flow[f].refresh,
                      !.error = error])

\* The tokens of an earlier answer are held: the request is a refresh.
Holds(f) == flow[f].scopes # {}

\* A token request raises: a login ends there, a refresh leaves its caller with
\* the tokens it had.
Fail(f, error) ==
  Set(f, [flow[f] EXCEPT !.pc = IF Holds(f) THEN "kept" ELSE "over", !.answer = None,
                         !.error = error])

Open(p) == ~client[p].closed

\* build_authorization_url: the transaction is this provider's and asks for
\* every required scope and no unlisted one.
Authorizable(p, tx) ==
  /\ tx.provider = p
  /\ tx.scopes \subseteq Allowed
  /\ Required \subseteq tx.scopes

Begin(f, p, scopes) ==
  /\ flow[f].pc = "idle" /\ client[p].stage = "built" /\ events < MaxEvents
  /\ LET tx == [provider |-> p, issuer |-> IssuerOf[p], scopes |-> scopes,
                nonce |-> IF p \in OIDC THEN events + 1 ELSE None]
     IN IF Open(p) /\ Authorizable(p, tx)
        THEN Set(f, [NoFlow EXCEPT !.pc = "redirected", !.by = p, !.tx = tx])
        ELSE Over(f, IF Open(p) THEN "refused" ELSE "closed")
  /\ events' = events + 1
  /\ UNCHANGED <<signing, selectable, discovery, client, grant>>

\* exchange_code up to the address lookup; q is the client the callback reached.
Exchange(f, q) ==
  /\ flow[f].pc = "redirected" /\ client[q].stage = "built"
  /\ IF ~Open(q) THEN Over(f, "closed")
     ELSE IF flow[f].tx.provider # q THEN Over(f, "refused")
     ELSE Set(f, [flow[f] EXCEPT !.pc = "exchanging", !.fallback = flow[f].tx.scopes])
  /\ UNCHANGED <<signing, selectable, discovery, client, grant, events>>

\* refresh up to the address lookup; the caller may leave current_scopes out.
Refresh(f, current) ==
  /\ flow[f].pc \in {"identified", "kept"} /\ flow[f].refresh # 0 /\ events < MaxEvents
  /\ IF ~Open(flow[f].by) THEN Fail(f, "closed")
     ELSE Set(f, [flow[f] EXCEPT !.pc = "refreshing", !.error = "none",
                                 !.id = None, !.key = None, !.verifier = 0,
                                 !.emails = <<>>, !.email = 0,
                                 !.fallback = IF current THEN flow[f].scopes ELSE Required])
  /\ events' = events + 1
  /\ UNCHANGED <<signing, selectable, discovery, client, grant>>

\* _pinned_endpoint: the request goes to the address that was checked, or not
\* at all; httpx refuses to send through a client closed meanwhile.
Unsent(f) ==
  /\ flow[f].pc \in {"exchanging", "refreshing", "revoking"}
  /\ Fail(f, "refused")
  /\ UNCHANGED <<signing, selectable, discovery, client, grant, events>>

\* The ID tokens a server hands out: those of its own kind, and ones that
\* differ from the flow's own in the issuer, the audience, the authorized party,
\* the nonce (another login's) or a malformed claim.  A token grows old when the
\* key is replaced before it is verified.
Own(f) ==
  LET p == flow[f].tx.provider IN
  [iss |-> IssuerOf[p], key |-> signing[IssuerOf[p]], aud |-> {p}, azp |-> None,
   nonce |-> flow[f].tx.nonce, sound |-> TRUE]

Assertions(f) ==
  LET a == Own(f)
      p == flow[f].tx.provider
      shared == [a EXCEPT !.aud = {p, OtherClient}]
  IN {a, shared, [shared EXCEPT !.azp = p], [shared EXCEPT !.azp = OtherClient],
      [a EXCEPT !.azp = OtherClient], [a EXCEPT !.aud = {OtherClient}],
      [a EXCEPT !.sound = FALSE]}
     \cup {[a EXCEPT !.nonce = n] : n \in (1 .. events) \cup {None}}
     \cup {[a EXCEPT !.iss = i, !.key = signing[i]] : i \in Issuers}
     \cup {[a EXCEPT !.aud = {q}] : q \in OIDC}

\* The code is redeemed; the scopes are left out when they are the requested ones.
Redeem(f, granted, refresh, id) ==
  /\ flow[f].pc = "exchanging" /\ Open(flow[f].by)
  /\ grant' = [grant EXCEPT ![f] = [live |-> refresh, scopes |-> granted, missed |-> FALSE]]
  /\ \E scopes \in {granted} \cup (IF granted = flow[f].fallback THEN {None} ELSE {}) :
       Set(f, [flow[f] EXCEPT !.pc = "asked",
                 !.answer = [status |-> "ok", scopes |-> scopes, refresh |-> refresh, id |-> id]])
  /\ UNCHANGED <<signing, selectable, discovery, client, events>>

\* The refresh token is exchanged: kept or rotated, the scopes kept or narrowed.
Renew(f, rotated, granted) ==
  /\ flow[f].pc = "refreshing" /\ Open(flow[f].by)
  /\ flow[f].refresh = grant[f].live
  /\ granted \subseteq grant[f].scopes
  /\ LET live == IF rotated THEN grant[f].live + 1 ELSE grant[f].live
         scopes == IF granted = grant[f].scopes THEN None ELSE granted
     IN /\ live \in Generations
        /\ grant' = [grant EXCEPT ![f].live = live, ![f].scopes = granted]
        /\ Set(f, [flow[f] EXCEPT !.pc = "asked",
                     !.answer = [status |-> "ok", scopes |-> scopes,
                                 refresh |-> IF rotated THEN live ELSE 0, id |-> None]])
  /\ UNCHANGED <<signing, selectable, discovery, client, events>>

\* The server refuses: invalid_grant for a code or for a refresh token that it
\* does not accept, anything else for reasons of its own.
Refuse(f, status) ==
  /\ flow[f].pc \in {"exchanging", "refreshing"} /\ Open(flow[f].by)
  /\ status = "invalid_grant" => (flow[f].pc = "refreshing" => flow[f].refresh # grant[f].live)
  /\ Set(f, [flow[f] EXCEPT !.pc = "asked",
               !.answer = [status |-> status, scopes |-> None, refresh |-> 0, id |-> None]])
  /\ UNCHANGED <<signing, selectable, discovery, client, grant, events>>

\* An answer is cut off, also by closing the client that reads it.
Lose(f) ==
  /\ flow[f].pc = "asked"
  /\ Fail(f, "refused")
  /\ grant' = [grant EXCEPT ![f].missed = (@ \/ flow[f].answer.status = "ok")]
  /\ UNCHANGED <<signing, selectable, discovery, client, events>>

\* _response_scopes
GrantedScopes(answer, fallback) == IF answer.scopes = None THEN fallback ELSE answer.scopes

\* Mutant of KeptRefresh: an answer without a refresh token drops the one held.
DropsRefresh(answer, held) == answer.refresh

\* A refresh answer may leave the refresh token out: the presented one stays.
KeptRefresh(answer, held) == IF answer.refresh = 0 THEN held ELSE answer.refresh

\* _is_invalid_grant_response
NeedsReauthorization(answer) == answer.status = "invalid_grant"

\* _token_request on the answer: a token set within the configured scopes,
\* the reauthorization error, or the generic one.
Receive(f) ==
  /\ flow[f].pc = "asked"
  /\ LET answer == flow[f].answer
         scopes == GrantedScopes(answer, flow[f].fallback)
         accepted == answer.status = "ok" /\ Required \subseteq scopes /\ scopes \subseteq Allowed
     IN /\ IF accepted
           THEN Set(f, [flow[f] EXCEPT !.pc = IF Holds(f) THEN "kept" ELSE "tokens",
                          !.answer = None, !.scopes = scopes,
                          !.refresh = KeptRefresh(answer, flow[f].refresh), !.id = answer.id])
           ELSE IF NeedsReauthorization(answer) THEN Over(f, "reauthorize")
           ELSE Fail(f, "refused")
        /\ grant' = [grant EXCEPT ![f].missed = (@ \/ (answer.status = "ok" /\ ~accepted))]
  /\ UNCHANGED <<signing, selectable, discovery, client, events>>

----------------------------------------------------------------------------
(* Identities                                                              *)

\* OIDCProvider.resolve_identity up to the verifier's key selection.
Resolve(f, q) ==
  /\ flow[f].pc = "tokens" /\ q \in OIDC /\ client[q].stage = "built"
  /\ IF /\ flow[f].id # None
        /\ flow[f].tx.provider = q
        /\ flow[f].tx.issuer = IssuerOf[q]
        /\ flow[f].tx.nonce # None
     THEN Set(f, [flow[f] EXCEPT !.pc = "selecting"])
     ELSE Over(f, "refused")
  /\ UNCHANGED <<signing, selectable, discovery, client, grant, events>>

\* Mutant of Prepared: the entry of the key identifier is used whatever it holds.
PreparedByKid(verifiers, key) ==
  IF verifiers[key.kid] # 0 THEN verifiers[key.kid] ELSE key.version

\* DynamicVerifierCache.get_or_create: reused only for the exact key selected.
Prepared(verifiers, key) ==
  IF verifiers[key.kid] = key.version THEN verifiers[key.kid] ELSE key.version

\* _DiscoveredOIDCVerifier.verify up to its worker: select_key answers with the
\* key it holds for the token's identifier, or asks the source again.
SelectKey(f, refetched) ==
  /\ flow[f].pc = "selecting"
  /\ LET p == flow[f].by
         uri == client[p].jwks
         held == IF refetched THEN signing[uri] ELSE selectable[uri]
         prepared == Prepared(client[p].verifiers, held)
     IN /\ refetched <=> selectable[uri].kid # flow[f].id.key.kid
        /\ selectable' = [selectable EXCEPT ![uri] = held]
        /\ IF held.kid = flow[f].id.key.kid
           THEN /\ Set(f, [flow[f] EXCEPT !.pc = "verifying", !.key = held, !.verifier = prepared])
                /\ client' = [client EXCEPT ![p].verifiers[held.kid] = prepared]
           ELSE Over(f, "refused") /\ UNCHANGED client
  /\ UNCHANGED <<signing, discovery, grant, events>>

\* The JWKS provider or the worker cannot answer.
Unavailable(f) ==
  /\ flow[f].pc \in {"selecting", "verifying"}
  /\ Over(f, "unavailable")
  /\ UNCHANGED <<signing, selectable, discovery, client, grant, events>>

\* Mutant of AuthorizedParty: several audiences need no authorized party.
AnyAudience(id, p) == id.azp \in {None, p}

\* _validate_authorized_party
AuthorizedParty(id, p) == id.azp = p \/ (id.azp = None /\ Cardinality(id.aud) = 1)

\* The worker's verdict and the bindings resolve_identity checks after it.
Verify(f) ==
  /\ flow[f].pc = "verifying"
  /\ LET id == flow[f].id
         p == flow[f].by
     IN IF /\ id.iss = IssuerOf[p] /\ id.iss = client[p].jwks /\ id.key.version = flow[f].verifier
           /\ p \in id.aud /\ id.sound
           /\ AuthorizedParty(id, p)
           /\ id.nonce = flow[f].tx.nonce
        THEN Set(f, [flow[f] EXCEPT !.pc = "identified"])
        ELSE Over(f, "refused")
  /\ UNCHANGED <<signing, selectable, discovery, client, grant, events>>

\* _github_verified_email: the first verified address, a primary one first.
VerifiedEmail(emails) ==
  LET verified == {n \in DOMAIN emails : emails[n].verified}
      primary == {n \in verified : emails[n].primary}
      chosen == IF primary = {} THEN verified ELSE primary
  IN IF chosen = {} THEN 0 ELSE CHOOSE n \in chosen : \A m \in chosen : n <= m

\* GitHubOAuthProvider.resolve_identity: profile and addresses are read
\* together with the access token just obtained.
ResolveGitHub(f, q, emails) ==
  /\ flow[f].pc = "tokens" /\ q \in GitHub
  /\ IF /\ flow[f].tx.provider = q /\ flow[f].tx.issuer = IssuerOf[q]
        /\ Required \subseteq flow[f].scopes
     THEN IF Open(q)
          THEN Set(f, [flow[f] EXCEPT !.pc = "identified", !.emails = emails,
                                      !.email = VerifiedEmail(emails)])
          ELSE Over(f, "closed")
     ELSE Over(f, "refused")
  /\ UNCHANGED <<signing, selectable, discovery, client, grant, events>>

\* The API refuses, limits or garbles one of the two reads.
GitHubFails(f) ==
  /\ flow[f].pc = "tokens" /\ flow[f].by \in GitHub
  /\ Over(f, "unavailable")
  /\ UNCHANGED <<signing, selectable, discovery, client, grant, events>>

----------------------------------------------------------------------------
(* The end of a grant, of a client, of a key                               *)

Revoke(f) ==
  /\ flow[f].pc \in {"identified", "kept"}
  /\ IF Open(flow[f].by) THEN Set(f, [flow[f] EXCEPT !.pc = "revoking"]) ELSE Fail(f, "closed")
  /\ UNCHANGED <<signing, selectable, discovery, client, grant, events>>

\* The server ends the grant; when its answer is lost the caller keeps the tokens.
Revoked(f, answered) ==
  /\ flow[f].pc = "revoking" /\ Open(flow[f].by)
  /\ grant' = [grant EXCEPT ![f].live = 0, ![f].missed = (@ \/ ~answered)]
  /\ IF answered THEN Over(f, "none") ELSE Fail(f, "refused")
  /\ UNCHANGED <<signing, selectable, discovery, client, events>>

Forget(f) ==
  /\ flow[f].pc \in {"identified", "kept", "over"}
  /\ Set(f, NoFlow)
  /\ grant' = [grant EXCEPT ![f] = NoGrant]
  /\ UNCHANGED <<signing, selectable, discovery, client, events>>

Close(p) ==
  /\ client[p].stage = "built" /\ Open(p) /\ events < MaxEvents
  /\ client' = [client EXCEPT ![p].closed = TRUE]
  /\ events' = events + 1
  /\ UNCHANGED <<signing, selectable, discovery, flow, grant>>

CloseDiscovery ==
  /\ discovery = "open" /\ events < MaxEvents
  /\ discovery' = "closed"
  /\ events' = events + 1
  /\ UNCHANGED <<signing, selectable, client, flow, grant>>

\* External: the issuer replaces its key, under a new identifier or the old one.
ReplaceKey(i, kid) ==
  /\ i \in {IssuerOf[p] : p \in OIDC} /\ events < MaxEvents
  /\ signing' = [signing EXCEPT ![i] = [kid |-> kid, version |-> @.version + 1]]
  /\ events' = events + 1
  /\ UNCHANGED <<selectable, discovery, client, flow, grant>>

\* External: the JWKS provider reads the source again.
RefreshKeys(i) ==
  /\ selectable[i] # signing[i]
  /\ selectable' = [selectable EXCEPT ![i] = signing[i]]
  /\ UNCHANGED <<signing, discovery, client, flow, grant, events>>

----------------------------------------------------------------------------
ClientsInit ==
  /\ \E kid \in Kids : signing = [i \in Issuers |-> [kid |-> kid, version |-> 1]]
  /\ selectable = signing
  /\ discovery = "open"
  /\ client = [p \in Providers |->
                 [stage |-> IF p \in GitHub THEN "built" ELSE "absent", closed |-> FALSE,
                  source |-> None, jwks |-> None, verifiers |-> [k \in Kids |-> 0]]]
  /\ flow = [f \in Flows |-> NoFlow]
  /\ grant = [f \in Flows |-> NoGrant]
  /\ events = 0

Discovering(p) ==
  \/ \E source \in Issuers : Discover(p, source)
  \/ DiscoveryFails(p)
  \/ client[p].stage = "fetching" /\ \E d \in Documents(client[p].source) : FetchDocument(p, d)

Requesting(f) ==
  \/ \E p \in Providers, scopes \in SUBSET (Allowed \cup Unlisted) : Begin(f, p, scopes)
  \/ \E q \in Providers : Exchange(f, q)
  \/ \E current \in BOOLEAN : Refresh(f, current)
  \/ Unsent(f)
  \/ /\ flow[f].pc = "exchanging"
     /\ \E granted \in SUBSET (Allowed \cup Unlisted), refresh \in {0, 1},
           id \in IF flow[f].by \in OIDC THEN Assertions(f) \cup {None} ELSE {None} :
          Redeem(f, granted, refresh, id)
  \/ /\ flow[f].pc = "refreshing"
     /\ \E rotated \in BOOLEAN, granted \in SUBSET grant[f].scopes : Renew(f, rotated, granted)
  \/ \E status \in {"malformed", "invalid_grant", "error"} : Refuse(f, status)
  \/ Lose(f) \/ Receive(f)

Identifying(f) ==
  \/ \E q \in OIDC : Resolve(f, q)
  \/ \E refetched \in BOOLEAN : SelectKey(f, refetched)
  \/ Unavailable(f) \/ Verify(f)
  \/ \E q \in GitHub, emails \in BoundedSeq(Email, 2) : ResolveGitHub(f, q, emails)
  \/ GitHubFails(f)

Ending(f) ==
  \/ Revoke(f) \/ \E answered \in BOOLEAN : Revoked(f, answered)
  \/ Forget(f)

ClientsNext ==
  \/ \E p \in OIDC : Discovering(p)
  \/ \E f \in Flows : Requesting(f) \/ Identifying(f) \/ Ending(f)
  \/ \E p \in Providers : Close(p)
  \/ CloseDiscovery
  \/ \E i \in Issuers, kid \in Kids : ReplaceKey(i, kid)
  \/ \E i \in Issuers : RefreshKeys(i)

ClientsSpec == ClientsInit /\ [][ClientsNext]_clientsVars

----------------------------------------------------------------------------
(* Properties                                                              *)

ClientsTypeOK ==
  /\ signing \in [Issuers -> Key] /\ selectable \in [Issuers -> Key]
  /\ discovery \in {"open", "closed"}
  /\ client \in [Providers -> Client]
  /\ \A f \in Flows :
       /\ flow[f].pc \in {"idle", "redirected", "exchanging", "asked", "tokens", "selecting",
                          "verifying", "identified", "refreshing", "kept", "revoking", "over"}
       /\ flow[f].answer = None \/ flow[f].answer.refresh \in Generations
       /\ flow[f].refresh \in Generations /\ grant[f] \in Grant
  /\ events \in 0 .. MaxEvents

\* The flow's ID token is its issuer's, for this client and this login, under the
\* key selected for it.
MadeFor(f) ==
  LET id == flow[f].id
      p == flow[f].by
  IN /\ id.iss = IssuerOf[p] /\ id.key = flow[f].key
     /\ p \in id.aud /\ id.azp \in {None, p}
     /\ id.aud # {p} => id.azp = p
     /\ id.nonce = flow[f].tx.nonce /\ id.sound

\* An identity is what this provider's own issuer asserted, for this client and
\* this login: not a token of a sibling realm, of another client, of another
\* flow's login, or signed with a key that was replaced before the key was
\* selected; and an email address of GitHub's is the one its owner verified,
\* the primary one if that is verified.
IdentitiesAreAsserted ==
  \A f \in Flows : flow[f].pc = "identified" =>
    LET p == flow[f].by
        emails == flow[f].emails
        e == flow[f].email
    IN /\ flow[f].tx.provider = p
       /\ p \in OIDC => MadeFor(f)
       /\ e # 0 => emails[e].verified
       /\ (\E n \in DOMAIN emails : emails[n].verified) => e # 0
       /\ (\E n \in DOMAIN emails : emails[n].verified /\ emails[n].primary) => emails[e].primary

\* The user who did sign in is let in: a token that its issuer made for this
\* login and signed with the key that is selected for it is never refused,
\* whatever keys the same identifier had before.
ProperTokensAreAccepted ==
  [][\A f \in Flows :
       flow[f].pc = "verifying" /\ MadeFor(f) => flow'[f].error # "refused"]_clientsVars

\* What a caller stores stays in step with the authorization server over any
\* number of refreshes: the refresh token is the one the server accepts and
\* the scopes are ones it granted, unless an answer was lost on the way; and
\* nobody is told to sign in again while the token held still works.
GrantsAreKept ==
  \A f \in Flows :
    /\ Holds(f) /\ flow[f].pc # "asked" /\ flow[f].error # "reauthorize" /\ ~grant[f].missed =>
         /\ flow[f].scopes \subseteq grant[f].scopes
         /\ flow[f].pc # "over" => flow[f].refresh = grant[f].live
    /\ flow[f].error = "reauthorize" /\ flow[f].refresh # 0 => flow[f].refresh # grant[f].live

\* Every login ends with its own issuer's word for it, or with none.
LoginsAreSound == ClientsTypeOK /\ IdentitiesAreAsserted

=============================================================================
