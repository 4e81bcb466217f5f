---------------------------- MODULE RequestPipeline ----------------------------
(***************************************************************************)
(* One request after another through the security middleware: credential   *)
(* slots, authenticators, identity resolvers, the route's quorum, the      *)
(* application's authorization, connect tokens and guards.  Every call     *)
(* into a store, a verifier or a resolver is an await: while a request     *)
(* waits, keys are rotated and revoked, accounts and grants change,        *)
(* providers log sessions out and time passes.                             *)
(***************************************************************************)
EXTENDS APIKeys, OIDCLogout, RoutePolicies

CONSTANTS
  Route,           \* the declaration of each route
  KeysAsBearer,    \* API keys are accepted in the Authorization header too
  SessionExpiry,   \* when the sessions end
  ConnectTokens,   \* connect tokens of WebSocket handshakes
  Resolvers,       \* whether the application resolves authorization itself
  AuthorityOf,     \* the versions of what each principal may do
  LoginEvidence,   \* evidence an access token may be issued with
  Purposes,        \* of capabilities
  Genuine,         \* the foreign tokens their provider really issued to this API
  Expect,          \* what each route is meant to demand, told without the compiler
  MaxCredentials,  \* credentials in one request
  MaxEvents,       \* steps of the world, and credentials of the request among them
  MaxTime

VARIABLES
  hasResolver, \* the application was started with a resolver of its own
  authority,  \* the version of each principal's authority
  request,    \* the request in progress, or the last one answered
  events,     \* steps of the world so far
  \* What happened, for the properties.
  history     \* during the request: credentials seen good, always good, and authorities

worldVars == <<apiKeyVars, tokenVars, logoutVars, now, authority, events, hasResolver>>
vars == <<worldVars, request, history>>

Principals == DOMAIN AuthorityOf
Slots == {"session", "bearer", "api_key"}

\* The application registers the three mechanisms; whoever a credential, a
\* session or a connect token can name is known to it, by some authority.
ASSUME PartiesAssumption ==
  /\ Registered = Slots /\ Len(Mechanisms) \in Nat /\ DOMAIN Mechanisms = 1..Len(Mechanisms)
  /\ "session" \in SessionCapable
  /\ Anonymous \notin Principals /\ Accounts \subseteq Principals
  /\ \A k \in Keys : KeyOwner[k] \in Principals
  /\ \A s \in Sessions : MappingOf[s].account \in Accounts
  /\ \A connect \in ConnectTokens : connect.subject \in Principals
  /\ \A p \in Principals : Len(AuthorityOf[p]) \in Nat \ {0} /\ DOMAIN AuthorityOf[p] = 1..Len(AuthorityOf[p])
  /\ "none" \notin ProviderSessions /\ Resolvers \subseteq BOOLEAN
  /\ UsageCapacity \in Nat /\ MaxEvents \in Nat /\ MaxTime \in Nat

\* What the ring signs is the issuer's, in this composition for this API.
Issued(t) ==
  /\ t.kid = t.signer /\ t.type \in {"at+jwt", "capability+jwt"} /\ t.subject \in Accounts
  /\ t.issuer = LocalIssuer /\ t.audience = LocalAudience
  /\ t.iat \in Int /\ t.exp \in Int /\ t.iat < t.exp /\ t.exp <= t.iat + Lifetime /\ t.nbf = Never

\* One slot, which trusts the ring, is configured for the issuer's access
\* tokens and accepts their lifetime.
LocalAccess == [type |-> "at+jwt", issuer |-> LocalIssuer, audience |-> LocalAudience]
ServesLocalAccess(s) ==
  /\ SelectSlot(LocalAccess) = {s} /\ s.keys = "ring" /\ LocalAudience \in s.profile.audiences
  /\ s.profile.maximum = Unbounded \/ (s.profile.maximum \in Int /\ Lifetime <= s.profile.maximum)

\* A provider's token for this API has a slot that verifies it while it lasts.
ServesProvider(s, t) ==
  /\ SelectSlot(t) = {s} /\ s.keys # "ring" /\ t.type \in s.profile.types /\ t.audience \in s.profile.audiences
  /\ t.iat <= Skew /\ t.iat < t.exp /\ (t.nbf # Never => t.nbf < t.exp)
  /\ s.profile.maximum # Unbounded => t.exp - t.iat <= s.profile.maximum

\* Nobody else has the ring's private keys; the genuine tokens are those a
\* provider's key signed for this API, about principals of its own.
ASSUME TokensAssumption ==
  /\ Lifetime \in Nat \ {0} /\ Skew \in Nat /\ MaxKeys \in Nat \ {0}
  /\ \A t \in FirstTokens : Issued(t) /\ t.signer = 1 /\ t.iat <= 0
  /\ IsFiniteSet(BearerSlots) /\ \E s \in BearerSlots : ServesLocalAccess(s)
  /\ ProviderKeys \cap 1..MaxKeys = {}
  /\ \A t \in ForeignTokens : t.signer \notin 1..MaxKeys /\ t.iat \in Int /\ t.exp \in Int
  /\ \A t \in ForeignTokens, s \in BearerSlots :
       s.keys # "ring" /\ t.issuer = s.profile.issuer /\ t.audience \in s.profile.audiences
         /\ t.type \in s.profile.types /\ SignatureValid(t, ProviderKeys) => t \in Genuine
  /\ \A t \in Genuine :
       /\ t \in ForeignTokens /\ t.type = "at+jwt" /\ SignatureValid(t, ProviderKeys)
       /\ t.subject \in Principals \ Accounts /\ \E s \in BearerSlots : ServesProvider(s, t)

-------------------------------------------------------------------------------
(* Credentials, and how the slots read them from the headers.  (Header and  *)
(* Authorization may hold two API keys.)                                    *)

NoCredential == [kind |-> "none"]
Malformed    == [kind |-> "malformed"]    \* repeated, oversized or unprintable
OtherScheme  == [kind |-> "other"]        \* Authorization, but not Bearer
KeyCredential(k, right) == [kind |-> "key", key |-> k, right |-> right]
TokenCredential(t) == [kind |-> "token", token |-> t]
SessionCredential(s, bound) == [kind |-> "session", session |-> s, bound |-> bound]

Presented(c) == c.kind \in {"key", "token", "session"}

BearerSlot(h) ==
  CASE h.authorization = OtherScheme -> Malformed
    [] h.authorization.kind = "key" -> IF KeysAsBearer THEN NoCredential ELSE Malformed
    [] OTHER -> h.authorization

\* One key in both headers is one credential; two keys are none.
AuthorizationKey(h) ==
  CASE h.authorization = Malformed   -> Malformed
    [] h.authorization = OtherScheme -> IF h.header = NoCredential THEN NoCredential ELSE Malformed
    [] h.authorization.kind = "key"  -> IF h.header \in {NoCredential, h.authorization} THEN h.authorization ELSE Malformed
    [] OTHER -> h.header
APIKeySlot(h) ==
  IF h.header = Malformed \/ ~KeysAsBearer THEN h.header ELSE AuthorizationKey(h)

Extract(h) == [session |-> h.cookie, bearer |-> BearerSlot(h), api_key |-> APIKeySlot(h)]

Load(h) == Cardinality({f \in DOMAIN h : h[f] # NoCredential})

Headers ==
  LET Key == {KeyCredential(k, TRUE) : k \in {j \in Keys : keys[j] # NoKey}}
             \cup {KeyCredential(k, FALSE) : k \in FirstKeys}
      Token == {TokenCredential(t) : t \in tokens \cup ForeignTokens}
      Cookie == {SessionCredential(s, b) : s \in Sessions, b \in BOOLEAN}
  IN {h \in [cookie : {NoCredential} \cup Cookie, header : {NoCredential, Malformed} \cup Key,
             authorization : {NoCredential, OtherScheme, Malformed} \cup Key \cup Token] :
        Load(h) <= MaxCredentials}

-------------------------------------------------------------------------------
(* What each authenticator and identity resolver answers.                   *)

\* A session's account is read with its record, in one authentication; the
\* application's store has revoked the sessions of a revoked mapping.
SessionAccepted(c) ==
  /\ c.bound /\ now < SessionExpiry /\ c.session \notin revoked
  /\ accounts[MappingOf[c.session].account] = [epoch |-> 0, active |-> TRUE]

Accepted(c) ==
  CASE c.kind = "key"     -> KeyAccepted(c.key, c.right)
    [] c.kind = "token"   -> BearerAccepted(c.token)
    [] c.kind = "session" -> SessionAccepted(c)

Plain(evidence) == [evidence |-> evidence, bounds |-> NoBounds, grants |-> NoGrants]

Outcome(c) ==
  CASE c.kind = "key"     -> [Plain(KeyEvidence(c.key)) EXCEPT !.bounds = KeyBounds[c.key]]
    [] c.kind = "token"   -> BearerOutcome(c.token)
    [] c.kind = "session" -> Plain([at |-> 0, expires |-> SessionExpiry, methods |-> {"password"}, traits |-> {}])

PrincipalOf(c) ==
  CASE c.kind = "key"     -> KeyOwner[c.key]
    [] c.kind = "token"   -> c.token.subject
    [] c.kind = "session" -> MappingOf[c.session].account

\* The accounts behind keys and local tokens must be active; a session needs
\* no further call.
Identified(c) ==
  CASE c.kind = "key"     -> PrincipalOf(c) \in Accounts => accounts[PrincipalOf(c)].active
    [] c.kind = "token"   -> BearerIdentity(c.token)
    [] c.kind = "session" -> TRUE

-------------------------------------------------------------------------------
(* What was true during the request, told from the world and not from what  *)
(* the evaluator computes.                                                  *)

Logged(s) == \E l \in logouts : l.subject \in {"none", MappingOf[s].subject} /\ l.sid \in {"none", MappingOf[s].sid}

Good(c) ==
  CASE c.kind = "key" ->
         /\ c.right /\ keys[c.key] # NoKey /\ (keys[c.key].expires = Never \/ now < keys[c.key].expires)
         /\ keys[c.key].revoked # Never => keys[c.key].overlap # Never /\ now <= keys[c.key].overlap
    [] c.kind = "token" ->
         /\ c.token \in tokens \cup Genuine /\ c.token.type = "at+jwt"
         /\ now < c.token.exp + Skew /\ (c.token.nbf = Never \/ c.token.nbf <= now + Skew)
         /\ c.token \in tokens => c.token.signer \in AllVerificationKeys
    [] c.kind = "session" -> c.bound /\ now < SessionExpiry /\ ~Logged(c.session)

Standing(c) ==
  LET p == PrincipalOf(c)
  IN p \in Accounts => /\ accounts[p].active
                       /\ c.kind = "token" => c.token.epoch = accounts[p].epoch
                       /\ c.kind = "session" => accounts[p].epoch = 0

CredentialsOf(req) == {req.credentials[slot] : slot \in {s \in Slots : Presented(req.credentials[s])}}

Seen ==
  LET credentials == CredentialsOf(request)
      good     == {c \in credentials : Good(c)}
      standing == {c \in credentials : Standing(c)}
  IN [good |-> good, standing |-> standing, steady |-> good \cap standing, versions |-> {authority}]
Nothing == [good |-> {}, standing |-> {}, steady |-> {}, versions |-> {}]

And(h, seen) ==
  [good |-> h.good \cup seen.good, standing |-> h.standing \cup seen.standing,
   steady |-> h.steady \cap seen.steady, versions |-> h.versions \cup seen.versions]

Track ==
  history' = IF request'.phase = "idle" THEN Nothing
             ELSE IF request.phase = "idle" THEN Seen'
             ELSE IF request.phase = "done" THEN history
             ELSE And(history, Seen')

-------------------------------------------------------------------------------
(* The evaluator.                                                           *)

Unanswered == 0
NoConnect == [subject |-> Anonymous]
NoContext == [evidence |-> {}, authorization |-> NoGrants]
Idle == [phase |-> "idle", load |-> 0, route |-> "none", credentials |-> [slot \in Slots |-> NoCredential], connect |-> NoConnect,
         plan |-> Passive, todo |-> {}, outcomes |-> <<>>, invalid |-> FALSE, unavailable |-> FALSE, faulted |-> FALSE,
         principal |-> Anonymous, context |-> NoContext, answer |-> Unanswered, at |-> 0]

\* The routes of the application that starts, and their plans, compiled once.
Started  == {r \in DOMAIN Route : Starts(Route[r])}
Compiled == [r \in Started |-> CompilePolicy(PolicyOf(Route[r]))]
Handshakes == {r \in Started : Route[r].websocket}

\* Expect says of each route what its policy says, of the slots used.
Meets(policy, used) ==
  \/ policy.kind = "any_of" /\ policy.of \cap used # {}
  \/ policy.kind = "all_of" /\ policy.of \subseteq used
  \/ policy.kind = "at_least" /\ Cardinality(policy.of \cap used) >= policy.count
ASSUME ExpectAssumption ==
  \A r \in Started :
    LET policy == PolicyOf(Route[r])
    IN IF policy.kind \in {"public", "exclude"} THEN Expect[r].open
       ELSE /\ policy.kind \in {"any_of", "all_of", "at_least"}
            /\ ~Expect[r].open /\ Expect[r].anonymous = policy.optional
            /\ \A used \in SUBSET Slots : (\E M \in Expect[r].who : M \subseteq used) <=> Meets(policy, used)

\* A connect token replaces the quorum of its route: what else is presented
\* must be valid, and is not needed.
Plan(plan, connect) ==
  IF connect = NoConnect THEN plan ELSE [plan EXCEPT !.alternatives = {}, !.anonymous = TRUE]

Answered(req, code) == [req EXCEPT !.phase = "done", !.answer = code, !.at = now, !.todo = {}]

Next(todo) == CHOOSE i \in todo : \A j \in todo : i <= j
PresentedSlots(credentials) == {i \in DOMAIN Mechanisms : Presented(credentials[Mechanisms[i]])}
CredentialAt(req, i) == req.credentials[Mechanisms[i]]
PrincipalsOf(req) == {PrincipalOf(CredentialAt(req, i)) : i \in PresentedSlots(req.credentials)}

SatisfiedByAny(plan, successful) == \E M \in plan.alternatives : M \cap successful # {}
Satisfied(plan, successful) == \E M \in plan.alternatives : M \subseteq successful

Authorizing(req, principal) == [req EXCEPT !.phase = "authorize", !.principal = principal, !.todo = {}]

\* All identities are one; the plan's quorum is reached, or the request is
\* anonymous and may be.
Quorum(req) ==
  LET plan       == req.plan
      successful == {Mechanisms[i] : i \in PresentedSlots(req.credentials)}
      principals == PrincipalsOf(req)
      satisfied  == plan.alternatives = {} \/ Satisfied(plan, successful)
  IN IF Cardinality(principals) > 1 THEN Answered(req, 401)
     ELSE IF satisfied /\ principals # {} THEN Authorizing(req, CHOOSE p \in principals : TRUE)
     ELSE IF ~satisfied /\ ~(plan.anonymous /\ principals = {}) THEN Answered(req, 401)
     ELSE IF req.connect # NoConnect THEN Authorizing(req, Anonymous)
     ELSE [req EXCEPT !.phase = "guard"]

\* Unavailability comes before invalidity, and both before any decision.
InvalidFirst(req, next) ==
  IF req.invalid THEN Answered(req, 401)
  ELSE IF req.unavailable THEN Answered(req, 503)
  ELSE next
Terminal(req, next) ==
  IF req.unavailable THEN Answered(req, 503)
  ELSE IF req.invalid THEN Answered(req, 401)
  ELSE next

AfterResolution(req) == IF req.todo # {} THEN req ELSE Terminal(req, Quorum(req))
AfterAuthentication(req) ==
  IF req.todo # {} THEN req
  ELSE Terminal(req, AfterResolution([req EXCEPT !.phase = "resolve", !.todo = PresentedSlots(req.credentials)]))

\* The middleware: anonymous until proved otherwise.  A handshake may bring
\* a connect token to a public route, not to an excluded one.
Arrived(r, h, connect) ==
  LET credentials == Extract(h)
  IN [Idle EXCEPT !.load = Load(h), !.route = r, !.connect = connect, !.credentials = credentials,
                  !.plan = Plan(Compiled[r], connect),
                  !.invalid = \E slot \in Slots : credentials[slot] = Malformed]

Begun(req) ==
  LET plan == req.plan
  IN CASE plan.authenticate -> AfterAuthentication([req EXCEPT !.phase = "authenticate",
                                                               !.todo = PresentedSlots(req.credentials)])
       [] ~plan.authenticate /\ ~plan.bypass /\ req.connect # NoConnect -> Authorizing(req, Anonymous)
       [] OTHER -> [req EXCEPT !.phase = "guard"]

Arrive(r, h, connect) ==
  /\ connect # NoConnect => r \in Handshakes
  /\ request' = Begun(Arrived(r, h, connect))
  /\ UNCHANGED worldVars /\ Track

\* Whether the slots are read: by the evaluator, on every handshake but an
\* excluded one.
Extracts(r) == IF r \in Handshakes THEN ~Compiled[r].bypass ELSE Compiled[r].authenticate

\* A credential slot raises: nothing else is asked.
ExtractionFails ==
  /\ request = Idle
  /\ \E r \in Started :
       /\ Extracts(r)
       /\ request' = Answered([Idle EXCEPT !.route = r, !.faulted = TRUE], 503)
  /\ UNCHANGED worldVars /\ Track

Request ==
  /\ request = Idle
  /\ \E h \in {g \in Headers : events + Load(g) <= MaxEvents} :
       \E r \in Started, connect \in {NoConnect} \cup ConnectTokens : Arrive(r, h, connect)

Authenticate ==
  LET i == Next(request.todo)
      c == CredentialAt(request, i)
      rest == [request EXCEPT !.todo = @ \ {i}]
  IN /\ request.phase = "authenticate"
     /\ request' = AfterAuthentication(IF Accepted(c) THEN [rest EXCEPT !.outcomes = Append(@, Outcome(c))]
                                       ELSE [rest EXCEPT !.invalid = TRUE])
     /\ IF c.kind = "key" /\ Accepted(c) THEN ObserveUse(c.key) ELSE UNCHANGED apiKeyVars
     /\ UNCHANGED <<tokenVars, logoutVars, now, authority, events, hasResolver>> /\ Track

\* An identity resolver is asked for every credential but a session.
Resolving == request.phase = "resolve" /\ CredentialAt(request, Next(request.todo)).kind # "session"

\* A verifier or store reports that it cannot answer: the others are still
\* asked, and so is the next identity resolver.
Unavailable ==
  LET rest == [request EXCEPT !.todo = @ \ {Next(request.todo)}, !.unavailable = TRUE, !.faulted = TRUE]
  IN /\ request.phase = "authenticate" \/ Resolving
     /\ request' = IF request.phase = "resolve" THEN AfterResolution(rest) ELSE AfterAuthentication(rest)
     /\ UNCHANGED worldVars /\ Track

\* It raises: the request ends at once.
Raise ==
  /\ request.phase = "authenticate" \/ Resolving
     \/ (request.phase = "authorize" /\ hasResolver)
  /\ request' = Answered([request EXCEPT !.faulted = TRUE], 503)
  /\ UNCHANGED worldVars /\ Track

ResolveIdentity ==
  LET i == Next(request.todo)
      rest == [request EXCEPT !.todo = @ \ {i}]
  IN /\ request.phase = "resolve"
     /\ request' = AfterResolution(IF Identified(CredentialAt(request, i)) THEN rest
                                   ELSE [rest EXCEPT !.invalid = TRUE])
     /\ UNCHANGED worldVars /\ Track

\* The application's authorization of a principal, which it may withhold, or
\* without a resolver the grants of its credentials.
Withheld == [withheld |-> TRUE]
Snapshot(principal, outcomes) ==
  CASE hasResolver -> AuthorityOf[principal][authority[principal]]
    [] OTHER -> MergeAuthorization(outcomes)

\* A connect token names the principal of an otherwise anonymous handshake
\* and bounds the authorization of any other.
SubjectOf(req) == IF req.principal = Anonymous THEN req.connect.subject ELSE req.principal
ConnectEvidence(req) == IF req.connect = NoConnect THEN {} ELSE {req.connect.evidence}
ConnectBounds(req)   == IF req.connect = NoConnect THEN {} ELSE {req.connect.bounds}

Merged(req, snapshot, outcomes) ==
  [req EXCEPT !.phase = "guard", !.principal = SubjectOf(req),
     !.context = [evidence |-> {o.evidence : o \in outcomes} \cup ConnectEvidence(req),
                  authorization |-> ResolveAuthorization(snapshot, {o.bounds : o \in outcomes} \cup ConnectBounds(req))]]

Authorize ==
  LET outcomes == {request.outcomes[i] : i \in DOMAIN request.outcomes}
      snapshot == Snapshot(SubjectOf(request), outcomes)
  IN /\ request.phase = "authorize"
     /\ request' = IF snapshot = Withheld \/ (request.connect # NoConnect /\ SubjectOf(request) # request.connect.subject)
                   THEN Answered(request, 401)
                   ELSE Merged(request, snapshot, outcomes)
     /\ UNCHANGED worldVars /\ Track

\* Guards run when the request reaches its handler.
Guard ==
  LET decision == Decide(Route[request.route].guard, request.principal, request.context, Route[request.route].tenant)
  IN /\ request.phase = "guard"
     /\ request' = Answered(request, CASE decision = "allowed" -> 200 [] decision = "forbidden" -> 403 [] OTHER -> 401)
     /\ UNCHANGED worldVars /\ Track

Finish ==
  /\ request.phase = "done" /\ request' = Idle
  /\ UNCHANGED worldVars /\ Track

-------------------------------------------------------------------------------
(* The world around it.                                                     *)

Tick ==
  /\ now < MaxTime /\ now' = now + 1
  /\ UNCHANGED <<apiKeyVars, tokenVars, logoutVars, authority>>

ChangeAuthority(p) ==
  /\ hasResolver /\ authority[p] < Len(AuthorityOf[p])
  /\ authority' = [authority EXCEPT ![p] = @ + 1]
  /\ UNCHANGED <<apiKeyVars, tokenVars, logoutVars, now>>

KeyStep ==
  /\ \/ \E k \in Keys : IssueKey(k) \/ RevokeKey(k)
     \/ \E current, new \in Keys, overlap \in Overlaps : RotateKey(current, new, overlap)
     \/ \E force \in BOOLEAN : FlushBegins(force)
  /\ UNCHANGED <<tokenVars, logoutVars, now, authority>>

\* A deployment finds no request under way, and the lifespan has written the
\* usage buffer.
TokenStep ==
  /\ \/ \E a \in Accounts, e \in LoginEvidence, S \in {{}, {"read"}} : IssueAccessToken(a, e, S)
     \/ \E a \in Accounts, p \in Purposes : MintCapability(a, p, LocalAudience)
     \/ \E a \in Accounts : EndEpoch(a) \/ Deactivate(a)
     \/ /\ request = Idle /\ Entries = {}
        /\ \E retained \in SUBSET AllVerificationKeys : RotateSigningKey(retained)
  /\ UNCHANGED <<apiKeyVars, logoutVars, now, authority>>

LogoutStep ==
  /\ \/ \E t \in ForeignTokens \cup tokens : Backchannel(t)
     \/ \E sid, binding \in ProviderSessions : Frontchannel(sid, BindingOf[binding])
  /\ UNCHANGED <<apiKeyVars, tokenVars, now, authority>>

World ==
  /\ events + request.load < MaxEvents /\ events' = events + 1
  /\ \/ Tick \/ (\E p \in Principals : ChangeAuthority(p)) \/ KeyStep \/ TokenStep \/ LogoutStep
  /\ UNCHANGED <<request, hasResolver>> /\ Track

Flush ==
  /\ \E entry \in flush.todo : FlushSkips(entry) \/ FlushWrites(entry) \/ \E ok \in BOOLEAN : FlushAnswered(entry, ok)
  /\ UNCHANGED <<tokenVars, logoutVars, now, authority, events, hasResolver, request>> /\ Track

-------------------------------------------------------------------------------
Init ==
  /\ APIKeysInit /\ BearerTokensInit /\ LogoutInit
  /\ now = 0 /\ events = 0 /\ authority = [p \in Principals |-> 1] /\ hasResolver \in Resolvers
  /\ request = Idle /\ history = Nothing

Handle ==
  \/ Request \/ ExtractionFails
  \/ Authenticate \/ ResolveIdentity \/ Authorize \/ Guard \/ Finish
  \/ Unavailable \/ Raise

NextStep == Handle \/ World \/ Flush
Spec == Init /\ [][NextStep]_vars

-------------------------------------------------------------------------------
Phases == {"idle", "authenticate", "resolve", "authorize", "guard", "done"}
TypeOK ==
  /\ APIKeysTypeOK
  /\ now \in 0..MaxTime /\ events \in 0..MaxEvents
  /\ \A p \in Principals : authority[p] \in DOMAIN AuthorityOf[p]
  /\ \A t \in tokens : t.signer \in 1..ring.active /\ t.kid = t.signer
  /\ revoked \subseteq Sessions
  /\ request.phase \in Phases /\ request.answer \in {Unanswered, 200, 401, 403, 503}
  /\ (request.phase = "done") = (request.answer # Unanswered)
  /\ request.phase \in {"authenticate", "resolve"} <=> request.todo # {}
  /\ request.principal \in Principals \cup {Anonymous}

Admitted == request.answer = 200
SlotsUsed == {slot \in Slots : Presented(request.credentials[slot])}
ExpectationMet ==
  \/ \E M \in Expect[request.route].who : M \subseteq SlotsUsed
  \/ Expect[request.route].anonymous /\ SlotsUsed = {}

\* Nobody is admitted on less than the route asks for: every credential of
\* an admitted request was good at some time of the request and its account
\* standing at some time, all of them name the principal the handler sees,
\* and they are a quorum of what the route is meant to demand, or none and
\* the route may be anonymous.  A handshake with a connect token is its
\* subject's.  A public or excluded handler sees nobody else, whatever is sent
\* (authentication.py:1128-1271, _openapi.py:82-150).
AdmissionsAreProved ==
  Admitted =>
    IF Expect[request.route].open
    THEN /\ request.principal \in {Anonymous, request.connect.subject}
         /\ request.principal = Anonymous => request.context = NoContext
    ELSE /\ \A slot \in Slots : request.credentials[slot] # Malformed
         /\ CredentialsOf(request) \subseteq history.good \cap history.standing
         /\ \A c \in CredentialsOf(request) : PrincipalOf(c) = request.principal
         /\ IF request.connect # NoConnect THEN request.principal = request.connect.subject
            ELSE ExpectationMet /\ (SlotsUsed = {} => request.principal = Anonymous)

\* Nobody is turned away for another reason than the answer says: 503 says
\* that something could not be asked, whatever the other credentials were,
\* and nothing else does; 401 that a credential was not good and standing
\* throughout, or that what was sent is not what the route asks for; 403
\* that a known principal lacks what a guard asks for
\* (authentication.py:1212-1271, guards.py).
RefusalsAreDeserved ==
  request.phase = "done" =>
    /\ request.answer = 503 <=> request.faulted
    /\ request.answer = 401 =>
         \/ \E slot \in Slots : request.credentials[slot] = Malformed
         \/ ~(CredentialsOf(request) \subseteq history.steady)
         \/ \E c, d \in CredentialsOf(request) : PrincipalOf(c) # PrincipalOf(d)
         \/ request.connect = NoConnect /\ ~Expect[request.route].open /\ ~ExpectationMet
         \/ request.connect # NoConnect /\ \E c \in CredentialsOf(request) : PrincipalOf(c) # request.connect.subject
         \/ hasResolver /\ \E v \in history.versions, p \in {request.principal, request.connect.subject} \ {Anonymous} :
              AuthorityOf[p][v[p]] = Withheld
         \/ request.principal = Anonymous /\ Route[request.route].guard.kind # "none"
    /\ request.answer = 403 => request.principal # Anonymous /\ Route[request.route].guard.kind # "none"

Evaluated == IF Expect[request.route].open THEN {} ELSE CredentialsOf(request)
BoundsSent ==
  {KeyBounds[c.key] : c \in {d \in Evaluated : d.kind = "key"}}
  \cup {[NoBounds EXCEPT !.scope = c.token.scopes] : c \in {d \in Evaluated : d.kind = "token" /\ d.token \in Genuine}}
  \cup ConnectBounds(request)

\* What the handler may do is what one version of the principal's authority
\* allowed during the request, and no credential that was presented, nor the
\* connect token, allows less: a role of a tenant needs a bound on tenants
\* and one on roles to admit it (authentication.py:1176-1209, 1273-1318,
\* context.py:372-411).
AuthorityIsNarrowed ==
  LET granted == request.context.authorization
      p       == request.principal
  IN Admitted /\ p # Anonymous =>
       /\ hasResolver =>
            \E v \in history.versions : AuthorityOf[p][v[p]] # Withheld /\ \A kind \in DOMAIN granted : granted[kind] \subseteq AuthorityOf[p][v[p]][kind]
       /\ ~hasResolver =>
            \A kind \in DOMAIN granted : \A x \in granted[kind] :
              \E c \in Evaluated : c.kind = "token" /\ c.token \in tokens /\ kind = "scope" /\ x \in c.token.scopes
       /\ \A b \in BoundsSent :
            /\ \A kind \in Kinds : b[kind] # Unbounded => granted[kind] \subseteq b[kind]
            /\ \A pair \in granted.tenantRole : Within(pair[1], b.tenant) /\ Within(pair[2], b.role)

\* A handler behind an assurance runs only on evidence of the requested
\* methods that has not expired when its guard decides and, if the guard
\* asks for fresh evidence, is as young as it asks: time that passed while
\* the stores were asked counts (guards.py:100-190).
AssuranceIsCurrent ==
  LET guard == Route[request.route].guard
  IN Admitted /\ guard.kind = "assurance" =>
       /\ request.context.evidence # {}
       /\ \A m \in guard.need.methods : \E e \in request.context.evidence :
            /\ m \in e.methods /\ (e.expires = Never \/ request.at < e.expires)
            /\ guard.need.maxAge # Unbounded => request.at - e.at <= guard.need.maxAge

\* A request that a cookie alone lets in meets a route with CSRF protection,
\* or a WebSocket whose origin is checked, in an application that has them
\* (_openapi.py:520-610).
CookieAdmissionsAreCovered ==
  LET route == Route[request.route]
  IN Admitted /\ request.connect = NoConnect /\ ~Expect[request.route].open /\ SlotsUsed # {}
     /\ (\A M \in Expect[request.route].who : M \subseteq SlotsUsed => "session" \in M) =>
       IF route.websocket THEN Origins ELSE CSRFRequired(route) /\ CSRFConfigured

Purpose(t) == {<<"capability", p>> : p \in {q \in Purposes : VerifyCapability(t, q, LocalAudience)}}
Profile(t) == {s.name : s \in {b \in BearerSlots : BearerAccepted(t) /\ SlotOf(t) = b}}
Logout(t)  == IF LogoutTokenAccepted(t) THEN {"logout"} ELSE {}

\* A token is good for one thing: no access token, capability or logout
\* token passes for another, for two trust slots or for two purposes, though
\* issuers, keys and audiences are shared (_bearer.py, _verification.py).
TokensServeOneProfile ==
  \A t \in tokens \cup ForeignTokens : Cardinality(Profile(t)) + Cardinality(Purpose(t)) + Cardinality(Logout(t)) <= 1

\* A key that was revoked or has expired is never valid again, and its overlap
\* with a successor only ends (rotate and revoke, in either order).
KeysStayDead == [][DeadKeysStayDead]_vars

\* Every admission is proved, and of a well-formed request.
AdmissionsAreSound == TypeOK /\ AdmissionsAreProved

\* A handler's authority and assurance are those of the time it runs.
AuthorityIsBounded == AuthorityIsNarrowed /\ AssuranceIsCurrent

\* A token has one profile and a use of a key is lost only where the sink's
\* contract allows it.
TokensAndKeysAreKeptApart == TokensServeOneProfile /\ UsesAreLostOnlyInTheWindow

===============================================================================
