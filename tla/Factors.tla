------------------------------ MODULE Factors ------------------------------
(***************************************************************************)
(* Second factors of local accounts: TOTP enrolment and verification,       *)
(* recovery codes, passkey ceremonies, and the step-up grants every change  *)
(* of a factor consumes (accounts/_mfa.py, _passkeys.py,                    *)
(* controllers/_mfa.py, over the stores of testing.py).                     *)
(*                                                                         *)
(* A step is what one coroutine does between two awaits on a store, the     *)
(* secret protector, the password hasher or a worker thread.  Step-up       *)
(* grants, pending enrolments and WebAuthn challenges are secrets revealed  *)
(* once; they share one table, and the secret is its index.  A TOTP code is *)
(* the time step it was computed for, a recovery code its place in its set, *)
(* an assertion the credential and the counter it reports.  Every route     *)
(* asks the rate limiter first, and every failure of a store, protector or  *)
(* worker ends the request with 503: both are Abandon.                      *)
(***************************************************************************)
EXTENDS Integers, Sequences, FiniteSets, Bags

CONSTANTS
  Accounts,     \* local accounts
  Transports,   \* authenticated sessions and token pairs
  Owner,        \* the account each transport authenticates
  Requests,     \* coroutines handling HTTP requests
  Purposes,     \* the sensitive operations a grant may be asked for
  Veteran,      \* the account that has a TOTP method and a passkey already
  CodeCount,    \* MFAService.recovery_code_count
  Drift,        \* TOTPPolicy.allowed_drift_steps
  Lifetime,     \* lifetime of enrolments, challenges and grants, in time steps
  RejectClones, \* PasskeyService.clone_risk_policy is REJECT
  MaxTime,      \* bound: time steps
  MaxEpoch,     \* bound: security epochs of an account
  MaxIssued,    \* bound: grants, enrolments and challenges ever issued
  MaxFactors,   \* bound: TOTP methods, and passkeys, ever created
  MaxSets,      \* bound: recovery-code sets an account has ever had
  MaxCount,     \* bound: signature counters
  MaxVersion,   \* bound: versions of a credential
  MaxRequests   \* bound: requests ever begun

\* _PURPOSE_METHODS: a purpose outside this map never mints a grant.
ManagedPurposes ==
  {"totp-enroll", "totp-remove", "recovery-codes", "passkey-register",
   "passkey-remove"}

\* What each service refuses at start-up.
TOTPPolicy == Drift \in 0..10 /\ Lifetime \in Nat \ {0}
StepUpService == Lifetime \in Nat \ {0}
PasskeyService == Lifetime \in Nat \ {0} /\ RejectClones \in BOOLEAN
RecoveryConfiguration == CodeCount \in 1..100
MFARoutes ==
  /\ Purposes \subseteq ManagedPurposes
  /\ Owner \in [Transports -> Accounts]
  /\ Veteran \in Accounts

ASSUME ConfigurationAssumption ==
  TOTPPolicy /\ StepUpService /\ PasskeyService /\ RecoveryConfiguration /\ MFARoutes

ASSUME BoundsAssumption ==
  /\ {MaxTime, MaxIssued, MaxCount, MaxRequests} \subseteq Nat
  /\ {MaxEpoch, MaxFactors, MaxSets, MaxVersion} \subseteq Nat \ {0}

VARIABLES
  now,        \* the clock, in TOTP time steps
  epoch,      \* authoritative security epoch of every account
  issued,     \* every grant, enrolment and challenge ever issued
  open,       \* the ones a store still holds
  methods,    \* every TOTP method ever activated
  codes,      \* per account its recovery-code set and the codes left
  passkeys,   \* every credential ever registered
  inventory,  \* per account its viable login methods
  spent,      \* history: a bag of everything ever accepted
  request,    \* local state of every coroutine
  begun       \* requests begun so far

vars == <<now, epoch, issued, open, methods, codes, passkeys, inventory,
          spent, request, begun>>

Nobody == 0
FirstFactor == <<"password", 0>>
Totp(m) == <<"totp", m>>
Passkey(c) == <<"passkey", c>>
LoginMethods ==
  {FirstFactor} \cup ({"totp", "passkey"} \X (1..MaxFactors))

\* The binding of a login challenge is a fresh random value, so it is no
\* request's cookie or authorization header.
FreshBinding == "binding"
NoTransport == "none"

\* Secrets revealed once.  via is history: the grant whose consumption led
\* to the secret.
Expiry == 0..(MaxTime + Lifetime)
StepUpGrantState ==
  [kind: {"grant"}, account: Accounts, binding: Transports,
   purpose: ManagedPurposes, epoch: 1..MaxEpoch, expires: Expiry, via: {Nobody}]
PendingTOTPEnrollment ==
  [kind: {"enrollment"}, account: Accounts, expires: Expiry, via: 1..MaxIssued]
WebAuthnChallenge ==
  [kind: {"registration", "authentication"}, account: Accounts,
   binding: Transports \cup {FreshBinding}, expires: Expiry, via: 0..MaxIssued]
Secret == StepUpGrantState \cup PendingTOTPEnrollment \cup WebAuthnChallenge

\* TOTPMethod and PasskeyCredential; via is the enrolment or the challenge.
TOTPMethod == [account: Accounts, last: Int, via: 0..MaxIssued]
PasskeyCredential ==
  [account: Accounts, count: 0..MaxCount, version: 1..MaxVersion,
   suspect: BOOLEAN, via: 0..MaxIssued]

Points == {"idle", "issue", "consume", "perform", "activate",
           "advance", "attest", "credential", "record"}
Operations == ManagedPurposes \cup
  {"none", "step-up", "activate", "totp", "registration", "login"}

\* Locals of a coroutine: what it does and for whom, over which transport,
\* the purpose it steps up for, the secret or factor it presents, the code or
\* counter, the clock and epoch it read, and the credential snapshot.
Coroutine ==
  [at: Points, op: Operations, account: Accounts, over: Transports \cup {NoTransport},
   purpose: ManagedPurposes \cup {"none"}, secret: 0..MaxIssued,
   factor: 0..MaxFactors, n: Int, since: 0..MaxTime,
   epoch: 0..MaxEpoch, version: 0..MaxVersion, clone: BOOLEAN]

Idle ==
  [at |-> "idle", op |-> "none", account |-> Veteran,
   over |-> NoTransport, purpose |-> "none", secret |-> Nobody,
   factor |-> Nobody, n |-> 0, since |-> 0, epoch |-> 0,
   version |-> 0, clone |-> FALSE]

Init ==
  /\ now = 0
  /\ epoch = [a \in Accounts |-> 1]
  /\ issued = <<>>
  /\ open = {}
  /\ methods = <<[account |-> Veteran, last |-> 0, via |-> Nobody]>>
  /\ codes = [a \in Accounts |->
       IF a = Veteran THEN [set |-> 1, left |-> {1} \X (1..CodeCount)]
       ELSE [set |-> 0, left |-> {}]]
  /\ passkeys = <<[account |-> Veteran, count |-> 0, version |-> 1,
                   suspect |-> FALSE, via |-> Nobody]>>
  /\ inventory = [a \in Accounts |->
       {FirstFactor} \cup (IF a = Veteran THEN {Totp(1), Passkey(1)} ELSE {})]
  /\ spent = EmptyBag
  /\ request = [r \in Requests |-> Idle]
  /\ begun = 0

At(r, point) == request[r].at = point
Begin(r, q) ==
  /\ At(r, "idle") /\ begun < MaxRequests
  /\ begun' = begun + 1
  /\ request' = [request EXCEPT ![r] = q]
Once == begun < MaxRequests /\ begun' = begun + 1 /\ request' = request
Continue(r, q) == request' = [request EXCEPT ![r] = q] /\ begun' = begun
End(r) == Continue(r, Idle)
Accept(things) == spent' = spent (+) SetToBag(things)

secrets == <<issued, open>>
factors == <<methods, codes, passkeys, inventory>>
world == <<now, epoch>>

Issue(s) ==
  /\ Len(issued) < MaxIssued
  /\ issued' = Append(issued, s)
  /\ open' = open \cup {Len(issued) + 1}

Live(s, time) == issued[s].expires > time

-----------------------------------------------------------------------------
(* Step-up: issue a grant for a freshly verified factor *)

\* _StepUpController.issue with the password factor: the purpose is one of
\* the map's, and the verifier accepts the caller's password.
StepUpWithPassword(r, t, p) ==
  /\ Begin(r, [Idle EXCEPT !.at = "issue", !.op = "step-up", !.over = t,
                              !.account = Owner[t], !.purpose = p,
                              !.since = now])
  /\ UNCHANGED <<world, secrets, factors, spent>>

\* _current_epoch, read after the factor was verified (a grant stored under an
\* epoch that has passed since is dead), and StepUpService.issue: the evidence
\* is not older than a grant may live.
IssueGrant(r) ==
  LET q == request[r] IN
  /\ At(r, "issue")
  /\ now - q.since <= Lifetime
  /\ Issue([kind |-> "grant", account |-> q.account, binding |-> q.over,
            purpose |-> q.purpose, epoch |-> epoch[q.account],
            expires |-> now + Lifetime, via |-> Nobody])
  /\ End(r)
  /\ UNCHANGED <<world, factors, spent>>

-----------------------------------------------------------------------------
(* Changes of a factor: every one consumes a grant of its own purpose *)

\* _consume_step_up, up to the read of the epoch: any grant may be presented.
BeginManaged(r, t, p, g, f) ==
  /\ issued[g].kind = "grant" /\ p \in Purposes
  /\ Begin(r, [Idle EXCEPT !.at = "consume", !.op = p, !.over = t,
                              !.account = Owner[t], !.secret = g, !.factor = f,
                              !.epoch = epoch[Owner[t]]])
  /\ UNCHANGED <<world, secrets, factors, spent>>

\* The routes that change a factor, for any factor identifier.
EnrollTOTP(r, t, g) == BeginManaged(r, t, "totp-enroll", g, Nobody)
RemoveTOTP(r, t, g, m) == BeginManaged(r, t, "totp-remove", g, m)
RecoveryCodes(r, t, g) == BeginManaged(r, t, "recovery-codes", g, Nobody)
RegistrationOptions(r, t, g) == BeginManaged(r, t, "passkey-register", g, Nobody)
RemovePasskey(r, t, g, c) == BeginManaged(r, t, "passkey-remove", g, c)

GrantMatchesWithoutPurpose(q, s) ==
  /\ issued[s].account = q.account
  /\ issued[s].epoch = q.epoch
  /\ issued[s].binding = q.over
  /\ Live(s, now)

\* The bindings a grant is compared with once it has been popped.
GrantMatches(q, s) ==
  /\ issued[s].account = q.account
  /\ issued[s].epoch = q.epoch
  /\ issued[s].purpose = q.op
  /\ issued[s].binding = q.over
  /\ Live(s, now)

\* StepUpService.consume: a held grant is burned, then compared.
ConsumeGrant(r) ==
  LET q == request[r] IN
  /\ At(r, "consume")
  /\ open' = open \ {q.secret}
  /\ IF q.secret \in open /\ GrantMatches(q, q.secret)
     THEN /\ Continue(r, [q EXCEPT !.at = "perform"])
          /\ Accept({<<"grant", q.secret>>})
     ELSE End(r) /\ UNCHANGED spent
  /\ UNCHANGED <<world, issued, factors>>

\* begin_totp_enrollment: protect a new secret and store the enrolment.
Enroll(r) ==
  LET q == request[r] IN
  /\ At(r, "perform") /\ q.op = "totp-enroll"
  /\ Issue([kind |-> "enrollment", account |-> q.account,
            expires |-> now + Lifetime, via |-> q.secret])
  /\ End(r)
  /\ UNCHANGED <<world, factors, spent>>

\* _generate_recovery_codes under the active pepper
NewCodes(a) ==
  LET set == codes[a].set + 1 IN [set |-> set, left |-> {set} \X (1..CodeCount)]

\* generate_recovery_codes: the whole set is replaced.
ReplaceRecoveryCodes(r) ==
  LET a == request[r].account IN
  /\ At(r, "perform") /\ request[r].op = "recovery-codes"
  /\ codes[a].set < MaxSets
  /\ codes' = [codes EXCEPT ![a] = NewCodes(a)]
  /\ End(r)
  /\ UNCHANGED <<world, secrets, methods, passkeys, inventory, spent>>

\* revoke_login_method with require_remaining: an unknown method and the last
\* one stay.  The factor's own record is not the inventory's and stays.
RevokeLoginMethod(a, m) ==
  inventory' = IF inventory[a] \subseteq {m} THEN inventory
               ELSE [inventory EXCEPT ![a] = @ \ {m}]

RemoveMethod(r, m) ==
  /\ At(r, "perform")
  /\ RevokeLoginMethod(request[r].account, m)
  /\ End(r)
  /\ UNCHANGED <<world, secrets, methods, codes, passkeys, spent>>

RemoveTOTPMethod(r) == request[r].op = "totp-remove" /\ RemoveMethod(r, Totp(request[r].factor))
RemoveCredential(r) == request[r].op = "passkey-remove" /\ RemoveMethod(r, Passkey(request[r].factor))

\* _begin: a challenge for one ceremony of one account.
Challenge(ceremony, a, binding, via) ==
  [kind |-> ceremony, account |-> a, binding |-> binding,
   expires |-> now + Lifetime, via |-> via]

\* begin_registration: the challenge is bound to the caller's transport.
BeginRegistration(r) ==
  LET q == request[r] IN
  /\ At(r, "perform") /\ q.op = "passkey-register"
  /\ Issue(Challenge("registration", q.account, q.over, q.secret))
  /\ End(r)
  /\ UNCHANGED <<world, factors, spent>>

-----------------------------------------------------------------------------
(* TOTP and recovery codes *)

\* _accepted_counter: a code is accepted for a step within the drift.
AcceptedCounter(n, time) == n \in (time - Drift)..(time + Drift)

\* activate_totp_with_recovery_codes (the route) and activate_totp: the
\* enrolment is read, its secret recovered and a code of step n verified.
VerifyTOTP(r, t, e, n) ==
  /\ e \in open /\ issued[e].kind = "enrollment"
  /\ issued[e].account = Owner[t]
  /\ Live(e, now)
  /\ AcceptedCounter(n, now)
  /\ Begin(r, [Idle EXCEPT !.at = "activate", !.op = "activate", !.over = t,
                              !.account = Owner[t], !.secret = e, !.n = n])
  /\ UNCHANGED <<world, secrets, factors, spent>>

\* What the store's activate_totp commits: the method, which starts at the
\* activation's counter, and its login method.
ActivateMethod(q) ==
  /\ methods' = Append(methods, [account |-> q.account, last |-> q.n, via |-> q.secret])
  /\ inventory' = [inventory EXCEPT ![q.account] = @ \cup {Totp(Len(methods) + 1)}]

\* activate_totp_with_recovery_codes of the store (replacing) or activate_totp:
\* the enrolment is consumed by one call (its expiry is compared with the
\* clock of the read).
Activate(r, replacing) ==
  LET q == request[r] IN
  /\ At(r, "activate")
  /\ Len(methods) < MaxFactors
  /\ replacing => codes[q.account].set < MaxSets
  /\ IF q.secret \in open
     THEN /\ ActivateMethod(q)
          /\ codes' = IF replacing
                      THEN [codes EXCEPT ![q.account] = NewCodes(q.account)]
                      ELSE codes
          /\ Accept({<<"enrollment", q.secret>>, <<"totp", Len(methods) + 1, q.n>>})
     ELSE UNCHANGED <<methods, inventory, codes, spent>>
  /\ open' = open \ {q.secret}
  /\ End(r)
  /\ UNCHANGED <<world, issued, passkeys>>

\* verify_totp: the method is read and its owner and counter are checked.
ReadMethod(r, a, m, n) ==
  /\ methods[m].account = a
  /\ AcceptedCounter(n, now)
  /\ n > methods[m].last
  /\ Begin(r, [Idle EXCEPT !.at = "advance", !.op = "totp", !.account = a,
                              !.factor = m, !.n = n])
  /\ UNCHANGED <<world, secrets, factors, spent>>

AnyCounter(q) == q.n >= 0
LaterCounter(q) == q.n > methods[q.factor].last

\* advance_totp_counter: compared again under the store's lock.
AdvanceCounter(r) ==
  LET q == request[r] IN
  /\ At(r, "advance")
  /\ IF LaterCounter(q)
     THEN /\ methods' = [methods EXCEPT ![q.factor].last = q.n]
          /\ Accept({<<"totp", q.factor, q.n>>})
     ELSE UNCHANGED <<methods, spent>>
  /\ End(r)
  /\ UNCHANGED <<world, secrets, codes, passkeys, inventory>>

\* consume_recovery_code: the digest binds account and code, and the store
\* removes the one that matches.
ConsumeRecoveryCode(a, code) ==
  /\ Once
  /\ code \in codes[a].left
  /\ codes' = [codes EXCEPT ![a].left = @ \ {code}]
  /\ Accept({<<"recovery", a, code>>})
  /\ UNCHANGED <<world, secrets, methods, passkeys, inventory>>

-----------------------------------------------------------------------------
(* Passkeys *)

\* authentication_options: public; the binding is drawn afresh.
BeginAuthentication(a) ==
  /\ Once
  /\ Issue(Challenge("authentication", a, FreshBinding, Nobody))
  /\ UNCHANGED <<world, factors, spent>>

\* WebAuthnChallengeStore.consume: a challenge is burned, then compared with
\* ceremony and binding; the service compares the account.
ChallengeMatches(c, ceremony, a, binding) ==
  /\ issued[c].kind = ceremony
  /\ issued[c].binding = binding
  /\ issued[c].account = a
  /\ Live(c, now)

ConsumeChallenge(r, c, ceremony, binding, q) ==
  /\ c \in open /\ issued[c].kind \in {"registration", "authentication"}
  /\ open' = open \ {c}
  /\ IF ChallengeMatches(c, ceremony, q.account, binding)
     THEN Begin(r, q) /\ Accept({<<"challenge", c>>})
     ELSE Begin(r, Idle) /\ UNCHANGED spent
  /\ UNCHANGED <<world, issued, factors>>

\* registration_verify: the binding is the caller's own transport.
VerifyRegistration(r, t, c) ==
  ConsumeChallenge(r, c, "registration", t,
    [Idle EXCEPT !.at = "attest", !.op = "registration", !.over = t,
                 !.account = Owner[t], !.secret = c])

\* _verify_passkey_authentication: public; the caller names the account and
\* returns the binding that was revealed with the options.
PasskeyLogin(r, a, c) ==
  ConsumeChallenge(r, c, "authentication", FreshBinding,
    [Idle EXCEPT !.at = "credential", !.op = "login", !.account = a, !.secret = c])

\* _verify_factor with a passkey: the binding is derived from the headers of
\* the request, as for a registration.
StepUpWithPasskey(r, t, p, c) ==
  ConsumeChallenge(r, c, "authentication", t,
    [Idle EXCEPT !.at = "credential", !.op = "step-up", !.over = t,
                 !.account = Owner[t], !.purpose = p, !.secret = c, !.since = now])

\* The store's add_credential: credential and login method, or neither.
StoreCredential(c, credential) ==
  /\ passkeys' = Append(passkeys, credential)
  /\ inventory' = [inventory EXCEPT ![credential.account] = @ \cup {Passkey(c)}]

\* The worker verifies the attestation, and the credential is stored unless
\* the authenticator's identifier exists already.
AddCredential(r, c, n) ==
  LET q == request[r] IN
  /\ At(r, "attest")
  /\ IF c \in DOMAIN passkeys
     THEN UNCHANGED <<passkeys, inventory, spent>>
     ELSE /\ StoreCredential(c, [account |-> q.account, count |-> n, version |-> 1,
                                 suspect |-> FALSE, via |-> q.secret])
          /\ Accept({<<"credential", c>>, <<"count", c, n>>})
  /\ End(r)
  /\ UNCHANGED <<world, secrets, methods, codes>>

\* A counter in use that does not grow signals a clone.
CloneRisk(stored, n) == stored.count > 0 /\ n <= stored.count

\* get_credential, then the worker verifies an assertion that reports the
\* counter n against the snapshot.
ReadCredential(r, c, n) ==
  LET q == request[r] IN
  /\ At(r, "credential")
  /\ passkeys[c].account = q.account
  /\ Continue(r, [q EXCEPT !.at = "record", !.factor = c, !.n = n,
                           !.version = passkeys[c].version,
                           !.clone = CloneRisk(passkeys[c], n)])
  /\ UNCHANGED <<world, secrets, factors, spent>>

\* What an accepted assertion is for: a login ends, a step-up goes on to its grant.
Verified(q) ==
  IF q.op = "step-up" THEN [q EXCEPT !.at = "issue", !.factor = Nobody, !.n = 0,
                                     !.version = 0, !.clone = FALSE,
                                     !.secret = Nobody]
  ELSE Idle

\* The store's record_assertion keeps the highest counter and the suspicion.
Recorded(stored, q) ==
  [stored EXCEPT !.count = IF q.n > @ THEN q.n ELSE @,
                 !.suspect = @ \/ q.clone, !.version = @ + 1]

AnyVersion(q) == q.version > 0
SameVersion(q) == passkeys[q.factor].version = q.version

\* A snapshot of another version conflicts; a counter that did not grow marks
\* the credential, and the policy decides the answer.
RecordAssertion(r) ==
  LET q == request[r] IN
  /\ At(r, "record")
  /\ passkeys[q.factor].version < MaxVersion
  /\ passkeys' = IF SameVersion(q)
                 THEN [passkeys EXCEPT ![q.factor] = Recorded(@, q)] ELSE passkeys
  /\ IF SameVersion(q) /\ ~(q.clone /\ RejectClones)
     THEN Continue(r, Verified(q)) /\ Accept({<<"count", q.factor, q.n>>})
     ELSE End(r) /\ UNCHANGED spent
  /\ UNCHANGED <<world, secrets, methods, codes, inventory>>

\* rename_credential
Rename(c) ==
  /\ Once
  /\ passkeys[c].version < MaxVersion
  /\ passkeys' = [passkeys EXCEPT ![c].version = @ + 1]
  /\ UNCHANGED <<world, secrets, methods, codes, inventory, spent>>

-----------------------------------------------------------------------------
\* A rate limit, a refused factor, an exception, a cancelled handler.
Abandon(r) ==
  /\ ~At(r, "idle")
  /\ End(r)
  /\ UNCHANGED <<world, secrets, factors, spent>>

Tick ==
  /\ now < MaxTime
  /\ now' = now + 1
  /\ UNCHANGED <<epoch, secrets, factors, spent, request, begun>>

\* A password change, a reset or an administrator advances the epoch (of an
\* account that is signed in: no other epoch is read here).
BumpEpoch(a) ==
  /\ epoch[a] < MaxEpoch
  /\ epoch' = [epoch EXCEPT ![a] = @ + 1]
  /\ UNCHANGED <<now, secrets, factors, spent, request, begun>>

Step(r) ==
  \/ \E t \in Transports, p \in Purposes : StepUpWithPassword(r, t, p)
  \/ IssueGrant(r)
  \/ \E t \in Transports, g \in DOMAIN issued :
       \/ EnrollTOTP(r, t, g)
       \/ RecoveryCodes(r, t, g)
       \/ RegistrationOptions(r, t, g)
       \/ \E m \in DOMAIN methods : RemoveTOTP(r, t, g, m)
       \/ \E c \in DOMAIN passkeys : RemovePasskey(r, t, g, c)
  \/ ConsumeGrant(r)
  \/ Enroll(r)
  \/ ReplaceRecoveryCodes(r)
  \/ RemoveTOTPMethod(r) \/ RemoveCredential(r)
  \/ BeginRegistration(r)
  \/ \E t \in Transports, e \in DOMAIN issued, n \in 0..MaxTime :
       VerifyTOTP(r, t, e, n)
  \/ \E replacing \in BOOLEAN : Activate(r, replacing)
  \/ \E a \in Accounts, m \in DOMAIN methods, n \in 0..MaxTime :
       ReadMethod(r, a, m, n)
  \/ AdvanceCounter(r)
  \/ \E t \in Transports, c \in DOMAIN issued :
       \/ VerifyRegistration(r, t, c)
       \/ \E p \in Purposes : StepUpWithPasskey(r, t, p, c)
  \/ \E a \in Accounts, c \in DOMAIN issued : PasskeyLogin(r, a, c)
  \/ \E c \in 1..(Len(passkeys) + 1), n \in 0..MaxCount :
       c <= MaxFactors /\ AddCredential(r, c, n)
  \/ \E c \in DOMAIN passkeys, n \in 0..MaxCount : ReadCredential(r, c, n)
  \/ RecordAssertion(r)
  \/ Abandon(r)

Next ==
  \/ \E r \in Requests : Step(r)
  \/ \E a \in Accounts : BeginAuthentication(a)
  \/ \E t \in Transports : BumpEpoch(Owner[t])
  \/ \E a \in Accounts : \E code \in codes[a].left : ConsumeRecoveryCode(a, code)
  \/ \E c \in DOMAIN passkeys : Rename(c)
  \/ Tick

Spec == Init /\ [][Next]_vars

-----------------------------------------------------------------------------
TypeOK ==
  /\ now \in 0..MaxTime
  /\ epoch \in [Accounts -> 1..MaxEpoch]
  /\ issued \in Seq(Secret) /\ Len(issued) <= MaxIssued
  /\ open \subseteq DOMAIN issued
  /\ methods \in Seq(TOTPMethod) /\ Len(methods) <= MaxFactors
  /\ codes \in [Accounts -> [set: 0..MaxSets,
                           left: SUBSET ((1..MaxSets) \X (1..CodeCount))]]
  /\ passkeys \in Seq(PasskeyCredential) /\ Len(passkeys) <= MaxFactors
  /\ inventory \in [Accounts -> SUBSET LoginMethods]
  /\ IsABag(spent)
  /\ request \in [Requests -> Coroutine]
  /\ begun \in 0..MaxRequests

AcceptedOnce(kinds) ==
  \A x \in BagToSet(spent) : x[1] \in kinds => spent[x] = 1

\* However requests overlap, a TOTP code is accepted for one step of one
\* method once, be it at the activation or later, and a recovery code once;
\* no code of a replaced set is left.
CodesAreAcceptedOnce ==
  /\ AcceptedOnce({"totp", "recovery"})
  /\ \A a \in Accounts : \A code \in codes[a].left : code[1] = codes[a].set

\* A grant, an enrolment or a challenge is good for one use; an account never
\* gains a factor but through a grant of its own for that change, over the
\* transport the grant was made for.
GrantOf(s, purpose) == issued[issued[s].via].kind = "grant" /\ issued[issued[s].via].purpose = purpose
FactorsTraceToGrants ==
  /\ AcceptedOnce({"grant", "enrollment", "challenge"})
  /\ \A m \in DOMAIN methods : LET e == methods[m].via IN
       e # Nobody => /\ issued[e].account = methods[m].account
                     /\ GrantOf(e, "totp-enroll")
                     /\ issued[issued[e].via].account = methods[m].account
  /\ \A c \in DOMAIN passkeys : LET s == passkeys[c].via IN
       s # Nobody => /\ issued[s].account = passkeys[c].account
                     /\ GrantOf(s, "passkey-register")
                     /\ issued[issued[s].via].account = passkeys[c].account
                     /\ issued[issued[s].via].binding = issued[s].binding

\* A counter other than zero is accepted from a credential once: two
\* assertions verified against one snapshot do not both count, and a clone's
\* repeated counter is refused under the REJECT policy.  A credential stays
\* its owner's, and an account keeps a way to log in.
AssertionsAdvance ==
  /\ RejectClones => \A x \in BagToSet(spent) :
       x[1] = "count" /\ x[3] > 0 => spent[x] = 1
  /\ AcceptedOnce({"credential"})
  /\ \A a \in Accounts : inventory[a] # {}

\* Factors come from grants, and what proves one counts once.
FactorsAreSound == TypeOK /\ FactorsTraceToGrants

\* The route offers a passkey as a step-up factor: a caller who presents the
\* account's own unexpired authentication challenge gets past the challenge.
SoundPasskeyProof(r, t, c) ==
  /\ At(r, "idle") /\ c \in open /\ issued[c].kind = "authentication"
  /\ issued[c].account = Owner[t] /\ Live(c, now)
PasskeyStepUpsAreHeard ==
  [][\A r \in Requests, t \in Transports, p \in Purposes, c \in DOMAIN issued :
       SoundPasskeyProof(r, t, c) /\ StepUpWithPasskey(r, t, p, c)
         => request'[r].at = "credential"]_vars
=============================================================================
