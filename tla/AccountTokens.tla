---------------------------- MODULE AccountTokens ----------------------------
(***************************************************************************)
(* Registration, invitation, account verification and password recovery by  *)
(* one-time purpose tokens (accounts/_registration.py, _recovery.py,        *)
(* _purpose_tokens.py, controllers/_local.py, over the store of testing.py),*)
(* each behind the rate limiter of RateLimits.                              *)
(*                                                                         *)
(* A step is what one coroutine does between two awaits on a store or on    *)
(* the password hasher.  A token is its place in the table of everything    *)
(* ever issued; who presents it knows its identifier, and its secret or     *)
(* not.  An account is the normalized identifier it was registered under.   *)
(* A password refused by the policy, a malformed token and a failure of     *)
(* store, hasher or codec end the request: Abandon.                         *)
(***************************************************************************)
EXTENDS RateLimits, Sequences, Bags

CONSTANTS
  Members,             \* identifiers that have an account already
  Outstanding,         \* tokens issued already, one epoch and clock tick old at most
  Mode,                \* RegistrationPolicy.mode
  RequireVerification, \* RegistrationPolicy.require_verification
  Extracted,           \* what LocalAuthService.client_key_for may return
  MaxAttempts,         \* wrong secrets a token survives, plus one
  Lifetime,            \* lifetime of every token
  MaxEpoch,            \* bound: security epochs of an account
  MaxIssued,           \* bound: tokens ever issued
  MaxRequests          \* bound: requests ever begun, invitations and changes included

Purposes == {"invitation", "verification", "recovery"}

\* What RegistrationService and validate_lifecycle_configuration require.
RegistrationPolicy == Mode \in {"public", "invite_only"} /\ RequireVerification \in BOOLEAN
LifecycleConfiguration == Lifetime \in Nat \ {0} /\ MaxAttempts \in 1..100

ASSUME ConfigurationAssumption ==
  /\ RegistrationPolicy /\ LifecycleConfiguration
  /\ Members \subseteq Subjects
  /\ Extracted \subseteq Clients \cup {Unkeyed}
ASSUME BoundsAssumption == {MaxEpoch, MaxIssued, MaxRequests} \subseteq Nat /\ MaxEpoch > 0

VARIABLES
  account,   \* per identifier its account
  issued,    \* every token ever issued
  open,      \* the tokens the store still holds
  records,   \* accounts whose earlier sessions and families still stand
  spent,     \* history: a bag of every token, invitation and epoch ever used
  request,   \* local state of every coroutine
  begun      \* requests begun so far

vars == <<limiterVars, account, issued, open, records, spent, request, begun>>

Nobody == 0

\* LocalAccountState; epoch 0 stands for no account.
LocalAccountState == [active: BOOLEAN, verified: BOOLEAN, epoch: 0..MaxEpoch]
NoAccount == [active |-> FALSE, verified |-> FALSE, epoch |-> 0]
Exists(i) == account[i].epoch > 0

\* TokenIssue with the store's count of wrong proofs: a recovery token carries
\* the epoch its account was read at, any other token none.
TokenIssue ==
  [purpose: Purposes, account: Subjects, expires: 0..(MaxTime + Lifetime),
   epoch: 0..MaxEpoch, wrong: 0..MaxAttempts]

\* A token goes to a member, and the store holds it while it has attempts left.
ASSUME OutstandingAssumption ==
  /\ Outstanding \in Seq(TokenIssue) /\ Len(Outstanding) <= MaxIssued
  /\ \A t \in DOMAIN Outstanding :
       Outstanding[t].account \in Members /\ Outstanding[t].wrong < MaxAttempts

Operations == {"none", "register", "resend", "confirm", "recovery", "reset"}

\* Locals of a coroutine: the identifier it names, or the token it presents
\* and whether with its secret, the clock it read, and the epoch it read.
Coroutine ==
  [at: {"idle", "limit", "hash", "issue", "sessions", "families"}, op: Operations,
   subject: Subjects \cup {Unkeyed}, token: 0..MaxIssued, sound: BOOLEAN,
   since: 0..MaxTime, epoch: 0..MaxEpoch]

Idle ==
  [at |-> "idle", op |-> "none", subject |-> Unkeyed, token |-> Nobody,
   sound |-> FALSE, since |-> 0, epoch |-> 0]

Init ==
  /\ LimiterInit
  /\ account \in [Subjects -> {NoAccount} \cup
                    [active: BOOLEAN, verified: {FALSE}, epoch: {1}]]
  /\ \A i \in Subjects : Exists(i) <=> i \in Members
  /\ issued = Outstanding
  /\ open = DOMAIN Outstanding
  /\ records = {"sessions", "families"} \X Members
  /\ spent = EmptyBag
  /\ request = [r \in Requests |-> Idle]
  /\ begun = 0

At(r, point) == request[r].at = point
Doing(r, op) == request[r].op = op
Continue(r, q) == request' = [request EXCEPT ![r] = q]
End(r) == Continue(r, Idle)
Accept(thing) == spent' = spent (+) SetToBag({thing})

tokens == <<issued, open>>

\* A request arrives and asks the limiter before anything else.
Begin(r, q, client, subject) ==
  /\ At(r, "idle") /\ begun < MaxRequests
  /\ begun' = begun + 1
  /\ Continue(r, [q EXCEPT !.at = "limit"])
  /\ AskLimiter(r, q.op, client, subject)
  /\ UNCHANGED <<account, tokens, records, spent>>

\* The limiter lets the coroutine through.
Allowed(r, op) ==
  /\ At(r, "limit") /\ Doing(r, op)
  /\ Proceed(r)
  /\ UNCHANGED begun

\* A request of the application, in one step.
Elsewhere ==
  /\ begun < MaxRequests
  /\ begun' = begun + 1
  /\ UNCHANGED <<limiterVars, records, request>>

Later(r, point) == At(r, point) /\ UNCHANGED <<limiterVars, begun>>

\* PurposeTokenCodec.issue
Issue(purpose, i, since, epoch) ==
  /\ Len(issued) < MaxIssued
  /\ issued' = Append(issued, [purpose |-> purpose, account |-> i, epoch |-> epoch,
                               expires |-> since + Lifetime, wrong |-> 0])
  /\ open' = open \cup {Len(issued) + 1}

-----------------------------------------------------------------------------
(* Requests that name an identifier *)

\* register: the clock is read before the limiter is asked.  An invite-only
\* route presents a token.
BeginRegister(r, client, i, t) ==
  /\ (t # Nobody) <=> (Mode = "invite_only")
  /\ Begin(r, [Idle EXCEPT !.op = "register", !.subject = i, !.token = t, !.sound = TRUE,
                           !.since = now], client, i)

BeginResend(r, client, i) ==
  Begin(r, [Idle EXCEPT !.op = "resend", !.subject = i], client, i)

BeginRecovery(r, client, i) ==
  Begin(r, [Idle EXCEPT !.op = "recovery", !.subject = i], client, i)

\* Requests that present a token charge the client's bucket only.
BeginConfirm(r, client, t, sound) ==
  Begin(r, [Idle EXCEPT !.op = "confirm", !.token = t, !.sound = sound], client, Unkeyed)

BeginReset(r, client, t, sound) ==
  Begin(r, [Idle EXCEPT !.op = "reset", !.token = t, !.sound = sound], client, Unkeyed)

-----------------------------------------------------------------------------
(* Registration *)

\* PurposeTokenCodec.proof: the purpose is part of the token's text and of
\* its digest.
Proof(t, purpose) == issued[t].purpose = purpose
Live(t, since) == issued[t].expires > since

\* Mutant: an invitation may be used again until it expires.
Remaining(t) == open

\* The invitation leaves the store with the registration it was used for.
WithoutInvitation(t) == open \ {t}

\* An invite-only registration presents an invitation that the store holds.
InvitationValid(q) ==
  Mode = "invite_only" => /\ Proof(q.token, "invitation")
                          /\ q.token \in open /\ Live(q.token, q.since)

\* An account nobody had: unverified when a verification token goes with it.
NewAccount == [active |-> TRUE, verified |-> ~RequireVerification, epoch |-> 1]

\* register of the service, then of the store, once the limiter allows it; the
\* hasher's await in between separates no reads.  A taken identifier comes first and burns nothing;
\* account, invitation and verification token change together or not at all.
Register(r) ==
  LET q == request[r] IN
  /\ Allowed(r, "register")
  /\ IF ~Exists(q.subject) /\ InvitationValid(q)
     THEN /\ account' = [account EXCEPT ![q.subject] = NewAccount]
          /\ Accept(<<"registered", q.subject, q.token>>)
          /\ IF RequireVerification
             THEN /\ Len(issued) < MaxIssued
                  /\ issued' = Append(issued,
                       [purpose |-> "verification", account |-> q.subject, epoch |-> 0,
                        expires |-> q.since + Lifetime, wrong |-> 0])
                  /\ open' = WithoutInvitation(q.token) \cup {Len(issued) + 1}
             ELSE /\ open' = WithoutInvitation(q.token)
                  /\ UNCHANGED issued
     ELSE UNCHANGED <<account, tokens, spent>>
  /\ End(r)
  /\ UNCHANGED records

-----------------------------------------------------------------------------
(* Requests for a token *)

\* find_for_login; whether the account may have a token is decided here.
Eligible(i, op) ==
  Exists(i) /\ account[i].active /\ (op = "resend" => ~account[i].verified)

FindAccount(r, op) ==
  LET q == request[r] IN
  /\ Allowed(r, op)
  /\ Continue(r, [q EXCEPT !.at = "issue", !.since = now, !.sound = Eligible(q.subject, op),
                           !.epoch = IF op = "recovery" THEN account[q.subject].epoch ELSE 0])
  /\ UNCHANGED <<account, tokens, records, spent>>

FindUnverified(r) == FindAccount(r, "resend")
FindForRecovery(r) == FindAccount(r, "recovery")

\* store.issue, or issue_absent, which changes nothing: both are one call.
IssueToken(r, op, purpose) ==
  LET q == request[r] IN
  /\ Later(r, "issue") /\ Doing(r, op)
  /\ IF q.sound THEN Issue(purpose, q.subject, q.since, q.epoch) ELSE UNCHANGED tokens
  /\ End(r)
  /\ UNCHANGED <<account, records, spent>>

Resend(r) == IssueToken(r, "resend", "verification")
Recover(r) == IssueToken(r, "recovery", "recovery")

-----------------------------------------------------------------------------
(* Consumption *)

\* Mutant: the attempt that reaches the limit is not the last one.
FailedProofTooLate(t) ==
  /\ issued' = [issued EXCEPT ![t].wrong = @ + 1]
  /\ open' = IF issued[t].wrong + 1 > MaxAttempts THEN open \ {t} ELSE open

\* _record_failed_purpose_proof_locked: the last attempt takes the token away.
FailedProof(t) ==
  /\ issued' = [issued EXCEPT ![t].wrong = @ + 1]
  /\ open' = IF issued[t].wrong + 1 >= MaxAttempts THEN open \ {t} ELSE open

\* The token leaves the store; its identifier stays taken.
Use(t) == open' = open \ {t} /\ UNCHANGED issued

\* consume_and_verify, after the limiter and the codec; the clock is read at
\* the same time.
Confirm(r) ==
  LET q == request[r]
      i == issued[q.token].account
  IN
  /\ Allowed(r, "confirm")
  /\ IF q.token \notin open \/ ~Proof(q.token, "verification")
     THEN UNCHANGED <<account, tokens, spent>>
     ELSE IF ~q.sound
     THEN FailedProof(q.token) /\ UNCHANGED <<account, spent>>
     ELSE IF ~Live(q.token, now)
     THEN UNCHANGED <<account, tokens, spent>>
     ELSE /\ Use(q.token)
          /\ account' = [account EXCEPT ![i].verified = TRUE]
          /\ Accept(<<"verification", q.token, 0>>)
  /\ End(r)
  /\ UNCHANGED records

\* reset up to the await of the password hasher: the clock is read first.
HashReplacement(r) ==
  LET q == request[r] IN
  /\ Allowed(r, "reset")
  /\ IF Proof(q.token, "recovery")
     THEN Continue(r, [q EXCEPT !.at = "hash", !.since = now])
     ELSE End(r)
  /\ UNCHANGED <<account, tokens, records, spent>>

\* Mutant: any token of the account resets its password.
AtAnyEpoch(t) == Exists(issued[t].account)

\* The token was requested under the epoch that is still current.
AtCurrentEpoch(t) == issued[t].epoch = account[issued[t].account].epoch

\* consume_and_reset: password and epoch change with the token's consumption.
ConsumeAndReset(r) ==
  LET q == request[r]
      i == issued[q.token].account
  IN
  /\ Later(r, "hash") /\ Doing(r, "reset")
  /\ IF q.token \notin open
     THEN End(r) /\ UNCHANGED <<account, tokens, spent>>
     ELSE IF ~q.sound
     THEN FailedProof(q.token) /\ End(r) /\ UNCHANGED <<account, spent>>
     ELSE IF ~Live(q.token, q.since) \/ ~AtCurrentEpoch(q.token)
     THEN End(r) /\ UNCHANGED <<account, tokens, spent>>
     ELSE /\ account[i].epoch < MaxEpoch
          /\ account' = [account EXCEPT ![i].epoch = @ + 1]
          /\ Use(q.token)
          /\ spent' = spent (+) SetToBag({<<"recovery", q.token, account[i].epoch>>,
                                          <<"left", i, account[i].epoch>>})
          /\ Continue(r, [Idle EXCEPT !.at = "sessions", !.op = "reset", !.subject = i])
  /\ UNCHANGED records

\* _revoke_all_credentials, shielded: sessions, then refresh families; either
\* may fail, which is logged and does not stop the other.
RevokeRecords(r, kind, next) ==
  LET q == request[r] IN
  /\ Later(r, kind)
  /\ records' \in {records, records \ {<<kind, q.subject>>}}
  /\ Continue(r, next)
  /\ UNCHANGED <<account, tokens, spent>>

RevokeSessions(r) == RevokeRecords(r, "sessions", [request[r] EXCEPT !.at = "families"])
RevokeFamilies(r) == RevokeRecords(r, "families", Idle)

-----------------------------------------------------------------------------
\* The limiter works on the request; a request it denies or fails is over.
Limit(r) ==
  /\ LimiterStep(r)
  /\ IF attempt'[r].at = "idle" THEN End(r) ELSE UNCHANGED request
  /\ UNCHANGED <<account, tokens, records, spent, begun>>

\* A refused password, an exception or a cancelled handler.
Abandon(r) ==
  /\ \/ Later(r, "hash") \/ Later(r, "issue")
     \/ \E op \in Operations : Allowed(r, op)
  /\ End(r)
  /\ UNCHANGED <<account, tokens, records, spent>>

\* The application stores an invitation of a member through the same port.
Invite(i) ==
  /\ Elsewhere
  /\ Mode = "invite_only" /\ Exists(i)
  /\ Issue("invitation", i, now, 0)
  /\ UNCHANGED <<account, spent>>

\* A password change of the account, as in AccountSessions.
ChangePassword(i) ==
  /\ Elsewhere
  /\ Exists(i) /\ account[i].epoch < MaxEpoch
  /\ account' = [account EXCEPT ![i].epoch = @ + 1]
  /\ Accept(<<"left", i, account[i].epoch>>)
  /\ UNCHANGED tokens

Tick == LimiterTick /\ UNCHANGED <<account, tokens, records, spent, request, begun>>

Step(r) ==
  \/ \E client \in Extracted :
       \/ \E i \in Subjects, t \in {Nobody} \cup DOMAIN issued : BeginRegister(r, client, i, t)
       \/ \E i \in Subjects : BeginResend(r, client, i) \/ BeginRecovery(r, client, i)
       \/ \E t \in DOMAIN issued, sound \in BOOLEAN :
            BeginConfirm(r, client, t, sound) \/ BeginReset(r, client, t, sound)
  \/ Limit(r)
  \/ Register(r)
  \/ FindUnverified(r) \/ FindForRecovery(r)
  \/ Resend(r) \/ Recover(r)
  \/ Confirm(r)
  \/ HashReplacement(r) \/ ConsumeAndReset(r)
  \/ RevokeSessions(r) \/ RevokeFamilies(r)
  \/ Abandon(r)

Next ==
  \/ \E r \in Requests : Step(r)
  \/ \E i \in Subjects : Invite(i) \/ ChangePassword(i)
  \/ Tick

Spec == Init /\ [][Next]_vars

-----------------------------------------------------------------------------
TypeOK ==
  /\ LimiterTypeOK
  /\ account \in [Subjects -> LocalAccountState]
  /\ issued \in Seq(TokenIssue) /\ Len(issued) <= MaxIssued
  /\ open \subseteq DOMAIN issued
  /\ records \subseteq {"sessions", "families"} \X Members
  /\ IsABag(spent)
  /\ request \in [Requests -> Coroutine]
  /\ begun \in 0..MaxRequests

Once(x) == BagIn(x, spent) /\ spent[x] = 1

\* A token is good for one use, for its own purpose; the attempts of a token
\* are one budget over all requests and clients, and who guessed them away
\* leaves nothing to consume.
TokensServeOnce ==
  /\ \A x \in BagToSet(spent) : x[1] \in {"verification", "recovery"} =>
       /\ Once(x) /\ x[2] \notin open
       /\ issued[x[2]].purpose = x[1]
       /\ issued[x[2]].wrong < MaxAttempts
  /\ \A t \in open : issued[t].wrong < MaxAttempts

\* An epoch ends once: of two resets, or of a reset and a change, that started
\* under one epoch, one is refused; a reset ends the epoch its token was
\* requested in, however late the token was stored or presented.
EpochsEndOnce ==
  \A x \in BagToSet(spent) :
    /\ x[1] = "left" => Once(x) /\ x[3] < account[x[2]].epoch
    /\ x[1] = "recovery" => x[3] = issued[x[2]].epoch

\* An identifier is registered once, an invitation admits one account, and
\* records are revoked only after the epoch they belong to has ended.
RegistrationsAreAdmitted ==
  LET registered == {x \in BagToSet(spent) : x[1] = "registered"} IN
  /\ \A x, y \in registered : Once(x) /\ (x[2] = y[2] => x = y)
  /\ Mode = "invite_only" => \A x, y \in registered :
       x[3] \notin open /\ (x[3] = y[3] => x = y)
  /\ \A i \in Subjects : Exists(i) <=> i \in Members \/ \E x \in registered : x[2] = i
  /\ \A x \in ({"sessions", "families"} \X Members) \ records : account[x[2]].epoch > 1

\* Accounts, invitations and records agree with what was registered and ended.
RegistersAgree == TypeOK /\ RegistrationsAreAdmitted

=============================================================================
