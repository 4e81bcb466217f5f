-------------------------- MODULE AccountSessions --------------------------
(***************************************************************************)
(* Native sessions of local accounts: password login with or without a     *)
(* second factor, session authentication, logout and revocation, password  *)
(* change with the rebind of the caller's session, and the administrative  *)
(* reset (accounts/_sessions.py, _login.py, _mfa_login.py, _auth_service.py,*)
(* _recovery.py, over the stores of testing.py).                           *)
(*                                                                         *)
(* A step is what one coroutine does between two awaits on a store or on   *)
(* the password hasher; each store call is atomic under the store's lock.  *)
(* A password is its version: the k-th password an account has had.  What  *)
(* a browser holds (payload and binding cookie) is the identity of a       *)
(* session, and a request may present the state of any session ever        *)
(* established, so that stale jars and late session saves are included.    *)
(* A mismatched payload and cookie are rejected like no session at all.    *)
(***************************************************************************)
EXTENDS Naturals, Sequences, FiniteSets

CONSTANTS
  Accounts,       \* local accounts, all active and verified
  Requests,       \* coroutines handling HTTP requests
  MaxEpoch,       \* bound: security epochs of an account
  MaxSessions,    \* bound: session records ever created
  MaxChallenges   \* bound: second-factor challenges ever issued

ASSUME BoundsAssumption ==
  /\ Accounts # {}
  /\ MaxEpoch \in Nat \ {0}
  /\ MaxSessions \in Nat
  /\ MaxChallenges \in Nat

VARIABLES
  account,     \* per account its epoch and its stored password hash
  sessions,    \* every session record ever created, immutable, by identity
  live,        \* identities the registry holds now
  challenges,  \* every second-factor challenge ever issued
  open,        \* challenges not consumed yet
  request      \* local state of every coroutine

vars == <<account, sessions, live, challenges, open, request>>

NoSession == 0

\* LocalAccountState.security_epoch beside the stored hash: the version of
\* the password it verifies and whether its parameters are current.
AccountState ==
  [epoch: 1..MaxEpoch, password: 1..MaxEpoch, fresh: BOOLEAN]

\* UserAuthSession; proved, via and prior are history: the password whose
\* proof led to the record, the challenge that was spent, the replaced record.
SessionRecord ==
  [account: Accounts, epoch: 1..MaxEpoch, proved: 1..MaxEpoch,
   via: 0..MaxChallenges, prior: 0..MaxSessions]

\* MFALoginChallenge
Challenge == [account: Accounts, epoch: 1..MaxEpoch, proved: 1..MaxEpoch]

Points == {"idle", "read", "rehash", "challenge", "rebind", "create",
           "consume", "factor", "account", "epoch", "touch", "accepted",
           "prepare", "replace", "revoke_all", "leave", "revoke_others",
           "rebind_changed", "activate", "changed"}

\* Locals of a coroutine: the point it waits at, the payload it presented,
\* the epoch it read, the epoch and password of its proof, the challenge it
\* spends, whether it changes a password and keeps its session, the record
\* that replaces it, and (history) whether its session was current when read.
Coroutine ==
  [at: Points, account: Accounts, sid: 0..MaxSessions, epoch: 0..MaxEpoch,
   proof: 0..MaxEpoch, proved: 0..MaxEpoch, via: 0..MaxChallenges,
   changing: BOOLEAN, keep: BOOLEAN, new: 0..MaxSessions, current: BOOLEAN]

Idle ==
  [at |-> "idle", account |-> CHOOSE a \in Accounts : TRUE, sid |-> NoSession,
   epoch |-> 0, proof |-> 0, proved |-> 0, via |-> 0, changing |-> FALSE,
   keep |-> FALSE, new |-> NoSession, current |-> FALSE]

Init ==
  /\ account = [a \in Accounts |-> [epoch |-> 1, password |-> 1, fresh |-> FALSE]]
  /\ sessions = <<>>
  /\ live = {}
  /\ challenges = <<>>
  /\ open = {}
  /\ request = [r \in Requests |-> Idle]

At(r, point) == request[r].at = point

\* The coroutine's locals become q.
Continue(r, q) == request' = [request EXCEPT ![r] = q]

EpochOf(r) == account[request[r].account].epoch

-----------------------------------------------------------------------------
(* Password verification, shared by login and password change *)

\* PasswordLoginService.authenticate: the account snapshot find_for_login
\* returns, before any password work.  The request may carry an old session.
FindForLogin(r) ==
  /\ At(r, "idle")
  /\ \E a \in Accounts, s \in 0..Len(sessions) :
       Continue(r, [Idle EXCEPT !.at = "read", !.account = a, !.sid = s,
                                !.epoch = account[a].epoch])
  /\ UNCHANGED <<account, sessions, live, challenges, open>>

\* Where a proof leads.  A login whose proof is of another epoch than its
\* account snapshot is refused, otherwise it owes a second factor or not; a
\* change goes straight to the replacement when the password is compromised.
Proven(q) ==
  IF q.changing
  THEN {[q EXCEPT !.at = "prepare", !.keep = TRUE], [q EXCEPT !.at = "replace"]}
  ELSE IF q.proof # q.epoch
  THEN {Idle}
  ELSE {[q EXCEPT !.at = "challenge"],
        [q EXCEPT !.at = IF q.sid = NoSession THEN "create" ELSE "rebind"]}

\* verify: one atomic snapshot of hash and epoch, then the hasher accepts the
\* typed password.  (A refused password ends the request: Abandon.)
ReadPassword(r) ==
  /\ At(r, "read")
  /\ LET state == account[request[r].account]
         q == [request[r] EXCEPT !.proof = state.epoch, !.proved = state.password]
     IN IF state.fresh
        THEN \E next \in Proven(q) : Continue(r, next)
        ELSE Continue(r, [q EXCEPT !.at = "rehash"])
  /\ UNCHANGED <<account, sessions, live, challenges, open>>

\* Mutant: the replacement hash is written without the comparison.
RehashBlindly(r) ==
  /\ At(r, "rehash")
  /\ account' = [account EXCEPT ![request[r].account].password = request[r].proved,
                                ![request[r].account].fresh = TRUE]
  /\ \E next \in Proven(request[r]) : Continue(r, next)
  /\ UNCHANGED <<sessions, live, challenges, open>>

\* _rehash: compare and replace on the exact hash that was verified; losing
\* the comparison ends the login as unavailable.
Rehash(r) ==
  /\ At(r, "rehash")
  /\ LET q == request[r]
         stored == account[q.account]
     IN IF stored.password = q.proved /\ ~stored.fresh
        THEN /\ account' = [account EXCEPT ![q.account].fresh = TRUE]
             /\ \E next \in Proven(q) : Continue(r, next)
        ELSE /\ Continue(r, Idle)
             /\ UNCHANGED account
  /\ UNCHANGED <<sessions, live, challenges, open>>

-----------------------------------------------------------------------------
(* Second factor *)

\* MFALoginService.issue
IssueChallenge(r) ==
  /\ At(r, "challenge")
  /\ Len(challenges) < MaxChallenges
  /\ challenges' = Append(challenges, [account |-> request[r].account,
                                       epoch |-> request[r].epoch,
                                       proved |-> request[r].proved])
  /\ open' = open \cup {Len(challenges')}
  /\ Continue(r, Idle)
  /\ UNCHANGED <<account, sessions, live>>

\* complete_mfa_login: the account named by the client is read first.
BeginSecondFactor(r) ==
  /\ At(r, "idle")
  /\ \E c \in DOMAIN challenges, a \in Accounts, s \in 0..Len(sessions) :
       Continue(r, [Idle EXCEPT !.at = "consume", !.account = a, !.sid = s,
                                !.epoch = account[a].epoch, !.via = c])
  /\ UNCHANGED <<account, sessions, live, challenges, open>>

\* Mutant: the challenge is read and validated but stays stored.
ConsumeWithoutBurning(r) ==
  /\ At(r, "consume")
  /\ LET q == request[r]
         c == challenges[q.via]
     IN IF q.via \in open /\ c.account = q.account /\ c.epoch = q.epoch
        THEN Continue(r, [q EXCEPT !.at = "factor", !.proved = c.proved])
        ELSE Continue(r, Idle)
  /\ UNCHANGED <<account, sessions, live, challenges, open>>

\* MFALoginChallengeStore.consume: any attempt burns the challenge, and only
\* an exact match of account and epoch goes on to the factor.
ConsumeChallenge(r) ==
  /\ At(r, "consume")
  /\ LET q == request[r]
         c == challenges[q.via]
     IN /\ open' = open \ {q.via}
        /\ IF q.via \in open /\ c.account = q.account /\ c.epoch = q.epoch
           THEN Continue(r, [q EXCEPT !.at = "factor", !.proved = c.proved])
           ELSE Continue(r, Idle)
  /\ UNCHANGED <<account, sessions, live, challenges>>

\* Mutant: the second read is not compared with the challenge's epoch.
VerifiedLoginAtAnyEpoch(r) ==
  /\ At(r, "factor")
  /\ Continue(r, [request[r] EXCEPT !.at = IF request[r].sid = NoSession
                                           THEN "create" ELSE "rebind",
                                    !.epoch = EpochOf(r)])
  /\ UNCHANGED <<account, sessions, live, challenges, open>>

\* verified_login once the factor is verified: the account is read again and
\* must still be at the epoch of the challenge.
VerifiedLogin(r) ==
  /\ At(r, "factor")
  /\ LET q == request[r]
     IN IF EpochOf(r) = q.epoch
        THEN Continue(r, [q EXCEPT !.at = IF q.sid = NoSession THEN "create" ELSE "rebind"])
        ELSE Continue(r, Idle)
  /\ UNCHANGED <<account, sessions, live, challenges, open>>

-----------------------------------------------------------------------------
(* Establishing a session *)

\* The record a login asks for.
Command(q) ==
  [account |-> q.account, epoch |-> q.epoch, proved |-> q.proved, via |-> q.via,
   prior |-> NoSession]

\* SessionRegistry.create and rebind: the new record appears and the record
\* it replaces, if any, disappears in the same step.
Register(record, replaced) ==
  /\ Len(sessions) < MaxSessions
  /\ sessions' = Append(sessions, record)
  /\ live' = (live \ {replaced}) \cup {Len(sessions')}

\* establish with a decodable payload: rebind it, or fall back to create when
\* the registry no longer knows it.
RebindSession(r) ==
  /\ At(r, "rebind")
  /\ LET q == request[r]
     IN IF q.sid \in live
        THEN /\ Register([Command(q) EXCEPT !.prior = q.sid], q.sid)
             /\ Continue(r, Idle)
        ELSE /\ Continue(r, [q EXCEPT !.at = "create"])
             /\ UNCHANGED <<sessions, live>>
  /\ UNCHANGED <<account, challenges, open>>

\* establish without a prior record
CreateSession(r) ==
  /\ At(r, "create")
  /\ Register(Command(request[r]), NoSession)
  /\ Continue(r, Idle)
  /\ UNCHANGED <<account, challenges, open>>

-----------------------------------------------------------------------------
(* Authentication of a presented session: three separate reads *)

\* accounts.get: an unknown record is refused at once.
ReadRecord(r) ==
  /\ At(r, "idle")
  /\ \E s \in live :
       LET a == sessions[s].account
       IN Continue(r, [Idle EXCEPT !.at = "account", !.account = a, !.sid = s,
                                   !.current = sessions[s].epoch = account[a].epoch])
  /\ UNCHANGED <<account, sessions, live, challenges, open>>

\* accounts.get_by_id
ReadAccount(r) ==
  /\ At(r, "account")
  /\ Continue(r, [request[r] EXCEPT !.at = "epoch", !.epoch = EpochOf(r)])
  /\ UNCHANGED <<account, sessions, live, challenges, open>>

\* _valid_current_state on what the three reads returned
ValidCurrentState(q, epoch) ==
  /\ sessions[q.sid].epoch = epoch
  /\ epoch = q.epoch

\* accounts.current_epoch and the verdict; a record not seen for long is
\* touched before the handler runs.
ReadEpoch(r) ==
  /\ At(r, "epoch")
  /\ LET q == request[r]
     IN IF ValidCurrentState(q, EpochOf(r))
        THEN \E next \in {"accepted", "touch"} : Continue(r, [q EXCEPT !.at = next])
        ELSE Continue(r, Idle)
  /\ UNCHANGED <<account, sessions, live, challenges, open>>

\* SessionRegistry.touch rewrites the stored record, and leaves an absent one
\* absent.
Touch(r) ==
  /\ At(r, "touch")
  /\ Continue(r, [request[r] EXCEPT !.at = "accepted"])
  /\ UNCHANGED <<account, sessions, live, challenges, open>>

-----------------------------------------------------------------------------
(* Handlers of an authenticated request *)

\* logout, and the logout that ends a compromised-password change
Logout(r) ==
  /\ request[r].at \in {"accepted", "leave"}
  /\ live' = live \ {request[r].sid}
  /\ Continue(r, Idle)
  /\ UNCHANGED <<account, sessions, challenges, open>>

\* revoke_session: any session the caller's account owns
RevokeSession(r) ==
  /\ At(r, "accepted")
  /\ \E s \in DOMAIN sessions :
       /\ sessions[s].account = request[r].account
       /\ live' = live \ {s}
  /\ Continue(r, Idle)
  /\ UNCHANGED <<account, sessions, challenges, open>>

\* change_session_password: the current password is verified again.
BeginChange(r) ==
  /\ At(r, "accepted")
  /\ Continue(r, [request[r] EXCEPT !.at = "read", !.changing = TRUE])
  /\ UNCHANGED <<account, sessions, live, challenges, open>>

\* get_by_id and prepare_password_rebind: nothing is written yet.
Prepare(r) ==
  /\ At(r, "prepare")
  /\ IF EpochOf(r) = request[r].proof
     THEN Continue(r, [request[r] EXCEPT !.at = "replace"])
     ELSE Continue(r, Idle)
  /\ UNCHANGED <<account, sessions, live, challenges, open>>

\* PasswordChangeService.force_reset with the epoch its caller read
BeginReset(r) ==
  /\ At(r, "idle")
  /\ \E a \in Accounts :
       Continue(r, [Idle EXCEPT !.at = "replace", !.account = a,
                                !.proof = account[a].epoch])
  /\ UNCHANGED <<account, sessions, live, challenges, open>>

\* replace_password_and_bump_epoch: hash and epoch move together, and only
\* from the epoch of the proof.
ReplacePassword(r) ==
  /\ At(r, "replace")
  /\ LET q == request[r]
         stored == account[q.account]
     IN IF stored.epoch = q.proof
        THEN /\ q.proof < MaxEpoch
             /\ account' = [account EXCEPT ![q.account] =
                  [epoch |-> q.proof + 1, password |-> stored.password + 1,
                   fresh |-> TRUE]]
             /\ Continue(r, [q EXCEPT !.at = IF q.keep THEN "revoke_others" ELSE "revoke_all",
                                      !.epoch = q.proof + 1,
                                      !.proved = stored.password + 1])
        ELSE /\ Continue(r, Idle)
             /\ UNCHANGED account
  /\ UNCHANGED <<sessions, live, challenges, open>>

\* Cleanup runs shielded from cancellation, and a store that fails is only
\* logged: the next step runs all the same.
SessionsOf(a) == {s \in live : sessions[s].account = a}

\* _revoke_all_sessions after a reset or a compromised password
RevokeAll(r) ==
  /\ At(r, "revoke_all")
  /\ live' \in {live, live \ SessionsOf(request[r].account)}
  /\ Continue(r, IF request[r].changing
                 THEN [request[r] EXCEPT !.at = "leave"] ELSE Idle)
  /\ UNCHANGED <<account, sessions, challenges, open>>

\* revoke_other_sessions
RevokeOthers(r) ==
  /\ At(r, "revoke_others")
  /\ live' \in {live, live \ (SessionsOf(request[r].account) \ {request[r].sid})}
  /\ Continue(r, [request[r] EXCEPT !.at = "rebind_changed"])
  /\ UNCHANGED <<account, sessions, challenges, open>>

\* The rebind of the caller's session to the new epoch.  The registry may
\* fail, or may no longer hold the session; then nothing replaces it.
RebindChanged(r) ==
  /\ At(r, "rebind_changed")
  /\ LET q == request[r]
     IN \/ /\ q.sid \in live
           /\ Register([Command(q) EXCEPT !.prior = q.sid], q.sid)
           /\ Continue(r, [q EXCEPT !.at = "activate", !.new = Len(sessions')])
        \/ /\ Continue(r, [q EXCEPT !.at = "activate"])
           /\ UNCHANGED <<sessions, live>>
  /\ UNCHANGED <<account, challenges, open>>

\* activate_password_rebind: the browser gets the replacement only while the
\* registry holds it, and loses its session otherwise.
Activate(r) ==
  /\ At(r, "activate")
  /\ LET q == request[r]
     IN Continue(r, [q EXCEPT !.at = "changed",
                              !.sid = IF q.new \in live THEN q.new ELSE NoSession])
  /\ UNCHANGED <<account, sessions, live, challenges, open>>

\* The outcome CHANGED is returned.
Respond(r) ==
  /\ At(r, "changed")
  /\ Continue(r, Idle)
  /\ UNCHANGED <<account, sessions, live, challenges, open>>

\* A refused password, a store that raises, a client that goes away: outside
\* the shielded cleanup a request may end at any await without further effect.
Abandon(r) ==
  /\ request[r].at \in Points \ {"idle", "revoke_all", "revoke_others", "rebind_changed", "changed"}
  /\ Continue(r, Idle)
  /\ UNCHANGED <<account, sessions, live, challenges, open>>

-----------------------------------------------------------------------------
Step(r) ==
  \/ FindForLogin(r) \/ ReadPassword(r) \/ Rehash(r)
  \/ IssueChallenge(r) \/ BeginSecondFactor(r) \/ ConsumeChallenge(r) \/ VerifiedLogin(r)
  \/ RebindSession(r) \/ CreateSession(r)
  \/ ReadRecord(r) \/ ReadAccount(r) \/ ReadEpoch(r) \/ Touch(r)
  \/ Logout(r) \/ RevokeSession(r)
  \/ BeginChange(r) \/ Prepare(r) \/ BeginReset(r) \/ ReplacePassword(r)
  \/ RevokeAll(r) \/ RevokeOthers(r) \/ RebindChanged(r) \/ Activate(r) \/ Respond(r)
  \/ Abandon(r)

Next == \E r \in Requests : Step(r)

Spec == Init /\ [][Next]_vars

-----------------------------------------------------------------------------
(* Properties *)

\* Every variable keeps its shape; the registry and the challenge store only
\* hold what was created.
TypeOK ==
  /\ account \in [Accounts -> AccountState]
  /\ sessions \in Seq(SessionRecord)
  /\ live \subseteq DOMAIN sessions
  /\ challenges \in Seq(Challenge)
  /\ open \subseteq DOMAIN challenges
  /\ request \in [Requests -> Coroutine]

\* A session that is of the account's current epoch was obtained with the
\* account's current password, whatever the interleaving of logins, second
\* factors, rehashes and changes (authenticate's comparison of proof and
\* snapshot epoch, the challenge's epoch, the compare-and-set of the change).
CurrentSessionsProveCurrentPassword ==
  \A s \in live :
    LET a == sessions[s].account
    IN sessions[s].epoch = account[a].epoch => sessions[s].proved = account[a].password

\* The three unsynchronised reads of authenticate accept only a session that
\* was registered and of the current epoch at one instant of the request,
\* even when the cleanup of a password change failed or has not run yet.
AcceptedSessionsWereCurrent ==
  \A r \in Requests : request[r].at \in {"touch", "accepted"} => request[r].current

\* A revoked session never comes back, and neither does a successor of it: a
\* record that appears is new and the record it replaces was registered until
\* this very step (touch, rebind, logout racing a password change).
RevocationIsFinal ==
  [][\A s \in live' \ live :
       /\ s \notin DOMAIN sessions
       /\ sessions'[s].prior \in live \cup {NoSession}]_vars

\* A password that was replaced never verifies again: no rehash that was under
\* way writes the older password back.
ReplacedPasswordsStayReplaced ==
  [][\A a \in Accounts :
       /\ account'[a].password >= account[a].password
       /\ (account'[a].password # account[a].password <=> account'[a].epoch # account[a].epoch)]_vars

\* One second-factor challenge opens at most one session, however many
\* completions race for it.
ChallengesAreSpentOnce ==
  \A s, t \in DOMAIN sessions :
    sessions[s].via # 0 /\ sessions[s].via = sessions[t].via => s = t

\* The records and the requests together: a session is only as good as the
\* password it was obtained with.
SessionsAreSound ==
  TypeOK /\ CurrentSessionsProveCurrentPassword /\ AcceptedSessionsWereCurrent

\* Neither a session nor a password that was withdrawn comes back.
WithdrawnStaysWithdrawn == RevocationIsFinal /\ ReplacedPasswordsStayReplaced

=============================================================================
