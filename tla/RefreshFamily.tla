--------------------------- MODULE RefreshFamily ---------------------------
(***************************************************************************)
(* Opaque refresh tokens and their families: RefreshTokenService           *)
(* (accounts/_refresh.py) running against the reference store              *)
(* InMemoryLocalAccountStore (testing.py), whose every operation is one    *)
(* critical section of the store's lock.                                   *)
(*                                                                         *)
(* A request is a coroutine that stops at every await: between two of its  *)
(* steps any other request, the clock, or an account change may run.  A    *)
(* request may also end at any await without an answer (Abort): a port     *)
(* raised, the task was cancelled, the process died or the response was    *)
(* lost.  What the store committed before stays committed.                 *)
(*                                                                         *)
(* A token is its lookup identifier; the digest of the secret is abstracted*)
(* by `genuine`.  An access token is not modelled apart: a token pair is   *)
(* identified by the refresh token in it.                                  *)
(***************************************************************************)
EXTENDS Integers

CONSTANTS
  Accounts, Families, Tokens,   \* identifiers; codec and factories draw from them at random
  Clients,                      \* requests that may be in flight together
  Keys,                         \* digests of well-formed Idempotency-Key headers
  NoKey,                        \* no header: the digest is None
  InvalidKey,                   \* a header that digest_idempotency_key rejects
  None,                         \* Python's None for every optional field below
  Idle, Absolute, Window,       \* idle_lifetime, absolute_lifetime, receipt_window
  MaxTime, MaxEpoch             \* bounds of the clock and of the security epochs

ASSUME LifetimesAssumption ==
  /\ Idle \in Nat \ {0} /\ Absolute \in Nat /\ Idle <= Absolute
  /\ Window \in Nat \ {0}
  /\ MaxTime \in Nat /\ MaxEpoch \in Nat

ASSUME KeysAssumption ==
  /\ NoKey \notin Keys /\ InvalidKey \notin Keys /\ NoKey # InvalidKey

ASSUME NoneAssumption ==
  /\ None \notin Tokens /\ None \notin Families /\ None \notin Accounts

VARIABLES
  now,        \* the clock every component reads
  account,    \* _accounts: standing and security epoch of each account
  tokens,     \* _refresh_tokens: the dictionary of token states
  request,    \* the coroutine of each client
  delivered   \* history: the pairs handed to callers, and for which token and key

vars == <<now, account, tokens, request, delivered>>

----------------------------------------------------------------------------
Epochs == 0 .. MaxEpoch
Digests == Keys \cup {NoKey}
Times == 0 .. MaxTime
Expiries == 0 .. MaxTime + Absolute + Window

AccountState == [active : BOOLEAN, epoch : Epochs]

\* LocalAccountState as one read returns it; active stands for active and verified.
Snapshot == [account_id : Accounts, active : BOOLEAN, epoch : Epochs]

Context == [account : Accounts, family : Families, epoch : Epochs,
            expires : Expiries, familyExpires : Expiries]

\* A sealed receipt: the response, the expiry, and the associated data that
\* unseal authenticates.
Receipt == [token : Tokens, family : Families, account : Accounts, epoch : Epochs,
            key : Digests, expires : Expiries, successor : Tokens]

TokenState == [account : Accounts, family : Families, epoch : Epochs,
               expires : Expiries, familyExpires : Expiries,
               consumed : BOOLEAN, revoked : BOOLEAN,
               key : Digests, receipt : Receipt \cup {None}]

Stages == {"idle", "check_epoch", "create", "created", "prepare", "get_account",
           "get_epoch", "rotate", "recover", "fail_closed"}

Request == [pc : Stages,
            token : Tokens \cup {None},         \* the presented (or first) token
            genuine : BOOLEAN,                  \* its digest is the stored one
            key : Digests \cup {InvalidKey},
            at : Times,                         \* rotated_at or issued_at
            context : Context \cup {None},
            snapshot : Snapshot \cup {None},
            receipt : Receipt \cup {None}]

Resting == [pc |-> "idle", token |-> None, genuine |-> FALSE, key |-> NoKey, at |-> 0,
            context |-> None, snapshot |-> None, receipt |-> None]

Delivery == [presented : Tokens \cup {None}, key : Digests, token : Tokens]

Lesser(m, n) == IF m <= n THEN m ELSE n

\* A rejected header leaves idempotency_digest at None.
Digest(key) == IF key = InvalidKey THEN NoKey ELSE key

Known == {d.token : d \in delivered}

----------------------------------------------------------------------------
(* The store                                                               *)

FamilyOf(f) == {t \in DOMAIN tokens : tokens[t].family = f}

\* Insert one state into the dictionary.
Put(t, state) ==
  [u \in DOMAIN tokens \cup {t} |-> IF u = t THEN state ELSE tokens[u]]

NewState(context) ==
  [account |-> context.account, family |-> context.family, epoch |-> context.epoch,
   expires |-> context.expires, familyExpires |-> context.familyExpires,
   consumed |-> FALSE, revoked |-> FALSE, key |-> NoKey, receipt |-> None]

\* Mutant of Consume: the key the token was consumed with is not recorded.
ConsumeKeyless(state, key, receipt) ==
  [state EXCEPT !.consumed = TRUE, !.receipt = receipt]

Consume(state, key, receipt) ==
  [state EXCEPT !.consumed = TRUE, !.key = key, !.receipt = receipt]

ContextOf(state) ==
  [account |-> state.account, family |-> state.family, epoch |-> state.epoch,
   expires |-> state.expires, familyExpires |-> state.familyExpires]

\* Mutant of RevokeFamilies: used tokens are revoked, the live tip is spared.
RevokeUsed(fs) ==
  [t \in DOMAIN tokens |->
     IF tokens[t].family \in fs /\ tokens[t].consumed
     THEN [tokens[t] EXCEPT !.revoked = TRUE] ELSE tokens[t]]

\* _revoke_family_locked; a family already revoked is left as it is.
RevokeFamilies(fs) ==
  [t \in DOMAIN tokens |->
     IF tokens[t].family \in fs THEN [tokens[t] EXCEPT !.revoked = TRUE] ELSE tokens[t]]

Revoked(f) == \E t \in FamilyOf(f) : tokens[t].revoked

Expired(state, at) == state.expires <= at \/ state.familyExpires <= at

----------------------------------------------------------------------------
(* The receipt sealer                                                      *)

\* Mutant of Seal: account and family change places.
SealSwapped(token, context, key, successor, expires) ==
  [token |-> token, family |-> context.account, account |-> context.family,
   epoch |-> context.epoch, key |-> key, expires |-> expires, successor |-> successor]

Seal(token, context, key, successor, expires) ==
  [token |-> token, family |-> context.family, account |-> context.account,
   epoch |-> context.epoch, key |-> key, expires |-> expires, successor |-> successor]

\* The receipt opens only for the binding it was sealed with, before its expiry.
Unseals(receipt, token, context, key, at) ==
  /\ receipt = Seal(token, context, key, receipt.successor, receipt.expires)
  /\ at < receipt.expires

----------------------------------------------------------------------------
Init ==
  /\ now = 0
  /\ account = [a \in Accounts |-> [active |-> TRUE, epoch |-> 0]]
  /\ tokens = [t \in {} |-> None]
  /\ request = [c \in Clients |-> Resting]
  /\ delivered = {}

Finish(c) == request' = [request EXCEPT ![c] = Resting]

(* issue(): the caller holds an account state it read when it authenticated
   the user; create_family decides whether the epoch is still current.     *)

BeginIssue(c, a) ==
  /\ request[c].pc = "idle"
  /\ account[a].active
  /\ request' = [request EXCEPT ![c] =
       [Resting EXCEPT !.pc = "check_epoch", !.at = now,
          !.snapshot = [account_id |-> a, active |-> TRUE, epoch |-> account[a].epoch]]]
  /\ UNCHANGED <<now, account, tokens, delivered>>

CheckEpoch(c) ==
  /\ request[c].pc = "check_epoch"
  /\ LET r == request[c] IN
     IF account[r.snapshot.account_id].epoch # r.snapshot.epoch
     THEN Finish(c)
     ELSE \E t \in Tokens, f \in Families :
            request' = [request EXCEPT ![c] =
              [r EXCEPT !.pc = "create", !.token = t,
                 !.context = [account |-> r.snapshot.account_id, family |-> f,
                              epoch |-> r.snapshot.epoch,
                              expires |-> Lesser(r.at + Idle, r.at + Absolute),
                              familyExpires |-> r.at + Absolute]]]
  /\ UNCHANGED <<now, account, tokens, delivered>>

CreateFamily(c) ==
  /\ request[c].pc = "create"
  /\ LET r == request[c]
         ctx == r.context IN
     IF \/ account[ctx.account].epoch # ctx.epoch
        \/ r.token \in DOMAIN tokens
        \/ FamilyOf(ctx.family) # {}
     THEN Finish(c) /\ UNCHANGED tokens
     ELSE /\ tokens' = Put(r.token, NewState(ctx))
          /\ request' = [request EXCEPT ![c].pc = "created"]
  /\ UNCHANGED <<now, account, delivered>>

\* The first pair is revealed only after the family is committed.
AnswerIssue(c) ==
  /\ request[c].pc = "created"
  /\ delivered' = delivered \cup
       {[presented |-> None, key |-> NoKey, token |-> request[c].token]}
  /\ Finish(c)
  /\ UNCHANGED <<now, account, tokens>>

(* rotate(): the clock is read once, before the first store call.          *)

BeginRotate(c, t, key, genuine) ==
  /\ request[c].pc = "idle"
  /\ request' = [request EXCEPT ![c] =
       [Resting EXCEPT !.pc = "prepare", !.token = t, !.genuine = genuine,
                       !.key = key, !.at = now]]
  /\ UNCHANGED <<now, account, tokens, delivered>>

\* The presented token is in the store and its digest matches.
Recognised(r) == r.token \in DOMAIN tokens /\ r.genuine

\* Unknown, revoked, expired or out-of-epoch: a negative outcome that writes nothing.
PrepareRejected(c) ==
  /\ request[c].pc = "prepare"
  /\ LET r == request[c] IN
     \/ ~Recognised(r)
     \/ /\ Recognised(r)
        /\ LET state == tokens[r.token] IN
           \/ state.revoked
           \/ /\ ~state.consumed
              /\ \/ Expired(state, r.at)
                 \/ account[state.account].epoch # state.epoch
                 \/ r.key = InvalidKey
  /\ Finish(c)
  /\ UNCHANGED <<now, account, tokens, delivered>>

\* The stored digest equals the presented one, None included.
SameKey(state, r) == state.key = Digest(r.key) /\ state.receipt # None

\* A consumed token comes back with the key that consumed it.
PrepareReplay(c) ==
  /\ request[c].pc = "prepare"
  /\ LET r == request[c] IN
     /\ Recognised(r)
     /\ LET state == tokens[r.token] IN
        /\ ~state.revoked /\ state.consumed
        /\ SameKey(state, r)
        /\ request' = [request EXCEPT ![c] =
             [r EXCEPT !.pc = "get_account", !.context = ContextOf(state),
                       !.receipt = state.receipt]]
  /\ UNCHANGED <<now, account, tokens, delivered>>

\* A consumed token comes back otherwise: the family is revoked at once.
PrepareReuse(c) ==
  /\ request[c].pc = "prepare"
  /\ LET r == request[c] IN
     /\ Recognised(r)
     /\ LET state == tokens[r.token] IN
        /\ ~state.revoked /\ state.consumed
        /\ ~SameKey(state, r)
        /\ tokens' = RevokeFamilies({state.family})
  /\ Finish(c)
  /\ UNCHANGED <<now, account, delivered>>

PrepareActive(c) ==
  /\ request[c].pc = "prepare"
  /\ LET r == request[c] IN
     /\ Recognised(r)
     /\ r.key # InvalidKey
     /\ LET state == tokens[r.token] IN
        /\ ~state.revoked /\ ~state.consumed /\ ~Expired(state, r.at)
        /\ account[state.account].epoch = state.epoch
        /\ request' = [request EXCEPT ![c] =
             [r EXCEPT !.pc = "get_account", !.context = ContextOf(state)]]
  /\ UNCHANGED <<now, account, tokens, delivered>>

\* _resolve_account, first read.
GetAccount(c) ==
  /\ request[c].pc = "get_account"
  /\ LET a == request[c].context.account IN
     request' = [request EXCEPT ![c].pc = "get_epoch",
                   ![c].snapshot = [account_id |-> a, active |-> account[a].active,
                                    epoch |-> account[a].epoch]]
  /\ UNCHANGED <<now, account, tokens, delivered>>

\* _resolve_account, second read and the verdict over both.
GetEpoch(c) ==
  /\ request[c].pc = "get_epoch"
  /\ LET r == request[c] IN
     IF /\ r.snapshot.active
        /\ r.snapshot.epoch = r.context.epoch
        /\ account[r.context.account].epoch = r.context.epoch
     THEN request' = [request EXCEPT ![c].pc = IF r.receipt # None THEN "recover" ELSE "rotate"]
     ELSE Finish(c)
  /\ UNCHANGED <<now, account, tokens, delivered>>

\* The prepared context still describes the stored token.
ContextMatches(state, context) ==
  /\ state.account = context.account
  /\ state.family = context.family
  /\ state.epoch = context.epoch

EpochCurrent(context) == account[context.account].epoch = context.epoch

\* Mutants of RotationValid: each trusts one thing that prepare_rotation saw.
RotatesConsumed(r, successor) ==
  /\ Recognised(r)
  /\ ~tokens[r.token].revoked
  /\ ContextMatches(tokens[r.token], r.context) /\ EpochCurrent(r.context)
  /\ ~Expired(tokens[r.token], r.at)
  /\ successor \notin DOMAIN tokens

RotatesRevoked(r, successor) ==
  /\ Recognised(r)
  /\ ~tokens[r.token].consumed
  /\ ContextMatches(tokens[r.token], r.context) /\ EpochCurrent(r.context)
  /\ ~Expired(tokens[r.token], r.at)
  /\ successor \notin DOMAIN tokens

\* The guard of the store's rotate(), read again inside its critical section.
RotationValid(r, successor) ==
  /\ Recognised(r)
  /\ ~tokens[r.token].consumed /\ ~tokens[r.token].revoked
  /\ ContextMatches(tokens[r.token], r.context)
  /\ EpochCurrent(r.context)
  /\ ~Expired(tokens[r.token], r.at)
  /\ successor \notin DOMAIN tokens

\* The command for the successor, the receipt sealed beforehand, and the
\* store's rotate(): one atomic commit, or nothing.
Rotate(c, successor) ==
  /\ request[c].pc = "rotate"
  /\ successor # request[c].token
  /\ LET r == request[c]
         ctx == r.context
         sealed == Seal(r.token, ctx, Digest(r.key), successor,
                        Lesser(r.at + Window, ctx.familyExpires)) IN
     IF RotationValid(r, successor)
     THEN /\ tokens' =
               [Put(successor, NewState([ctx EXCEPT !.expires =
                                           Lesser(r.at + Idle, ctx.familyExpires)]))
                EXCEPT ![r.token] = Consume(@, Digest(r.key), sealed)]
          /\ request' = [request EXCEPT ![c].pc = "recover", ![c].receipt = sealed]
     ELSE Finish(c) /\ UNCHANGED tokens
  /\ UNCHANGED <<now, account, delivered>>

\* _recover_receipt: the answer is what the receipt holds, or the family goes.
Recover(c) ==
  /\ request[c].pc = "recover"
  /\ LET r == request[c] IN
     IF Unseals(r.receipt, r.token, r.context, Digest(r.key), r.at)
     THEN /\ delivered' = delivered \cup
               {[presented |-> r.token, key |-> Digest(r.key), token |-> r.receipt.successor]}
          /\ Finish(c)
     ELSE /\ request' = [request EXCEPT ![c].pc = "fail_closed"]
          /\ UNCHANGED delivered
  /\ UNCHANGED <<now, account, tokens>>

FailClosed(c) ==
  /\ request[c].pc = "fail_closed"
  /\ tokens' = RevokeFamilies({request[c].context.family})
  /\ Finish(c)
  /\ UNCHANGED <<now, account, delivered>>

Abort(c) ==
  /\ request[c].pc # "idle"
  /\ Finish(c)
  /\ UNCHANGED <<now, account, tokens, delivered>>

----------------------------------------------------------------------------
(* Single-call operations: one store call each, and no state after it.     *)

\* revoke(): whoever presents the token with its secret.
RevokeToken(t, genuine) ==
  /\ t \in DOMAIN tokens /\ genuine
  /\ tokens' = RevokeFamilies({tokens[t].family})
  /\ UNCHANGED <<now, account, request, delivered>>

\* revoke_for_account(): the signed-in account a presents a token it must own.
RevokeTokenForAccount(a, t, genuine) ==
  /\ t \in DOMAIN tokens /\ genuine /\ tokens[t].account = a
  /\ tokens' = RevokeFamilies({tokens[t].family})
  /\ UNCHANGED <<now, account, request, delivered>>

\* Every family of an account: sign-out everywhere.
RevokeForAccount(a) ==
  /\ tokens' = RevokeFamilies({f \in Families :
                                 \E t \in FamilyOf(f) : tokens[t].account = a})
  /\ UNCHANGED <<now, account, request, delivered>>

\* replace_password_and_bump_epoch and consume_and_reset, with the expected epoch.
BumpEpoch(a) ==
  /\ account[a].epoch < MaxEpoch
  /\ account' = [account EXCEPT ![a].epoch = @ + 1]
  /\ UNCHANGED <<now, tokens, request, delivered>>

\* The application suspends or reinstates an account.
SetActive(a) ==
  /\ account' = [account EXCEPT ![a].active = ~ @]
  /\ UNCHANGED <<now, tokens, request, delivered>>

Tick ==
  /\ now < MaxTime
  /\ now' = now + 1
  /\ UNCHANGED <<account, tokens, request, delivered>>

----------------------------------------------------------------------------
Serve(c) ==
  \/ CheckEpoch(c) \/ CreateFamily(c) \/ AnswerIssue(c)
  \/ PrepareRejected(c) \/ PrepareReplay(c) \/ PrepareReuse(c) \/ PrepareActive(c)
  \/ GetAccount(c) \/ GetEpoch(c)
  \/ \E t \in Tokens : Rotate(c, t)
  \/ Recover(c) \/ FailClosed(c)

Administer ==
  \/ \E a \in Accounts : BumpEpoch(a) \/ SetActive(a) \/ RevokeForAccount(a)
  \/ \E t \in Known, genuine \in BOOLEAN :
       RevokeToken(t, genuine) \/ \E a \in Accounts : RevokeTokenForAccount(a, t, genuine)

Next ==
  \/ \E c \in Clients :
       \/ \E a \in Accounts : BeginIssue(c, a)
       \/ \E t \in Known :  \* with a wrong secret the key decides nothing
            \/ BeginRotate(c, t, NoKey, FALSE)
            \/ \E key \in Digests \cup {InvalidKey} : BeginRotate(c, t, key, TRUE)
       \/ Serve(c)
       \/ Abort(c)
  \/ Administer
  \/ Tick

Spec == Init /\ [][Next]_vars

----------------------------------------------------------------------------
(* Properties                                                              *)

\* Every variable has its type: what the dictionary, a coroutine and the
\* history may hold.
TypeOK ==
  /\ now \in Times
  /\ account \in [Accounts -> AccountState]
  /\ DOMAIN tokens \subseteq Tokens
  /\ tokens \in [DOMAIN tokens -> TokenState]
  /\ request \in [Clients -> Request]
  /\ delivered \subseteq Delivery

\* A family is one chain: its tokens are revoked together, exactly one of
\* them has not been consumed, and every other one leads to its own successor
\* inside the family.  Two rotations of one token racing between prepare and
\* commit (rotate, testing.py) must not fork it.
LinearFamily ==
  /\ \A s, t \in DOMAIN tokens : tokens[s].family = tokens[t].family =>
       /\ tokens[s].revoked = tokens[t].revoked
       /\ ~tokens[s].consumed /\ ~tokens[t].consumed => s = t
       /\ /\ tokens[s].consumed /\ tokens[t].consumed
          /\ tokens[s].receipt.successor = tokens[t].receipt.successor
          => s = t
  /\ \A t \in DOMAIN tokens : tokens[t].consumed =>
       LET next == tokens[t].receipt.successor IN
       /\ next \in DOMAIN tokens \ {t}
       /\ tokens[next].family = tokens[t].family

\* Whatever pair a caller received for a token is the successor the store
\* committed for it, under the one key it was consumed with: racing requests,
\* retries and replays never hand out two different answers for one token.
AnswersAreCommitted ==
  \A d \in delivered :
    /\ d.token \in DOMAIN tokens
    /\ d.presented # None =>
         /\ d.presented \in DOMAIN tokens
         /\ tokens[d.presented].consumed
         /\ tokens[d.presented].key = d.key
         /\ tokens[d.presented].receipt.successor = d.token

\* Rotation never lengthens a session: all tokens of a family share the expiry
\* fixed when it was created, and no token or receipt outlives it.
LifetimeIsFixed ==
  /\ \A s, t \in DOMAIN tokens :
       tokens[s].family = tokens[t].family =>
         tokens[s].familyExpires = tokens[t].familyExpires
  /\ \A t \in DOMAIN tokens :
       /\ tokens[t].expires <= tokens[t].familyExpires
       /\ tokens[t].consumed => tokens[t].receipt.expires <= tokens[t].familyExpires

\* A revoked family is frozen: it never gains a token and is never reinstated,
\* not even by a rotation that was prepared before the revocation.
RevokedStaysFrozen ==
  [][\A f \in Families : Revoked(f) =>
       /\ {t \in DOMAIN tokens' : tokens'[t].family = f} = FamilyOf(f)
       /\ \A t \in FamilyOf(f) : tokens'[t].revoked /\ tokens'[t].consumed = tokens[t].consumed]_vars

\* Once the account's security epoch has moved on, nothing begun under the old
\* one, neither an issue nor a rotation, adds a token any more.
OnlyCurrentEpochGrows ==
  [][\A t \in DOMAIN tokens' \ DOMAIN tokens :
       tokens'[t].epoch = account[tokens'[t].account].epoch]_vars

\* A family is one chain, what its callers were told is the chain, and it ends
\* when it was to end.
FamiliesAreChains == LinearFamily /\ AnswersAreCommitted /\ LifetimeIsFixed

\* What was prepared before a revocation or a change of the epoch adds nothing
\* after it.
StaleRequestsAddNothing == RevokedStaysFrozen /\ OnlyCurrentEpochGrows

\* The store's conformance check asks that a consumed token presented without
\* a key revoke its family; so no request without a usable key may ever be
\* handed a stored receipt.
UnkeyedReuseIsDetected ==
  \A c \in Clients :
    request[c].pc = "get_account" /\ request[c].receipt # None => request[c].key \in Keys

----------------------------------------------------------------------------
(* The store implements the abstract chain.                                *)

Tip(f) ==
  IF FamilyOf(f) = {} THEN None ELSE CHOOSE t \in FamilyOf(f) : ~tokens[t].consumed

Chain == INSTANCE TokenChain WITH
           tip    <- [f \in Families |-> Tip(f)],
           used   <- DOMAIN tokens,
           closed <- {f \in Families : Revoked(f)}

\* Every behaviour of the service over the store is a behaviour of TokenChain.
ImplementsTokenChain == Chain!Spec

=============================================================================
