----------------------------- MODULE OAuthFlows -----------------------------
(***************************************************************************)
(* The OAuth lifecycle: providers/oauth/_routes.py over the transaction    *)
(* store of _transactions.py and the step-up grants of accounts/_mfa.py.   *)
(*                                                                         *)
(* A round trip is three requests at most: one that obtains a step-up      *)
(* grant, one that begins a transaction (and consumes the grant), and the  *)
(* callback, which consumes the transaction.  The account's epoch, its     *)
(* links and the other requests move in between and at every await.  There *)
(* is one provider; retained tokens and method counts are ProviderTokens'. *)
(* State, browser binding and grant are unguessable: a callback presents   *)
(* one transaction's values or none at all.                                *)
(***************************************************************************)
EXTENDS Naturals, FiniteSets

CONSTANTS Accounts,        \* account ids
          WithLocalLogin,  \* accounts that have a local login method beside their link
          Identities,      \* identities at the provider; each names its provider account
          Sessions,        \* browser sessions: transport binding and session binding
          Grants,          \* step-up tokens
          Transactions,    \* state values
          Requests,        \* requests under way at one time
          StepUpPurposes,  \* purposes the application issues grants for
          Reauthentication, \* purposes the registration has a reauthentication policy for
          ProvisionUnknown, \* whether a login may create an account
          Capacity,        \* capacity of the transaction store
          HasClock,        \* whether the transaction store has a clock
          MaxEpoch,        \* bound on an account's epoch
          NoOne, NoGrant, NoTransaction

Purposes == {"oauth-link", "oauth-scope-upgrade", "oauth-unlink", "oauth-provider-token-management"}

ASSUME FlowsAssumption ==
    /\ WithLocalLogin \subseteq Accounts
    /\ NoOne \notin Accounts \cup Identities \cup Sessions
    /\ NoGrant \notin Grants /\ NoTransaction \notin Transactions
    /\ StepUpPurposes \subseteq Purposes /\ Reauthentication \subseteq Purposes
    /\ ProvisionUnknown \in BOOLEAN /\ HasClock \in BOOLEAN
    /\ Capacity \in Nat \ {0} /\ MaxEpoch \in Nat

VARIABLES epoch,         \* the epoch of each account there is
          links,         \* the account of each identity
          grants,        \* the step-up store; what is gone, and the epoch the evidence was
                         \* checked at, are history
          transactions,  \* MemoryOAuthTransactionStore._records
          req,           \* each request's progress
          effects,       \* how often each grant has had an effect (history)
          outcomes       \* how often each transaction has been completed (history)

history == <<effects, outcomes>>
vars == <<epoch, links, grants, transactions, req, history>>

Epochs == 0..MaxEpoch

\* What a transaction binds.  grant is history: the grant its begin consumed
Bindings ==
    [operation : {"none", "login", "link", "scope-upgrade", "revalidate", "reauthenticate",
                  "unlink", "revoke"},
     account : Accounts \cup {NoOne}, identity : Identities \cup {NoOne},
     session : Sessions \cup {NoOne}, epoch : Epochs,
     purpose : Purposes \cup {"none"}, grant : Grants \cup {NoGrant}]
Unbound == [operation |-> "none", account |-> NoOne, identity |-> NoOne, session |-> NoOne,
            epoch |-> 0, purpose |-> "none", grant |-> NoGrant]

GrantStates == [state : {"unissued", "live", "gone"}, account : Accounts \cup {NoOne},
                purpose : Purposes \cup {"none"}, session : Sessions \cup {NoOne},
                epoch : Epochs, proved : Epochs]
Unissued == [state |-> "unissued", account |-> NoOne, purpose |-> "none", session |-> NoOne,
             epoch |-> 0, proved |-> 0]

\* A request: what it is bound to, the session it runs in, the transaction it
\* consumed, the identity the provider vouched for, the epoch it read last.
\* since is history: the epoch when a request began that is to have an effect.
Progress == [pc : {"idle", "epoch", "consume", "create", "refused", "exchange", "proof", "commit",
                   "confirming", "confirm", "reread", "issue", "unlink", "revoke"},
             bound : Bindings, session : Sessions \cup {NoOne},
             transaction : Transactions \cup {NoTransaction},
             seen : Identities \cup {NoOne}, read : Epochs, since : Epochs]
Idle == [pc |-> "idle", bound |-> Unbound, session |-> NoOne, transaction |-> NoTransaction,
         seen |-> NoOne, read |-> 0, since |-> 0]

TypeOK ==
    /\ \E existing \in SUBSET Accounts : epoch \in [existing -> Epochs]
    /\ links \in [Identities -> DOMAIN epoch \cup {NoOne}]
    /\ grants \in [Grants -> GrantStates]
    /\ transactions \in [Transactions -> [status : {"unused", "pending", "expired", "gone"},
                                          bound : Bindings]]
    /\ req \in [Requests -> Progress]
    /\ effects \in [Grants -> Nat] /\ outcomes \in [Transactions -> Nat]

OneLinkEach(l) == \A i, j \in Identities : l[i] = l[j] /\ l[i] # NoOne => i = j

Init ==
    /\ epoch \in {[a \in existing |-> 0] : existing \in SUBSET Accounts}
    /\ links \in {l \in [Identities -> DOMAIN epoch \cup {NoOne}] : OneLinkEach(l)}
    /\ grants = [g \in Grants |-> Unissued]
    /\ transactions = [t \in Transactions |-> [status |-> "unused", bound |-> Unbound]]
    /\ req = [r \in Requests |-> Idle]
    /\ effects = [g \in Grants |-> 0]
    /\ outcomes = [t \in Transactions |-> 0]
-----------------------------------------------------------------------------
At(r, pc) == req[r].pc = pc
Goes(r, pc) == req' = [req EXCEPT ![r].pc = pc]
Ends(r) == req' = [req EXCEPT ![r] = Idle]

Linked(a, i) == links[i] = a

\* A password change, a reset or a logout everywhere
BumpEpoch(a) ==
    /\ a \in DOMAIN epoch /\ epoch[a] < MaxEpoch
    /\ epoch' = [epoch EXCEPT ![a] = @ + 1]
    /\ UNCHANGED <<links, grants, transactions, req, history>>

\* Time passes over the end of a transaction's lifetime
Expire(t) ==
    /\ transactions[t].status = "pending"
    /\ transactions' = [transactions EXCEPT ![t].status = "expired"]
    /\ UNCHANGED <<epoch, links, grants, req, history>>

\* StepUpService.issue for evidence the application checked at the current epoch
StepUp(g, a, s, purpose) ==
    /\ grants[g].state = "unissued" /\ a \in DOMAIN epoch
    /\ grants' = [grants EXCEPT ![g] = [state |-> "live", account |-> a, purpose |-> purpose, session |-> s,
                                        epoch |-> epoch[a], proved |-> epoch[a]]]
    /\ UNCHANGED <<epoch, links, transactions, req, history>>
-----------------------------------------------------------------------------
(* Requests that begin.  The first await of each is in its first step.      *)

Confirmations == {"revalidate", "reauthenticate"}
\* unlink and revoke have their effect in the request that consumes the grant
AfterGrant(operation) ==
    IF operation \in {"unlink", "revoke"} THEN operation ELSE "create"

Starts(r, s, bound, pc) ==
    /\ At(r, "idle")
    /\ req' = [req EXCEPT ![r] = [Idle EXCEPT
                 !.pc = pc, !.session = s, !.bound = [bound EXCEPT !.session = s],
                 !.since = IF pc = "epoch" /\ AfterGrant(bound.operation) # "create"
                           THEN epoch[bound.account] ELSE 0]]
    /\ UNCHANGED <<epoch, links, grants, transactions, history>>

BeginLogin(r, s) ==
    Starts(r, s, [Unbound EXCEPT !.operation = "login"], "create")

BeginLink(r, a, s, g) ==
    Starts(r, s, [Unbound EXCEPT !.operation = "link", !.account = a, !.purpose = "oauth-link",
                                 !.grant = g], "epoch")

BeginUpgrade(r, a, i, s, g) ==
    /\ Linked(a, i)
    /\ Starts(r, s, [Unbound EXCEPT !.operation = "scope-upgrade", !.account = a, !.identity = i,
                                    !.purpose = "oauth-scope-upgrade", !.grant = g], "epoch")

BeginUnlink(r, a, i, s, g) ==
    Starts(r, s, [Unbound EXCEPT !.operation = "unlink", !.account = a, !.identity = i,
                                 !.purpose = "oauth-unlink", !.grant = g], "epoch")

BeginRevoke(r, a, s, g) ==
    Starts(r, s, [Unbound EXCEPT !.operation = "revoke", !.account = a,
                                 !.purpose = "oauth-provider-token-management", !.grant = g], "epoch")

\* revalidate and reauthenticate: no grant, the link is what is confirmed
BeginConfirmation(r, a, i, s) ==
    /\ Linked(a, i)
    /\ \/ Starts(r, s, [Unbound EXCEPT !.operation = "revalidate", !.account = a, !.identity = i], "epoch")
       \/ \E purpose \in Reauthentication :
             Starts(r, s, [Unbound EXCEPT !.operation = "reauthenticate", !.account = a, !.identity = i,
                                          !.purpose = purpose], "epoch")

\* current_security_epoch
ReadEpoch(r) ==
    /\ At(r, "epoch")
    /\ req' = [req EXCEPT ![r].bound.epoch = epoch[req[r].bound.account],
                          ![r].pc = IF req[r].bound.operation \in Confirmations THEN "create" ELSE "consume"]
    /\ UNCHANGED <<epoch, links, grants, transactions, history>>

GrantFits(r, g) ==
    LET b == req[r].bound IN
    /\ grants[g].state = "live"
    /\ grants[g].account = b.account /\ grants[g].purpose = b.purpose
    /\ grants[g].epoch = b.epoch /\ grants[g].session = b.session

\* the store pops the grant before it compares anything
GrantBurnt(g) ==
    IF grants[g].state = "live" THEN [grants EXCEPT ![g].state = "gone"] ELSE grants

\* A grant that fits may still have expired
ConsumeGrant(r) ==
    LET g == req[r].bound.grant IN
    /\ At(r, "consume")
    /\ grants' = GrantBurnt(g)
    /\ \/ GrantFits(r, g) /\ Goes(r, AfterGrant(req[r].bound.operation))
       \/ Ends(r)
    /\ UNCHANGED <<epoch, links, transactions, history>>
-----------------------------------------------------------------------------
(* The transaction store.                                                   *)

Gone == [status |-> "gone", bound |-> Unbound]
Stored(store) == {t \in Transactions : store[t].status \in {"pending", "expired"}}

PurgedOnConsumeOnly == transactions
Purged == [t \in Transactions |-> IF transactions[t].status = "expired" THEN Gone ELSE transactions[t]]

\* create purges what expired only when it has a clock to know
AtCreate == IF HasClock THEN Purged ELSE transactions

Create(r, t) ==
    /\ At(r, "create") /\ transactions[t].status = "unused"
    /\ Cardinality(Stored(AtCreate)) < Capacity
    /\ transactions' = [AtCreate EXCEPT ![t] = [status |-> "pending", bound |-> req[r].bound]]
    /\ Ends(r)
    /\ UNCHANGED <<epoch, links, grants, history>>

\* at capacity create raises: the grant is gone, and no transaction began
Refuse(r) ==
    /\ At(r, "create") /\ Cardinality(Stored(AtCreate)) >= Capacity
    /\ transactions' = AtCreate
    /\ Goes(r, "refused")
    /\ UNCHANGED <<epoch, links, grants, history>>

SessionMatches(t, s) == transactions[t].bound.session = s

\* consume purges, then takes the record out whether it fits or not
Popped(t) == [Purged EXCEPT ![t] = Gone]

Callback(r, t, s) ==
    /\ At(r, "idle") /\ t \in Stored(transactions)
    /\ transactions' = Popped(t)
    /\ IF transactions[t].status = "pending" /\ SessionMatches(t, s)
       THEN LET b == transactions[t].bound IN
            req' = [req EXCEPT ![r] = [Idle EXCEPT
                      !.pc = "exchange", !.bound = b, !.session = s, !.transaction = t,
                      !.since = IF b.grant = NoGrant THEN 0 ELSE epoch[b.account]]]
       ELSE UNCHANGED req
    /\ UNCHANGED <<epoch, links, grants, history>>
-----------------------------------------------------------------------------
(* The callback.  The provider vouches for whoever logged in there.         *)

AfterExchange(operation) ==
    CASE operation \in Confirmations -> "confirming"
      [] operation = "login" -> "commit"
      [] OTHER -> "proof"

Exchange(r, i) ==
    /\ At(r, "exchange")
    /\ req' = [req EXCEPT ![r].seen = i, ![r].pc = AfterExchange(req[r].bound.operation)]
    /\ UNCHANGED <<epoch, links, grants, transactions, history>>

TrustsTheTransaction(r) == req[r].bound.epoch
\* current_security_epoch of the request's account
Current(r) == epoch[req[r].bound.account]

\* _callback_proof, and the proof's valid_for
Proof(r) ==
    /\ At(r, "proof")
    /\ IF Current(r) = req[r].bound.epoch THEN Goes(r, "commit") ELSE Ends(r)
    /\ UNCHANGED <<epoch, links, grants, transactions, history>>

Completed(r) == outcomes' = [outcomes EXCEPT ![req[r].transaction] = @ + 1]
Took(r) == effects' = [effects EXCEPT ![req[r].bound.grant] = @ + 1]

Provisioned(a) == [b \in DOMAIN epoch \cup {a} |-> IF b = a THEN 0 ELSE epoch[b]]

\* The login of a linked identity, or of a new account
CommitLogin(r) ==
    LET i == req[r].seen IN
    /\ At(r, "commit") /\ req[r].bound.operation = "login"
    /\ \/ links[i] # NoOne /\ UNCHANGED <<epoch, links>>
       \/ \E a \in Accounts \ DOMAIN epoch :
             /\ links[i] = NoOne /\ ProvisionUnknown
             /\ links' = [links EXCEPT ![i] = a]
             /\ epoch' = Provisioned(a)
    /\ Completed(r) /\ Ends(r)
    /\ UNCHANGED <<grants, transactions, effects>>

CommitLink(r) ==
    LET i == req[r].seen
        a == req[r].bound.account IN
    /\ At(r, "commit") /\ req[r].bound.operation = "link"
    /\ \/ links[i] = a
       \/ links[i] = NoOne /\ \A j \in Identities : links[j] # a
    /\ links' = [links EXCEPT ![i] = a]
    /\ Took(r) /\ Completed(r) /\ Ends(r)
    /\ UNCHANGED <<epoch, grants, transactions>>

CommitUpgrade(r) ==
    LET b == req[r].bound IN
    /\ At(r, "commit") /\ b.operation = "scope-upgrade"
    /\ Linked(b.account, b.identity) /\ req[r].seen = b.identity
    /\ Took(r) /\ Completed(r) /\ Ends(r)
    /\ UNCHANGED <<epoch, links, grants, transactions>>

\* _complete_confirmation: the epoch is read and must be the transaction's
Confirming(r) ==
    /\ At(r, "confirming")
    /\ IF Current(r) = req[r].bound.epoch THEN Goes(r, "confirm") ELSE Ends(r)
    /\ UNCHANGED <<epoch, links, grants, transactions, history>>

\* the link there is now is the one begun for, and who logged in is its owner
ConfirmedIdentity(r) ==
    /\ Linked(req[r].bound.account, req[r].bound.identity)
    /\ req[r].seen = req[r].bound.identity

\* then the link is resolved.  Freshness evidence may be too old or too weak.
Confirm(r) ==
    /\ At(r, "confirm")
    /\ \/ /\ ConfirmedIdentity(r) /\ req[r].bound.operation = "revalidate"
          /\ Completed(r) /\ Ends(r)
       \/ /\ ConfirmedIdentity(r) /\ req[r].bound.operation = "reauthenticate"
          /\ Goes(r, "reread") /\ UNCHANGED outcomes
       \/ Ends(r) /\ UNCHANGED outcomes
    /\ UNCHANGED <<epoch, links, grants, transactions, effects>>

\* StepUpOAuthAuthorizer.issue reads the epoch anew
Reread(r) ==
    /\ At(r, "reread")
    /\ req' = [req EXCEPT ![r].pc = "issue", ![r].read = Current(r)]
    /\ UNCHANGED <<epoch, links, grants, transactions, history>>

\* and StepUpService.issue puts the grant
Issue(r, g) ==
    LET b == req[r].bound IN
    /\ At(r, "issue") /\ grants[g].state = "unissued"
    /\ grants' = [grants EXCEPT ![g] = [state |-> "live", account |-> b.account, purpose |-> b.purpose,
                                        session |-> req[r].session, epoch |-> req[r].read,
                                        proved |-> b.epoch]]
    /\ Completed(r) /\ Ends(r)
    /\ UNCHANGED <<epoch, links, transactions, effects>>

\* unlink: the store keeps the last login method
Unlink(r) ==
    LET b == req[r].bound IN
    /\ At(r, "unlink")
    /\ IF Linked(b.account, b.identity) /\ b.account \in WithLocalLogin
       THEN links' = [links EXCEPT ![b.identity] = NoOne] /\ Took(r)
       ELSE UNCHANGED <<links, effects>>
    /\ Ends(r)
    /\ UNCHANGED <<epoch, grants, transactions, outcomes>>

\* revoke: of the link there is
Revoke(r) ==
    /\ At(r, "revoke")
    /\ IF \E i \in Identities : Linked(req[r].bound.account, i) THEN Took(r) ELSE UNCHANGED effects
    /\ Ends(r)
    /\ UNCHANGED <<epoch, links, grants, transactions, outcomes>>

\* An error, a cancellation or a callback that never comes back
Abort(r) ==
    /\ ~At(r, "idle")
    /\ Ends(r)
    /\ UNCHANGED <<epoch, links, grants, transactions, history>>
-----------------------------------------------------------------------------
\* A grant is presented by whoever was given it, as often as they like; one that
\* is gone when the request begins is only refused
Issued == {g \in Grants : grants[g].state = "live"}

Begin(r) ==
    \E s \in Sessions :
        \/ BeginLogin(r, s)
        \/ \E t \in Transactions : Callback(r, t, s)
        \/ \E a \in DOMAIN epoch :
              \/ \E g \in Issued : BeginLink(r, a, s, g) \/ BeginRevoke(r, a, s, g)
              \/ \E i \in Identities :
                    \/ BeginConfirmation(r, a, i, s)
                    \/ \E g \in Issued : BeginUpgrade(r, a, i, s, g) \/ BeginUnlink(r, a, i, s, g)

Continue(r) ==
    \/ ReadEpoch(r) \/ ConsumeGrant(r) \/ Proof(r)
    \/ CommitLogin(r) \/ CommitLink(r) \/ CommitUpgrade(r)
    \/ Confirming(r) \/ Confirm(r) \/ Reread(r) \/ Unlink(r) \/ Revoke(r) \/ Refuse(r)
    \/ \E t \in Transactions : Create(r, t)
    \/ \E i \in Identities : Exchange(r, i)
    \/ \E g \in Grants : Issue(r, g)

Environment ==
    \/ \E a \in Accounts : BumpEpoch(a)
    \/ \E t \in Transactions : Expire(t)
    \/ \E g \in Grants, a \in Accounts, s \in Sessions, purpose \in StepUpPurposes : StepUp(g, a, s, purpose)

Next == Environment \/ \E r \in Requests : Begin(r) \/ Continue(r) \/ Abort(r)

Spec == Init /\ [][Next]_vars
-----------------------------------------------------------------------------
\* A step-up grant pays for one link, upgrade, unlink or revocation, through
\* retries and callbacks that come twice.
OneEffectPerGrant == \A g \in Grants : effects[g] <= 1

\* A transaction completes once: one login, one link, one grant.
OneOutcomePerTransaction == \A t \in Transactions : outcomes[t] <= 1

\* Both, since a link or an upgrade spends the one and then the other, in two
\* requests minutes apart.
EachCountsOnce == OneEffectPerGrant /\ OneOutcomePerTransaction

Authorized == {r \in Requests : req[r].pc \in {"commit", "unlink", "revoke"} /\ req[r].bound.operation # "login"}
GrantOf(r) == grants[req[r].bound.grant]

\* What a grant pays for happens under the epoch the grant was issued for: it
\* was still current when the request began that has the effect, though a link
\* or an upgrade consumed the grant in an earlier one.
EffectsFollowTheEpoch ==
    \A r \in Authorized : GrantOf(r).epoch = req[r].since

\* And in the session that proved itself, for the account and the operation the
\* grant names, from the step-up through the transaction to the callback.
EffectsMatchTheirGrant ==
    \A r \in Authorized :
        /\ GrantOf(r).session = req[r].session
        /\ GrantOf(r).account = req[r].bound.account
        /\ GrantOf(r).purpose = req[r].bound.purpose

\* A reauthentication that is about to give a grant is of the identity that was
\* linked when it began, whoever logged in at the provider meanwhile.
ConfirmedIdentityIsTheOneBegunFor ==
    \A r \in Requests :
        req[r].pc \in {"reread", "issue"} => req[r].seen = req[r].bound.identity

\* With a clock a begin is refused only for transactions that are alive.
OnlyLiveTransactionsFill ==
    [][\A r \in Requests :
          At(r, "create") /\ At(r, "refused")'
          => Cardinality({t \in Transactions : transactions[t].status = "pending"}) >= Capacity]_vars

\* Whatever a grant or a login allows happens once, for the account, session,
\* operation and epoch that proved it, and to the identity it was begun for.
EffectsAreAuthorized ==
    /\ TypeOK /\ EachCountsOnce
    /\ EffectsFollowTheEpoch /\ EffectsMatchTheirGrant
    /\ ConfirmedIdentityIsTheOneBegunFor

\* "Capability-gated OIDC REAUTHENTICATE ... enforces ... account epoch": a
\* grant carries the epoch that its evidence was checked under.
GrantsCarryTheCheckedEpoch == \A g \in Grants : grants[g].epoch = grants[g].proved
=============================================================================
