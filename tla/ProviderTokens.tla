--------------------------- MODULE ProviderTokens ---------------------------
(***************************************************************************)
(* Provider links and retained provider tokens:                            *)
(* providers/oauth/_accounts.py, with the provider's token endpoint as an  *)
(* external actor.                                                         *)
(*                                                                         *)
(* Every mutation of the aggregate (login, link, upgrade, unlink) holds    *)
(* the store's lock from its first read to its last write and awaits only  *)
(* the vault, so it is one action.  A refresh and a revocation hold no     *)
(* aggregate lock and are split at every await.  A token set is named by   *)
(* its refresh token; its access token matters only as a second call that  *)
(* a revocation makes.                                                     *)
(***************************************************************************)
EXTENDS Naturals, FiniteSets

CONSTANTS Accounts,        \* account ids
          Locals,          \* local login methods of the accounts there are at start
          Identities,      \* provider identities; each names its provider account id
          ProviderOf,      \* the provider of each identity
          Tokens,          \* refresh tokens the provider may issue: 1..n
          Refreshers,      \* requests that refresh
          Revokers,        \* requests that revoke
          Retained,        \* identities whose registration sets retain_tokens
          Locks,           \* identities of lock objects
          MaxVersion,      \* bound: versions of one vault record
          NoOne, NoToken, NoLock

Requests == Refreshers \cup Revokers
Known    == DOMAIN Locals

ASSUME ProviderAssumption ==
    /\ Locals \in [Known -> Nat] /\ Known \subseteq Accounts /\ NoOne \notin Accounts
    /\ DOMAIN ProviderOf = Identities /\ Retained \subseteq Identities
    /\ Tokens \subseteq Nat \ {0} /\ NoToken = 0
    /\ NoLock \notin Locks /\ NoOne \notin Requests /\ MaxVersion \in Nat
    /\ IsFiniteSet(Identities) /\ IsFiniteSet(Requests) /\ IsFiniteSet(Locks)
    /\ Cardinality(Locks) >= Cardinality(Requests)

VARIABLES accounts,   \* accounts that exist
          links,      \* _links and _identity_index: the account of each identity
          methods,    \* _method_counts
          vault,      \* the token vault's record of each provider account
          retry,      \* revocation-retry material of each provider account
          upstream,   \* what the provider thinks of each refresh token
          entries,    \* _refresh_locks: the lock object of each provider account
          locks,      \* references and holder of each lock object
          req,        \* each request's progress
          settled     \* rotated tokens whose successor the service has received (history)

aggregate == <<accounts, links, methods>>
coordination == <<entries, locks>>
vars == <<accounts, links, methods, vault, retry, upstream, entries, locks, req, settled>>

Versions == 0..MaxVersion
Records  == [version : Versions, token : Tokens \cup {NoToken}]
Empty    == [version |-> 0, token |-> NoToken]
Locking  == [references : 0..Cardinality(Requests), holder : Requests \cup {NoOne}]

\* What a request remembers between its awaits.  version and token: the record
\* it read; fresh: the successor the provider answered with
Progress == [pc : {"idle", "observed", "waiting", "holding", "calling", "answered", "refused",
                   "releasing", "access", "staging", "scheduling", "checking", "deleting"},
             work : {"none", "refresh", "revoke"},
             identity : Identities \cup {NoOne}, lock : Locks \cup {NoLock},
             version : Versions, token : Tokens \cup {NoToken}, fresh : Tokens \cup {NoToken},
             failed : BOOLEAN]
Idle == [pc |-> "idle", work |-> "none", identity |-> NoOne, lock |-> NoLock,
         version |-> 0, token |-> NoToken, fresh |-> NoToken, failed |-> FALSE]

Init ==
    /\ accounts = Known
    /\ links = [i \in Identities |-> NoOne]
    /\ methods = [a \in Accounts |-> IF a \in Known THEN Locals[a] ELSE 0]
    /\ vault = [i \in Identities |-> Empty]
    /\ retry = [i \in Identities |-> NoToken]
    /\ upstream = [t \in Tokens |-> "unissued"]
    /\ entries = [i \in Identities |-> NoLock]
    /\ locks = [k \in Locks |-> [references |-> 0, holder |-> NoOne]]
    /\ req = [r \in Requests |-> Idle]
    /\ settled = {}
-----------------------------------------------------------------------------
\* The aggregate.  A code exchange gives the next token set.
Issues(t) ==
    /\ upstream[t] = "unissued"
    /\ \A u \in Tokens : upstream[u] = "unissued" => t <= u

\* _retain_or_discard.  A vault that refuses changes nothing; put numbers the
\* version after the record there is.
RetainOrDiscard(i) ==
    IF i \in Retained
    THEN \E t \in Tokens :
            /\ Issues(t) /\ vault[i].version < MaxVersion
            /\ vault' = [vault EXCEPT ![i] = [version |-> @.version + 1, token |-> t]]
            /\ upstream' = [upstream EXCEPT ![t] = "live"]
    ELSE vault' = [vault EXCEPT ![i] = Empty] /\ UNCHANGED upstream

OthersOfProvider(a, i) == {j \in Identities \ {i} : links[j] = a /\ ProviderOf[j] = ProviderOf[i]}

\* login of a linked identity
login(i) ==
    /\ links[i] # NoOne
    /\ RetainOrDiscard(i)
    /\ UNCHANGED <<aggregate, retry, coordination, req, settled>>

\* the vault refused: everything written before is undone
Rollback(i, a) ==
    UNCHANGED <<accounts, links, methods, vault, upstream>>

\* login of an unknown identity provisions a fresh account.  A cancellation
\* while the vault is awaited is no Exception: the account stays, without tokens.
provision(i, a) ==
    /\ links[i] = NoOne /\ a \notin accounts
    /\ \/ Rollback(i, a)
       \/ /\ accounts' = accounts \cup {a}
          /\ links' = [links EXCEPT ![i] = a]
          /\ methods' = [methods EXCEPT ![a] = 1]
          /\ RetainOrDiscard(i) \/ UNCHANGED <<vault, upstream>>
    /\ UNCHANGED <<retry, coordination, req, settled>>

\* an identity has one owner, an account one identity of a provider
MayLink(a, i) ==
    \/ links[i] = a
    \/ links[i] = NoOne /\ OthersOfProvider(a, i) = {}

\* only a new link is a new method
Count(a, i) ==
    methods' = IF links[i] = NoOne THEN [methods EXCEPT ![a] = @ + 1] ELSE methods

link(a, i) ==
    /\ a \in accounts /\ MayLink(a, i)
    /\ RetainOrDiscard(i)
    /\ links' = [links EXCEPT ![i] = a]
    /\ Count(a, i)
    /\ UNCHANGED <<accounts, retry, coordination, req, settled>>

upgrade(a, i) ==
    /\ links[i] = a
    /\ RetainOrDiscard(i)
    /\ UNCHANGED <<aggregate, retry, coordination, req, settled>>

\* require_remaining: the account has another method
unlink(a, i) ==
    /\ links[i] = a /\ methods[a] > 1
    /\ vault' = [vault EXCEPT ![i] = Empty]
    /\ links' = [links EXCEPT ![i] = NoOne]
    /\ methods' = [methods EXCEPT ![a] = @ - 1]
    /\ UNCHANGED <<accounts, retry, upstream, coordination, req, settled>>
-----------------------------------------------------------------------------
\* Requests.  Steps(r, from, to): r moves on and nothing of it changes but its pc
At(r, from) == req[r].pc = from
Moves(r, from, to) == At(r, from) /\ req' = [req EXCEPT ![r].pc = to]
Stored(r) == vault[req[r].identity]
Versioned(r) == Stored(r).version = req[r].version

\* refresh and revoke begin with a read of the record
begin(r, work) ==
    /\ At(r, "idle") /\ r \in (IF work = "refresh" THEN Refreshers ELSE Revokers)
    /\ \E i \in Retained :
          /\ vault[i] # Empty /\ vault[i].version < MaxVersion
          /\ req' = [req EXCEPT ![r] = [Idle EXCEPT !.pc = "observed", !.work = work, !.identity = i,
                                           !.version = vault[i].version, !.token = vault[i].token]]
    /\ UNCHANGED <<aggregate, vault, retry, upstream, coordination, settled>>

\* the entry there is, or a new lock object
Entry(i) == IF entries[i] # NoLock THEN entries[i] ELSE CHOOSE k \in Locks : locks[k].references = 0

\* _acquire_refresh_lock
acquire(r) ==
    LET k == Entry(req[r].identity) IN
    /\ At(r, "observed") /\ req[r].work = "refresh"
    /\ entries' = [entries EXCEPT ![req[r].identity] = k]
    /\ locks' = [locks EXCEPT ![k].references = @ + 1]
    /\ req' = [req EXCEPT ![r].pc = "waiting", ![r].lock = k]
    /\ UNCHANGED <<aggregate, vault, retry, upstream, settled>>

enter(r) ==
    /\ Moves(r, "waiting", "holding")
    /\ locks[req[r].lock].holder = NoOne
    /\ locks' = [locks EXCEPT ![req[r].lock].holder = r]
    /\ UNCHANGED <<aggregate, vault, retry, upstream, entries, settled>>

\* leaving the critical section, normally or by an exception
Leave(r) ==
    /\ req' = [req EXCEPT ![r].pc = "releasing"]
    /\ locks' = [locks EXCEPT ![req[r].lock].holder = NoOne]
    /\ UNCHANGED entries

CallsWithTheObserved(r) ==
    /\ At(r, "holding") /\ Stored(r) # Empty
    /\ req' = [req EXCEPT ![r].pc = "calling"]
    /\ UNCHANGED <<aggregate, vault, retry, upstream, coordination, settled>>
\* the second read, under the lock: only an unchanged record is refreshed
reread(r) ==
    /\ At(r, "holding")
    /\ IF Versioned(r)
       THEN /\ req' = [req EXCEPT ![r].pc = "calling", ![r].token = Stored(r).token]
            /\ UNCHANGED coordination
       ELSE Leave(r)
    /\ UNCHANGED <<aggregate, vault, retry, upstream, settled>>

\* the provider's token endpoint: a live token is rotated or kept
Answer(r) ==
    /\ At(r, "calling")
    /\ IF upstream[req[r].token] # "live"
       THEN Moves(r, "calling", "refused") /\ UNCHANGED upstream
       ELSE \/ /\ req' = [req EXCEPT ![r].pc = "answered", ![r].fresh = req[r].token]
               /\ UNCHANGED upstream
            \/ \E t \in Tokens :
                  /\ Issues(t)
                  /\ upstream' = [upstream EXCEPT ![t] = "live", ![req[r].token] = "rotated"]
                  /\ req' = [req EXCEPT ![r].pc = "answered", ![r].fresh = t]
    /\ UNCHANGED <<aggregate, vault, retry, coordination, settled>>

SwapsWhatIsGone(r) ==
    Stored(r) = Empty \/ Versioned(r)
\* _MemoryTokenVault.replace compares under the vault's lock
Swaps(r) ==
    Versioned(r)

replace(r) ==
    /\ At(r, "answered")
    /\ vault' = IF Swaps(r)
                THEN [vault EXCEPT ![req[r].identity] = [version |-> req[r].version + 1, token |-> req[r].fresh]]
                ELSE vault
    /\ settled' = IF req[r].fresh = req[r].token THEN settled ELSE settled \cup {req[r].token}
    /\ Leave(r)
    /\ UNCHANGED <<aggregate, retry, upstream>>

\* _release_refresh_lock: the last one removes the entry
release(r) ==
    LET k == req[r].lock IN
    /\ At(r, "releasing")
    /\ locks' = [locks EXCEPT ![k].references = @ - 1]
    /\ entries' = [entries EXCEPT ![req[r].identity] =
                      IF locks[k].references = 1 /\ @ = k THEN NoLock ELSE @]
    /\ req' = [req EXCEPT ![r] = Idle]
    /\ UNCHANGED <<aggregate, vault, retry, upstream, settled>>

CancelKeepsTheLock(r) ==
    /\ req[r].pc \notin {"idle", "releasing"}
    /\ req' = [req EXCEPT ![r] = Idle]
    /\ UNCHANGED <<aggregate, vault, retry, upstream, coordination, settled>>
\* a failed call, a store that fails, or the cancellation of the request
fail(r) ==
    /\ req[r].pc \notin {"idle", "releasing"}
    /\ IF req[r].lock = NoLock THEN req' = [req EXCEPT ![r] = Idle] /\ UNCHANGED coordination
       ELSE IF locks[req[r].lock].holder = r THEN Leave(r)
       ELSE Moves(r, req[r].pc, "releasing") /\ UNCHANGED coordination
    /\ UNCHANGED <<aggregate, vault, retry, upstream, settled>>
-----------------------------------------------------------------------------
\* Revocation.
\* A call that failed may still have reached the provider
revokeRefreshToken(r) ==
    /\ At(r, "observed") /\ req[r].work = "revoke"
    /\ \E reached, failed \in BOOLEAN :
          /\ reached \/ failed
          /\ upstream' = [upstream EXCEPT ![req[r].token] = IF reached /\ @ = "live" THEN "revoked" ELSE @]
          /\ req' = [req EXCEPT ![r].pc = "access", ![r].failed = failed]
    /\ UNCHANGED <<aggregate, vault, retry, coordination, settled>>

ForgetsTheFirstFailure(r) ==
    /\ At(r, "access")
    /\ \/ req' = [req EXCEPT ![r].pc = "checking"]
       \/ req' = [req EXCEPT ![r].pc = "staging", ![r].failed = TRUE]
    /\ UNCHANGED <<aggregate, vault, retry, upstream, coordination, settled>>
revokeAccessToken(r) ==
    /\ At(r, "access")
    /\ \/ req' = [req EXCEPT ![r].pc = IF req[r].failed THEN "staging" ELSE "checking"]
       \/ req' = [req EXCEPT ![r].pc = "staging", ![r].failed = TRUE]
    /\ UNCHANGED <<aggregate, vault, retry, upstream, coordination, settled>>

\* stage_revocation_retry: check, schedule, then discard_tokens
stage(r) ==
    /\ At(r, "staging")
    /\ req' = [req EXCEPT ![r] = IF Versioned(r) THEN [@ EXCEPT !.pc = "scheduling"] ELSE Idle]
    /\ UNCHANGED <<aggregate, vault, retry, upstream, coordination, settled>>

schedule(r) ==
    /\ Moves(r, "scheduling", "checking")
    /\ retry' = [retry EXCEPT ![req[r].identity] = req[r].token]
    /\ UNCHANGED <<aggregate, vault, upstream, coordination, settled>>

\* discard_tokens with a version: checked here, deleted at the next step.  The
\* provider's refusal of a refresh comes here too, holding the refresh lock.
check(r) ==
    /\ At(r, "checking") \/ At(r, "refused")
    /\ IF Versioned(r) THEN Moves(r, req[r].pc, "deleting") /\ UNCHANGED coordination
       ELSE IF req[r].work = "refresh" THEN Leave(r)
       ELSE req' = [req EXCEPT ![r] = Idle] /\ UNCHANGED coordination
    /\ UNCHANGED <<aggregate, vault, retry, upstream, settled>>

delete(r) ==
    /\ At(r, "deleting")
    /\ vault' = [vault EXCEPT ![req[r].identity] = Empty]
    /\ IF req[r].work = "refresh" THEN Leave(r)
       ELSE req' = [req EXCEPT ![r] = Idle] /\ UNCHANGED coordination
    /\ UNCHANGED <<aggregate, retry, upstream, settled>>
-----------------------------------------------------------------------------
Continue(r) ==
    \/ acquire(r) \/ enter(r) \/ reread(r) \/ Answer(r) \/ replace(r) \/ release(r)
    \/ revokeRefreshToken(r) \/ revokeAccessToken(r)
    \/ stage(r) \/ schedule(r) \/ check(r) \/ delete(r)

Request(r) == Continue(r) \/ fail(r) \/ \E work \in {"refresh", "revoke"} : begin(r, work)

Aggregate ==
    \E i \in Identities :
        \/ login(i)
        \/ \E a \in Accounts : provision(i, a) \/ link(a, i) \/ upgrade(a, i) \/ unlink(a, i)

Next == Aggregate \/ \E r \in Requests : Request(r)

Spec == Init /\ [][Next]_vars

\* The event loop runs what can run, the provider's client times out, and the
\* lock is handed over in the order of arrival.
Fairness == \A r \in Requests : /\ WF_vars(Continue(r) \/ (fail(r) /\ ~At(r, "waiting")))
                                /\ SF_vars(enter(r))
FairSpec == Spec /\ Fairness
-----------------------------------------------------------------------------
TypeOK ==
    /\ accounts \subseteq Accounts
    /\ links \in [Identities -> accounts \cup {NoOne}]
    /\ methods \in [Accounts -> Nat]
    /\ vault \in [Identities -> Records]
    /\ retry \in [Identities -> Tokens \cup {NoToken}]
    /\ upstream \in [Tokens -> {"unissued", "live", "rotated", "revoked"}]
    /\ entries \in [Identities -> Locks \cup {NoLock}]
    /\ locks \in [Locks -> Locking]
    /\ req \in [Requests -> Progress]
    /\ settled \subseteq Tokens

\* At most one request at a time is between the second read and the answer of
\* one provider account's refresh, whoever came, left or failed before.
OneRefreshAtATime ==
    \A r, s \in Requests :
        /\ req[r].work = "refresh" /\ req[s].work = "refresh" /\ req[r].identity = req[s].identity
        /\ {req[r].pc, req[s].pc} \subseteq {"holding", "calling", "answered", "refused", "deleting"}
        => r = s

\* A refresh token whose successor was received is not presented again: a
\* refresh that waited behind another takes what the other one stored.
SpentTokensStaySpent ==
    \A r \in Requests : At(r, "calling") => req[r].token \notin settled

\* Tokens outlive no link, whatever refresh was under way when it was removed.
TokensNeedALink ==
    \A i \in Identities : vault[i] # Empty => links[i] # NoOne

\* The ways an account has to log in
Ways(a) == (IF a \in Known THEN Locals[a] ELSE 0) + Cardinality({i \in Identities : links[i] = a})

\* The method count is what require_remaining decides on, so it is the number
\* of methods there are, through repeated links, rollbacks and cancellations.
CountsMatchTheMethods ==
    \A a \in Accounts : methods[a] = Ways(a)

\* An account that has a way to log in keeps one, however often it was linked.
NobodyIsLockedOut ==
    [][\A a \in accounts : Ways(a) > 0 => Ways(a)' > 0]_vars

\* A request that discards the very tokens it read leaves none of them alive
\* and forgotten: they are dead at the provider or wait for a retry.
DiscardedTokensAreDeadOrKept ==
    [][\A r \in Requests :
          At(r, "deleting") /\ req'[r].pc # "deleting"
              /\ Stored(r).token = req[r].token /\ vault'[req[r].identity] = Empty
          => upstream[req[r].token] # "live" \/ retry[req[r].identity] = req[r].token]_vars

\* Every refresh and revocation ends, also one that waits while others fail.
RequestsEnd == \A r \in Requests : ~At(r, "idle") ~> At(r, "idle")

\* The refreshes of one provider account follow each other, each with the
\* token the one before it stored.
RefreshesAreSerial == TypeOK /\ OneRefreshAtATime /\ SpentTokensStaySpent

\* Links, the tokens held for them and the count of login methods agree.
LinksAreAccountedFor == TokensNeedALink /\ CountsMatchTheMethods

\* An unlink or a discard leaves neither an account without a login nor a live
\* token that nobody remembers.
NothingIsStranded == NobodyIsLockedOut /\ DiscardedTokensAreDeadOrKept

\* "Discard tokens, optionally only at one observed version."
DiscardsOnlyTheObserved ==
    [][\A r \in Requests :
          At(r, "deleting") /\ vault' # vault /\ req'[r].pc # "deleting"
          => Stored(r).version = req[r].version]_vars
=============================================================================
