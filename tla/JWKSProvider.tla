--------------------------- MODULE JWKSProvider ---------------------------
(***************************************************************************)
(* CachedJWKSProvider (providers/jwks/_provider.py) over one entry of a    *)
(* JWKSCache: concurrent key selections, the shared refresh task, forced   *)
(* refreshes for unknown keys, negative entries, stale fallback, several   *)
(* providers attached to one coordinator, and their close.                 *)
(*                                                                         *)
(* The coordinator's anyio lock yields when it is acquired and protects    *)
(* sections without an await: every locked section is one action and       *)
(* anything may run before it.  The cache is read without the lock and an  *)
(* application's cache may drop a snapshot at any time.                    *)
(***************************************************************************)
EXTENDS Naturals, Sequences, FiniteSets

CONSTANTS
  Providers,       \* providers that share the cache, hence its coordinator
  Clients,         \* coroutines inside select_key or warmup
  Kids,            \* key identifiers; the algorithm is part of the identifier
  TaskIds,         \* identities of refresh tasks
  None,
  Ttls,            \* clamped lifetimes a response may ask for; 0 is no-cache
  StaleIfError,    \* policy.stale_if_error
  Cooldown,        \* policy.unknown_kid_cooldown
  MaximumUnknown,  \* policy.maximum_unknown_keys
  CloseCancellable,\* whether a caller may cancel aclose (a shutdown timeout)
  MaxTime, MaxGeneration   \* bounds of the clock and of the generations

ASSUME PolicyAssumption ==
  /\ Ttls \subseteq Nat /\ StaleIfError \in Nat
  /\ Cooldown \in Nat \ {0} /\ MaximumUnknown \in Nat \ {0}
  /\ CloseCancellable \in BOOLEAN
  /\ MaxTime \in Nat /\ MaxGeneration \in Nat

ASSUME NoneAssumption ==
  None \notin Kids /\ None \notin TaskIds /\ None \notin Nat /\ None \notin Providers

ASSUME ProvidersAssumption == IsFiniteSet(Providers)

VARIABLES
  now,
  cache,          \* the stored snapshot, or None
  coordination,   \* JWKSCacheCoordinator
  tasks,          \* the refresh tasks that have not finished
  provider,       \* per provider: where its life and its aclose stand
  request,        \* per client: its select_key or warmup
  served,         \* history: why the key just handed out could be used, None otherwise
  spent           \* history: a forced fetch was started and nothing ordinary replaced the keys since

jwksVars == <<now, cache, coordination, tasks, provider, request, served, spent>>

----------------------------------------------------------------------------
Snapshot == [keys : SUBSET Kids, fresh : Nat, stale : Nat, generation : Nat \ {0}]

Negative == [generation : Nat \ {0}, kid : Kids, expires : Nat]

Coordination == [refresh : TaskIds \cup {None},  \* the refresh in flight, or one that died
                 forced : Nat \cup {None},       \* generation whose forced refresh is used up
                 negative : Seq(Negative),       \* oldest first
                 users : Nat]

\* base is the snapshot read when the task starts, result the one it will publish.
Task == [stage : {"new", "fetching", "publishing"}, by : Providers, at : Nat,
         forced : Nat \cup {None}, base : Snapshot \cup {None}, result : Snapshot \cup {None}]

ProviderState == [stage : {"new", "open", "detach", "gather", "fetcher", "closed"},
                  gathers : TaskIds \cup {None},
                  fetcherClosed : BOOLEAN]

\* kid is None for warmup.  published and failed are history: a snapshot was
\* published, or the awaited refresh failed, since the request began.
Request == [pc : {"idle", "negative", "coordinate", "waiting", "woken", "remember", "answered"},
            by : Providers \cup {None}, kid : Kids \cup {None}, at : Nat,
            snapshot : Snapshot \cup {None}, forced : Nat \cup {None},
            task : TaskIds \cup {None}, result : Snapshot \cup {None},
            generation : Nat,
            outcome : {"none", "key", "invalid", "unavailable", "warm"},
            used : Snapshot \cup {None},
            published : BOOLEAN, failed : BOOLEAN]

Resting == [pc |-> "idle", by |-> None, kid |-> None, at |-> 0, snapshot |-> None,
            forced |-> None, task |-> None, result |-> None, generation |-> 0,
            outcome |-> "none", used |-> None, published |-> FALSE, failed |-> FALSE]

Closed(p) == provider[p].stage \notin {"new", "open"}
Live == DOMAIN tasks
Generation == IF cache = None THEN 0 ELSE cache.generation  \* 0 is no snapshot
Fresh(snapshot, at) == snapshot # None /\ at < snapshot.fresh

----------------------------------------------------------------------------
(* Answers                                                                 *)

Answered(r, outcome) == [r EXCEPT !.pc = "answered", !.outcome = outcome]
Served(r, snapshot) == [Answered(r, "key") EXCEPT !.used = snapshot]
Remembers(r, outcome, generation) ==
  [r EXCEPT !.pc = "remember", !.outcome = outcome, !.generation = generation,
            !.task = None, !.result = None]

\* Mutant of StaleAllowed: the stale deadline is not compared.
StaleForever(r) == r.snapshot # None /\ r.kid \in r.snapshot.keys

\* An expired snapshot may still answer for a key it holds.
StaleAllowed(r) ==
  r.snapshot # None /\ r.at < r.snapshot.stale /\ r.kid \in r.snapshot.keys

\* What select_key or warmup makes of a refresh; None is VerificationUnavailable.
Conclude(r, result) ==
  CASE result = None /\ r.forced # None -> Remembers(r, "unavailable", r.snapshot.generation)
    [] result = None /\ r.forced = None /\ StaleAllowed(r) -> Served(r, r.snapshot)
    [] result = None /\ r.forced = None /\ ~StaleAllowed(r) -> Answered(r, "unavailable")
    [] result # None /\ r.kid = None -> Answered(r, "warm")
    [] result # None /\ r.kid \in result.keys -> Served(r, result)
    [] OTHER -> Remembers(r, "invalid", result.generation)

\* History: what held of the snapshot a key was taken from.
Grounds(r) ==
  IF r.outcome # "key" THEN None
  ELSE [fresh |-> r.at < r.used.fresh, usable |-> r.at < r.used.stale,
        published |-> r.published, failed |-> r.failed, closed |-> Closed(r.by)]

\* The coroutine goes on as r, or returns.
Continue(c, r) ==
  IF r.pc = "answered"
  THEN request' = [request EXCEPT ![c] = Resting] /\ served' = Grounds(r)
  ELSE request' = [request EXCEPT ![c] = r] /\ served' = None

----------------------------------------------------------------------------
(* Negative entries                                                        *)

\* An OrderedDict after the deletion of the entries that are not at the positions of I.
Kept(entries, I) ==
  LET upTo[i \in 0 .. Len(entries)] ==
        IF i = 0 THEN <<>>
        ELSE IF i \in I THEN Append(upTo[i - 1], entries[i]) ELSE upTo[i - 1]
  IN  upTo[Len(entries)]

Pruned(negative, generation, at) ==
  Kept(negative, {i \in DOMAIN negative :
                    negative[i].generation = generation /\ negative[i].expires > at})

Without(negative, kid) == Kept(negative, {i \in DOMAIN negative : negative[i].kid # kid})

\* The least recently used entry goes when the bound is passed.
Trim(negative) ==
  IF Len(negative) > MaximumUnknown THEN Tail(negative) ELSE negative

----------------------------------------------------------------------------
JWKSInit ==
  /\ now = 0
  /\ cache = None
  /\ coordination = [refresh |-> None, forced |-> None, negative |-> <<>>, users |-> 0]
  /\ tasks = [t \in {} |-> None]
  /\ provider = [p \in Providers |-> [stage |-> "new", gathers |-> None, fetcherClosed |-> FALSE]]
  /\ request = [c \in Clients |-> Resting]
  /\ served = None
  /\ spent = FALSE

Attach(p) ==
  /\ provider[p].stage = "new"
  /\ provider' = [provider EXCEPT ![p].stage = "open"]
  /\ coordination' = [coordination EXCEPT !.users = @ + 1]
  /\ served' = None
  /\ UNCHANGED <<now, cache, tasks, request, spent>>

(* select_key                                                              *)

Select(c, p, kid) ==
  /\ request[c].pc = "idle" /\ provider[p].stage # "new"
  /\ LET r == [Resting EXCEPT !.by = p, !.kid = kid, !.at = now, !.snapshot = cache] IN
     Continue(c,
       IF Closed(p) THEN Answered(r, "unavailable")
       ELSE IF ~Fresh(cache, now) THEN [r EXCEPT !.pc = "coordinate"]
       ELSE IF kid \in cache.keys THEN Served(r, cache)
       ELSE [r EXCEPT !.pc = "negative"])
  /\ UNCHANGED <<now, cache, coordination, tasks, provider, spent>>

Warmup(c, p) ==
  /\ request[c].pc = "idle" /\ provider[p].stage # "new"
  /\ LET r == [Resting EXCEPT !.by = p, !.at = now] IN
     Continue(c, IF Closed(p) THEN Answered(r, "unavailable") ELSE [r EXCEPT !.pc = "coordinate"])
  /\ UNCHANGED <<now, cache, coordination, tasks, provider, spent>>

\* _negative_hit: an unknown key that was asked for lately costs no refresh.
CheckNegative(c) ==
  /\ request[c].pc = "negative"
  /\ LET r == request[c]
         kept == Pruned(coordination.negative, r.snapshot.generation, r.at)
         hit == {i \in 1 .. Len(kept) : kept[i].kid = r.kid} IN
     /\ coordination' = [coordination EXCEPT !.negative =
          IF hit = {} THEN kept
          ELSE Append(Without(kept, r.kid), kept[CHOOSE i \in hit : TRUE])]
     /\ Continue(c, IF hit # {} THEN Answered(r, "invalid")
                    ELSE [r EXCEPT !.pc = "coordinate", !.forced = r.snapshot.generation])
  /\ UNCHANGED <<now, cache, tasks, provider, spent>>

\* Mutant of Joins: a forced fetch does not join the refresh in flight.
JoinsUnforced(r) == coordination.refresh # None /\ r.forced = None

Joins(r) == coordination.refresh # None

\* Another refresh already did what this request would ask for.
AlreadyRefreshed(r) ==
  \/ r.forced = None /\ Fresh(cache, r.at)
  \/ r.forced # None /\ Generation # r.forced

ForcedUsed(r) == r.forced # None /\ coordination.forced = r.forced

NewTask(r) == [stage |-> "new", by |-> r.by, at |-> r.at, forced |-> r.forced,
               base |-> None, result |-> None]

\* _coordinate_refresh answers from the cache.
CoordinateImmediate(c) ==
  /\ request[c].pc = "coordinate"
  /\ LET r == request[c] IN
     /\ \/ Closed(r.by)
        \/ AlreadyRefreshed(r)
        \/ ~Joins(r) /\ ForcedUsed(r)
     /\ Continue(c, Conclude(r, IF Closed(r.by) THEN None ELSE cache))
  /\ UNCHANGED <<now, cache, coordination, tasks, provider, spent>>

\* It joins the refresh in flight; a task that was cancelled answers at once.
CoordinateJoin(c) ==
  /\ request[c].pc = "coordinate"
  /\ LET r == request[c]
         t == coordination.refresh IN
     /\ ~Closed(r.by) /\ ~AlreadyRefreshed(r) /\ Joins(r)
     /\ Continue(c, IF t \in Live
                    THEN [r EXCEPT !.pc = "waiting", !.task = t]
                    ELSE Conclude([r EXCEPT !.failed = TRUE], None))
  /\ UNCHANGED <<now, cache, coordination, tasks, provider, spent>>

\* Or it starts one.
CoordinateStart(c, t) ==
  /\ request[c].pc = "coordinate"
  /\ t \notin Live /\ t \notin {provider[p].gathers : p \in Providers}
  /\ LET r == request[c] IN
     /\ ~Closed(r.by) /\ ~AlreadyRefreshed(r) /\ ~Joins(r) /\ ~ForcedUsed(r)
     /\ coordination' = [coordination EXCEPT
          !.refresh = t,
          !.forced = IF r.forced # None THEN r.forced ELSE @]
     /\ tasks' = [u \in Live \cup {t} |-> IF u = t THEN NewTask(r) ELSE tasks[u]]
     /\ Continue(c, [r EXCEPT !.pc = "waiting", !.task = t])
     /\ spent' = (spent \/ r.forced # None)
  /\ UNCHANGED <<now, cache, provider>>

\* The waiter runs again after its refresh ended.
Resume(c) ==
  /\ request[c].pc = "woken"
  /\ LET r == request[c] IN
     Continue(c, Conclude(r, IF Closed(r.by) THEN None ELSE r.result))
  /\ UNCHANGED <<now, cache, coordination, tasks, provider, spent>>

\* _remember_negative, then the answer.
Remember(c) ==
  /\ request[c].pc = "remember"
  /\ LET r == request[c]
         kept == Without(Pruned(coordination.negative, r.generation, r.at), r.kid)
         entry == [generation |-> r.generation, kid |-> r.kid, expires |-> r.at + Cooldown] IN
     /\ coordination' = [coordination EXCEPT !.negative = Trim(Append(kept, entry))]
     /\ Continue(c, Answered(r, r.outcome))
  /\ UNCHANGED <<now, cache, tasks, provider, spent>>

\* The caller's task is cancelled; a refresh it waits for is shielded.
Abort(c) ==
  /\ request[c].pc # "idle"
  /\ request' = [request EXCEPT ![c] = Resting]
  /\ served' = None
  /\ UNCHANGED <<now, cache, coordination, tasks, provider, spent>>

----------------------------------------------------------------------------
(* The refresh task                                                        *)

\* Every waiter of t learns how t ended; every request sees what was published.
Woken(t, result, published) ==
  [c \in Clients |->
     LET r == [request[c] EXCEPT !.published =
                 @ \/ (published /\ request[c].pc # "idle")] IN
     IF r.pc = "waiting" /\ r.task = t
     THEN [r EXCEPT !.pc = "woken", !.task = None, !.result = result,
                    !.failed = @ \/ result = None]
     ELSE r]

Ended(t) == [u \in Live \ {t} |-> tasks[u]]

StartFetch(t) ==
  /\ t \in Live /\ tasks[t].stage = "new"
  /\ tasks' = [tasks EXCEPT ![t].stage = "fetching", ![t].base = cache]
  /\ served' = None
  /\ UNCHANGED <<now, cache, coordination, provider, request, spent>>

\* A complete document: a new generation, whatever keys the source publishes now.
Replaced(task, keys, ttl, noStore) ==
  [keys |-> keys, fresh |-> task.at + ttl,
   stale |-> task.at + ttl + (IF noStore THEN 0 ELSE StaleIfError),
   generation |-> IF task.base = None THEN 1 ELSE task.base.generation + 1]

\* 304: the same keys under new deadlines.
Revalidated(task, ttl, noStore) ==
  [Replaced(task, task.base.keys, ttl, noStore) EXCEPT !.generation = task.base.generation]

FetchDocument(t, keys, ttl, noStore) ==
  /\ t \in Live /\ tasks[t].stage = "fetching"
  /\ noStore => ttl = 0
  /\ tasks[t].base # None => tasks[t].base.generation < MaxGeneration
  /\ tasks' = [tasks EXCEPT ![t].stage = "publishing",
                            ![t].result = Replaced(tasks[t], keys, ttl, noStore)]
  /\ served' = None
  /\ UNCHANGED <<now, cache, coordination, provider, request, spent>>

FetchNotModified(t, ttl, noStore) ==
  /\ t \in Live /\ tasks[t].stage = "fetching"
  /\ noStore => ttl = 0
  /\ tasks[t].base # None
  /\ tasks' = [tasks EXCEPT ![t].stage = "publishing",
                            ![t].result = Revalidated(tasks[t], ttl, noStore)]
  /\ served' = None
  /\ UNCHANGED <<now, cache, coordination, provider, request, spent>>

\* An unreachable source, a refused status, a document that does not parse.
FetchFailed(t) ==
  /\ t \in Live /\ tasks[t].stage = "fetching"
  /\ tasks' = [tasks EXCEPT ![t].stage = "publishing"]
  /\ served' = None
  /\ UNCHANGED <<now, cache, coordination, provider, request, spent>>

\* Mutant of ForcedAfter: a forced refresh does not use up the generation it made.
ForcedKept(task) == coordination.forced

ForcedAfter(task) ==
  IF task.result # None /\ task.forced # None THEN task.result.generation
  ELSE coordination.forced

NewGeneration(result) == result # None /\ result.generation # Generation

\* Mutant of WakesOnPublish: the waiters of a failed refresh are forgotten.
WakesOnSuccess(t, result) ==
  IF result = None THEN request ELSE Woken(t, result, TRUE)

WakesOnPublish(t, result) == Woken(t, result, result # None)

\* _publish_refresh, after which the task is done.
Publish(t) ==
  /\ t \in Live /\ tasks[t].stage = "publishing"
  /\ LET task == tasks[t] IN
     /\ cache' = IF task.result = None THEN cache ELSE task.result
     /\ coordination' = [coordination EXCEPT
          !.forced = ForcedAfter(task),
          !.negative = IF NewGeneration(task.result) THEN <<>> ELSE @,
          !.refresh = IF @ = t THEN None ELSE @]
     /\ request' = WakesOnPublish(t, task.result)
     /\ spent' = (spent /\ (task.forced # None \/ ~NewGeneration(task.result)))
  /\ tasks' = Ended(t)
  /\ served' = None
  /\ UNCHANGED <<now, provider>>

\* task.cancel(): a fetch turns it into an unavailable result; a task
\* that waits for the lock dies and leaves coordination.refresh behind.
CancelTask(t) ==
  IF tasks[t].stage = "fetching"
  THEN tasks' = [tasks EXCEPT ![t].stage = "publishing"] /\ UNCHANGED request
  ELSE tasks' = Ended(t) /\ request' = Woken(t, None, FALSE)

----------------------------------------------------------------------------
(* aclose                                                                  *)

BeginClose(p) ==
  /\ provider[p].stage = "open"
  /\ provider' = [provider EXCEPT ![p].stage = "detach"]
  /\ served' = None
  /\ UNCHANGED <<now, cache, coordination, tasks, request, spent>>

\* Mutant of Gathers: only the last provider waits for the refresh.
GathersIfLast(p) == coordination.refresh # None /\ coordination.users = 1

Gathers(p) == coordination.refresh # None

\* Leave the coordinator; the last provider cancels the refresh in flight.  The
\* event loop queued a new task's first step before it handed the lock over.
Detach(p) ==
  /\ provider[p].stage = "detach"
  /\ \A t \in Live : tasks[t].stage # "new"
  /\ coordination' = [coordination EXCEPT !.users = @ - 1]
  /\ provider' = [provider EXCEPT
       ![p].stage = IF Gathers(p) THEN "gather" ELSE "fetcher",
       ![p].gathers = IF Gathers(p) THEN coordination.refresh ELSE None]
  /\ IF coordination.users = 1 /\ coordination.refresh \in Live
     THEN CancelTask(coordination.refresh)
     ELSE UNCHANGED <<tasks, request>>
  /\ served' = None
  /\ UNCHANGED <<now, cache, spent>>

ClearsDead(p) == coordination.refresh = provider[p].gathers

\* The gathered task is done: drop the reference if it still stands there.
Gather(p) ==
  /\ provider[p].stage = "gather" /\ provider[p].gathers \notin Live
  /\ coordination' = [coordination EXCEPT !.refresh = IF ClearsDead(p) THEN None ELSE @]
  /\ provider' = [provider EXCEPT ![p].stage = "fetcher", ![p].gathers = None]
  /\ served' = None
  /\ UNCHANGED <<now, cache, tasks, request, spent>>

\* The fetcher is closed by the provider that owns it.
CloseFetcher(p) ==
  /\ provider[p].stage = "fetcher"
  /\ \E owned \in BOOLEAN :
       provider' = [provider EXCEPT ![p].stage = "closed", ![p].fetcherClosed = owned]
  /\ served' = None
  /\ UNCHANGED <<now, cache, coordination, tasks, request, spent>>

\* The caller cancels aclose; asyncio.gather cancels what it was waiting for.
CancelClose(p) ==
  /\ CloseCancellable
  /\ provider[p].stage \in {"detach", "gather", "fetcher"}
  /\ provider' = [provider EXCEPT ![p].stage = "closed", ![p].gathers = None]
  /\ IF provider[p].gathers \in Live
     THEN CancelTask(provider[p].gathers)
     ELSE UNCHANGED <<tasks, request>>
  /\ served' = None
  /\ UNCHANGED <<now, cache, coordination, spent>>

----------------------------------------------------------------------------
(* The world                                                               *)

\* invalidate(), or an eviction by the application's cache.
Evict ==
  /\ cache # None
  /\ cache' = None
  /\ served' = None
  /\ UNCHANGED <<now, coordination, tasks, provider, request, spent>>

Tick ==
  /\ now < MaxTime
  /\ now' = now + 1
  /\ served' = None
  /\ UNCHANGED <<cache, coordination, tasks, provider, request, spent>>

Selecting ==
  \E c \in Clients :
    \/ \E p \in Providers : Warmup(c, p) \/ \E kid \in Kids : Select(c, p, kid)
    \/ CheckNegative(c) \/ CoordinateImmediate(c) \/ CoordinateJoin(c)
    \/ \E t \in TaskIds : CoordinateStart(c, t)
    \/ Resume(c) \/ Remember(c) \/ Abort(c)

Refreshing ==
  \E t \in TaskIds :
    \/ StartFetch(t) \/ FetchFailed(t) \/ Publish(t)
    \/ \E ttl \in Ttls, noStore \in BOOLEAN :
         \/ FetchNotModified(t, ttl, noStore)
         \/ \E keys \in SUBSET Kids : FetchDocument(t, keys, ttl, noStore)

Closing ==
  \E p \in Providers :
    Attach(p) \/ BeginClose(p) \/ Detach(p) \/ Gather(p) \/ CloseFetcher(p) \/ CancelClose(p)

JWKSNext ==
  \/ Selecting \/ Refreshing \/ Closing
  \/ Evict \/ Tick

JWKSSpec == JWKSInit /\ [][JWKSNext]_jwksVars

----------------------------------------------------------------------------
(* The event loop runs every task that is ready, and a fetch ends: the     *)
(* fetchers the package ships have a timeout.  Nobody promises that a      *)
(* provider is closed, that the source answers well, or that time passes.  *)
(* The lock serves its waiters in order, and the end of a gathered task is *)
(* seen even if another refresh follows: both are strong fairness here.    *)

Advance(c) ==
  \/ CheckNegative(c) \/ CoordinateImmediate(c) \/ CoordinateJoin(c)
  \/ \E t \in TaskIds : CoordinateStart(c, t)
  \/ Resume(c) \/ Remember(c)

JWKSFairness ==
  /\ \A c \in Clients : WF_jwksVars(Advance(c))
  /\ \A t \in TaskIds :
       WF_jwksVars(StartFetch(t)) /\ WF_jwksVars(FetchFailed(t)) /\ WF_jwksVars(Publish(t))
  /\ \A p \in Providers :
       SF_jwksVars(Detach(p)) /\ SF_jwksVars(Gather(p)) /\ WF_jwksVars(CloseFetcher(p))

JWKSFairSpec == JWKSSpec /\ JWKSFairness

----------------------------------------------------------------------------
(* Properties                                                              *)

JWKSTypeOK ==
  /\ now \in 0 .. MaxTime
  /\ cache \in Snapshot \cup {None}
  /\ coordination \in Coordination
  /\ Live \subseteq TaskIds /\ \A t \in Live : tasks[t] \in Task
  /\ provider \in [Providers -> ProviderState]
  /\ request \in [Clients -> Request]
  /\ served \in {None} \cup
       [fresh : BOOLEAN, usable : BOOLEAN, published : BOOLEAN, failed : BOOLEAN, closed : BOOLEAN]
  /\ spent \in BOOLEAN

(* However many providers and requests share a cache, at most one refresh
   task is unfinished: a task is never orphaned while it still runs, by a
   close, a cancellation or a request of another provider.                 *)
SingleFlight == \A t, u \in Live : t = u

(* A key is handed out only from a snapshot that was usable for the request:
   still fresh at the time the caller gave, or published while the request
   was running, or within its stale deadline after the refresh failed or the
   provider was closed under the request.                                  *)
ServedKeysAreCurrent ==
  served # None =>
    \/ served.fresh
    \/ served.published
    \/ served.usable /\ (served.failed \/ served.closed)

(* Requests for unknown keys cannot drive the source: after one forced fetch
   there is no second one before an ordinary refresh, after expiry or a miss,
   stored keys of another generation.                                      *)
ForcedFetchesAreRationed ==
  [][\A t \in TaskIds :
       t \notin Live /\ t \in DOMAIN tasks' /\ tasks'[t].forced # None => ~spent]_jwksVars

(* A fetcher is closed only after the last fetch through it has ended, also
   when the refresh belongs to requests of another provider.               *)
FetcherOutlivesFetches ==
  \A t \in Live : ~provider[tasks[t].by].fetcherClosed

(* A refresh task that died without publishing does not block the coordinator:
   a provider that is closing still holds it and will drop the reference.  *)
NoDeadRefresh ==
  coordination.refresh \in Live \cup {None} \cup {provider[p].gathers : p \in Providers}

(* Every request is answered, unless it is cancelled: nobody waits for a
   refresh that never ends or that nobody will publish.                    *)
EveryRequestReturns ==
  \A c \in Clients : (request[c].pc # "idle") ~> (request[c].pc = "idle")

(* Every close ends, whatever refresh it has to wait for.                  *)
EveryCloseEnds ==
  \A p \in Providers : (provider[p].stage = "detach") ~> (provider[p].stage = "closed")

(* Waiters, closes and the refresh they share never wait for each other.   *)
NobodyWaitsForEver == EveryRequestReturns /\ EveryCloseEnds

(* The one refresh belongs to a task that lives, to a fetcher that is open, or
   to a close that will drop it.                                           *)
RefreshesAreOwned == NoDeadRefresh /\ FetcherOutlivesFetches

(* The unknown keys that are remembered are as few as the policy says.      *)
RemembersFew == Len(coordination.negative) <= MaximumUnknown

(* The coordinator's state is whole, whoever shares it.                    *)
CoordinationIsSound == JWKSTypeOK /\ SingleFlight /\ RemembersFew

(* Closing a provider does not cancel work while another provider remains
   attached.                                                               *)
SharedWorkSurvivesClose ==
  [][\A p, q \in Providers :
       p # q /\ provider[q].stage = "open" /\ provider[q]' = provider[q]
         /\ provider[p]'.stage # provider[p].stage
       => Live \subseteq DOMAIN tasks'
          /\ \A t \in Live : tasks'[t] = tasks[t]]_jwksVars

=============================================================================
