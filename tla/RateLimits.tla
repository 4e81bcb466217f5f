----------------------------- MODULE RateLimits -----------------------------
(***************************************************************************)
(* The bundled rate limiter (accounts/_rate_limits.py): fixed windows over  *)
(* a native store, one bucket per client and one per submitted identifier,  *)
(* within one process.                                                      *)
(*                                                                         *)
(* The store has no compare-and-increment, so charging a bucket is a get    *)
(* and a set with an await between them; a lock of the process, taken       *)
(* before the clock is read, makes the charge of both buckets one step for  *)
(* the other coroutines.  A key of an earlier window is never read again,   *)
(* so its expiry in the store is left out.  A counter nobody has set reads  *)
(* as zero.                                                                *)
(***************************************************************************)
EXTENDS Integers

CONSTANTS
  Requests,   \* coroutines of this process that ask the limiter
  Policies,   \* per limited operation its limit and its window
  Clients,    \* trusted client keys
  Subjects,   \* peppered digests of normalized identifiers
  MaxTime,    \* bound: the clock
  Unkeyed     \* stands for a client key or a subject that is None

\* RateLimitPolicy: both are positive.  Their upper bounds, a million attempts
\* and a day, matter to nothing here.
RateLimitPolicy == [limit: Nat \ {0}, window: Nat \ {0}]
Limited == DOMAIN Policies

ASSUME PoliciesAssumption == Limited # {} /\ Policies \in [Limited -> RateLimitPolicy]
ASSUME BucketsAssumption == Unkeyed \notin Clients \cup Subjects /\ Clients \cap Subjects = {}
ASSUME TimeAssumption == MaxTime \in Nat

VARIABLES
  now,        \* the clock, in seconds
  used,       \* the counters in the store
  admitted,   \* history: attempts let through, per bucket
  attempt     \* what each coroutine has asked, and where it waits

limiterVars == <<now, used, admitted, attempt>>

\* A bucket of one operation and one window; the digest keeps clients and
\* subjects apart.
Keys == Limited \X (Clients \cup Subjects) \X (0..MaxTime)

\* RateLimitAttempt with the locals of acquire: the slot of the window, the
\* counter the store returned, and whether a bucket is exhausted.
RateLimitAttempt ==
  [at: {"idle", "wait", "client", "subject", "allowed"},
   operation: Limited, client: Clients \cup {Unkeyed},
   subject: Subjects \cup {Unkeyed}, slot: 0..MaxTime, seen: Nat, exhausted: BOOLEAN]

NoAttempt ==
  [at |-> "idle", operation |-> CHOOSE o \in Limited : TRUE, client |-> Unkeyed,
   subject |-> Unkeyed, slot |-> 0, seen |-> 0, exhausted |-> FALSE]

LimiterInit ==
  /\ now = 0
  /\ used = [k \in Keys |-> 0]
  /\ admitted = [k \in Keys |-> 0]
  /\ attempt = [r \in Requests |-> NoAttempt]

Key(q, value) == <<q.operation, value, q.slot>>
Buckets(q) == {Key(q, v) : v \in {q.client, q.subject} \ {Unkeyed}}

\* Mutant: every limiter instance holds a lock of its own.
LockOfAnInstance == TRUE

\* _hold_process_rate_limit_lock: held from the first read to the last write.
LockFree == \A r \in Requests : attempt[r].at \notin {"client", "subject"}

\* The store's get of the next bucket.
Read(q, stage) ==
  LET value == IF stage = "client" THEN q.client ELSE q.subject IN
  [q EXCEPT !.at = stage, !.seen = used[Key(q, value)]]

\* acquire under the lock: the clock, then the first bucket there is.  Without
\* a client key and a subject there is nothing to charge.
Started(p) ==
  LET q == [p EXCEPT !.slot = now \div Policies[p.operation].window] IN
  IF q.client # Unkeyed THEN Read(q, "client")
  ELSE IF q.subject # Unkeyed THEN Read(q, "subject")
  ELSE [q EXCEPT !.at = "allowed"]

\* check: an operation without a policy is allowed at once; a free lock is
\* taken without an await.
Asked(operation, client, subject) ==
  LET q == [NoAttempt EXCEPT !.operation = operation, !.client = client, !.subject = subject] IN
  IF operation \notin Limited THEN [NoAttempt EXCEPT !.at = "allowed"]
  ELSE IF LockFree THEN Started(q)
  ELSE [q EXCEPT !.at = "wait"]

AskLimiter(r, operation, client, subject) ==
  /\ attempt[r].at = "idle"
  /\ attempt' = [attempt EXCEPT ![r] = Asked(operation, client, subject)]
  /\ UNCHANGED <<now, used, admitted>>

\* The lock is polled until it is free.
Acquire(r) ==
  /\ attempt[r].at = "wait" /\ LockFree
  /\ attempt' = [attempt EXCEPT ![r] = Started(@)]
  /\ UNCHANGED <<now, used, admitted>>

\* _consume, after the get: the counter is written even when it exceeds the
\* limit.
Charged(q) ==
  [q EXCEPT !.seen = 0, !.exhausted = @ \/ q.seen + 1 > Policies[q.operation].limit]

\* The decision, with the lock released: every bucket has to have room.  An
\* attempt that is denied is over.
Decided(q) == IF Charged(q).exhausted THEN NoAttempt ELSE [Charged(q) EXCEPT !.at = "allowed"]

\* History of a decision
Admit(q) ==
  admitted' = IF Decided(q).at = "allowed"
              THEN [k \in Keys |-> admitted[k] + (IF k \in Buckets(q) THEN 1 ELSE 0)]
              ELSE admitted

ChargeClient(r) ==
  LET q == attempt[r] IN
  /\ q.at = "client"
  /\ used' = [used EXCEPT ![Key(q, q.client)] = q.seen + 1]
  /\ IF q.subject = Unkeyed
     THEN attempt' = [attempt EXCEPT ![r] = Decided(q)] /\ Admit(q)
     ELSE attempt' = [attempt EXCEPT ![r] = Read(Charged(q), "subject")] /\ UNCHANGED admitted
  /\ UNCHANGED now

\* The subject is charged even when the client's bucket was exhausted.
ChargeSubject(r) ==
  LET q == attempt[r] IN
  /\ q.at = "subject"
  /\ used' = [used EXCEPT ![Key(q, q.subject)] = q.seen + 1]
  /\ attempt' = [attempt EXCEPT ![r] = Decided(q)]
  /\ Admit(q)
  /\ UNCHANGED now

\* The store fails, the counter is unreadable, or the request is cancelled
\* while it waits or counts: the lock is released, what was charged stays
\* charged, and the guard answers VerificationUnavailable.
LimiterFails(r) ==
  /\ attempt[r].at \in {"wait", "client", "subject"}
  /\ attempt' = [attempt EXCEPT ![r] = NoAttempt]
  /\ UNCHANGED <<now, used, admitted>>

\* The caller goes on with what it was allowed.
Proceed(r) ==
  /\ attempt[r].at = "allowed"
  /\ attempt' = [attempt EXCEPT ![r] = NoAttempt]
  /\ UNCHANGED <<now, used, admitted>>

LimiterTick ==
  /\ now < MaxTime
  /\ now' = now + 1
  /\ UNCHANGED <<used, admitted, attempt>>

LimiterStep(r) == Acquire(r) \/ ChargeClient(r) \/ ChargeSubject(r) \/ LimiterFails(r)

LimiterNext ==
  \/ \E r \in Requests, o \in Limited, c \in Clients \cup {Unkeyed},
        s \in Subjects \cup {Unkeyed} : AskLimiter(r, o, c, s)
  \/ \E r \in Requests : LimiterStep(r) \/ Proceed(r)
  \/ LimiterTick

LimiterSpec == LimiterInit /\ [][LimiterNext]_limiterVars

-----------------------------------------------------------------------------
LimiterTypeOK ==
  /\ now \in 0..MaxTime
  /\ used \in [Keys -> Nat]
  /\ admitted \in [Keys -> Nat]
  /\ attempt \in [Requests -> RateLimitAttempt]

\* Whatever coroutines overlap and wherever the store fails, no more attempts
\* are let through in one window of one bucket than its operation's limit: an
\* attempt that two buckets count is let through only when both have room.
RateLimitsHold == \A k \in Keys : admitted[k] <= Policies[k[1]].limit
=============================================================================
