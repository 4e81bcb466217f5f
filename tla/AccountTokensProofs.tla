------------------------- MODULE AccountTokensProofs -------------------------
(***************************************************************************)
(* The limiter first, by itself: RateLimitsHold for any policies, clients,  *)
(* subjects and coroutines.  The invariant that carries it: one coroutine   *)
(* counts at a time, what it has read is what the store holds, and a bucket *)
(* it has charged without exhausting has room for the admission that may    *)
(* still follow.                                                            *)
(*                                                                         *)
(* Then the account routes keep the limiter's budgets: whatever they do     *)
(* between asking and going on, each of their steps is a step of the        *)
(* limiter or leaves it alone, so its invariant is theirs.  Tokens, epochs  *)
(* and registrations follow, by an invariant of their own.                  *)
(***************************************************************************)
EXTENDS AccountTokens, SequenceTheorems, TLAPS

Locked(q) == q.at \in {"client", "subject"}

\* The lock: one coroutine counts at a time.
OneCounts == \A r, s \in Requests : Locked(attempt[r]) /\ Locked(attempt[s]) => r = s

\* What a counting coroutine has read, and the room it has made.
Counts(q) ==
  /\ q.at = "client" =>
       q.client # Unkeyed /\ q.seen = used[Key(q, q.client)]
  /\ q.at = "subject" =>
       /\ q.subject # Unkeyed /\ q.seen = used[Key(q, q.subject)]
       /\ q.client # Unkeyed /\ ~q.exhausted =>
            /\ admitted[Key(q, q.client)] < used[Key(q, q.client)]
            /\ used[Key(q, q.client)] <= Policies[q.operation].limit

\* An admission was counted before.
AdmittedWereCounted == \A k \in Keys : admitted[k] <= used[k]

LimiterInv ==
  /\ LimiterTypeOK
  /\ OneCounts
  /\ \A r \in Requests : Counts(attempt[r])
  /\ AdmittedWereCounted
  /\ RateLimitsHold

----------------------------------------------------------------------------
LEMMA SlotType ==
  ASSUME NEW n \in 0..MaxTime, NEW w \in Nat \ {0}
  PROVE  n \div w \in 0..MaxTime
<1>1. n \in Nat /\ w \in Nat /\ w > 0 /\ n <= MaxTime /\ MaxTime \in Nat
  BY TimeAssumption
<1>2. n \div w \in Nat /\ n \div w <= n
  BY <1>1, Z3
<1> QED BY <1>1, <1>2

LEMMA PolicyType ==
  ASSUME NEW o \in Limited
  PROVE  Policies[o].limit \in Nat /\ Policies[o].window \in Nat \ {0}
BY PoliciesAssumption DEF RateLimitPolicy

LEMMA NoAttemptType == NoAttempt \in RateLimitAttempt /\ NoAttempt.at = "idle"
BY PoliciesAssumption, TimeAssumption DEF NoAttempt, RateLimitAttempt

LEMMA KeyType ==
  ASSUME NEW q \in RateLimitAttempt, NEW v \in Clients \cup Subjects
  PROVE  Key(q, v) \in Keys
BY DEF Key, Keys, RateLimitAttempt

\* The two buckets of one attempt are two.
LEMMA KeysDiffer ==
  ASSUME NEW q \in RateLimitAttempt, q.client # Unkeyed, q.subject # Unkeyed
  PROVE  Key(q, q.client) # Key(q, q.subject)
<1>1. q.client \in Clients /\ q.subject \in Subjects
  BY DEF RateLimitAttempt
<1> QED BY <1>1, BucketsAssumption DEF Key

LEMMA ReadType ==
  ASSUME LimiterTypeOK, NEW q \in RateLimitAttempt, NEW stage \in {"client", "subject"},
         (IF stage = "client" THEN q.client ELSE q.subject) # Unkeyed
  PROVE  LET r == Read(q, stage) IN
         /\ r \in RateLimitAttempt
         /\ r.at = stage /\ r.exhausted = q.exhausted /\ r.operation = q.operation
         /\ r.client = q.client /\ r.subject = q.subject /\ r.slot = q.slot
         /\ r.seen = used[Key(q, IF stage = "client" THEN q.client ELSE q.subject)]
<1> DEFINE v == IF stage = "client" THEN q.client ELSE q.subject
<1>1. v \in Clients \cup Subjects
  BY DEF RateLimitAttempt
<1>2. Key(q, v) \in Keys
  BY <1>1, KeyType
<1>3. used[Key(q, v)] \in Nat
  BY <1>2 DEF LimiterTypeOK
<1>4. Read(q, stage) = [q EXCEPT !.at = stage, !.seen = used[Key(q, v)]]
  BY DEF Read
<1> HIDE DEF v
<1> QED BY <1>3, <1>4 DEF RateLimitAttempt, v

\* An attempt that gets the lock has read its first bucket.
LEMMA StartedCounts ==
  ASSUME LimiterTypeOK, NEW p \in RateLimitAttempt
  PROVE  Started(p) \in RateLimitAttempt /\ Counts(Started(p))
<1> DEFINE q == [p EXCEPT !.slot = now \div Policies[p.operation].window]
<1>1. p.operation \in Limited
  BY DEF RateLimitAttempt
<1>2. now \div Policies[p.operation].window \in 0..MaxTime
  BY <1>1, PolicyType, SlotType DEF LimiterTypeOK
<1> HIDE DEF Limited
<1>3. /\ q \in RateLimitAttempt /\ q.client = p.client /\ q.subject = p.subject
  BY <1>2 DEF RateLimitAttempt
<1>4. Started(p) = IF q.client # Unkeyed THEN Read(q, "client")
                   ELSE IF q.subject # Unkeyed THEN Read(q, "subject")
                   ELSE [q EXCEPT !.at = "allowed"]
  BY DEF Started
<1> HIDE DEF q
<1>5. CASE q.client # Unkeyed
  <2> DEFINE r == Read(q, "client")
  <2>1. /\ r \in RateLimitAttempt /\ r.at = "client" /\ r.client = q.client
        /\ r.operation = q.operation /\ r.slot = q.slot /\ r.seen = used[Key(q, q.client)]
    BY <1>3, <1>5, ReadType
  <2>2. Key(r, r.client) = Key(q, q.client)
    BY <2>1 DEF Key
  <2>3. Started(p) = r
    BY <1>4, <1>5
  <2> HIDE DEF r
  <2> QED BY <2>1, <2>2, <2>3, <1>5 DEF Counts
<1>6. CASE q.client = Unkeyed /\ q.subject # Unkeyed
  <2> DEFINE r == Read(q, "subject")
  <2>1. /\ r \in RateLimitAttempt /\ r.at = "subject" /\ r.client = q.client
        /\ r.subject = q.subject /\ r.operation = q.operation /\ r.slot = q.slot
        /\ r.seen = used[Key(q, q.subject)]
    BY <1>3, <1>6, ReadType
  <2>2. Key(r, r.subject) = Key(q, q.subject)
    BY <2>1 DEF Key
  <2>3. Started(p) = r
    BY <1>4, <1>6
  <2> HIDE DEF r
  <2> QED BY <2>1, <2>2, <2>3, <1>6 DEF Counts
<1>7. CASE q.client = Unkeyed /\ q.subject = Unkeyed
  BY <1>3, <1>4, <1>7 DEF Counts, RateLimitAttempt
<1> QED BY <1>5, <1>6, <1>7

\* Charging a bucket remembers whether it was exhausted.
LEMMA ChargedType ==
  ASSUME NEW q \in RateLimitAttempt
  PROVE  LET c == Charged(q) IN
         /\ c \in RateLimitAttempt /\ c.client = q.client /\ c.subject = q.subject
         /\ c.operation = q.operation /\ c.slot = q.slot
         /\ ~c.exhausted => ~q.exhausted /\ q.seen + 1 <= Policies[q.operation].limit
<1>1. q.operation \in Limited /\ q.seen \in Nat /\ q.exhausted \in BOOLEAN
  BY DEF RateLimitAttempt
<1>2. Policies[q.operation].limit \in Nat
  BY <1>1, PolicyType
<1> DEFINE full == q.exhausted \/ q.seen + 1 > Policies[q.operation].limit
<1>3. Charged(q) = [q EXCEPT !.seen = 0, !.exhausted = full]
  BY DEF Charged, RateLimitAttempt
<1>4. ASSUME NEW b \in BOOLEAN
      PROVE  LET c == [q EXCEPT !.seen = 0, !.exhausted = b] IN
             /\ c \in RateLimitAttempt /\ c.exhausted = b /\ c.client = q.client
             /\ c.subject = q.subject /\ c.operation = q.operation /\ c.slot = q.slot
  BY DEF RateLimitAttempt
<1>5. full \in BOOLEAN
  BY <1>1
<1>6. ~full => ~q.exhausted /\ q.seen + 1 <= Policies[q.operation].limit
  BY <1>1, <1>2
<1> HIDE DEF full
<1> QED BY <1>3, <1>4, <1>5, <1>6

\* What the decision makes of an attempt: it admits only when no bucket of the
\* attempt is exhausted.
LEMMA DecidedType ==
  ASSUME NEW q \in RateLimitAttempt
  PROVE  /\ Decided(q) \in RateLimitAttempt
         /\ ~Locked(Decided(q))
         /\ Decided(q).at = "allowed" =>
              ~q.exhausted /\ q.seen + 1 <= Policies[q.operation].limit
<1> DEFINE c == Charged(q)
<1>1. /\ c \in RateLimitAttempt
      /\ ~c.exhausted => ~q.exhausted /\ q.seen + 1 <= Policies[q.operation].limit
  BY ChargedType
<1>2. Decided(q) = IF c.exhausted THEN NoAttempt ELSE [c EXCEPT !.at = "allowed"]
  BY DEF Decided
<1> HIDE DEF c
<1>3. CASE c.exhausted
  BY <1>2, <1>3, NoAttemptType DEF Locked
<1>4. CASE ~c.exhausted
  <2>1. /\ [c EXCEPT !.at = "allowed"] \in RateLimitAttempt
        /\ [c EXCEPT !.at = "allowed"].at = "allowed"
    BY <1>1 DEF RateLimitAttempt
  <2> QED BY <2>1, <1>1, <1>2, <1>4 DEF Locked
<1> QED BY <1>3, <1>4

----------------------------------------------------------------------------
\* One attempt changes, and no counter: the others keep what they have read.
LEMMA AttemptStep ==
  ASSUME LimiterInv, NEW r \in Requests, NEW q \in RateLimitAttempt, Counts(q),
         Locked(q) => \A s \in Requests \ {r} : ~Locked(attempt[s]),
         attempt' = [attempt EXCEPT ![r] = q],
         UNCHANGED <<now, used, admitted>>
  PROVE  LimiterInv'
<1>1. /\ attempt'[r] = q
      /\ \A s \in Requests \ {r} : attempt'[s] = attempt[s]
      /\ now' = now /\ used' = used /\ admitted' = admitted
  BY DEF LimiterInv, LimiterTypeOK
<1>2. LimiterTypeOK'
  BY <1>1 DEF LimiterInv, LimiterTypeOK
<1>3. OneCounts'
  BY <1>1 DEF LimiterInv, OneCounts
<1>4. \A s \in Requests : Counts(attempt[s])'
  BY <1>1 DEF LimiterInv, Counts, Key
<1>5. AdmittedWereCounted' /\ RateLimitsHold'
  BY <1>1 DEF LimiterInv, AdmittedWereCounted, RateLimitsHold
<1> QED BY <1>2, <1>3, <1>4, <1>5 DEF LimiterInv

\* An attempt that does not count has nothing to keep.
LEMMA UnlockedCounts == ASSUME NEW q, ~Locked(q) PROVE Counts(q)
BY DEF Locked, Counts

\* Also for an operation without a policy, which is allowed at once.
LEMMA AskStep ==
  ASSUME LimiterInv, NEW r \in Requests, NEW o,
         NEW c \in Clients \cup {Unkeyed}, NEW s \in Subjects \cup {Unkeyed},
         AskLimiter(r, o, c, s)
  PROVE  LimiterInv'
<1> DEFINE p == [NoAttempt EXCEPT !.operation = o, !.client = c, !.subject = s]
<1>1. /\ Asked(o, c, s) \in RateLimitAttempt /\ Counts(Asked(o, c, s))
      /\ Locked(Asked(o, c, s)) => LockFree
  <2>1. CASE o \notin Limited
    <3>1. Asked(o, c, s) = [NoAttempt EXCEPT !.at = "allowed"]
      BY <2>1 DEF Asked
    <3>2. Asked(o, c, s) \in RateLimitAttempt /\ Asked(o, c, s).at = "allowed"
      BY <3>1, NoAttemptType DEF RateLimitAttempt
    <3> QED BY <3>2, UnlockedCounts DEF Locked
  <2>2. CASE o \in Limited
    <3>1. /\ p \in RateLimitAttempt /\ [p EXCEPT !.at = "wait"] \in RateLimitAttempt
          /\ [p EXCEPT !.at = "wait"].at = "wait"
      BY <2>2, NoAttemptType DEF RateLimitAttempt
    <3>2. Asked(o, c, s) = IF LockFree THEN Started(p) ELSE [p EXCEPT !.at = "wait"]
      BY <2>2 DEF Asked
    <3> HIDE DEF p
    <3>3. CASE LockFree
      BY <3>1, <3>2, <3>3, StartedCounts DEF LimiterInv
    <3>4. CASE ~LockFree
      BY <3>1, <3>2, <3>4, UnlockedCounts DEF Locked
    <3> QED BY <3>3, <3>4
  <2> QED BY <2>1, <2>2
<1>2. LockFree => \A x \in Requests : ~Locked(attempt[x])
  BY DEF LockFree, Locked
<1> HIDE DEF p
<1> QED BY <1>1, <1>2, AttemptStep DEF AskLimiter

LEMMA AcquireStep ==
  ASSUME LimiterInv, NEW r \in Requests, Acquire(r)
  PROVE  LimiterInv'
<1>1. attempt[r] \in RateLimitAttempt
  BY DEF LimiterInv, LimiterTypeOK
<1>2. Started(attempt[r]) \in RateLimitAttempt /\ Counts(Started(attempt[r]))
  BY <1>1, StartedCounts DEF LimiterInv
<1>3. \A x \in Requests : ~Locked(attempt[x])
  BY DEF Acquire, LockFree, Locked
<1>4. /\ attempt' = [attempt EXCEPT ![r] = Started(attempt[r])]
      /\ UNCHANGED <<now, used, admitted>>
  BY DEF Acquire
<1> QED BY <1>2, <1>3, <1>4, AttemptStep

\* A failure and a caller that goes on give the attempt up.
LEMMA GiveUpStep ==
  ASSUME LimiterInv, NEW r \in Requests, LimiterFails(r) \/ Proceed(r)
  PROVE  LimiterInv'
<1>1. NoAttempt \in RateLimitAttempt /\ ~Locked(NoAttempt)
  BY NoAttemptType DEF Locked
<1>2. /\ attempt' = [attempt EXCEPT ![r] = NoAttempt]
      /\ UNCHANGED <<now, used, admitted>>
  BY DEF LimiterFails, Proceed
<1> QED BY <1>1, <1>2, UnlockedCounts, AttemptStep

----------------------------------------------------------------------------
\* The last bucket v of an attempt is charged and the decision taken: whoever
\* is let through had room in this bucket and, charged before, in the other.
LEMMA DecideStep ==
  ASSUME LimiterInv, NEW r \in Requests, NEW q, q = attempt[r], Locked(q),
         NEW v \in Clients \cup Subjects, Buckets(q) \subseteq Keys,
         q.seen = used[Key(q, v)],
         \A k \in Buckets(q) \ {Key(q, v)} : ~q.exhausted =>
           admitted[k] < used[k] /\ used[k] <= Policies[q.operation].limit,
         used' = [used EXCEPT ![Key(q, v)] = q.seen + 1],
         attempt' = [attempt EXCEPT ![r] = Decided(q)],
         Admit(q), now' = now
  PROVE  LimiterInv'
<1>1. q \in RateLimitAttempt
  BY DEF LimiterInv, LimiterTypeOK
<1>2. /\ Decided(q) \in RateLimitAttempt /\ ~Locked(Decided(q))
      /\ Decided(q).at = "allowed" =>
           ~q.exhausted /\ q.seen + 1 <= Policies[q.operation].limit
  BY <1>1, DecidedType
<1>3. Key(q, v) \in Keys /\ q.seen \in Nat
  BY <1>1, KeyType DEF RateLimitAttempt
<1>4. /\ used' \in [Keys -> Nat] /\ used'[Key(q, v)] = q.seen + 1
      /\ \A k \in Keys \ {Key(q, v)} : used'[k] = used[k]
  BY <1>3 DEF LimiterInv, LimiterTypeOK
<1>5. \A k \in Buckets(q) : k[1] = q.operation
  BY DEF Buckets, Key
<1>6. \A k \in Keys :
        /\ admitted'[k] \in Nat /\ admitted'[k] <= used'[k]
        /\ admitted'[k] <= Policies[k[1]].limit
  <2> SUFFICES ASSUME NEW k \in Keys
               PROVE  /\ admitted'[k] \in Nat /\ admitted'[k] <= used'[k]
                      /\ admitted'[k] <= Policies[k[1]].limit
    OBVIOUS
  <2>1. /\ admitted[k] \in Nat /\ used[k] \in Nat /\ admitted[k] <= used[k]
        /\ admitted[k] <= Policies[k[1]].limit
        /\ Policies[k[1]].limit \in Nat
    <3>1. k[1] \in Limited
      BY DEF Keys
    <3> QED BY <3>1, PolicyType DEF LimiterInv, LimiterTypeOK, AdmittedWereCounted, RateLimitsHold
  <2>2. CASE Decided(q).at # "allowed" \/ k \notin Buckets(q)
    <3>1. admitted'[k] = admitted[k]
      BY <2>1, <2>2 DEF Admit
    <3> QED BY <3>1, <2>1, <1>3, <1>4
  <2>3. CASE Decided(q).at = "allowed" /\ k \in Buckets(q)
    <3>1. admitted'[k] = admitted[k] + 1
      BY <2>3 DEF Admit
    <3>2. k[1] = q.operation
      BY <1>5, <2>3
    <3>3. CASE k = Key(q, v)
      BY <3>1, <3>2, <3>3, <2>1, <2>3, <1>2, <1>3, <1>4
    <3>4. CASE k # Key(q, v)
      BY <3>1, <3>2, <3>4, <2>1, <2>3, <1>2, <1>4
    <3> QED BY <3>3, <3>4
  <2> QED BY <2>2, <2>3
<1>7. admitted' \in [Keys -> Nat]
  BY <1>6 DEF Admit, LimiterInv, LimiterTypeOK
<1>8. LimiterTypeOK'
  BY <1>2, <1>4, <1>7 DEF LimiterInv, LimiterTypeOK
<1>9. \A s \in Requests : ~Locked(attempt'[s])
  BY <1>2 DEF LimiterInv, LimiterTypeOK, OneCounts
<1>10. OneCounts' /\ \A s \in Requests : Counts(attempt[s])'
  BY <1>9 DEF OneCounts, Counts, Locked
<1> QED BY <1>6, <1>8, <1>10 DEF LimiterInv, AdmittedWereCounted, RateLimitsHold

LEMMA ChargeSubjectStep ==
  ASSUME LimiterInv, NEW r \in Requests, ChargeSubject(r)
  PROVE  LimiterInv'
<1> DEFINE q == attempt[r]
<1>1. q \in RateLimitAttempt /\ Counts(q) /\ q.at = "subject" /\ Locked(q)
  BY DEF LimiterInv, LimiterTypeOK, ChargeSubject, Locked
<1>2. /\ q.subject # Unkeyed /\ q.seen = used[Key(q, q.subject)]
      /\ q.client # Unkeyed /\ ~q.exhausted =>
           /\ admitted[Key(q, q.client)] < used[Key(q, q.client)]
           /\ used[Key(q, q.client)] <= Policies[q.operation].limit
  BY <1>1 DEF Counts
<1>3. q.subject \in Subjects /\ q.client \in Clients \cup {Unkeyed}
  BY <1>1, <1>2 DEF RateLimitAttempt
<1>4. Buckets(q) = {Key(q, x) : x \in {q.client, q.subject} \ {Unkeyed}}
  BY DEF Buckets
<1>5. Buckets(q) \subseteq Keys
  BY <1>1, <1>3, <1>4, KeyType
<1>6. /\ used' = [used EXCEPT ![Key(q, q.subject)] = q.seen + 1]
      /\ attempt' = [attempt EXCEPT ![r] = Decided(q)]
      /\ Admit(q) /\ now' = now
  BY DEF ChargeSubject
<1>7. \A k \in Buckets(q) \ {Key(q, q.subject)} : ~q.exhausted =>
        admitted[k] < used[k] /\ used[k] <= Policies[q.operation].limit
  BY <1>2, <1>4
<1> HIDE DEF q
<1> QED BY <1>1, <1>2, <1>3, <1>5, <1>6, <1>7, DecideStep DEF q

LEMMA ChargeClientStep ==
  ASSUME LimiterInv, NEW r \in Requests, ChargeClient(r)
  PROVE  LimiterInv'
<1> DEFINE q == attempt[r]
<1>1. q \in RateLimitAttempt /\ Counts(q) /\ q.at = "client" /\ Locked(q)
  BY DEF LimiterInv, LimiterTypeOK, ChargeClient, Locked
<1>2. q.client # Unkeyed /\ q.seen = used[Key(q, q.client)]
  BY <1>1 DEF Counts
<1>3. q.client \in Clients /\ q.subject \in Subjects \cup {Unkeyed} /\ q.seen \in Nat
  BY <1>1, <1>2 DEF RateLimitAttempt
<1>4. /\ used' = [used EXCEPT ![Key(q, q.client)] = q.seen + 1] /\ now' = now
      /\ q.subject = Unkeyed =>
           attempt' = [attempt EXCEPT ![r] = Decided(q)] /\ Admit(q)
      /\ q.subject # Unkeyed =>
           /\ attempt' = [attempt EXCEPT ![r] = Read(Charged(q), "subject")]
           /\ admitted' = admitted
  BY DEF ChargeClient
<1> HIDE DEF q
<1>5. CASE q.subject = Unkeyed
  <2>1. Buckets(q) = {Key(q, q.client)}
    BY <1>2, <1>5 DEF Buckets
  <2>2. Key(q, q.client) \in Keys
    BY <1>1, <1>3, KeyType
  <2> QED BY <2>1, <2>2, <1>1, <1>2, <1>3, <1>4, <1>5, DecideStep DEF q
<1>6. CASE q.subject # Unkeyed
  <2> DEFINE c == Charged(q)  n == Read(c, "subject")
             kc == Key(q, q.client)  ks == Key(q, q.subject)
  <2>1. /\ c \in RateLimitAttempt /\ c.client = q.client /\ c.subject = q.subject
        /\ c.operation = q.operation /\ c.slot = q.slot
        /\ ~c.exhausted => q.seen + 1 <= Policies[q.operation].limit
    BY <1>1, ChargedType
  <2>2. /\ n \in RateLimitAttempt /\ n.at = "subject" /\ n.exhausted = c.exhausted
        /\ n.operation = q.operation /\ n.client = q.client /\ n.subject = q.subject
        /\ n.slot = q.slot /\ n.seen = used[Key(c, c.subject)]
    BY <2>1, <1>6, ReadType DEF LimiterInv
  <2>3. Key(c, c.subject) = ks /\ Key(n, n.subject) = ks /\ Key(n, n.client) = kc
    BY <2>1, <2>2 DEF Key
  <2>4. kc \in Keys /\ ks \in Keys /\ kc # ks
    BY <1>1, <1>2, <1>3, <1>6, KeyType, KeysDiffer
  <2>5. /\ attempt' = [attempt EXCEPT ![r] = n] /\ admitted' = admitted
        /\ used' = [used EXCEPT ![kc] = q.seen + 1]
    BY <1>4, <1>6
  <2> HIDE DEF c, n, kc, ks
  <2>6. /\ used' \in [Keys -> Nat] /\ used'[kc] = q.seen + 1
        /\ \A k \in Keys \ {kc} : used'[k] = used[k]
    BY <2>4, <2>5, <1>3 DEF LimiterInv, LimiterTypeOK
  <2>7. /\ attempt'[r] = n /\ attempt' \in [Requests -> RateLimitAttempt]
        /\ \A s \in Requests \ {r} : attempt'[s] = attempt[s] /\ ~Locked(attempt[s])
    BY <2>2, <2>5, <1>1 DEF LimiterInv, LimiterTypeOK, OneCounts, q
  <2>8. used[kc] = q.seen /\ admitted[kc] \in Nat /\ admitted[kc] <= used[kc]
    BY <2>4, <1>2 DEF LimiterInv, LimiterTypeOK, AdmittedWereCounted, kc
  <2>9. Counts(attempt[r])'
    <3>1. n.seen = used'[ks]
      BY <2>2, <2>3, <2>4, <2>6
    <3>2. ~n.exhausted => admitted'[kc] < used'[kc] /\ used'[kc] <= Policies[n.operation].limit
      BY <2>1, <2>2, <2>5, <2>6, <2>8, <1>3
    <3> QED BY <3>1, <3>2, <2>2, <2>3, <2>7, <1>6 DEF Counts
  <2>10. \A s \in Requests : Counts(attempt[s])'
    <3>1. \A s \in Requests \ {r} : Counts(attempt[s])'
      BY <2>7 DEF Counts, Locked
    <3> QED BY <3>1, <2>9
  <2>11. OneCounts'
    BY <2>7 DEF OneCounts
  <2>12. AdmittedWereCounted' /\ RateLimitsHold'
    BY <2>4, <2>5, <2>6, <2>8, <1>3 DEF LimiterInv, LimiterTypeOK, AdmittedWereCounted, RateLimitsHold
  <2> QED BY <2>5, <2>6, <2>7, <2>10, <2>11, <2>12, <1>4 DEF LimiterInv, LimiterTypeOK
<1> QED BY <1>5, <1>6

LEMMA TickStep ==
  ASSUME LimiterInv, LimiterTick
  PROVE  LimiterInv'
<1>1. now' \in 0..MaxTime /\ UNCHANGED <<used, admitted, attempt>>
  BY TimeAssumption DEF LimiterTick, LimiterInv, LimiterTypeOK
<1> QED BY <1>1 DEF LimiterInv, LimiterTypeOK, OneCounts, Counts, Key, AdmittedWereCounted, RateLimitsHold

----------------------------------------------------------------------------
LEMMA LimiterInitInv == LimiterInit => LimiterInv
<1> SUFFICES ASSUME LimiterInit PROVE LimiterInv
  OBVIOUS
<1>1. LimiterTypeOK
  BY NoAttemptType, TimeAssumption DEF LimiterInit, LimiterTypeOK
<1>2. \A r \in Requests : ~Locked(attempt[r])
  BY NoAttemptType DEF LimiterInit, Locked
<1>3. OneCounts /\ \A r \in Requests : Counts(attempt[r])
  BY <1>2, UnlockedCounts DEF OneCounts
<1>4. AdmittedWereCounted
  BY DEF LimiterInit, AdmittedWereCounted
<1>5. RateLimitsHold
  <2>1. \A k \in Keys : k[1] \in Limited
    BY DEF Keys
  <2> QED BY <2>1, PolicyType DEF LimiterInit, RateLimitsHold
<1> QED BY <1>1, <1>3, <1>4, <1>5 DEF LimiterInv

LEMMA LimiterNextInv == LimiterInv /\ [LimiterNext]_limiterVars => LimiterInv'
<1> SUFFICES ASSUME LimiterInv, [LimiterNext]_limiterVars PROVE LimiterInv'
  OBVIOUS
<1>1. CASE \E r \in Requests, o \in Limited, c \in Clients \cup {Unkeyed},
              s \in Subjects \cup {Unkeyed} : AskLimiter(r, o, c, s)
  BY <1>1, AskStep
<1>2. CASE \E r \in Requests : LimiterStep(r) \/ Proceed(r)
  BY <1>2, AcquireStep, ChargeClientStep, ChargeSubjectStep, GiveUpStep DEF LimiterStep
<1>3. CASE LimiterTick
  BY <1>3, TickStep
<1>4. CASE UNCHANGED limiterVars
  BY <1>4 DEF limiterVars, LimiterInv, LimiterTypeOK, OneCounts, Counts, Key,
              AdmittedWereCounted, RateLimitsHold
<1> QED BY <1>1, <1>2, <1>3, <1>4 DEF LimiterNext

\* No bucket ever lets more attempts through in one window than its operation's
\* limit, for any number of coroutines, buckets and failures of the store.
THEOREM BudgetsHold == LimiterSpec => []RateLimitsHold
<1>1. LimiterInv => RateLimitsHold
  BY DEF LimiterInv
<1> QED BY <1>1, LimiterInitInv, LimiterNextInv, PTL DEF LimiterSpec



----------------------------------------------------------------------------
(* The routes behind the limiter.                                           *)

\* Every route names a client the application extracts, and an identifier or
\* none.
LEMMA BeginStep ==
  ASSUME LimiterInv, NEW r \in Requests, NEW client \in Extracted,
         \/ \E i \in Subjects, t \in {Nobody} \cup DOMAIN issued : BeginRegister(r, client, i, t)
         \/ \E i \in Subjects : BeginResend(r, client, i) \/ BeginRecovery(r, client, i)
         \/ \E t \in DOMAIN issued, sound \in BOOLEAN :
              BeginConfirm(r, client, t, sound) \/ BeginReset(r, client, t, sound)
  PROVE  LimiterInv'
<1>1. client \in Clients \cup {Unkeyed}
  BY ConfigurationAssumption
<1>2. \E o, s : s \in Subjects \cup {Unkeyed} /\ AskLimiter(r, o, client, s)
  BY DEF BeginRegister, BeginResend, BeginRecovery, BeginConfirm, BeginReset, Begin
<1> QED BY <1>1, <1>2, AskStep

LEMMA LimitStep ==
  ASSUME LimiterInv, NEW r \in Requests, Limit(r)
  PROVE  LimiterInv'
BY AcquireStep, ChargeClientStep, ChargeSubjectStep, GiveUpStep DEF Limit, LimiterStep

\* What a route does once it is allowed, and what it does later.
LEMMA AllowedStep ==
  ASSUME LimiterInv, NEW r \in Requests, NEW op, Allowed(r, op)
  PROVE  LimiterInv'
BY GiveUpStep DEF Allowed

LEMMA Untouched == ASSUME LimiterInv, UNCHANGED limiterVars PROVE LimiterInv'
BY LimiterNextInv

LEMMA RouteStep ==
  ASSUME LimiterInv, NEW r \in Requests,
         \/ Register(r) \/ FindUnverified(r) \/ FindForRecovery(r) \/ Resend(r) \/ Recover(r)
         \/ Confirm(r) \/ HashReplacement(r) \/ ConsumeAndReset(r)
         \/ RevokeSessions(r) \/ RevokeFamilies(r) \/ Abandon(r)
  PROVE  LimiterInv'
<1>1. (\E op : Allowed(r, op)) \/ UNCHANGED limiterVars
  BY DEF Register, FindUnverified, FindForRecovery, FindAccount, Resend, Recover, IssueToken,
         Confirm, HashReplacement, ConsumeAndReset, RevokeSessions, RevokeFamilies,
         RevokeRecords, Abandon, Later
<1> QED BY <1>1, AllowedStep, Untouched

LEMMA AccountsKeepLimiter == LimiterInv /\ [Next]_vars => LimiterInv'
<1> SUFFICES ASSUME LimiterInv, [Next]_vars PROVE LimiterInv'
  OBVIOUS
<1>1. ASSUME NEW r \in Requests, Step(r) PROVE LimiterInv'
  BY <1>1, BeginStep, LimitStep, RouteStep DEF Step
<1>2. ASSUME NEW i \in Subjects, Invite(i) \/ ChangePassword(i) PROVE LimiterInv'
  BY <1>2, Untouched DEF Invite, ChangePassword, Elsewhere
<1>3. CASE Tick
  BY <1>3, TickStep DEF Tick
<1>4. CASE UNCHANGED vars
  BY <1>4, Untouched DEF vars
<1> QED BY <1>1, <1>2, <1>3, <1>4 DEF Next

\* However many coroutines register, ask for tokens, guess and reset, and
\* whatever fails between, no bucket lets more of them through in one window
\* than its operation's limit.
THEOREM AccountsKeepBudgets == Spec => []RateLimitsHold
<1>1. LimiterInv => RateLimitsHold
  BY DEF LimiterInv
<1>2. Init => LimiterInv
  BY LimiterInitInv DEF Init
<1> QED BY <1>1, <1>2, AccountsKeepLimiter, PTL DEF Spec

(***************************************************************************)
(* The invariant of tokens, epochs and registrations.                      *)
(***************************************************************************)
RoutesTyped ==
  /\ account \in [Subjects -> LocalAccountState]
  /\ issued \in Seq(TokenIssue) /\ Len(issued) <= MaxIssued
  /\ open \subseteq DOMAIN issued
  /\ records \subseteq {"sessions", "families"} \X Members
  /\ IsABag(spent)
  /\ request \in [Requests -> Coroutine]
  /\ begun \in 0..MaxRequests

\* A token is some account's, and has attempts left while the store holds it.
IssuedOK ==
  /\ \A t \in DOMAIN issued : Exists(issued[t].account)
  /\ \A t \in open : issued[t].wrong < MaxAttempts

\* What a coroutine has found out and nothing undoes while it waits.
CoroutineOK(q) ==
  /\ q.token \in {Nobody} \cup DOMAIN issued
  /\ q.at = "limit" /\ q.op \in {"register", "resend", "recovery"} => q.subject \in Subjects
  /\ q.at = "limit" /\ q.op \in {"confirm", "reset"} => q.token \in DOMAIN issued
  /\ q.at = "hash" => q.token \in DOMAIN issued /\ issued[q.token].purpose = "recovery"
  /\ q.at = "issue" => q.subject \in Subjects /\ (q.sound => Exists(q.subject))
  /\ q.at \in {"sessions", "families"} => q.subject \in Subjects /\ account[q.subject].epoch > 1

\* One use of a token, an invitation or an epoch, as the history tells it.
UseOK(x) ==
  /\ spent[x] = 1
  /\ x[1] \in {"verification", "recovery"} =>
       /\ x[2] \in DOMAIN issued /\ x[2] \notin open
       /\ issued[x[2]].purpose = x[1] /\ issued[x[2]].wrong < MaxAttempts
  /\ x[1] = "recovery" => x[3] = issued[x[2]].epoch
  /\ x[1] = "left" => x[2] \in Subjects /\ x[3] \in Nat /\ x[3] < account[x[2]].epoch
  /\ x[1] = "registered" =>
       /\ x = <<"registered", x[2], x[3]>> /\ x[2] \in Subjects /\ Exists(x[2])
       /\ x[3] \in {Nobody} \cup DOMAIN issued /\ x[3] \notin open

Registered == {x \in DOMAIN spent : x[1] = "registered"}

RegisteredOK ==
  /\ \A x, y \in Registered : x[2] = y[2] => x = y
  /\ Mode = "invite_only" => \A x, y \in Registered : x[3] = y[3] => x = y
  /\ \A i \in Subjects : Exists(i) <=> i \in Members \/ \E x \in Registered : x[2] = i

RecordsOK ==
  \A x \in ({"sessions", "families"} \X Members) \ records : account[x[2]].epoch > 1

RoutesInv ==
  /\ RoutesTyped /\ IssuedOK /\ RegisteredOK /\ RecordsOK
  /\ \A r \in Requests : CoroutineOK(request[r])
  /\ \A x \in DOMAIN spent : UseOK(x)

-----------------------------------------------------------------------------
(* Lemmas about bags and requests. *)

LEMMA BagPlus ==
  ASSUME NEW B, IsABag(B), NEW S, S \cap DOMAIN B = {}
  PROVE  /\ IsABag(B (+) SetToBag(S)) /\ DOMAIN (B (+) SetToBag(S)) = DOMAIN B \cup S
         /\ \A x \in DOMAIN B : (B (+) SetToBag(S))[x] = B[x]
         /\ \A x \in S : (B (+) SetToBag(S))[x] = 1
<1>. DEFINE C == B (+) SetToBag(S)
<1>1. C = [e \in DOMAIN B \cup S |-> (IF e \in DOMAIN B THEN B[e] ELSE 0)
                                     + (IF e \in S THEN 1 ELSE 0)]
  BY DEF (+), SetToBag
<1>2. \A x \in DOMAIN B : B[x] \in Nat /\ B[x] > 0
  BY DEF IsABag
<1>3. \A x \in DOMAIN B : C[x] = B[x]
  BY <1>1, <1>2
<1>4. \A x \in S : C[x] = 1
  BY <1>1
<1>5. DOMAIN C = DOMAIN B \cup S /\ C = [x \in DOMAIN C |-> C[x]]
  BY <1>1
<1>6. IsABag(C)
  BY <1>2, <1>3, <1>4, <1>5 DEF IsABag
<1>. QED BY <1>3, <1>4, <1>5, <1>6

LEMMA IdleOK == Idle \in Coroutine /\ CoroutineOK(Idle)
BY TimeAssumption, BoundsAssumption DEF Idle, Operations, Coroutine, CoroutineOK, Nobody

\* Tokens and epochs are never taken back.
Grows ==
  /\ \A t \in DOMAIN issued : /\ t \in DOMAIN issued' /\ issued'[t].purpose = issued[t].purpose
                              /\ issued'[t].account = issued[t].account
                              /\ issued'[t].epoch = issued[t].epoch
  /\ \A i \in Subjects : account'[i].epoch >= account[i].epoch

LEMMA StableGrows ==
  ASSUME RoutesTyped, UNCHANGED <<account, issued>> PROVE Grows
BY BoundsAssumption DEF Grows, RoutesTyped, LocalAccountState

LEMMA CoroutinesKept ==
  ASSUME RoutesTyped, RoutesTyped', Grows, NEW q, CoroutineOK(q)
  PROVE  CoroutineOK(q)'
BY BoundsAssumption DEF Grows, CoroutineOK, Exists, RoutesTyped, LocalAccountState

\* One coroutine at most moves, into a state it may be in.
OneMoves ==
  \/ UNCHANGED request
  \/ \E r \in Requests, q \in Coroutine : Continue(r, q) /\ CoroutineOK(q)'

LEMMA MoveTyped ==
  ASSUME request \in [Requests -> Coroutine], OneMoves
  PROVE  request' \in [Requests -> Coroutine]
BY DEF OneMoves, Continue

LEMMA AllCoroutines ==
  ASSUME RoutesInv, RoutesTyped', Grows, OneMoves
  PROVE  \A r \in Requests : CoroutineOK(request[r])'
<1>. SUFFICES ASSUME NEW r \in Requests PROVE CoroutineOK(request[r])'
  OBVIOUS
<1>1. CASE request'[r] = request[r]
  BY <1>1, CoroutinesKept DEF RoutesInv
<1>2. CASE request'[r] # request[r]
  <2>1. PICK s \in Requests, q \in Coroutine : Continue(s, q) /\ CoroutineOK(q)'
    BY <1>2 DEF OneMoves
  <2>2. s = r /\ request'[r] = q
    BY <1>2, <2>1 DEF Continue, RoutesInv, RoutesTyped
  <2>. QED BY <2>1, <2>2
<1>. QED BY <1>1, <1>2

\* Most steps only move a coroutine.
LEMMA OnlyMoves ==
  ASSUME RoutesInv, UNCHANGED <<account, issued, open, records, spent>>,
         begun' \in 0..MaxRequests, OneMoves
  PROVE  RoutesInv'
<1>1. RoutesTyped'
  BY MoveTyped DEF RoutesInv, RoutesTyped
<1>2. \A r \in Requests : CoroutineOK(request[r])'
  BY <1>1, StableGrows, AllCoroutines DEF RoutesInv
<1>3. IssuedOK' /\ RegisteredOK' /\ RecordsOK'
  BY DEF RoutesInv, IssuedOK, RegisteredOK, RecordsOK, Registered, Exists
<1>4. \A x \in DOMAIN spent' : UseOK(x)'
  BY DEF RoutesInv, UseOK, Exists
<1>. QED BY <1>1, <1>2, <1>3, <1>4 DEF RoutesInv

LEMMA EndOK ==
  ASSUME NEW r \in Requests, End(r), RoutesTyped, issued' \in Seq(TokenIssue)
  PROVE  OneMoves
<1>1. CoroutineOK(Idle)'
  BY IdleOK DEF CoroutineOK, Idle, Nobody
<1>. QED BY <1>1, IdleOK DEF OneMoves, End

-----------------------------------------------------------------------------
(* What a step does to tokens and to the history. *)

LEMMA SeqFacts ==
  ASSUME RoutesTyped
  PROVE  /\ Len(issued) \in Nat /\ DOMAIN issued = 1..Len(issued) /\ Nobody \notin DOMAIN issued
         /\ \A t \in DOMAIN issued : issued[t] \in TokenIssue /\ issued[t].account \in Subjects
<1>1. Len(issued) \in Nat /\ DOMAIN issued = 1..Len(issued)
  BY LenProperties DEF RoutesTyped
<1>2. \A t \in DOMAIN issued : issued[t] \in TokenIssue
  BY ElementOfSeq, <1>1 DEF RoutesTyped
<1>. QED BY <1>1, <1>2 DEF Nobody, TokenIssue

LEMMA Appended ==
  ASSUME RoutesTyped, Len(issued) < MaxIssued, NEW e \in TokenIssue, issued' = Append(issued, e)
  PROVE  /\ issued' \in Seq(TokenIssue) /\ Len(issued') <= MaxIssued
         /\ DOMAIN issued' = DOMAIN issued \cup {Len(issued) + 1}
         /\ Len(issued) + 1 \notin DOMAIN issued /\ Len(issued) + 1 # Nobody
         /\ \A t \in DOMAIN issued : issued'[t] = issued[t]
         /\ issued'[Len(issued) + 1] = e
<1>1. issued \in Seq(TokenIssue) /\ Len(issued) \in Nat /\ DOMAIN issued = 1..Len(issued)
  BY SeqFacts DEF RoutesTyped
<1>2. issued' \in Seq(TokenIssue) /\ Len(issued') = Len(issued) + 1
      /\ \A t \in 1..Len(issued) : issued'[t] = issued[t]
      /\ issued'[Len(issued) + 1] = e
  BY <1>1, AppendProperties
<1>3. DOMAIN issued' = 1..(Len(issued) + 1)
  BY <1>2, LenProperties
<1>. QED BY <1>1, <1>2, <1>3, BoundsAssumption DEF Nobody

LEMMA Failed ==
  ASSUME RoutesInv, NEW t \in open, FailedProof(t)
  PROVE  /\ issued' \in Seq(TokenIssue) /\ Len(issued') = Len(issued) /\ DOMAIN issued' = DOMAIN issued
         /\ open' \subseteq open
         /\ \A u \in DOMAIN issued : /\ issued'[u].purpose = issued[u].purpose
                                     /\ issued'[u].account = issued[u].account
                                     /\ issued'[u].epoch = issued[u].epoch
                                     /\ u # t => issued'[u] = issued[u]
         /\ t \in open' => issued'[t].wrong < MaxAttempts
<1>1. t \in DOMAIN issued /\ issued[t] \in TokenIssue /\ issued[t].wrong < MaxAttempts
  BY SeqFacts DEF RoutesInv, RoutesTyped, IssuedOK
<1>. DEFINE e == [issued[t] EXCEPT !.wrong = @ + 1]
<1>2. MaxAttempts \in Nat
  BY ConfigurationAssumption DEF LifecycleConfiguration
<1>3. e \in TokenIssue /\ e.wrong = issued[t].wrong + 1 /\ e.purpose = issued[t].purpose
      /\ e.account = issued[t].account /\ e.epoch = issued[t].epoch
  BY <1>1, <1>2 DEF TokenIssue
<1>4. issued' = [issued EXCEPT ![t] = e]
  BY DEF FailedProof, RoutesInv, RoutesTyped
<1>5. issued' \in Seq(TokenIssue) /\ Len(issued') = Len(issued)
      /\ \A u \in 1..Len(issued) : issued'[u] = IF u = t THEN e ELSE issued[u]
  <2>. HIDE DEF e
  <2>. QED BY <1>1, <1>3, <1>4, ExceptSeq, SeqFacts DEF RoutesInv, RoutesTyped
<1>6. DOMAIN issued' = DOMAIN issued /\ DOMAIN issued = 1..Len(issued)
  BY <1>4, SeqFacts DEF RoutesInv
<1>7. open' \subseteq open /\ (t \in open' => issued[t].wrong + 1 < MaxAttempts)
  BY <1>1, <1>2 DEF FailedProof, TokenIssue
<1>. QED BY <1>1, <1>3, <1>5, <1>6, <1>7

\* No step gives an attempt or a place in the store back to a token.
Shrinks ==
  /\ \A t \in DOMAIN issued : t \in open' => t \in open
  /\ \A t \in DOMAIN issued : t \notin open => issued'[t].wrong = issued[t].wrong

LEMMA UsesKept ==
  ASSUME RoutesInv, RoutesTyped', Grows, Shrinks, NEW x \in DOMAIN spent, spent'[x] = spent[x]
  PROVE  UseOK(x)'
<1>1. UseOK(x) /\ Nobody \notin DOMAIN issued /\ Nobody \notin open'
  BY SeqFacts DEF RoutesInv, RoutesTyped, Nobody
<1>2. \A i \in Subjects : account[i].epoch \in Nat /\ account'[i].epoch \in Nat
  BY BoundsAssumption DEF RoutesInv, RoutesTyped, LocalAccountState
<1>3. /\ spent'[x] = 1
      /\ x[1] \in {"verification", "recovery"} =>
           /\ x[2] \in DOMAIN issued' /\ x[2] \notin open'
           /\ issued'[x[2]].purpose = x[1] /\ issued'[x[2]].wrong < MaxAttempts
           /\ issued'[x[2]].epoch = issued[x[2]].epoch
  BY <1>1 DEF UseOK, Grows, Shrinks
<1>4. x[1] = "left" => x[3] < account'[x[2]].epoch
  BY <1>1, <1>2 DEF UseOK, Grows
<1>5. x[1] = "registered" => /\ account'[x[2]].epoch > 0
                             /\ x[3] \in {Nobody} \cup DOMAIN issued' /\ x[3] \notin open'
  BY <1>1, <1>2 DEF UseOK, Grows, Shrinks, Exists
<1>. QED BY <1>1, <1>3, <1>4, <1>5 DEF UseOK, Exists

\* No account comes and none goes but by registration.
LEMMA RegisteredKept ==
  ASSUME RoutesInv, Registered' = Registered, \A i \in Subjects : Exists(i)' <=> Exists(i)
  PROVE  RegisteredOK'
BY DEF RoutesInv, RegisteredOK

LEMMA RecordsKept ==
  ASSUME RoutesInv, RoutesTyped', Grows, UNCHANGED records PROVE RecordsOK'
BY ConfigurationAssumption, BoundsAssumption
   DEF RoutesInv, RecordsOK, Grows, RoutesTyped, LocalAccountState

\* Steps that leave accounts and history alone.
LEMMA TokensMove ==
  ASSUME RoutesInv, RoutesTyped', Grows, Shrinks, OneMoves, IssuedOK',
         UNCHANGED <<account, records, spent>>
  PROVE  RoutesInv'
<1>1. RegisteredOK'
  BY RegisteredKept DEF Registered, Exists
<1>2. \A x \in DOMAIN spent' : UseOK(x)'
  BY UsesKept
<1>. QED BY <1>1, <1>2, AllCoroutines, RecordsKept DEF RoutesInv

LEMMA IssueMoves ==
  ASSUME RoutesInv, NEW purpose \in Purposes, NEW i \in Subjects, Exists(i),
         NEW since \in 0..MaxTime, NEW epoch \in 0..MaxEpoch,
         Issue(purpose, i, since, epoch), UNCHANGED <<account, records, spent>>,
         begun' \in 0..MaxRequests, OneMoves
  PROVE  RoutesInv'
<1>. DEFINE e == [purpose |-> purpose, account |-> i, epoch |-> epoch,
                  expires |-> since + Lifetime, wrong |-> 0]
<1>1. e \in TokenIssue /\ e.account = i /\ e.wrong < MaxAttempts
  BY ConfigurationAssumption, TimeAssumption DEF TokenIssue, LifecycleConfiguration
<1>2. issued' = Append(issued, e) /\ Len(issued) < MaxIssued /\ open' = open \cup {Len(issued) + 1}
  BY DEF Issue
<1>3. RoutesTyped
  BY DEF RoutesInv
<1>. HIDE DEF e
<1>4. RoutesTyped'
  BY <1>1, <1>2, <1>3, Appended, MoveTyped DEF RoutesTyped
<1>5. Grows /\ Shrinks
  BY <1>1, <1>2, <1>3, Appended, BoundsAssumption DEF Grows, Shrinks, RoutesTyped, LocalAccountState
<1>6. IssuedOK'
  BY <1>1, <1>2, <1>3, Appended DEF RoutesInv, RoutesTyped, IssuedOK, Exists
<1>. QED BY <1>4, <1>5, <1>6, TokensMove

LEMMA FailedMoves ==
  ASSUME RoutesInv, NEW t \in open, FailedProof(t), UNCHANGED <<account, records, spent>>,
         begun' \in 0..MaxRequests, OneMoves
  PROVE  RoutesInv'
<1>1. RoutesTyped'
  BY Failed, MoveTyped DEF RoutesInv, RoutesTyped
<1>2. Grows /\ Shrinks
  BY Failed, BoundsAssumption, SMTT(60) DEF Grows, Shrinks, RoutesInv, RoutesTyped, LocalAccountState
<1>3. IssuedOK'
  BY Failed DEF RoutesInv, RoutesTyped, IssuedOK, Exists
<1>. QED BY <1>1, <1>2, <1>3, TokensMove

-----------------------------------------------------------------------------
(* The routes, action by action. *)

LEMMA TypedCoroutine ==
  ASSUME RoutesInv, NEW r \in Requests
  PROVE  /\ request[r] \in Coroutine /\ CoroutineOK(request[r])
         /\ begun \in 0..MaxRequests
BY DEF RoutesInv, RoutesTyped

LEMMA BeginOne ==
  ASSUME RoutesInv, NEW r \in Requests, NEW p \in Coroutine, NEW client, NEW subject,
         Begin(r, p, client, subject), p.token \in {Nobody} \cup DOMAIN issued,
         p.op \in {"register", "resend", "recovery"} => p.subject \in Subjects,
         p.op \in {"confirm", "reset"} => p.token \in DOMAIN issued
  PROVE  RoutesInv'
<1>. PICK q : q = [p EXCEPT !.at = "limit"]
  OBVIOUS
<1>1. q \in Coroutine /\ q.at = "limit" /\ q.op = p.op /\ q.subject = p.subject /\ q.token = p.token
  BY DEF Coroutine
<1>2. /\ UNCHANGED <<account, issued, open, records, spent>> /\ Continue(r, q)
      /\ begun' = begun + 1 /\ begun < MaxRequests
  BY DEF Begin, tokens
<1>3. begun' \in 0..MaxRequests
  BY <1>2, BoundsAssumption DEF RoutesInv, RoutesTyped
<1>4. CoroutineOK(q)'
  BY <1>1, <1>2 DEF CoroutineOK
<1>5. OneMoves
  BY <1>1, <1>2, <1>4 DEF OneMoves
<1>. QED BY <1>2, <1>3, <1>5, OnlyMoves

LEMMA BeginMoves ==
  ASSUME RoutesInv, LimiterInv, NEW r \in Requests, NEW client \in Extracted,
         \/ \E i \in Subjects, t \in {Nobody} \cup DOMAIN issued : BeginRegister(r, client, i, t)
         \/ \E i \in Subjects : BeginResend(r, client, i) \/ BeginRecovery(r, client, i)
         \/ \E t \in DOMAIN issued, sound \in BOOLEAN :
              BeginConfirm(r, client, t, sound) \/ BeginReset(r, client, t, sound)
  PROVE  RoutesInv'
<1>1. now \in 0..MaxTime
  BY DEF LimiterInv, LimiterTypeOK
<1>2. \A t \in {Nobody} \cup DOMAIN issued : t \in 0..MaxIssued
  BY SeqFacts, BoundsAssumption DEF RoutesInv, RoutesTyped, Nobody
<1>3. Idle \in Coroutine /\ Idle.token = Nobody
  BY IdleOK DEF Idle
<1>4. ASSUME NEW i \in Subjects, NEW t \in {Nobody} \cup DOMAIN issued, BeginRegister(r, client, i, t)
      PROVE  RoutesInv'
  <2>. PICK p : p = [Idle EXCEPT !.op = "register", !.subject = i, !.token = t, !.sound = TRUE,
                                 !.since = now]
    OBVIOUS
  <2>1. p \in Coroutine /\ p.op = "register" /\ p.subject = i /\ p.token = t
    BY <1>1, <1>2, <1>3 DEF Coroutine, Operations
  <2>. QED BY <1>4, <2>1, BeginOne DEF BeginRegister
<1>5. ASSUME NEW i \in Subjects, BeginResend(r, client, i) \/ BeginRecovery(r, client, i)
      PROVE  RoutesInv'
  <2>1. PICK op \in {"resend", "recovery"} : Begin(r, [Idle EXCEPT !.op = op, !.subject = i], client, i)
    BY <1>5 DEF BeginResend, BeginRecovery
  <2>. PICK p : p = [Idle EXCEPT !.op = op, !.subject = i]
    OBVIOUS
  <2>2. p \in Coroutine /\ p.op = op /\ p.subject = i /\ p.token = Nobody
    BY <1>3 DEF Coroutine, Operations
  <2>. QED BY <2>1, <2>2, BeginOne
<1>6. ASSUME NEW t \in DOMAIN issued, NEW sound \in BOOLEAN,
             BeginConfirm(r, client, t, sound) \/ BeginReset(r, client, t, sound)
      PROVE  RoutesInv'
  <2>1. PICK op \in {"confirm", "reset"} :
          Begin(r, [Idle EXCEPT !.op = op, !.token = t, !.sound = sound], client, Unkeyed)
    BY <1>6 DEF BeginConfirm, BeginReset
  <2>. PICK p : p = [Idle EXCEPT !.op = op, !.token = t, !.sound = sound]
    OBVIOUS
  <2>2. p \in Coroutine /\ p.op = op /\ p.token = t
    BY <1>2, <1>3 DEF Coroutine, Operations
  <2>. QED BY <2>1, <2>2, BeginOne
<1>. QED BY <1>4, <1>5, <1>6

\* The end of a request that changes nothing else.
LEMMA EndMoves ==
  ASSUME RoutesInv, NEW r \in Requests, End(r), begun' = begun,
         UNCHANGED <<account, issued, open, records, spent>>
  PROVE  RoutesInv'
BY EndOK, OnlyMoves DEF RoutesInv, RoutesTyped

LEMMA LimitMoves ==
  ASSUME RoutesInv, NEW r \in Requests, Limit(r)
  PROVE  RoutesInv'
<1>1. begun' \in 0..MaxRequests /\ UNCHANGED <<account, issued, open, records, spent, begun>>
  BY DEF Limit, tokens, RoutesInv, RoutesTyped
<1>2. CASE End(r)
  BY <1>1, <1>2, EndMoves
<1>3. CASE UNCHANGED request
  BY <1>1, <1>3, OnlyMoves DEF OneMoves
<1>. QED BY <1>2, <1>3 DEF Limit

LEMMA AbandonMoves ==
  ASSUME RoutesInv, NEW r \in Requests, Abandon(r)
  PROVE  RoutesInv'
BY EndMoves DEF Abandon, Later, Allowed, tokens

LEMMA FindMoves ==
  ASSUME RoutesInv, LimiterInv, NEW r \in Requests, NEW op \in {"resend", "recovery"},
         FindAccount(r, op)
  PROVE  RoutesInv'
<1>1. PICK q \in Coroutine : q = request[r]
  BY TypedCoroutine
<1>2. CoroutineOK(q) /\ q.at = "limit" /\ q.op = op /\ now \in 0..MaxTime
  BY <1>1, TypedCoroutine DEF FindAccount, Allowed, At, Doing, LimiterInv, LimiterTypeOK
<1>. DEFINE epoch == IF op = "recovery" THEN account[q.subject].epoch ELSE 0
<1>3. q.subject \in Subjects /\ epoch \in 0..MaxEpoch
  BY <1>2, BoundsAssumption DEF CoroutineOK, RoutesInv, RoutesTyped, LocalAccountState
<1>4. Eligible(q.subject, op) \in BOOLEAN /\ (Eligible(q.subject, op) => Exists(q.subject))
  BY <1>3 DEF Eligible, RoutesInv, RoutesTyped, LocalAccountState
<1>. PICK found : found = [q EXCEPT !.at = "issue", !.since = now, !.sound = Eligible(q.subject, op),
                                     !.epoch = epoch]
  OBVIOUS
<1>5. /\ found \in Coroutine /\ found.at = "issue" /\ found.subject = q.subject
      /\ found.token = q.token /\ (found.sound => Exists(q.subject))
  <2>. HIDE DEF epoch
  <2>. QED BY <1>2, <1>3, <1>4 DEF Coroutine
<1>6. Continue(r, found) /\ UNCHANGED <<account, issued, open, records, spent, begun>>
  BY <1>1, <1>5 DEF FindAccount, Allowed, tokens
<1>7. CoroutineOK(found)'
  BY <1>2, <1>3, <1>5, <1>6 DEF CoroutineOK, Exists
<1>8. OneMoves
  BY <1>5, <1>6, <1>7 DEF OneMoves
<1>. QED BY <1>6, <1>8, OnlyMoves DEF RoutesInv, RoutesTyped

LEMMA HashMoves ==
  ASSUME RoutesInv, LimiterInv, NEW r \in Requests, HashReplacement(r)
  PROVE  RoutesInv'
<1>1. PICK q \in Coroutine : q = request[r]
  BY TypedCoroutine
<1>2. CoroutineOK(q) /\ q.at = "limit" /\ q.op = "reset" /\ now \in 0..MaxTime
  BY <1>1, TypedCoroutine DEF HashReplacement, Allowed, At, Doing, LimiterInv, LimiterTypeOK
<1>3. UNCHANGED <<account, issued, open, records, spent, begun>>
  BY DEF HashReplacement, Allowed, tokens
<1>4. CASE End(r)
  BY <1>3, <1>4, EndMoves
<1>5. CASE Proof(q.token, "recovery") /\ Continue(r, [q EXCEPT !.at = "hash", !.since = now])
  <2>. PICK read : read = [q EXCEPT !.at = "hash", !.since = now]
    OBVIOUS
  <2>1. read \in Coroutine /\ read.at = "hash" /\ read.token = q.token
    BY <1>2 DEF Coroutine
  <2>2. CoroutineOK(read)'
    BY <1>2, <1>3, <1>5, <2>1 DEF CoroutineOK, Proof
  <2>3. OneMoves
    BY <1>5, <2>1, <2>2 DEF OneMoves
  <2>. QED BY <1>3, <2>3, OnlyMoves DEF RoutesInv, RoutesTyped
<1>. QED BY <1>1, <1>4, <1>5 DEF HashReplacement

LEMMA IssueTokenMoves ==
  ASSUME RoutesInv, NEW r \in Requests, NEW op, NEW purpose \in Purposes, IssueToken(r, op, purpose)
  PROVE  RoutesInv'
<1>. DEFINE q == request[r]
<1>1. q \in Coroutine /\ CoroutineOK(q) /\ q.at = "issue" /\ begun' \in 0..MaxRequests
  BY TypedCoroutine DEF IssueToken, Later, At
<1>2. UNCHANGED <<account, records, spent, begun>> /\ End(r)
  BY DEF IssueToken, Later
<1>3. CASE q.sound
  <2>1. q.subject \in Subjects /\ Exists(q.subject) /\ q.since \in 0..MaxTime /\ q.epoch \in 0..MaxEpoch
    BY <1>1, <1>3 DEF CoroutineOK, Coroutine
  <2>2. Issue(purpose, q.subject, q.since, q.epoch)
    BY <1>3 DEF IssueToken
  <2>3. issued' \in Seq(TokenIssue)
    <3>1. [purpose |-> purpose, account |-> q.subject, epoch |-> q.epoch,
           expires |-> q.since + Lifetime, wrong |-> 0] \in TokenIssue
      BY <2>1, ConfigurationAssumption, TimeAssumption DEF TokenIssue, LifecycleConfiguration
    <3>. QED BY <2>2, <3>1, Appended DEF Issue, RoutesInv
  <2>4. OneMoves
    BY <1>2, <2>3, EndOK DEF RoutesInv
  <2>. HIDE DEF q
  <2>. QED BY <1>1, <1>2, <2>1, <2>2, <2>4, IssueMoves
<1>4. CASE ~q.sound
  BY <1>2, <1>4, EndMoves DEF IssueToken, tokens
<1>. QED BY <1>3, <1>4

LEMMA RevokeMoves ==
  ASSUME RoutesInv, NEW r \in Requests, RevokeSessions(r) \/ RevokeFamilies(r)
  PROVE  RoutesInv'
<1>0. PICK q \in Coroutine : q = request[r]
  BY TypedCoroutine
<1>1. PICK kind \in {"sessions", "families"} :
        /\ q.at = kind /\ records' \in {records, records \ {<<kind, q.subject>>}}
        /\ Continue(r, [q EXCEPT !.at = "families"]) \/ Continue(r, Idle)
        /\ UNCHANGED <<account, issued, open, spent, begun>>
  BY <1>0 DEF RevokeSessions, RevokeFamilies, RevokeRecords, Later, At, tokens
<1>2. CoroutineOK(q) /\ q.subject \in Subjects /\ account[q.subject].epoch > 1
  BY <1>0, <1>1, TypedCoroutine DEF CoroutineOK
<1>. PICK next : next = [q EXCEPT !.at = "families"]
  OBVIOUS
<1>3. next \in Coroutine /\ next.at = "families" /\ next.subject = q.subject /\ next.token = q.token
  BY DEF Coroutine
<1>4. OneMoves
  <2>1. CoroutineOK(next)'
    BY <1>1, <1>2, <1>3 DEF CoroutineOK
  <2>2. CoroutineOK(Idle)'
    BY DEF CoroutineOK, Idle, Nobody
  <2>. QED BY <1>1, <1>3, <2>1, <2>2, IdleOK DEF OneMoves
<1>5. RoutesTyped'
  BY <1>1, <1>4, MoveTyped DEF RoutesInv, RoutesTyped
<1>6. RecordsOK'
  <2>1. \A x \in ({"sessions", "families"} \X Members) \ records' : account[x[2]].epoch > 1
    <3>. SUFFICES ASSUME NEW x \in ({"sessions", "families"} \X Members) \ records'
                  PROVE  account[x[2]].epoch > 1
      OBVIOUS
    <3>1. CASE x \in records
      <4>1. x = <<kind, q.subject>>
        BY <1>1, <3>1
      <4>. QED BY <1>2, <4>1
    <3>2. CASE x \notin records
      BY <3>2 DEF RoutesInv, RecordsOK
    <3>. QED BY <3>1, <3>2
  <2>. QED BY <1>1, <2>1 DEF RecordsOK
<1>7. \A s \in Requests : CoroutineOK(request[s])'
  BY <1>1, <1>4, <1>5, StableGrows, AllCoroutines DEF RoutesInv
<1>8. IssuedOK' /\ RegisteredOK' /\ \A x \in DOMAIN spent' : UseOK(x)'
  BY <1>1 DEF RoutesInv, IssuedOK, RegisteredOK, Registered, UseOK, Exists
<1>. QED BY <1>5, <1>6, <1>7, <1>8 DEF RoutesInv

LEMMA Accepted ==
  ASSUME RoutesInv, NEW S, S \cap DOMAIN spent = {}, spent' = spent (+) SetToBag(S)
  PROVE  /\ IsABag(spent') /\ DOMAIN spent' = DOMAIN spent \cup S
         /\ \A x \in S : spent'[x] = 1
         /\ \A x \in DOMAIN spent : spent'[x] = spent[x]
<1>1. IsABag(spent)
  BY DEF RoutesInv, RoutesTyped
<1>2. /\ IsABag(spent (+) SetToBag(S)) /\ DOMAIN (spent (+) SetToBag(S)) = DOMAIN spent \cup S
      /\ \A x \in DOMAIN spent : (spent (+) SetToBag(S))[x] = spent[x]
      /\ \A x \in S : (spent (+) SetToBag(S))[x] = 1
  BY <1>1, BagPlus
<1>. QED BY <1>2

LEMMA RegisterMoves ==
  ASSUME RoutesInv, NEW r \in Requests, Register(r)
  PROVE  RoutesInv'
<1>1. PICK q \in Coroutine : q = request[r]
  BY TypedCoroutine
<1>2. CoroutineOK(q) /\ q.subject \in Subjects /\ q.token \in {Nobody} \cup DOMAIN issued
      /\ q.since \in 0..MaxTime
  BY <1>1, TypedCoroutine DEF Register, Allowed, At, Doing, CoroutineOK, Coroutine
<1>3. End(r) /\ UNCHANGED <<records, begun>>
  BY DEF Register, Allowed
<1>4. CASE ~(~Exists(q.subject) /\ InvitationValid(q))
  BY <1>1, <1>3, <1>4, EndMoves DEF Register, tokens
<1>5. CASE ~Exists(q.subject) /\ InvitationValid(q)
  <2>. DEFINE x == <<"registered", q.subject, q.token>>
              e == [purpose |-> "verification", account |-> q.subject, epoch |-> 0,
                    expires |-> q.since + Lifetime, wrong |-> 0]
  <2>1. account' = [account EXCEPT ![q.subject] = NewAccount] /\ spent' = spent (+) SetToBag({x})
    BY <1>1, <1>5 DEF Register, Accept
  <2>2. \/ /\ Len(issued) < MaxIssued /\ issued' = Append(issued, e)
           /\ open' = (open \ {q.token}) \cup {Len(issued) + 1}
        \/ issued' = issued /\ open' = open \ {q.token}
    BY <1>1, <1>5 DEF Register, WithoutInvitation
  <2>3. e \in TokenIssue /\ e.account = q.subject /\ e.wrong < MaxAttempts
    BY <1>2, ConfigurationAssumption, TimeAssumption, BoundsAssumption
       DEF TokenIssue, Purposes, LifecycleConfiguration
  <2>4. RoutesTyped /\ \A y \in DOMAIN spent : UseOK(y)
    BY DEF RoutesInv
  <2>5. /\ issued' \in Seq(TokenIssue) /\ Len(issued') <= MaxIssued
        /\ \A t \in DOMAIN issued : t \in DOMAIN issued' /\ issued'[t] = issued[t]
        /\ \A t \in DOMAIN issued' \ DOMAIN issued : issued'[t] = e /\ t # Nobody
        /\ open' \subseteq (open \ {q.token}) \cup (DOMAIN issued' \ DOMAIN issued)
        /\ q.token \notin open'
    <3>. HIDE DEF e
    <3>1. CASE issued' = issued
      BY <2>2, <2>4, <3>1, Appended, SeqFacts DEF RoutesTyped
    <3>2. CASE issued' # issued
      BY <1>2, <2>2, <2>3, <2>4, <3>2, Appended DEF RoutesTyped
    <3>. QED BY <3>1, <3>2
  <2>6. open' \subseteq DOMAIN issued'
    BY <2>4, <2>5 DEF RoutesTyped
  <2>7. NewAccount \in LocalAccountState /\ NewAccount.epoch = 1
    BY ConfigurationAssumption, BoundsAssumption DEF NewAccount, LocalAccountState, RegistrationPolicy
  <2>8. account' \in [Subjects -> LocalAccountState] /\ account'[q.subject].epoch = 1
        /\ \A i \in Subjects : i # q.subject => account'[i] = account[i]
    BY <1>2, <2>1, <2>4, <2>7 DEF RoutesTyped
  <2>9. x \notin DOMAIN spent
    <3>1. x[1] = "registered" /\ x[2] = q.subject
      OBVIOUS
    <3>. HIDE DEF x
    <3>. QED BY <1>5, <2>4, <3>1 DEF UseOK
  <2>10. /\ IsABag(spent') /\ DOMAIN spent' = DOMAIN spent \cup {x} /\ spent'[x] = 1
         /\ \A y \in DOMAIN spent : spent'[y] = spent[y]
    <3>. HIDE DEF x
    <3>1. {x} \cap DOMAIN spent = {}
      BY <2>9
    <3>. QED BY <2>1, <3>1, Accepted
  <2>11. OneMoves
    BY <1>3, <2>4, <2>5, EndOK
  <2>12. RoutesTyped'
    BY <1>3, <2>4, <2>5, <2>6, <2>8, <2>10, <2>11, MoveTyped DEF RoutesTyped
  <2>13. \A i \in Subjects : account'[i].epoch >= account[i].epoch /\ account[i].epoch \in Nat
    BY <1>5, <2>4, <2>8, BoundsAssumption DEF RoutesTyped, LocalAccountState, Exists
  <2>14. Grows /\ Shrinks
    BY <2>5, <2>13 DEF Grows, Shrinks
  <2>15. IssuedOK'
    <3>1. \A i \in Subjects : Exists(i) \/ i = q.subject => account'[i].epoch > 0
      BY <2>8, <2>13 DEF Exists
    <3>2. \A t \in DOMAIN issued : Exists(issued[t].account) /\ issued[t].account \in Subjects
      BY <2>4, SeqFacts DEF RoutesInv, IssuedOK
    <3>3. \A t \in DOMAIN issued' : account'[issued'[t].account].epoch > 0
      BY <1>2, <2>3, <2>5, <3>1, <3>2
    <3>4. \A t \in open' : issued'[t].wrong < MaxAttempts
      BY <2>3, <2>4, <2>5 DEF RoutesInv, IssuedOK, RoutesTyped
    <3>. QED BY <3>3, <3>4 DEF IssuedOK, Exists
  <2>16. x[1] = "registered" /\ x[2] = q.subject /\ x[3] = q.token
         /\ x = <<"registered", x[2], x[3]>>
    OBVIOUS
  <2>17. UseOK(x)'
    <3>1. q.token \in {Nobody} \cup DOMAIN issued'
      BY <1>2, <2>5
    <3>. HIDE DEF x
    <3>. QED BY <1>2, <2>5, <2>8, <2>10, <2>16, <3>1 DEF UseOK, Exists
  <2>18. \A y \in DOMAIN spent' : UseOK(y)'
    <3>. HIDE DEF x
    <3>. QED BY <2>10, <2>12, <2>14, <2>17, UsesKept
  <2>19. RegisteredOK'
    <3>. HIDE DEF x
    <3>1. Registered' = Registered \cup {x}
      BY <2>10, <2>16 DEF Registered
    <3>2. \A y \in Registered : /\ y[2] \in Subjects /\ Exists(y[2]) /\ y[2] # x[2]
                                /\ y[3] \notin open
      BY <1>5, <2>4, <2>16 DEF Registered, UseOK
    <3>3. Mode = "invite_only" => q.token \in open
      BY <1>5 DEF InvitationValid
    <3>4. \A i \in Subjects : account'[i].epoch > 0 <=> (Exists(i) \/ i = x[2])
      BY <1>5, <2>8, <2>16 DEF Exists
    <3>5. \A i \in Subjects : account'[i].epoch > 0
                              <=> (i \in Members \/ \E y \in Registered' : y[2] = i)
      BY <3>1, <3>4 DEF RoutesInv, RegisteredOK
    <3>6. \A y, z \in Registered' : y[2] = z[2] => y = z
      BY <3>1, <3>2 DEF RoutesInv, RegisteredOK
    <3>7. Mode = "invite_only" => \A y, z \in Registered' : y[3] = z[3] => y = z
      BY <2>16, <3>1, <3>2, <3>3 DEF RoutesInv, RegisteredOK
    <3>. QED BY <3>5, <3>6, <3>7 DEF RegisteredOK, Exists
  <2>20. RecordsOK'
    BY <1>3, <2>12, <2>14, RecordsKept
  <2>. QED BY <2>11, <2>12, <2>14, <2>15, <2>18, <2>19, <2>20, AllCoroutines DEF RoutesInv
<1>. QED BY <1>4, <1>5

\* The consumption of a token: it leaves the store, and the history gains it.
LEMMA UseMoves ==
  ASSUME RoutesInv, NEW t \in open, Use(t), NEW S, S \cap DOMAIN spent = {},
         spent' = spent (+) SetToBag(S), \A x \in S : x[1] # "registered" /\ UseOK(x)',
         account' \in [Subjects -> LocalAccountState],
         \A i \in Subjects : account'[i].epoch >= account[i].epoch /\ (Exists(i)' <=> Exists(i)),
         OneMoves, UNCHANGED <<records, begun>>
  PROVE  RoutesInv'
<1>1. /\ IsABag(spent') /\ DOMAIN spent' = DOMAIN spent \cup S
      /\ \A x \in DOMAIN spent : spent'[x] = spent[x]
  BY Accepted
<1>2. UNCHANGED issued /\ open' = open \ {t}
  BY DEF Use
<1>3. RoutesTyped'
  BY <1>1, <1>2, MoveTyped DEF RoutesInv, RoutesTyped
<1>4. Grows /\ Shrinks
  BY <1>2 DEF Grows, Shrinks
<1>5. IssuedOK'
  BY <1>2, SeqFacts DEF RoutesInv, IssuedOK
<1>6. RegisteredOK'
  BY <1>1, RegisteredKept DEF Registered
<1>7. \A x \in DOMAIN spent' : UseOK(x)'
  BY <1>1, <1>3, <1>4, UsesKept
<1>. QED BY <1>3, <1>4, <1>5, <1>6, <1>7, AllCoroutines, RecordsKept DEF RoutesInv

LEMMA ConfirmMoves ==
  ASSUME RoutesInv, NEW r \in Requests, Confirm(r)
  PROVE  RoutesInv'
<1>1. PICK q \in Coroutine : q = request[r]
  BY TypedCoroutine
<1>2. End(r) /\ UNCHANGED <<records, begun>> /\ begun' \in 0..MaxRequests
  BY DEF Confirm, Allowed, RoutesInv, RoutesTyped
<1>3. CASE UNCHANGED <<account, issued, open, spent>>
  BY <1>2, <1>3, EndMoves
<1>4. CASE q.token \in open /\ FailedProof(q.token) /\ UNCHANGED <<account, spent>>
  <2>1. OneMoves
    BY <1>2, <1>4, Failed, EndOK DEF RoutesInv
  <2>. QED BY <1>2, <1>4, <2>1, FailedMoves
<1>5. CASE /\ q.token \in open /\ Proof(q.token, "verification") /\ Use(q.token)
           /\ account' = [account EXCEPT ![issued[q.token].account].verified = TRUE]
           /\ spent' = spent (+) SetToBag({<<"verification", q.token, 0>>})
  <2>. PICK x : x = <<"verification", q.token, 0>>
    OBVIOUS
  <2>1. x[1] = "verification" /\ x[2] = q.token
    OBVIOUS
  <2>2. q.token \in DOMAIN issued /\ issued[q.token].account \in Subjects
    BY <1>5, SeqFacts DEF RoutesInv, RoutesTyped
  <2>3. x \notin DOMAIN spent
    BY <1>5, <2>1 DEF RoutesInv, UseOK
  <2>4. /\ account' \in [Subjects -> LocalAccountState]
        /\ \A i \in Subjects : account'[i].epoch = account[i].epoch
    BY <1>5, <2>2 DEF RoutesInv, RoutesTyped, LocalAccountState
  <2>5. \A i \in Subjects : account'[i].epoch >= account[i].epoch /\ (Exists(i)' <=> Exists(i))
    BY <2>4, BoundsAssumption DEF RoutesInv, RoutesTyped, LocalAccountState, Exists
  <2>6. {x} \cap DOMAIN spent = {} /\ spent' = spent (+) SetToBag({x})
    BY <1>5, <2>3
  <2>7. spent'[x] = 1
    BY <2>6, Accepted
  <2>8. UseOK(x)'
    BY <1>5, <2>1, <2>2, <2>7 DEF UseOK, Use, Proof, RoutesInv, IssuedOK
  <2>9. OneMoves
    BY <1>2, <1>5, EndOK DEF Use, RoutesInv, RoutesTyped
  <2>10. \A z \in {x} : z[1] # "registered" /\ UseOK(z)'
    BY <2>1, <2>8
  <2>. QED BY <1>2, <1>5, <2>4, <2>5, <2>6, <2>9, <2>10, UseMoves
<1>. QED BY <1>1, <1>3, <1>4, <1>5 DEF Confirm, Accept, tokens

\* A password change and a reset end the epoch of one account.
LEMMA EpochEnds ==
  ASSUME RoutesInv, NEW i \in Subjects, NEW e \in 0..MaxEpoch, e = account[i].epoch,
         e > 0, e < MaxEpoch, account' = [account EXCEPT ![i].epoch = e + 1]
  PROVE  /\ account' \in [Subjects -> LocalAccountState] /\ account'[i].epoch = e + 1
         /\ \A j \in Subjects : account'[j].epoch >= account[j].epoch /\ (Exists(j)' <=> Exists(j))
<1>1. account \in [Subjects -> LocalAccountState] /\ MaxEpoch \in Nat
  BY BoundsAssumption DEF RoutesInv, RoutesTyped
<1>. PICK a : a = [account[i] EXCEPT !.epoch = e + 1]
  OBVIOUS
<1>2. e + 1 \in 0..MaxEpoch /\ account[i] \in LocalAccountState
  BY <1>1
<1>3. a \in LocalAccountState /\ a.epoch = e + 1
  BY <1>2 DEF LocalAccountState
<1>4. account' = [account EXCEPT ![i] = a]
  OBVIOUS
<1>5. account' \in [Subjects -> LocalAccountState]
  BY <1>1, <1>3, <1>4
<1>6. account'[i] = a /\ \A j \in Subjects : j # i => account'[j] = account[j]
  BY <1>1, <1>4
<1>7. ASSUME NEW j \in Subjects
      PROVE  account'[j].epoch >= account[j].epoch /\ (account'[j].epoch > 0 <=> account[j].epoch > 0)
  <2>1. account[j].epoch \in 0..MaxEpoch
    BY <1>1 DEF LocalAccountState
  <2>2. CASE j = i
    BY <1>1, <1>3, <1>6, <2>2
  <2>3. CASE j # i
    BY <1>1, <1>6, <2>1, <2>3
  <2>. QED BY <2>2, <2>3
<1>. QED BY <1>3, <1>5, <1>6, <1>7 DEF Exists

LEMMA ConsumeMoves ==
  ASSUME RoutesInv, NEW r \in Requests, ConsumeAndReset(r)
  PROVE  RoutesInv'
<1>1. PICK q \in Coroutine : q = request[r]
  BY TypedCoroutine
<1>2. /\ UNCHANGED <<records, begun>> /\ begun' \in 0..MaxRequests
      /\ q.at = "hash" /\ CoroutineOK(q)
  BY <1>1, TypedCoroutine DEF ConsumeAndReset, Later, At, RoutesInv, RoutesTyped
<1>3. q.token \in DOMAIN issued /\ issued[q.token].purpose = "recovery"
  BY <1>2 DEF CoroutineOK
<1>4. CASE End(r) /\ UNCHANGED <<account, issued, open, spent>>
  BY <1>2, <1>4, EndMoves
<1>5. CASE q.token \in open /\ End(r) /\ FailedProof(q.token) /\ UNCHANGED <<account, spent>>
  <2>1. OneMoves
    BY <1>5, Failed, EndOK DEF RoutesInv
  <2>. QED BY <1>2, <1>5, <2>1, FailedMoves
<1>6. PICK i : i = issued[q.token].account
  OBVIOUS
<1>7. i \in Subjects /\ Exists(i) /\ account[i].epoch \in 0..MaxEpoch
  BY <1>3, <1>6, SeqFacts DEF RoutesInv, IssuedOK, RoutesTyped, LocalAccountState
<1>8. PICK e \in 0..MaxEpoch : e = account[i].epoch /\ e > 0
  BY <1>7, BoundsAssumption DEF Exists
<1>9. CASE /\ q.token \in open /\ Use(q.token) /\ AtCurrentEpoch(q.token) /\ e < MaxEpoch
           /\ account' = [account EXCEPT ![i].epoch = e + 1]
           /\ spent' = spent (+) SetToBag({<<"recovery", q.token, e>>, <<"left", i, e>>})
           /\ Continue(r, [Idle EXCEPT !.at = "sessions", !.op = "reset", !.subject = i])
  <2>. PICK x : x = <<"recovery", q.token, e>>
    OBVIOUS
  <2>. PICK y : y = <<"left", i, e>>
    OBVIOUS
  <2>. PICK p : p = [Idle EXCEPT !.at = "sessions", !.op = "reset", !.subject = i]
    OBVIOUS
  <2>1. /\ x[1] = "recovery" /\ x[2] = q.token /\ x[3] = e
        /\ y[1] = "left" /\ y[2] = i /\ y[3] = e
    OBVIOUS
  <2>2. x \notin DOMAIN spent
    BY <1>9, <2>1 DEF RoutesInv, UseOK
  <2>3. y \notin DOMAIN spent
    BY <1>8, <2>1, BoundsAssumption DEF RoutesInv, UseOK
  <2>4. {x, y} \cap DOMAIN spent = {} /\ spent' = spent (+) SetToBag({x, y})
    BY <1>9, <2>2, <2>3
  <2>5. /\ account' \in [Subjects -> LocalAccountState] /\ account'[i].epoch = e + 1
        /\ \A j \in Subjects : account'[j].epoch >= account[j].epoch /\ (Exists(j)' <=> Exists(j))
    BY <1>7, <1>8, <1>9, EpochEnds
  <2>7. spent'[x] = 1 /\ spent'[y] = 1
    BY <2>4, Accepted
  <2>8. UseOK(x)'
    BY <1>3, <1>6, <1>8, <1>9, <2>1, <2>7 DEF UseOK, Use, AtCurrentEpoch, RoutesInv, IssuedOK
  <2>9. UseOK(y)'
    BY <1>7, <1>8, <2>1, <2>5, <2>7, BoundsAssumption DEF UseOK
  <2>10. p \in Coroutine /\ p.at = "sessions" /\ p.subject = i /\ p.token = Nobody
    <3>1. Idle \in Coroutine /\ Idle.token = Nobody
      BY IdleOK DEF Idle
    <3>. QED BY <1>7, <3>1 DEF Coroutine, Operations
  <2>11. CoroutineOK(p)'
    BY <1>7, <1>8, <2>5, <2>10, BoundsAssumption DEF CoroutineOK
  <2>12. OneMoves
    BY <1>9, <2>10, <2>11 DEF OneMoves
  <2>13. \A z \in {x, y} : z[1] # "registered" /\ UseOK(z)'
    BY <2>1, <2>8, <2>9
  <2>. QED BY <1>2, <1>9, <2>4, <2>5, <2>12, <2>13, UseMoves
<1>. QED BY <1>1, <1>4, <1>5, <1>6, <1>8, <1>9 DEF ConsumeAndReset, tokens

LEMMA InviteMoves ==
  ASSUME RoutesInv, LimiterInv, NEW i \in Subjects, Invite(i)
  PROVE  RoutesInv'
<1>1. begun' \in 0..MaxRequests
  BY BoundsAssumption DEF Invite, Elsewhere, RoutesInv, RoutesTyped
<1>2. /\ now \in 0..MaxTime /\ 0 \in 0..MaxEpoch /\ "invitation" \in Purposes /\ OneMoves
      /\ Exists(i) /\ Issue("invitation", i, now, 0) /\ UNCHANGED <<account, records, spent>>
  BY BoundsAssumption
     DEF Invite, Elsewhere, Purposes, LimiterInv, LimiterTypeOK, OneMoves
<1>. QED BY <1>1, <1>2, IssueMoves

LEMMA ChangeMoves ==
  ASSUME RoutesInv, NEW i \in Subjects, ChangePassword(i)
  PROVE  RoutesInv'
<1>1. PICK e \in 0..MaxEpoch : e = account[i].epoch /\ e > 0 /\ e < MaxEpoch
  BY BoundsAssumption DEF ChangePassword, Exists, RoutesInv, RoutesTyped, LocalAccountState
<1>2. /\ account' = [account EXCEPT ![i].epoch = e + 1]
      /\ spent' = spent (+) SetToBag({<<"left", i, e>>})
      /\ UNCHANGED <<issued, open, records, request>> /\ begun' \in 0..MaxRequests
  BY <1>1, BoundsAssumption
     DEF ChangePassword, Accept, Elsewhere, tokens, RoutesInv, RoutesTyped
<1>. PICK y : y = <<"left", i, e>>
  OBVIOUS
<1>3. y[1] = "left" /\ y[2] = i /\ y[3] = e
  OBVIOUS
<1>4. y \notin DOMAIN spent
  BY <1>1, <1>3, BoundsAssumption DEF RoutesInv, UseOK
<1>5. {y} \cap DOMAIN spent = {} /\ spent' = spent (+) SetToBag({y})
  BY <1>2, <1>4
<1>6. /\ IsABag(spent') /\ DOMAIN spent' = DOMAIN spent \cup {y}
      /\ spent'[y] = 1 /\ \A x \in DOMAIN spent : spent'[x] = spent[x]
  BY <1>5, Accepted
<1>7. /\ account' \in [Subjects -> LocalAccountState] /\ account'[i].epoch = e + 1
      /\ \A j \in Subjects : account'[j].epoch >= account[j].epoch /\ (Exists(j)' <=> Exists(j))
  BY <1>1, <1>2, EpochEnds
<1>8. RoutesTyped'
  BY <1>2, <1>6, <1>7 DEF RoutesInv, RoutesTyped
<1>9. Grows /\ Shrinks /\ OneMoves
  BY <1>2, <1>7 DEF Grows, Shrinks, OneMoves
<1>10. UseOK(y)'
  BY <1>1, <1>3, <1>6, <1>7, BoundsAssumption DEF UseOK
<1>11. \A x \in DOMAIN spent' : UseOK(x)'
  BY <1>6, <1>8, <1>9, <1>10, UsesKept
<1>12. IssuedOK'
  BY <1>2, <1>7, SeqFacts DEF RoutesInv, IssuedOK
<1>13. RegisteredOK'
  BY <1>3, <1>6, <1>7, RegisteredKept DEF Registered
<1>. QED BY <1>2, <1>8, <1>9, <1>11, <1>12, <1>13, AllCoroutines, RecordsKept DEF RoutesInv

-----------------------------------------------------------------------------
(* The invariant, and what it says. *)

LEMMA RoutesInitInv == Init => RoutesInv
<1>. SUFFICES ASSUME Init PROVE RoutesInv
  OBVIOUS
<1>1. /\ LocalAccountState = [active: BOOLEAN, verified: BOOLEAN, epoch: 0..MaxEpoch]
      /\ 0 \in 0..MaxEpoch /\ 1 \in 0..MaxEpoch
  BY BoundsAssumption DEF LocalAccountState
<1>2. account \in [Subjects -> LocalAccountState]
  <2>1. NoAccount \in LocalAccountState
    BY <1>1 DEF NoAccount
  <2>2. ASSUME NEW a \in [active: BOOLEAN, verified: {FALSE}, epoch: {1}]
        PROVE  a \in LocalAccountState
    BY <1>1, <2>2
  <2>. QED BY <2>1, <2>2 DEF Init
<1>3. issued \in Seq(TokenIssue) /\ Len(issued) <= MaxIssued /\ open = DOMAIN issued
  BY OutstandingAssumption DEF Init
<1>4. IsABag(spent) /\ DOMAIN spent = {}
  BY DEF Init, EmptyBag, IsABag, SetToBag
<1>5. request \in [Requests -> Coroutine] /\ \A r \in Requests : CoroutineOK(request[r])
  BY IdleOK DEF Init
<1>6. RoutesTyped
  BY <1>2, <1>3, <1>4, <1>5, BoundsAssumption DEF Init, RoutesTyped
<1>7. IssuedOK
  BY <1>3, ConfigurationAssumption, OutstandingAssumption DEF Init, IssuedOK
<1>8. RegisteredOK
  BY <1>4 DEF Init, RegisteredOK, Registered
<1>. QED BY <1>4, <1>5, <1>6, <1>7, <1>8 DEF Init, RecordsOK, RoutesInv

LEMMA RoutesNextInv == LimiterInv /\ RoutesInv /\ [Next]_vars => RoutesInv'
<1>. SUFFICES ASSUME LimiterInv, RoutesInv, [Next]_vars PROVE RoutesInv'
  OBVIOUS
<1>1. ASSUME NEW r \in Requests, Step(r) PROVE RoutesInv'
  <2>1. CASE \E client \in Extracted :
               \/ \E i \in Subjects, t \in {Nobody} \cup DOMAIN issued : BeginRegister(r, client, i, t)
               \/ \E i \in Subjects : BeginResend(r, client, i) \/ BeginRecovery(r, client, i)
               \/ \E t \in DOMAIN issued, sound \in BOOLEAN :
                    BeginConfirm(r, client, t, sound) \/ BeginReset(r, client, t, sound)
    BY <2>1, BeginMoves
  <2>2. CASE Limit(r) \/ Register(r) \/ Confirm(r) \/ HashReplacement(r) \/ ConsumeAndReset(r)
             \/ RevokeSessions(r) \/ RevokeFamilies(r) \/ Abandon(r)
    BY <2>2, LimitMoves, RegisterMoves, ConfirmMoves, HashMoves, ConsumeMoves, RevokeMoves,
       AbandonMoves
  <2>3. CASE FindUnverified(r) \/ FindForRecovery(r)
    BY <2>3, FindMoves DEF FindUnverified, FindForRecovery
  <2>4. CASE Resend(r) \/ Recover(r)
    BY <2>4, IssueTokenMoves DEF Resend, Recover, Purposes
  <2>. QED BY <1>1, <2>1, <2>2, <2>3, <2>4 DEF Step
<1>2. ASSUME NEW i \in Subjects, Invite(i) \/ ChangePassword(i) PROVE RoutesInv'
  BY <1>2, InviteMoves, ChangeMoves
<1>3. CASE Tick \/ UNCHANGED vars
  BY <1>3, OnlyMoves DEF Tick, vars, tokens, OneMoves, RoutesInv, RoutesTyped
<1>. QED BY <1>1, <1>2, <1>3 DEF Next

LEMMA RoutesInvariant == Spec => [](LimiterInv /\ RoutesInv)
<1>1. Init => LimiterInv /\ RoutesInv
  BY LimiterInitInv, RoutesInitInv DEF Init
<1>2. (LimiterInv /\ RoutesInv) /\ [Next]_vars => (LimiterInv /\ RoutesInv)'
  BY AccountsKeepLimiter, RoutesNextInv
<1>. QED BY <1>1, <1>2, PTL DEF Spec

\* A token is consumed at most once and for the purpose it was issued for, and
\* never by anyone once its attempts are guessed away, whoever guessed them and
\* however many clients and requests the guesses were spread over.
THEOREM TokensAreOneTime == Spec => []TokensServeOnce
<1>1. RoutesInv => TokensServeOnce
  BY DEF RoutesInv, UseOK, IssuedOK, TokensServeOnce, Once, BagIn, BagToSet
<1>. QED BY <1>1, RoutesInvariant, PTL

\* Of all the resets and password changes that started under one epoch of an
\* account, exactly the first to reach the store ends it, and a recovery token
\* never resets a password set after the token was requested.
THEOREM EpochsAreLeftOnce == Spec => []EpochsEndOnce
<1>1. RoutesInv => EpochsEndOnce
  BY DEF RoutesInv, UseOK, EpochsEndOnce, Once, BagIn, BagToSet
<1>. QED BY <1>1, RoutesInvariant, PTL

\* No two registrations make the same account or use the same invitation, no
\* account appears but by registration, and sessions and refresh families are
\* withdrawn only from an account whose epoch has ended.
THEOREM RegistrationsAreSound == Spec => []RegistersAgree
<1>1. LimiterInv /\ RoutesInv => TypeOK
  BY DEF LimiterInv, RoutesInv, RoutesTyped, TypeOK
<1>2. ASSUME RoutesInv PROVE RegistrationsAreAdmitted
  <2>1. {x \in BagToSet(spent) : x[1] = "registered"} = Registered
    BY DEF BagToSet, Registered
  <2>2. \A x \in Registered : Once(x)
    BY <1>2 DEF Registered, RoutesInv, UseOK, Once, BagIn, BagToSet
  <2>3. Mode = "invite_only" => \A x \in Registered : x[3] \notin open
    BY <1>2 DEF Registered, RoutesInv, UseOK
  <2>. QED BY <1>2, <2>1, <2>2, <2>3
           DEF RegistrationsAreAdmitted, RoutesInv, RegisteredOK, RecordsOK
<1>3. LimiterInv /\ RoutesInv => RegistersAgree
  BY <1>1, <1>2 DEF RegistersAgree
<1>. QED BY <1>3, RoutesInvariant, PTL

=============================================================================
