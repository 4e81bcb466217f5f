--------------------------- MODULE ProviderProofs ---------------------------
(***************************************************************************)
(* The login providers, for any number of accounts, identities, requests     *)
(* and tokens.  Links and tokens: refreshes of one provider account are      *)
(* serial and never present a spent token, tokens are held for linked        *)
(* identities only, the count of login methods is right, and what a request  *)
(* discards is dead or kept for a retry.  Clients: a login ends with its own *)
(* issuer's word, a proper token is never refused, and what is kept of a     *)
(* grant stays in step with the server.                                      *)
(***************************************************************************)
EXTENDS ProviderTokens, ProviderClients, FiniteSetTheorems, TLAPS

\* A record is empty, or has a version and a token.
VaultOK ==
  \A i \in Identities : vault[i] = Empty \/ (vault[i].version > 0 /\ vault[i].token \in Tokens)

LinksOK == Known \subseteq accounts /\ LinksAreAccountedFor

\* The request is inside the critical section of a refresh.
Within(q) ==
  q.work = "refresh" /\ q.pc \in {"holding", "calling", "answered", "refused", "deleting"}

\* What the progress of a request says of its locals.
ShapeOK(q) ==
  /\ q.lock # NoLock <=> q.pc \in {"waiting", "releasing"} \/ Within(q)
  /\ q.pc \in {"waiting", "holding", "calling", "answered", "refused", "releasing"} => q.work = "refresh"
  /\ q.pc \in {"access", "staging", "scheduling", "checking"} => q.work = "revoke"
  /\ q.pc # "idle" =>
       /\ q.identity \in Identities /\ q.token \in Tokens
       /\ q.version > 0 /\ q.version < MaxVersion /\ q.work \in {"refresh", "revoke"}
  /\ q.pc = "answered" => q.fresh \in Tokens

\* The requests that refer to a lock object
Referring(k) == {r \in Requests : req[r].lock = k}

\* A lock object serves one identity and stays its entry while a request refers
\* to it; who is inside the critical section holds it.
LocksOK ==
  /\ \A k \in Locks : locks[k].references = Cardinality(Referring(k))
  /\ \A r \in Requests : req[r].lock # NoLock => entries[req[r].identity] = req[r].lock
  /\ \A i, j \in Identities : entries[i] # NoLock /\ entries[i] = entries[j] => i = j
  /\ \A i \in Identities : entries[i] # NoLock => Referring(entries[i]) # {}
  /\ \A k \in Locks, r \in Requests :
       locks[k].holder = r <=> req[r].lock = k /\ Within(req[r])

\* The tokens a refresh is about to present, or was just given.
Carries(q, i, t) ==
  /\ q.work = "refresh" /\ q.identity = i
  /\ \/ q.pc \in {"calling", "answered"} /\ q.token = t
     \/ q.pc = "answered" /\ q.fresh = t

Has(i, t) == vault[i].token = t \/ \E r \in Requests : Carries(req[r], i, t)

\* A token is one identity's, and is not spent while it may still be presented.
TokensOK ==
  /\ \A i, j \in Identities, t \in Tokens : Has(i, t) /\ Has(j, t) => i = j
  /\ \A i \in Identities, t \in Tokens : Has(i, t) => upstream[t] # "unissued" /\ t \notin settled
  /\ \A t \in settled : upstream[t] # "unissued"
  /\ \A r \in Requests : req[r].pc \in {"calling", "answered"} /\ Stored(r).token = req[r].token
                         => Versioned(r)

ProviderInv ==
  /\ TypeOK /\ VaultOK /\ LinksOK /\ LocksOK /\ TokensOK
  /\ \A r \in Requests : ShapeOK(req[r])

-----------------------------------------------------------------------------
(* Requests and locks *)

LEMMA Local ==
  ASSUME ProviderInv, NEW r \in Requests
  PROVE  req[r] \in Progress /\ ShapeOK(req[r])
BY DEF ProviderInv, TypeOK

LEMMA IdleOK == Idle \in Progress /\ ShapeOK(Idle) /\ \A i, t : ~Carries(Idle, i, t)
BY ProviderAssumption DEF Idle, Progress, Versions, ShapeOK, Within, Carries

LEMMA SomeRequests ==
  ASSUME NEW S \in SUBSET Requests
  PROVE  IsFiniteSet(S) /\ Cardinality(S) \in 0..Cardinality(Requests)
<1>1. IsFiniteSet(Requests)
  BY ProviderAssumption
<1>. HIDE DEF Requests
<1>2. IsFiniteSet(S) /\ Cardinality(S) <= Cardinality(Requests)
  BY <1>1, FS_Subset
<1>. QED BY <1>1, <1>2, FS_CardinalityType

LEMMA ReferringFinite ==
  \A k : IsFiniteSet(Referring(k)) /\ Cardinality(Referring(k)) \in 0..Cardinality(Requests)
<1>1. \A k : Referring(k) \in SUBSET Requests
  BY DEF Referring
<1>. HIDE DEF Requests
<1>. QED BY <1>1, SomeRequests

\* There are as many lock objects as requests, so one that refers to none finds
\* one that nobody refers to.
LEMMA FreshLock ==
  ASSUME ProviderInv, NEW r \in Requests, req[r].lock = NoLock
  PROVE  \E k \in Locks : locks[k].references = 0
<1>. SUFFICES ASSUME \A k \in Locks : locks[k].references # 0 PROVE FALSE
  OBVIOUS
<1>1. \A k \in Locks : Referring(k) # {}
  BY FS_EmptySet, ReferringFinite DEF ProviderInv, LocksOK
<1>2. \A k \in Locks : Referring(k) \subseteq Requests \ {r}
  BY ProviderAssumption DEF Referring
<1>. DEFINE f == [k \in Locks |-> CHOOSE s \in Referring(k) : TRUE]
            others == Requests \ {r}
<1>3. \A k \in Locks : f[k] \in Referring(k)
  BY <1>1
<1>4. f \in [Locks -> others]
  BY <1>2, <1>3
<1>5. IsFiniteSet(Requests) /\ IsFiniteSet(Locks) /\ Cardinality(Locks) >= Cardinality(Requests)
  BY ProviderAssumption
<1>6. IsFiniteSet(others) /\ Cardinality(others) < Cardinality(Locks)
  <2>. HIDE DEF Requests
  <2>1. IsFiniteSet(others) /\ Cardinality(others) = Cardinality(Requests) - 1
    BY <1>5, FS_RemoveElement
  <2>. QED BY <1>5, <2>1, FS_CardinalityType
<1>. HIDE DEF f, others
<1>7. PICK x, y \in Locks : x # y /\ f[x] = f[y]
  BY <1>4, <1>5, <1>6, FS_PigeonHole
<1>. QED BY <1>3, <1>7 DEF Referring

\* A request that keeps its lock, or has none.
LEMMA LocksSame ==
  ASSUME ProviderInv, NEW r \in Requests, NEW p \in Progress, req' = [req EXCEPT ![r] = p],
         UNCHANGED coordination, p.lock = req[r].lock,
         p.lock # NoLock => p.identity = req[r].identity /\ (Within(p) <=> Within(req[r])),
         ShapeOK(p)
  PROVE  LocksOK'
<1>1. req \in [Requests -> Progress] /\ ShapeOK(req[r])
  BY DEF ProviderInv, TypeOK
<1>2. req'[r] = p /\ \A s \in Requests : s # r => req'[s] = req[s]
  BY <1>1
<1>3. \A s \in Requests : req'[s].lock = req[s].lock
  BY <1>2
<1>4. \A k : Referring(k)' = Referring(k)
  BY <1>3 DEF Referring
<1>5. Within(p) <=> Within(req[r])
  BY <1>1 DEF ShapeOK
<1>6. \A s \in Requests : Within(req'[s]) <=> Within(req[s])
  BY <1>2, <1>5
<1>7. \A s \in Requests : req'[s].lock # NoLock => req'[s].identity = req[s].identity
  BY <1>2
<1>. QED BY <1>3, <1>4, <1>6, <1>7 DEF ProviderInv, LocksOK, coordination

\* A request that leaves the critical section keeps its reference.
LEMMA LeaveLocks ==
  ASSUME ProviderInv, NEW r \in Requests, NEW p \in Progress, p = [req[r] EXCEPT !.pc = "releasing"],
         req' = [req EXCEPT ![r] = p], Within(req[r]),
         locks' = [locks EXCEPT ![req[r].lock].holder = NoOne], UNCHANGED entries
  PROVE  LocksOK' /\ locks' \in [Locks -> Locking] /\ ShapeOK(p)
<1>1. req \in [Requests -> Progress] /\ req[r] \in Progress /\ ShapeOK(req[r])
      /\ locks \in [Locks -> Locking]
  BY DEF ProviderInv, TypeOK
<1>2. req'[r] = p /\ \A s \in Requests : s # r => req'[s] = req[s]
  BY <1>1
<1>3. p.lock = req[r].lock /\ p.identity = req[r].identity /\ ~Within(p) /\ ShapeOK(p)
  BY <1>1 DEF Progress, Within, ShapeOK
<1>4. PICK k \in Locks : k = req[r].lock
  BY <1>1, <1>3 DEF ShapeOK, Progress
<1>5. locks[k].holder = r /\ r # NoOne
  BY <1>4, ProviderAssumption DEF ProviderInv, LocksOK
<1>6. \A m \in Locks : /\ locks'[m].references = locks[m].references
                       /\ m # k => locks'[m] = locks[m]
                       /\ locks'[k].holder = NoOne
  BY <1>1, <1>4 DEF Locking
<1>7. \A s \in Requests : req'[s].lock = req[s].lock /\ req'[s].identity = req[s].identity
  BY <1>2, <1>3
<1>8. \A m : Referring(m)' = Referring(m)
  BY <1>7 DEF Referring
<1>9. ASSUME NEW m \in Locks, NEW s \in Requests
      PROVE  locks'[m].holder = s <=> req'[s].lock = m /\ Within(req'[s])
  <2>1. s # NoOne
    BY ProviderAssumption
  <2>2. CASE s = r
    BY <1>2, <1>3, <1>4, <1>5, <1>6, <2>1, <2>2 DEF ProviderInv, LocksOK
  <2>3. CASE s # r
    BY <1>2, <1>4, <1>5, <1>6, <2>1, <2>3 DEF ProviderInv, LocksOK
  <2>. QED BY <2>2, <2>3
<1>10. locks' \in [Locks -> Locking]
  BY <1>1, <1>4 DEF Locking
<1>. QED BY <1>3, <1>6, <1>7, <1>8, <1>9, <1>10 DEF ProviderInv, LocksOK

-----------------------------------------------------------------------------
(* Tokens *)

\* What is unissued is nobody's and was never spent.
LEMMA Unissued ==
  ASSUME TokensOK, NEW t \in Tokens, upstream[t] = "unissued"
  PROVE  t \notin settled /\ \A i \in Identities : ~Has(i, t)
BY DEF TokensOK

\* A step that gives one identity at most one token, an unissued one.
LEMMA TokensMove ==
  ASSUME TokensOK, settled' = settled, NEW j \in Identities, NEW n \in Tokens \cup {NoToken},
         n \in Tokens => upstream[n] = "unissued" /\ upstream'[n] # "unissued",
         \A i \in Identities, t \in Tokens : Has(i, t)' => Has(i, t) \/ (i = j /\ t = n),
         \A t \in Tokens : upstream[t] # "unissued" => upstream'[t] # "unissued",
         settled \subseteq Tokens,
         \A r \in Requests : req'[r].pc \in {"calling", "answered"} /\ Stored(r)'.token = req'[r].token
                             => Versioned(r)'
  PROVE  TokensOK'
<1>1. \A i, k \in Identities, t \in Tokens : Has(i, t)' /\ Has(k, t)' => i = k
  BY Unissued DEF TokensOK
<1>2. \A i \in Identities, t \in Tokens : Has(i, t)' => upstream'[t] # "unissued" /\ t \notin settled'
  BY Unissued DEF TokensOK
<1>3. \A t \in settled' : upstream'[t] # "unissued"
  BY DEF TokensOK
<1>. QED BY <1>1, <1>2, <1>3 DEF TokensOK

\* A step of one request that leaves the accounts and the vault alone.
LEMMA RequestStep ==
  ASSUME ProviderInv, NEW r \in Requests, NEW p \in Progress, req' = [req EXCEPT ![r] = p],
         ShapeOK(p), UNCHANGED <<aggregate, vault, settled>>,
         retry' \in [Identities -> Tokens \cup {NoToken}],
         upstream' \in [Tokens -> {"unissued", "live", "rotated", "revoked"}],
         entries' \in [Identities -> Locks \cup {NoLock}], locks' \in [Locks -> Locking], LocksOK',
         \A t \in Tokens : upstream[t] # "unissued" => upstream'[t] # "unissued",
         NEW j \in Identities, NEW n \in Tokens \cup {NoToken},
         n \in Tokens => upstream[n] = "unissued" /\ upstream'[n] # "unissued",
         \A i \in Identities, t \in Tokens : Carries(p, i, t) => Has(i, t) \/ (i = j /\ t = n),
         p.pc \in {"calling", "answered"} /\ vault[p.identity].token = p.token
           => vault[p.identity].version = p.version
  PROVE  ProviderInv'
<1>1. req \in [Requests -> Progress]
  BY DEF ProviderInv, TypeOK
<1>2. req'[r] = p /\ \A s \in Requests : s # r => req'[s] = req[s]
  BY <1>1
<1>3. req' \in [Requests -> Progress] /\ \A s \in Requests : ShapeOK(req'[s])
  BY <1>1, <1>2 DEF ProviderInv
<1>4. TypeOK' /\ VaultOK'
  BY <1>3 DEF ProviderInv, TypeOK, aggregate, VaultOK
<1>5. LinksOK'
  BY DEF ProviderInv, LinksOK, LinksAreAccountedFor, TokensNeedALink, CountsMatchTheMethods, Ways,
         aggregate
<1>6. ASSUME NEW i \in Identities, NEW t \in Tokens, Has(i, t)'
      PROVE  Has(i, t) \/ (i = j /\ t = n)
  <2>1. vault[i].token = t \/ \E s \in Requests : Carries(req'[s], i, t)
    BY <1>6 DEF Has, Carries
  <2>2. ASSUME NEW s \in Requests, Carries(req'[s], i, t) PROVE Has(i, t) \/ (i = j /\ t = n)
    BY <1>2, <2>2 DEF Has
  <2>. QED BY <2>1, <2>2 DEF Has
<1>7. ASSUME NEW s \in Requests, req'[s].pc \in {"calling", "answered"},
             Stored(s)'.token = req'[s].token
      PROVE  Versioned(s)'
  <2>1. CASE s = r
    BY <1>2, <1>7, <2>1 DEF Stored, Versioned
  <2>2. CASE s # r
    BY <1>2, <1>7, <2>2 DEF Stored, Versioned, ProviderInv, TokensOK
  <2>. QED BY <2>1, <2>2
<1>8. TokensOK'
  BY <1>6, <1>7, TokensMove DEF ProviderInv, TypeOK
<1>. QED BY <1>3, <1>4, <1>5, <1>8 DEF ProviderInv

\* A step of the aggregate: one identity's record is replaced, discarded or kept.
LEMMA VaultStep ==
  ASSUME ProviderInv, NEW i \in Identities, UNCHANGED <<retry, coordination, req, settled>>,
         \/ RetainOrDiscard(i)
         \/ vault' = [vault EXCEPT ![i] = Empty] /\ UNCHANGED upstream
         \/ UNCHANGED <<vault, upstream>>
  PROVE  /\ vault' \in [Identities -> Records]
         /\ upstream' \in [Tokens -> {"unissued", "live", "rotated", "revoked"}]
         /\ \A j \in Identities \ {i} : vault'[j] = vault[j]
         /\ VaultOK' /\ TokensOK' /\ LocksOK' /\ \A r \in Requests : ShapeOK(req'[r])
<1>1. vault \in [Identities -> Records] /\ upstream \in [Tokens -> {"unissued", "live", "rotated", "revoked"}]
  BY DEF ProviderInv, TypeOK
<1>2. Empty \in Records /\ NoToken \notin Tokens /\ Empty.token = NoToken
  BY ProviderAssumption DEF Empty, Records, Versions
<1>3. PICK n \in Tokens \cup {NoToken} :
        /\ n \in Tokens => /\ upstream[n] = "unissued" /\ upstream' = [upstream EXCEPT ![n] = "live"]
                           /\ vault[i].version < MaxVersion
                           /\ vault' = [vault EXCEPT ![i] = [version |-> vault[i].version + 1, token |-> n]]
        /\ n \notin Tokens => UNCHANGED upstream
                              /\ (vault' = vault \/ vault' = [vault EXCEPT ![i] = Empty])
  <2>1. CASE RetainOrDiscard(i) /\ i \in Retained
    BY <1>1, <2>1 DEF RetainOrDiscard, Issues
  <2>2. CASE ~(RetainOrDiscard(i) /\ i \in Retained)
    BY <1>2, <2>2 DEF RetainOrDiscard
  <2>. QED BY <2>1, <2>2
<1>4. CASE n \in Tokens
  <2>1. PICK v \in Versions : v = vault[i].version
    BY <1>1 DEF Records
  <2>. DEFINE new == [version |-> v + 1, token |-> n]
  <2>2. new \in Records /\ v + 1 > 0
    BY <1>3, <1>4, <2>1, ProviderAssumption DEF Records, Versions
  <2>3. new.version = v + 1 /\ new.token = n
    OBVIOUS
  <2>4. vault' = [vault EXCEPT ![i] = new]
    BY <1>3, <1>4, <2>1
  <2>. HIDE DEF new
  <2>5. vault'[i] = new /\ \A j \in Identities \ {i} : vault'[j] = vault[j]
    BY <1>1, <2>4
  <2>6. vault' \in [Identities -> Records] /\ VaultOK'
    BY <1>1, <1>4, <2>2, <2>3, <2>4, <2>5 DEF ProviderInv, VaultOK
  <2>7. upstream' \in [Tokens -> {"unissued", "live", "rotated", "revoked"}]
        /\ upstream'[n] # "unissued"
        /\ \A t \in Tokens : upstream[t] # "unissued" => upstream'[t] # "unissued"
    BY <1>1, <1>3, <1>4
  <2>8. ASSUME NEW k \in Identities, NEW t \in Tokens, Has(k, t)'
        PROVE  Has(k, t) \/ (k = i /\ t = n)
    BY <2>3, <2>5, <2>8 DEF Has, Carries
  <2>9. ASSUME NEW s \in Requests, req'[s].pc \in {"calling", "answered"},
               Stored(s)'.token = req'[s].token
        PROVE  Versioned(s)'
    <3>1. ShapeOK(req[s]) /\ req'[s] = req[s]
      BY DEF ProviderInv
    <3>2. req[s].identity \in Identities /\ req[s].work = "refresh"
      BY <2>9, <3>1 DEF ShapeOK
    <3>3. Carries(req[s], req[s].identity, req[s].token)
      BY <2>9, <3>1, <3>2 DEF Carries
    <3>4. req[s].identity # i
      BY <1>3, <1>4, <2>3, <2>5, <2>9, <3>1, <3>2, <3>3, Unissued DEF Has, Stored, ProviderInv
    <3>. QED BY <2>5, <2>9, <3>1, <3>2, <3>4 DEF Stored, Versioned, ProviderInv, TokensOK
  <2>10. TokensOK'
    BY <1>3, <1>4, <2>7, <2>8, <2>9, TokensMove DEF ProviderInv, TypeOK
  <2>. QED BY <2>5, <2>6, <2>7, <2>10 DEF ProviderInv, LocksOK, Referring, coordination
<1>5. CASE n \notin Tokens
  <2>1. vault' \in [Identities -> Records] /\ \A j \in Identities \ {i} : vault'[j] = vault[j]
    BY <1>1, <1>2, <1>3, <1>5
  <2>2. VaultOK' /\ (vault'[i] = vault[i] \/ vault'[i] = Empty)
    BY <1>1, <1>2, <1>3, <1>5 DEF ProviderInv, VaultOK
  <2>3. ASSUME NEW k \in Identities, NEW t \in Tokens, Has(k, t)'
        PROVE  Has(k, t) \/ (k = i /\ t = n)
    BY <1>2, <2>1, <2>2, <2>3 DEF Has, Carries
  <2>4. ASSUME NEW s \in Requests, req'[s].pc \in {"calling", "answered"},
               Stored(s)'.token = req'[s].token
        PROVE  Versioned(s)'
    <3>1. ShapeOK(req[s]) /\ req'[s] = req[s]
      BY DEF ProviderInv
    <3>2. req[s].identity \in Identities /\ req[s].token \in Tokens
      BY <2>4, <3>1 DEF ShapeOK
    <3>. QED BY <1>2, <2>1, <2>2, <2>4, <3>1, <3>2 DEF Stored, Versioned, ProviderInv, TokensOK
  <2>5. TokensOK'
    BY <1>3, <1>5, <2>3, <2>4, TokensMove DEF ProviderInv, TypeOK
  <2>. QED BY <1>1, <1>3, <1>5, <2>1, <2>2, <2>5 DEF ProviderInv, LocksOK, Referring, coordination
<1>. QED BY <1>4, <1>5

-----------------------------------------------------------------------------
(* Accounts, links and the count of login methods *)

HeldBy(a) == {i \in Identities : links[i] = a}

LEMMA WaysOfHeldBy ==
  /\ \A a : IsFiniteSet(HeldBy(a)) /\ Cardinality(HeldBy(a)) \in Nat
  /\ \A a \in Accounts : Ways(a) = (IF a \in Known THEN Locals[a] ELSE 0) + Cardinality(HeldBy(a))
                         /\ Ways(a) \in Nat
<1>1. \A a : HeldBy(a) \subseteq Identities /\ IsFiniteSet(Identities)
  BY ProviderAssumption DEF HeldBy
<1>2. \A a : IsFiniteSet(HeldBy(a))
  BY <1>1, FS_Subset
<1>3. \A a : Cardinality(HeldBy(a)) \in Nat
  BY <1>2, FS_CardinalityType
<1>4. \A a \in Known : Locals[a] \in Nat
  BY ProviderAssumption
<1>5. \A a \in Accounts : Ways(a) = (IF a \in Known THEN Locals[a] ELSE 0) + Cardinality(HeldBy(a))
  BY DEF Ways, HeldBy
<1>. HIDE DEF HeldBy
<1>. QED BY <1>2, <1>3, <1>4, <1>5

\* A new link is one more way to log in for its account, and for no other.
LEMMA Linked ==
  ASSUME NEW i \in Identities, NEW a \in Accounts, links \in [Identities -> Accounts \cup {NoOne}],
         links[i] = NoOne, links' = [links EXCEPT ![i] = a]
  PROVE  \A b \in Accounts : Ways(b)' = IF b = a THEN Ways(b) + 1 ELSE Ways(b)
<1>1. HeldBy(a)' = HeldBy(a) \cup {i} /\ i \notin HeldBy(a)
  BY ProviderAssumption DEF HeldBy
<1>2. \A b \in Accounts \ {a} : HeldBy(b)' = HeldBy(b)
  BY ProviderAssumption DEF HeldBy
<1>3. Cardinality(HeldBy(a))' = Cardinality(HeldBy(a)) + 1
  <2>1. IsFiniteSet(HeldBy(a))
    BY WaysOfHeldBy
  <2>2. Cardinality(HeldBy(a) \cup {i}) = Cardinality(HeldBy(a)) + 1
    <3>. HIDE DEF HeldBy
    <3>. QED BY <1>1, <2>1, FS_AddElement
  <2>. QED BY <1>1, <2>2
<1>4. \A b \in Accounts : Ways(b)' = (IF b \in Known THEN Locals[b] ELSE 0) + Cardinality(HeldBy(b)')
  BY DEF Ways, HeldBy
<1>5. \A b \in Known : Locals[b] \in Nat
  BY ProviderAssumption
<1>. HIDE DEF HeldBy
<1>. QED BY <1>2, <1>3, <1>4, <1>5, WaysOfHeldBy

LEMMA Unlinked ==
  ASSUME NEW i \in Identities, NEW a \in Accounts, links \in [Identities -> Accounts \cup {NoOne}],
         links[i] = a, links' = [links EXCEPT ![i] = NoOne]
  PROVE  \A b \in Accounts : Ways(b)' = IF b = a THEN Ways(b) - 1 ELSE Ways(b)
<1>1. HeldBy(a)' = HeldBy(a) \ {i} /\ i \in HeldBy(a)
  BY ProviderAssumption DEF HeldBy
<1>2. \A b \in Accounts \ {a} : HeldBy(b)' = HeldBy(b)
  BY ProviderAssumption DEF HeldBy
<1>3. Cardinality(HeldBy(a))' = Cardinality(HeldBy(a)) - 1
  <2>1. IsFiniteSet(HeldBy(a))
    BY WaysOfHeldBy
  <2>2. Cardinality(HeldBy(a) \ {i}) = Cardinality(HeldBy(a)) - 1
    <3>. HIDE DEF HeldBy
    <3>. QED BY <1>1, <2>1, FS_RemoveElement
  <2>. QED BY <1>1, <2>2
<1>4. \A b \in Accounts : Ways(b)' = (IF b \in Known THEN Locals[b] ELSE 0) + Cardinality(HeldBy(b)')
  BY DEF Ways, HeldBy
<1>5. \A b \in Known : Locals[b] \in Nat
  BY ProviderAssumption
<1>. HIDE DEF HeldBy
<1>. QED BY <1>2, <1>3, <1>4, <1>5, WaysOfHeldBy

LEMMA LinksTyped ==
  ASSUME TypeOK
  PROVE  links \in [Identities -> Accounts \cup {NoOne}] /\ methods \in [Accounts -> Nat]
         /\ accounts \subseteq Accounts
BY DEF TypeOK

\* What is left of an aggregate step once its records are accounted for.
LEMMA AggregateStep ==
  ASSUME ProviderInv, NEW i \in Identities, UNCHANGED <<retry, coordination, req, settled>>,
         \/ RetainOrDiscard(i)
         \/ vault' = [vault EXCEPT ![i] = Empty] /\ UNCHANGED upstream
         \/ UNCHANGED <<vault, upstream>>,
         accounts' \subseteq Accounts, accounts \subseteq accounts',
         links' \in [Identities -> accounts' \cup {NoOne}], methods' \in [Accounts -> Nat],
         \A j \in Identities \ {i} : links'[j] = links[j],
         links'[i] = NoOne => vault'[i] = Empty,
         \A b \in Accounts : methods'[b] = Ways(b)'
  PROVE  ProviderInv'
<1>1. /\ vault' \in [Identities -> Records]
      /\ upstream' \in [Tokens -> {"unissued", "live", "rotated", "revoked"}]
      /\ \A j \in Identities \ {i} : vault'[j] = vault[j]
      /\ VaultOK' /\ TokensOK' /\ LocksOK' /\ \A r \in Requests : ShapeOK(req'[r])
  BY VaultStep
<1>2. TypeOK'
  BY <1>1 DEF ProviderInv, TypeOK, coordination
<1>3. LinksOK'
  BY <1>1 DEF ProviderInv, LinksOK, LinksAreAccountedFor, TokensNeedALink, CountsMatchTheMethods
<1>. QED BY <1>1, <1>2, <1>3 DEF ProviderInv

\* Under a step that changes no link and no count, nothing of the accounts moves.
LEMMA SameLinks ==
  ASSUME ProviderInv, UNCHANGED aggregate
  PROVE  /\ accounts' \subseteq Accounts /\ links' \in [Identities -> accounts' \cup {NoOne}]
         /\ methods' \in [Accounts -> Nat] /\ \A b \in Accounts : methods'[b] = Ways(b)'
         /\ \A b \in Accounts : Ways(b)' = Ways(b)
BY DEF ProviderInv, TypeOK, LinksOK, LinksAreAccountedFor, CountsMatchTheMethods, Ways, aggregate

\* An action of the aggregate keeps the invariant, and no account with a way to
\* log in loses its last one.
LEMMA AggregateNext ==
  ASSUME ProviderInv, Aggregate
  PROVE  ProviderInv' /\ \A a \in accounts : Ways(a) > 0 => Ways(a)' > 0
<1>1. /\ links \in [Identities -> accounts \cup {NoOne}] /\ methods \in [Accounts -> Nat]
      /\ accounts \subseteq Accounts /\ TypeOK /\ Known \subseteq accounts
      /\ \A b \in Accounts : methods[b] = Ways(b)
      /\ \A i \in Identities : vault[i] # Empty => links[i] # NoOne
  BY DEF ProviderInv, TypeOK, LinksOK, LinksAreAccountedFor, CountsMatchTheMethods, TokensNeedALink
<1>2. links \in [Identities -> Accounts \cup {NoOne}]
  BY <1>1
<1>3. \A b \in Accounts : Ways(b) \in Nat
  BY WaysOfHeldBy
<1>4. PICK i \in Identities :
        login(i) \/ \E a \in Accounts : provision(i, a) \/ link(a, i) \/ upgrade(a, i) \/ unlink(a, i)
  BY DEF Aggregate
<1>5. ASSUME UNCHANGED aggregate, RetainOrDiscard(i), links[i] # NoOne,
             UNCHANGED <<retry, coordination, req, settled>>
      PROVE  ProviderInv' /\ \A a \in accounts : Ways(a) > 0 => Ways(a)' > 0
  <2>1. ProviderInv'
    BY <1>1, <1>5, SameLinks, AggregateStep DEF aggregate
  <2>. QED BY <1>1, <1>5, <2>1, SameLinks
<1>6. CASE login(i)
  BY <1>5, <1>6 DEF login
<1>7. ASSUME NEW a \in Accounts, provision(i, a)
      PROVE  ProviderInv' /\ \A b \in accounts : Ways(b) > 0 => Ways(b)' > 0
  <2>1. CASE Rollback(i, a)
    <3>1. UNCHANGED <<aggregate, vault, upstream, retry, coordination, req, settled>>
      BY <1>7, <2>1 DEF provision, Rollback, aggregate
    <3>2. links[i] = NoOne => vault[i] = Empty
      BY <1>1
    <3>3. ProviderInv'
      BY <1>1, <3>1, <3>2, SameLinks, AggregateStep DEF aggregate
    <3>. QED BY <1>1, <3>1, <3>3, SameLinks
  <2>2. CASE ~Rollback(i, a)
    <3>1. /\ links[i] = NoOne /\ a \notin accounts /\ accounts' = accounts \cup {a}
          /\ links' = [links EXCEPT ![i] = a] /\ methods' = [methods EXCEPT ![a] = 1]
          /\ RetainOrDiscard(i) \/ UNCHANGED <<vault, upstream>>
          /\ UNCHANGED <<retry, coordination, req, settled>>
      BY <1>7, <2>2 DEF provision
    <3>2. \A b \in Accounts : Ways(b)' = IF b = a THEN Ways(b) + 1 ELSE Ways(b)
      BY <1>2, <3>1, Linked
    <3>3. Ways(a) = 0
      <4>1. a \notin Known /\ HeldBy(a) = {}
        BY <1>1, <3>1, ProviderAssumption DEF HeldBy
      <4>. HIDE DEF HeldBy
      <4>. QED BY <4>1, WaysOfHeldBy, FS_EmptySet
    <3>4. /\ accounts' \subseteq Accounts /\ links' \in [Identities -> accounts' \cup {NoOne}]
          /\ methods' \in [Accounts -> Nat] /\ \A b \in Accounts : methods'[b] = Ways(b)'
          /\ links'[i] # NoOne
      BY <1>1, <3>1, <3>2, <3>3, ProviderAssumption
    <3>5. \A j \in Identities \ {i} : links'[j] = links[j]
      BY <1>1, <3>1
    <3>6. ProviderInv'
      BY <3>1, <3>4, <3>5, AggregateStep
    <3>. QED BY <1>1, <1>3, <3>2, <3>6
  <2>. QED BY <2>1, <2>2
<1>8. ASSUME NEW a \in Accounts, link(a, i)
      PROVE  ProviderInv' /\ \A b \in accounts : Ways(b) > 0 => Ways(b)' > 0
  <2>1. /\ a \in accounts /\ RetainOrDiscard(i) /\ links' = [links EXCEPT ![i] = a]
        /\ links[i] = a \/ links[i] = NoOne
        /\ UNCHANGED <<accounts, retry, coordination, req, settled>>
        /\ methods' = IF links[i] = NoOne THEN [methods EXCEPT ![a] = @ + 1] ELSE methods
    BY <1>8 DEF link, MayLink, Count
  <2>2. a # NoOne
    BY ProviderAssumption
  <2>3. CASE links[i] = a
    <3>1. links' = links /\ methods' = methods
      BY <1>1, <2>1, <2>2, <2>3
    <3>. QED BY <1>5, <2>1, <2>2, <2>3, <3>1 DEF aggregate
  <2>4. CASE links[i] = NoOne
    <3>1. \A b \in Accounts : Ways(b)' = IF b = a THEN Ways(b) + 1 ELSE Ways(b)
      BY <1>2, <2>1, <2>4, Linked
    <3>2. methods' = [methods EXCEPT ![a] = methods[a] + 1]
      BY <2>1, <2>4
    <3>3. /\ accounts' \subseteq Accounts /\ links' \in [Identities -> accounts' \cup {NoOne}]
          /\ methods' \in [Accounts -> Nat] /\ \A b \in Accounts : methods'[b] = Ways(b)'
          /\ links'[i] # NoOne /\ \A j \in Identities \ {i} : links'[j] = links[j]
      BY <1>1, <2>1, <2>2, <3>1, <3>2
    <3>4. ProviderInv'
      BY <2>1, <3>3, AggregateStep
    <3>. QED BY <1>1, <1>3, <3>1, <3>4
  <2>. QED BY <2>1, <2>3, <2>4
<1>9. ASSUME NEW a \in Accounts, upgrade(a, i)
      PROVE  ProviderInv' /\ \A b \in accounts : Ways(b) > 0 => Ways(b)' > 0
  BY <1>5, <1>9, ProviderAssumption DEF upgrade
<1>10. ASSUME NEW a \in Accounts, unlink(a, i)
       PROVE  ProviderInv' /\ \A b \in accounts : Ways(b) > 0 => Ways(b)' > 0
  <2>1. /\ links[i] = a /\ methods[a] > 1 /\ vault' = [vault EXCEPT ![i] = Empty]
        /\ links' = [links EXCEPT ![i] = NoOne] /\ methods' = [methods EXCEPT ![a] = methods[a] - 1]
        /\ UNCHANGED <<accounts, retry, upstream, coordination, req, settled>>
    BY <1>10 DEF unlink
  <2>2. \A b \in Accounts : Ways(b)' = IF b = a THEN Ways(b) - 1 ELSE Ways(b)
    BY <1>2, <2>1, Unlinked
  <2>3. /\ accounts' \subseteq Accounts /\ links' \in [Identities -> accounts' \cup {NoOne}]
        /\ methods' \in [Accounts -> Nat] /\ \A b \in Accounts : methods'[b] = Ways(b)'
        /\ \A j \in Identities \ {i} : links'[j] = links[j]
    BY <1>1, <2>1, <2>2
  <2>4. vault'[i] = Empty
    BY <1>1, <2>1 DEF TypeOK
  <2>5. ProviderInv'
    BY <2>1, <2>3, <2>4, AggregateStep
  <2>. QED BY <1>1, <1>3, <2>1, <2>2, <2>5
<1>. QED BY <1>4, <1>6, <1>7, <1>8, <1>9, <1>10

-----------------------------------------------------------------------------
(* The refresh lock *)

\* A request that takes a reference finds its identity's lock object, or makes
\* the one nobody refers to the identity's.
LEMMA AcquireLocks ==
  ASSUME ProviderInv, NEW r \in Requests, acquire(r)
  PROVE  /\ LocksOK' /\ locks' \in [Locks -> Locking]
         /\ entries' \in [Identities -> Locks \cup {NoLock}]
         /\ \E p \in Progress : /\ ShapeOK(p) /\ req' = [req EXCEPT ![r] = p] /\ p.pc = "waiting"
<1>1. req \in [Requests -> Progress] /\ req[r] \in Progress /\ ShapeOK(req[r])
      /\ locks \in [Locks -> Locking] /\ entries \in [Identities -> Locks \cup {NoLock}]
  BY DEF ProviderInv, TypeOK
<1>2. req[r].pc = "observed" /\ req[r].work = "refresh" /\ req[r].lock = NoLock
      /\ req[r].identity \in Identities
  BY <1>1 DEF acquire, At, ShapeOK, Within
<1>3. PICK i \in Identities : i = req[r].identity
  BY <1>2
<1>4. PICK k : k = Entry(i)
  OBVIOUS
<1>5. k \in Locks /\ (entries[i] = k \/ (entries[i] = NoLock /\ locks[k].references = 0))
  <2>1. \E m \in Locks : locks[m].references = 0
    BY <1>2, FreshLock
  <2>. QED BY <1>1, <1>4, <2>1 DEF Entry
<1>6. k # NoLock
  BY <1>5, ProviderAssumption
<1>7. /\ entries' = [entries EXCEPT ![i] = k]
      /\ locks' = [locks EXCEPT ![k].references = @ + 1]
      /\ req' = [req EXCEPT ![r].pc = "waiting", ![r].lock = k]
  BY <1>3, <1>4 DEF acquire
<1>8. PICK p : p = [req[r] EXCEPT !.pc = "waiting", !.lock = k]
  OBVIOUS
<1>9. p \in Progress /\ ShapeOK(p) /\ p.pc = "waiting" /\ p.lock = k /\ p.identity = i /\ ~Within(p)
  BY <1>1, <1>2, <1>3, <1>5, <1>6, <1>8 DEF Progress, ShapeOK, Within
<1>10. req' = [req EXCEPT ![r] = p]
  BY <1>1, <1>7, <1>8 DEF Progress
<1>11. req'[r] = p /\ \A s \in Requests \ {r} : req'[s] = req[s]
  BY <1>1, <1>10
<1>12. Referring(k)' = Referring(k) \cup {r} /\ r \notin Referring(k)
       /\ \A m \in Locks \ {k} : Referring(m)' = Referring(m)
  BY <1>2, <1>6, <1>9, <1>11, ProviderAssumption DEF Referring
<1>13. locks[k].references = Cardinality(Referring(k)) /\ IsFiniteSet(Referring(k))
       /\ locks[k].references \in Nat
  BY <1>5, ReferringFinite DEF ProviderInv, LocksOK
<1>14. Cardinality(Referring(k)') = locks[k].references + 1
       /\ locks[k].references + 1 \in 0..Cardinality(Requests)
  <2>1. PICK S \in SUBSET Requests : S = Referring(k)
    BY DEF Referring
  <2>2. Cardinality(S \cup {r}) = Cardinality(S) + 1
    BY <1>12, <1>13, <2>1, FS_AddElement
  <2>3. S \cup {r} \in SUBSET Requests
    OBVIOUS
  <2>. HIDE DEF Requests
  <2>4. Cardinality(S \cup {r}) \in 0..Cardinality(Requests)
    BY <2>3, SomeRequests
  <2>. QED BY <1>12, <1>13, <2>1, <2>2, <2>4
<1>15. /\ locks'[k].references = locks[k].references + 1 /\ locks'[k].holder = locks[k].holder
       /\ \A m \in Locks \ {k} : locks'[m] = locks[m]
       /\ locks' \in [Locks -> Locking]
  BY <1>1, <1>5, <1>7, <1>14 DEF Locking
<1>16. entries' \in [Identities -> Locks \cup {NoLock}] /\ entries'[i] = k
       /\ \A j \in Identities \ {i} : entries'[j] = entries[j]
  BY <1>1, <1>5, <1>7
<1>17. \A m \in Locks : locks'[m].references = Cardinality(Referring(m)')
  <2>1. locks'[k].references = Cardinality(Referring(k)')
    BY <1>14, <1>15
  <2>2. ASSUME NEW m \in Locks \ {k}
        PROVE  locks'[m].references = Cardinality(Referring(m)')
    <3>1. Referring(m)' = Referring(m) /\ locks'[m] = locks[m]
      BY <1>12, <1>15
    <3>. QED BY <3>1 DEF ProviderInv, LocksOK
  <2>. QED BY <2>1, <2>2
<1>18. ASSUME NEW s \in Requests, req'[s].lock # NoLock
       PROVE  entries'[req'[s].identity] = req'[s].lock
  <2>1. CASE s = r
    BY <1>9, <1>11, <1>16, <2>1
  <2>2. CASE s # r
    <3>1. req'[s] = req[s] /\ ShapeOK(req[s]) /\ entries[req[s].identity] = req[s].lock
      BY <1>11, <1>18, <2>2 DEF ProviderInv, LocksOK
    <3>2. req[s].identity \in Identities
      BY <1>18, <3>1 DEF ShapeOK, Within
    <3>. QED BY <1>5, <1>16, <1>18, <3>1, <3>2
  <2>. QED BY <2>1, <2>2
<1>19. \A j \in Identities \ {i} : entries[j] # k
  <2>1. CASE entries[i] = k
    BY <1>6, <2>1 DEF ProviderInv, LocksOK
  <2>2. CASE locks[k].references = 0
    <3>1. Referring(k) = {}
      BY <1>13, <2>2, FS_EmptySet
    <3>. QED BY <1>6, <3>1 DEF ProviderInv, LocksOK
  <2>. QED BY <1>5, <2>1, <2>2
<1>20. \A j, l \in Identities : entries'[j] # NoLock /\ entries'[j] = entries'[l] => j = l
  BY <1>16, <1>19 DEF ProviderInv, LocksOK
<1>21. \A j \in Identities : entries'[j] # NoLock => Referring(entries[j])' # {}
  <2>1. Referring(entries[i])' # {}
    BY <1>12, <1>16 DEF Referring
  <2>2. ASSUME NEW j \in Identities \ {i}, entries'[j] # NoLock
        PROVE  Referring(entries[j])' # {}
    <3>1. entries[j] \in Locks \ {k} /\ entries'[j] = entries[j]
      BY <1>1, <1>16, <1>19, <2>2
    <3>2. Referring(entries[j])' = Referring(entries[j])
      BY <1>12, <3>1 DEF Referring
    <3>. QED BY <2>2, <3>1, <3>2 DEF ProviderInv, LocksOK
  <2>. QED BY <2>1, <2>2
<1>22. ASSUME NEW m \in Locks, NEW s \in Requests
       PROVE  locks'[m].holder = s <=> req'[s].lock = m /\ Within(req'[s])
  <2>1. locks'[m].holder = locks[m].holder
    BY <1>15
  <2>2. CASE s = r
    BY <1>2, <1>9, <1>11, <2>1, <2>2 DEF ProviderInv, LocksOK, Within
  <2>3. CASE s # r
    BY <1>11, <2>1, <2>3 DEF ProviderInv, LocksOK
  <2>. QED BY <2>2, <2>3
<1>. QED BY <1>9, <1>10, <1>15, <1>16, <1>17, <1>18, <1>20, <1>21, <1>22 DEF LocksOK

\* A request enters only when nobody holds the lock.
LEMMA EnterLocks ==
  ASSUME ProviderInv, NEW r \in Requests, enter(r)
  PROVE  /\ LocksOK' /\ locks' \in [Locks -> Locking]
         /\ \E p \in Progress : ShapeOK(p) /\ req' = [req EXCEPT ![r] = p] /\ p.pc = "holding"
<1>1. req \in [Requests -> Progress] /\ req[r] \in Progress /\ ShapeOK(req[r])
      /\ locks \in [Locks -> Locking]
  BY DEF ProviderInv, TypeOK
<1>2. req[r].pc = "waiting" /\ req[r].work = "refresh" /\ req[r].lock # NoLock
  BY <1>1 DEF enter, Moves, At, ShapeOK
<1>3. PICK k \in Locks : k = req[r].lock
  BY <1>1, <1>2 DEF Progress
<1>4. locks[k].holder = NoOne /\ locks' = [locks EXCEPT ![k].holder = r] /\ UNCHANGED entries
  BY <1>3 DEF enter
<1>5. PICK p : p = [req[r] EXCEPT !.pc = "holding"]
  OBVIOUS
<1>6. p \in Progress /\ p.pc = "holding" /\ p.lock = k /\ p.identity = req[r].identity
      /\ p.work = "refresh" /\ Within(p)
  BY <1>1, <1>2, <1>3, <1>5 DEF Progress, Within
<1>7. ShapeOK(p)
  BY <1>1, <1>2, <1>3, <1>5, <1>6, ProviderAssumption DEF ShapeOK, Progress
<1>8. req' = [req EXCEPT ![r] = p]
  BY <1>1, <1>5 DEF enter, Moves
<1>9. req'[r] = p /\ \A s \in Requests \ {r} : req'[s] = req[s]
  BY <1>1, <1>8
<1>10. \A s \in Requests : req'[s].lock = req[s].lock /\ req'[s].identity = req[s].identity
  BY <1>3, <1>6, <1>9
<1>11. \A m : Referring(m)' = Referring(m)
  BY <1>10 DEF Referring
<1>12. /\ locks'[k].references = locks[k].references /\ locks'[k].holder = r
       /\ \A m \in Locks \ {k} : locks'[m] = locks[m]
       /\ locks' \in [Locks -> Locking]
  BY <1>1, <1>3, <1>4 DEF Locking
<1>13. ASSUME NEW m \in Locks, NEW s \in Requests
       PROVE  locks'[m].holder = s <=> req'[s].lock = m /\ Within(req'[s])
  <2>1. CASE s = r
    <3>1. m # k => locks[m].holder # r
      BY <1>3 DEF ProviderInv, LocksOK
    <3>. QED BY <1>6, <1>9, <1>12, <2>1, <3>1
  <2>2. CASE s # r
    <3>1. s # NoOne /\ req'[s] = req[s]
      BY <1>9, <2>2, ProviderAssumption
    <3>. QED BY <1>4, <1>12, <2>2, <3>1 DEF ProviderInv, LocksOK
  <2>. QED BY <2>1, <2>2
<1>14. \A m \in Locks : locks'[m].references = locks[m].references
  BY <1>12
<1>15. UNCHANGED entries
  BY <1>4
<1>16. LocksOK'
  BY <1>10, <1>11, <1>13, <1>14, <1>15 DEF ProviderInv, LocksOK
<1>. QED BY <1>6, <1>7, <1>8, <1>12, <1>16

\* The last request that refers to a lock object takes the entry away with it.
LEMMA ReleaseLocks ==
  ASSUME ProviderInv, NEW r \in Requests, release(r)
  PROVE  /\ LocksOK' /\ locks' \in [Locks -> Locking]
         /\ entries' \in [Identities -> Locks \cup {NoLock}]
         /\ req[r].identity \in Identities
<1>1. req \in [Requests -> Progress] /\ req[r] \in Progress /\ ShapeOK(req[r])
      /\ locks \in [Locks -> Locking] /\ entries \in [Identities -> Locks \cup {NoLock}]
  BY DEF ProviderInv, TypeOK
<1>2. req[r].pc = "releasing" /\ req[r].lock # NoLock /\ req[r].identity \in Identities
  BY <1>1 DEF release, At, ShapeOK
<1>3. PICK i \in Identities : i = req[r].identity
  BY <1>2
<1>4. PICK k \in Locks : k = req[r].lock
  BY <1>1, <1>2 DEF Progress
<1>5. entries[i] = k /\ k # NoLock
  BY <1>2, <1>3, <1>4 DEF ProviderInv, LocksOK
<1>6. /\ locks' = [locks EXCEPT ![k].references = @ - 1]
      /\ entries' = [entries EXCEPT ![i] = IF locks[k].references = 1 THEN NoLock ELSE entries[i]]
      /\ req' = [req EXCEPT ![r] = Idle]
  BY <1>3, <1>4, <1>5 DEF release
<1>7. req'[r] = Idle /\ Idle.lock = NoLock /\ ~Within(Idle) /\ \A s \in Requests \ {r} : req'[s] = req[s]
  BY <1>1, <1>6 DEF Idle, Within
<1>8. Referring(k)' = Referring(k) \ {r} /\ r \in Referring(k)
      /\ \A m \in Locks \ {k} : Referring(m)' = Referring(m)
  BY <1>4, <1>7, ProviderAssumption DEF Referring
<1>9. locks[k].references = Cardinality(Referring(k)) /\ IsFiniteSet(Referring(k))
      /\ locks[k].references \in 0..Cardinality(Requests)
  BY ReferringFinite DEF ProviderInv, LocksOK
<1>10. Cardinality(Referring(k)') = locks[k].references - 1 /\ IsFiniteSet(Referring(k)')
       /\ locks[k].references - 1 \in 0..Cardinality(Requests)
  <2>1. PICK S : S = Referring(k)
    OBVIOUS
  <2>2. IsFiniteSet(S \ {r}) /\ Cardinality(S \ {r}) = Cardinality(S) - 1
    BY <1>8, <1>9, <2>1, FS_RemoveElement
  <2>3. Cardinality(S \ {r}) \in Nat
    BY <2>2, FS_CardinalityType
  <2>4. Cardinality(Requests) \in Nat
    BY ProviderAssumption, FS_CardinalityType
  <2>. QED BY <1>8, <1>9, <2>1, <2>2, <2>3, <2>4
<1>11. /\ locks'[k].references = locks[k].references - 1 /\ locks'[k].holder = locks[k].holder
       /\ \A m \in Locks \ {k} : locks'[m] = locks[m]
       /\ locks' \in [Locks -> Locking]
  BY <1>1, <1>6, <1>10 DEF Locking
<1>12. entries' \in [Identities -> Locks \cup {NoLock}]
       /\ entries'[i] = (IF locks[k].references = 1 THEN NoLock ELSE k)
       /\ \A j \in Identities \ {i} : entries'[j] = entries[j]
  BY <1>1, <1>5, <1>6
<1>13. \A m \in Locks : locks'[m].references = Cardinality(Referring(m)')
  <2>1. locks'[k].references = Cardinality(Referring(k)')
    BY <1>10, <1>11
  <2>2. ASSUME NEW m \in Locks \ {k}
        PROVE  locks'[m].references = Cardinality(Referring(m)')
    <3>1. Referring(m)' = Referring(m) /\ locks'[m] = locks[m]
      BY <1>8, <1>11
    <3>. QED BY <3>1 DEF ProviderInv, LocksOK
  <2>. QED BY <2>1, <2>2
<1>14. locks[k].references = 1 <=> Referring(k)' = {}
  BY <1>9, <1>10, FS_EmptySet
<1>15. ASSUME NEW s \in Requests, req'[s].lock # NoLock
       PROVE  entries'[req'[s].identity] = req'[s].lock
  <2>1. s # r /\ req'[s] = req[s] /\ entries[req[s].identity] = req[s].lock /\ ShapeOK(req[s])
    BY <1>7, <1>15 DEF ProviderInv, LocksOK
  <2>2. req[s].identity \in Identities
    BY <1>15, <2>1 DEF ShapeOK, Within
  <2>3. CASE req[s].identity = i
    <3>1. s \in Referring(k)'
      BY <1>5, <2>1, <2>3 DEF Referring
    <3>. QED BY <1>5, <1>12, <1>14, <2>1, <2>3, <3>1
  <2>4. CASE req[s].identity # i
    BY <1>12, <2>1, <2>2, <2>4
  <2>. QED BY <2>3, <2>4
<1>16. \A j \in Identities \ {i} : entries[j] # k
  BY <1>5 DEF ProviderInv, LocksOK
<1>17. \A j, l \in Identities : entries'[j] # NoLock /\ entries'[j] = entries'[l] => j = l
  BY <1>12, <1>16 DEF ProviderInv, LocksOK
<1>18. \A j \in Identities : entries'[j] # NoLock => Referring(entries[j])' # {}
  <2>1. entries'[i] # NoLock => Referring(entries[i])' # {}
    BY <1>12, <1>14 DEF Referring
  <2>2. ASSUME NEW j \in Identities \ {i}, entries'[j] # NoLock
        PROVE  Referring(entries[j])' # {}
    <3>1. entries[j] \in Locks \ {k} /\ entries'[j] = entries[j]
      BY <1>1, <1>12, <1>16, <2>2
    <3>2. Referring(entries[j])' = Referring(entries[j])
      BY <1>8, <3>1 DEF Referring
    <3>. QED BY <2>2, <3>1, <3>2 DEF ProviderInv, LocksOK
  <2>. QED BY <2>1, <2>2
<1>19. ASSUME NEW m \in Locks, NEW s \in Requests
       PROVE  locks'[m].holder = s <=> req'[s].lock = m /\ Within(req'[s])
  <2>1. locks'[m].holder = locks[m].holder
    BY <1>11
  <2>2. CASE s = r
    BY <1>2, <1>7, <2>1, <2>2 DEF ProviderInv, LocksOK, Within
  <2>3. CASE s # r
    BY <1>7, <2>1, <2>3 DEF ProviderInv, LocksOK
  <2>. QED BY <2>2, <2>3
<1>. QED BY <1>2, <1>11, <1>12, <1>13, <1>15, <1>17, <1>18, <1>19 DEF LocksOK

-----------------------------------------------------------------------------
(* Requests, action by action *)

\* A request that keeps its lock, or has none, and carries nothing new but n.
LEMMA QuietStep ==
  ASSUME ProviderInv, NEW r \in Requests, NEW p \in Progress, req' = [req EXCEPT ![r] = p],
         ShapeOK(p), UNCHANGED <<aggregate, vault, coordination, settled>>,
         retry' \in [Identities -> Tokens \cup {NoToken}],
         upstream' \in [Tokens -> {"unissued", "live", "rotated", "revoked"}],
         \A t \in Tokens : upstream[t] # "unissued" => upstream'[t] # "unissued",
         p.lock = req[r].lock,
         p.lock # NoLock => p.identity = req[r].identity /\ (Within(p) <=> Within(req[r])),
         NEW j \in Identities, NEW n \in Tokens \cup {NoToken},
         n \in Tokens => upstream[n] = "unissued" /\ upstream'[n] # "unissued",
         \A i \in Identities, t \in Tokens : Carries(p, i, t) => Has(i, t) \/ (i = j /\ t = n),
         p.pc \in {"calling", "answered"} /\ vault[p.identity].token = p.token
           => vault[p.identity].version = p.version
  PROVE  ProviderInv'
<1>1. LocksOK'
  BY LocksSame
<1>2. entries' \in [Identities -> Locks \cup {NoLock}] /\ locks' \in [Locks -> Locking]
  BY DEF ProviderInv, TypeOK, coordination
<1>. QED BY <1>1, <1>2, RequestStep

\* A request that neither calls nor has its answer carries nothing.
LEMMA CarriesNothing ==
  ASSUME NEW p, p.pc \notin {"calling", "answered"}
  PROVE  \A i, t : ~Carries(p, i, t)
BY DEF Carries

\* A request that only moves on, to a point where it carries nothing.
LEMMA SilentStep ==
  ASSUME ProviderInv, NEW r \in Requests, NEW p \in Progress, req' = [req EXCEPT ![r] = p],
         ShapeOK(p), UNCHANGED <<aggregate, vault, coordination, settled>>,
         retry' \in [Identities -> Tokens \cup {NoToken}],
         upstream' \in [Tokens -> {"unissued", "live", "rotated", "revoked"}],
         \A t \in Tokens : upstream[t] # "unissued" => upstream'[t] # "unissued",
         p.lock = req[r].lock,
         p.lock # NoLock => p.identity = req[r].identity /\ (Within(p) <=> Within(req[r])),
         NEW j \in Identities, p.pc \notin {"calling", "answered"}
  PROVE  ProviderInv'
<1>1. \A i, t : ~Carries(p, i, t)
  BY CarriesNothing
<1>2. NoToken \in Tokens \cup {NoToken} /\ NoToken \notin Tokens
  BY ProviderAssumption
<1>. QED BY <1>1, <1>2, QuietStep

\* A request that leaves the critical section and writes nothing.
LEMMA LeaveStep ==
  ASSUME ProviderInv, NEW r \in Requests, Within(req[r]), Leave(r),
         UNCHANGED <<aggregate, vault, retry, upstream, settled>>
  PROVE  ProviderInv'
<1>1. req \in [Requests -> Progress] /\ req[r] \in Progress /\ ShapeOK(req[r])
  BY DEF ProviderInv, TypeOK
<1>2. PICK p : p = [req[r] EXCEPT !.pc = "releasing"]
  OBVIOUS
<1>3. p \in Progress /\ p.pc = "releasing"
  BY <1>1, <1>2 DEF Progress
<1>4. req' = [req EXCEPT ![r] = p] /\ locks' = [locks EXCEPT ![req[r].lock].holder = NoOne]
      /\ UNCHANGED entries
  BY <1>1, <1>2 DEF Leave
<1>5. LocksOK' /\ locks' \in [Locks -> Locking] /\ ShapeOK(p)
  BY <1>2, <1>3, <1>4, LeaveLocks
<1>6. \A i, t : ~Carries(p, i, t)
  BY <1>3, CarriesNothing
<1>7. req[r].identity \in Identities /\ NoToken \in Tokens \cup {NoToken} /\ NoToken \notin Tokens
  BY <1>1, ProviderAssumption DEF ShapeOK, Within
<1>8. /\ retry' \in [Identities -> Tokens \cup {NoToken}]
      /\ upstream' \in [Tokens -> {"unissued", "live", "rotated", "revoked"}]
      /\ entries' \in [Identities -> Locks \cup {NoLock}]
      /\ UNCHANGED <<aggregate, vault, settled>>
      /\ \A t \in Tokens : upstream[t] # "unissued" => upstream'[t] # "unissued"
  BY <1>4 DEF ProviderInv, TypeOK
<1>. QED BY <1>3, <1>4, <1>5, <1>6, <1>7, <1>8, RequestStep

\* A step of one request that writes the vault.
LEMMA WriteStep ==
  ASSUME ProviderInv, NEW r \in Requests, NEW p \in Progress, req' = [req EXCEPT ![r] = p],
         ShapeOK(p), UNCHANGED <<aggregate, retry, upstream>>,
         vault' \in [Identities -> Records], VaultOK',
         \A i \in Identities : vault'[i] # Empty => vault[i] # Empty,
         entries' \in [Identities -> Locks \cup {NoLock}], locks' \in [Locks -> Locking], LocksOK',
         settled' \subseteq Tokens, TokensOK'
  PROVE  ProviderInv'
<1>1. req \in [Requests -> Progress]
  BY DEF ProviderInv, TypeOK
<1>2. req' \in [Requests -> Progress] /\ \A s \in Requests : ShapeOK(req'[s])
  BY <1>1 DEF ProviderInv
<1>3. TypeOK'
  BY <1>2 DEF ProviderInv, TypeOK, aggregate
<1>4. LinksOK'
  BY DEF ProviderInv, LinksOK, LinksAreAccountedFor, TokensNeedALink, CountsMatchTheMethods, Ways,
         aggregate
<1>. QED BY <1>2, <1>3, <1>4 DEF ProviderInv

\* Two requests inside the critical section of one identity are the same.
LEMMA OneWithin ==
  ASSUME ProviderInv, NEW r \in Requests, NEW s \in Requests, Within(req[r]), Within(req[s]),
         req[r].identity = req[s].identity
  PROVE  r = s
<1>1. ShapeOK(req[r]) /\ ShapeOK(req[s]) /\ req[r] \in Progress /\ req[s] \in Progress
  BY Local
<1>2. req[r].lock # NoLock /\ req[s].lock # NoLock
  BY <1>1 DEF ShapeOK
<1>3. req[r].lock \in Locks /\ req[s].lock = req[r].lock
  BY <1>1, <1>2 DEF ProviderInv, LocksOK, Progress
<1>. QED BY <1>3 DEF ProviderInv, LocksOK

\* What the types say of one request and of what does not change around it.
LEMMA Around ==
  ASSUME ProviderInv, NEW r \in Requests
  PROVE  /\ req \in [Requests -> Progress] /\ req[r] \in Progress /\ ShapeOK(req[r])
         /\ retry \in [Identities -> Tokens \cup {NoToken}]
         /\ upstream \in [Tokens -> {"unissued", "live", "rotated", "revoked"}]
         /\ vault \in [Identities -> Records]
         /\ req[r].pc # "idle" => /\ req[r].identity \in Identities /\ req[r].token \in Tokens
                                  /\ vault[req[r].identity] \in Records
BY DEF ProviderInv, TypeOK, ShapeOK

LEMMA BeginNext ==
  ASSUME ProviderInv, NEW r \in Requests, NEW work \in {"refresh", "revoke"}, begin(r, work)
  PROVE  ProviderInv'
<1>1. req[r].pc = "idle" /\ req[r].lock = NoLock
  BY Around DEF begin, At, ShapeOK, Within
<1>2. PICK i \in Retained :
        /\ vault[i] # Empty /\ vault[i].version < MaxVersion
        /\ req' = [req EXCEPT ![r] = [Idle EXCEPT !.pc = "observed", !.work = work, !.identity = i,
                                        !.version = vault[i].version, !.token = vault[i].token]]
  BY DEF begin
<1>3. i \in Identities /\ vault[i].version > 0 /\ vault[i].token \in Tokens /\ vault[i] \in Records
  BY <1>2, ProviderAssumption, Around DEF ProviderInv, VaultOK
<1>4. PICK v \in Versions, t \in Tokens : v = vault[i].version /\ t = vault[i].token
  BY <1>3 DEF Records
<1>5. PICK p : p = [Idle EXCEPT !.pc = "observed", !.work = work, !.identity = i,
                                !.version = v, !.token = t]
  OBVIOUS
<1>6. p \in Progress
  BY <1>3, <1>4, <1>5 DEF Progress, Idle, Versions
<1>7. /\ p.pc = "observed" /\ p.work = work /\ p.identity = i /\ p.lock = NoLock
      /\ p.version = v /\ p.token = t
  BY <1>5 DEF Idle
<1>8. ShapeOK(p)
  BY <1>2, <1>3, <1>4, <1>7 DEF ShapeOK, Within
<1>9. req' = [req EXCEPT ![r] = p]
  BY <1>2, <1>4, <1>5
<1>10. UNCHANGED <<aggregate, vault, retry, upstream, coordination, settled>>
  BY DEF begin
<1>. QED BY <1>1, <1>3, <1>6, <1>7, <1>8, <1>9, <1>10, Around, SilentStep

LEMMA AcquireNext ==
  ASSUME ProviderInv, NEW r \in Requests, acquire(r)
  PROVE  ProviderInv'
<1>1. PICK p \in Progress : ShapeOK(p) /\ req' = [req EXCEPT ![r] = p] /\ p.pc = "waiting"
  BY AcquireLocks
<1>2. \A i, t : ~Carries(p, i, t)
  BY <1>1, CarriesNothing
<1>3. req[r].identity \in Identities /\ NoToken \in Tokens \cup {NoToken} /\ NoToken \notin Tokens
  BY Around, ProviderAssumption DEF acquire, At
<1>4. UNCHANGED <<aggregate, vault, retry, upstream, settled>>
  BY DEF acquire
<1>5. /\ LocksOK' /\ locks' \in [Locks -> Locking] /\ entries' \in [Identities -> Locks \cup {NoLock}]
  BY AcquireLocks
<1>. QED BY <1>1, <1>2, <1>3, <1>4, <1>5, Around, RequestStep

LEMMA EnterNext ==
  ASSUME ProviderInv, NEW r \in Requests, enter(r)
  PROVE  ProviderInv'
<1>1. PICK p \in Progress : ShapeOK(p) /\ req' = [req EXCEPT ![r] = p] /\ p.pc = "holding"
  BY EnterLocks
<1>2. \A i, t : ~Carries(p, i, t)
  BY <1>1, CarriesNothing
<1>3. req[r].identity \in Identities /\ NoToken \in Tokens \cup {NoToken} /\ NoToken \notin Tokens
  BY Around, ProviderAssumption DEF enter, Moves, At
<1>4. UNCHANGED <<aggregate, vault, retry, upstream, settled, entries>>
  BY DEF enter
<1>5. LocksOK' /\ locks' \in [Locks -> Locking] /\ entries' \in [Identities -> Locks \cup {NoLock}]
  BY <1>4, EnterLocks DEF ProviderInv, TypeOK
<1>. QED BY <1>1, <1>2, <1>3, <1>4, <1>5, Around, RequestStep

LEMMA ReleaseNext ==
  ASSUME ProviderInv, NEW r \in Requests, release(r)
  PROVE  ProviderInv'
<1>1. Idle \in Progress /\ ShapeOK(Idle) /\ \A i, t : ~Carries(Idle, i, t)
  BY IdleOK
<1>2. Idle.pc \notin {"calling", "answered"}
  BY DEF Idle
<1>3. req' = [req EXCEPT ![r] = Idle] /\ UNCHANGED <<aggregate, vault, retry, upstream, settled>>
  BY DEF release
<1>4. /\ LocksOK' /\ locks' \in [Locks -> Locking] /\ entries' \in [Identities -> Locks \cup {NoLock}]
      /\ req[r].identity \in Identities
  BY ReleaseLocks
<1>5. NoToken \in Tokens \cup {NoToken} /\ NoToken \notin Tokens
  BY ProviderAssumption
<1>. HIDE DEF Idle
<1>. QED BY <1>1, <1>2, <1>3, <1>4, <1>5, Around, RequestStep

\* The second read: the request presents the token of the record it finds.
LEMMA RereadNext ==
  ASSUME ProviderInv, NEW r \in Requests, reread(r)
  PROVE  ProviderInv'
<1>1. /\ req[r].pc = "holding" /\ req[r].work = "refresh" /\ Within(req[r])
      /\ req[r].identity \in Identities /\ req[r].version > 0
      /\ vault[req[r].identity] \in Records
  BY Around DEF reread, At, ShapeOK, Within
<1>2. UNCHANGED <<aggregate, vault, retry, upstream, settled>>
  BY DEF reread
<1>3. CASE Versioned(r)
  <2>1. PICK i \in Identities : i = req[r].identity
    BY <1>1
  <2>2. vault[i].version = req[r].version /\ vault[i].token \in Tokens
    BY <1>1, <1>3, <2>1 DEF Versioned, Stored, ProviderInv, VaultOK, Empty
  <2>3. PICK t \in Tokens : t = vault[i].token
    BY <2>2
  <2>4. PICK p : p = [req[r] EXCEPT !.pc = "calling", !.token = t]
    OBVIOUS
  <2>5. /\ p \in Progress /\ p.pc = "calling" /\ p.token = t /\ p.identity = i
        /\ p.lock = req[r].lock /\ p.version = req[r].version /\ p.work = "refresh" /\ Within(p)
    BY <1>1, <2>1, <2>4, Around DEF Progress, Within
  <2>6. ShapeOK(p)
    BY <1>1, <2>1, <2>5, Around DEF ShapeOK
  <2>7. req' = [req EXCEPT ![r] = p] /\ UNCHANGED coordination
    BY <1>3, <2>1, <2>3, <2>4, Around DEF reread, Stored
  <2>8. \A j \in Identities, u \in Tokens : Carries(p, j, u) => Has(j, u)
    BY <2>3, <2>5 DEF Carries, Has
  <2>9. NoToken \in Tokens \cup {NoToken} /\ NoToken \notin Tokens
    BY ProviderAssumption
  <2>. QED BY <1>1, <1>2, <2>1, <2>2, <2>5, <2>6, <2>7, <2>8, <2>9, Around, QuietStep
<1>4. CASE ~Versioned(r)
  BY <1>1, <1>2, <1>4, LeaveStep DEF reread
<1>. QED BY <1>3, <1>4

\* The provider's answer: a refusal, the same token, or the next one.
LEMMA AnswerNext ==
  ASSUME ProviderInv, NEW r \in Requests, Answer(r)
  PROVE  ProviderInv'
<1>1. /\ req[r].pc = "calling" /\ req[r].work = "refresh" /\ Within(req[r])
      /\ req[r].identity \in Identities /\ req[r].token \in Tokens
  BY Around DEF Answer, At, ShapeOK, Within
<1>2. UNCHANGED <<aggregate, vault, retry, coordination, settled>>
  BY DEF Answer
<1>3. PICK i \in Identities, t \in Tokens : i = req[r].identity /\ t = req[r].token
  BY <1>1
<1>4. Has(i, t) /\ (vault[i].token = t => vault[i].version = req[r].version)
  BY <1>1, <1>3 DEF Has, Carries, ProviderInv, TokensOK, Stored, Versioned
<1>5. NoToken \in Tokens \cup {NoToken} /\ NoToken \notin Tokens
  BY ProviderAssumption
<1>6. CASE upstream[t] # "live"
  <2>1. PICK p : p = [req[r] EXCEPT !.pc = "refused"]
    OBVIOUS
  <2>2. /\ p \in Progress /\ p.pc = "refused" /\ p.identity = i /\ Within(p)
        /\ p.lock = req[r].lock
    BY <1>1, <1>3, <2>1, Around DEF Progress, Within
  <2>3. ShapeOK(p)
    BY <1>1, <2>1, <2>2, Around DEF ShapeOK, Progress
  <2>4. req' = [req EXCEPT ![r] = p] /\ UNCHANGED upstream
    BY <1>3, <1>6, <2>1, Around DEF Answer, Moves
  <2>. QED BY <1>1, <1>2, <1>3, <2>2, <2>3, <2>4, Around, SilentStep
<1>7. ASSUME upstream[t] = "live", NEW f \in Tokens, req' = [req EXCEPT ![r].pc = "answered", ![r].fresh = f],
             \/ f = t /\ UNCHANGED upstream
             \/ upstream[f] = "unissued" /\ upstream' = [upstream EXCEPT ![f] = "live", ![t] = "rotated"]
      PROVE  ProviderInv'
  <2>1. PICK p : p = [req[r] EXCEPT !.pc = "answered", !.fresh = f]
    OBVIOUS
  <2>2. /\ p \in Progress /\ p.pc = "answered" /\ p.fresh = f /\ p.token = t /\ p.identity = i
        /\ p.lock = req[r].lock /\ p.version = req[r].version /\ p.work = "refresh" /\ Within(p)
    BY <1>1, <1>3, <2>1, Around DEF Progress, Within
  <2>3. ShapeOK(p)
    BY <1>1, <1>3, <2>2, Around DEF ShapeOK
  <2>4. req' = [req EXCEPT ![r] = p]
    BY <1>7, <2>1, Around
  <2>5. \A j \in Identities, u \in Tokens : Carries(p, j, u) => j = i /\ (u = t \/ u = f)
    BY <2>2 DEF Carries
  <2>6. CASE f = t /\ UNCHANGED upstream
    <3>1. \A j \in Identities, u \in Tokens : Carries(p, j, u) => Has(j, u)
      BY <1>4, <2>5, <2>6
    <3>. QED BY <1>1, <1>2, <1>3, <1>4, <1>5, <2>2, <2>3, <2>4, <2>6, <3>1, Around, QuietStep
  <2>7. CASE upstream[f] = "unissued" /\ upstream' = [upstream EXCEPT ![f] = "live", ![t] = "rotated"]
    <3>1. \A j \in Identities, u \in Tokens : Carries(p, j, u) => Has(j, u) \/ (j = i /\ u = f)
      BY <1>4, <2>5
    <3>2. /\ upstream' \in [Tokens -> {"unissued", "live", "rotated", "revoked"}]
          /\ upstream'[f] # "unissued"
          /\ \A u \in Tokens : upstream[u] # "unissued" => upstream'[u] # "unissued"
      BY <1>7, <2>7, Around
    <3>3. f \in Tokens \cup {NoToken} /\ (f \in Tokens => upstream[f] = "unissued" /\ upstream'[f] # "unissued")
      BY <2>7, <3>2
    <3>4. /\ p.lock # NoLock => p.identity = req[r].identity /\ (Within(p) <=> Within(req[r]))
          /\ p.pc \in {"calling", "answered"} /\ vault[p.identity].token = p.token
             => vault[p.identity].version = p.version
      BY <1>1, <1>3, <1>4, <2>2
    <3>5. retry' \in [Identities -> Tokens \cup {NoToken}]
          /\ UNCHANGED <<aggregate, vault, coordination, settled>>
      BY <1>2, Around
    <3>. QED BY <2>2, <2>3, <2>4, <3>1, <3>2, <3>3, <3>4, <3>5, QuietStep
  <2>. QED BY <1>7, <2>6, <2>7
<1>8. CASE upstream[t] = "live"
  BY <1>3, <1>7, <1>8 DEF Answer, Issues
<1>. QED BY <1>6, <1>8

\* What replace writes: the token it was given, in place of the one it read, if
\* nobody wrote in between; the token it presented is spent either way.
LEMMA ReplaceTokens ==
  ASSUME ProviderInv, NEW r \in Requests, replace(r)
  PROVE  /\ vault' \in [Identities -> Records] /\ VaultOK' /\ TokensOK' /\ settled' \subseteq Tokens
         /\ \A i \in Identities : vault'[i] # Empty => vault[i] # Empty
<1>1. /\ req[r].pc = "answered" /\ req[r].work = "refresh" /\ Within(req[r])
      /\ req[r].identity \in Identities /\ req[r].token \in Tokens /\ req[r].fresh \in Tokens
      /\ req[r].version \in Versions /\ req[r].version > 0 /\ req[r].version < MaxVersion
      /\ vault \in [Identities -> Records] /\ settled \subseteq Tokens
  BY Around DEF replace, At, ShapeOK, Within, Progress, ProviderInv, TypeOK
<1>2. PICK i \in Identities, t \in Tokens, f \in Tokens, v \in Versions :
        i = req[r].identity /\ t = req[r].token /\ f = req[r].fresh /\ v = req[r].version
  BY <1>1
<1>3. v + 1 \in Versions /\ v + 1 > 0
  BY <1>1, <1>2, ProviderAssumption DEF Versions
<1>4. Has(i, t) /\ Has(i, f) /\ (vault[i].token = t => vault[i].version = v)
  BY <1>1, <1>2 DEF Has, Carries, ProviderInv, TokensOK, Stored, Versioned
<1>. DEFINE new == [version |-> v + 1, token |-> f]
<1>5. new \in Records /\ new.version = v + 1 /\ new.token = f
  BY <1>3 DEF Records
<1>6. vault' = IF vault[i].version = v THEN [vault EXCEPT ![i] = new] ELSE vault
  BY <1>2 DEF replace, Swaps, Versioned, Stored
<1>7. settled' = IF f = t THEN settled ELSE settled \cup {t}
  BY <1>2 DEF replace
<1>8. UNCHANGED upstream
  BY DEF replace
<1>. HIDE DEF new
<1>9. /\ vault' \in [Identities -> Records] /\ \A j \in Identities \ {i} : vault'[j] = vault[j]
      /\ vault'[i] = (IF vault[i].version = v THEN new ELSE vault[i])
  BY <1>1, <1>5, <1>6
<1>10. vault[i].version = v => vault[i] # Empty
  BY <1>1, <1>2 DEF Empty
<1>11. VaultOK'
  BY <1>3, <1>5, <1>9 DEF ProviderInv, VaultOK
<1>12. req'[r].pc = "releasing" /\ \A s \in Requests \ {r} : req'[s] = req[s]
  BY <1>1, Around DEF replace, Leave, Progress
<1>13. ASSUME NEW s \in Requests \ {r}, Within(req[s]) PROVE req[s].identity # i
  BY <1>1, <1>2, <1>13, OneWithin
<1>14. \A j, u : ~Carries(req'[r], j, u)
  BY <1>12, CarriesNothing
<1>15. ASSUME NEW j \in Identities, NEW u \in Tokens, Has(j, u)'
       PROVE  Has(j, u) /\ (u = t => f = t)
  <2>1. CASE vault'[j].token = u
    <3>1. Has(j, u)
      BY <1>4, <1>5, <1>9, <2>1 DEF Has
    <3>2. ASSUME u = t PROVE f = t
      <4>1. j = i
        BY <1>4, <3>1, <3>2 DEF ProviderInv, TokensOK
      <4>. QED BY <1>4, <1>5, <1>9, <2>1, <3>2, <4>1
    <3>. QED BY <3>1, <3>2
  <2>2. CASE \E s \in Requests : Carries(req'[s], j, u)
    <3>1. PICK s \in Requests \ {r} : Carries(req[s], j, u)
      BY <1>12, <1>14, <2>2
    <3>2. Has(j, u) /\ Within(req[s]) /\ req[s].identity = j
      BY <3>1 DEF Has, Carries, Within
    <3>3. j # i
      BY <1>13, <3>2
    <3>. QED BY <1>4, <3>2, <3>3 DEF ProviderInv, TokensOK
  <2>. QED BY <1>15, <2>1, <2>2 DEF Has
<1>16. ASSUME NEW s \in Requests, req'[s].pc \in {"calling", "answered"},
              Stored(s)'.token = req'[s].token
       PROVE  Versioned(s)'
  <2>1. s # r /\ req'[s] = req[s] /\ ShapeOK(req[s])
    BY <1>12, <1>16, Local
  <2>2. Within(req[s]) /\ req[s].identity \in Identities
    BY <1>16, <2>1 DEF ShapeOK, Within
  <2>3. req[s].identity # i
    BY <1>13, <2>1, <2>2
  <2>. QED BY <1>9, <1>16, <2>1, <2>2, <2>3 DEF Stored, Versioned, ProviderInv, TokensOK
<1>17. \A j, k \in Identities, u \in Tokens : Has(j, u)' /\ Has(k, u)' => j = k
  BY <1>15 DEF ProviderInv, TokensOK
<1>18. \A j \in Identities, u \in Tokens : Has(j, u)' => upstream'[u] # "unissued" /\ u \notin settled'
  BY <1>7, <1>8, <1>15 DEF ProviderInv, TokensOK
<1>19. \A u \in settled' : upstream'[u] # "unissued"
  BY <1>4, <1>7, <1>8 DEF ProviderInv, TokensOK
<1>20. TokensOK'
  BY <1>16, <1>17, <1>18, <1>19 DEF TokensOK
<1>21. settled' \subseteq Tokens
  BY <1>1, <1>7
<1>22. \A j \in Identities : vault'[j] # Empty => vault[j] # Empty
  BY <1>9, <1>10
<1>. QED BY <1>9, <1>11, <1>20, <1>21, <1>22

LEMMA ReplaceNext ==
  ASSUME ProviderInv, NEW r \in Requests, replace(r)
  PROVE  ProviderInv'
<1>1. Within(req[r]) /\ Leave(r)
  BY Around DEF replace, At, ShapeOK, Within
<1>2. PICK p : p = [req[r] EXCEPT !.pc = "releasing"]
  OBVIOUS
<1>3. p \in Progress /\ req' = [req EXCEPT ![r] = p]
  <2>1. p \in Progress
    BY <1>2, Around DEF Progress
  <2>. QED BY <1>1, <1>2, <2>1, Around DEF Leave
<1>4. LocksOK' /\ locks' \in [Locks -> Locking] /\ ShapeOK(p)
  BY <1>1, <1>2, <1>3, LeaveLocks DEF Leave
<1>5. entries' \in [Identities -> Locks \cup {NoLock}]
  BY <1>1 DEF Leave, ProviderInv, TypeOK
<1>6. UNCHANGED <<aggregate, retry, upstream>>
  BY DEF replace
<1>. QED BY <1>3, <1>4, <1>5, <1>6, ReplaceTokens, WriteStep

\* A deletion takes a token away and gives none.
LEMMA DeleteNext ==
  ASSUME ProviderInv, NEW r \in Requests, delete(r)
  PROVE  ProviderInv'
<1>1. /\ req[r].pc = "deleting" /\ req[r].identity \in Identities
      /\ vault \in [Identities -> Records] /\ req[r].work \in {"refresh", "revoke"}
  BY Around DEF delete, At, ShapeOK
<1>2. PICK i \in Identities : i = req[r].identity
  BY <1>1
<1>3. Empty \in Records /\ Empty.token = NoToken /\ NoToken \notin Tokens
      /\ NoToken \in Tokens \cup {NoToken}
  BY ProviderAssumption DEF Empty, Records, Versions
<1>4. /\ vault' = [vault EXCEPT ![i] = Empty]
      /\ UNCHANGED <<aggregate, retry, upstream, settled>>
  BY <1>2 DEF delete
<1>5. vault' \in [Identities -> Records] /\ vault'[i] = Empty
      /\ \A j \in Identities \ {i} : vault'[j] = vault[j]
  BY <1>1, <1>3, <1>4
<1>6. VaultOK' /\ \A j \in Identities : vault'[j] # Empty => vault[j] # Empty
  BY <1>5 DEF ProviderInv, VaultOK
<1>7. PICK p \in Progress : /\ p.pc \in {"releasing", "idle"} /\ ShapeOK(p)
                            /\ req' = [req EXCEPT ![r] = p]
                            /\ LocksOK' /\ locks' \in [Locks -> Locking]
                            /\ entries' \in [Identities -> Locks \cup {NoLock}]
  <2>1. CASE req[r].work = "refresh"
    <3>1. Within(req[r]) /\ Leave(r)
      BY <1>1, <2>1 DEF delete, Within
    <3>2. PICK p : p = [req[r] EXCEPT !.pc = "releasing"]
      OBVIOUS
    <3>3. p \in Progress /\ req' = [req EXCEPT ![r] = p] /\ p.pc = "releasing"
      <4>1. p \in Progress /\ p.pc = "releasing"
        BY <3>2, Around DEF Progress
      <4>. QED BY <3>1, <3>2, <4>1, Around DEF Leave
    <3>4. LocksOK' /\ locks' \in [Locks -> Locking] /\ ShapeOK(p)
      BY <3>1, <3>2, <3>3, LeaveLocks DEF Leave
    <3>5. entries' \in [Identities -> Locks \cup {NoLock}]
      BY <3>1 DEF Leave, ProviderInv, TypeOK
    <3>. QED BY <3>3, <3>4, <3>5
  <2>2. CASE req[r].work = "revoke"
    <3>1. Idle \in Progress /\ ShapeOK(Idle) /\ Idle.pc = "idle" /\ Idle.lock = NoLock
      BY IdleOK DEF Idle
    <3>2. req[r].lock = NoLock
      BY <1>1, <2>2, Around DEF ShapeOK, Within
    <3>3. req' = [req EXCEPT ![r] = Idle] /\ UNCHANGED coordination
      BY <2>2 DEF delete
    <3>. HIDE DEF Idle
    <3>4. LocksOK'
      BY <3>1, <3>2, <3>3, LocksSame
    <3>5. locks' \in [Locks -> Locking] /\ entries' \in [Identities -> Locks \cup {NoLock}]
      BY <3>3 DEF coordination, ProviderInv, TypeOK
    <3>. QED BY <3>1, <3>3, <3>4, <3>5
  <2>. QED BY <1>1, <2>1, <2>2
<1>8. req'[r] = p /\ \A s \in Requests \ {r} : req'[s] = req[s]
  BY <1>7, Around
<1>9. ASSUME NEW j \in Identities, NEW u \in Tokens, Has(j, u)'
      PROVE  Has(j, u)
  <2>1. \A k, v : ~Carries(req'[r], k, v)
    BY <1>7, <1>8, CarriesNothing
  <2>. QED BY <1>3, <1>5, <1>8, <1>9, <2>1 DEF Has
<1>10. ASSUME NEW s \in Requests, req'[s].pc \in {"calling", "answered"},
              Stored(s)'.token = req'[s].token
       PROVE  Versioned(s)'
  <2>1. s # r /\ req'[s] = req[s] /\ ShapeOK(req[s])
    BY <1>7, <1>8, <1>10, Local
  <2>2. req[s].identity \in Identities /\ req[s].token \in Tokens
    BY <1>10, <2>1 DEF ShapeOK
  <2>. QED BY <1>3, <1>5, <1>10, <2>1, <2>2 DEF Stored, Versioned, ProviderInv, TokensOK
<1>11. TokensOK'
  BY <1>3, <1>4, <1>9, <1>10, TokensMove DEF ProviderInv, TypeOK
<1>12. settled' \subseteq Tokens
  BY <1>4 DEF ProviderInv, TypeOK
<1>. QED BY <1>4, <1>5, <1>6, <1>7, <1>11, <1>12, WriteStep

\* A failure or a cancellation gives back what the request holds.
LEMMA FailNext ==
  ASSUME ProviderInv, NEW r \in Requests, fail(r)
  PROVE  ProviderInv'
<1>1. req[r].pc \notin {"idle", "releasing"} /\ req[r].identity \in Identities
      /\ UNCHANGED <<aggregate, vault, retry, upstream, settled>>
  BY Around DEF fail
<1>2. CASE req[r].lock = NoLock
  <2>1. Idle \in Progress /\ ShapeOK(Idle) /\ Idle.pc = "idle" /\ Idle.lock = NoLock
    BY IdleOK DEF Idle
  <2>2. req' = [req EXCEPT ![r] = Idle] /\ UNCHANGED coordination
    BY <1>2 DEF fail
  <2>. HIDE DEF Idle
  <2>. QED BY <1>1, <1>2, <2>1, <2>2, Around, SilentStep
<1>3. CASE req[r].lock # NoLock
  <2>1. PICK k \in Locks : k = req[r].lock
    BY <1>3, Around DEF Progress
  <2>2. CASE locks[k].holder = r
    <3>1. Within(req[r]) /\ Leave(r)
      BY <1>3, <2>1, <2>2 DEF fail, ProviderInv, LocksOK
    <3>. QED BY <1>1, <3>1, LeaveStep
  <2>3. CASE locks[k].holder # r
    <3>1. ~Within(req[r]) /\ req[r].pc = "waiting" /\ req[r].work = "refresh"
      BY <1>1, <1>3, <2>1, <2>3, Around DEF ProviderInv, LocksOK, ShapeOK
    <3>2. PICK p : p = [req[r] EXCEPT !.pc = "releasing"]
      OBVIOUS
    <3>3. p \in Progress /\ p.pc = "releasing" /\ p.lock = req[r].lock
          /\ p.identity = req[r].identity /\ ~Within(p)
      BY <3>2, Around DEF Progress, Within
    <3>4. ShapeOK(p)
      BY <1>3, <3>1, <3>2, <3>3, Around DEF ShapeOK, Progress
    <3>5. req' = [req EXCEPT ![r] = p] /\ UNCHANGED coordination
      BY <1>3, <2>1, <2>3, <3>2, Around DEF fail, Moves
    <3>. QED BY <1>1, <3>1, <3>3, <3>4, <3>5, Around, SilentStep
  <2>. QED BY <2>2, <2>3
<1>. QED BY <1>2, <1>3

\* The steps of a revocation move one request on and touch no record or lock.
LEMMA RevokeNext ==
  ASSUME ProviderInv, NEW r \in Requests,
         revokeRefreshToken(r) \/ revokeAccessToken(r) \/ stage(r) \/ schedule(r)
  PROVE  ProviderInv'
<1>1. /\ req[r].pc \in {"observed", "access", "staging", "scheduling"} /\ req[r].work = "revoke"
      /\ req[r].identity \in Identities /\ req[r].token \in Tokens /\ req[r].lock = NoLock
      /\ UNCHANGED <<aggregate, vault, coordination, settled>>
  BY Around DEF revokeRefreshToken, revokeAccessToken, stage, schedule, Moves, At, ShapeOK, Within
<1>2. ASSUME NEW pc \in {"access", "staging", "scheduling", "checking"}, NEW b \in BOOLEAN,
             req' = [req EXCEPT ![r] = [req[r] EXCEPT !.pc = pc, !.failed = b]],
             retry' \in [Identities -> Tokens \cup {NoToken}],
             upstream' \in [Tokens -> {"unissued", "live", "rotated", "revoked"}],
             \A t \in Tokens : upstream[t] # "unissued" => upstream'[t] # "unissued"
      PROVE  ProviderInv'
  <2>1. PICK p : p = [req[r] EXCEPT !.pc = pc, !.failed = b]
    OBVIOUS
  <2>2. p \in Progress /\ p.pc = pc /\ p.lock = NoLock /\ p.work = "revoke" /\ ~Within(p)
    BY <1>1, <2>1, Around, ZenonT(60) DEF Progress, Within
  <2>3. ShapeOK(p)
    BY <1>1, <2>1, <2>2, Around DEF ShapeOK, Progress
  <2>4. req' = [req EXCEPT ![r] = p]
    BY <1>2, <2>1
  <2>. QED BY <1>1, <1>2, <2>2, <2>3, <2>4, SilentStep
<1>3. PICK b \in BOOLEAN : b = req[r].failed
  BY Around DEF Progress
<1>4. CASE revokeRefreshToken(r)
  <2>1. PICK reached, failed \in BOOLEAN :
          /\ upstream' = [upstream EXCEPT ![req[r].token] = IF reached /\ @ = "live" THEN "revoked" ELSE @]
          /\ req' = [req EXCEPT ![r].pc = "access", ![r].failed = failed]
    BY <1>4 DEF revokeRefreshToken
  <2>2. req' = [req EXCEPT ![r] = [req[r] EXCEPT !.pc = "access", !.failed = failed]]
    BY <2>1, Around DEF Progress
  <2>3. upstream' \in [Tokens -> {"unissued", "live", "rotated", "revoked"}]
        /\ \A t \in Tokens : upstream[t] # "unissued" => upstream'[t] # "unissued"
    BY <1>1, <2>1, Around
  <2>4. retry' \in [Identities -> Tokens \cup {NoToken}]
    BY <1>4, Around DEF revokeRefreshToken
  <2>. QED BY <1>2, <2>2, <2>3, <2>4
<1>5. CASE revokeAccessToken(r)
  <2>1. PICK pc \in {"staging", "checking"}, c \in BOOLEAN :
          req' = [req EXCEPT ![r] = [req[r] EXCEPT !.pc = pc, !.failed = c]]
    <3>1. CASE req' = [req EXCEPT ![r].pc = IF req[r].failed THEN "staging" ELSE "checking"]
      <4>1. PICK pc \in {"staging", "checking"} : pc = (IF req[r].failed THEN "staging" ELSE "checking")
        OBVIOUS
      <4>2. req' = [req EXCEPT ![r] = [req[r] EXCEPT !.pc = pc]]
        BY <3>1, <4>1
      <4>3. [req[r] EXCEPT !.pc = pc] = [req[r] EXCEPT !.pc = pc, !.failed = b]
        BY <1>3, Around DEF Progress
      <4>. QED BY <4>2, <4>3
    <3>2. CASE req' = [req EXCEPT ![r].pc = "staging", ![r].failed = TRUE]
      <4>1. req' = [req EXCEPT ![r] = [req[r] EXCEPT !.pc = "staging", !.failed = TRUE]]
        BY <3>2, Around DEF Progress
      <4>. QED BY <4>1
    <3>. QED BY <1>5, <3>1, <3>2 DEF revokeAccessToken
  <2>2. UNCHANGED <<retry, upstream>>
    BY <1>5 DEF revokeAccessToken
  <2>. QED BY <1>2, <2>1, <2>2, Around
<1>6. CASE stage(r)
  <2>1. UNCHANGED <<retry, upstream>>
    BY <1>6 DEF stage
  <2>2. CASE Versioned(r)
    <3>1. req' = [req EXCEPT ![r] = [req[r] EXCEPT !.pc = "scheduling"]]
      BY <1>6, <2>2 DEF stage
    <3>2. [req[r] EXCEPT !.pc = "scheduling"] = [req[r] EXCEPT !.pc = "scheduling", !.failed = b]
      BY <1>3, Around DEF Progress
    <3>. QED BY <1>2, <2>1, <3>1, <3>2, Around
  <2>3. CASE ~Versioned(r)
    <3>1. req' = [req EXCEPT ![r] = Idle]
      BY <1>6, <2>3 DEF stage
    <3>2. Idle \in Progress /\ ShapeOK(Idle) /\ Idle.pc = "idle" /\ Idle.lock = NoLock
      BY IdleOK DEF Idle
    <3>. HIDE DEF Idle
    <3>. QED BY <1>1, <2>1, <3>1, <3>2, Around, SilentStep
  <2>. QED BY <2>2, <2>3
<1>7. CASE schedule(r)
  <2>1. req' = [req EXCEPT ![r] = [req[r] EXCEPT !.pc = "checking"]]
    BY <1>7 DEF schedule, Moves
  <2>2. [req[r] EXCEPT !.pc = "checking"] = [req[r] EXCEPT !.pc = "checking", !.failed = b]
    BY <1>3, Around DEF Progress
  <2>3. retry' \in [Identities -> Tokens \cup {NoToken}] /\ UNCHANGED upstream
    BY <1>1, <1>7, Around DEF schedule
  <2>. QED BY <1>2, <2>1, <2>2, <2>3, Around
<1>. QED BY <1>4, <1>5, <1>6, <1>7

LEMMA CheckNext ==
  ASSUME ProviderInv, NEW r \in Requests, check(r)
  PROVE  ProviderInv'
<1>1. /\ req[r].pc \in {"checking", "refused"} /\ req[r].identity \in Identities
      /\ req[r].pc = "refused" => req[r].work = "refresh" /\ Within(req[r])
      /\ req[r].pc = "checking" => req[r].work = "revoke" /\ ~Within(req[r]) /\ req[r].lock = NoLock
      /\ UNCHANGED <<aggregate, vault, retry, upstream, settled>>
  BY Around DEF check, At, ShapeOK, Within
<1>2. CASE Versioned(r)
  <2>1. PICK p : p = [req[r] EXCEPT !.pc = "deleting"]
    OBVIOUS
  <2>2. /\ p \in Progress /\ p.pc = "deleting" /\ p.lock = req[r].lock
        /\ p.identity = req[r].identity /\ p.work = req[r].work
        /\ Within(p) <=> Within(req[r])
    BY <1>1, <2>1, Around DEF Progress, Within
  <2>3. ShapeOK(p)
    BY <1>1, <2>1, <2>2, Around DEF ShapeOK, Progress
  <2>4. req' = [req EXCEPT ![r] = p] /\ UNCHANGED coordination
    BY <1>2, <2>1, Around DEF check, Moves
  <2>. QED BY <1>1, <2>2, <2>3, <2>4, Around, SilentStep
<1>3. CASE ~Versioned(r) /\ req[r].work = "refresh"
  BY <1>1, <1>3, LeaveStep DEF check
<1>4. CASE ~Versioned(r) /\ req[r].work # "refresh"
  <2>1. Idle \in Progress /\ ShapeOK(Idle) /\ Idle.pc = "idle" /\ Idle.lock = NoLock
    BY IdleOK DEF Idle
  <2>2. req' = [req EXCEPT ![r] = Idle] /\ UNCHANGED coordination
    BY <1>4 DEF check
  <2>. HIDE DEF Idle
  <2>. QED BY <1>1, <1>4, <2>1, <2>2, Around, SilentStep
<1>. QED BY <1>2, <1>3, <1>4

-----------------------------------------------------------------------------
(* The invariant *)

LEMMA ProviderInit == Init => ProviderInv
<1>. SUFFICES ASSUME Init PROVE ProviderInv
  OBVIOUS
<1>1. Empty \in Records /\ Empty.token = NoToken /\ NoToken \notin Tokens
  BY ProviderAssumption DEF Empty, Records, Versions
<1>2. Idle \in Progress /\ ShapeOK(Idle) /\ (\A i, t : ~Carries(Idle, i, t))
  BY IdleOK
<1>3. Idle.pc = "idle" /\ Idle.lock = NoLock /\ ~Within(Idle)
  BY DEF Idle, Within
<1>. HIDE DEF Idle, Empty
<1>4. \A r \in Requests : req[r] = Idle
  BY DEF Init
<1>5. 0 \in 0..Cardinality(Requests) /\ Cardinality({}) = 0
  BY ProviderAssumption, FS_CardinalityType, FS_EmptySet
<1>6. TypeOK
  <2>1. locks \in [Locks -> Locking]
    BY <1>5 DEF Init, Locking
  <2>2. methods \in [Accounts -> Nat] /\ accounts \subseteq Accounts
    BY ProviderAssumption DEF Init
  <2>. QED BY <1>1, <1>2, <2>1, <2>2 DEF Init, TypeOK
<1>7. VaultOK
  BY DEF Init, VaultOK
<1>8. LinksOK
  <2>1. \A a \in Accounts : HeldBy(a) = {}
    BY ProviderAssumption DEF Init, HeldBy
  <2>2. \A a \in Accounts : methods[a] = IF a \in Known THEN Locals[a] ELSE 0
    BY DEF Init
  <2>3. \A a \in Known : Locals[a] \in Nat
    BY ProviderAssumption
  <2>4. \A a \in Accounts : methods[a] = Ways(a)
    <3>. HIDE DEF HeldBy
    <3>. QED BY <1>5, <2>1, <2>2, <2>3, WaysOfHeldBy
  <2>5. TokensNeedALink /\ Known \subseteq accounts
    BY DEF Init, TokensNeedALink
  <2>. QED BY <2>4, <2>5 DEF LinksOK, LinksAreAccountedFor, CountsMatchTheMethods
<1>9. LocksOK
  <2>1. \A k \in Locks : k # NoLock
    BY ProviderAssumption
  <2>2. \A k \in Locks : Referring(k) = {} /\ locks[k].references = 0 /\ locks[k].holder = NoOne
    BY <1>3, <1>4, <2>1 DEF Init, Referring
  <2>3. \A r \in Requests : r # NoOne
    BY ProviderAssumption
  <2>4. \A i \in Identities : entries[i] = NoLock
    BY DEF Init
  <2>5. \A k \in Locks : locks[k].references = Cardinality(Referring(k))
    BY <1>5, <2>2
  <2>. QED BY <1>3, <1>4, <2>2, <2>3, <2>4, <2>5 DEF LocksOK
<1>10. TokensOK
  <2>1. \A i \in Identities, t \in Tokens : ~Has(i, t)
    BY <1>1, <1>2, <1>4 DEF Init, Has
  <2>2. settled = {}
    BY DEF Init
  <2>. QED BY <1>3, <1>4, <2>1, <2>2 DEF TokensOK
<1>. QED BY <1>2, <1>4, <1>6, <1>7, <1>8, <1>9, <1>10 DEF ProviderInv

LEMMA ProviderStutter ==
  ASSUME ProviderInv, UNCHANGED vars
  PROVE  ProviderInv' /\ \A a \in accounts : Ways(a) > 0 => Ways(a)' > 0
<1>1. TypeOK' /\ VaultOK' /\ (\A r \in Requests : ShapeOK(req'[r]))
  BY DEF ProviderInv, vars, TypeOK, VaultOK, aggregate, coordination
<1>2. LinksOK'
  BY DEF ProviderInv, vars, aggregate, LinksOK, LinksAreAccountedFor, TokensNeedALink,
         CountsMatchTheMethods, Ways
<1>3. LocksOK'
  BY DEF ProviderInv, vars, coordination, LocksOK, Referring
<1>4. TokensOK'
  BY DEF ProviderInv, vars, TokensOK, Has, Stored, Versioned
<1>. QED BY <1>1, <1>2, <1>3, <1>4 DEF ProviderInv, vars, Ways

LEMMA ProviderNext ==
  ASSUME ProviderInv, [Next]_vars
  PROVE  ProviderInv' /\ \A a \in accounts : Ways(a) > 0 => Ways(a)' > 0
<1>1. CASE UNCHANGED vars
  BY <1>1, ProviderStutter
<1>2. CASE Aggregate
  BY <1>2, AggregateNext
<1>3. ASSUME NEW r \in Requests, Request(r)
      PROVE  ProviderInv' /\ \A a \in accounts : Ways(a) > 0 => Ways(a)' > 0
  <2>1. ProviderInv'
    <3>1. CASE Continue(r)
      BY <3>1, AcquireNext, EnterNext, RereadNext, AnswerNext, ReplaceNext, ReleaseNext, RevokeNext,
         CheckNext, DeleteNext DEF Continue
    <3>2. CASE fail(r)
      BY <3>2, FailNext
    <3>3. CASE \E work \in {"refresh", "revoke"} : begin(r, work)
      BY <3>3, BeginNext
    <3>. QED BY <1>3, <3>1, <3>2, <3>3 DEF Request
  <2>2. UNCHANGED aggregate
    BY <1>3 DEF Request, Continue, acquire, enter, reread, Answer, replace, release,
       revokeRefreshToken, revokeAccessToken, stage, schedule, check, delete, fail, begin
  <2>3. \A a \in Accounts : Ways(a)' = Ways(a)
    BY <2>2, SameLinks
  <2>4. accounts \subseteq Accounts
    BY DEF ProviderInv, TypeOK
  <2>. QED BY <2>1, <2>3, <2>4
<1>. QED BY <1>1, <1>2, <1>3 DEF Next

\* The inductive invariant of the links, the vault, the refresh locks and the
\* requests holds at every step.
THEOREM ProviderInvariant == Spec => []ProviderInv
<1>1. ProviderInv /\ [Next]_vars => ProviderInv'
  BY ProviderNext
<1>. QED BY <1>1, ProviderInit, PTL DEF Spec

\* _refresh in providers/oauth/_accounts.py: the lock that _acquire_refresh_lock
\* hands out serialises the refreshes of one provider account, whatever requests
\* arrive, fail, are cancelled or release in between, and none of them presents
\* a token whose successor the service has received.
THEOREM RefreshesTakeTurns == Spec => []RefreshesAreSerial
<1>1. ProviderInv => RefreshesAreSerial
  <2>. SUFFICES ASSUME ProviderInv PROVE RefreshesAreSerial
    OBVIOUS
  <2>1. OneRefreshAtATime
    <3>. SUFFICES ASSUME NEW r \in Requests, NEW s \in Requests,
                         req[r].work = "refresh", req[s].work = "refresh",
                         req[r].identity = req[s].identity,
                         {req[r].pc, req[s].pc} \subseteq
                           {"holding", "calling", "answered", "refused", "deleting"}
                  PROVE  r = s
      BY DEF OneRefreshAtATime
    <3>1. Within(req[r]) /\ Within(req[s])
      BY DEF Within
    <3>. QED BY <3>1, OneWithin
  <2>2. SpentTokensStaySpent
    <3>. SUFFICES ASSUME NEW r \in Requests, req[r].pc = "calling" PROVE req[r].token \notin settled
      BY DEF SpentTokensStaySpent, At
    <3>1. req[r].identity \in Identities /\ req[r].token \in Tokens /\ req[r].work = "refresh"
      BY Around DEF ShapeOK
    <3>2. Has(req[r].identity, req[r].token)
      BY <3>1 DEF Has, Carries
    <3>. QED BY <3>1, <3>2 DEF ProviderInv, TokensOK
  <2>. QED BY <2>1, <2>2 DEF RefreshesAreSerial, ProviderInv
<1>. QED BY <1>1, ProviderInvariant, PTL

\* login, link, upgrade and unlink keep the vault, the identity index and the
\* method count of an account together, through rollbacks and cancellations.
THEOREM LinksStayAccountedFor == Spec => []LinksAreAccountedFor
<1>1. ProviderInv => LinksAreAccountedFor
  BY DEF ProviderInv, LinksOK
<1>. QED BY <1>1, ProviderInvariant, PTL

\* unlink checks require_remaining on the method count: no account that can log
\* in is left without a way to.
THEOREM AccountsKeepALogin == Spec => NobodyIsLockedOut
<1>1. ProviderInv /\ [Next]_vars => [\A a \in accounts : Ways(a) > 0 => Ways(a)' > 0]_vars
  BY ProviderNext
<1>. QED BY <1>1, ProviderInvariant, PTL DEF Spec, NobodyIsLockedOut

----------------------------------------------------------------------------
(* Discards                                                                *)

\* What a request that discards knows of the token it read: the provider called
\* it dead, or revoked it, or the material to revoke it is kept.
TraceOK(q) ==
  /\ q.pc # "idle" => upstream[q.token] # "unissued"
  /\ q.work = "refresh" /\ q.pc \in {"refused", "deleting"} => upstream[q.token] # "live"
  /\ q.pc = "access" /\ ~q.failed => upstream[q.token] # "live"
  /\ q.work = "revoke" /\ q.pc \in {"checking", "deleting"}
       => upstream[q.token] # "live" \/ retry[q.identity] = q.token

TracesOK == \A r \in Requests : TraceOK(req[r])

\* The provider gives a token out once, and what is dead stays dead.
OnlyDies ==
  \A t \in Tokens : upstream[t] # "unissued" =>
    upstream'[t] # "unissued" /\ (upstream[t] # "live" => upstream'[t] # "live")

\* No two revocations of one provider account are under way at a time.
SoleRevocations ==
  \A r, s \in Requests :
    req[r].work = "revoke" /\ req[s].work = "revoke" /\ req[r].identity = req[s].identity => r = s

LEMMA UpstreamOnlyDies ==
  ASSUME ProviderInv, [Next]_vars
  PROVE  OnlyDies
<1>1. upstream \in [Tokens -> {"unissued", "live", "rotated", "revoked"}]
  BY DEF ProviderInv, TypeOK
<1>2. CASE UNCHANGED upstream
  BY <1>2 DEF OnlyDies
<1>3. ASSUME NEW t \in Tokens, Issues(t), upstream' = [upstream EXCEPT ![t] = "live"] PROVE OnlyDies
  BY <1>1, <1>3 DEF OnlyDies, Issues
<1>4. ASSUME NEW i \in Identities, RetainOrDiscard(i) PROVE OnlyDies
  BY <1>2, <1>3, <1>4 DEF RetainOrDiscard
<1>5. ASSUME Aggregate PROVE OnlyDies
  <2>1. PICK i \in Identities :
          login(i) \/ \E a \in Accounts : provision(i, a) \/ link(a, i) \/ upgrade(a, i) \/ unlink(a, i)
    BY <1>5 DEF Aggregate
  <2>2. UNCHANGED upstream \/ RetainOrDiscard(i)
    BY <2>1 DEF login, provision, Rollback, link, upgrade, unlink
  <2>. QED BY <1>2, <1>4, <2>2
<1>6. ASSUME NEW r \in Requests, Answer(r) PROVE OnlyDies
  <2>1. CASE UNCHANGED upstream
    BY <1>2, <2>1
  <2>2. ASSUME NEW t \in Tokens, Issues(t), upstream[req[r].token] = "live",
               upstream' = [upstream EXCEPT ![t] = "live", ![req[r].token] = "rotated"]
        PROVE  OnlyDies
    BY <1>1, <2>2 DEF OnlyDies, Issues
  <2>. QED BY <1>6, <2>1, <2>2 DEF Answer
<1>7. ASSUME NEW r \in Requests, revokeRefreshToken(r) PROVE OnlyDies
  <2>1. PICK reached \in BOOLEAN :
          upstream' = [upstream EXCEPT ![req[r].token] = IF reached /\ @ = "live" THEN "revoked" ELSE @]
    BY <1>7 DEF revokeRefreshToken
  <2>. QED BY <1>1, <2>1 DEF OnlyDies
<1>8. ASSUME NEW r \in Requests, Request(r) PROVE OnlyDies
  <2>1. CASE Answer(r) \/ revokeRefreshToken(r)
    BY <1>6, <1>7, <2>1
  <2>2. CASE ~Answer(r) /\ ~revokeRefreshToken(r)
    <3>1. UNCHANGED upstream
      BY <1>8, <2>2 DEF Request, Continue, acquire, enter, reread, replace, release, revokeAccessToken,
         stage, schedule, check, delete, fail, begin
    <3>. QED BY <1>2, <3>1
  <2>. QED BY <2>1, <2>2
<1>. QED BY <1>2, <1>5, <1>8 DEF Next, vars

\* A step of one request to p, of whose trace nobody else takes anything away.
LEMMA TraceStep ==
  ASSUME ProviderInv, TracesOK, OnlyDies, NEW r \in Requests, NEW p, req' = [req EXCEPT ![r] = p],
         \A s \in Requests \ {r} : req[s].work = "revoke" => retry'[req[s].identity] = retry[req[s].identity],
         /\ p.pc # "idle" => upstream'[p.token] # "unissued"
         /\ p.work = "refresh" /\ p.pc \in {"refused", "deleting"} => upstream'[p.token] # "live"
         /\ p.pc = "access" /\ ~p.failed => upstream'[p.token] # "live"
         /\ p.work = "revoke" /\ p.pc \in {"checking", "deleting"}
              => upstream'[p.token] # "live" \/ retry'[p.identity] = p.token
  PROVE  TracesOK'
<1>1. req'[r] = p /\ \A s \in Requests \ {r} : req'[s] = req[s]
  BY Around
<1>2. TraceOK(req[r])'
  BY <1>1 DEF TraceOK
<1>3. ASSUME NEW s \in Requests \ {r} PROVE TraceOK(req[s])'
  <2>1. TraceOK(req[s]) /\ (req[s].pc # "idle" => req[s].token \in Tokens)
    BY Around DEF TracesOK
  <2>2. req[s].pc # "idle" => /\ upstream'[req[s].token] # "unissued"
                              /\ upstream[req[s].token] # "live" => upstream'[req[s].token] # "live"
    BY <2>1 DEF OnlyDies, TraceOK
  <2>. QED BY <1>1, <2>1, <2>2 DEF TraceOK
<1>. QED BY <1>2, <1>3 DEF TracesOK

\* Who stops, or leaves the critical section, has nothing to answer for.
LEMMA TraceEnds ==
  ASSUME ProviderInv, TracesOK, OnlyDies, NEW r \in Requests, UNCHANGED retry,
         req' = [req EXCEPT ![r] = Idle] \/ (req[r].pc # "idle" /\ req' = [req EXCEPT ![r].pc = "releasing"])
  PROVE  TracesOK'
<1>1. CASE req' = [req EXCEPT ![r] = Idle]
  <2>1. Idle.pc = "idle" /\ Idle.work = "none"
    BY DEF Idle
  <2>. HIDE DEF Idle
  <2>. QED BY <1>1, <2>1, TraceStep
<1>2. CASE req[r].pc # "idle" /\ req' = [req EXCEPT ![r].pc = "releasing"]
  <2>1. PICK p : p = [req[r] EXCEPT !.pc = "releasing"]
    OBVIOUS
  <2>2. p.pc = "releasing" /\ p.token = req[r].token
    BY <2>1, Around DEF Progress
  <2>3. upstream'[p.token] # "unissued"
    BY <1>2, <2>2, Around DEF OnlyDies, TracesOK, TraceOK
  <2>4. req' = [req EXCEPT ![r] = p]
    BY <1>2, <2>1, Around
  <2>. QED BY <2>2, <2>3, <2>4, TraceStep
<1>. QED BY <1>1, <1>2

\* A request that moves on by its pc, to a point where it has nothing to answer
\* for or still has what it had.
LEMMA TraceMoves ==
  ASSUME ProviderInv, TracesOK, OnlyDies, NEW r \in Requests, UNCHANGED retry, req[r].pc # "idle",
         NEW p \in Progress, req' = [req EXCEPT ![r] = p],
         p.token = req[r].token, p.identity = req[r].identity, p.work = req[r].work,
         \/ p.pc \in {"waiting", "holding", "calling", "answered", "staging", "scheduling"}
         \/ p.pc \in {"refused", "checking", "deleting", "access"} /\ upstream'[p.token] # "live"
         \/ p.work = "revoke" /\ p.pc = "deleting" /\ req[r].pc = "checking"
         \/ p.pc = "access" /\ p.failed
  PROVE  TracesOK'
<1>1. TraceOK(req[r]) /\ req[r].token \in Tokens /\ req[r].identity \in Identities
  BY Around DEF TracesOK
<1>2. /\ upstream'[p.token] # "unissued"
      /\ upstream[p.token] # "live" => upstream'[p.token] # "live"
  BY <1>1 DEF OnlyDies, TraceOK
<1>3. p.work = "revoke" /\ req[r].pc = "checking" => upstream'[p.token] # "live" \/ retry'[p.identity] = p.token
  BY <1>1, <1>2 DEF TraceOK
<1>. QED BY <1>2, <1>3, TraceStep

LEMMA TraceBegin ==
  ASSUME ProviderInv, TracesOK, OnlyDies, NEW r \in Requests, NEW work \in {"refresh", "revoke"}, begin(r, work)
  PROVE  TracesOK'
<1>1. PICK i \in Retained :
        /\ vault[i] # Empty
        /\ req' = [req EXCEPT ![r] = [Idle EXCEPT !.pc = "observed", !.work = work, !.identity = i,
                                        !.version = vault[i].version, !.token = vault[i].token]]
  BY DEF begin
<1>2. i \in Identities /\ vault[i].token \in Tokens
  BY <1>1, ProviderAssumption DEF ProviderInv, VaultOK
<1>3. PICK p : p = [Idle EXCEPT !.pc = "observed", !.work = work, !.identity = i,
                                !.version = vault[i].version, !.token = vault[i].token]
  OBVIOUS
<1>4. p.pc = "observed" /\ p.token = vault[i].token
  BY <1>3 DEF Idle
<1>5. upstream'[p.token] # "unissued"
  BY <1>2, <1>4 DEF ProviderInv, TokensOK, Has, OnlyDies
<1>. QED BY <1>1, <1>3, <1>4, <1>5, TraceStep DEF begin

\* The second read: an unchanged record is not the empty one.
LEMMA TraceReread ==
  ASSUME ProviderInv, TracesOK, OnlyDies, NEW r \in Requests, reread(r)
  PROVE  TracesOK'
<1>1. req[r].pc = "holding" /\ UNCHANGED retry /\ req[r] \in Progress /\ ShapeOK(req[r])
  BY Around DEF reread, At
<1>2. CASE Versioned(r)
  <2>1. PICK p : p = [req[r] EXCEPT !.pc = "calling", !.token = Stored(r).token]
    OBVIOUS
  <2>2. p.pc = "calling" /\ p.token = Stored(r).token /\ req' = [req EXCEPT ![r] = p]
    BY <1>1, <1>2, <2>1, Around DEF reread, Progress
  <2>3. req[r].identity \in Identities /\ Stored(r).version > 0
    BY <1>1, <1>2 DEF ShapeOK, Versioned
  <2>4. Stored(r) # Empty
    BY <2>3 DEF Empty
  <2>5. p.token \in Tokens /\ Has(req[r].identity, p.token)
    BY <2>2, <2>3, <2>4 DEF ProviderInv, VaultOK, Stored, Has
  <2>6. upstream'[p.token] # "unissued"
    BY <2>3, <2>5 DEF ProviderInv, TokensOK, OnlyDies
  <2>. QED BY <1>1, <2>2, <2>6, TraceStep
<1>3. CASE ~Versioned(r)
  BY <1>1, <1>3, TraceEnds DEF reread, Leave
<1>. QED BY <1>2, <1>3

LEMMA TraceAnswer ==
  ASSUME ProviderInv, TracesOK, OnlyDies, NEW r \in Requests, Answer(r)
  PROVE  TracesOK'
<1>1. /\ req[r].pc = "calling" /\ UNCHANGED retry /\ req[r] \in Progress /\ ShapeOK(req[r])
      /\ req[r].token \in Tokens
  BY Around DEF Answer, At
<1>2. CASE upstream[req[r].token] # "live"
  <2>1. PICK p : p = [req[r] EXCEPT !.pc = "refused"]
    OBVIOUS
  <2>2. p \in Progress /\ p.pc = "refused" /\ p.token = req[r].token /\ p.identity = req[r].identity /\ p.work = req[r].work
    BY <1>1, <2>1 DEF Progress
  <2>3. req' = [req EXCEPT ![r] = p] /\ upstream' = upstream
    BY <1>1, <1>2, <2>1 DEF Answer, Moves
  <2>. QED BY <1>1, <1>2, <2>2, <2>3, TraceMoves
<1>3. CASE upstream[req[r].token] = "live"
  <2>1. PICK t \in Tokens : req' = [req EXCEPT ![r].pc = "answered", ![r].fresh = t]
    BY <1>1, <1>3 DEF Answer
  <2>2. PICK p : p = [req[r] EXCEPT !.pc = "answered", !.fresh = t]
    OBVIOUS
  <2>3. p \in Progress /\ p.pc = "answered" /\ p.token = req[r].token /\ p.identity = req[r].identity /\ p.work = req[r].work
    BY <1>1, <2>2 DEF Progress
  <2>4. req' = [req EXCEPT ![r] = p]
    BY <2>1, <2>2, Around
  <2>. QED BY <1>1, <2>3, <2>4, TraceMoves
<1>. QED BY <1>2, <1>3

\* A revocation that did not fail reached the provider.
LEMMA TraceRevoke ==
  ASSUME ProviderInv, TracesOK, OnlyDies, NEW r \in Requests, revokeRefreshToken(r)
  PROVE  TracesOK'
<1>1. PICK reached \in BOOLEAN, failed \in BOOLEAN :
        /\ reached \/ failed
        /\ upstream' = [upstream EXCEPT ![req[r].token] = IF reached /\ @ = "live" THEN "revoked" ELSE @]
        /\ req' = [req EXCEPT ![r].pc = "access", ![r].failed = failed]
  BY DEF revokeRefreshToken
<1>2. req[r].pc = "observed" /\ req[r] \in Progress /\ req[r].token \in Tokens /\ UNCHANGED retry
  BY Around DEF revokeRefreshToken, At
<1>3. PICK p : p = [req[r] EXCEPT !.pc = "access", !.failed = failed]
  OBVIOUS
<1>4. p \in Progress /\ p.pc = "access" /\ p.failed = failed
      /\ p.token = req[r].token /\ p.identity = req[r].identity /\ p.work = req[r].work
  BY <1>2, <1>3 DEF Progress
<1>5. req' = [req EXCEPT ![r] = p]
  BY <1>1, <1>3, Around
<1>6. ~failed => upstream'[req[r].token] # "live"
  BY <1>1, <1>2, Around
<1>. QED BY <1>2, <1>4, <1>5, <1>6, TraceMoves

LEMMA TraceRevokeAccess ==
  ASSUME ProviderInv, TracesOK, OnlyDies, NEW r \in Requests, revokeAccessToken(r)
  PROVE  TracesOK'
<1>1. /\ req[r].pc = "access" /\ req[r] \in Progress /\ req[r].token \in Tokens
      /\ UNCHANGED <<retry, upstream>> /\ TraceOK(req[r])
  BY Around DEF revokeAccessToken, At, TracesOK
<1>2. CASE req' = [req EXCEPT ![r].pc = "staging", ![r].failed = TRUE]
  <2>1. PICK p : p = [req[r] EXCEPT !.pc = "staging", !.failed = TRUE]
    OBVIOUS
  <2>2. p \in Progress /\ p.pc = "staging" /\ p.token = req[r].token /\ p.identity = req[r].identity /\ p.work = req[r].work
    BY <1>1, <2>1 DEF Progress
  <2>3. req' = [req EXCEPT ![r] = p]
    BY <1>2, <2>1, Around
  <2>. QED BY <1>1, <2>2, <2>3, TraceMoves
<1>3. CASE req' = [req EXCEPT ![r].pc = IF req[r].failed THEN "staging" ELSE "checking"]
  <2>1. PICK p : p = [req[r] EXCEPT !.pc = IF req[r].failed THEN "staging" ELSE "checking"]
    OBVIOUS
  <2>2. p \in Progress /\ p.token = req[r].token /\ p.identity = req[r].identity /\ p.work = req[r].work
    BY <1>1, <2>1 DEF Progress
  <2>3. IF req[r].failed THEN p.pc = "staging" ELSE p.pc = "checking"
    BY <1>1, <2>1 DEF Progress
  <2>4. ~req[r].failed => upstream'[p.token] # "live"
    BY <1>1, <2>2 DEF TraceOK
  <2>5. req' = [req EXCEPT ![r] = p]
    BY <1>3, <2>1, Around
  <2>. QED BY <1>1, <2>2, <2>3, <2>4, <2>5, TraceMoves
<1>. QED BY <1>2, <1>3 DEF revokeAccessToken

\* The material is kept: whoever else is revoking is about another identity.
LEMMA TraceSchedule ==
  ASSUME ProviderInv, TracesOK, OnlyDies, SoleRevocations, NEW r \in Requests, schedule(r)
  PROVE  TracesOK'
<1>1. /\ req[r].pc = "scheduling" /\ req[r] \in Progress /\ ShapeOK(req[r]) /\ TraceOK(req[r])
      /\ retry' = [retry EXCEPT ![req[r].identity] = req[r].token]
  BY Around DEF schedule, Moves, At, TracesOK
<1>2. /\ req[r].identity \in Identities /\ req[r].token \in Tokens /\ req[r].work = "revoke"
      /\ retry \in [Identities -> Tokens \cup {NoToken}]
  BY <1>1, Around DEF ShapeOK
<1>3. PICK p : p = [req[r] EXCEPT !.pc = "checking"]
  OBVIOUS
<1>4. p.pc = "checking" /\ p.token = req[r].token /\ p.identity = req[r].identity /\ p.work = "revoke"
  BY <1>1, <1>2, <1>3 DEF Progress
<1>5. req' = [req EXCEPT ![r] = p]
  BY <1>3 DEF schedule, Moves
<1>6. ASSUME NEW q \in Requests \ {r}, req[q].work = "revoke"
      PROVE  retry'[req[q].identity] = retry[req[q].identity]
  <2>1. req[q].identity # req[r].identity
    BY <1>2, <1>6 DEF SoleRevocations
  <2>2. req[q].pc # "idle" => req[q].identity \in Identities
    BY Around
  <2>. QED BY <1>1, <2>1
<1>7. retry'[p.identity] = p.token
  BY <1>1, <1>2, <1>4
<1>8. upstream'[p.token] # "unissued"
  BY <1>1, <1>2, <1>4 DEF TraceOK, OnlyDies
<1>. QED BY <1>4, <1>5, <1>6, <1>7, <1>8, TraceStep

\* A step that moves only the pc on.
LEMMA TraceQuiet ==
  ASSUME ProviderInv, TracesOK, OnlyDies, NEW r \in Requests, req[r].pc # "idle", UNCHANGED retry,
         NEW to, req' = [req EXCEPT ![r].pc = to],
         \/ to \in {"waiting", "holding", "scheduling"}
         \/ to = "deleting" /\ req[r].pc \in {"checking", "refused"}
  PROVE  TracesOK'
<1>1. /\ req[r] \in Progress /\ req[r].token \in Tokens /\ TraceOK(req[r]) /\ ShapeOK(req[r])
  BY Around DEF TracesOK
<1>2. PICK p : p = [req[r] EXCEPT !.pc = to]
  OBVIOUS
<1>3. p \in Progress /\ p.pc = to /\ p.token = req[r].token /\ p.identity = req[r].identity /\ p.work = req[r].work
  BY <1>1, <1>2 DEF Progress
<1>4. req' = [req EXCEPT ![r] = p]
  BY <1>2, Around
<1>5. to = "deleting" => upstream'[p.token] # "live" \/ (p.work = "revoke" /\ req[r].pc = "checking")
  BY <1>1, <1>3 DEF TraceOK, ShapeOK, OnlyDies
<1>. QED BY <1>3, <1>4, <1>5, TraceMoves

LEMMA TraceCheck ==
  ASSUME ProviderInv, TracesOK, OnlyDies, NEW r \in Requests, check(r) \/ delete(r) \/ replace(r) \/ fail(r)
  PROVE  TracesOK'
<1>1. UNCHANGED retry /\ req[r].pc # "idle"
  BY DEF check, delete, replace, fail, At
<1>2. CASE req' = [req EXCEPT ![r] = Idle] \/ req' = [req EXCEPT ![r].pc = "releasing"]
  BY <1>1, <1>2, TraceEnds
<1>3. CASE check(r) /\ req' = [req EXCEPT ![r].pc = "deleting"]
  BY <1>1, <1>3, TraceQuiet DEF check, At
<1>. QED BY <1>2, <1>3 DEF check, delete, replace, fail, Leave, Moves

LEMMA TraceStage ==
  ASSUME ProviderInv, TracesOK, OnlyDies, NEW r \in Requests, stage(r)
  PROVE  TracesOK'
<1>1. UNCHANGED retry /\ req[r].pc = "staging"
  BY DEF stage, At
<1>2. CASE Versioned(r)
  <2>1. req' = [req EXCEPT ![r].pc = "scheduling"]
    BY <1>2 DEF stage
  <2>. QED BY <1>1, <2>1, TraceQuiet
<1>3. CASE ~Versioned(r)
  <2>1. req' = [req EXCEPT ![r] = Idle]
    BY <1>3 DEF stage
  <2>. QED BY <1>1, <2>1, TraceEnds
<1>. QED BY <1>2, <1>3

LEMMA TraceAcquire ==
  ASSUME ProviderInv, TracesOK, OnlyDies, NEW r \in Requests, acquire(r)
  PROVE  TracesOK'
<1>1. UNCHANGED retry /\ req[r].pc = "observed" /\ req[r] \in Progress
  BY Around DEF acquire, At
<1>2. PICK p : p = [req[r] EXCEPT !.pc = "waiting", !.lock = Entry(req[r].identity)]
  OBVIOUS
<1>3. p.pc = "waiting" /\ p.token = req[r].token
  BY <1>1, <1>2 DEF Progress
<1>4. req' = [req EXCEPT ![r] = p]
  BY <1>2, Around DEF acquire
<1>5. upstream'[p.token] # "unissued"
  BY <1>1, <1>3, Around DEF TracesOK, TraceOK, OnlyDies
<1>. QED BY <1>1, <1>3, <1>4, <1>5, TraceStep

LEMMA TraceNext ==
  ASSUME ProviderInv, TracesOK, SoleRevocations, [Next]_vars
  PROVE  TracesOK'
<1>1. OnlyDies
  BY UpstreamOnlyDies
<1>2. CASE UNCHANGED <<req, retry>>
  <2>1. ASSUME NEW r \in Requests PROVE TraceOK(req[r])'
    <3>1. TraceOK(req[r]) /\ (req[r].pc # "idle" => req[r].token \in Tokens)
      BY Around DEF TracesOK
    <3>2. req[r].pc # "idle" => /\ upstream'[req[r].token] # "unissued"
                                /\ upstream[req[r].token] # "live" => upstream'[req[r].token] # "live"
      BY <1>1, <3>1 DEF OnlyDies, TraceOK
    <3>3. req[r].work \in {"refresh", "revoke"} /\ req[r].pc \in {"refused", "deleting", "access", "checking"} => req[r].pc # "idle"
      OBVIOUS
    <3>. QED BY <1>2, <3>1, <3>2, <3>3 DEF TraceOK
  <2>. QED BY <2>1 DEF TracesOK
<1>3. CASE Aggregate
  <2>1. UNCHANGED <<req, retry>>
    BY <1>3 DEF Aggregate, login, provision, link, upgrade, unlink
  <2>. QED BY <1>2, <2>1
<1>4. ASSUME NEW r \in Requests, Request(r) PROVE TracesOK'
  <2>1. CASE enter(r)
    <3>1. UNCHANGED retry /\ req[r].pc = "waiting" /\ req' = [req EXCEPT ![r].pc = "holding"]
      BY <2>1 DEF enter, Moves, At
    <3>. QED BY <1>1, <3>1, TraceQuiet
  <2>2. CASE release(r)
    BY <1>1, <2>2, TraceEnds DEF release
  <2>. QED BY <1>1, <1>4, <2>1, <2>2, TraceBegin, TraceAcquire, TraceReread, TraceAnswer, TraceRevoke,
              TraceRevokeAccess, TraceStage, TraceSchedule, TraceCheck DEF Request, Continue
<1>. QED BY <1>2, <1>3, <1>4 DEF Next, vars

\* A discard of the token a request read leaves it dead, or kept for a retry.
LEMMA Discards ==
  ASSUME ProviderInv, TracesOK
  PROVE  \A r \in Requests :
           At(r, "deleting") => upstream[req[r].token] # "live" \/ retry[req[r].identity] = req[r].token
BY Around DEF TracesOK, TraceOK, At, ShapeOK

\* discard_tokens and stage_revocation_retry, where no two revocations of one
\* provider account overlap: what a refused refresh or a revocation deletes is
\* dead at the provider, or its revocation is scheduled to be tried again.  The
\* retry store keeps one record per provider account, hence the hypothesis.
THEOREM DiscardsLeaveATrace ==
  Spec /\ []SoleRevocations => DiscardedTokensAreDeadOrKept
<1>1. Init => TracesOK
  BY DEF Init, TracesOK, TraceOK, Idle
<1>2. Spec /\ []SoleRevocations => []TracesOK
  <2>1. ProviderInv /\ TracesOK /\ SoleRevocations /\ [Next]_vars => TracesOK'
    BY TraceNext
  <2>. QED BY <1>1, <2>1, ProviderInvariant, PTL DEF Spec
<1>3. ProviderInv /\ TracesOK /\ [Next]_vars =>
        [\A r \in Requests :
           At(r, "deleting") /\ req'[r].pc # "deleting"
               /\ Stored(r).token = req[r].token /\ vault'[req[r].identity] = Empty
           => upstream[req[r].token] # "live" \/ retry[req[r].identity] = req[r].token]_vars
  BY Discards
<1>. QED BY <1>2, <1>3, ProviderInvariant, PTL DEF Spec, DiscardedTokensAreDeadOrKept

\* With one revoking request, an unlink or a discard leaves neither an account
\* without a login nor a live token that nobody remembers.
THEOREM NothingStaysStranded ==
  ASSUME \A r, s \in Revokers : r = s
  PROVE  Spec => NothingIsStranded
<1>. DEFINE Revoking == \A r \in Requests : req[r].work = "revoke" => r \in Revokers
<1>1. Init => Revoking
  BY DEF Init, Idle
<1>2. ProviderInv /\ Revoking /\ [Next]_vars => Revoking'
  <2>. SUFFICES ASSUME ProviderInv, Revoking, [Next]_vars PROVE Revoking'
    OBVIOUS
  <2>1. req \in [Requests -> Progress]
    BY DEF ProviderInv, TypeOK
  <2>2. CASE UNCHANGED req
    BY <2>2
  <2>3. CASE Aggregate
    BY <2>2, <2>3 DEF Aggregate, login, provision, link, upgrade, unlink
  <2>4. ASSUME NEW r \in Requests, Request(r) PROVE Revoking'
    <3>1. \A s \in Requests \ {r} : req'[s] = req[s]
      BY <2>1, <2>4 DEF Request, Continue, acquire, enter, reread, Answer, replace, release, Leave, Moves,
         revokeRefreshToken, revokeAccessToken, stage, schedule, check, delete, fail, begin
    <3>2. req'[r].work = "revoke" => r \in Revokers
      <4>1. CASE \E work \in {"refresh", "revoke"} : begin(r, work)
        BY <2>1, <4>1 DEF begin, Idle
      <4>2. CASE Continue(r) \/ fail(r)
        <5>1. req'[r].work = req[r].work \/ req'[r] = Idle
          BY <2>1, <4>2 DEF Continue, acquire, enter, reread, Answer, replace, release, Leave, Moves,
             revokeRefreshToken, revokeAccessToken, stage, schedule, check, delete, fail, Progress
        <5>. QED BY <5>1 DEF Idle
      <4>. QED BY <2>4, <4>1, <4>2 DEF Request
    <3>. QED BY <3>1, <3>2
  <2>. QED BY <2>2, <2>3, <2>4 DEF Next, vars
<1>3. Revoking => SoleRevocations
  BY DEF SoleRevocations
<1>. HIDE DEF Revoking
<1>4. Spec => []SoleRevocations
  BY <1>1, <1>2, <1>3, ProviderInvariant, PTL DEF Spec
<1>. QED BY <1>4, DiscardsLeaveATrace, AccountsKeepALogin, PTL DEF NothingIsStranded

----------------------------------------------------------------------------
(* The clients                                                             *)

\* The invariant.

TxOK(s) == s.tx \in Transaction /\ s.tx.provider = s.by /\ s.by \in Providers

LoggingIn(s) == s.pc \in {"redirected", "exchanging"} \/ (s.pc = "asked" /\ s.scopes = {})

\* The grant of the flow is in its hands.
Granted(s) ==
  \/ s.pc \in {"tokens", "selecting", "verifying", "identified", "refreshing", "kept", "revoking"}
  \/ s.pc = "asked" /\ s.scopes # {}

\* A request under way has met no refusal and knows no addresses yet.
Unanswered(s) ==
  s.pc \in {"redirected", "exchanging", "asked", "tokens", "selecting", "verifying", "refreshing"}
    => s.error = "none" /\ s.emails = <<>> /\ s.email = 0

\* An ID token names finitely many audiences.
Word(id) == id # None => IsFiniteSet(id.aud)

StageOK(s) ==
  /\ LoggingIn(s) => TxOK(s) /\ s.scopes = {} /\ s.refresh = 0
  /\ s.pc \in {"tokens", "selecting", "verifying"} => TxOK(s)
  /\ Granted(s) => Required \subseteq s.scopes
  /\ s.pc \in {"idle", "over"} => s.scopes = {}
  /\ Unanswered(s)
  /\ Word(s.id)
  /\ s.pc = "asked" => s.answer \in TokenAnswer /\ Word(s.answer.id)
  /\ s.pc \in {"selecting", "verifying"} => s.by \in OIDC /\ s.id # None
  /\ s.pc = "verifying" => /\ s.key \in Key /\ s.key.kid = s.id.key.kid
                           /\ s.verifier = s.key.version

\* What MadeFor says of a flow's values.
SaidFor(s) ==
  /\ s.id.iss = IssuerOf[s.by] /\ s.id.key = s.key
  /\ s.by \in s.id.aud /\ s.id.azp \in {None, s.by}
  /\ s.id.aud # {s.by} => s.id.azp = s.by
  /\ s.id.nonce = s.tx.nonce /\ s.id.sound

BestEmail(emails, e) ==
  /\ e # 0 => emails[e].verified
  /\ (\E n \in DOMAIN emails : emails[n].verified) => e # 0
  /\ (\E n \in DOMAIN emails : emails[n].verified /\ emails[n].primary) => emails[e].primary

Identified(s) ==
  s.pc = "identified" =>
    /\ s.tx.provider = s.by
    /\ s.by \in OIDC => SaidFor(s)
    /\ BestEmail(s.emails, s.email)

\* The tokens in the flow's hands are the server's, and so is an answer on its way.
InStep(s, g) == s.scopes \subseteq g.scopes /\ s.refresh = g.live

\* The refresh token, if there is one, is no longer accepted.
Useless(refresh, g) == refresh # 0 => refresh # g.live

GrantOK(s, g) ==
  /\ s.error = "reauthorize" => s.pc = "over" /\ Useless(s.refresh, g)
  /\ Granted(s) /\ s.pc # "asked" /\ ~g.missed => InStep(s, g)
  /\ s.pc = "refreshing" => s.fallback \subseteq s.scopes
  /\ s.pc = "asked" /\ s.answer.status = "ok" /\ ~g.missed =>
       /\ KeptRefresh(s.answer, s.refresh) = g.live
       /\ GrantedScopes(s.answer, s.fallback) \subseteq g.scopes
  /\ s.pc = "asked" /\ s.answer.status # "ok" /\ s.scopes # {} /\ ~g.missed => InStep(s, g)
  /\ s.pc = "asked" /\ s.answer.status = "invalid_grant" => Useless(s.refresh, g)

FlowOK(s, g) == s \in Flow /\ g \in Grant /\ StageOK(s) /\ Identified(s) /\ GrantOK(s, g)

FlowsOK ==
  /\ flow \in [Flows -> Flow] /\ grant \in [Flows -> Grant]
  /\ \A f \in Flows : FlowOK(flow[f], grant[f])

\* A verifier belongs to a client that was built, over its own issuer's keys.
ClientOK(p) ==
  /\ client[p].stage = "fetching" => client[p].source \in Issuers
  /\ client[p].stage = "built" /\ p \in OIDC => client[p].jwks = IssuerOf[p]

Verifying ==
  \A f \in Flows : flow[f].pc \in {"selecting", "verifying"} => client[flow[f].by].stage = "built"

KeysOK ==
  /\ signing \in [Issuers -> Key] /\ selectable \in [Issuers -> Key]
  /\ \A i \in Issuers : signing[i].version <= events + 1

ClientsInv ==
  /\ KeysOK /\ FlowsOK /\ Verifying
  /\ discovery \in {"open", "closed"} /\ events \in 0 .. MaxEvents
  /\ client \in [Providers -> Client] /\ \A p \in Providers : ClientOK(p)

----------------------------------------------------------------------------
\* How a flow goes on.

LEMMA NoFlowOK ==
  /\ NoFlow \in Flow /\ NoGrant \in Grant /\ \A g \in Grant : FlowOK(NoFlow, g)
  /\ NoFlow.pc = "idle" /\ NoFlow.scopes = {} /\ NoFlow.refresh = 0 /\ NoFlow.error = "none"
  /\ NoFlow.id = None /\ NoFlow.answer = None /\ NoFlow.emails = <<>> /\ NoFlow.email = 0
  /\ NoFlow.tx = None /\ NoFlow.key = None
<1>1. /\ NoFlow.pc = "idle" /\ NoFlow.scopes = {} /\ NoFlow.refresh = 0 /\ NoFlow.error = "none"
      /\ NoFlow.id = None /\ NoFlow.answer = None /\ NoFlow.emails = <<>> /\ NoFlow.email = 0
      /\ NoFlow.tx = None /\ NoFlow.key = None
  BY DEF NoFlow
<1>2. 0 \in Generations /\ (CHOOSE p \in Providers : TRUE) \in Providers
  BY ProvidersAssumption DEF Generations
<1>3. NoFlow \in Flow
  BY <1>2 DEF NoFlow, Flow
<1>4. NoGrant \in Grant
  BY <1>2 DEF NoGrant, Grant
<1>5. StageOK(NoFlow)
  BY <1>1 DEF StageOK, LoggingIn, Granted, Unanswered, Word
<1>6. \A g \in Grant : Identified(NoFlow) /\ GrantOK(NoFlow, g)
  BY <1>1 DEF Identified, GrantOK, Granted
<1>. QED BY <1>1, <1>3, <1>4, <1>5, <1>6 DEF FlowOK

\* A step of one flow.
LEMMA FlowMoves ==
  ASSUME FlowsOK, NEW f \in Flows, NEW s, NEW g, FlowOK(s, g),
         flow' = [flow EXCEPT ![f] = s], grant' = [grant EXCEPT ![f] = g]
  PROVE  FlowsOK'
BY DEF FlowsOK, FlowOK

\* And of it alone.
LEMMA OnlyFlows ==
  ASSUME ClientsInv, NEW f \in Flows, NEW s, NEW g, FlowOK(s, g),
         flow' = [flow EXCEPT ![f] = s], grant' = [grant EXCEPT ![f] = g],
         s.pc \in {"selecting", "verifying"} => client[s.by].stage = "built",
         events' \in 0 .. MaxEvents, events <= events',
         UNCHANGED <<signing, selectable, discovery, client>>
  PROVE  ClientsInv'
<1>1. FlowsOK'
  BY FlowMoves DEF ClientsInv
<1>2. Verifying'
  BY DEF ClientsInv, Verifying, FlowsOK
<1>3. KeysOK'
  BY DEF ClientsInv, KeysOK, Key, Generations
<1>. QED BY <1>1, <1>2, <1>3 DEF ClientsInv, ClientOK

LEMMA Of ==
  ASSUME ClientsInv, NEW f \in Flows
  PROVE  /\ flow[f] \in Flow /\ grant[f] \in Grant
         /\ FlowOK(flow[f], grant[f]) /\ StageOK(flow[f]) /\ GrantOK(flow[f], grant[f])
         /\ events \in 0 .. MaxEvents /\ events <= events
         /\ (UNCHANGED grant => grant' = [grant EXCEPT ![f] = grant[f]])
<1>1. FlowsOK /\ events \in 0 .. MaxEvents
  BY DEF ClientsInv
<1>. QED BY <1>1, ProvidersAssumption DEF FlowsOK, FlowOK

LEMMA OverOK ==
  ASSUME ClientsInv, NEW f \in Flows, NEW g \in Grant,
         NEW error \in {"none", "closed", "refused", "reauthorize", "unavailable"},
         error = "reauthorize" => Useless(flow[f].refresh, g), Over(f, error)
  PROVE  \E s : /\ FlowOK(s, g) /\ flow' = [flow EXCEPT ![f] = s]
                /\ s.pc \notin {"selecting", "verifying"}
<1>1. PICK s : s = [NoFlow EXCEPT !.pc = "over", !.by = flow[f].by, !.refresh = flow[f].refresh,
                                  !.error = error]
  OBVIOUS
<1>2. flow[f].by \in Providers /\ flow[f].refresh \in Generations
  BY Of DEF Flow
<1>3. /\ s.pc = "over" /\ s.scopes = {} /\ s.refresh = flow[f].refresh /\ s.error = error
      /\ s.id = None /\ s.answer = None
  BY <1>1, NoFlowOK DEF NoFlow
<1>4. s \in Flow
  BY <1>1, <1>2, NoFlowOK DEF Flow
<1>5. StageOK(s) /\ Identified(s) /\ GrantOK(s, g)
  BY <1>3 DEF StageOK, LoggingIn, Granted, Unanswered, Word, Identified, GrantOK
<1>. QED BY <1>1, <1>3, <1>4, <1>5 DEF Over, Set, FlowOK

LEMMA FailOK ==
  ASSUME ClientsInv, NEW f \in Flows, NEW g \in Grant, flow[f].pc # "idle",
         NEW error \in {"none", "closed", "refused", "unavailable"},
         flow[f].scopes # {} => Granted(flow[f]) /\ (~g.missed => InStep(flow[f], g)),
         Fail(f, error)
  PROVE  \E s : /\ FlowOK(s, g) /\ flow' = [flow EXCEPT ![f] = s]
                /\ s.pc \notin {"selecting", "verifying"}
<1>0. PICK r \in Flow : r = flow[f] /\ StageOK(r)
  BY Of
<1>1. PICK phase \in {"kept", "over"} : phase = IF r.scopes # {} THEN "kept" ELSE "over"
  OBVIOUS
<1>2. PICK s : s = [r EXCEPT !.pc = phase, !.answer = None, !.error = error]
  OBVIOUS
<1>3. /\ s.pc = phase /\ s.scopes = r.scopes /\ s.refresh = r.refresh /\ s.error = error
      /\ s.id = r.id /\ s.answer = None
  BY <1>2 DEF Flow
<1>4. s \in Flow
  BY <1>2 DEF Flow
<1>5. StageOK(s)
  BY <1>0, <1>1, <1>3 DEF StageOK, LoggingIn, Granted, Unanswered, Word
<1>6. Identified(s) /\ GrantOK(s, g)
  BY <1>0, <1>1, <1>3 DEF Identified, GrantOK, Granted, InStep
<1>7. flow' = [flow EXCEPT ![f] = s]
  BY <1>0, <1>1, <1>2 DEF Fail, Set, Holds
<1>. QED BY <1>1, <1>3, <1>4, <1>5, <1>6, <1>7 DEF FlowOK

----------------------------------------------------------------------------
\* Logins and refreshes.

LEMMA BeginStep ==
  ASSUME ClientsInv, NEW f \in Flows, NEW p \in Providers,
         NEW scopes \in SUBSET (Allowed \cup Unlisted), Begin(f, p, scopes)
  PROVE  ClientsInv'
<1>1. events \in Nat /\ events' = events + 1 /\ events' \in 0 .. MaxEvents /\ events' \in Nonces
  BY ProvidersAssumption DEF ClientsInv, Begin, Nonces
<1>2. PICK tx : tx = [provider |-> p, issuer |-> IssuerOf[p], scopes |-> scopes,
                      nonce |-> IF p \in OIDC THEN events + 1 ELSE None]
  OBVIOUS
<1>3. tx \in Transaction /\ tx.provider = p
  <2>1. IssuerOf[p] \in Issuers
    BY ProvidersAssumption
  <2>. QED BY <1>1, <1>2, <2>1 DEF Transaction
<1>4. CASE Over(f, IF Open(p) THEN "refused" ELSE "closed")
  <2>1. PICK s : /\ FlowOK(s, grant[f]) /\ flow' = [flow EXCEPT ![f] = s]
                 /\ s.pc \notin {"selecting", "verifying"}
    BY <1>4, Of, OverOK
  <2>2. events <= events' /\ (UNCHANGED grant => grant' = [grant EXCEPT ![f] = grant[f]])
    BY <1>1, Of
  <2>. QED BY <1>1, <2>1, <2>2, OnlyFlows DEF Begin
<1>5. CASE Set(f, [NoFlow EXCEPT !.pc = "redirected", !.by = p, !.tx = tx])
  <2>1. PICK s : s = [NoFlow EXCEPT !.pc = "redirected", !.by = p, !.tx = tx]
    OBVIOUS
  <2>2. s \in Flow
    BY <1>3, <2>1, NoFlowOK DEF Flow
  <2>3. /\ s.pc = "redirected" /\ s.by = p /\ s.tx = tx /\ s.scopes = {} /\ s.refresh = 0
        /\ s.error = "none" /\ s.id = None /\ s.emails = <<>> /\ s.email = 0
    BY <2>1, NoFlowOK DEF NoFlow
  <2>4. FlowOK(s, grant[f])
    BY <1>3, <2>2, <2>3, Of DEF FlowOK, StageOK, LoggingIn, TxOK, Granted, Unanswered, Word,
                                 Identified, GrantOK
  <2>5. flow' = [flow EXCEPT ![f] = s]
    BY <1>5, <2>1 DEF Set
  <2>6. events <= events' /\ (UNCHANGED grant => grant' = [grant EXCEPT ![f] = grant[f]])
    BY <1>1, Of
  <2>. QED BY <1>1, <2>3, <2>4, <2>5, <2>6, OnlyFlows DEF Begin
<1>. QED BY <1>2, <1>4, <1>5 DEF Begin

\* A step of a flow that leaves its grant and the events as they are.
LEMMA Proceeds ==
  ASSUME ClientsInv, NEW f \in Flows, NEW s, FlowOK(s, grant[f]), flow' = [flow EXCEPT ![f] = s],
         s.pc \in {"selecting", "verifying"} => client[s.by].stage = "built",
         UNCHANGED <<signing, selectable, discovery, client, grant>>,
         events' \in 0 .. MaxEvents, events <= events'
  PROVE  ClientsInv'
BY Of, OnlyFlows

LEMMA Ends ==
  ASSUME ClientsInv, NEW f \in Flows,
         NEW error \in {"none", "closed", "refused", "unavailable"}, Over(f, error),
         UNCHANGED <<signing, selectable, discovery, client, grant, events>>
  PROVE  ClientsInv'
<1>1. PICK s : /\ FlowOK(s, grant[f]) /\ flow' = [flow EXCEPT ![f] = s]
               /\ s.pc \notin {"selecting", "verifying"}
  BY Of, OverOK
<1>. QED BY <1>1, Of, Proceeds

LEMMA Fails ==
  ASSUME ClientsInv, NEW f \in Flows,
         NEW error \in {"closed", "refused"}, Fail(f, error),
         flow[f].pc \in {"exchanging", "identified", "refreshing", "kept", "revoking"},
         UNCHANGED <<signing, selectable, discovery, client, grant>>,
         events' \in 0 .. MaxEvents, events <= events'
  PROVE  ClientsInv'
<1>1. flow[f].scopes # {} => Granted(flow[f]) /\ (~grant[f].missed => InStep(flow[f], grant[f]))
  BY Of DEF StageOK, LoggingIn, Granted, GrantOK
<1>2. PICK s : /\ FlowOK(s, grant[f]) /\ flow' = [flow EXCEPT ![f] = s]
               /\ s.pc \notin {"selecting", "verifying"}
  BY <1>1, Of, FailOK
<1>. QED BY <1>2, Of, Proceeds

LEMMA ExchangeStep ==
  ASSUME ClientsInv, NEW f \in Flows, NEW q \in Providers, Exchange(f, q) PROVE ClientsInv'
<1>1. CASE Over(f, "closed") \/ Over(f, "refused")
  BY <1>1, Ends DEF Exchange
<1>2. CASE Set(f, [flow[f] EXCEPT !.pc = "exchanging", !.fallback = flow[f].tx.scopes])
  <2>1. PICK r \in Flow : r = flow[f] /\ r.pc = "redirected" /\ StageOK(r) /\ GrantOK(r, grant[f])
    BY Of DEF Exchange
  <2>2. TxOK(r) /\ r.tx.scopes \in SUBSET (Allowed \cup Unlisted)
    BY <2>1 DEF StageOK, LoggingIn, TxOK, Transaction
  <2>3. PICK s : s = [r EXCEPT !.pc = "exchanging", !.fallback = r.tx.scopes]
    OBVIOUS
  <2>4. s \in Flow
    BY <2>2, <2>3 DEF Flow
  <2>5. /\ s.pc = "exchanging" /\ s.by = r.by /\ s.tx = r.tx /\ s.scopes = r.scopes
        /\ s.refresh = r.refresh /\ s.error = r.error /\ s.id = r.id /\ s.emails = r.emails
        /\ s.email = r.email
    BY <2>3 DEF Flow
  <2>6. FlowOK(s, grant[f])
    BY <2>1, <2>4, <2>5, Of DEF FlowOK, StageOK, LoggingIn, TxOK, Granted, Unanswered, Word,
                                Identified, GrantOK
  <2>7. flow' = [flow EXCEPT ![f] = s]
    BY <1>2, <2>1, <2>3 DEF Set
  <2>. QED BY <2>5, <2>6, <2>7, Of, Proceeds DEF Exchange
<1>. QED BY <1>1, <1>2 DEF Exchange

LEMMA RefreshStep ==
  ASSUME ClientsInv, NEW f \in Flows, NEW current \in BOOLEAN, Refresh(f, current)
  PROVE  ClientsInv'
<1>1. events' \in 0 .. MaxEvents /\ events <= events'
  BY Of, ProvidersAssumption DEF Refresh
<1>2. PICK r \in Flow : /\ r = flow[f] /\ r.pc \in {"identified", "kept"}
                        /\ StageOK(r) /\ GrantOK(r, grant[f])
  BY Of DEF Refresh
<1>3. CASE Fail(f, "closed")
  BY <1>1, <1>2, <1>3, Fails DEF Refresh
<1>4. CASE ~Fail(f, "closed")
  <2>1. PICK asked \in SUBSET (Allowed \cup Unlisted) : asked = IF current THEN r.scopes ELSE Required
    BY ProvidersAssumption DEF Flow
  <2>2. PICK s : s = [r EXCEPT !.pc = "refreshing", !.error = "none", !.id = None, !.key = None,
                               !.verifier = 0, !.emails = <<>>, !.email = 0, !.fallback = asked]
    OBVIOUS
  <2>3. s \in Flow
    <3>1. 0 \in Generations /\ 0 \in 0 .. 2 /\ <<>> \in Seq(Email)
      BY ProvidersAssumption DEF Generations
    <3>. QED BY <2>2, <3>1 DEF Flow
  <2>4. /\ s.pc = "refreshing" /\ s.scopes = r.scopes /\ s.refresh = r.refresh /\ s.error = "none"
        /\ s.id = None /\ s.fallback = asked /\ s.emails = <<>> /\ s.email = 0
    BY <2>2 DEF Flow
  <2>5. Required \subseteq r.scopes /\ asked \subseteq r.scopes
    BY <1>2, <2>1 DEF StageOK, Granted
  <2>6. FlowOK(s, grant[f])
    BY <1>2, <2>3, <2>4, <2>5, Of DEF FlowOK, StageOK, LoggingIn, Granted, Unanswered, Word,
                                     Identified, GrantOK, InStep
  <2>7. flow' = [flow EXCEPT ![f] = s]
    BY <1>2, <1>4, <2>1, <2>2 DEF Refresh, Set
  <2>. QED BY <1>1, <2>4, <2>6, <2>7, Proceeds DEF Refresh
<1>. QED BY <1>3, <1>4

LEMMA UnsentStep ==
  ASSUME ClientsInv, NEW f \in Flows, Unsent(f) PROVE ClientsInv'
BY Of, Fails DEF Unsent

\* An answer is on its way.
LEMMA AskedOK ==
  ASSUME ClientsInv, NEW f \in Flows, NEW r \in Flow, r = flow[f], StageOK(r),
         r.pc \in {"exchanging", "refreshing"}, NEW g \in Grant,
         NEW a \in TokenAnswer, Word(a.id),
         a.status = "ok" /\ ~g.missed => /\ KeptRefresh(a, r.refresh) = g.live
                                         /\ GrantedScopes(a, r.fallback) \subseteq g.scopes,
         a.status # "ok" /\ r.scopes # {} /\ ~g.missed => InStep(r, g),
         a.status = "invalid_grant" => Useless(r.refresh, g),
         flow' = [flow EXCEPT ![f] = [r EXCEPT !.pc = "asked", !.answer = a]],
         grant' = [grant EXCEPT ![f] = g],
         UNCHANGED <<signing, selectable, discovery, client, events>>
  PROVE  ClientsInv'
<1>1. PICK s : s = [r EXCEPT !.pc = "asked", !.answer = a]
  OBVIOUS
<1>2. s \in Flow
  BY <1>1, ZenonT(60) DEF Flow
<1>3. /\ s.pc = "asked" /\ s.by = r.by /\ s.tx = r.tx /\ s.scopes = r.scopes
      /\ s.refresh = r.refresh /\ s.error = r.error /\ s.id = r.id /\ s.emails = r.emails
      /\ s.email = r.email /\ s.answer = a /\ s.fallback = r.fallback
  BY <1>1 DEF Flow
<1>4. StageOK(s)
  <2>1. LoggingIn(s) => LoggingIn(r)
    BY <1>3, ProvidersAssumption DEF StageOK, Granted, LoggingIn
  <2>. QED BY <1>3, <2>1 DEF StageOK, LoggingIn, TxOK, Granted, Unanswered, Word
<1>5. Identified(s) /\ GrantOK(s, g)
  BY <1>3, <1>4 DEF StageOK, Unanswered, Identified, GrantOK, InStep, Granted
<1>. QED BY <1>1, <1>2, <1>3, <1>4, <1>5, Of, OnlyFlows DEF FlowOK

Words == {id \in Assertion : IsFiniteSet(id.aud)}

LEMMA TokensAreWords ==
  ASSUME ClientsInv, NEW f \in Flows, TxOK(flow[f])
  PROVE  Assertions(f) \subseteq Words
<1>. DEFINE p == flow[f].tx.provider
            Names == Providers \cup {OtherClient}
<1>1. /\ p \in Providers /\ flow[f].tx.nonce \in Nonces \cup {None} /\ OIDC \subseteq Providers
      /\ signing \in [Issuers -> Key] /\ IssuerOf[p] \in Issuers /\ events \in 0 .. MaxEvents
  BY ProvidersAssumption DEF TxOK, Transaction, ClientsInv, KeysOK, Providers
<1>2. PICK own : own = Own(f)
  OBVIOUS
<1>3. own \in Words
  <2>1. own \in Assertion /\ own.aud = {p}
    BY <1>1, <1>2 DEF Own, Assertion
  <2>2. IsFiniteSet({p})
    BY FS_Singleton
  <2>. QED BY <2>1, <2>2 DEF Words
<1>. HIDE DEF p
<1>4. ASSUME NEW id \in Words
      PROVE  /\ \A q, r \in Names : [id EXCEPT !.aud = {q}] \in Words /\ [id EXCEPT !.aud = {q, r}] \in Words
             /\ \A q \in Names : [id EXCEPT !.azp = q] \in Words
             /\ [id EXCEPT !.sound = FALSE] \in Words
             /\ \A n \in Nonces \cup {None} : [id EXCEPT !.nonce = n] \in Words
             /\ \A i \in Issuers, k \in Key : [id EXCEPT !.iss = i, !.key = k] \in Words
  <2>1. \A q, r : IsFiniteSet({q, r}) /\ IsFiniteSet({q})
    <3>1. ASSUME NEW q, NEW r PROVE IsFiniteSet({q, r}) /\ IsFiniteSet({q})
      <4>1. {q, r} = {q} \cup {r} /\ IsFiniteSet({q}) /\ IsFiniteSet({r})
        BY FS_Singleton
      <4>. QED BY <4>1, FS_Union
    <3>. QED BY <3>1
  <2>2. \A q, r \in Names : [id EXCEPT !.aud = {q}] \in Words /\ [id EXCEPT !.aud = {q, r}] \in Words
    BY <2>1 DEF Words, Assertion
  <2>3. \A q \in Names : [id EXCEPT !.azp = q] \in Words
    BY DEF Words, Assertion
  <2>4. [id EXCEPT !.sound = FALSE] \in Words
    BY DEF Words, Assertion
  <2>5. \A n \in Nonces \cup {None} : [id EXCEPT !.nonce = n] \in Words
    BY DEF Words, Assertion
  <2>6. \A i \in Issuers, k \in Key : [id EXCEPT !.iss = i, !.key = k] \in Words
    BY DEF Words, Assertion
  <2>. QED BY <2>2, <2>3, <2>4, <2>5, <2>6
<1>5. p \in Names /\ OtherClient \in Names /\ OIDC \subseteq Names
  BY <1>1
<1>. HIDE DEF Names
<1>6. PICK shared \in Words : shared = [own EXCEPT !.aud = {p, OtherClient}]
  BY <1>3, <1>4, <1>5
<1>7. {own, shared, [shared EXCEPT !.azp = p], [shared EXCEPT !.azp = OtherClient],
       [own EXCEPT !.azp = OtherClient], [own EXCEPT !.aud = {OtherClient}],
       [own EXCEPT !.sound = FALSE]} \subseteq Words
  BY <1>3, <1>4, <1>5
<1>8. {[own EXCEPT !.nonce = n] : n \in (1 .. events) \cup {None}} \subseteq Words
  <2>1. (1 .. events) \cup {None} \subseteq Nonces \cup {None}
    BY <1>1, ProvidersAssumption DEF Nonces
  <2>. QED BY <1>3, <1>4, <2>1
<1>9. {[own EXCEPT !.iss = i, !.key = signing[i]] : i \in Issuers} \subseteq Words
  <2>1. \A i \in Issuers : signing[i] \in Key
    BY <1>1
  <2>2. \A i \in Issuers : [own EXCEPT !.iss = i, !.key = signing[i]] \in Words
    BY <1>3, <1>4, <2>1
  <2>. QED BY <2>2
<1>10. {[own EXCEPT !.aud = {q}] : q \in OIDC} \subseteq Words
  BY <1>3, <1>4, <1>5
<1>. QED BY <1>2, <1>6, <1>7, <1>8, <1>9, <1>10 DEF Assertions, p

LEMMA RedeemStep ==
  ASSUME ClientsInv, NEW f \in Flows, NEW granted \in SUBSET (Allowed \cup Unlisted),
         NEW refresh \in {0, 1},
         NEW id \in IF flow[f].by \in OIDC THEN Assertions(f) \cup {None} ELSE {None},
         Redeem(f, granted, refresh, id)
  PROVE  ClientsInv'
<1>1. PICK r \in Flow : r = flow[f] /\ r.pc = "exchanging" /\ StageOK(r)
  BY Of DEF Redeem
<1>2. TxOK(r) /\ r.refresh = 0
  BY <1>1 DEF StageOK, LoggingIn
<1>3. refresh \in Generations
  BY ProvidersAssumption DEF Generations
<1>4. id \in Words \cup {None}
  BY <1>1, <1>2, TokensAreWords
<1>5. PICK g : g = [live |-> refresh, scopes |-> granted, missed |-> FALSE]
  OBVIOUS
<1>6. g \in Grant /\ g.live = refresh /\ g.scopes = granted
  BY <1>3, <1>5 DEF Grant
<1>7. PICK scopes \in {granted} \cup (IF granted = r.fallback THEN {None} ELSE {}) :
        Set(f, [flow[f] EXCEPT !.pc = "asked",
                  !.answer = [status |-> "ok", scopes |-> scopes, refresh |-> refresh, id |-> id]])
  BY <1>1 DEF Redeem
<1>8. PICK a : a = [status |-> "ok", scopes |-> scopes, refresh |-> refresh, id |-> id]
  OBVIOUS
<1>9. a \in TokenAnswer /\ Word(a.id)
  <2>1. scopes \in {None} \cup SUBSET (Allowed \cup Unlisted)
    BY <1>7
  <2>2. id \in Assertion \cup {None} /\ Word(id)
    BY <1>4 DEF Words, Word
  <2>. QED BY <1>3, <1>8, <2>1, <2>2 DEF TokenAnswer
<1>10. KeptRefresh(a, r.refresh) = g.live
  BY <1>2, <1>6, <1>8 DEF KeptRefresh
<1>11. GrantedScopes(a, r.fallback) \subseteq g.scopes
  <2>1. granted # None
    BY ProvidersAssumption
  <2>2. a.scopes = scopes /\ g.scopes = granted
    BY <1>6, <1>8
  <2>. QED BY <1>7, <2>1, <2>2 DEF GrantedScopes
<1>12. flow' = [flow EXCEPT ![f] = [r EXCEPT !.pc = "asked", !.answer = a]]
       /\ grant' = [grant EXCEPT ![f] = g] /\ a.status = "ok"
  BY <1>1, <1>5, <1>7, <1>8 DEF Redeem, Set
<1>. QED BY <1>1, <1>6, <1>9, <1>10, <1>11, <1>12, AskedOK DEF Redeem

LEMMA RenewStep ==
  ASSUME ClientsInv, NEW f \in Flows, NEW rotated \in BOOLEAN,
         NEW granted \in SUBSET grant[f].scopes, Renew(f, rotated, granted)
  PROVE  ClientsInv'
<1>1. PICK r \in Flow : r = flow[f] /\ r.pc = "refreshing" /\ StageOK(r) /\ GrantOK(r, grant[f])
  BY Of DEF Renew
<1>2. PICK old \in Grant : old = grant[f] /\ r.refresh = old.live
  BY <1>1, Of DEF Renew
<1>3. PICK live \in Generations : live = IF rotated THEN old.live + 1 ELSE old.live
  BY <1>2 DEF Renew
<1>4. PICK scopes : scopes = IF granted = old.scopes THEN None ELSE granted
  OBVIOUS
<1>5. PICK a : a = [status |-> "ok", scopes |-> scopes, refresh |-> IF rotated THEN live ELSE 0,
                    id |-> None]
  OBVIOUS
<1>6. PICK g : g = [old EXCEPT !.live = live, !.scopes = granted]
  OBVIOUS
<1>7. granted \in SUBSET (Allowed \cup Unlisted)
  BY <1>2 DEF Grant
<1>8. g \in Grant /\ g.live = live /\ g.scopes = granted /\ g.missed = old.missed
  BY <1>2, <1>6, <1>7 DEF Grant
<1>9. a \in TokenAnswer /\ Word(a.id) /\ a.status = "ok"
  <2>1. scopes \in {None} \cup SUBSET (Allowed \cup Unlisted)
    BY <1>4, <1>7
  <2>2. (IF rotated THEN live ELSE 0) \in Generations
    BY ProvidersAssumption DEF Generations
  <2>. QED BY <1>5, <2>1, <2>2 DEF TokenAnswer, Word
<1>10. KeptRefresh(a, r.refresh) = g.live
  <2>1. rotated => live # 0
    BY <1>3 DEF Grant, Generations
  <2>. QED BY <1>2, <1>3, <1>5, <1>8, <2>1 DEF KeptRefresh
<1>11. ~g.missed => GrantedScopes(a, r.fallback) \subseteq g.scopes
  <2>1. ASSUME ~g.missed PROVE GrantedScopes(a, r.fallback) \subseteq g.scopes
    <3>1. r.fallback \subseteq old.scopes
      BY <1>1, <1>2, <1>8, <2>1 DEF GrantOK, Granted, InStep
    <3>2. a.scopes = IF granted = old.scopes THEN None ELSE granted
      BY <1>4, <1>5
    <3>3. granted # None
      BY <1>7, ProvidersAssumption
    <3>. QED BY <1>8, <3>1, <3>2, <3>3 DEF GrantedScopes
  <2>. QED BY <2>1
<1>12. flow' = [flow EXCEPT ![f] = [r EXCEPT !.pc = "asked", !.answer = a]]
       /\ grant' = [grant EXCEPT ![f] = g]
  BY <1>1, <1>2, <1>3, <1>4, <1>5, <1>6, Of DEF Renew, Set
<1>. QED BY <1>1, <1>8, <1>9, <1>10, <1>11, <1>12, AskedOK DEF Renew

LEMMA RefuseStep ==
  ASSUME ClientsInv, NEW f \in Flows, NEW status \in {"malformed", "invalid_grant", "error"},
         Refuse(f, status)
  PROVE  ClientsInv'
<1>1. PICK r \in Flow : /\ r = flow[f] /\ r.pc \in {"exchanging", "refreshing"}
                        /\ StageOK(r) /\ GrantOK(r, grant[f])
  BY Of DEF Refuse
<1>2. PICK a : a = [status |-> status, scopes |-> None, refresh |-> 0, id |-> None]
  OBVIOUS
<1>3. a \in TokenAnswer /\ Word(a.id) /\ a.status = status
  <2>1. 0 \in Generations
    BY ProvidersAssumption DEF Generations
  <2>. QED BY <1>2, <2>1 DEF TokenAnswer, Word
<1>4. r.scopes # {} /\ ~grant[f].missed => InStep(r, grant[f])
  BY <1>1 DEF GrantOK, Granted, StageOK, LoggingIn
<1>5. status = "invalid_grant" => Useless(r.refresh, grant[f])
  BY <1>1 DEF Refuse, Useless, StageOK, LoggingIn
<1>6. flow' = [flow EXCEPT ![f] = [r EXCEPT !.pc = "asked", !.answer = a]]
  BY <1>1, <1>2 DEF Refuse, Set
<1>. QED BY <1>1, <1>3, <1>4, <1>5, <1>6, Of, AskedOK DEF Refuse

\* The grant, with a missed answer noted.
LEMMA MissedOK ==
  ASSUME ClientsInv, NEW f \in Flows, NEW missed \in BOOLEAN
  PROVE  \E g \in Grant : /\ g.live = grant[f].live /\ g.scopes = grant[f].scopes
                          /\ ~g.missed => ~grant[f].missed /\ ~missed
                          /\ [grant EXCEPT ![f].missed = (@ \/ missed)] = [grant EXCEPT ![f] = g]
<1>1. PICK old \in Grant : old = grant[f]
  BY Of
<1>2. PICK m \in BOOLEAN : m = (old.missed \/ missed)
  OBVIOUS
<1>3. PICK g : g = [old EXCEPT !.missed = m]
  OBVIOUS
<1>4. g \in Grant /\ g.live = old.live /\ g.scopes = old.scopes /\ g.missed = m
  BY <1>3 DEF Grant
<1>5. g = [grant[f] EXCEPT !.missed = (@ \/ missed)]
  BY <1>1, <1>2, <1>3 DEF Grant
<1>6. grant \in [Flows -> Grant]
  BY DEF ClientsInv, FlowsOK
<1>7. [grant EXCEPT ![f].missed = (@ \/ missed)] = [grant EXCEPT ![f] = g]
  BY <1>5, <1>6
<1>. QED BY <1>1, <1>2, <1>4, <1>7

LEMMA LoseStep ==
  ASSUME ClientsInv, NEW f \in Flows, Lose(f) PROVE ClientsInv'
<1>1. PICK r \in Flow : r = flow[f] /\ r.pc = "asked" /\ StageOK(r) /\ GrantOK(r, grant[f])
  BY Of DEF Lose
<1>2. PICK missed \in BOOLEAN : missed = (r.answer.status = "ok")
  OBVIOUS
<1>3. PICK g \in Grant : /\ g.live = grant[f].live /\ g.scopes = grant[f].scopes
                         /\ ~g.missed => ~grant[f].missed /\ ~missed
                         /\ [grant EXCEPT ![f].missed = (@ \/ missed)] = [grant EXCEPT ![f] = g]
  BY MissedOK
<1>4. grant' = [grant EXCEPT ![f] = g]
  BY <1>1, <1>2, <1>3 DEF Lose
<1>5. r.scopes # {} => Granted(r) /\ (~g.missed => InStep(r, g))
  BY <1>1, <1>2, <1>3 DEF GrantOK, Granted, InStep
<1>6. PICK s : /\ FlowOK(s, g) /\ flow' = [flow EXCEPT ![f] = s]
               /\ s.pc \notin {"selecting", "verifying"}
  BY <1>1, <1>5, FailOK DEF Lose
<1>. QED BY <1>4, <1>6, Of, OnlyFlows DEF Lose

LEMMA ReceiveStep ==
  ASSUME ClientsInv, NEW f \in Flows, Receive(f) PROVE ClientsInv'
<1>1. PICK r \in Flow : r = flow[f] /\ r.pc = "asked" /\ StageOK(r) /\ GrantOK(r, grant[f])
  BY Of DEF Receive
<1>2. PICK a \in TokenAnswer : a = r.answer /\ Word(a.id)
  BY <1>1 DEF StageOK
<1>3. PICK scopes : scopes = GrantedScopes(a, r.fallback)
  OBVIOUS
<1>4. scopes \in SUBSET (Allowed \cup Unlisted)
  BY <1>2, <1>3 DEF GrantedScopes, TokenAnswer, Flow
<1>5. PICK accepted \in BOOLEAN :
        accepted = (a.status = "ok" /\ Required \subseteq scopes /\ scopes \subseteq Allowed)
  OBVIOUS
<1>6. PICK missed \in BOOLEAN : missed = (a.status = "ok" /\ ~accepted)
  OBVIOUS
<1>7. PICK g \in Grant : /\ g.live = grant[f].live /\ g.scopes = grant[f].scopes
                         /\ ~g.missed => ~grant[f].missed /\ ~missed
                         /\ [grant EXCEPT ![f].missed = (@ \/ missed)] = [grant EXCEPT ![f] = g]
  BY MissedOK
<1>8. grant' = [grant EXCEPT ![f] = g]
  BY <1>1, <1>2, <1>3, <1>5, <1>6, <1>7 DEF Receive
<1>9. CASE accepted
  <2>1. PICK phase \in {"kept", "tokens"} : phase = IF r.scopes # {} THEN "kept" ELSE "tokens"
    OBVIOUS
  <2>2. PICK refresh \in Generations : refresh = KeptRefresh(a, r.refresh)
    BY <1>2 DEF KeptRefresh, TokenAnswer, Flow
  <2>3. PICK s : s = [r EXCEPT !.pc = phase, !.answer = None, !.scopes = scopes,
                               !.refresh = refresh, !.id = a.id]
    OBVIOUS
  <2>4. s \in Flow
    <3>1. a.id \in Assertion \cup {None}
      BY <1>2 DEF TokenAnswer
    <3>. QED BY <1>4, <2>3, <3>1 DEF Flow
  <2>5. /\ s.pc = phase /\ s.by = r.by /\ s.tx = r.tx /\ s.scopes = scopes
        /\ s.refresh = refresh /\ s.error = r.error /\ s.id = a.id /\ s.emails = r.emails
        /\ s.email = r.email
    BY <2>3 DEF Flow
  <2>6. StageOK(s)
    BY <1>1, <1>2, <1>5, <1>9, <2>1, <2>5 DEF StageOK, LoggingIn, TxOK, Granted, Unanswered, Word
  <2>7. GrantOK(s, g)
    <3>1. r.error = "none"
      BY <1>1 DEF StageOK, Unanswered
    <3>2. ~g.missed => InStep(s, g)
      BY <1>1, <1>2, <1>3, <1>5, <1>7, <1>9, <2>2, <2>5 DEF GrantOK, InStep
    <3>. QED BY <2>1, <2>5, <3>1, <3>2 DEF GrantOK
  <2>8. FlowOK(s, g)
    BY <2>1, <2>4, <2>5, <2>6, <2>7 DEF FlowOK, Identified
  <2>9. flow' = [flow EXCEPT ![f] = s]
    <3>1. Set(f, [flow[f] EXCEPT !.pc = IF Holds(f) THEN "kept" ELSE "tokens",
                    !.answer = None, !.scopes = scopes,
                    !.refresh = KeptRefresh(a, flow[f].refresh), !.id = a.id])
      BY <1>1, <1>2, <1>3, <1>5, <1>9 DEF Receive
    <3>. QED BY <1>1, <2>1, <2>2, <2>3, <3>1 DEF Set, Holds
  <2>. QED BY <1>8, <2>1, <2>5, <2>8, <2>9, Of, OnlyFlows DEF Receive
<1>10. CASE ~accepted /\ NeedsReauthorization(a)
  <2>1. Over(f, "reauthorize")
    BY <1>1, <1>2, <1>3, <1>5, <1>10 DEF Receive
  <2>2. Useless(flow[f].refresh, g)
    BY <1>1, <1>2, <1>7, <1>10 DEF GrantOK, NeedsReauthorization, Useless
  <2>3. PICK s : /\ FlowOK(s, g) /\ flow' = [flow EXCEPT ![f] = s]
                 /\ s.pc \notin {"selecting", "verifying"}
    BY <2>1, <2>2, OverOK
  <2>. QED BY <1>8, <2>3, Of, OnlyFlows DEF Receive
<1>11. CASE ~accepted /\ ~NeedsReauthorization(a)
  <2>1. Fail(f, "refused")
    BY <1>1, <1>2, <1>3, <1>5, <1>11 DEF Receive
  <2>2. r.scopes # {} => Granted(r) /\ (~g.missed => InStep(r, g))
    BY <1>1, <1>2, <1>6, <1>7, <1>11 DEF GrantOK, Granted, InStep
  <2>3. PICK s : /\ FlowOK(s, g) /\ flow' = [flow EXCEPT ![f] = s]
                 /\ s.pc \notin {"selecting", "verifying"}
    BY <1>1, <2>1, <2>2, FailOK
  <2>. QED BY <1>8, <2>3, Of, OnlyFlows DEF Receive
<1>. QED BY <1>9, <1>10, <1>11

----------------------------------------------------------------------------
\* Identities.

LEMMA ResolveStep ==
  ASSUME ClientsInv, NEW f \in Flows, NEW q \in OIDC, Resolve(f, q) PROVE ClientsInv'
<1>1. CASE Over(f, "refused")
  BY <1>1, Ends DEF Resolve
<1>2. CASE ~Over(f, "refused")
  <2>1. PICK r \in Flow : r = flow[f] /\ r.pc = "tokens" /\ StageOK(r) /\ GrantOK(r, grant[f])
    BY Of DEF Resolve
  <2>2. r.id # None /\ r.tx.provider = q /\ client[q].stage = "built"
        /\ flow' = [flow EXCEPT ![f] = [r EXCEPT !.pc = "selecting"]]
    BY <1>2, <2>1 DEF Resolve, Set
  <2>3. PICK s : s = [r EXCEPT !.pc = "selecting"]
    OBVIOUS
  <2>4. s \in Flow
    BY <2>3 DEF Flow
  <2>5. /\ s.pc = "selecting" /\ s.by = r.by /\ s.tx = r.tx /\ s.scopes = r.scopes
        /\ s.refresh = r.refresh /\ s.error = r.error /\ s.id = r.id /\ s.emails = r.emails
        /\ s.email = r.email
    BY <2>3 DEF Flow
  <2>6. r.by = q
    BY <2>1, <2>2 DEF StageOK, TxOK
  <2>7. StageOK(s)
    BY <2>1, <2>2, <2>5, <2>6 DEF StageOK, LoggingIn, TxOK, Granted, Unanswered, Word
  <2>8. Identified(s) /\ GrantOK(s, grant[f])
    BY <2>1, <2>5 DEF Identified, GrantOK, Granted, InStep
  <2>9. FlowOK(s, grant[f]) /\ flow' = [flow EXCEPT ![f] = s]
    BY <2>2, <2>3, <2>4, <2>7, <2>8, Of DEF FlowOK
  <2>10. client[s.by].stage = "built"
    BY <2>2, <2>5, <2>6
  <2>11. UNCHANGED <<signing, selectable, discovery, client, grant, events>>
    BY DEF Resolve
  <2>. QED BY <2>9, <2>10, <2>11, Of, Proceeds
<1>. QED BY <1>1, <1>2

\* What is prepared for a key is that key, whatever the cache held.
LEMMA PreparedIsSelected ==
  ASSUME NEW verifiers, NEW key PROVE Prepared(verifiers, key) = key.version
BY DEF Prepared

LEMMA SelectKeyStep ==
  ASSUME ClientsInv, NEW f \in Flows, NEW refetched \in BOOLEAN, SelectKey(f, refetched)
  PROVE  ClientsInv'
<1>1. PICK r \in Flow : r = flow[f] /\ r.pc = "selecting" /\ StageOK(r) /\ GrantOK(r, grant[f])
  BY Of DEF SelectKey
<1>2. PICK p \in OIDC : p = r.by /\ p \in Providers /\ client[p].stage = "built"
  BY <1>1 DEF StageOK, ClientsInv, Verifying, Flow
<1>3. PICK uri \in Issuers : uri = client[p].jwks /\ uri = IssuerOf[p]
  BY <1>2, ProvidersAssumption DEF ClientsInv, ClientOK
<1>4. PICK held \in Key : held = IF refetched THEN signing[uri] ELSE selectable[uri]
  BY <1>3 DEF ClientsInv, KeysOK
<1>5. selectable' = [selectable EXCEPT ![uri] = held]
  BY <1>1, <1>2, <1>3, <1>4 DEF SelectKey
<1>6. KeysOK'
  BY <1>5 DEF SelectKey, ClientsInv, KeysOK
<1>7. CASE held.kid # r.id.key.kid
  <2>1. Over(f, "refused") /\ UNCHANGED client
    BY <1>1, <1>2, <1>3, <1>4, <1>7 DEF SelectKey
  <2>2. PICK s : /\ FlowOK(s, grant[f]) /\ flow' = [flow EXCEPT ![f] = s]
                 /\ s.pc \notin {"selecting", "verifying"}
    BY <2>1, Of, OverOK
  <2>3. FlowsOK'
    BY <2>2, Of, FlowMoves DEF ClientsInv, SelectKey
  <2>4. Verifying'
    BY <2>1, <2>2 DEF ClientsInv, FlowsOK, Verifying
  <2>. QED BY <1>6, <2>1, <2>3, <2>4 DEF SelectKey, ClientsInv, ClientOK
<1>8. CASE held.kid = r.id.key.kid
  <2>1. PICK version \in Generations : version = held.version
    BY DEF Key
  <2>2. /\ flow' = [flow EXCEPT ![f] = [r EXCEPT !.pc = "verifying", !.key = held,
                                                 !.verifier = version]]
        /\ client' = [client EXCEPT ![p].verifiers[held.kid] = version]
    <3>1. Prepared(client[p].verifiers, held) = version
      BY <2>1, PreparedIsSelected
    <3>2. /\ flow[f].by = p /\ held.kid = flow[f].id.key.kid
          /\ held = IF refetched THEN signing[client[p].jwks] ELSE selectable[client[p].jwks]
      BY <1>1, <1>2, <1>3, <1>4, <1>8
    <3>3. Set(f, [flow[f] EXCEPT !.pc = "verifying", !.key = held, !.verifier = version])
      BY <3>1, <3>2 DEF SelectKey
    <3>4. client' = [client EXCEPT ![p].verifiers[held.kid] = version]
      BY <3>1, <3>2 DEF SelectKey
    <3>. QED BY <1>1, <3>3, <3>4 DEF Set
  <2>3. PICK s : s = [r EXCEPT !.pc = "verifying", !.key = held, !.verifier = version]
    OBVIOUS
  <2>4. s \in Flow
    BY <2>3 DEF Flow
  <2>5. /\ s.pc = "verifying" /\ s.by = r.by /\ s.tx = r.tx /\ s.scopes = r.scopes
        /\ s.refresh = r.refresh /\ s.error = r.error /\ s.id = r.id /\ s.emails = r.emails
        /\ s.email = r.email /\ s.key = held /\ s.verifier = version
    BY <2>3 DEF Flow
  <2>6. StageOK(s)
    BY <1>1, <1>8, <2>1, <2>5 DEF StageOK, LoggingIn, TxOK, Granted, Unanswered, Word
  <2>7. Identified(s) /\ GrantOK(s, grant[f])
    BY <1>1, <2>5 DEF Identified, GrantOK, Granted, InStep
  <2>8. FlowsOK'
    <3>1. FlowOK(s, grant[f]) /\ flow' = [flow EXCEPT ![f] = s]
      BY <2>2, <2>3, <2>4, <2>6, <2>7, Of DEF FlowOK
    <3>. QED BY <3>1, Of, FlowMoves DEF ClientsInv, SelectKey
  <2>9. client' \in [Providers -> Client]
        /\ \A q \in Providers : /\ client'[q].stage = client[q].stage
                                /\ client'[q].jwks = client[q].jwks
                                /\ client'[q].source = client[q].source
    <3>1. held.kid \in Kids /\ client \in [Providers -> Client]
      BY DEF Key, ClientsInv
    <3>2. PICK c \in Client : c = client[p]
      BY <1>2, <3>1
    <3>3. PICK d : d = [c EXCEPT !.verifiers[held.kid] = version]
      OBVIOUS
    <3>4. d \in Client /\ d.stage = c.stage /\ d.jwks = c.jwks /\ d.source = c.source
      BY <3>1, <3>3 DEF Client
    <3>5. client' = [client EXCEPT ![p] = d]
      BY <2>2, <3>1, <3>2, <3>3
    <3>. QED BY <1>2, <3>1, <3>2, <3>4, <3>5
  <2>10. Verifying'
    BY <1>1, <1>2, <2>2, <2>3, <2>5, <2>9 DEF ClientsInv, FlowsOK, Verifying, Flow
  <2>11. \A q \in Providers : ClientOK(q)'
    BY <2>9 DEF ClientsInv, ClientOK
  <2>. QED BY <1>6, <2>8, <2>9, <2>10, <2>11 DEF SelectKey, ClientsInv
<1>. QED BY <1>7, <1>8

LEMMA UnavailableStep ==
  ASSUME ClientsInv, NEW f \in Flows, Unavailable(f) PROVE ClientsInv'
BY Ends DEF Unavailable

LEMMA GitHubFailsStep ==
  ASSUME ClientsInv, NEW f \in Flows, GitHubFails(f) PROVE ClientsInv'
BY Ends DEF GitHubFails

\* A token for one audience, and that its client, is for nobody else.
LEMMA SoleAudience ==
  ASSUME NEW aud, IsFiniteSet(aud), NEW p \in aud
  PROVE  Cardinality(aud) = 1 <=> aud = {p}
<1>1. Cardinality(aud) = 1 => \E x : aud = {x}
  BY FS_Singleton
<1>2. Cardinality({p}) = 1
  BY FS_Singleton
<1>. QED BY <1>1, <1>2

\* A key with the identifier and the version of another is that key.
LEMMA SameKey ==
  ASSUME NEW k \in Key, NEW l \in Key, k.kid = l.kid, k.version = l.version PROVE k = l
BY DEF Key

LEMMA VerifyStep ==
  ASSUME ClientsInv, NEW f \in Flows, Verify(f) PROVE ClientsInv'
<1>1. CASE Over(f, "refused")
  BY <1>1, Ends DEF Verify
<1>2. CASE ~Over(f, "refused")
  <2>1. PICK r \in Flow : r = flow[f] /\ r.pc = "verifying" /\ StageOK(r) /\ GrantOK(r, grant[f])
    BY Of DEF Verify
  <2>2. PICK id \in Assertion : id = r.id /\ IsFiniteSet(id.aud)
    BY <2>1 DEF StageOK, Word, Flow
  <2>3. /\ id.iss = IssuerOf[r.by] /\ id.key.version = r.verifier /\ r.by \in id.aud /\ id.sound
        /\ AuthorizedParty(id, r.by) /\ id.nonce = r.tx.nonce
        /\ flow' = [flow EXCEPT ![f] = [r EXCEPT !.pc = "identified"]]
    BY <1>2, <2>1, <2>2 DEF Verify, Set
  <2>4. PICK s : s = [r EXCEPT !.pc = "identified"]
    OBVIOUS
  <2>5. s \in Flow
    BY <2>4 DEF Flow
  <2>6. /\ s.pc = "identified" /\ s.by = r.by /\ s.tx = r.tx /\ s.scopes = r.scopes
        /\ s.refresh = r.refresh /\ s.error = r.error /\ s.id = r.id /\ s.emails = r.emails
        /\ s.email = r.email /\ s.key = r.key
    BY <2>4 DEF Flow
  <2>7. StageOK(s)
    BY <2>1, <2>6 DEF StageOK, LoggingIn, Granted, Unanswered, Word
  <2>8. GrantOK(s, grant[f])
    BY <2>1, <2>6 DEF StageOK, Unanswered, GrantOK, Granted, InStep
  <2>9. SaidFor(s)
    <3>1. id.key = r.key
      <4>1. id.key \in Key /\ r.key \in Key
        BY <2>1 DEF StageOK, Assertion
      <4>. QED BY <2>1, <2>2, <2>3, <4>1, SameKey DEF StageOK
    <3>2. id.azp \in {None, r.by} /\ (id.aud # {r.by} => id.azp = r.by)
      BY <2>2, <2>3, SoleAudience DEF AuthorizedParty
    <3>. QED BY <2>2, <2>3, <2>6, <3>1, <3>2 DEF SaidFor
  <2>10. Identified(s)
    <3>1. s.emails = <<>> /\ s.email = 0 /\ s.tx.provider = s.by
      BY <2>1, <2>6 DEF StageOK, Unanswered, TxOK
    <3>2. BestEmail(s.emails, s.email)
      BY <3>1 DEF BestEmail
    <3>. QED BY <2>9, <3>1, <3>2 DEF Identified
  <2>11. FlowOK(s, grant[f]) /\ flow' = [flow EXCEPT ![f] = s]
    BY <2>3, <2>4, <2>5, <2>7, <2>8, <2>10, Of DEF FlowOK
  <2>12. UNCHANGED <<signing, selectable, discovery, client, grant, events>>
    BY DEF Verify
  <2>. QED BY <2>6, <2>11, <2>12, Of, Proceeds
<1>. QED BY <1>1, <1>2

LEMMA Least ==
  ASSUME NEW S \in SUBSET (1 .. 2), S # {}
  PROVE  (CHOOSE n \in S : \A m \in S : n <= m) \in S
<1>1. \E n \in S : \A m \in S : n <= m
  <2>1. CASE 1 \in S
    <3>1. \A m \in S : 1 <= m
      OBVIOUS
    <3>. QED BY <2>1, <3>1
  <2>2. CASE 1 \notin S
    <3>1. \A m \in S : m = 2
      BY <2>2
    <3>2. PICK n \in S : TRUE
      OBVIOUS
    <3>3. \A m \in S : n <= m
      BY <3>1
    <3>. QED BY <3>3
  <2>. QED BY <2>1, <2>2
<1>. QED BY <1>1

\* The address chosen is a verified one, the primary one if that is verified.
LEMMA EmailIsVerified ==
  ASSUME NEW emails \in BoundedSeq(Email, 2)
  PROVE  /\ emails \in Seq(Email) /\ VerifiedEmail(emails) \in 0 .. 2
         /\ BestEmail(emails, VerifiedEmail(emails))
<1>1. PICK m \in 0 .. 2 : emails \in [1 .. m -> Email]
  BY DEF BoundedSeq, SeqOf
<1>2. emails \in Seq(Email) /\ DOMAIN emails = 1 .. m /\ DOMAIN emails \subseteq 1 .. 2
  BY <1>1
<1>. DEFINE verified == {n \in DOMAIN emails : emails[n].verified}
            primary == {n \in verified : emails[n].primary}
            chosen == IF primary = {} THEN verified ELSE primary
            e == VerifiedEmail(emails)
<1>3. e = IF chosen = {} THEN 0 ELSE CHOOSE n \in chosen : \A k \in chosen : n <= k
  BY DEF VerifiedEmail
<1>4. chosen \in SUBSET (1 .. 2)
  BY <1>2
<1>5. chosen # {} => e \in chosen
  <2>. HIDE DEF chosen, e
  <2>. QED BY <1>3, <1>4, Least
<1>6. chosen = {} => e = 0
  BY <1>3
<1>7. e \in 0 .. 2 /\ (e # 0 => e \in chosen) /\ (chosen # {} => e # 0)
  <2>. HIDE DEF chosen, e
  <2>1. chosen # {} => e \in 1 .. 2
    BY <1>4, <1>5
  <2>. QED BY <1>5, <1>6, <2>1
<1>. HIDE DEF e
<1>8. BestEmail(emails, e)
  BY <1>7 DEF BestEmail
<1>. QED BY <1>2, <1>7, <1>8 DEF e

LEMMA ResolveGitHubStep ==
  ASSUME ClientsInv, NEW f \in Flows, NEW q \in GitHub, NEW emails \in BoundedSeq(Email, 2),
         ResolveGitHub(f, q, emails)
  PROVE  ClientsInv'
<1>1. CASE Over(f, "refused") \/ Over(f, "closed")
  BY <1>1, Ends DEF ResolveGitHub
<1>2. CASE ~(Over(f, "refused") \/ Over(f, "closed"))
  <2>1. PICK r \in Flow : r = flow[f] /\ r.pc = "tokens" /\ StageOK(r) /\ GrantOK(r, grant[f])
    BY Of DEF ResolveGitHub
  <2>2. PICK e \in 0 .. 2 : e = VerifiedEmail(emails)
    BY EmailIsVerified
  <2>3. /\ r.tx.provider = q
        /\ flow' = [flow EXCEPT ![f] = [r EXCEPT !.pc = "identified", !.emails = emails, !.email = e]]
    BY <1>2, <2>1, <2>2 DEF ResolveGitHub, Set
  <2>4. PICK s : s = [r EXCEPT !.pc = "identified", !.emails = emails, !.email = e]
    OBVIOUS
  <2>5. s \in Flow
    BY <2>4, EmailIsVerified DEF Flow
  <2>6. /\ s.pc = "identified" /\ s.by = r.by /\ s.tx = r.tx /\ s.scopes = r.scopes
        /\ s.refresh = r.refresh /\ s.error = r.error /\ s.id = r.id /\ s.emails = emails
        /\ s.email = e
    BY <2>4 DEF Flow
  <2>7. StageOK(s)
    BY <2>1, <2>6 DEF StageOK, LoggingIn, Granted, Unanswered, Word
  <2>8. GrantOK(s, grant[f])
    BY <2>1, <2>6 DEF StageOK, Unanswered, GrantOK, Granted, InStep
  <2>9. s.tx.provider = s.by /\ s.by \notin OIDC
    BY <2>1, <2>3, <2>6, ProvidersAssumption DEF StageOK, TxOK
  <2>10. Identified(s)
    BY <2>2, <2>6, <2>9, EmailIsVerified DEF Identified
  <2>11. FlowOK(s, grant[f]) /\ flow' = [flow EXCEPT ![f] = s]
    BY <2>3, <2>4, <2>5, <2>7, <2>8, <2>10, Of DEF FlowOK
  <2>12. UNCHANGED <<signing, selectable, discovery, client, grant, events>>
    BY DEF ResolveGitHub
  <2>. QED BY <2>6, <2>11, <2>12, Of, Proceeds
<1>. QED BY <1>1, <1>2

----------------------------------------------------------------------------
\* The end of a grant, of a client, of a key.

LEMMA RevokeStep ==
  ASSUME ClientsInv, NEW f \in Flows, Revoke(f) PROVE ClientsInv'
<1>1. CASE Fail(f, "closed")
  BY <1>1, Of, Fails DEF Revoke
<1>2. CASE Set(f, [flow[f] EXCEPT !.pc = "revoking"])
  <2>1. PICK r \in Flow : /\ r = flow[f] /\ r.pc \in {"identified", "kept"}
                          /\ StageOK(r) /\ GrantOK(r, grant[f])
    BY Of DEF Revoke
  <2>2. PICK s : s = [r EXCEPT !.pc = "revoking"]
    OBVIOUS
  <2>3. s \in Flow
    BY <2>2 DEF Flow
  <2>4. /\ s.pc = "revoking" /\ s.by = r.by /\ s.tx = r.tx /\ s.scopes = r.scopes
        /\ s.refresh = r.refresh /\ s.error = r.error /\ s.id = r.id
    BY <2>2 DEF Flow
  <2>5. StageOK(s)
    BY <2>1, <2>4 DEF StageOK, LoggingIn, Granted, Unanswered, Word
  <2>6. Identified(s) /\ GrantOK(s, grant[f])
    BY <2>1, <2>4 DEF Identified, GrantOK, Granted, InStep
  <2>7. FlowOK(s, grant[f]) /\ flow' = [flow EXCEPT ![f] = s]
    BY <1>2, <2>1, <2>2, <2>3, <2>5, <2>6, Of DEF FlowOK, Set
  <2>8. UNCHANGED <<signing, selectable, discovery, client, grant, events>>
    BY DEF Revoke
  <2>. QED BY <2>4, <2>7, <2>8, Of, Proceeds
<1>. QED BY <1>1, <1>2 DEF Revoke

LEMMA RevokedStep ==
  ASSUME ClientsInv, NEW f \in Flows, NEW answered \in BOOLEAN, Revoked(f, answered)
  PROVE  ClientsInv'
<1>1. PICK r \in Flow : r = flow[f] /\ r.pc = "revoking" /\ StageOK(r) /\ GrantOK(r, grant[f])
  BY Of DEF Revoked
<1>2. PICK old \in Grant : old = grant[f]
  BY Of
<1>3. PICK missed \in BOOLEAN : missed = (old.missed \/ ~answered)
  OBVIOUS
<1>4. PICK g : g = [old EXCEPT !.live = 0, !.missed = missed]
  OBVIOUS
<1>5. g \in Grant /\ g.missed = missed
  <2>1. 0 \in Generations
    BY ProvidersAssumption DEF Generations
  <2>. QED BY <1>4, <2>1 DEF Grant
<1>6. grant' = [grant EXCEPT ![f] = g]
  <2>1. grant \in [Flows -> Grant]
    BY DEF ClientsInv, FlowsOK
  <2>. QED BY <1>2, <1>3, <1>4, <2>1 DEF Revoked
<1>7. \E s : /\ FlowOK(s, g) /\ flow' = [flow EXCEPT ![f] = s]
             /\ s.pc \notin {"selecting", "verifying"}
  <2>1. CASE answered
    BY <1>5, <2>1, OverOK DEF Revoked
  <2>2. CASE ~answered
    <3>1. Granted(r) /\ g.missed
      BY <1>1, <1>3, <1>5, <2>2 DEF Granted
    <3>. QED BY <1>1, <1>5, <2>2, <3>1, FailOK DEF Revoked
  <2>. QED BY <2>1, <2>2
<1>. QED BY <1>6, <1>7, Of, OnlyFlows DEF Revoked

LEMMA ForgetStep ==
  ASSUME ClientsInv, NEW f \in Flows, Forget(f) PROVE ClientsInv'
<1>1. FlowOK(NoFlow, NoGrant) /\ NoFlow.pc = "idle"
  BY NoFlowOK
<1>2. flow' = [flow EXCEPT ![f] = NoFlow] /\ grant' = [grant EXCEPT ![f] = NoGrant]
  BY DEF Forget, Set
<1>. QED BY <1>1, <1>2, Of, OnlyFlows DEF Forget

\* A step that only changes clients, and never takes a built one back.
LEMMA OnlyClients ==
  ASSUME ClientsInv, client' \in [Providers -> Client], \A p \in Providers : ClientOK(p)',
         \A p \in Providers : client[p].stage = "built" => client'[p].stage = "built",
         discovery' \in {"open", "closed"}, events' \in 0 .. MaxEvents, events <= events',
         UNCHANGED <<signing, selectable, flow, grant>>
  PROVE  ClientsInv'
<1>1. FlowsOK'
  BY DEF ClientsInv, FlowsOK
<1>2. Verifying'
  BY DEF ClientsInv, FlowsOK, Verifying, Flow
<1>3. KeysOK'
  BY DEF ClientsInv, KeysOK, Key, Generations
<1>. QED BY <1>1, <1>2, <1>3 DEF ClientsInv

LEMMA OneClient ==
  ASSUME ClientsInv, NEW p \in Providers, NEW c \in Client, client' = [client EXCEPT ![p] = c],
         client[p].stage = "built" => c.stage = "built",
         c.stage = "fetching" => c.source \in Issuers,
         c.stage = "built" /\ p \in OIDC => c.jwks = IssuerOf[p],
         events' \in 0 .. MaxEvents, events <= events',
         UNCHANGED <<signing, selectable, discovery, flow, grant>>
  PROVE  ClientsInv'
<1>1. client \in [Providers -> Client] /\ discovery \in {"open", "closed"}
  BY DEF ClientsInv
<1>2. client' \in [Providers -> Client]
  BY <1>1
<1>3. \A q \in Providers : ClientOK(q)'
  BY <1>1 DEF ClientsInv, ClientOK
<1>4. \A q \in Providers : client[q].stage = "built" => client'[q].stage = "built"
  BY <1>1
<1>. QED BY <1>1, <1>2, <1>3, <1>4, OnlyClients

LEMMA Stopped ==
  ASSUME ClientsInv, NEW p \in Providers, client[p].stage # "built", Stage(p, "failed"),
         UNCHANGED <<signing, selectable, discovery, flow, grant, events>>
  PROVE  ClientsInv'
<1>1. PICK c \in Client : c = client[p]
  BY DEF ClientsInv
<1>2. PICK d : d = [c EXCEPT !.stage = "failed", !.source = None]
  OBVIOUS
<1>3. d \in Client /\ d.stage = "failed"
  BY <1>2 DEF Client
<1>4. client' = [client EXCEPT ![p] = d]
  BY <1>1, <1>2 DEF Stage, ClientsInv
<1>5. events' \in 0 .. MaxEvents /\ events <= events'
  BY DEF ClientsInv
<1>. QED BY <1>1, <1>3, <1>4, <1>5, OneClient

LEMMA DiscoveringStep ==
  ASSUME ClientsInv, NEW p \in OIDC, Discovering(p) PROVE ClientsInv'
<1>1. p \in Providers /\ IssuerOf[p] \in Issuers
  BY ProvidersAssumption DEF Providers
<1>2. PICK c \in Client : c = client[p] /\ ClientOK(p)
  BY <1>1 DEF ClientsInv
<1>3. events' = events => events' \in 0 .. MaxEvents /\ events <= events'
  BY DEF ClientsInv
<1>4. ASSUME NEW source \in Issuers, Discover(p, source) PROVE ClientsInv'
  <2>1. CASE discovery = "open" /\ Requestable(p, source)
    <3>1. PICK d : d = [c EXCEPT !.stage = "fetching", !.source = source]
      OBVIOUS
    <3>2. d \in Client /\ d.stage = "fetching" /\ d.source = source
      BY <3>1 DEF Client
    <3>3. client' = [client EXCEPT ![p] = d]
      BY <1>2, <1>4, <2>1, <3>1 DEF Discover, ClientsInv
    <3>. QED BY <1>1, <1>2, <1>3, <1>4, <3>2, <3>3, OneClient DEF Discover
  <2>2. CASE ~(discovery = "open" /\ Requestable(p, source))
    BY <1>1, <1>4, <2>2, Stopped DEF Discover
  <2>. QED BY <2>1, <2>2
<1>5. CASE DiscoveryFails(p)
  BY <1>1, <1>5, Stopped DEF DiscoveryFails
<1>6. ASSUME client[p].stage = "fetching", NEW document \in Documents(client[p].source),
             FetchDocument(p, document)
      PROVE  ClientsInv'
  <2>1. CASE Parses(document, IssuerOf[p])
    <3>1. document.jwks = IssuerOf[p]
      BY <2>1 DEF Documents, Parses
    <3>2. PICK d : d = Built(document)
      OBVIOUS
    <3>3. d \in Client /\ d.stage = "built" /\ d.jwks = IssuerOf[p]
      <4>1. 0 \in Generations
        BY ProvidersAssumption DEF Generations
      <4>2. [k \in Kids |-> 0] \in [Kids -> Generations]
        BY <4>1
      <4>. QED BY <1>1, <3>1, <3>2, <4>2 DEF Built, Client
    <3>4. client' = [client EXCEPT ![p] = d]
      BY <1>6, <2>1, <3>2 DEF FetchDocument
    <3>. QED BY <1>1, <1>3, <1>6, <3>3, <3>4, OneClient DEF FetchDocument
  <2>2. CASE ~Parses(document, IssuerOf[p])
    BY <1>1, <1>6, <2>2, Stopped DEF FetchDocument
  <2>. QED BY <2>1, <2>2
<1>. QED BY <1>4, <1>5, <1>6 DEF Discovering

LEMMA CloseStep ==
  ASSUME ClientsInv, NEW p \in Providers, Close(p) PROVE ClientsInv'
<1>1. PICK c \in Client : c = client[p] /\ ClientOK(p) /\ c.stage = "built"
  BY DEF ClientsInv, Close
<1>2. PICK d : d = [c EXCEPT !.closed = TRUE]
  OBVIOUS
<1>3. d \in Client /\ d.stage = c.stage /\ d.jwks = c.jwks /\ d.source = c.source
  BY <1>2 DEF Client
<1>4. client' = [client EXCEPT ![p] = d]
  BY <1>1, <1>2 DEF Close, ClientsInv
<1>5. events' \in 0 .. MaxEvents /\ events <= events'
  BY ProvidersAssumption DEF ClientsInv, Close
<1>. QED BY <1>1, <1>3, <1>4, <1>5, OneClient DEF Close, ClientOK

LEMMA CloseDiscoveryStep ==
  ASSUME ClientsInv, CloseDiscovery PROVE ClientsInv'
<1>1. events' \in 0 .. MaxEvents /\ events <= events'
  BY ProvidersAssumption DEF ClientsInv, CloseDiscovery
<1>2. \A p \in Providers : ClientOK(p)'
  BY DEF ClientsInv, CloseDiscovery, ClientOK
<1>. QED BY <1>1, <1>2, OnlyClients DEF CloseDiscovery, ClientsInv

\* The keys move and nothing else.
LEMMA OnlyKeys ==
  ASSUME ClientsInv, KeysOK', events' \in 0 .. MaxEvents,
         UNCHANGED <<discovery, client, flow, grant>>
  PROVE  ClientsInv'
BY DEF ClientsInv, FlowsOK, Verifying, ClientOK

LEMMA ReplaceKeyStep ==
  ASSUME ClientsInv, NEW i \in Issuers, NEW kid \in Kids, ReplaceKey(i, kid) PROVE ClientsInv'
<1>1. events \in Nat /\ events + 1 <= MaxEvents /\ events' = events + 1
  BY ProvidersAssumption DEF ClientsInv, ReplaceKey
<1>2. PICK k \in Key : k = signing[i] /\ k.version <= events + 1
  BY DEF ClientsInv, KeysOK
<1>3. PICK version : version = k.version + 1
  OBVIOUS
<1>4. version \in Generations /\ version <= events' + 1
  BY <1>1, <1>2, <1>3, ProvidersAssumption DEF Generations, Key
<1>5. PICK l : l = [kid |-> kid, version |-> version]
  OBVIOUS
<1>6. l \in Key /\ l.version = version
  BY <1>4, <1>5 DEF Key
<1>7. signing' = [signing EXCEPT ![i] = l]
  BY <1>2, <1>3, <1>5 DEF ReplaceKey
<1>8. \A j \in Issuers : signing[j].version \in Nat /\ signing[j].version <= events + 1
  BY ProvidersAssumption DEF ClientsInv, KeysOK, Key, Generations
<1>9. \A j \in Issuers : signing'[j].version <= events' + 1
  BY <1>1, <1>4, <1>6, <1>7, <1>8 DEF ClientsInv, KeysOK
<1>10. KeysOK'
  BY <1>6, <1>7, <1>9 DEF ClientsInv, KeysOK, ReplaceKey
<1>. QED BY <1>1, <1>10, ProvidersAssumption, OnlyKeys DEF ReplaceKey

LEMMA RefreshKeysStep ==
  ASSUME ClientsInv, NEW i \in Issuers, RefreshKeys(i) PROVE ClientsInv'
<1>1. KeysOK'
  BY DEF ClientsInv, KeysOK, RefreshKeys
<1>. QED BY <1>1, OnlyKeys DEF RefreshKeys, ClientsInv

----------------------------------------------------------------------------
LEMMA ClientsBegin == ClientsInit => ClientsInv
<1>. SUFFICES ASSUME ClientsInit PROVE ClientsInv
  OBVIOUS
<1>1. 0 \in Generations /\ 1 \in Generations /\ events = 0 /\ events \in 0 .. MaxEvents
  BY ProvidersAssumption DEF ClientsInit, Generations
<1>2. KeysOK
  <2>1. PICK kid \in Kids : signing = [i \in Issuers |-> [kid |-> kid, version |-> 1]]
    BY DEF ClientsInit
  <2>2. signing \in [Issuers -> Key] /\ \A i \in Issuers : signing[i].version = 1
    BY <1>1, <2>1 DEF Key
  <2>. QED BY <1>1, <2>2 DEF KeysOK, ClientsInit
<1>3. FlowsOK
  BY NoFlowOK DEF FlowsOK, ClientsInit
<1>4. Verifying
  BY NoFlowOK DEF Verifying, ClientsInit
<1>5. client \in [Providers -> Client] /\ \A p \in Providers : ClientOK(p)
  <2>1. [k \in Kids |-> 0] \in [Kids -> Generations]
    BY <1>1
  <2>2. ASSUME NEW p \in Providers PROVE client[p] \in Client /\ ClientOK(p)
    <3>1. client[p] = [stage |-> IF p \in GitHub THEN "built" ELSE "absent", closed |-> FALSE,
                       source |-> None, jwks |-> None, verifiers |-> [k \in Kids |-> 0]]
      BY DEF ClientsInit
    <3>2. client[p] \in Client
      BY <2>1, <3>1 DEF Client
    <3>3. client[p].stage = IF p \in GitHub THEN "built" ELSE "absent"
      BY <3>1
    <3>. QED BY <3>2, <3>3, ProvidersAssumption DEF ClientOK
  <2>3. client = [p \in Providers |-> client[p]]
    BY DEF ClientsInit
  <2>. QED BY <2>2, <2>3
<1>. QED BY <1>1, <1>2, <1>3, <1>4, <1>5 DEF ClientsInv, ClientsInit

LEMMA RequestingStep ==
  ASSUME ClientsInv, NEW f \in Flows, Requesting(f) PROVE ClientsInv'
<1>1. CASE \E p \in Providers, scopes \in SUBSET (Allowed \cup Unlisted) : Begin(f, p, scopes)
  BY <1>1, BeginStep
<1>2. CASE \E q \in Providers : Exchange(f, q)
  BY <1>2, ExchangeStep
<1>3. CASE \E current \in BOOLEAN : Refresh(f, current)
  BY <1>3, RefreshStep
<1>4. CASE Unsent(f)
  BY <1>4, UnsentStep
<1>5. CASE \E granted \in SUBSET (Allowed \cup Unlisted), refresh \in {0, 1},
              id \in IF flow[f].by \in OIDC THEN Assertions(f) \cup {None} ELSE {None} :
             Redeem(f, granted, refresh, id)
  BY <1>5, RedeemStep
<1>6. CASE \E rotated \in BOOLEAN, granted \in SUBSET grant[f].scopes : Renew(f, rotated, granted)
  BY <1>6, RenewStep
<1>7. CASE \E status \in {"malformed", "invalid_grant", "error"} : Refuse(f, status)
  BY <1>7, RefuseStep
<1>8. CASE Lose(f)
  BY <1>8, LoseStep
<1>9. CASE Receive(f)
  BY <1>9, ReceiveStep
<1>. QED BY <1>1, <1>2, <1>3, <1>4, <1>5, <1>6, <1>7, <1>8, <1>9 DEF Requesting

LEMMA IdentifyingStep ==
  ASSUME ClientsInv, NEW f \in Flows, Identifying(f) PROVE ClientsInv'
<1>1. CASE \E q \in OIDC : Resolve(f, q)
  BY <1>1, ResolveStep
<1>2. CASE \E refetched \in BOOLEAN : SelectKey(f, refetched)
  BY <1>2, SelectKeyStep
<1>3. CASE Unavailable(f) \/ Verify(f) \/ GitHubFails(f)
  BY <1>3, UnavailableStep, VerifyStep, GitHubFailsStep
<1>4. CASE \E q \in GitHub, emails \in BoundedSeq(Email, 2) : ResolveGitHub(f, q, emails)
  BY <1>4, ResolveGitHubStep
<1>. QED BY <1>1, <1>2, <1>3, <1>4 DEF Identifying

LEMMA EndingStep ==
  ASSUME ClientsInv, NEW f \in Flows, Ending(f) PROVE ClientsInv'
BY RevokeStep, RevokedStep, ForgetStep DEF Ending

LEMMA ClientsStep == ClientsInv /\ [ClientsNext]_clientsVars => ClientsInv'
<1>. SUFFICES ASSUME ClientsInv, [ClientsNext]_clientsVars PROVE ClientsInv'
  OBVIOUS
<1>1. CASE \E p \in OIDC : Discovering(p)
  BY <1>1, DiscoveringStep
<1>2. CASE \E f \in Flows : Requesting(f)
  BY <1>2, RequestingStep
<1>3. CASE \E f \in Flows : Identifying(f)
  BY <1>3, IdentifyingStep
<1>4. CASE \E f \in Flows : Ending(f)
  BY <1>4, EndingStep
<1>5. CASE \E p \in Providers : Close(p)
  BY <1>5, CloseStep
<1>6. CASE CloseDiscovery
  BY <1>6, CloseDiscoveryStep
<1>7. CASE \E i \in Issuers, kid \in Kids : ReplaceKey(i, kid)
  BY <1>7, ReplaceKeyStep
<1>8. CASE \E i \in Issuers : RefreshKeys(i)
  BY <1>8, RefreshKeysStep
<1>9. CASE UNCHANGED clientsVars
  BY <1>9 DEF clientsVars, ClientsInv, KeysOK, FlowsOK, Verifying, ClientOK
<1>. QED BY <1>1, <1>2, <1>3, <1>4, <1>5, <1>6, <1>7, <1>8, <1>9 DEF ClientsNext

LEMMA ClientsInvariant == ClientsSpec => []ClientsInv
BY ClientsBegin, ClientsStep, PTL DEF ClientsSpec

----------------------------------------------------------------------------
\* Whatever the servers answer, the issuers sign with and the clients are
\* closed under, a login ends with its own issuer's word for it or with none:
\* no sibling realm's token, no other client's and no other login's passes.
THEOREM LoginsStaySound == ClientsSpec => []LoginsAreSound
<1>1. ASSUME ClientsInv PROVE LoginsAreSound
  <2>1. ASSUME NEW f \in Flows
        PROVE  /\ flow[f] \in Flow /\ grant[f] \in Grant
               /\ StageOK(flow[f]) /\ Identified(flow[f])
    BY <1>1 DEF ClientsInv, FlowsOK, FlowOK
  <2>2. ASSUME NEW s \in Flow
        PROVE  /\ s.pc \in {"idle", "redirected", "exchanging", "asked", "tokens", "selecting",
                            "verifying", "identified", "refreshing", "kept", "revoking", "over"}
               /\ s.answer = None \/ s.answer.refresh \in Generations
               /\ s.refresh \in Generations
    BY DEF Flow, TokenAnswer
  <2>3. ClientsTypeOK
    BY <1>1, <2>1, <2>2 DEF ClientsTypeOK, ClientsInv, KeysOK
  <2>4. IdentitiesAreAsserted
    <3>1. ASSUME NEW f \in Flows, flow[f].pc = "identified", flow[f].by \in OIDC
          PROVE  MadeFor(f)
      BY <2>1, <3>1 DEF Identified, SaidFor, MadeFor
    <3>. QED BY <2>1, <3>1 DEF IdentitiesAreAsserted, Identified, BestEmail
  <2>. QED BY <2>3, <2>4 DEF LoginsAreSound
<1>. QED BY <1>1, ClientsInvariant, PTL

\* The refresh token and the scopes a caller keeps are the server's, over any
\* number of refreshes and rotations, unless an answer was lost on the way; and
\* nobody is sent back to the login while the token held still works.
THEOREM GrantsStayKept == ClientsSpec => []GrantsAreKept
<1>1. ASSUME ClientsInv PROVE GrantsAreKept
  <2>1. ASSUME NEW f \in Flows
        PROVE  flow[f] \in Flow /\ StageOK(flow[f]) /\ GrantOK(flow[f], grant[f])
    BY <1>1 DEF ClientsInv, FlowsOK, FlowOK
  <2>2. ASSUME NEW f \in Flows, Holds(f), flow[f].pc # "asked" PROVE Granted(flow[f])
    BY <2>1, <2>2 DEF Holds, StageOK, LoggingIn, Granted, Flow
  <2>. QED BY <2>1, <2>2 DEF GrantsAreKept, GrantOK, InStep, Useless
<1>. QED BY <1>1, ClientsInvariant, PTL

----------------------------------------------------------------------------
\* A step that does not touch a flow leaves it without a refusal.
LEMMA Unrefused ==
  ASSUME ClientsInv, NEW f \in Flows, flow[f].pc = "verifying" PROVE flow[f].error = "none"
BY Of DEF StageOK, Unanswered

\* A verdict on a token made for its login is that it is genuine.
LEMMA GenuineIsAccepted ==
  ASSUME ClientsInv, NEW f \in Flows, MadeFor(f), Verify(f)
  PROVE  flow'[f].error = "none"
<1>1. PICK r \in Flow : r = flow[f] /\ r.pc = "verifying" /\ StageOK(r)
  BY Of DEF Verify
<1>2. PICK id \in Assertion : id = r.id /\ IsFiniteSet(id.aud)
  BY <1>1 DEF StageOK, Word, Flow
<1>3. client[r.by].jwks = IssuerOf[r.by]
  BY <1>1 DEF ClientsInv, Verifying, ClientOK, StageOK, TxOK
<1>4. id.key.version = r.verifier
  BY <1>1, <1>2 DEF MadeFor, StageOK
<1>5. AuthorizedParty(id, r.by)
  BY <1>1, <1>2, SoleAudience DEF MadeFor, AuthorizedParty
<1>6. Set(f, [flow[f] EXCEPT !.pc = "identified"])
  BY <1>1, <1>2, <1>3, <1>4, <1>5 DEF MadeFor, Verify
<1>7. flow'[f].error = r.error
  BY <1>1, <1>6 DEF Set, Flow, ClientsInv, FlowsOK
<1>. QED BY <1>1, <1>7, Unrefused

LEMMA ErrorOfOver ==
  ASSUME ClientsInv, NEW f \in Flows, NEW error, Over(f, error) PROVE flow'[f].error = error
<1>1. flow \in [Flows -> Flow]
  BY DEF ClientsInv, FlowsOK
<1>. QED BY <1>1 DEF Over, Set, NoFlow

\* No other step takes the verdict's place: a flow that waits for it is left as
\* it is, is told that nobody can answer, or hears it.
LEMMA VerdictIsHeard ==
  ASSUME ClientsInv, ClientsNext, NEW f \in Flows, flow[f].pc = "verifying"
  PROVE  flow'[f] = flow[f] \/ Unavailable(f) \/ Verify(f)
<1>1. flow \in [Flows -> Flow]
  BY DEF ClientsInv, FlowsOK
<1>2. ASSUME NEW g \in Flows, g # f, Requesting(g) \/ Identifying(g) \/ Ending(g)
      PROVE  flow'[f] = flow[f]
  <2>1. \E s : flow' = [flow EXCEPT ![g] = s]
    BY <1>2 DEF Requesting, Identifying, Ending, Begin, Exchange, Refresh, Unsent, Redeem, Renew,
                Refuse, Lose, Receive, Resolve, SelectKey, Unavailable, Verify, ResolveGitHub,
                GitHubFails, Revoke, Revoked, Forget, Set, Over, Fail
  <2>. QED BY <1>1, <1>2, <2>1
<1>3. ~Requesting(f)
  BY DEF Requesting, Begin, Exchange, Refresh, Unsent, Refuse, Lose, Receive
<1>4. ~Ending(f)
  BY DEF Ending, Revoke, Revoked, Forget
<1>5. CASE Identifying(f)
  BY <1>5 DEF Identifying, Resolve, SelectKey, ResolveGitHub, GitHubFails
<1>6. CASE \/ \E p \in OIDC : Discovering(p)
           \/ \E p \in Providers : Close(p)
           \/ CloseDiscovery
           \/ \E i \in Issuers, kid \in Kids : ReplaceKey(i, kid)
           \/ \E i \in Issuers : RefreshKeys(i)
  BY <1>6 DEF Discovering, Discover, DiscoveryFails, FetchDocument, Close, CloseDiscovery,
              ReplaceKey, RefreshKeys
<1>. QED BY <1>2, <1>3, <1>4, <1>5, <1>6 DEF ClientsNext

\* A token its issuer made for the login, signed with the key selected for it,
\* is never refused: not for an earlier key of the same identifier, not for a
\* key replaced meanwhile, not for what another flow left in the verifier cache.
THEOREM ProperTokensPass == ClientsSpec => ProperTokensAreAccepted
<1>1. ASSUME ClientsInv, [ClientsNext]_clientsVars, NEW f \in Flows,
             flow[f].pc = "verifying", MadeFor(f)
      PROVE  flow'[f].error # "refused"
  <2>1. CASE flow'[f] = flow[f]
    BY <1>1, <2>1, Unrefused
  <2>2. CASE Unavailable(f)
    BY <1>1, <2>2, ErrorOfOver DEF Unavailable
  <2>3. CASE Verify(f)
    BY <1>1, <2>3, GenuineIsAccepted
  <2>4. CASE UNCHANGED clientsVars
    BY <2>1, <2>4 DEF clientsVars
  <2>. QED BY <1>1, <2>1, <2>2, <2>3, <2>4, VerdictIsHeard
<1>2. ClientsInv /\ [ClientsNext]_clientsVars =>
        [\A f \in Flows : flow[f].pc = "verifying" /\ MadeFor(f)
                            => flow'[f].error # "refused"]_clientsVars
  BY <1>1
<1>. QED BY <1>2, ClientsInvariant, PTL DEF ClientsSpec, ProperTokensAreAccepted
=============================================================================
