------------------------ MODULE RequestPipelineProofs ------------------------
(***************************************************************************)
(* The request pipeline, whatever requests are under way and whatever the  *)
(* world does meanwhile: API keys and their uses, the profiles of tokens,  *)
(* and the evaluator.  The evaluator's invariant, EvaluatorInv, has two    *)
(* halves: what the world keeps while a request waits (WorldInv), and what *)
(* is known at each phase of a request (RequestInv, by way of Progress),   *)
(* told against the history of what was true meanwhile.                    *)
(***************************************************************************)
EXTENDS RequestPipeline, FiniteSetTheorems, WellFoundedInduction, TLAPS

(***************************************************************************)
(* Time and the records of keys.                                           *)
(***************************************************************************)
KeptKey == [state : {"kept"}, expires : Nat \cup {Never}, revoked : Nat \cup {Never},
            overlap : Nat \cup {Never}]

KeysInv == now \in Nat /\ keys \in [Keys -> KeptKey \cup {NoKey}]

LEMMA NoKeyIsNotKept == NoKey \notin KeptKey
BY DEF NoKey, KeptKey

LEMMA NewKeyIsKept == ASSUME NEW k \in Keys PROVE NewKey(k) \in KeptKey /\ NewKey(k).revoked = Never
BY KeyAssumption DEF NewKey, KeptKey

LEMMA RevokedIsKept ==
  ASSUME NEW r \in KeptKey, NEW overlap \in Nat \cup {Never}, now \in Nat
  PROVE  /\ Revoked(r, overlap) \in KeptKey
         /\ Revoked(r, overlap).revoked = now /\ Revoked(r, overlap).overlap = overlap
         /\ Revoked(r, overlap).expires = r.expires
BY DEF Revoked, KeptKey

\* What a step may do to one record: nothing while time passes, or, at one
\* moment, issue it, replace it or revoke it.
KeyMoves(k) ==
  \/ keys'[k] = keys[k]
  \/ keys[k] = NoKey /\ keys'[k] \in KeptKey /\ keys'[k].revoked = Never
  \/ /\ keys[k] \in KeptKey /\ keys[k].revoked = Never /\ now' = now
     /\ keys'[k] \in KeptKey /\ keys'[k].expires = keys[k].expires /\ keys'[k].revoked = now
  \/ /\ keys[k] \in KeptKey /\ now' = now
     /\ keys'[k] \in KeptKey /\ keys'[k].expires = keys[k].expires
     /\ keys'[k].revoked = now /\ keys'[k].overlap = Never

LEMMA IssueMoves ==
  ASSUME KeysInv, NEW n \in Keys, IssueKey(n)
  PROVE  keys' \in [Keys -> KeptKey \cup {NoKey}] /\ \A k \in Keys : KeyMoves(k)
BY NewKeyIsKept DEF IssueKey, KeysInv, KeyMoves

LEMMA RevokeMoves ==
  ASSUME KeysInv, NEW n \in Keys, RevokeKey(n), now' = now
  PROVE  keys' \in [Keys -> KeptKey \cup {NoKey}] /\ \A k \in Keys : KeyMoves(k)
<1>1. keys[n] \in KeptKey
  BY DEF RevokeKey, KeysInv
<1>2. /\ Revoked(keys[n], Never) \in KeptKey
      /\ Revoked(keys[n], Never).revoked = now /\ Revoked(keys[n], Never).overlap = Never
      /\ Revoked(keys[n], Never).expires = keys[n].expires
  BY <1>1, RevokedIsKept DEF KeysInv
<1>3. keys' = [keys EXCEPT ![n] = Revoked(keys[n], Never)]
  BY DEF RevokeKey
<1>. QED BY <1>1, <1>2, <1>3 DEF KeysInv, KeyMoves

LEMMA RotateMoves ==
  ASSUME KeysInv, NEW current \in Keys, NEW new \in Keys, NEW overlap \in Overlaps,
         RotateKey(current, new, overlap), now' = now
  PROVE  keys' \in [Keys -> KeptKey \cup {NoKey}] /\ \A k \in Keys : KeyMoves(k)
<1>. DEFINE bound == BoundedOverlap(keys[current], overlap)
            replaced == Revoked(keys[current], bound)
<1>1. keys[current] \in KeptKey /\ keys[current].revoked = Never /\ keys[new] = NoKey
  BY DEF RotateKey, MayRotate, KeysInv
<1>2. bound \in Nat \cup {Never}
  BY <1>1, KeyAssumption DEF BoundedOverlap, KeptKey, KeysInv
<1>3. replaced \in KeptKey /\ replaced.revoked = now /\ replaced.expires = keys[current].expires
  BY <1>1, <1>2, RevokedIsKept DEF KeysInv
<1>4. keys' = [keys EXCEPT ![current] = replaced, ![new] = NewKey(new)] /\ current # new
  BY <1>1, NoKeyIsNotKept DEF RotateKey
<1>. HIDE DEF replaced
<1>. QED BY <1>1, <1>3, <1>4, NewKeyIsKept DEF KeysInv, KeyMoves

\* Only the world's steps touch a record or the clock, and only one at a time.
LEMMA StepMovesKeys ==
  ASSUME KeysInv, [NextStep]_vars
  PROVE  /\ now' \in Nat /\ now' >= now
         /\ keys' \in [Keys -> KeptKey \cup {NoKey}] /\ \A k \in Keys : KeyMoves(k)
<1>1. CASE UNCHANGED <<keys, now>>
  BY <1>1 DEF KeysInv, KeyMoves
<1>2. CASE Handle \/ UNCHANGED vars
  <2>1. UNCHANGED <<keys, now>>
    BY <1>2 DEF Handle, Request, Arrive, ExtractionFails, Authenticate, ObserveUse, ResolveIdentity,
       Authorize, Guard, Finish, Unavailable, Raise, worldVars, apiKeyVars, vars
  <2>. QED BY <1>1, <2>1
<1>3. CASE Flush
  <2>1. UNCHANGED <<keys, now>>
    BY <1>3 DEF Flush, FlushSkips, FlushWrites, FlushAnswered
  <2>. QED BY <1>1, <2>1
<1>4. CASE World
  <2>1. CASE Tick
    BY <2>1 DEF Tick, apiKeyVars, KeysInv, KeyMoves
  <2>2. CASE KeyStep
    <3>1. now' = now
      BY <2>2 DEF KeyStep
    <3>2. CASE \E force \in BOOLEAN : FlushBegins(force)
      BY <1>1, <3>1, <3>2 DEF FlushBegins
    <3>. QED BY <2>2, <3>1, <3>2, IssueMoves, RevokeMoves, RotateMoves DEF KeyStep, KeysInv
  <2>3. CASE (\E p \in Principals : ChangeAuthority(p)) \/ TokenStep \/ LogoutStep
    <3>1. UNCHANGED <<keys, now>>
      BY <2>3 DEF ChangeAuthority, TokenStep, LogoutStep, apiKeyVars
    <3>. QED BY <1>1, <3>1
  <2>. QED BY <1>4, <2>1, <2>2, <2>3 DEF World
<1>. QED BY <1>2, <1>3, <1>4 DEF NextStep

LEMMA KeysInitInv == Init => KeysInv
BY NewKeyIsKept DEF Init, APIKeysInit, KeysInv

LEMMA KeysNextInv == KeysInv /\ [NextStep]_vars => KeysInv'
BY StepMovesKeys DEF KeysInv

LEMMA KeysStepDead ==
  ASSUME KeysInv, [NextStep]_vars
  PROVE  DeadKeysStayDead
<1>. SUFFICES ASSUME NEW k \in Keys, keys[k] # NoKey
              PROVE  /\ keys'[k] # NoKey
                     /\ ~IsValidAt(keys[k], now) => ~IsValidAt(keys'[k], now')
                     /\ keys[k].revoked # Never => keys'[k].revoked # Never
                                                   /\ keys'[k].overlap \in {keys[k].overlap, Never}
  BY DEF DeadKeysStayDead
<1>1. keys[k] \in KeptKey /\ KeyMoves(k) /\ now \in Nat /\ now' \in Nat /\ now' >= now
  BY StepMovesKeys DEF KeysInv
<1>2. keys'[k] \in KeptKey /\ keys'[k] # NoKey
  BY <1>1, NoKeyIsNotKept DEF KeyMoves
<1>3. CASE keys'[k] = keys[k]
  BY <1>1, <1>2, <1>3, KeyAssumption DEF IsValidAt, KeptKey
<1>4. CASE keys'[k] # keys[k]
  BY <1>1, <1>2, <1>4, KeyAssumption DEF KeyMoves, IsValidAt, KeptKey
<1>. QED BY <1>3, <1>4

\* Whatever rotations and revocations are asked for, of whatever keys and in
\* whatever order, and however time passes between them, a key that stopped
\* working never works again.
THEOREM KeysNeverRevive == Spec => KeysStayDead
<1>1. KeysInv /\ [NextStep]_vars => DeadKeysStayDead
  BY KeysStepDead
<1>. QED BY <1>1, KeysInitInv, KeysNextInv, PTL DEF Spec, KeysStayDead

(***************************************************************************)
(* The uses of keys on their way to the sink.                              *)
(***************************************************************************)
IsFlush(f) ==
  f = [state |-> f.state, todo |-> f.todo, force |-> f.force, writing |-> f.writing]

UsesTyped ==
  /\ now \in Nat
  /\ lastUse \in [Keys -> Int] /\ pending \in [Keys -> Int] /\ written \in [Keys -> Int]
  /\ \A k \in Keys : lastUse[k] \in -1..now /\ pending[k] \in -1..lastUse[k]
                     /\ written[k] \in -1..lastUse[k]
  /\ IsFlush(flush)
  /\ \A e \in flush.todo : e = [key |-> e.key, used |-> e.used] /\ e.key \in Keys /\ e.used \in Nat

\* A waiting entry is at least as new as what was written, the entries that a
\* flush has still to visit wait, one for each key, at most as new, and an
\* entry with no excuse is the last use.
UsesInv ==
  /\ UsesTyped
  /\ \A k \in Keys : pending[k] # Unused => written[k] <= pending[k]
  /\ \A e \in flush.todo : e.used <= pending[e.key]
  /\ \A e, f \in flush.todo : e.key = f.key => e = f
  /\ \A k \in Keys : k \notin excused => lastUse[k] = Later(written[k], pending[k])
  /\ \A e \in flush.todo : e.key \notin excused => lastUse[e.key] = e.used

LEMMA UsesInitInv == Init => UsesInv
BY DEF Init, APIKeysInit, UsesInv, UsesTyped, IsFlush, NoFlush, Unused, Later

\* Steps that leave the buffer alone, and time.
LEMMA UsesUntouched ==
  ASSUME UsesInv, UNCHANGED usageVars, now' \in Nat, now' >= now
  PROVE  UsesInv'
BY DEF UsesInv, UsesTyped, usageVars

LEMMA ObserveStep ==
  ASSUME UsesInv, NEW k \in Keys, ObserveUse(k), now' = now
  PROVE  UsesInv'
<1>. USE DEF UsesInv, UsesTyped
<1>. DEFINE full == pending[k] = Unused /\ Cardinality(Entries) >= UsageCapacity
<1>1. /\ lastUse' = [lastUse EXCEPT ![k] = now] /\ UNCHANGED <<written, flush>>
      /\ pending' = IF full THEN pending ELSE [pending EXCEPT ![k] = now]
  <2>1. pending[k] # Unused => Later(pending[k], now) = now
    BY DEF Later, Unused
  <2>. QED BY <2>1 DEF ObserveUse, Observed
<1>2. /\ \A j \in Keys : j # k => lastUse'[j] = lastUse[j] /\ pending'[j] = pending[j]
                                  /\ (j \in excused' <=> j \in excused)
      /\ lastUse'[k] = now
      /\ full => pending'[k] = Unused /\ k \in excused'
      /\ ~full => pending'[k] = now
  BY <1>1 DEF ObserveUse, Unused
<1>3. \A e \in flush.todo : e.key = k => pending[k] # Unused
  BY DEF Unused
<1>4. \A e \in flush.todo : e.key = k /\ k \notin excused' => e.used = now
  BY <1>3 DEF ObserveUse
<1>5. UsesTyped'
  BY <1>1, <1>2 DEF Unused
<1>6. \A j \in Keys : pending'[j] # Unused => written'[j] <= pending'[j]
  BY <1>1, <1>2
<1>7. \A e \in flush'.todo : e.used <= pending'[e.key]
  BY <1>1, <1>2, <1>3
<1>8. \A j \in Keys : j \notin excused' => lastUse'[j] = Later(written'[j], pending'[j])
  BY <1>1, <1>2, <1>5 DEF Later
<1>9. \A e \in flush'.todo : e.key \notin excused' => lastUse'[e.key] = e.used
  BY <1>1, <1>2, <1>4
<1>. QED BY <1>1, <1>5, <1>6, <1>7, <1>8, <1>9

LEMMA FlushBeginsStep ==
  ASSUME UsesInv, NEW force \in BOOLEAN, FlushBegins(force), now' = now
  PROVE  UsesInv'
<1>. USE DEF UsesInv, UsesTyped
<1>1. /\ flush'.todo = {[key |-> k, used |-> pending[k]] : k \in Entries} /\ IsFlush(flush')
      /\ UNCHANGED <<pending, written, lastUse, excused>>
  BY DEF FlushBegins, IsFlush
<1>2. \A e \in flush'.todo : /\ e.key \in Entries /\ e.used = pending[e.key]
                             /\ e = [key |-> e.key, used |-> e.used]
  BY <1>1
<1>3. \A k \in Entries : k \in Keys /\ pending[k] \in Nat
  BY DEF Entries, Unused
<1>4. \A k \in Entries : k \notin excused => lastUse[k] = pending[k]
  BY <1>3 DEF Entries, Later, Unused
<1>. QED BY <1>1, <1>2, <1>3, <1>4

LEMMA FlushEntryStep ==
  ASSUME UsesInv, NEW e \in flush.todo, now' = now,
         FlushSkips(e) \/ FlushWrites(e) \/ \E ok \in BOOLEAN : FlushAnswered(e, ok)
  PROVE  UsesInv'
<1>. USE DEF UsesInv, UsesTyped
<1>1. CASE FlushSkips(e) \/ FlushWrites(e)
  <2>1. /\ flush'.todo \subseteq flush.todo /\ IsFlush(flush')
        /\ UNCHANGED <<pending, written, lastUse, excused>>
    BY <1>1 DEF FlushSkips, FlushWrites, NoFlush, IsFlush
  <2>. QED BY <2>1
<1>2. ASSUME NEW ok \in BOOLEAN, FlushAnswered(e, ok) PROVE UsesInv'
  <2>0. IsFlush(flush') /\ \A f \in flush'.todo : f \in flush.todo /\ f # e
    <3>1. CASE flush.todo = {e}
      BY <1>2, <3>1 DEF FlushAnswered, NoFlush, IsFlush
    <3>2. CASE flush.todo # {e}
      <4>1. flush' = [[flush EXCEPT !.todo = @ \ {e}] EXCEPT !.writing = {}]
        BY <1>2, <3>2 DEF FlushAnswered
      <4>. QED BY <4>1 DEF IsFlush
    <3>. QED BY <3>1, <3>2
  <2>1. /\ UNCHANGED lastUse
        /\ \A k \in Keys : k # e.key => pending'[k] = pending[k] /\ written'[k] = written[k]
                                        /\ (k \in excused' <=> k \in excused)
        /\ pending'[e.key] = Unused /\ (e.key \notin excused' => ok /\ e.key \notin excused)
        /\ written'[e.key] = IF ok THEN e.used ELSE written[e.key]
        /\ pending' \in [Keys -> Int] /\ written' \in [Keys -> Int]
    BY <1>2 DEF FlushAnswered, Unused
  <2>2. \A f \in flush'.todo : f.key # e.key /\ f.key \in Keys
    BY <2>0
  <2>3. e.used <= lastUse[e.key] /\ e.used \in Nat /\ e.key \in Keys
    OBVIOUS
  <2>4. UsesTyped'
    BY <2>0, <2>1, <2>3 DEF Unused
  <2>5. \A k \in Keys : pending'[k] # Unused => written'[k] <= pending'[k]
    BY <2>1
  <2>6. \A f \in flush'.todo : f.used <= pending'[f.key]
                               /\ (f.key \notin excused' => lastUse'[f.key] = f.used)
    BY <2>0, <2>1, <2>2
  <2>7. \A k \in Keys : k \notin excused' => lastUse'[k] = Later(written'[k], pending'[k])
    <3>1. e.key \notin excused' => lastUse[e.key] = e.used
      BY <2>1
    <3>. QED BY <2>1, <2>3, <3>1 DEF Later, Unused
  <2>. QED BY <2>0, <2>4, <2>5, <2>6, <2>7
<1>. QED BY <1>1, <1>2

LEMMA UsesNextInv == UsesInv /\ KeysInv /\ [NextStep]_vars => UsesInv'
<1>. SUFFICES ASSUME UsesInv, KeysInv, [NextStep]_vars PROVE UsesInv'
  OBVIOUS
<1>1. now' \in Nat /\ now' >= now
  BY StepMovesKeys
<1>2. CASE Authenticate
  <2>1. now' = now
    BY <1>2 DEF Authenticate
  <2>2. CASE UNCHANGED apiKeyVars
    BY <1>1, <2>2, UsesUntouched DEF apiKeyVars, usageVars
  <2>3. CASE ~UNCHANGED apiKeyVars
    <3>. DEFINE c == CredentialAt(request, Next(request.todo))
    <3>1. KeyAccepted(c.key, c.right) /\ ObserveUse(c.key)
      BY <1>2, <2>3 DEF Authenticate, Accepted
    <3>2. CASE c.key \in Keys
      BY <2>1, <3>1, <3>2, ObserveStep
    <3>3. CASE c.key \notin Keys
      <4>1. UNCHANGED <<pending, lastUse, written, flush>>
        BY <3>1, <3>3 DEF ObserveUse, Observed, UsesInv, UsesTyped
      <4>. QED BY <2>1, <3>1, <3>3, <4>1 DEF ObserveUse, UsesInv, UsesTyped
    <3>. QED BY <3>2, <3>3
  <2>. QED BY <2>2, <2>3
<1>3. CASE World
  <2>1. CASE \E force \in BOOLEAN : FlushBegins(force) /\ now' = now
    BY <2>1, FlushBeginsStep
  <2>2. CASE UNCHANGED usageVars
    BY <1>1, <2>2, UsesUntouched
  <2>3. (\E force \in BOOLEAN : FlushBegins(force) /\ now' = now) \/ UNCHANGED usageVars
    BY <1>3 DEF World, Tick, ChangeAuthority, KeyStep, IssueKey, RevokeKey, RotateKey, TokenStep,
       LogoutStep, apiKeyVars, usageVars
  <2>. QED BY <2>1, <2>2, <2>3
<1>4. CASE Flush
  BY <1>4, FlushEntryStep DEF Flush
<1>5. CASE (Handle /\ ~Authenticate) \/ UNCHANGED vars
  <2>1. UNCHANGED usageVars
    BY <1>5 DEF Handle, Request, Arrive, ExtractionFails, ResolveIdentity, Authorize, Guard, Finish,
       Unavailable, Raise, worldVars, apiKeyVars, usageVars, vars
  <2>. QED BY <1>1, <2>1, UsesUntouched
<1>. QED BY <1>2, <1>3, <1>4, <1>5 DEF NextStep

\* Wherever uses and flushes interleave, the sink holds the last use of a key
\* or is about to be told of it, unless the buffer's contract excuses it.
THEOREM UsesAreKept == Spec => []UsesAreLostOnlyInTheWindow
<1>1. UsesInv => UsesAreLostOnlyInTheWindow
  BY DEF UsesInv, UsesTyped, UsesAreLostOnlyInTheWindow
<1>. QED BY <1>1, UsesInitInv, UsesNextInv, KeysInitInv, KeysNextInv, PTL DEF Spec

(***************************************************************************)
(* The profiles of tokens.                                                 *)
(***************************************************************************)
\* A logout profile may accept nothing else (_logout.py:32); slots accept the
\* types of access tokens unless the application widens them (_claims.py:100).
DefaultTypes ==
  /\ LogoutProfile.types = {"logout+jwt"}
  /\ \A s \in BearerSlots : s.profile.types \subseteq {"at+jwt", "application/at+jwt"}

LEMMA OneAtMost ==
  ASSUME NEW S, NEW x, S \subseteq {x}
  PROVE  Cardinality(S) \in 0..1
<1>1. CASE S = {}
  BY <1>1, FS_EmptySet
<1>2. CASE S = {x}
  BY <1>2, FS_Singleton
<1>. QED BY <1>1, <1>2

LEMMA NoneAtAll == Cardinality({}) = 0
BY FS_EmptySet

LEMMA ProfileHasType ==
  ASSUME DefaultTypes, NEW t
  PROVE  /\ Profile(t) # {} => t.type \in {"at+jwt", "application/at+jwt"}
         /\ Purpose(t) # {} => t.type = "capability+jwt"
         /\ Logout(t) # {} => t.type = "logout+jwt"
<1>1. ASSUME Profile(t) # {} PROVE t.type \in {"at+jwt", "application/at+jwt"}
  <2>1. BearerAccepted(t)
    BY <1>1 DEF Profile
  <2>2. SelectSlot(t) # {}
    BY <2>1, FS_EmptySet DEF BearerAccepted
  <2>3. PICK s \in BearerSlots : VerifyJWT(t, s.profile, TrustedKeys(s))
    BY <2>1, <2>2 DEF BearerAccepted, SelectSlot
  <2>. QED BY <2>3 DEF VerifyJWT, ValidateHeader, DefaultTypes
<1>2. ASSUME Purpose(t) # {} PROVE t.type = "capability+jwt"
  BY <1>2 DEF Purpose, VerifyCapability
<1>3. ASSUME Logout(t) # {} PROVE t.type = "logout+jwt"
  BY <1>3 DEF Logout, LogoutTokenAccepted, VerifyJWT, ValidateHeader, DefaultTypes
<1>. QED BY <1>1, <1>2, <1>3

LEMMA ProfilesAreApart == ASSUME DefaultTypes PROVE TokensServeOneProfile
<1>. SUFFICES ASSUME NEW t
              PROVE  Cardinality(Profile(t)) + Cardinality(Purpose(t)) + Cardinality(Logout(t)) <= 1
  BY DEF TokensServeOneProfile
<1>1. Profile(t) \subseteq {SlotOf(t).name}
  BY DEF Profile
<1>2. Purpose(t) \subseteq {<<"capability", t.purpose>>}
  BY DEF Purpose, VerifyCapability
<1>3. Logout(t) \subseteq {"logout"}
  BY DEF Logout
<1>4. /\ Cardinality(Profile(t)) \in 0..1 /\ Cardinality(Purpose(t)) \in 0..1
      /\ Cardinality(Logout(t)) \in 0..1
  BY <1>1, <1>2, <1>3, OneAtMost
<1>5. /\ Profile(t) = {} \/ (Purpose(t) = {} /\ Logout(t) = {})
      /\ Purpose(t) = {} \/ Logout(t) = {}
  BY ProfileHasType
<1>. QED BY <1>4, <1>5, NoneAtAll

\* While the slots keep to access tokens no token passes for two things,
\* whatever the ring signs and however it is rotated, and uses are kept.
THEOREM TokensAndKeysStayApart ==
  ASSUME DefaultTypes PROVE Spec => []TokensAndKeysAreKeptApart
<1>1. UsesInv => TokensAndKeysAreKeptApart
  BY ProfilesAreApart
     DEF UsesInv, UsesTyped, UsesAreLostOnlyInTheWindow, TokensAndKeysAreKeptApart
<1>. QED BY <1>1, UsesInitInv, UsesNextInv, KeysInitInv, KeysNextInv, PTL DEF Spec


(***************************************************************************)
(* What the world keeps while a request waits: a revocation lies in the    *)
(* past, the usage buffer has room, the ring signs for this API only, the  *)
(* sessions that were logged out are those some logout names, and the      *)
(* bounds of the model hold.                                               *)
(***************************************************************************)
RevokedPast == \A k \in Keys : keys[k] # NoKey /\ keys[k].revoked # Never => keys[k].revoked <= now

BufferInv ==
  /\ \A k \in Keys : keys[k] # NoKey => APIKeyState(keys[k])
  /\ IsFiniteSet(Entries) /\ Cardinality(Entries) <= UsageCapacity
  /\ flush.writing \subseteq {e.key : e \in flush.todo}

RingInv ==
  /\ accounts \in [Accounts -> [epoch : Int, active : BOOLEAN]]
  /\ ring.active \in 1..MaxKeys /\ ring.retained \subseteq 1..MaxKeys
  /\ \A t \in tokens : Issued(t) /\ t.signer \in 1..ring.active /\ t.iat <= now

LogoutInv == revoked \subseteq Sessions /\ \A s \in Sessions : s \in revoked <=> Logged(s)

BoundInv ==
  /\ now <= MaxTime /\ events \in 0..MaxEvents /\ request.load \in Nat
  /\ hasResolver \in BOOLEAN
  /\ authority \in [Principals -> Nat]
  /\ \A p \in Principals : authority[p] \in DOMAIN AuthorityOf[p]

LEMMA RevokedPastKept == ASSUME KeysInv, RevokedPast, [NextStep]_vars PROVE RevokedPast'
<1>. SUFFICES ASSUME NEW k \in Keys, keys'[k] # NoKey, keys'[k].revoked # Never
              PROVE  keys'[k].revoked <= now'
  BY DEF RevokedPast
<1>1. KeyMoves(k) /\ now \in Nat /\ now' \in Nat /\ now' >= now /\ keys[k] \in KeptKey \cup {NoKey}
  BY StepMovesKeys DEF KeysInv
<1>2. CASE keys'[k] = keys[k]
  BY <1>1, <1>2 DEF RevokedPast, KeptKey
<1>3. CASE keys'[k] # keys[k] /\ keys[k] # NoKey
  BY <1>1, <1>3 DEF KeyMoves
<1>. QED BY <1>1, <1>2, <1>3 DEF KeyMoves

LEMMA SignedIssued ==
  ASSUME NEW claims, NEW type \in {"at+jwt", "capability+jwt"},
         DOMAIN claims \cap {"type", "kid", "signer"} = {},
         {"subject", "issuer", "audience", "iat", "exp", "nbf"} \subseteq DOMAIN claims,
         claims.subject \in Accounts, claims.issuer = LocalIssuer, claims.audience = LocalAudience,
         claims.iat = now, claims.exp = now + Lifetime, claims.nbf = Never, now \in Nat
  PROVE  /\ Issued(Signed(type, claims)) /\ Signed(type, claims).signer = ring.active
         /\ Signed(type, claims).iat = now
<1>. DEFINE t == Signed(type, claims)
<1>1. /\ t.type = type /\ t.kid = ring.active /\ t.signer = ring.active
      /\ t.subject = claims.subject /\ t.issuer = claims.issuer /\ t.audience = claims.audience
      /\ t.iat = claims.iat /\ t.exp = claims.exp /\ t.nbf = claims.nbf
  BY DEF Signed
<1>. HIDE DEF t
<1>2. Issued(t) /\ t.signer = ring.active /\ t.iat = now
  BY <1>1, TokensAssumption DEF Issued
<1>. QED BY <1>2 DEF t

LEMMA RingStep ==
  ASSUME RingInv, KeysInv, NEW a \in Accounts, now' = now,
         (\E e \in LoginEvidence, S \in {{}, {"read"}} : IssueAccessToken(a, e, S))
           \/ (\E p \in Purposes : MintCapability(a, p, LocalAudience))
  PROVE  RingInv'
<1>1. PICK t : tokens' = tokens \cup {t} /\ Issued(t) /\ t.signer = ring.active /\ t.iat = now
  <2>1. CASE \E e \in LoginEvidence, S \in {{}, {"read"}} : IssueAccessToken(a, e, S)
    <3>1. PICK e \in LoginEvidence, S \in {{}, {"read"}} : IssueAccessToken(a, e, S)
      BY <2>1
    <3>2. /\ Issued(Signed("at+jwt", AccessClaims(a, e, S)))
          /\ Signed("at+jwt", AccessClaims(a, e, S)).signer = ring.active
          /\ Signed("at+jwt", AccessClaims(a, e, S)).iat = now
      <4>1. /\ DOMAIN AccessClaims(a, e, S) \cap {"type", "kid", "signer"} = {}
            /\ {"subject", "issuer", "audience", "iat", "exp", "nbf"} \subseteq DOMAIN AccessClaims(a, e, S)
            /\ AccessClaims(a, e, S).subject \in Accounts /\ AccessClaims(a, e, S).issuer = LocalIssuer /\ AccessClaims(a, e, S).audience = LocalAudience
            /\ AccessClaims(a, e, S).iat = now /\ AccessClaims(a, e, S).exp = now + Lifetime /\ AccessClaims(a, e, S).nbf = Never
        BY DEF AccessClaims
      <4>. QED BY <4>1, SignedIssued DEF KeysInv
    <3>. QED BY <3>1, <3>2 DEF IssueAccessToken, Sign
  <2>2. CASE \E p \in Purposes : MintCapability(a, p, LocalAudience)
    <3>1. PICK p \in Purposes : MintCapability(a, p, LocalAudience)
      BY <2>2
    <3>2. /\ Issued(Signed("capability+jwt", CapabilityClaims(a, p, LocalAudience)))
          /\ Signed("capability+jwt", CapabilityClaims(a, p, LocalAudience)).signer = ring.active
          /\ Signed("capability+jwt", CapabilityClaims(a, p, LocalAudience)).iat = now
      <4>1. /\ DOMAIN CapabilityClaims(a, p, LocalAudience) \cap {"type", "kid", "signer"} = {}
            /\ {"subject", "issuer", "audience", "iat", "exp", "nbf"} \subseteq DOMAIN CapabilityClaims(a, p, LocalAudience)
            /\ CapabilityClaims(a, p, LocalAudience).subject \in Accounts /\ CapabilityClaims(a, p, LocalAudience).issuer = LocalIssuer /\ CapabilityClaims(a, p, LocalAudience).audience = LocalAudience
            /\ CapabilityClaims(a, p, LocalAudience).iat = now /\ CapabilityClaims(a, p, LocalAudience).exp = now + Lifetime /\ CapabilityClaims(a, p, LocalAudience).nbf = Never
        BY DEF CapabilityClaims
      <4>. QED BY <4>1, SignedIssued DEF KeysInv
    <3>. QED BY <3>1, <3>2 DEF MintCapability, Sign
  <2>. QED BY <2>1, <2>2
<1>2. UNCHANGED <<accounts, ring>>
  BY DEF IssueAccessToken, MintCapability, Sign
<1>. QED BY <1>1, <1>2 DEF RingInv, KeysInv

LEMMA RingInitInv == Init => RingInv
BY TokensAssumption DEF Init, BearerTokensInit, RingInv

LEMMA RingKept ==
  ASSUME RingInv, KeysInv, [NextStep]_vars
  PROVE  RingInv' /\ tokens \subseteq tokens'
<1>0. now' \in Nat /\ now' >= now /\ now \in Nat
  BY StepMovesKeys DEF KeysInv
<1>1. CASE UNCHANGED tokenVars
  BY <1>0, <1>1 DEF RingInv, tokenVars, Issued
<1>2. CASE TokenStep
  <2>1. now' = now
    BY <1>2 DEF TokenStep
  <2>2. CASE \E a \in Accounts : (\E e \in LoginEvidence, S \in {{}, {"read"}} : IssueAccessToken(a, e, S))
                                 \/ (\E p \in Purposes : MintCapability(a, p, LocalAudience))
    BY <2>1, <2>2, RingStep DEF IssueAccessToken, MintCapability, Sign
  <2>3. CASE \E a \in Accounts : EndEpoch(a) \/ Deactivate(a)
    <3>1. PICK a \in Accounts : EndEpoch(a) \/ Deactivate(a)
      BY <2>3
    <3>2. accounts' \in [Accounts -> [epoch : Int, active : BOOLEAN]]
      <4>1. CASE EndEpoch(a)
        BY <4>1 DEF EndEpoch, RingInv
      <4>2. CASE Deactivate(a)
        BY <4>2 DEF Deactivate, RingInv
      <4>. QED BY <3>1, <4>1, <4>2
    <3>. QED BY <2>1, <3>1, <3>2 DEF RingInv, EndEpoch, Deactivate, Issued
  <2>4. CASE \E retained \in SUBSET AllVerificationKeys : RotateSigningKey(retained)
    BY <2>1, <2>4, TokensAssumption DEF RingInv, RotateSigningKey, AllVerificationKeys
  <2>. QED BY <1>2, <2>2, <2>3, <2>4 DEF TokenStep
<1>3. UNCHANGED tokenVars \/ TokenStep
  BY DEF NextStep, Handle, World, Flush, Request, Arrive, ExtractionFails, Authenticate, ResolveIdentity,
     Authorize, Guard, Finish, Unavailable, Raise, Tick, ChangeAuthority, KeyStep, LogoutStep, worldVars, vars
<1>. QED BY <1>1, <1>2, <1>3

LEMMA LogoutInitInv == Init => LogoutInv
BY DEF Init, LogoutInit, LogoutInv, Logged

LEMMA LogoutKept == ASSUME LogoutInv, [NextStep]_vars PROVE LogoutInv'
<1>1. CASE UNCHANGED logoutVars
  BY <1>1 DEF LogoutInv, logoutVars, Logged
<1>2. CASE \E t \in ForeignTokens \cup tokens : Backchannel(t)
  <2>1. PICK t \in ForeignTokens \cup tokens : Backchannel(t)
    BY <1>2
  <2>2. /\ revoked' = revoked \cup {s \in Sessions : NamedBy(t, s)}
        /\ logouts' = logouts \cup {[subject |-> t.subject, sid |-> t.sid]}
    BY <2>1 DEF Backchannel
  <2>3. \A s \in Sessions : s \in revoked' <=> s \in revoked \/ NamedBy(t, s)
    BY <2>2
  <2>4. \A s : Logged(s)' <=> Logged(s) \/ NamedBy(t, s)
    <3>. DEFINE told == [subject |-> t.subject, sid |-> t.sid]
    <3>1. logouts' = logouts \cup {told} /\ told.subject = t.subject /\ told.sid = t.sid
      BY <2>2
    <3>. HIDE DEF told
    <3>. QED BY <3>1 DEF Logged, NamedBy
  <2>. QED BY <2>2, <2>3, <2>4 DEF LogoutInv
<1>3. CASE \E sid, binding \in ProviderSessions : Frontchannel(sid, BindingOf[binding])
  <2>1. PICK sid \in ProviderSessions, binding \in ProviderSessions : Frontchannel(sid, BindingOf[binding])
    BY <1>3
  <2>2. /\ revoked' = revoked \cup {s \in Sessions : MappingOf[s].sid = sid}
        /\ logouts' = logouts \cup {[subject |-> "none", sid |-> sid]} /\ sid # "none"
    BY <2>1, PartiesAssumption DEF Frontchannel, FrontchannelOfSid
  <2>3. \A s \in Sessions : s \in revoked' <=> s \in revoked \/ MappingOf[s].sid = sid
    BY <2>2
  <2>4. \A s : Logged(s)' <=> Logged(s) \/ MappingOf[s].sid = sid
    <3>. DEFINE told == [subject |-> "none", sid |-> sid]
    <3>1. logouts' = logouts \cup {told} /\ told.subject = "none" /\ told.sid = sid
      BY <2>2
    <3>. HIDE DEF told
    <3>. QED BY <2>2, <3>1 DEF Logged
  <2>. QED BY <2>2, <2>3, <2>4 DEF LogoutInv
<1>4. UNCHANGED logoutVars \/ LogoutStep
  BY DEF NextStep, Handle, World, Flush, Request, Arrive, ExtractionFails, Authenticate, ResolveIdentity,
     Authorize, Guard, Finish, Unavailable, Raise, Tick, ChangeAuthority, KeyStep, TokenStep, worldVars, vars
<1>. QED BY <1>1, <1>2, <1>3, <1>4 DEF LogoutStep

LEMMA BoundInitInv == Init => BoundInv
BY PartiesAssumption DEF Init, BoundInv, Idle

\* Only a World step counts, and only while the request leaves it room.
LEMMA BoundKept ==
  ASSUME BoundInv, KeysInv, [NextStep]_vars, request'.load \in Nat PROVE BoundInv'
<1>1. now' <= MaxTime
  <2>1. CASE now' = now
    BY <2>1 DEF BoundInv
  <2>2. CASE Tick
    BY <2>2, PartiesAssumption DEF Tick, KeysInv
  <2>3. now' = now \/ Tick
    BY DEF NextStep, Handle, World, Flush, Request, Arrive, ExtractionFails, Authenticate, ResolveIdentity,
       Authorize, Guard, Finish, Unavailable, Raise, ChangeAuthority, KeyStep, TokenStep, LogoutStep, worldVars, vars
  <2>. QED BY <2>1, <2>2, <2>3
<1>2. UNCHANGED hasResolver
  BY DEF NextStep, Handle, World, Flush, Request, Arrive, ExtractionFails, Authenticate, ResolveIdentity,
     Authorize, Guard, Finish, Unavailable, Raise, worldVars, vars
<1>3. events' \in 0..MaxEvents
  <2>1. CASE World
    BY <2>1, PartiesAssumption DEF World, BoundInv
  <2>2. CASE events' = events
    BY <2>2 DEF BoundInv
  <2>3. World \/ events' = events
    BY DEF NextStep, Handle, Flush, Request, Arrive, ExtractionFails, Authenticate, ResolveIdentity,
       Authorize, Guard, Finish, Unavailable, Raise, worldVars, vars
  <2>. QED BY <2>1, <2>2, <2>3
<1>4. authority' \in [Principals -> Nat] /\ \A p \in Principals : authority'[p] \in DOMAIN AuthorityOf[p]
  <2>1. CASE authority' = authority
    BY <2>1 DEF BoundInv
  <2>2. ASSUME NEW p \in Principals, ChangeAuthority(p)
        PROVE  authority' \in [Principals -> Nat] /\ \A q \in Principals : authority'[q] \in DOMAIN AuthorityOf[q]
    BY <2>2, PartiesAssumption DEF ChangeAuthority, BoundInv
  <2>3. authority' = authority \/ \E p \in Principals : ChangeAuthority(p)
    BY DEF NextStep, Handle, World, Flush, Request, Arrive, ExtractionFails, Authenticate, ResolveIdentity,
       Authorize, Guard, Finish, Unavailable, Raise, Tick, KeyStep, TokenStep, LogoutStep, worldVars, vars
  <2>. QED BY <2>1, <2>2, <2>3
<1>. QED BY <1>1, <1>2, <1>3, <1>4 DEF BoundInv

(***************************************************************************)
(* The usage buffer.                                                       *)
(***************************************************************************)
LEMMA BufferInitInv == Init => BufferInv
<1>. SUFFICES ASSUME Init PROVE BufferInv
  OBVIOUS
<1>1. Entries = {} /\ flush.writing = {} /\ \A k \in Keys : keys[k] # NoKey => keys[k].overlap = Never
  BY DEF Init, APIKeysInit, Entries, NoFlush, NewKey
<1>. QED BY <1>1, FS_EmptySet, PartiesAssumption DEF BufferInv, APIKeyState

LEMMA ObserveKeepsRoom ==
  ASSUME BufferInv, UsesInv, NEW k, ObserveUse(k)
  PROVE  BufferInv'
<1>1. UNCHANGED <<keys, flush>>
  BY DEF ObserveUse
<1>2. CASE Entries' = Entries
  BY <1>1, <1>2 DEF BufferInv, APIKeyState
<1>3. CASE Entries' # Entries
  <2>1. Entries' = Entries \cup {k} /\ ~(Cardinality(Entries) >= UsageCapacity)
    <3>1. CASE pending[k] # Unused \/ Cardinality(Entries) >= UsageCapacity
      <4>1. \A j \in Keys : pending'[j] = pending[j] \/ (j = k /\ pending[k] # Unused /\ pending'[k] # Unused)
        BY <3>1 DEF ObserveUse, Observed, UsesInv, UsesTyped, Later, Unused
      <4>. QED BY <1>3, <4>1 DEF Entries
    <3>2. CASE pending[k] = Unused /\ ~(Cardinality(Entries) >= UsageCapacity)
      <4>1. pending' = [pending EXCEPT ![k] = now] /\ now # Unused
        BY <3>2 DEF ObserveUse, Observed, UsesInv, UsesTyped, Unused
      <4>2. pending \in [Keys -> Int]
        BY DEF UsesInv, UsesTyped
      <4>3. \A j \in Keys : pending'[j] = IF j = k THEN now ELSE pending[j]
        BY <4>1, <4>2
      <4>4. k \in Keys
        BY <1>3, <4>3 DEF Entries
      <4>. QED BY <3>2, <4>1, <4>3, <4>4 DEF Entries
    <3>. QED BY <3>1, <3>2
  <2>2. IsFiniteSet(Entries') /\ Cardinality(Entries') <= UsageCapacity
    <3>1. IsFiniteSet(Entries) /\ Cardinality(Entries) \in Nat /\ UsageCapacity \in Nat
      BY FS_CardinalityType, PartiesAssumption DEF BufferInv
    <3>2. /\ IsFiniteSet(Entries \cup {k})
          /\ Cardinality(Entries \cup {k}) = IF k \in Entries THEN Cardinality(Entries) ELSE Cardinality(Entries) + 1
      BY <3>1, FS_AddElement
    <3>. QED BY <2>1, <3>1, <3>2
  <2>. QED BY <1>1, <2>2 DEF BufferInv, APIKeyState
<1>. QED BY <1>2, <1>3

LEMMA AnsweredKeepsRoom ==
  ASSUME BufferInv, UsesInv, NEW e, NEW ok \in BOOLEAN, FlushAnswered(e, ok)
  PROVE  BufferInv'
<1>1. UNCHANGED keys /\ flush'.writing = {}
  BY DEF FlushAnswered, NoFlush, UsesInv, UsesTyped, IsFlush
<1>2. Entries' = Entries \ {e.key}
  BY DEF FlushAnswered, Entries, UsesInv, UsesTyped, Unused
<1>3. IsFiniteSet(Entries') /\ Cardinality(Entries') <= UsageCapacity
  <2>1. IsFiniteSet(Entries) /\ Cardinality(Entries) \in Nat /\ UsageCapacity \in Nat
    BY FS_CardinalityType, PartiesAssumption DEF BufferInv
  <2>2. /\ IsFiniteSet(Entries \ {e.key})
        /\ Cardinality(Entries \ {e.key}) = IF e.key \in Entries THEN Cardinality(Entries) - 1 ELSE Cardinality(Entries)
    BY <2>1, FS_RemoveElement
  <2>. QED BY <1>2, <2>1, <2>2 DEF BufferInv
<1>. QED BY <1>1, <1>3 DEF BufferInv, APIKeyState

LEMMA KeyStepKeepsRoom ==
  ASSUME BufferInv, KeysInv, KeyStep
  PROVE  BufferInv'
<1>1. CASE \E force \in BOOLEAN : FlushBegins(force)
  <2>1. UNCHANGED <<keys, pending>> /\ flush'.writing = {}
    BY <1>1 DEF FlushBegins
  <2>. QED BY <2>1 DEF BufferInv, APIKeyState, Entries
<1>2. CASE UNCHANGED usageVars /\ \A k \in Keys : keys'[k] = keys[k] \/ keys'[k].overlap = Never \/ APIKeyState(keys'[k])
  BY <1>2 DEF BufferInv, APIKeyState, Entries, usageVars
<1>3. ASSUME NEW k \in Keys, IssueKey(k) \/ RevokeKey(k) PROVE BufferInv'
  <2>1. CASE IssueKey(k)
    <3>1. NewKey(k).overlap = Never
      BY DEF NewKey
    <3>. QED BY <1>2, <2>1, <3>1 DEF IssueKey, KeysInv
  <2>2. CASE RevokeKey(k)
    <3>1. Revoked(keys[k], Never).overlap = Never
      BY <2>2, RevokedIsKept DEF RevokeKey, KeysInv
    <3>. QED BY <1>2, <2>2, <3>1 DEF RevokeKey, KeysInv
  <2>. QED BY <1>3, <2>1, <2>2
<1>4. ASSUME NEW current \in Keys, NEW new \in Keys, NEW overlap \in Overlaps, RotateKey(current, new, overlap)
      PROVE  BufferInv'
  <2>1. NewKey(new).overlap = Never
    BY DEF NewKey
  <2>. QED BY <1>2, <1>4, <2>1 DEF RotateKey, KeysInv
<1>. QED BY <1>1, <1>3, <1>4 DEF KeyStep

LEMMA BufferKept ==
  ASSUME BufferInv, KeysInv, UsesInv, [NextStep]_vars
  PROVE  BufferInv'
<1>1. CASE UNCHANGED apiKeyVars
  BY <1>1 DEF BufferInv, APIKeyState, Entries, apiKeyVars
<1>2. CASE KeyStep
  BY <1>2, KeyStepKeepsRoom
<1>3. CASE Flush
  <2>1. PICK e \in flush.todo : FlushSkips(e) \/ FlushWrites(e) \/ \E ok \in BOOLEAN : FlushAnswered(e, ok)
    BY <1>3 DEF Flush
  <2>2. CASE FlushSkips(e) \/ FlushWrites(e)
    <3>1. UNCHANGED <<keys, pending>> /\ flush'.writing \subseteq {f.key : f \in flush'.todo}
      BY <2>1, <2>2 DEF FlushSkips, FlushWrites, NoFlush, UsesInv, UsesTyped, IsFlush
    <3>. QED BY <3>1 DEF BufferInv, APIKeyState, Entries
  <2>. QED BY <2>1, <2>2, AnsweredKeepsRoom
<1>4. CASE Authenticate
  BY <1>1, <1>4, ObserveKeepsRoom DEF Authenticate
<1>. QED BY <1>1, <1>2, <1>3, <1>4
     DEF NextStep, Handle, World, Request, Arrive, ExtractionFails, ResolveIdentity, Authorize, Guard, Finish,
         Unavailable, Raise, Tick, ChangeAuthority, TokenStep, LogoutStep, worldVars, vars

(***************************************************************************)
(* Credentials: what is accepted is good, and what is good and standing is *)
(* accepted and identified.                                                *)
(***************************************************************************)
\* The world has heard of the credential.
Credible(c) ==
  \/ c.kind = "key" /\ c.key \in Keys
  \/ c.kind = "token" /\ c.token \in tokens \cup ForeignTokens
  \/ c.kind = "session" /\ c.session \in Sessions

\* A token that a slot selected is the ring's or a provider's, as the slot is.
Settled(c) ==
  c.kind = "token" => /\ SelectSlot(c.token) # {}
                      /\ IF SlotOf(c.token).keys = "ring" THEN c.token \notin ForeignTokens ELSE c.token \in Genuine

\* The bounds and the grants of a credential do not change while it is checked.
BoundsOf(c) ==
  IF c.kind = "key" THEN KeyBounds[c.key]
  ELSE IF c.kind = "token" /\ SlotOf(c.token).keys # "ring" THEN [NoBounds EXCEPT !.scope = c.token.scopes]
  ELSE NoBounds
GrantsOf(c) ==
  IF c.kind = "token" /\ SlotOf(c.token).keys = "ring" THEN [NoGrants EXCEPT !.scope = c.token.scopes] ELSE NoGrants
Carries(o, c) == o.bounds = BoundsOf(c) /\ o.grants = GrantsOf(c)

LEMMA OfKeys ==
  ASSUME NEW c, c.kind = "key"
  PROVE  /\ Accepted(c) <=> KeyAccepted(c.key, c.right)
         /\ Outcome(c) = [Plain(KeyEvidence(c.key)) EXCEPT !.bounds = KeyBounds[c.key]]
         /\ PrincipalOf(c) = KeyOwner[c.key]
         /\ Identified(c) <=> (PrincipalOf(c) \in Accounts => accounts[PrincipalOf(c)].active)
         /\ Good(c) <=>
              /\ c.right /\ keys[c.key] # NoKey /\ (keys[c.key].expires = Never \/ now < keys[c.key].expires)
              /\ keys[c.key].revoked # Never => keys[c.key].overlap # Never /\ now <= keys[c.key].overlap
BY Zenon DEF Accepted, Outcome, PrincipalOf, Identified, Good

LEMMA OfTokens ==
  ASSUME NEW c, c.kind = "token"
  PROVE  /\ Accepted(c) <=> BearerAccepted(c.token)
         /\ Outcome(c) = BearerOutcome(c.token)
         /\ PrincipalOf(c) = c.token.subject
         /\ Identified(c) <=> BearerIdentity(c.token)
         /\ Good(c) <=>
              /\ c.token \in tokens \cup Genuine /\ c.token.type = "at+jwt"
              /\ now < c.token.exp + Skew /\ (c.token.nbf = Never \/ c.token.nbf <= now + Skew)
              /\ c.token \in tokens => c.token.signer \in AllVerificationKeys
BY Zenon DEF Accepted, Outcome, PrincipalOf, Identified, Good

LEMMA OfSessions ==
  ASSUME NEW c, c.kind = "session"
  PROVE  /\ Accepted(c) <=> SessionAccepted(c)
         /\ Outcome(c) = Plain([at |-> 0, expires |-> SessionExpiry, methods |-> {"password"}, traits |-> {}])
         /\ PrincipalOf(c) = MappingOf[c.session].account
         /\ Identified(c)
         /\ Good(c) <=> c.bound /\ now < SessionExpiry /\ ~Logged(c.session)
BY Zenon DEF Accepted, Outcome, PrincipalOf, Identified, Good

LEMMA SelectedByOne ==
  ASSUME NEW t, BearerAccepted(t)
  PROVE  \E s \in BearerSlots : SelectSlot(t) = {s} /\ SlotOf(t) = s /\ VerifyJWT(t, s.profile, TrustedKeys(s))
<1>1. IsFiniteSet(SelectSlot(t))
  BY TokensAssumption, FS_Subset DEF SelectSlot
<1>2. PICK s : SelectSlot(t) = {s}
  BY <1>1, FS_Singleton DEF BearerAccepted
<1>. QED BY <1>2 DEF BearerAccepted, SlotOf, SelectSlot

WorldInv == KeysInv /\ RevokedPast /\ UsesInv /\ BufferInv /\ RingInv /\ LogoutInv /\ BoundInv

\* A token that a slot accepts is signed by whom the slot trusts.
LEMMA AcceptedTokens ==
  ASSUME WorldInv, DefaultTypes, NEW c, c.kind = "token", Credible(c), Accepted(c)
  PROVE  Good(c) /\ Settled(c) /\ PrincipalOf(c) \in Principals
<1>. DEFINE t == c.token
<1>0. t \in tokens \cup ForeignTokens /\ BearerAccepted(t)
  BY OfTokens DEF Credible
<1>1. PICK s \in BearerSlots : /\ SelectSlot(t) = {s} /\ SlotOf(t) = s
                              /\ VerifyJWT(t, s.profile, TrustedKeys(s))
  BY <1>0, SelectedByOne
<1>. HIDE DEF t
<1>2. /\ t.type \in {"at+jwt", "application/at+jwt"} /\ t.kid \in TrustedKeys(s) /\ t.signer = t.kid
      /\ t.issuer = s.profile.issuer /\ t.audience \in s.profile.audiences /\ t.type \in s.profile.types
      /\ t.exp > now - Skew /\ (t.nbf # Never => t.nbf <= now + Skew)
  BY <1>1 DEF VerifyJWT, ValidateHeader, NormalizeClaims, TimesAccepted, SignatureValid, DefaultTypes
<1>3. now \in Nat /\ Skew \in Nat /\ MaxKeys \in Nat /\ AllVerificationKeys \subseteq 1..MaxKeys
  BY TokensAssumption DEF WorldInv, KeysInv, RingInv, AllVerificationKeys
<1>4. CASE s.keys = "ring"
  <2>1. t.signer \in AllVerificationKeys
    BY <1>2, <1>4 DEF TrustedKeys
  <2>2. t \notin ForeignTokens /\ t \in tokens
    BY <1>0, <1>3, <2>1, TokensAssumption
  <2>3. Issued(t)
    BY <2>2 DEF WorldInv, RingInv
  <2>4. t.type = "at+jwt" /\ now < t.exp + Skew /\ t.subject \in Principals
    BY <1>2, <1>3, <2>3, PartiesAssumption DEF Issued
  <2>. QED BY <1>1, <1>2, <1>4, <2>1, <2>2, <2>4, OfTokens DEF Settled, t
<1>5. CASE s.keys # "ring"
  <2>1. t.signer \in ProviderKeys /\ SignatureValid(t, ProviderKeys)
    BY <1>2, <1>5 DEF TrustedKeys, SignatureValid
  <2>2. t \notin tokens
    BY <2>1, TokensAssumption DEF WorldInv, RingInv
  <2>3. t \in Genuine
    BY <1>0, <1>2, <1>5, <2>1, <2>2, TokensAssumption
  <2>4. t.type = "at+jwt" /\ now < t.exp + Skew /\ t.subject \in Principals
    BY <1>2, <1>3, <2>3, TokensAssumption
  <2>. QED BY <1>1, <1>2, <1>5, <2>2, <2>3, <2>4, OfTokens DEF Settled, t
<1>. QED BY <1>4, <1>5

\* An outcome carries what its credential is bound to and grants.
LEMMA OutcomeCarries ==
  ASSUME NEW c, Credible(c) PROVE Carries(Outcome(c), c)
<1>1. CASE c.kind = "key"
  <2>. DEFINE plain == Plain(KeyEvidence(c.key))
  <2>0. Outcome(c) = [plain EXCEPT !.bounds = KeyBounds[c.key]]
    BY <1>1, OfKeys
  <2>. HIDE DEF plain
  <2>1. plain = [evidence |-> KeyEvidence(c.key), bounds |-> NoBounds, grants |-> NoGrants]
    BY DEF plain, Plain
  <2>2. Outcome(c).bounds = KeyBounds[c.key] /\ Outcome(c).grants = NoGrants
    BY <2>0, <2>1
  <2>3. BoundsOf(c) = KeyBounds[c.key] /\ GrantsOf(c) = NoGrants
    BY <1>1 DEF BoundsOf, GrantsOf
  <2>. QED BY <2>2, <2>3 DEF Carries
<1>2. CASE c.kind = "token"
  BY <1>2, OfTokens DEF BearerOutcome, Carries, BoundsOf, GrantsOf
<1>3. CASE c.kind = "session"
  BY <1>3, OfSessions DEF Plain, Carries, BoundsOf, GrantsOf
<1>. QED BY <1>1, <1>2, <1>3 DEF Credible

\* What an authenticator accepts is good; of a session its account stands too.
LEMMA AcceptedIsGood ==
  ASSUME WorldInv, DefaultTypes, NEW c, Credible(c), Accepted(c)
  PROVE  /\ Good(c) /\ Settled(c) /\ PrincipalOf(c) \in Principals
         /\ c.kind = "session" => Standing(c)
<1>1. CASE c.kind = "key"
  <2>1. /\ c.right /\ keys[c.key] # NoKey /\ IsValidAt(keys[c.key], now)
        /\ c.key \in Keys /\ keys[c.key] \in KeptKey /\ now \in Nat
        /\ keys[c.key].revoked # Never => keys[c.key].revoked <= now
    BY <1>1, OfKeys DEF KeyAccepted, Credible, WorldInv, KeysInv, RevokedPast
  <2>2. Good(c)
    BY <1>1, <2>1, OfKeys, KeyAssumption DEF IsValidAt, KeptKey
  <2>. QED BY <1>1, <2>1, <2>2, OfKeys, PartiesAssumption DEF Settled
<1>2. CASE c.kind = "token"
  BY <1>2, AcceptedTokens
<1>3. CASE c.kind = "session"
  <2>1. /\ c.bound /\ now < SessionExpiry /\ c.session \notin revoked /\ c.session \in Sessions
        /\ accounts[PrincipalOf(c)] = [epoch |-> 0, active |-> TRUE]
    BY <1>3, OfSessions DEF SessionAccepted, Credible
  <2>2. Good(c)
    BY <1>3, <2>1, OfSessions DEF WorldInv, LogoutInv
  <2>3. Standing(c)
    BY <1>3, <2>1 DEF Standing
  <2>. QED BY <1>3, <2>1, <2>2, <2>3, OfSessions, PartiesAssumption DEF Settled
<1>. QED BY <1>1, <1>2, <1>3 DEF Credible

\* An identity resolver answers for those whose account stands.
LEMMA IdentifiedStands ==
  ASSUME NEW c, Credible(c), Settled(c), c.kind # "session", Identified(c)
  PROVE  Standing(c)
<1>1. CASE c.kind = "key"
  BY <1>1, OfKeys DEF Standing
<1>2. CASE c.kind = "token" /\ SlotOf(c.token).keys = "ring"
  BY <1>2, OfTokens DEF Standing, BearerIdentity
<1>3. CASE c.kind = "token" /\ SlotOf(c.token).keys # "ring"
  <2>1. PrincipalOf(c) \notin Accounts
    BY <1>3, OfTokens, TokensAssumption DEF Settled
  <2>. QED BY <2>1 DEF Standing
<1>. QED BY <1>1, <1>2, <1>3 DEF Credible

LEMMA OneSlot ==
  ASSUME NEW t, NEW s \in BearerSlots, SelectSlot(t) = {s}, VerifyJWT(t, s.profile, TrustedKeys(s))
  PROVE  BearerAccepted(t) /\ SlotOf(t) = s
<1>1. Cardinality(SelectSlot(t)) = 1
  BY FS_Singleton
<1>. QED BY <1>1 DEF BearerAccepted, SlotOf

\* The issuer's own tokens and the provider's are accepted while they are good
\* and, as their accounts stand, name somebody.
LEMMA SteadyTokens ==
  ASSUME WorldInv, NEW c, c.kind = "token", Credible(c), Good(c), Standing(c)
  PROVE  Accepted(c) /\ Identified(c)
<1>. DEFINE t == c.token
<1>0. /\ t \in tokens \cup Genuine /\ t.type = "at+jwt" /\ now < t.exp + Skew
      /\ t.nbf = Never \/ t.nbf <= now + Skew
      /\ t \in tokens => t.signer \in AllVerificationKeys
      /\ now \in Nat /\ Skew \in Nat /\ Lifetime \in Nat
  BY OfTokens, TokensAssumption DEF WorldInv, KeysInv
<1>. HIDE DEF t
<1>1. CASE t \in tokens
  <2>1. Issued(t) /\ t.iat <= now
    BY <1>1 DEF WorldInv, RingInv
  <2>2. PICK s \in BearerSlots : ServesLocalAccess(s)
    BY TokensAssumption
  <2>3. SelectSlot(t) = {s}
    <3>1. \A u : SelectorMatches(u.selector, t) <=> SelectorMatches(u.selector, LocalAccess)
      BY <1>0, <2>1 DEF SelectorMatches, LocalAccess, Issued
    <3>. QED BY <2>2, <3>1 DEF SelectSlot, ServesLocalAccess
  <2>4. SelectorMatches(s.selector, t) /\ SlotConsistent(s)
    BY <2>3, BearerAssumption DEF SelectSlot, CompositeConsistent
  <2>5. t.type \in s.profile.types /\ t.issuer = s.profile.issuer /\ t.audience \in s.profile.audiences
    BY <2>1, <2>2, <2>4 DEF SelectorMatches, SlotConsistent, ServesLocalAccess, Issued
  <2>6. TimesAccepted(t, s.profile.maximum)
    BY <1>0, <2>1, <2>2 DEF TimesAccepted, Issued, ServesLocalAccess
  <2>7. VerifyJWT(t, s.profile, TrustedKeys(s))
    BY <1>0, <1>1, <2>1, <2>2, <2>5, <2>6
       DEF VerifyJWT, ValidateHeader, NormalizeClaims, SignatureValid, TrustedKeys, ServesLocalAccess, Issued
  <2>8. BearerAccepted(t) /\ SlotOf(t) = s
    BY <2>3, <2>7, OneSlot
  <2>9. t.subject \in Accounts /\ accounts[t.subject].active /\ t.epoch = accounts[t.subject].epoch
    BY <2>1, OfTokens DEF Standing, Issued, t
  <2>. QED BY <2>8, <2>9, OfTokens DEF BearerIdentity, t
<1>2. CASE t \in Genuine
  <2>1. PICK s \in BearerSlots : ServesProvider(s, t)
    BY <1>2, TokensAssumption
  <2>2. t.iat \in Int /\ t.exp \in Int /\ SignatureValid(t, ProviderKeys)
    BY <1>2, TokensAssumption
  <2>3. SelectorMatches(s.selector, t) /\ SlotConsistent(s)
    BY <2>1, BearerAssumption DEF SelectSlot, CompositeConsistent, ServesProvider
  <2>4. t.issuer = s.profile.issuer
    BY <2>3 DEF SelectorMatches, SlotConsistent
  <2>5. TimesAccepted(t, s.profile.maximum)
    BY <1>0, <2>1, <2>2 DEF TimesAccepted, ServesProvider
  <2>6. VerifyJWT(t, s.profile, TrustedKeys(s))
    BY <2>1, <2>2, <2>4, <2>5 DEF VerifyJWT, ValidateHeader, NormalizeClaims, TrustedKeys, ServesProvider
  <2>7. BearerAccepted(t) /\ SlotOf(t) = s
    BY <2>1, <2>6, OneSlot DEF ServesProvider
  <2>. QED BY <2>1, <2>7, OfTokens DEF BearerIdentity, ServesProvider, t
<1>. QED BY <1>0, <1>1, <1>2

\* Nobody turns away a credential that is good and whose account stands.
LEMMA SteadyIsAccepted ==
  ASSUME WorldInv, NEW c, Credible(c), Good(c), Standing(c)
  PROVE  Accepted(c) /\ Identified(c)
<1>1. CASE c.kind = "key"
  BY <1>1, OfKeys DEF KeyAccepted, IsValidAt, Standing
<1>2. CASE c.kind = "token"
  BY <1>2, SteadyTokens
<1>3. CASE c.kind = "session"
  <2>1. /\ c.bound /\ now < SessionExpiry /\ c.session \notin revoked /\ PrincipalOf(c) \in Accounts
        /\ PrincipalOf(c) = MappingOf[c.session].account
    BY <1>3, OfSessions, PartiesAssumption DEF WorldInv, LogoutInv, Credible
  <2>2. accounts[PrincipalOf(c)] \in [epoch : Int, active : BOOLEAN]
    BY <2>1 DEF WorldInv, RingInv
  <2>3. accounts[PrincipalOf(c)].active /\ accounts[PrincipalOf(c)].epoch = 0
    BY <1>3, <2>1 DEF Standing
  <2>4. accounts[PrincipalOf(c)] = [epoch |-> 0, active |-> TRUE]
    BY <2>2, <2>3
  <2>. QED BY <1>3, <2>1, <2>4, OfSessions DEF SessionAccepted
<1>. QED BY <1>1, <1>2, <1>3 DEF Credible

(***************************************************************************)
(* Compiled policies.                                                      *)
(***************************************************************************)
LEMMA SlotsAreFew == IsFiniteSet(Slots) /\ Cardinality(Slots) \in 0..3
<1>1. IsFiniteSet({"session"}) /\ Cardinality({"session"}) = 1
  BY FS_Singleton
<1>2. IsFiniteSet({"session"} \cup {"bearer"}) /\ Cardinality({"session"} \cup {"bearer"}) \in 0..2
  BY <1>1, FS_AddElement
<1>3. /\ IsFiniteSet({"session"} \cup {"bearer"} \cup {"api_key"})
      /\ Cardinality({"session"} \cup {"bearer"} \cup {"api_key"}) \in 0..3
  BY <1>2, FS_AddElement
<1>4. Slots = {"session"} \cup {"bearer"} \cup {"api_key"}
  BY DEF Slots
<1>. QED BY <1>3, <1>4

LEMMA SomeSlots ==
  ASSUME NEW T \in SUBSET Slots PROVE IsFiniteSet(T) /\ Cardinality(T) \in 0..3
BY SlotsAreFew, FS_Subset, FS_CardinalityType

LEMMA OneFewer ==
  ASSUME NEW T \in SUBSET Slots, Cardinality(T) # 0
  PROVE  \E U \in SUBSET T : Cardinality(U) = Cardinality(T) - 1
<1>1. IsFiniteSet(T) /\ T # {}
  BY SomeSlots, FS_EmptySet
<1>2. PICK x \in T : TRUE
  BY <1>1
<1>3. Cardinality(T \ {x}) = Cardinality(T) - 1
  BY <1>1, <1>2, FS_RemoveElement
<1>. QED BY <1>3

\* Three mechanisms leave two to take away.
LEMMA SubsetOfSize ==
  ASSUME NEW T \in SUBSET Slots, NEW n \in 1..Cardinality(T)
  PROVE  \E M \in SUBSET T : Cardinality(M) = n
<1>1. Cardinality(T) \in 0..3
  BY SomeSlots
<1>2. CASE n = Cardinality(T)
  BY <1>2
<1>3. CASE n < Cardinality(T)
  <2>1. PICK U \in SUBSET T : Cardinality(U) = Cardinality(T) - 1
    BY <1>1, <1>3, OneFewer
  <2>2. CASE n = Cardinality(U)
    BY <2>2
  <2>3. CASE n < Cardinality(U)
    <3>1. PICK V \in SUBSET U : Cardinality(V) = Cardinality(U) - 1
      BY <1>1, <2>1, <2>3, OneFewer
    <3>2. Cardinality(V) = n
      BY <1>1, <2>1, <2>3, <3>1
    <3>. QED BY <3>2
  <2>. QED BY <1>1, <1>3, <2>1, <2>2, <2>3
<1>. QED BY <1>1, <1>2, <1>3

\* The alternatives of a policy that the start-up accepts ask for what the
\* policy says, of whatever slots are used.
LEMMA AlternativesMeet ==
  ASSUME NEW policy, policy.kind \in {"any_of", "all_of", "at_least"}, PositivePolicy(policy)
  PROVE  /\ Alternatives(policy) # {} /\ \A M \in Alternatives(policy) : M \subseteq Slots
         /\ \A used \in SUBSET Slots : Meets(policy, used) <=> \E M \in Alternatives(policy) : M \subseteq used
<1>0. policy.of # {} /\ policy.of \in SUBSET Slots /\ policy.count \in 1..Cardinality(policy.of)
  BY PartiesAssumption DEF PositivePolicy
<1>1. CASE policy.kind = "any_of"
  <2>1. Alternatives(policy) = {{m} : m \in policy.of}
    BY <1>1 DEF Alternatives
  <2>2. \A m \in policy.of : {m} \in Alternatives(policy) /\ {m} \subseteq Slots
    BY <1>0, <2>1
  <2>3. \A M \in Alternatives(policy) : \E m \in policy.of : M = {m}
    BY <2>1
  <2>4. ASSUME NEW used \in SUBSET Slots
        PROVE  Meets(policy, used) <=> \E m \in policy.of : m \in used
    BY <1>1 DEF Meets
  <2>5. ASSUME NEW used \in SUBSET Slots
        PROVE  (\E m \in policy.of : m \in used) <=> \E M \in Alternatives(policy) : M \subseteq used
    <3>1. ASSUME NEW m \in policy.of, m \in used PROVE \E M \in Alternatives(policy) : M \subseteq used
      BY <2>2, <3>1
    <3>2. ASSUME NEW M \in Alternatives(policy), M \subseteq used PROVE \E m \in policy.of : m \in used
      BY <2>3, <3>2
    <3>. QED BY <3>1, <3>2
  <2>6. Alternatives(policy) # {}
    BY <1>0, <2>2
  <2>7. ASSUME NEW M \in Alternatives(policy) PROVE M \subseteq Slots
    <3>1. PICK m \in policy.of : M = {m}
      BY <2>3
    <3>. QED BY <2>2, <3>1
  <2>. QED BY <2>4, <2>5, <2>6, <2>7
<1>2. CASE policy.kind = "all_of"
  <2>1. Alternatives(policy) = {policy.of}
    BY <1>2 DEF Alternatives
  <2>. QED BY <1>0, <1>2, <2>1 DEF Meets
<1>3. CASE policy.kind = "at_least"
  <2>1. Alternatives(policy) = {M \in SUBSET policy.of : Cardinality(M) = policy.count}
    BY <1>3 DEF Alternatives
  <2>2. Alternatives(policy) # {} /\ \A M \in Alternatives(policy) : M \subseteq Slots
    BY <1>0, <2>1, SubsetOfSize
  <2>3. ASSUME NEW used \in SUBSET Slots
        PROVE  Meets(policy, used) <=> \E M \in Alternatives(policy) : M \subseteq used
    <3>. DEFINE T == policy.of \cap used
    <3>1. Meets(policy, used) <=> Cardinality(T) >= policy.count
      BY <1>3 DEF Meets
    <3>2. T \in SUBSET Slots /\ IsFiniteSet(T) /\ Cardinality(T) \in 0..3 /\ policy.count \in Int /\ policy.count >= 1
      BY <1>0, SomeSlots
    <3>3. ASSUME Cardinality(T) >= policy.count PROVE \E M \in Alternatives(policy) : M \subseteq used
      <4>1. policy.count \in 1..Cardinality(T)
        BY <3>2, <3>3
      <4>2. PICK M \in SUBSET T : Cardinality(M) = policy.count
        BY <3>2, <4>1, SubsetOfSize
      <4>. QED BY <2>1, <4>2
    <3>4. ASSUME NEW M \in Alternatives(policy), M \subseteq used PROVE Cardinality(T) >= policy.count
      <4>1. M \subseteq T /\ Cardinality(M) = policy.count
        BY <2>1, <3>4
      <4>2. Cardinality(M) <= Cardinality(T)
        BY <3>2, <4>1, FS_Subset
      <4>. QED BY <3>2, <4>1, <4>2
    <3>. QED BY <3>1, <3>3, <3>4
  <2>. QED BY <2>2, <2>3
<1>. QED BY <1>1, <1>2, <1>3

\* What Expect tells of a started route, its compiled plan demands.
LEMMA PlanMeans ==
  ASSUME NEW r \in Started
  PROVE  LET plan == Compiled[r]
         IN IF plan.authenticate
            THEN /\ ~Expect[r].open /\ ~plan.bypass /\ plan.anonymous = Expect[r].anonymous /\ plan.alternatives # {}
                 /\ \A used \in SUBSET Slots :
                      (\E M \in Expect[r].who : M \subseteq used) <=> \E M \in plan.alternatives : M \subseteq used
            ELSE Expect[r].open
<1>. DEFINE policy == PolicyOf(Route[r])
<1>1. Compiled[r] = CompilePolicy(policy) /\ Starts(Route[r])
  BY DEF Compiled, Started
<1>2. CASE policy.kind \in {"public", "exclude"}
  <2>1. Expect[r].open
    BY <1>2, ExpectAssumption
  <2>2. ~CompilePolicy(policy).authenticate
    BY <1>2 DEF CompilePolicy, Passive
  <2>. QED BY <1>1, <2>1, <2>2
<1>3. CASE policy.kind \notin {"public", "exclude"}
  <2>1. /\ policy.kind \in {"any_of", "all_of", "at_least"}
        /\ ~Expect[r].open /\ Expect[r].anonymous = policy.optional
        /\ \A used \in SUBSET Slots : (\E M \in Expect[r].who : M \subseteq used) <=> Meets(policy, used)
    BY <1>3, ExpectAssumption
  <2>2. PositivePolicy(policy)
    BY <1>1, <1>3 DEF Starts
  <2>3. CompilePolicy(policy) = [authenticate |-> TRUE, bypass |-> FALSE, alternatives |-> Alternatives(policy),
                                 anonymous |-> policy.optional]
    BY <1>3 DEF CompilePolicy
  <2>. HIDE DEF policy
  <2>. QED BY <1>1, <2>1, <2>2, <2>3, AlternativesMeet
<1>. QED BY <1>2, <1>3

(***************************************************************************)
(* Requests and what is known of them.                                     *)
(***************************************************************************)
Fields == {"phase", "load", "route", "credentials", "connect", "plan", "todo", "outcomes", "invalid",
           "unavailable", "faulted", "principal", "context", "answer", "at"}
IsRequest(r) == r = [field \in Fields |-> r[field]]

OutcomesOf(r) == {r.outcomes[i] : i \in DOMAIN r.outcomes}
Bad(r) == \E slot \in Slots : r.credentials[slot] = Malformed
Used(r) == {slot \in Slots : Presented(r.credentials[slot])}
Indices(r) == PresentedSlots(r.credentials)
Met(r) == (\E M \in Expect[r.route].who : M \subseteq Used(r)) \/ (Expect[r.route].anonymous /\ Used(r) = {})

\* What no step changes of a request.
Same(q, r) ==
  /\ IsRequest(q) /\ q.load = r.load /\ q.route = r.route /\ q.credentials = r.credentials
  /\ q.connect = r.connect /\ q.plan = r.plan
SameChecks(q, r) ==
  /\ q.outcomes = r.outcomes /\ q.invalid = r.invalid /\ q.unavailable = r.unavailable /\ q.faulted = r.faulted

Described(r) ==
  /\ IsRequest(r)
  /\ r.route \in Started /\ r.connect \in {NoConnect} \cup ConnectTokens
  /\ r.plan = Plan(Compiled[r.route], r.connect)
  /\ r.todo \subseteq Indices(r) /\ r.answer = Unanswered
  /\ r.outcomes \in Seq(OutcomesOf(r))
  /\ r.faulted \in BOOLEAN /\ r.unavailable = r.faulted /\ r.invalid \in BOOLEAN
  /\ \A o \in OutcomesOf(r) : \E c \in CredentialsOf(r) : Settled(c) /\ Carries(o, c)

LEMMA AnsweredFields ==
  ASSUME NEW r, IsRequest(r), NEW code
  PROVE  LET q == Answered(r, code)
         IN /\ Same(q, r) /\ SameChecks(q, r)
            /\ q.phase = "done" /\ q.answer = code /\ q.at = now /\ q.todo = {}
            /\ q.principal = r.principal /\ q.context = r.context
BY DEF Answered, IsRequest, Fields, Same, SameChecks

LEMMA AuthorizingFields ==
  ASSUME NEW r, IsRequest(r), NEW p
  PROVE  LET q == Authorizing(r, p)
         IN /\ Same(q, r) /\ SameChecks(q, r)
            /\ q.phase = "authorize" /\ q.principal = p /\ q.todo = {}
            /\ q.answer = r.answer /\ q.context = r.context
BY DEF Authorizing, IsRequest, Fields, Same, SameChecks

LEMMA GuardedFields ==
  ASSUME NEW r, IsRequest(r)
  PROVE  LET q == [r EXCEPT !.phase = "guard"]
         IN /\ Same(q, r) /\ SameChecks(q, r) /\ q.phase = "guard"
            /\ q.todo = r.todo /\ q.principal = r.principal /\ q.answer = r.answer /\ q.context = r.context
BY DEF IsRequest, Fields, Same, SameChecks

LEMMA ResolvingFields ==
  ASSUME NEW r, IsRequest(r), NEW left
  PROVE  LET q == [r EXCEPT !.phase = "resolve", !.todo = left]
         IN /\ Same(q, r) /\ SameChecks(q, r) /\ q.phase = "resolve" /\ q.todo = left
            /\ q.principal = r.principal /\ q.answer = r.answer /\ q.context = r.context
BY DEF IsRequest, Fields, Same, SameChecks

\* Whoever asks the slots or their credentials sees the same.
LEMMA IndicesAreSlots ==
  ASSUME NEW r
  PROVE  /\ CredentialsOf(r) = {CredentialAt(r, i) : i \in Indices(r)}
         /\ PrincipalsOf(r) = {PrincipalOf(c) : c \in CredentialsOf(r)}
         /\ Used(r) = {Mechanisms[i] : i \in Indices(r)} /\ Used(r) \in SUBSET Slots
         /\ Used(r) = {} <=> CredentialsOf(r) = {}
         /\ IsFiniteSet(PrincipalsOf(r))
<1>1. \A i \in DOMAIN Mechanisms : Mechanisms[i] \in Slots
  BY PartiesAssumption DEF Registered
<1>2. \A slot \in Slots : \E i \in DOMAIN Mechanisms : Mechanisms[i] = slot
  BY PartiesAssumption DEF Registered
<1>3. Indices(r) = {i \in DOMAIN Mechanisms : Presented(r.credentials[Mechanisms[i]])}
  BY DEF Indices, PresentedSlots
<1>4. CredentialsOf(r) = {CredentialAt(r, i) : i \in Indices(r)}
  BY <1>1, <1>2, <1>3 DEF CredentialsOf, CredentialAt
<1>5. PrincipalsOf(r) = {PrincipalOf(c) : c \in CredentialsOf(r)}
  BY <1>4 DEF PrincipalsOf, Indices
<1>6. Used(r) = {Mechanisms[i] : i \in Indices(r)} /\ Used(r) \in SUBSET Slots
  BY <1>1, <1>2, <1>3 DEF Used
<1>7. Used(r) = {} <=> CredentialsOf(r) = {}
  BY DEF Used, CredentialsOf
<1>8. IsFiniteSet(PrincipalsOf(r))
  <2>1. IsFiniteSet(1..Len(Mechanisms))
    BY FS_Interval, PartiesAssumption
  <2>2. IsFiniteSet(Indices(r))
    BY <1>3, <2>1, FS_Subset, PartiesAssumption
  <2>3. IsFiniteSet({PrincipalOf(CredentialAt(r, i)) : i \in Indices(r)})
    <3>. DEFINE T == {PrincipalOf(CredentialAt(r, i)) : i \in Indices(r)}
                names == [i \in Indices(r) |-> PrincipalOf(CredentialAt(r, i))]
    <3>1. names \in Surjection(Indices(r), T)
      BY DEF Surjection
    <3>. HIDE DEF T, names
    <3>2. IsFiniteSet(T)
      BY <2>2, <3>1, FS_Surjection
    <3>. QED BY <3>2 DEF T
  <2>. QED BY <2>3 DEF PrincipalsOf, Indices
<1>. QED BY <1>4, <1>5, <1>6, <1>7, <1>8

LEMMA SameSlots ==
  ASSUME NEW q, NEW r, q.credentials = r.credentials, q.route = r.route
  PROVE  /\ CredentialsOf(q) = CredentialsOf(r) /\ PrincipalsOf(q) = PrincipalsOf(r) /\ Indices(q) = Indices(r)
         /\ Used(q) = Used(r) /\ (Bad(q) <=> Bad(r)) /\ (Met(q) <=> Met(r))
         /\ \A i : CredentialAt(q, i) = CredentialAt(r, i)
BY DEF CredentialsOf, PrincipalsOf, Indices, Used, Bad, Met, CredentialAt

LEMMA SameDescribed ==
  ASSUME NEW q, NEW r, Described(r), Same(q, r), SameChecks(q, r),
         q.answer = Unanswered, q.todo \subseteq Indices(r)
  PROVE  Described(q)
BY SameSlots DEF Described, Same, SameChecks, OutcomesOf

(***************************************************************************)
(* What is known of a request at each of its phases.                       *)
(***************************************************************************)
\* Something that was sent is to blame.
Blamed(r, h) == Bad(r) \/ ~(CredentialsOf(r) \subseteq h.steady)

\* The credential was accepted, and its outcome kept.
Checked(r, h, c) ==
  /\ c \in h.good /\ Settled(c) /\ PrincipalOf(c) \in Principals
  /\ c.kind = "session" => c \in h.standing
  /\ \E o \in OutcomesOf(r) : Carries(o, c)
\* All that was sent was accepted, and its accounts stood.
Cleared(r, h) == ~Bad(r) /\ \A c \in CredentialsOf(r) : Checked(r, h, c) /\ c \in h.standing
AllAre(r, p) == \A c \in CredentialsOf(r) : PrincipalOf(c) = p

\* Credentials are verified, in the order of the registry.
Authenticating(r, h) ==
  /\ r.plan.authenticate /\ r.principal = Anonymous /\ r.context = NoContext
  /\ Bad(r) => r.invalid
  /\ r.invalid => Blamed(r, h)
  /\ ~r.invalid /\ ~r.unavailable => \A i \in Indices(r) \ r.todo : Checked(r, h, CredentialAt(r, i))
\* All were accepted; identities are resolved.
Identifying(r, h) ==
  /\ r.plan.authenticate /\ r.principal = Anonymous /\ r.context = NoContext
  /\ ~Bad(r)
  /\ r.invalid => Blamed(r, h)
  /\ \A i \in Indices(r) : Checked(r, h, CredentialAt(r, i))
  /\ ~r.invalid /\ ~r.unavailable => \A i \in Indices(r) \ r.todo : CredentialAt(r, i) \in h.standing
\* The quorum is reached, and one principal waits for its authority.
AwaitingAuthority(r, h) ==
  /\ ~r.unavailable /\ r.context = NoContext /\ r.principal \in Principals \cup {Anonymous}
  /\ IF r.plan.authenticate
     THEN /\ Cleared(r, h) /\ AllAre(r, r.principal)
          /\ r.principal = Anonymous => r.connect # NoConnect /\ CredentialsOf(r) = {}
          /\ r.principal # Anonymous => CredentialsOf(r) # {}
          /\ r.connect = NoConnect => Met(r)
     ELSE r.principal = Anonymous /\ r.connect # NoConnect /\ OutcomesOf(r) = {}
\* The handler is next, if its guard lets the request through.
Reaching(r, h) ==
  /\ ~r.unavailable /\ r.principal \in Principals \cup {Anonymous}
  /\ r.principal # Anonymous => r.context.evidence # {}
  /\ IF r.plan.authenticate
     THEN /\ Cleared(r, h) /\ AllAre(r, r.principal)
          /\ IF r.connect # NoConnect THEN r.principal = r.connect.subject
             ELSE Met(r) /\ (Used(r) = {} => r.principal = Anonymous)
     ELSE /\ r.principal \in {Anonymous, r.connect.subject}
          /\ r.principal = Anonymous => r.context = NoContext

InProgress == {"authenticate", "resolve", "authorize", "guard"}
Progress(r, h) ==
  /\ Described(r)
  /\ r.phase \in InProgress
  /\ r.phase \in {"authenticate", "resolve"} <=> r.todo # {}
  /\ r.phase = "authenticate" => Authenticating(r, h)
  /\ r.phase = "resolve" => Identifying(r, h)
  /\ r.phase = "authorize" => AwaitingAuthority(r, h)
  /\ r.phase = "guard" => Reaching(r, h)

\* Answered before anybody was authorized.
Grounds(r, h) ==
  \/ Blamed(r, h)
  \/ \E c, d \in CredentialsOf(r) : PrincipalOf(c) # PrincipalOf(d)
  \/ r.connect = NoConnect /\ ~Expect[r.route].open /\ ~Met(r)
TurnedAway(r, h) ==
  /\ r.phase = "done" /\ r.todo = {} /\ r.principal = Anonymous
  /\ r.answer \in {401, 503} /\ (r.answer = 503 <=> r.faulted)
  /\ r.answer = 401 => Grounds(r, h)

\* From r the evaluation leads to q: on its way, or turned away.
Leads(q, r, h) == Same(q, r) /\ (q.phase = "guard" => q.principal = Anonymous)
                  /\ (Progress(q, h) \/ TurnedAway(q, h))

LEMMA Turning ==
  ASSUME NEW r, NEW h, Described(r), r.principal = Anonymous,
         NEW code \in {401, 503}, code = 503 <=> r.faulted, code = 401 => Grounds(r, h)
  PROVE  Leads(Answered(r, code), r, h)
<1>. DEFINE q == Answered(r, code)
<1>1. /\ Same(q, r) /\ SameChecks(q, r) /\ q.phase = "done" /\ q.answer = code /\ q.todo = {}
      /\ q.principal = Anonymous
  BY AnsweredFields DEF Described
<1>. HIDE DEF q
<1>2. Grounds(r, h) => Grounds(q, h)
  BY <1>1, SameSlots DEF Grounds, Blamed, Same
<1>3. TurnedAway(q, h)
  BY <1>1, <1>2 DEF TurnedAway, SameChecks
<1>4. Leads(q, r, h)
  BY <1>1, <1>3 DEF Leads
<1>. QED BY <1>4 DEF q

LEMMA SameCleared ==
  ASSUME NEW q, NEW r, NEW h, Same(q, r), q.outcomes = r.outcomes
  PROVE  /\ Cleared(q, h) <=> Cleared(r, h)
         /\ \A p : AllAre(q, p) <=> AllAre(r, p)
         /\ \A c : Checked(q, h, c) <=> Checked(r, h, c)
BY SameSlots DEF Cleared, AllAre, Checked, OutcomesOf, Same

\* Everything that was presented is somebody's, and if of one then of him alone.
LEMMA OnePrincipal ==
  ASSUME NEW r, ~(Cardinality(PrincipalsOf(r)) > 1), NEW p \in PrincipalsOf(r)
  PROVE  AllAre(r, p)
<1>. SUFFICES ASSUME NEW c \in CredentialsOf(r), PrincipalOf(c) # p PROVE FALSE
  BY DEF AllAre
<1>1. PrincipalOf(c) \in PrincipalsOf(r) /\ IsFiniteSet(PrincipalsOf(r))
  BY IndicesAreSlots
<1>2. IsFiniteSet({p}) /\ Cardinality({p}) = 1
  BY FS_Singleton
<1>. DEFINE other == PrincipalOf(c)
<1>3. other \notin {p}
  OBVIOUS
<1>. HIDE DEF other
<1>4. /\ IsFiniteSet({p} \cup {other})
      /\ Cardinality({p} \cup {other}) = IF other \in {p} THEN Cardinality({p}) ELSE Cardinality({p}) + 1
  BY <1>2, FS_AddElement
<1>5. Cardinality({p} \cup {other}) = 2
  BY <1>2, <1>3, <1>4
<1>6. {p} \cup {other} \subseteq PrincipalsOf(r)
  BY <1>1 DEF other
<1>7. Cardinality({p} \cup {other}) <= Cardinality(PrincipalsOf(r)) /\ Cardinality(PrincipalsOf(r)) \in Nat
  BY <1>1, <1>6, FS_Subset, FS_CardinalityType
<1>. QED BY <1>5, <1>7

LEMMA TwoPrincipals ==
  ASSUME NEW r, Cardinality(PrincipalsOf(r)) > 1
  PROVE  \E c, d \in CredentialsOf(r) : PrincipalOf(c) # PrincipalOf(d)
<1>1. SUFFICES ASSUME \A c, d \in CredentialsOf(r) : PrincipalOf(c) = PrincipalOf(d) PROVE FALSE
  OBVIOUS
<1>2. PrincipalsOf(r) = {PrincipalOf(c) : c \in CredentialsOf(r)}
  BY IndicesAreSlots
<1>3. PrincipalsOf(r) = {} \/ \E p : PrincipalsOf(r) = {p}
  BY <1>1, <1>2
<1>4. CASE PrincipalsOf(r) = {}
  <2>1. Cardinality(PrincipalsOf(r)) = 0
    BY <1>4, NoneAtAll
  <2>. QED BY <2>1
<1>5. ASSUME NEW p, PrincipalsOf(r) = {p} PROVE FALSE
  <2>1. Cardinality(PrincipalsOf(r)) = 1
    BY <1>5, FS_Singleton
  <2>. QED BY <2>1
<1>. QED BY <1>3, <1>4, <1>5

\* The quorum of a plan is what the route is meant to demand.
LEMMA QuorumMeans ==
  ASSUME NEW r, r.route \in Started, r.plan = Plan(Compiled[r.route], r.connect), r.plan.authenticate
  PROVE  LET satisfied == r.plan.alternatives = {} \/ Satisfied(r.plan, {Mechanisms[i] : i \in Indices(r)})
         IN /\ ~Expect[r.route].open
            /\ r.connect # NoConnect => satisfied
            /\ r.connect = NoConnect => /\ satisfied <=> \E M \in Expect[r.route].who : M \subseteq Used(r)
                                        /\ r.plan.anonymous = Expect[r.route].anonymous
<1>. DEFINE plan == Compiled[r.route]
<1>1. Used(r) = {Mechanisms[i] : i \in Indices(r)} /\ Used(r) \in SUBSET Slots
  BY IndicesAreSlots
<1>2. plan = [authenticate |-> plan.authenticate, bypass |-> plan.bypass, alternatives |-> plan.alternatives,
              anonymous |-> plan.anonymous]
  BY DEF Compiled, CompilePolicy, Passive
<1>. HIDE DEF plan
<1>3. CASE r.connect = NoConnect
  <2>1. r.plan = plan
    BY <1>3 DEF Plan, plan
  <2>2. /\ ~Expect[r.route].open /\ plan.anonymous = Expect[r.route].anonymous /\ plan.alternatives # {}
        /\ (\E M \in Expect[r.route].who : M \subseteq Used(r)) <=> \E M \in plan.alternatives : M \subseteq Used(r)
    BY <1>1, <2>1, PlanMeans DEF plan
  <2>. QED BY <1>1, <1>3, <2>1, <2>2 DEF Satisfied
<1>4. CASE r.connect # NoConnect
  <2>1. r.plan = [plan EXCEPT !.alternatives = {}, !.anonymous = TRUE]
    BY <1>4 DEF Plan, plan
  <2>2. r.plan.alternatives = {} /\ plan.authenticate
    BY <1>2, <2>1
  <2>3. ~Expect[r.route].open
    BY <2>2, PlanMeans DEF plan
  <2>. QED BY <1>4, <2>2, <2>3
<1>. QED BY <1>3, <1>4

\* A request of which everything is cleared is authorized, reaches its
\* handler anonymously, or lacks the quorum.
LEMMA QuorumLeads ==
  ASSUME NEW r, NEW h, Described(r), r.plan.authenticate, Cleared(r, h),
         ~r.unavailable, r.principal = Anonymous, r.context = NoContext, r.todo = {}
  PROVE  Leads(Quorum(r), r, h)
<1>. DEFINE satisfied == r.plan.alternatives = {} \/ Satisfied(r.plan, {Mechanisms[i] : i \in Indices(r)})
            principals == PrincipalsOf(r)
<1>0. /\ IsRequest(r) /\ ~r.faulted
      /\ ~Expect[r.route].open
      /\ r.connect # NoConnect => satisfied
      /\ r.connect = NoConnect => /\ satisfied <=> \E M \in Expect[r.route].who : M \subseteq Used(r)
                                  /\ r.plan.anonymous = Expect[r.route].anonymous
  BY QuorumMeans DEF Described
<1>1. /\ principals = {PrincipalOf(c) : c \in CredentialsOf(r)}
      /\ Used(r) = {} <=> CredentialsOf(r) = {}
  BY IndicesAreSlots
<1>2. principals = {} <=> CredentialsOf(r) = {}
  BY <1>1
<1>3. \A c \in CredentialsOf(r) : PrincipalOf(c) \in Principals
  BY DEF Cleared, Checked
<1>4. Quorum(r) = IF Cardinality(principals) > 1 THEN Answered(r, 401)
                  ELSE IF satisfied /\ principals # {} THEN Authorizing(r, CHOOSE p \in principals : TRUE)
                  ELSE IF ~satisfied /\ ~(r.plan.anonymous /\ principals = {}) THEN Answered(r, 401)
                  ELSE IF r.connect # NoConnect THEN Authorizing(r, Anonymous)
                  ELSE [r EXCEPT !.phase = "guard"]
  BY DEF Quorum, Indices
<1>. HIDE DEF satisfied, principals
<1>5. CASE Cardinality(principals) > 1
  <2>1. Quorum(r) = Answered(r, 401)
    BY <1>4, <1>5
  <2>2. Grounds(r, h)
    BY <1>5, TwoPrincipals DEF Grounds, principals
  <2>. QED BY <1>0, <2>1, <2>2, Turning
<1>6. CASE ~(Cardinality(principals) > 1) /\ satisfied /\ principals # {}
  <2>. DEFINE p == CHOOSE p \in principals : TRUE
              q == Authorizing(r, p)
  <2>1. Quorum(r) = q
    BY <1>4, <1>6
  <2>2. p \in principals
    BY <1>6
  <2>. HIDE DEF p
  <2>3a. AllAre(r, p)
    BY <1>6, <2>2, OnePrincipal DEF principals
  <2>3. AllAre(r, p) /\ p \in Principals /\ p # Anonymous /\ CredentialsOf(r) # {}
    BY <1>1, <1>2, <1>3, <1>6, <2>2, <2>3a, PartiesAssumption
  <2>4. r.connect = NoConnect => Met(r)
    BY <1>0, <1>6 DEF Met
  <2>5. /\ Same(q, r) /\ SameChecks(q, r) /\ q.phase = "authorize" /\ q.principal = p /\ q.todo = {}
        /\ q.answer = r.answer /\ q.context = r.context
    BY <1>0, AuthorizingFields
  <2>. HIDE DEF q
  <2>6. Described(q)
    BY <2>5, SameDescribed DEF Described
  <2>7. /\ Cleared(q, h) /\ AllAre(q, p) /\ CredentialsOf(q) # {} /\ (q.connect = NoConnect => Met(q))
        /\ q.plan.authenticate
    BY <2>3, <2>4, <2>5, SameCleared, SameSlots DEF Same, SameChecks
  <2>8. AwaitingAuthority(q, h)
    BY <2>3, <2>5, <2>7 DEF AwaitingAuthority, SameChecks
  <2>. QED BY <2>1, <2>5, <2>6, <2>8 DEF Leads, Progress, InProgress
<1>7. CASE /\ ~(Cardinality(principals) > 1) /\ ~(satisfied /\ principals # {})
           /\ ~satisfied /\ ~(r.plan.anonymous /\ principals = {})
  <2>1. Quorum(r) = Answered(r, 401)
    BY <1>4, <1>7
  <2>2. ~Met(r) /\ r.connect = NoConnect
    BY <1>0, <1>1, <1>2, <1>7 DEF Met
  <2>3. Grounds(r, h)
    BY <1>0, <2>2 DEF Grounds
  <2>. QED BY <1>0, <2>1, <2>3, Turning
<1>8. CASE /\ ~(Cardinality(principals) > 1) /\ ~(satisfied /\ principals # {})
           /\ ~(~satisfied /\ ~(r.plan.anonymous /\ principals = {})) /\ r.connect # NoConnect
  <2>. DEFINE q == Authorizing(r, Anonymous)
  <2>1. Quorum(r) = q
    BY <1>4, <1>8
  <2>2. CredentialsOf(r) = {}
    BY <1>0, <1>2, <1>8
  <2>5. /\ Same(q, r) /\ SameChecks(q, r) /\ q.phase = "authorize" /\ q.principal = Anonymous /\ q.todo = {}
        /\ q.answer = r.answer /\ q.context = r.context
    BY <1>0, AuthorizingFields
  <2>. HIDE DEF q
  <2>6. Described(q)
    BY <2>5, SameDescribed DEF Described
  <2>7. Cleared(q, h) /\ CredentialsOf(q) = {} /\ q.connect # NoConnect /\ q.plan.authenticate
    BY <1>8, <2>2, <2>5, SameCleared, SameSlots DEF Same, SameChecks
  <2>8. AwaitingAuthority(q, h)
    BY <2>5, <2>7 DEF AwaitingAuthority, SameChecks, AllAre
  <2>. QED BY <2>1, <2>5, <2>6, <2>8 DEF Leads, Progress, InProgress
<1>9. CASE /\ ~(Cardinality(principals) > 1) /\ ~(satisfied /\ principals # {})
           /\ ~(~satisfied /\ ~(r.plan.anonymous /\ principals = {})) /\ r.connect = NoConnect
  <2>. DEFINE q == [r EXCEPT !.phase = "guard"]
  <2>1. Quorum(r) = q
    BY <1>4, <1>9
  <2>2. CredentialsOf(r) = {} /\ Met(r)
    BY <1>0, <1>1, <1>2, <1>9 DEF Met
  <2>5. /\ Same(q, r) /\ SameChecks(q, r) /\ q.phase = "guard" /\ q.principal = Anonymous /\ q.todo = {}
        /\ q.answer = r.answer /\ q.context = r.context
    BY <1>0, GuardedFields
  <2>. HIDE DEF q
  <2>6. Described(q)
    BY <2>5, SameDescribed DEF Described
  <2>7. Cleared(q, h) /\ CredentialsOf(q) = {} /\ q.connect = NoConnect /\ q.plan.authenticate /\ Met(q)
    BY <1>9, <2>2, <2>5, SameCleared, SameSlots DEF Same, SameChecks
  <2>8. Reaching(q, h)
    BY <2>5, <2>7 DEF Reaching, SameChecks, AllAre
  <2>. QED BY <2>1, <2>5, <2>6, <2>8 DEF Leads, Progress, InProgress
<1>. QED BY <1>5, <1>6, <1>7, <1>8, <1>9

(***************************************************************************)
(* The decisions that end authentication and resolution.                   *)
(***************************************************************************)
LEMMA LeadsOn ==
  ASSUME NEW q, NEW r, NEW s, NEW h, Leads(q, s, h), Same(s, r)
  PROVE  Leads(q, r, h)
BY DEF Leads, Same

\* When every identity has been asked for, the request is where the quorum
\* leads, or turned away for what was found.
LEMMA ResolutionLeads ==
  ASSUME NEW r, NEW h, Described(r), r.phase = "resolve", Identifying(r, h)
  PROVE  Leads(AfterResolution(r), r, h)
<1>1. CASE r.todo # {}
  <2>1. Progress(r, h)
    BY <1>1 DEF Progress, InProgress
  <2>. QED BY <1>1, <2>1 DEF Leads, AfterResolution, Same, Described
<1>2. CASE r.todo = {} /\ r.unavailable
  <2>1. AfterResolution(r) = Answered(r, 503) /\ r.faulted
    BY <1>2 DEF AfterResolution, Terminal, Described
  <2>. QED BY <2>1, Turning DEF Identifying
<1>3. CASE r.todo = {} /\ ~r.unavailable /\ r.invalid
  <2>1. AfterResolution(r) = Answered(r, 401) /\ ~r.faulted
    BY <1>3 DEF AfterResolution, Terminal, Described
  <2>2. Grounds(r, h)
    BY <1>3 DEF Identifying, Grounds
  <2>. QED BY <2>1, <2>2, Turning DEF Identifying
<1>4. CASE r.todo = {} /\ ~r.unavailable /\ ~r.invalid
  <2>1. AfterResolution(r) = Quorum(r)
    BY <1>4 DEF AfterResolution, Terminal
  <2>2. Cleared(r, h)
    BY <1>4, IndicesAreSlots DEF Identifying, Cleared
  <2>. QED BY <1>4, <2>1, <2>2, QuorumLeads DEF Identifying
<1>. QED BY <1>1, <1>2, <1>3, <1>4

LEMMA AuthenticationLeads ==
  ASSUME NEW r, NEW h, Described(r), r.phase = "authenticate", Authenticating(r, h)
  PROVE  Leads(AfterAuthentication(r), r, h)
<1>1. CASE r.todo # {}
  <2>1. Progress(r, h)
    BY <1>1 DEF Progress, InProgress
  <2>. QED BY <1>1, <2>1 DEF Leads, AfterAuthentication, Same, Described
<1>2. CASE r.todo = {} /\ r.unavailable
  <2>1. AfterAuthentication(r) = Answered(r, 503) /\ r.faulted
    BY <1>2 DEF AfterAuthentication, Terminal, Described
  <2>. QED BY <2>1, Turning DEF Authenticating
<1>3. CASE r.todo = {} /\ ~r.unavailable /\ r.invalid
  <2>1. AfterAuthentication(r) = Answered(r, 401) /\ ~r.faulted
    BY <1>3 DEF AfterAuthentication, Terminal, Described
  <2>2. Grounds(r, h)
    BY <1>3 DEF Authenticating, Grounds
  <2>. QED BY <2>1, <2>2, Turning DEF Authenticating
<1>4. CASE r.todo = {} /\ ~r.unavailable /\ ~r.invalid
  <2>. DEFINE q == [r EXCEPT !.phase = "resolve", !.todo = Indices(r)]
  <2>1. AfterAuthentication(r) = AfterResolution(q)
    BY <1>4 DEF AfterAuthentication, Terminal, Indices
  <2>2. /\ Same(q, r) /\ SameChecks(q, r) /\ q.phase = "resolve" /\ q.todo = Indices(r)
        /\ q.principal = r.principal /\ q.answer = r.answer /\ q.context = r.context
    BY ResolvingFields DEF Described
  <2>. HIDE DEF q
  <2>3. Described(q)
    BY <2>2, SameDescribed DEF Described
  <2>4. /\ ~Bad(q) /\ Indices(q) = q.todo
        /\ \A i \in Indices(q) : Checked(q, h, CredentialAt(q, i))
    BY <1>4, <2>2, SameSlots, SameCleared DEF Authenticating, Same, SameChecks
  <2>5. Identifying(q, h)
    BY <1>4, <2>2, <2>4 DEF Identifying, Authenticating, Same, SameChecks
  <2>6. Leads(AfterResolution(q), q, h)
    BY <2>2, <2>3, <2>5, ResolutionLeads
  <2>. QED BY <2>1, <2>2, <2>6, LeadsOn
<1>. QED BY <1>1, <1>2, <1>3, <1>4

(***************************************************************************)
(* The history of a request grows.                                         *)
(***************************************************************************)
Grows(h, k) ==
  h.good \subseteq k.good /\ h.standing \subseteq k.standing /\ k.steady \subseteq h.steady /\ h.versions \subseteq k.versions

LEMMA ProgressGrows ==
  ASSUME NEW r, NEW h, NEW k, Progress(r, h), Grows(h, k)
  PROVE  Progress(r, k)
<1>1. Blamed(r, h) => Blamed(r, k)
  BY DEF Blamed, Grows
<1>2. \A c : Checked(r, h, c) => Checked(r, k, c)
  BY DEF Checked, Grows
<1>3. \A c : c \in h.standing => c \in k.standing
  BY DEF Grows
<1>4. Cleared(r, h) => Cleared(r, k)
  BY <1>2, <1>3 DEF Cleared
<1>5. Authenticating(r, h) => Authenticating(r, k)
  BY <1>1, <1>2 DEF Authenticating
<1>6. Identifying(r, h) => Identifying(r, k)
  BY <1>1, <1>2, <1>3 DEF Identifying
<1>7. AwaitingAuthority(r, h) => AwaitingAuthority(r, k)
  BY <1>4 DEF AwaitingAuthority
<1>8. Reaching(r, h) => Reaching(r, k)
  BY <1>4 DEF Reaching
<1>. QED BY <1>5, <1>6, <1>7, <1>8 DEF Progress

\* A step that handles the request sees the world as it leaves it.
LEMMA SameWorld ==
  ASSUME UNCHANGED <<keys, now, tokens, ring, accounts, logouts>>, NEW c, Presented(c)
  PROVE  (Good(c)' <=> Good(c)) /\ (Standing(c)' <=> Standing(c))
<1>1. Standing(c)' <=> Standing(c)
  BY DEF Standing, PrincipalOf
<1>2. CASE c.kind = "key"
  <2>1. Good(c)' <=> /\ c.right /\ keys'[c.key] # NoKey /\ (keys'[c.key].expires = Never \/ now' < keys'[c.key].expires)
                     /\ keys'[c.key].revoked # Never => keys'[c.key].overlap # Never /\ now' <= keys'[c.key].overlap
    BY <1>2, Zenon DEF Good
  <2>. QED BY <1>1, <1>2, <2>1, OfKeys
<1>3. CASE c.kind = "token"
  <2>1. Good(c)' <=> /\ c.token \in tokens' \cup Genuine /\ c.token.type = "at+jwt"
                     /\ now' < c.token.exp + Skew /\ (c.token.nbf = Never \/ c.token.nbf <= now' + Skew)
                     /\ c.token \in tokens' => c.token.signer \in AllVerificationKeys'
    BY <1>3, Zenon DEF Good
  <2>2. AllVerificationKeys' = AllVerificationKeys
    BY DEF AllVerificationKeys
  <2>. QED BY <1>1, <1>3, <2>1, <2>2, OfTokens
<1>4. CASE c.kind = "session"
  <2>1. Good(c)' <=> c.bound /\ now' < SessionExpiry /\ ~Logged(c.session)'
    BY <1>4, Zenon DEF Good
  <2>2. Logged(c.session)' <=> Logged(c.session)
    BY DEF Logged
  <2>. QED BY <1>1, <1>4, <2>1, <2>2, OfSessions
<1>. QED BY <1>2, <1>3, <1>4 DEF Presented

LEMMA Watching ==
  ASSUME Track, request.phase \in InProgress, request'.phase # "idle", request'.credentials = request.credentials
  PROVE  /\ Grows(history, history')
         /\ authority' \in history'.versions
         /\ \A c \in CredentialsOf(request) : /\ Good(c)' => c \in history'.good
                                              /\ Standing(c)' => c \in history'.standing
                                              /\ c \in history'.steady => Good(c)' /\ Standing(c)'
<1>1. history' = And(history, Seen')
  BY DEF Track, InProgress
<1>2. CredentialsOf(request') = CredentialsOf(request)
  BY SameSlots DEF CredentialsOf
<1>3. CredentialsOf(request)' = CredentialsOf(request')
  BY DEF CredentialsOf
<1>4. /\ Seen'.good = {c \in CredentialsOf(request) : Good(c)'}
      /\ Seen'.standing = {c \in CredentialsOf(request) : Standing(c)'}
      /\ Seen'.steady = {c \in CredentialsOf(request) : Good(c)'} \cap {c \in CredentialsOf(request) : Standing(c)'}
      /\ Seen'.versions = {authority'}
  BY <1>2, <1>3 DEF Seen
<1>5. /\ history'.good = history.good \cup Seen'.good
      /\ history'.standing = history.standing \cup Seen'.standing
      /\ history'.steady = history.steady \cap Seen'.steady
      /\ history'.versions = history.versions \cup Seen'.versions
  BY <1>1 DEF And
<1>. QED BY <1>4, <1>5 DEF Grows

LEMMA Watched ==
  ASSUME Track, request' = request, request.phase \in InProgress
  PROVE  Grows(history, history')
BY Watching DEF InProgress

(***************************************************************************)
(* Guards and the narrowing of authority.                                  *)
(***************************************************************************)
LEMMA LeafMeans ==
  ASSUME NEW guard, NEW principal, NEW context, NEW tenant
  PROVE  LET d == LeafDecision(guard, principal, context, tenant)
         IN /\ principal = Anonymous => d = "unauthorized"
            /\ principal # Anonymous => d \in {"allowed", "forbidden"}
            /\ d = "allowed" /\ guard.kind = "assurance" => Assured(context.evidence, guard.need)
<1>1. ASSUME NEW granted
      PROVE  /\ principal = Anonymous => GrantDecision(principal, granted) = "unauthorized"
             /\ principal # Anonymous => GrantDecision(principal, granted) \in {"allowed", "forbidden"}
             /\ GrantDecision(principal, granted) = "allowed" => granted
  BY DEF GrantDecision
<1>2. LeafDecision(guard, principal, context, tenant) =
        GrantDecision(principal,
          CASE guard.kind = "authenticated" -> TRUE
            [] guard.kind = "assurance"     -> Assured(context.evidence, guard.need)
            [] guard.kind = "grant"         -> guard.value \in context.authorization[guard.of]
            [] guard.kind = "tenant_role"   -> \E role \in guard.roles : <<tenant, role>> \in context.authorization.tenantRole
            [] guard.kind = "tenant"        -> tenant \in context.authorization.tenant)
  BY Zenon DEF LeafDecision
<1>3. ASSUME guard.kind = "assurance"
      PROVE  LeafDecision(guard, principal, context, tenant) = GrantDecision(principal, Assured(context.evidence, guard.need))
  BY <1>2, <1>3, Zenon
<1>. QED BY <1>1, <1>2, <1>3, Zenon

LEMMA DecisionMeans ==
  ASSUME NEW guard, NEW principal, NEW context, NEW tenant
  PROVE  LET d == Decide(guard, principal, context, tenant)
         IN /\ d = "forbidden" => guard.kind # "none" /\ principal # Anonymous
            /\ d # "allowed" /\ d # "forbidden" => guard.kind # "none" /\ principal = Anonymous
            /\ d = "allowed" /\ guard.kind = "assurance" => principal # Anonymous /\ Assured(context.evidence, guard.need)
<1>1. CASE guard.kind = "none"
  <2>1. Decide(guard, principal, context, tenant) = "allowed"
    BY <1>1, Zenon DEF Decide
  <2>. QED BY <1>1, <2>1
<1>2. CASE guard.kind = "composite"
  <2>1. Decide(guard, principal, context, tenant) = CompositeDecision(guard, principal, context, tenant)
    BY <1>2, Zenon DEF Decide
  <2>2. CompositeDecision(guard, principal, context, tenant) \in {"allowed", GrantDecision(principal, FALSE)}
    BY Zenon DEF CompositeDecision
  <2>. QED BY <1>2, <2>1, <2>2 DEF GrantDecision
<1>3. CASE guard.kind # "none" /\ guard.kind # "composite"
  <2>1. Decide(guard, principal, context, tenant) = LeafDecision(guard, principal, context, tenant)
    BY <1>3, Zenon DEF Decide
  <2>. QED BY <1>3, <2>1, LeafMeans
<1>. QED BY <1>1, <1>2, <1>3

\* Assured evidence has, for each method, something live and young enough.
LEMMA AssuredMeans ==
  ASSUME NEW evidence, NEW need, Assured(evidence, need), NEW m \in need.methods
  PROVE  \E e \in evidence :
           /\ m \in e.methods /\ (e.expires = Never \/ e.expires > now)
           /\ need.maxAge # Unbounded => now - e.at <= need.maxAge
<1>1. CASE need.maxAge = Unbounded
  <2>1. m \in Methods(Live(evidence))
    BY DEF Assured, Covers
  <2>. QED BY <1>1, <2>1 DEF Methods, Live
<1>2. CASE need.maxAge # Unbounded
  <2>1. m \in Methods(Current(Live(evidence), need))
    BY <1>2 DEF Assured, Covers
  <2>2. PICK e \in Current(Live(evidence), need) : m \in e.methods
    BY <2>1 DEF Methods
  <2>3. e \in Live(evidence) /\ now - e.at <= need.maxAge
    BY <2>2 DEF Current, Relevant
  <2>. QED BY <2>2, <2>3 DEF Live
<1>. QED BY <1>1, <1>2

EvaluatedOf(r) == IF Expect[r.route].open THEN {} ELSE CredentialsOf(r)
SentBy(r) ==
  {KeyBounds[c.key] : c \in {d \in EvaluatedOf(r) : d.kind = "key"}}
  \cup {[NoBounds EXCEPT !.scope = c.token.scopes] : c \in {d \in EvaluatedOf(r) : d.kind = "token" /\ d.token \in Genuine}}
  \cup ConnectBounds(r)

NarrowedFor(resolved, known, r, h) ==
  LET granted == r.context.authorization
      p       == r.principal
  IN p # Anonymous =>
       /\ resolved =>
            \E v \in h.versions : AuthorityOf[p][v[p]] # Withheld /\ \A kind \in DOMAIN granted : granted[kind] \subseteq AuthorityOf[p][v[p]][kind]
       /\ ~resolved =>
            \A kind \in DOMAIN granted : \A x \in granted[kind] :
              \E c \in EvaluatedOf(r) : c.kind = "token" /\ c.token \in known /\ kind = "scope" /\ x \in c.token.scopes
       /\ \A b \in SentBy(r) :
            /\ \A kind \in Kinds : b[kind] # Unbounded => granted[kind] \subseteq b[kind]
            /\ \A pair \in granted.tenantRole : Within(pair[1], b.tenant) /\ Within(pair[2], b.role)

LEMMA NarrowedGrows ==
  ASSUME NEW resolved, NEW known, NEW more, known \subseteq more, NEW r, NEW h, NEW k, h.versions \subseteq k.versions,
         NarrowedFor(resolved, known, r, h)
  PROVE  NarrowedFor(resolved, more, r, k)
BY DEF NarrowedFor

\* Narrowing keeps what a snapshot and every bound allow.
LEMMA ResolutionNarrows ==
  ASSUME NEW snapshot, NEW bounds
  PROVE  LET granted == ResolveAuthorization(snapshot, bounds)
         IN /\ DOMAIN granted = {"scope", "role", "tenant", "tenantRole"}
            /\ \A kind \in DOMAIN granted : granted[kind] \subseteq snapshot[kind]
            /\ \A b \in bounds :
                 /\ \A kind \in Kinds : b[kind] # Unbounded => granted[kind] \subseteq b[kind]
                 /\ \A pair \in granted.tenantRole : Within(pair[1], b.tenant) /\ Within(pair[2], b.role)
<1>. DEFINE granted == ResolveAuthorization(snapshot, bounds)
<1>1. /\ DOMAIN granted = {"scope", "role", "tenant", "tenantRole"}
      /\ granted["scope"] = {v \in snapshot["scope"] : \A b \in bounds : Within(v, b["scope"])}
      /\ granted["role"] = {v \in snapshot["role"] : \A b \in bounds : Within(v, b["role"])}
      /\ granted["tenant"] = {v \in snapshot["tenant"] : \A b \in bounds : Within(v, b["tenant"])}
      /\ granted["tenantRole"] = {pair \in snapshot["tenantRole"] :
                                    \A b \in bounds : Within(pair[1], b.tenant) /\ Within(pair[2], b.role)}
  BY DEF ResolveAuthorization, TenantRolesWithin
<1>. HIDE DEF granted
<1>2. \A kind \in DOMAIN granted : granted[kind] \subseteq snapshot[kind]
  BY <1>1
<1>3. ASSUME NEW b \in bounds
      PROVE  /\ \A kind \in Kinds : b[kind] # Unbounded => granted[kind] \subseteq b[kind]
             /\ \A pair \in granted.tenantRole : Within(pair[1], b.tenant) /\ Within(pair[2], b.role)
  BY <1>1 DEF Kinds, Within
<1>. QED BY <1>1, <1>2, <1>3 DEF granted

LEMMA OpenMeans ==
  ASSUME NEW r, Described(r)
  PROVE  r.plan.authenticate <=> ~Expect[r.route].open
<1>1. r.route \in Started /\ r.plan = Plan(Compiled[r.route], r.connect)
  BY DEF Described
<1>2. Compiled[r.route].authenticate <=> ~Expect[r.route].open
  BY <1>1, PlanMeans
<1>3. r.plan.authenticate <=> Compiled[r.route].authenticate
  <2>. DEFINE plan == Compiled[r.route]
  <2>1. plan = [authenticate |-> plan.authenticate, bypass |-> plan.bypass, alternatives |-> plan.alternatives,
                anonymous |-> plan.anonymous]
    BY <1>1 DEF Compiled, CompilePolicy, Passive
  <2>. HIDE DEF plan
  <2>2. [plan EXCEPT !.alternatives = {}, !.anonymous = TRUE].authenticate = plan.authenticate
    BY <2>1
  <2>. QED BY <1>1, <2>2 DEF Plan, plan
<1>. QED BY <1>2, <1>3

LEMMA ConnectSubjects ==
  ASSUME NEW r, Described(r)
  PROVE  (r.connect = NoConnect => r.connect.subject = Anonymous) /\ (r.connect # NoConnect => r.connect.subject \in Principals)
BY PartiesAssumption DEF Described, NoConnect

LEMMA MergedFields ==
  ASSUME NEW r, IsRequest(r), NEW snapshot, NEW outcomes
  PROVE  LET q == Merged(r, snapshot, outcomes)
         IN /\ Same(q, r) /\ SameChecks(q, r)
            /\ q.phase = "guard" /\ q.principal = SubjectOf(r) /\ q.todo = r.todo /\ q.answer = r.answer
            /\ q.context.evidence = {o.evidence : o \in outcomes} \cup ConnectEvidence(r)
            /\ q.context.authorization = ResolveAuthorization(snapshot, {o.bounds : o \in outcomes} \cup ConnectBounds(r))
BY DEF Merged, IsRequest, Fields, Same, SameChecks

\* What the outcomes say of the credentials that were presented.
LEMMA OutcomesNarrow ==
  ASSUME NEW r, NEW h, Described(r), r.plan.authenticate => Cleared(r, h),
         ~r.plan.authenticate => OutcomesOf(r) = {},
         \A c \in CredentialsOf(r) : Credible(c)
  PROVE  /\ SentBy(r) \subseteq {o.bounds : o \in OutcomesOf(r)} \cup ConnectBounds(r)
         /\ \A kind \in DOMAIN NoGrants : \A x \in UNION {o.grants[kind] : o \in OutcomesOf(r)} :
              \E c \in EvaluatedOf(r) : c.kind = "token" /\ c.token \in tokens /\ kind = "scope" /\ x \in c.token.scopes
<1>1. r.plan.authenticate <=> ~Expect[r.route].open
  BY OpenMeans
<1>2. ASSUME NEW b \in SentBy(r)
      PROVE  b \in {o.bounds : o \in OutcomesOf(r)} \cup ConnectBounds(r)
  <2>1. CASE b \in ConnectBounds(r)
    BY <2>1
  <2>2. CASE \E c \in EvaluatedOf(r) : BoundsOf(c) = b
    <3>1. PICK c \in CredentialsOf(r) : BoundsOf(c) = b /\ r.plan.authenticate
      BY <1>1, <2>2 DEF EvaluatedOf
    <3>2. PICK o \in OutcomesOf(r) : o.bounds = b
      BY <3>1 DEF Cleared, Checked, Carries
    <3>. QED BY <3>2
  <2>3. CASE \E c \in EvaluatedOf(r) : c.kind = "key" /\ b = KeyBounds[c.key]
    BY <2>2, <2>3 DEF BoundsOf
  <2>4. CASE \E c \in EvaluatedOf(r) : c.kind = "token" /\ c.token \in Genuine /\ b = [NoBounds EXCEPT !.scope = c.token.scopes]
    <3>1. PICK c \in EvaluatedOf(r) : c.kind = "token" /\ c.token \in Genuine /\ b = [NoBounds EXCEPT !.scope = c.token.scopes]
      BY <2>4
    <3>2. c \in CredentialsOf(r) /\ r.plan.authenticate
      BY <1>1, <3>1 DEF EvaluatedOf
    <3>3. SlotOf(c.token).keys # "ring"
      BY <3>1, <3>2, TokensAssumption DEF Cleared, Checked, Settled
    <3>. QED BY <2>2, <3>1, <3>3 DEF BoundsOf
  <2>. QED BY <2>1, <2>3, <2>4 DEF SentBy
<1>3. ASSUME NEW kind \in DOMAIN NoGrants, NEW x \in UNION {o.grants[kind] : o \in OutcomesOf(r)}
      PROVE  \E c \in EvaluatedOf(r) : c.kind = "token" /\ c.token \in tokens /\ kind = "scope" /\ x \in c.token.scopes
  <2>1. PICK o \in OutcomesOf(r) : x \in o.grants[kind]
    BY <1>3
  <2>2. PICK c \in CredentialsOf(r) : Settled(c) /\ Carries(o, c)
    BY <2>1 DEF Described
  <2>3. c \in EvaluatedOf(r)
    BY <1>1, <2>1, <2>2 DEF EvaluatedOf
  <2>4. x \in GrantsOf(c)[kind]
    BY <2>1, <2>2 DEF Carries
  <2>5. c.kind = "token" /\ SlotOf(c.token).keys = "ring" /\ kind = "scope" /\ x \in c.token.scopes
    BY <1>3, <2>4 DEF GrantsOf, NoGrants
  <2>6. c.token \in tokens
    BY <2>2, <2>5 DEF Settled, Credible
  <2>. QED BY <2>3, <2>5, <2>6
<1>. QED BY <1>2, <1>3

(***************************************************************************)
(* What is true of a request under way or answered.                        *)
(***************************************************************************)
AdmissionProved(r, h) ==
  r.answer = 200 =>
    IF Expect[r.route].open
    THEN r.principal \in {Anonymous, r.connect.subject} /\ (r.principal = Anonymous => r.context = NoContext)
    ELSE /\ ~Bad(r) /\ CredentialsOf(r) \subseteq h.good \cap h.standing /\ AllAre(r, r.principal)
         /\ IF r.connect # NoConnect THEN r.principal = r.connect.subject
            ELSE Met(r) /\ (Used(r) = {} => r.principal = Anonymous)

RefusalDeserved(resolved, r, h) ==
  /\ r.answer = 503 <=> r.faulted
  /\ r.answer = 401 =>
       \/ Grounds(r, h)
       \/ r.connect # NoConnect /\ \E c \in CredentialsOf(r) : PrincipalOf(c) # r.connect.subject
       \/ resolved /\ \E v \in h.versions, p \in {r.principal, r.connect.subject} \ {Anonymous} : AuthorityOf[p][v[p]] = Withheld
       \/ r.principal = Anonymous /\ Route[r.route].guard.kind # "none"
  /\ r.answer = 403 => r.principal # Anonymous /\ Route[r.route].guard.kind # "none"

AssuredAt(r) ==
  LET guard == Route[r.route].guard
  IN guard.kind = "assurance" =>
       /\ r.context.evidence # {}
       /\ \A m \in guard.need.methods : \E e \in r.context.evidence :
            /\ m \in e.methods /\ (e.expires = Never \/ r.at < e.expires)
            /\ guard.need.maxAge # Unbounded => r.at - e.at <= guard.need.maxAge

Concluded(resolved, known, r, h) ==
  /\ r.route \in Started /\ r.todo = {} /\ r.answer \in {200, 401, 403, 503}
  /\ r.principal \in Principals \cup {Anonymous}
  /\ AdmissionProved(r, h) /\ RefusalDeserved(resolved, r, h)
  /\ r.answer = 200 => NarrowedFor(resolved, known, r, h) /\ AssuredAt(r)

Sound(resolved, known, r, h) ==
  \/ Progress(r, h) /\ (r.phase = "guard" => NarrowedFor(resolved, known, r, h))
  \/ r.phase = "done" /\ Concluded(resolved, known, r, h)

LEMMA LeadsSound ==
  ASSUME NEW resolved, NEW known, NEW q, NEW r, NEW h, Leads(q, r, h), r.route \in Started
  PROVE  Sound(resolved, known, q, h)
<1>1. CASE Progress(q, h)
  BY <1>1 DEF Sound, NarrowedFor, Leads
<1>2. CASE TurnedAway(q, h)
  <2>1. q.route \in Started
    BY DEF Leads, Same
  <2>2. AdmissionProved(q, h) /\ RefusalDeserved(resolved, q, h)
    BY <1>2 DEF TurnedAway, AdmissionProved, RefusalDeserved
  <2>. QED BY <1>2, <2>1, <2>2 DEF TurnedAway, Sound, Concluded
<1>. QED BY <1>1, <1>2 DEF Leads

LEMMA NarrowedOn ==
  ASSUME NEW resolved, NEW known, NEW q, NEW r, NEW h, NarrowedFor(resolved, known, r, h),
         Same(q, r), q.principal = r.principal, q.context = r.context
  PROVE  NarrowedFor(resolved, known, q, h)
<1>1. EvaluatedOf(q) = EvaluatedOf(r) /\ SentBy(q) = SentBy(r)
  BY SameSlots DEF Same, EvaluatedOf, SentBy, ConnectBounds
<1>. QED BY <1>1 DEF NarrowedFor

\* Something raised, or could not be asked.
LEMMA RaisedSound ==
  ASSUME NEW resolved, NEW known, NEW r, NEW h, IsRequest(r), r.route \in Started,
         r.principal \in Principals \cup {Anonymous}, r.faulted
  PROVE  Sound(resolved, known, Answered(r, 503), h)
<1>. DEFINE q == Answered(r, 503)
<1>1. /\ q.phase = "done" /\ q.answer = 503 /\ q.todo = {} /\ q.route \in Started /\ q.faulted
      /\ q.principal \in Principals \cup {Anonymous}
  BY AnsweredFields DEF Same, SameChecks
<1>. HIDE DEF q
<1>2. Concluded(resolved, known, q, h)
  BY <1>1 DEF Concluded, AdmissionProved, RefusalDeserved
<1>. QED BY <1>1, <1>2 DEF Sound, q

LEMMA GuardSound ==
  ASSUME NEW resolved, NEW known, NEW r, NEW h, Progress(r, h), r.phase = "guard", NarrowedFor(resolved, known, r, h)
  PROVE  LET decision == Decide(Route[r.route].guard, r.principal, r.context, Route[r.route].tenant)
         IN Sound(resolved, known,
                  Answered(r, CASE decision = "allowed" -> 200 [] decision = "forbidden" -> 403 [] OTHER -> 401), h)
<1>. DEFINE guard == Route[r.route].guard
            decision == Decide(guard, r.principal, r.context, Route[r.route].tenant)
            code == CASE decision = "allowed" -> 200 [] decision = "forbidden" -> 403 [] OTHER -> 401
            q == Answered(r, code)
<1>0. /\ IsRequest(r) /\ Reaching(r, h) /\ Described(r) /\ r.todo = {}
      /\ ~r.faulted /\ r.route \in Started /\ r.principal \in Principals \cup {Anonymous}
  BY DEF Progress, Described, Reaching
<1>1. /\ decision = "forbidden" => guard.kind # "none" /\ r.principal # Anonymous
      /\ decision # "allowed" /\ decision # "forbidden" => guard.kind # "none" /\ r.principal = Anonymous
      /\ decision = "allowed" /\ guard.kind = "assurance" =>
           r.principal # Anonymous /\ Assured(r.context.evidence, guard.need)
  BY DecisionMeans
<1>. HIDE DEF decision
<1>2. /\ code = 200 => decision = "allowed"
      /\ code = 403 => decision = "forbidden"
      /\ code = 401 => decision # "allowed" /\ decision # "forbidden"
      /\ code \in {200, 401, 403}
  OBVIOUS
<1>. HIDE DEF code
<1>3. /\ Same(q, r) /\ SameChecks(q, r)
      /\ q.phase = "done" /\ q.answer = code /\ q.at = now /\ q.todo = {}
      /\ q.principal = r.principal /\ q.context = r.context
  BY <1>0, AnsweredFields
<1>. HIDE DEF q
<1>4. NarrowedFor(resolved, known, q, h)
  BY <1>3, NarrowedOn
<1>5. q.answer = 200 => AssuredAt(q)
  <2>. SUFFICES ASSUME code = 200, guard.kind = "assurance"
                PROVE  /\ r.context.evidence # {}
                       /\ \A m \in guard.need.methods : \E e \in r.context.evidence :
                            /\ m \in e.methods /\ (e.expires = Never \/ now < e.expires)
                            /\ guard.need.maxAge # Unbounded => now - e.at <= guard.need.maxAge
    BY <1>3 DEF AssuredAt, Same
  <2>1. r.principal # Anonymous /\ Assured(r.context.evidence, guard.need)
    BY <1>1, <1>2
  <2>2. r.context.evidence # {}
    BY <1>0, <2>1 DEF Reaching
  <2>. HIDE DEF guard
  <2>3. ASSUME NEW m \in guard.need.methods
        PROVE  \E e \in r.context.evidence :
                 /\ m \in e.methods /\ (e.expires = Never \/ e.expires > now)
                 /\ guard.need.maxAge # Unbounded => now - e.at <= guard.need.maxAge
    BY <2>1, AssuredMeans
  <2>. QED BY <2>2, <2>3
<1>6. AdmissionProved(q, h)
  <2>1. r.plan.authenticate <=> ~Expect[r.route].open
    BY <1>0, OpenMeans
  <2>. QED BY <1>0, <1>3, <2>1, SameSlots DEF AdmissionProved, Reaching, Cleared, Checked, AllAre, Same
<1>7. RefusalDeserved(resolved, q, h)
  BY <1>0, <1>1, <1>2, <1>3 DEF RefusalDeserved, Same, SameChecks
<1>8. Sound(resolved, known, q, h)
  BY <1>0, <1>2, <1>3, <1>4, <1>5, <1>6, <1>7 DEF Sound, Concluded, Same
<1>. QED BY <1>8, Zenon DEF q, code, decision

LEMMA NotWithheld == ASSUME NEW outcomes PROVE MergeAuthorization(outcomes) # Withheld
<1>1. "withheld" \notin DOMAIN MergeAuthorization(outcomes)
  BY DEF MergeAuthorization, NoGrants
<1>2. "withheld" \in DOMAIN Withheld
  BY DEF Withheld
<1>. QED BY <1>1, <1>2

\* The request waits for the authority of its principal, or of the connect
\* token's subject.
LEMMA AwaitedSubject ==
  ASSUME NEW r, NEW h, Described(r), AwaitingAuthority(r, h)
  PROVE  /\ SubjectOf(r) \in Principals /\ SubjectOf(r) \in {r.principal, r.connect.subject} \ {Anonymous}
         /\ r.principal # Anonymous => SubjectOf(r) = r.principal /\ r.plan.authenticate /\ CredentialsOf(r) # {}
         /\ r.principal = Anonymous => SubjectOf(r) = r.connect.subject /\ r.connect # NoConnect
BY ConnectSubjects, PartiesAssumption DEF SubjectOf, AwaitingAuthority

LEMMA SnapshotBounds ==
  ASSUME NEW p \in Principals, NEW outcomes
  PROVE  LET snapshot == Snapshot(p, outcomes)
         IN /\ snapshot = Withheld => hasResolver
            /\ hasResolver => snapshot = AuthorityOf[p][authority[p]]
            /\ ~hasResolver => snapshot = MergeAuthorization(outcomes)
BY NotWithheld DEF Snapshot

LEMMA MergedSound ==
  ASSUME NEW r, NEW h, Progress(r, h), r.phase = "authorize", authority \in h.versions,
         \A c \in CredentialsOf(r) : Credible(c),
         NEW snapshot, snapshot = Snapshot(SubjectOf(r), OutcomesOf(r)), snapshot # Withheld,
         r.connect # NoConnect => SubjectOf(r) = r.connect.subject
  PROVE  Sound(hasResolver, tokens, Merged(r, snapshot, OutcomesOf(r)), h)
<1>. DEFINE q == Merged(r, snapshot, OutcomesOf(r))
            bounds == {o.bounds : o \in OutcomesOf(r)} \cup ConnectBounds(r)
<1>0. /\ IsRequest(r) /\ AwaitingAuthority(r, h) /\ Described(r) /\ r.todo = {}
      /\ SubjectOf(r) \in Principals
      /\ r.principal # Anonymous => SubjectOf(r) = r.principal /\ r.plan.authenticate /\ CredentialsOf(r) # {}
      /\ r.principal = Anonymous => SubjectOf(r) = r.connect.subject /\ r.connect # NoConnect
  BY AwaitedSubject DEF Progress, Described
<1>1. /\ Same(q, r) /\ SameChecks(q, r)
      /\ q.phase = "guard" /\ q.principal = SubjectOf(r) /\ q.todo = r.todo /\ q.answer = r.answer
      /\ q.context.evidence = {o.evidence : o \in OutcomesOf(r)} \cup ConnectEvidence(r)
      /\ q.context.authorization = ResolveAuthorization(snapshot, bounds)
  BY <1>0 DEF Merged, IsRequest, Fields, Same, SameChecks
<1>. HIDE DEF q
<1>2. Described(q)
  BY <1>0, <1>1, SameDescribed DEF Described
<1>3. q.context.evidence # {}
  <2>1. CASE r.connect # NoConnect
    BY <1>1, <2>1 DEF ConnectEvidence
  <2>2. CASE r.connect = NoConnect
    <3>1. PICK c \in CredentialsOf(r) : Checked(r, h, c)
      BY <1>0, <2>2 DEF AwaitingAuthority, Cleared
    <3>2. PICK o \in OutcomesOf(r) : TRUE
      BY <3>1 DEF Checked
    <3>. QED BY <1>1, <3>2
  <2>. QED BY <2>1, <2>2
<1>4. Reaching(q, h)
  <2>1. CASE r.plan.authenticate
    <3>1. Cleared(r, h) /\ AllAre(r, SubjectOf(r))
      BY <1>0, <2>1 DEF AwaitingAuthority, AllAre
    <3>2. Cleared(q, h) /\ AllAre(q, q.principal)
      BY <1>1, <3>1, SameCleared DEF SameChecks
    <3>3. q.connect = NoConnect => Met(q) /\ Used(q) # {}
      BY <1>0, <1>1, <2>1, SameSlots, IndicesAreSlots DEF AwaitingAuthority, Same
    <3>. QED BY <1>0, <1>1, <1>3, <2>1, <3>2, <3>3 DEF Reaching, AwaitingAuthority, Same, SameChecks
  <2>2. CASE ~r.plan.authenticate
    <3>1. q.principal = q.connect.subject /\ q.principal # Anonymous
      BY <1>0, <1>1, <2>2, PartiesAssumption DEF AwaitingAuthority, Same
    <3>. QED BY <1>0, <1>1, <1>3, <2>2, <3>1 DEF Reaching, AwaitingAuthority, Same, SameChecks
  <2>. QED BY <2>1, <2>2
<1>5. Progress(q, h)
  BY <1>1, <1>2, <1>4 DEF Progress, InProgress
<1>6. NarrowedFor(hasResolver, tokens, q, h)
  <2>. DEFINE granted == ResolveAuthorization(snapshot, bounds)
  <2>1. /\ DOMAIN granted = {"scope", "role", "tenant", "tenantRole"}
        /\ \A kind \in DOMAIN granted : granted[kind] \subseteq snapshot[kind]
        /\ \A b \in bounds :
             /\ \A kind \in Kinds : b[kind] # Unbounded => granted[kind] \subseteq b[kind]
             /\ \A pair \in granted.tenantRole : Within(pair[1], b.tenant) /\ Within(pair[2], b.role)
    BY ResolutionNarrows
  <2>2. /\ SentBy(r) \subseteq bounds
        /\ \A kind \in DOMAIN NoGrants : \A x \in UNION {o.grants[kind] : o \in OutcomesOf(r)} :
             \E c \in EvaluatedOf(r) : c.kind = "token" /\ c.token \in tokens /\ kind = "scope" /\ x \in c.token.scopes
    BY <1>0, OutcomesNarrow DEF AwaitingAuthority
  <2>3. /\ hasResolver => snapshot = AuthorityOf[SubjectOf(r)][authority[SubjectOf(r)]]
        /\ ~hasResolver => snapshot = MergeAuthorization(OutcomesOf(r))
    BY <1>0, SnapshotBounds
  <2>. HIDE DEF granted, bounds
  <2>4. EvaluatedOf(q) = EvaluatedOf(r) /\ SentBy(q) = SentBy(r)
    BY <1>1, SameSlots DEF Same, EvaluatedOf, SentBy, ConnectBounds
  <2>5. ~hasResolver =>
          \A kind \in DOMAIN granted : \A x \in granted[kind] :
            \E c \in EvaluatedOf(r) : c.kind = "token" /\ c.token \in tokens /\ kind = "scope" /\ x \in c.token.scopes
    <3>1. ~hasResolver => \A kind \in DOMAIN NoGrants : snapshot[kind] = UNION {o.grants[kind] : o \in OutcomesOf(r)}
      BY <2>3 DEF MergeAuthorization
    <3>2. DOMAIN NoGrants = DOMAIN granted
      BY <2>1 DEF NoGrants
    <3>. QED BY <2>1, <2>2, <3>1, <3>2
  <2>6. q.context.authorization = granted
    BY <1>1 DEF granted
  <2>7. \A b \in SentBy(q) :
          /\ \A kind \in Kinds : b[kind] # Unbounded => granted[kind] \subseteq b[kind]
          /\ \A pair \in granted.tenantRole : Within(pair[1], b.tenant) /\ Within(pair[2], b.role)
    BY <2>1, <2>2, <2>4
  <2>8. hasResolver =>
          \E v \in h.versions :
            /\ AuthorityOf[SubjectOf(r)][v[SubjectOf(r)]] # Withheld
            /\ \A kind \in DOMAIN granted : granted[kind] \subseteq AuthorityOf[SubjectOf(r)][v[SubjectOf(r)]][kind]
    BY <2>1, <2>3
  <2>. QED BY <1>1, <2>4, <2>5, <2>6, <2>7, <2>8 DEF NarrowedFor
<1>. QED BY <1>5, <1>6 DEF Sound, q

LEMMA WithheldSound ==
  ASSUME NEW r, NEW h, Progress(r, h), r.phase = "authorize", authority \in h.versions,
         \/ Snapshot(SubjectOf(r), OutcomesOf(r)) = Withheld
         \/ r.connect # NoConnect /\ SubjectOf(r) # r.connect.subject
  PROVE  Sound(hasResolver, tokens, Answered(r, 401), h)
<1>. DEFINE q == Answered(r, 401)
<1>0. /\ IsRequest(r) /\ AwaitingAuthority(r, h) /\ Described(r) /\ ~r.faulted /\ r.route \in Started
      /\ SubjectOf(r) \in Principals /\ SubjectOf(r) \in {r.principal, r.connect.subject} \ {Anonymous}
      /\ r.principal # Anonymous => SubjectOf(r) = r.principal /\ r.plan.authenticate /\ CredentialsOf(r) # {}
      /\ r.principal = Anonymous => SubjectOf(r) = r.connect.subject /\ r.connect # NoConnect
  BY AwaitedSubject DEF Progress, Described, AwaitingAuthority
<1>1. /\ Same(q, r) /\ SameChecks(q, r) /\ q.phase = "done" /\ q.answer = 401 /\ q.todo = {}
      /\ q.principal = r.principal
  BY <1>0, AnsweredFields
<1>. HIDE DEF q
<1>2. CASE Snapshot(SubjectOf(r), OutcomesOf(r)) = Withheld
  <2>1. hasResolver /\ AuthorityOf[SubjectOf(r)][authority[SubjectOf(r)]] = Withheld
    BY <1>0, <1>2, SnapshotBounds
  <2>2. RefusalDeserved(hasResolver, q, h)
    BY <1>0, <1>1, <2>1 DEF RefusalDeserved, Same, SameChecks
  <2>. QED BY <1>0, <1>1, <2>2 DEF Sound, Concluded, AdmissionProved, AwaitingAuthority, Same, q
<1>3. CASE r.connect # NoConnect /\ SubjectOf(r) # r.connect.subject
  <2>1. PICK c \in CredentialsOf(r) : PrincipalOf(c) # r.connect.subject
    BY <1>0, <1>3 DEF AwaitingAuthority, AllAre
  <2>2. c \in CredentialsOf(q)
    BY <1>1, SameSlots DEF Same
  <2>3. RefusalDeserved(hasResolver, q, h)
    BY <1>0, <1>1, <1>3, <2>1, <2>2 DEF RefusalDeserved, Same, SameChecks
  <2>. QED BY <1>0, <1>1, <2>3 DEF Sound, Concluded, AdmissionProved, AwaitingAuthority, Same, q
<1>. QED BY <1>2, <1>3

LEMMA SoundGrows ==
  ASSUME NEW resolved, NEW known, NEW more, known \subseteq more, NEW r, NEW h, NEW k, Sound(resolved, known, r, h),
         (r.phase = "done" /\ k = h) \/ (r.phase # "done" /\ Grows(h, k))
  PROVE  Sound(resolved, more, r, k)
<1>1. h.versions \subseteq k.versions
  BY DEF Grows
<1>2. NarrowedFor(resolved, known, r, h) => NarrowedFor(resolved, more, r, k)
  BY <1>1, NarrowedGrows
<1>3. CASE r.phase = "done"
  BY <1>2, <1>3 DEF Sound, Concluded, Progress, InProgress
<1>4. CASE r.phase # "done" /\ Grows(h, k)
  BY <1>2, <1>4, ProgressGrows DEF Sound
<1>. QED BY <1>3, <1>4

LEMMA NextInTodo ==
  ASSUME NEW r, Described(r), r.todo # {}
  PROVE  Next(r.todo) \in r.todo /\ Next(r.todo) \in Indices(r)
<1>1. r.todo \subseteq Nat
  BY PartiesAssumption DEF Described, Indices, PresentedSlots
<1>2. PICK i \in r.todo : \A j \in r.todo : ~ (<<j, i>> \in OpToRel(<, Nat))
  BY <1>1, NatLessThanWellFounded, WFMin
<1>3. \A j \in r.todo : i <= j
  <2>. SUFFICES ASSUME NEW j \in r.todo, ~(i <= j) PROVE FALSE
    OBVIOUS
  <2>1. j < i /\ <<j, i>> \in Nat \X Nat
    BY <1>1
  <2>2. <<j, i>> \in OpToRel(<, Nat)
    BY <2>1, Zenon DEF OpToRel
  <2>. QED BY <1>2, <2>2
<1>. QED BY <1>2, <1>3 DEF Next, Described

LEMMA PresentedAt ==
  ASSUME NEW r, NEW i \in Indices(r)
  PROVE  CredentialAt(r, i) \in CredentialsOf(r) /\ Presented(CredentialAt(r, i))
BY IndicesAreSlots DEF Indices, PresentedSlots, CredentialAt

(***************************************************************************)
(* Steps that ask about a credential.                                      *)
(***************************************************************************)
\* An outcome more.
LEMMA OutcomeAdded ==
  ASSUME NEW q, NEW r, r.outcomes \in Seq(OutcomesOf(r)), NEW o, q.outcomes = Append(r.outcomes, o)
  PROVE  OutcomesOf(q) = OutcomesOf(r) \cup {o} /\ q.outcomes \in Seq(OutcomesOf(q))
<1>. DEFINE S == OutcomesOf(r) s == r.outcomes
<1>1. s \in Seq(S) /\ S = {s[i] : i \in DOMAIN s}
  BY DEF OutcomesOf
<1>. HIDE DEF S, s
<1>2. Len(s) \in Nat /\ DOMAIN s = 1..Len(s)
  BY <1>1
<1>3. /\ DOMAIN Append(s, o) = 1..(Len(s) + 1)
      /\ \A i \in 1..Len(s) : Append(s, o)[i] = s[i]
      /\ Append(s, o)[Len(s) + 1] = o
      /\ Append(s, o) \in Seq(S \cup {o})
  BY <1>1
<1>4. {Append(s, o)[i] : i \in DOMAIN Append(s, o)} = S \cup {o}
  BY <1>1, <1>2, <1>3
<1>5. OutcomesOf(q) = {Append(s, o)[i] : i \in DOMAIN Append(s, o)}
  BY DEF OutcomesOf, s
<1>. QED BY <1>3, <1>4, <1>5 DEF S, s

\* A credential that was accepted.
LEMMA AcceptedStep ==
  ASSUME NEW r, NEW h, Described(r), r.phase = "authenticate", Authenticating(r, h), NEW i \in r.todo, NEW o,
         LET c == CredentialAt(r, i)
         IN /\ c \in h.good /\ Settled(c) /\ PrincipalOf(c) \in Principals
            /\ c.kind = "session" => c \in h.standing
            /\ Carries(o, c)
  PROVE  Leads(AfterAuthentication([[r EXCEPT !.todo = @ \ {i}] EXCEPT !.outcomes = Append(@, o)]), r, h)
<1>. DEFINE c == CredentialAt(r, i)
            asked == [r EXCEPT !.todo = @ \ {i}]
            q == [asked EXCEPT !.outcomes = Append(@, o)]
<1>1. /\ Same(asked, r) /\ SameChecks(asked, r) /\ asked.phase = r.phase /\ asked.todo = r.todo \ {i}
      /\ asked.principal = r.principal /\ asked.answer = r.answer /\ asked.context = r.context
  BY DEF Described, IsRequest, Fields, Same, SameChecks
<1>. HIDE DEF asked
<1>2. /\ Same(q, asked) /\ q.phase = asked.phase /\ q.todo = asked.todo
      /\ q.principal = asked.principal /\ q.answer = asked.answer /\ q.context = asked.context
      /\ q.outcomes = Append(asked.outcomes, o)
      /\ q.invalid = asked.invalid /\ q.unavailable = asked.unavailable /\ q.faulted = asked.faulted
  BY <1>1 DEF IsRequest, Fields, Same
<1>. HIDE DEF q
<1>3. /\ Same(q, r) /\ q.phase = r.phase /\ q.todo = r.todo \ {i}
      /\ q.principal = r.principal /\ q.answer = r.answer /\ q.context = r.context
      /\ q.outcomes = Append(r.outcomes, o)
      /\ q.invalid = r.invalid /\ q.unavailable = r.unavailable /\ q.faulted = r.faulted
  BY <1>1, <1>2 DEF Same, SameChecks
<1>4. OutcomesOf(q) = OutcomesOf(r) \cup {o} /\ q.outcomes \in Seq(OutcomesOf(q))
  BY <1>3, OutcomeAdded DEF Described
<1>5. i \in Indices(r) /\ c \in CredentialsOf(r)
  BY PresentedAt DEF Described
<1>6. Described(q)
  <2>1. /\ CredentialsOf(q) = CredentialsOf(r) /\ Indices(q) = Indices(r)
    BY <1>3, SameSlots DEF Same
  <2>2. \A p \in OutcomesOf(q) : \E d \in CredentialsOf(q) : Settled(d) /\ Carries(p, d)
    BY <1>4, <1>5, <2>1 DEF Described
  <2>. QED BY <1>3, <1>4, <2>1, <2>2 DEF Described, Same
<1>7. Authenticating(q, h)
  <2>1. \A d : Checked(r, h, d) => Checked(q, h, d)
    BY <1>4 DEF Checked
  <2>2. Checked(q, h, c)
    BY <1>4 DEF Checked
  <2>3. \A j \in Indices(q) \ q.todo : j \in Indices(r) \ r.todo \/ CredentialAt(r, j) = c
    BY <1>3, SameSlots DEF Same
  <2>4. /\ \A j : CredentialAt(q, j) = CredentialAt(r, j)
        /\ Bad(q) <=> Bad(r)
        /\ Blamed(q, h) <=> Blamed(r, h)
    BY <1>3, SameSlots DEF Same, Blamed
  <2>. QED BY <1>3, <2>1, <2>2, <2>3, <2>4 DEF Authenticating, Same
<1>8. Leads(AfterAuthentication(q), q, h)
  BY <1>3, <1>6, <1>7, AuthenticationLeads
<1>9. Leads(AfterAuthentication(q), r, h)
  BY <1>3, <1>8, LeadsOn
<1>. QED BY <1>9 DEF q, asked

\* One that was not, and that somebody is to blame for.
LEMMA RejectedStep ==
  ASSUME NEW r, NEW h, Described(r), NEW i \in r.todo, CredentialAt(r, i) \notin h.steady
  PROVE  LET q == [[r EXCEPT !.todo = @ \ {i}] EXCEPT !.invalid = TRUE]
         IN /\ r.phase = "authenticate" /\ Authenticating(r, h) => Leads(AfterAuthentication(q), r, h)
            /\ r.phase = "resolve" /\ Identifying(r, h) => Leads(AfterResolution(q), r, h)
<1>. DEFINE asked == [r EXCEPT !.todo = @ \ {i}]
            q == [asked EXCEPT !.invalid = TRUE]
<1>1. /\ Same(asked, r) /\ SameChecks(asked, r) /\ asked.phase = r.phase /\ asked.todo = r.todo \ {i}
      /\ asked.principal = r.principal /\ asked.answer = r.answer /\ asked.context = r.context
  BY DEF Described, IsRequest, Fields, Same, SameChecks
<1>. HIDE DEF asked
<1>2. /\ Same(q, asked) /\ q.phase = asked.phase /\ q.todo = asked.todo
      /\ q.principal = asked.principal /\ q.answer = asked.answer /\ q.context = asked.context
      /\ q.outcomes = asked.outcomes
      /\ q.invalid = TRUE /\ q.unavailable = asked.unavailable /\ q.faulted = asked.faulted
  BY <1>1 DEF IsRequest, Fields, Same
<1>. HIDE DEF q
<1>3. /\ Same(q, r) /\ q.phase = r.phase /\ q.todo = r.todo \ {i}
      /\ q.principal = r.principal /\ q.answer = r.answer /\ q.context = r.context
      /\ q.outcomes = r.outcomes
      /\ q.invalid = TRUE /\ q.unavailable = r.unavailable /\ q.faulted = r.faulted
  BY <1>1, <1>2 DEF Same, SameChecks
<1>4. CredentialAt(r, i) \in CredentialsOf(r)
  BY PresentedAt DEF Described
<1>5. /\ CredentialsOf(q) = CredentialsOf(r) /\ Indices(q) = Indices(r) /\ OutcomesOf(q) = OutcomesOf(r)
      /\ \A j : CredentialAt(q, j) = CredentialAt(r, j)
      /\ Bad(q) <=> Bad(r)
      /\ Blamed(q, h)
  BY <1>3, <1>4, SameSlots DEF Same, Blamed, OutcomesOf
<1>6. Described(q)
  BY <1>3, <1>5 DEF Described, Same
<1>7. ASSUME r.phase = "authenticate", Authenticating(r, h) PROVE Leads(AfterAuthentication(q), r, h)
  <2>1. Authenticating(q, h)
    BY <1>3, <1>5, <1>7 DEF Authenticating, Same
  <2>2. Leads(AfterAuthentication(q), q, h)
    BY <1>3, <1>6, <1>7, <2>1, AuthenticationLeads
  <2>. QED BY <1>3, <2>2, LeadsOn
<1>8. ASSUME r.phase = "resolve", Identifying(r, h) PROVE Leads(AfterResolution(q), r, h)
  <2>1. Identifying(q, h)
    BY <1>3, <1>5, <1>8 DEF Identifying, Same, Checked
  <2>2. Leads(AfterResolution(q), q, h)
    BY <1>3, <1>6, <1>8, <2>1, ResolutionLeads
  <2>. QED BY <1>3, <2>2, LeadsOn
<1>. QED BY <1>7, <1>8 DEF q, asked

\* One that could not be asked about.
LEMMA UnansweredStep ==
  ASSUME NEW r, NEW h, Described(r), NEW i \in r.todo
  PROVE  LET q == [r EXCEPT !.todo = @ \ {i}, !.unavailable = TRUE, !.faulted = TRUE]
         IN /\ r.phase = "authenticate" /\ Authenticating(r, h) => Leads(AfterAuthentication(q), r, h)
            /\ r.phase = "resolve" /\ Identifying(r, h) => Leads(AfterResolution(q), r, h)
<1>. DEFINE q == [r EXCEPT !.todo = @ \ {i}, !.unavailable = TRUE, !.faulted = TRUE]
<1>1. /\ Same(q, r) /\ q.phase = r.phase /\ q.todo = r.todo \ {i}
      /\ q.principal = r.principal /\ q.answer = r.answer /\ q.context = r.context
      /\ q.outcomes = r.outcomes
      /\ q.invalid = r.invalid /\ q.unavailable = TRUE /\ q.faulted = TRUE
  BY DEF Described, IsRequest, Fields, Same
<1>. HIDE DEF q
<1>2. /\ CredentialsOf(q) = CredentialsOf(r) /\ Indices(q) = Indices(r) /\ OutcomesOf(q) = OutcomesOf(r)
      /\ \A j : CredentialAt(q, j) = CredentialAt(r, j)
      /\ Bad(q) <=> Bad(r)
      /\ Blamed(q, h) <=> Blamed(r, h)
  BY <1>1, SameSlots DEF Same, Blamed, OutcomesOf
<1>3. Described(q)
  BY <1>1, <1>2 DEF Described, Same
<1>4. ASSUME r.phase = "authenticate", Authenticating(r, h) PROVE Leads(AfterAuthentication(q), r, h)
  <2>1. Authenticating(q, h)
    BY <1>1, <1>2, <1>4 DEF Authenticating, Same
  <2>2. Leads(AfterAuthentication(q), q, h)
    BY <1>1, <1>3, <1>4, <2>1, AuthenticationLeads
  <2>. QED BY <1>1, <2>2, LeadsOn
<1>5. ASSUME r.phase = "resolve", Identifying(r, h) PROVE Leads(AfterResolution(q), r, h)
  <2>1. Identifying(q, h)
    BY <1>1, <1>2, <1>5 DEF Identifying, Same, Checked
  <2>2. Leads(AfterResolution(q), q, h)
    BY <1>1, <1>3, <1>5, <2>1, ResolutionLeads
  <2>. QED BY <1>1, <2>2, LeadsOn
<1>. QED BY <1>4, <1>5 DEF q

\* One whose account stands.
LEMMA StandingStep ==
  ASSUME NEW r, NEW h, Described(r), r.phase = "resolve", Identifying(r, h), NEW i \in r.todo,
         CredentialAt(r, i) \in h.standing
  PROVE  Leads(AfterResolution([r EXCEPT !.todo = @ \ {i}]), r, h)
<1>. DEFINE q == [r EXCEPT !.todo = @ \ {i}]
<1>1. /\ Same(q, r) /\ SameChecks(q, r) /\ q.phase = r.phase /\ q.todo = r.todo \ {i}
      /\ q.principal = r.principal /\ q.answer = r.answer /\ q.context = r.context
  BY DEF Described, IsRequest, Fields, Same, SameChecks
<1>. HIDE DEF q
<1>2. /\ CredentialsOf(q) = CredentialsOf(r) /\ Indices(q) = Indices(r) /\ OutcomesOf(q) = OutcomesOf(r)
      /\ \A j : CredentialAt(q, j) = CredentialAt(r, j)
      /\ Bad(q) <=> Bad(r)
      /\ Blamed(q, h) <=> Blamed(r, h)
  BY <1>1, SameSlots DEF Same, SameChecks, Blamed, OutcomesOf
<1>3. Described(q)
  BY <1>1, SameDescribed DEF Described
<1>4. Identifying(q, h)
  <2>1. \A j \in Indices(q) \ q.todo : j \in Indices(r) \ r.todo \/ j = i
    BY <1>1, <1>2
  <2>2. \A d : Checked(r, h, d) => Checked(q, h, d)
    BY <1>2 DEF Checked
  <2>. QED BY <1>1, <1>2, <2>1, <2>2 DEF Identifying, Same, SameChecks
<1>5. Leads(AfterResolution(q), q, h)
  BY <1>1, <1>3, <1>4, ResolutionLeads
<1>6. Leads(AfterResolution(q), r, h)
  BY <1>1, <1>5, LeadsOn
<1>. QED BY <1>6 DEF q

(***************************************************************************)
(* A request arrives.                                                      *)
(***************************************************************************)
LEMMA ArrivedDescribed ==
  ASSUME NEW r \in Started, NEW g, NEW connect \in {NoConnect} \cup ConnectTokens
  PROVE  LET q == Arrived(r, g, connect)
         IN /\ Described(q) /\ q.route = r /\ q.connect = connect /\ q.credentials = Extract(g) /\ q.load = Load(g)
            /\ q.todo = {} /\ q.outcomes = <<>> /\ q.principal = Anonymous /\ q.context = NoContext
            /\ ~q.unavailable /\ (q.invalid <=> Bad(q))
<1>. DEFINE q == Arrived(r, g, connect)
<1>1. /\ IsRequest(q) /\ q.route = r /\ q.connect = connect /\ q.credentials = Extract(g) /\ q.load = Load(g)
      /\ q.plan = Plan(Compiled[r], connect)
      /\ q.todo = {} /\ q.outcomes = <<>> /\ q.principal = Anonymous /\ q.context = NoContext
      /\ q.unavailable = FALSE /\ q.faulted = FALSE /\ q.answer = Unanswered
      /\ q.invalid = \E slot \in Slots : Extract(g)[slot] = Malformed
  <2>1. Idle = [field \in Fields |-> Idle[field]]
    BY DEF Idle, Fields
  <2>2. DOMAIN q = DOMAIN Idle /\ q = [field \in DOMAIN q |-> q[field]]
    BY DEF Arrived
  <2>3. q = [field \in Fields |-> q[field]]
    BY <2>1, <2>2
  <2>. QED BY <2>3 DEF Arrived, Idle, IsRequest
<1>. HIDE DEF q
<1>2. q.invalid <=> Bad(q)
  BY <1>1 DEF Bad
<1>3. q.invalid \in BOOLEAN
  BY <1>1
<1>4. OutcomesOf(q) = {} /\ q.outcomes \in Seq(OutcomesOf(q))
  BY <1>1 DEF OutcomesOf
<1>5. Described(q)
  BY <1>1, <1>3, <1>4 DEF Described
<1>. QED BY <1>1, <1>2, <1>5 DEF q

LEMMA BegunLeads ==
  ASSUME NEW r, NEW h, Described(r), r.todo = {}, r.outcomes = <<>>, r.principal = Anonymous, r.context = NoContext,
         ~r.unavailable, r.invalid <=> Bad(r)
  PROVE  Leads(Begun(r), r, h)
<1>1. CASE r.plan.authenticate
  <2>. DEFINE q == [r EXCEPT !.phase = "authenticate", !.todo = PresentedSlots(r.credentials)]
  <2>1. Begun(r) = AfterAuthentication(q)
    BY <1>1, Zenon DEF Begun
  <2>2. /\ Same(q, r) /\ SameChecks(q, r) /\ q.phase = "authenticate" /\ q.todo = Indices(r)
        /\ q.principal = r.principal /\ q.answer = r.answer /\ q.context = r.context
    BY DEF Described, IsRequest, Fields, Same, SameChecks, Indices
  <2>. HIDE DEF q
  <2>3. Described(q)
    BY <2>2, SameDescribed DEF Described
  <2>4. (Bad(q) <=> Bad(r)) /\ Indices(q) = q.todo
    BY <2>2, SameSlots DEF Same
  <2>5. Authenticating(q, h)
    BY <1>1, <2>2, <2>4 DEF Authenticating, Blamed, Same, SameChecks
  <2>6. Leads(AfterAuthentication(q), q, h)
    BY <2>2, <2>3, <2>5, AuthenticationLeads
  <2>. QED BY <2>1, <2>2, <2>6, LeadsOn
<1>2. CASE ~r.plan.authenticate /\ ~r.plan.bypass /\ r.connect # NoConnect
  <2>. DEFINE q == Authorizing(r, Anonymous)
  <2>1. Begun(r) = q
    BY <1>2, Zenon DEF Begun
  <2>2. /\ Same(q, r) /\ SameChecks(q, r) /\ q.phase = "authorize" /\ q.principal = Anonymous /\ q.todo = {}
        /\ q.answer = r.answer /\ q.context = r.context
    BY AuthorizingFields DEF Described
  <2>. HIDE DEF q
  <2>3. Described(q)
    BY <2>2, SameDescribed DEF Described
  <2>4. OutcomesOf(q) = {}
    BY <2>2 DEF OutcomesOf, SameChecks
  <2>5. AwaitingAuthority(q, h)
    BY <1>2, <2>2, <2>4 DEF AwaitingAuthority, Same, SameChecks
  <2>. QED BY <2>1, <2>2, <2>3, <2>5 DEF Leads, Progress, InProgress
<1>3. CASE ~r.plan.authenticate /\ ~(~r.plan.bypass /\ r.connect # NoConnect)
  <2>. DEFINE q == [r EXCEPT !.phase = "guard"]
  <2>1. Begun(r) = q
    BY <1>3, Zenon DEF Begun
  <2>2. /\ Same(q, r) /\ SameChecks(q, r) /\ q.phase = "guard"
        /\ q.todo = r.todo /\ q.principal = r.principal /\ q.answer = r.answer /\ q.context = r.context
    BY GuardedFields DEF Described
  <2>. HIDE DEF q
  <2>3. Described(q)
    BY <2>2, SameDescribed DEF Described
  <2>4. Reaching(q, h)
    BY <1>3, <2>2 DEF Reaching, Same, SameChecks
  <2>. QED BY <2>1, <2>2, <2>3, <2>4 DEF Leads, Progress, InProgress
<1>. QED BY <1>1, <1>2, <1>3

(***************************************************************************)
(* The steps of a request.                                                 *)
(***************************************************************************)
RequestInv ==
  /\ request.load \in Nat
  /\ \A c \in CredentialsOf(request) : Credible(c)
  /\ request = Idle \/ Sound(hasResolver, tokens, request, history)

LEMMA UnderWay ==
  ASSUME RequestInv, request.phase \in InProgress
  PROVE  /\ Progress(request, history) /\ Described(request)
         /\ request.phase = "guard" => NarrowedFor(hasResolver, tokens, request, history)
BY DEF RequestInv, Idle, Sound, Progress, InProgress

LEMMA IdleCredentials == CredentialsOf(Idle) = {} /\ Idle.load \in Nat
BY DEF CredentialsOf, Idle, NoCredential, Presented

\* What the step of a request adds to its history.
Noted == And(history, Seen)

LEMMA NotedGrows ==
  /\ Grows(history, Noted)
  /\ authority \in Noted.versions
  /\ \A c \in CredentialsOf(request) : /\ Good(c) => c \in Noted.good
                                       /\ Standing(c) => c \in Noted.standing
                                       /\ c \in Noted.steady => Good(c) /\ Standing(c)
<1>1. /\ Seen.good = {c \in CredentialsOf(request) : Good(c)}
      /\ Seen.standing = {c \in CredentialsOf(request) : Standing(c)}
      /\ Seen.steady = {c \in CredentialsOf(request) : Good(c)} \cap {c \in CredentialsOf(request) : Standing(c)}
      /\ Seen.versions = {authority}
  BY DEF Seen
<1>2. /\ Noted.good = history.good \cup Seen.good
      /\ Noted.standing = history.standing \cup Seen.standing
      /\ Noted.steady = history.steady \cap Seen.steady
      /\ Noted.versions = history.versions \cup Seen.versions
  BY DEF Noted, And
<1>. QED BY <1>1, <1>2 DEF Grows

LEMMA NotedNext ==
  ASSUME Track, request.phase \in InProgress, request'.phase # "idle", request'.credentials = request.credentials,
         UNCHANGED <<keys, now, tokens, ring, accounts, logouts, authority>>
  PROVE  history' = Noted
<1>1. history' = And(history, Seen')
  BY DEF Track, InProgress
<1>2. CredentialsOf(request)' = CredentialsOf(request)
  BY DEF CredentialsOf
<1>3. \A c \in CredentialsOf(request) : Presented(c)
  BY DEF CredentialsOf
<1>4. ASSUME NEW c \in CredentialsOf(request) PROVE (Good(c)' <=> Good(c)) /\ (Standing(c)' <=> Standing(c))
  BY <1>3, SameWorld
<1>5. /\ {c \in CredentialsOf(request) : Good(c)'} = {c \in CredentialsOf(request) : Good(c)}
      /\ {c \in CredentialsOf(request) : Standing(c)'} = {c \in CredentialsOf(request) : Standing(c)}
  BY <1>4
<1>6. Seen' = Seen
  <2>1. Seen' = [good |-> {c \in CredentialsOf(request) : Good(c)'},
                 standing |-> {c \in CredentialsOf(request) : Standing(c)'},
                 steady |-> {c \in CredentialsOf(request) : Good(c)'} \cap {c \in CredentialsOf(request) : Standing(c)'},
                 versions |-> {authority'}]
    BY <1>2 DEF Seen
  <2>2. Seen = [good |-> {c \in CredentialsOf(request) : Good(c)},
                standing |-> {c \in CredentialsOf(request) : Standing(c)},
                steady |-> {c \in CredentialsOf(request) : Good(c)} \cap {c \in CredentialsOf(request) : Standing(c)},
                versions |-> {authority}]
    BY DEF Seen
  <2>. QED BY <1>5, <2>1, <2>2, authority' = authority
<1>. QED BY <1>1, <1>6 DEF Noted

LEMMA SoundNext ==
  ASSUME RequestInv, request.phase \in InProgress, Track, Same(request', request),
         UNCHANGED <<keys, now, tokens, ring, accounts, logouts, authority, hasResolver>>,
         Sound(hasResolver, tokens, request', Noted)
  PROVE  RequestInv'
<1>1. request'.phase # "idle"
  BY DEF Sound, Progress, InProgress
<1>2. history' = Noted
  BY <1>1, NotedNext DEF Same
<1>3. CredentialsOf(request') = CredentialsOf(request) /\ request'.load = request.load
  BY SameSlots DEF Same
<1>4. \A c : Credible(c) => Credible(c)'
  BY DEF Credible
<1>5. CredentialsOf(request)' = CredentialsOf(request')
  BY DEF CredentialsOf
<1>6. Sound(hasResolver', tokens', request', history')
  BY <1>2
<1>7. Sound(hasResolver, tokens, request, history)' <=> Sound(hasResolver', tokens', request', history')
  OBVIOUS
<1>. QED BY <1>3, <1>4, <1>5, <1>6, <1>7 DEF RequestInv

LEMMA AuthenticateStep ==
  ASSUME WorldInv, RequestInv, DefaultTypes, Authenticate
  PROVE  RequestInv'
<1>. DEFINE i == Next(request.todo)
            c == CredentialAt(request, i)
            rest == [request EXCEPT !.todo = @ \ {i}]
<1>1. request.phase = "authenticate" /\ request.phase \in InProgress
  BY DEF Authenticate, InProgress
<1>2. Progress(request, Noted) /\ Described(request) /\ request.todo # {} /\ Authenticating(request, Noted)
  BY <1>1, UnderWay, NotedGrows, ProgressGrows DEF Progress
<1>3. i \in request.todo /\ c \in CredentialsOf(request) /\ Credible(c)
  BY <1>2, NextInTodo, PresentedAt DEF RequestInv
<1>. HIDE DEF i
<1>4. Leads(request', request, Noted)
  <2>1. CASE Accepted(c)
    <3>1. /\ c \in Noted.good /\ Settled(c) /\ PrincipalOf(c) \in Principals
          /\ c.kind = "session" => c \in Noted.standing
          /\ Carries(Outcome(c), c)
      BY <1>3, <2>1, AcceptedIsGood, OutcomeCarries, NotedGrows
    <3>2. request' = AfterAuthentication([rest EXCEPT !.outcomes = Append(@, Outcome(c))])
      BY <2>1 DEF Authenticate, i
    <3>. QED BY <1>1, <1>2, <1>3, <3>1, <3>2, AcceptedStep
  <2>2. CASE ~Accepted(c)
    <3>1. c \notin Noted.steady
      BY <1>3, <2>2, NotedGrows, SteadyIsAccepted
    <3>2. request' = AfterAuthentication([rest EXCEPT !.invalid = TRUE])
      BY <2>2 DEF Authenticate, i
    <3>. QED BY <1>1, <1>2, <1>3, <3>1, <3>2, RejectedStep
  <2>. QED BY <2>1, <2>2
<1>5. Sound(hasResolver, tokens, request', Noted) /\ Same(request', request)
  BY <1>2, <1>4, LeadsSound DEF Described, Leads
<1>6. Track /\ UNCHANGED <<keys, now, tokens, ring, accounts, logouts, authority, hasResolver>>
  BY DEF Authenticate, ObserveUse, apiKeyVars, tokenVars, logoutVars
<1>. QED BY <1>1, <1>5, <1>6, SoundNext

LEMMA ResolvingAt ==
  ASSUME RequestInv, request.phase = "resolve"
  PROVE  /\ Progress(request, Noted) /\ Described(request) /\ Identifying(request, Noted) /\ request.phase \in InProgress
         /\ Next(request.todo) \in request.todo
         /\ CredentialAt(request, Next(request.todo)) \in CredentialsOf(request)
         /\ Credible(CredentialAt(request, Next(request.todo)))
         /\ Checked(request, Noted, CredentialAt(request, Next(request.todo)))
<1>1. request.phase \in InProgress
  BY DEF InProgress
<1>2. Progress(request, Noted) /\ Described(request) /\ request.todo # {} /\ Identifying(request, Noted)
  BY <1>1, UnderWay, NotedGrows, ProgressGrows DEF Progress
<1>3. Next(request.todo) \in request.todo /\ Next(request.todo) \in Indices(request)
  BY <1>2, NextInTodo
<1>4. CredentialAt(request, Next(request.todo)) \in CredentialsOf(request)
  BY <1>3, PresentedAt
<1>. QED BY <1>1, <1>2, <1>3, <1>4 DEF RequestInv, Identifying

LEMMA ResolveIdentityStep ==
  ASSUME WorldInv, RequestInv, ResolveIdentity
  PROVE  RequestInv'
<1>. DEFINE i == Next(request.todo)
            c == CredentialAt(request, i)
            rest == [request EXCEPT !.todo = @ \ {i}]
<1>1. request.phase = "resolve"
  BY DEF ResolveIdentity
<1>2. /\ Progress(request, Noted) /\ Described(request) /\ Identifying(request, Noted) /\ request.phase \in InProgress
      /\ i \in request.todo /\ c \in CredentialsOf(request) /\ Credible(c) /\ Checked(request, Noted, c)
  BY <1>1, ResolvingAt
<1>. HIDE DEF i
<1>3. Leads(request', request, Noted)
  <2>1. CASE Identified(c)
    <3>1. c \in Noted.standing
      <4>1. CASE c.kind = "session"
        BY <1>2, <4>1 DEF Checked
      <4>2. CASE c.kind # "session"
        BY <1>2, <2>1, <4>2, IdentifiedStands, NotedGrows DEF Checked
      <4>. QED BY <4>1, <4>2
    <3>2. request' = AfterResolution(rest)
      BY <2>1 DEF ResolveIdentity, i
    <3>. QED BY <1>1, <1>2, <3>1, <3>2, StandingStep
  <2>2. CASE ~Identified(c)
    <3>1. c \notin Noted.steady
      BY <1>2, <2>2, NotedGrows, SteadyIsAccepted
    <3>2. request' = AfterResolution([rest EXCEPT !.invalid = TRUE])
      BY <2>2 DEF ResolveIdentity, i
    <3>. QED BY <1>1, <1>2, <3>1, <3>2, RejectedStep
  <2>. QED BY <2>1, <2>2
<1>4. Sound(hasResolver, tokens, request', Noted) /\ Same(request', request)
  BY <1>2, <1>3, LeadsSound DEF Described, Leads
<1>5. Track /\ UNCHANGED <<keys, now, tokens, ring, accounts, logouts, authority, hasResolver>>
  BY DEF ResolveIdentity, worldVars, apiKeyVars, tokenVars, logoutVars
<1>. QED BY <1>2, <1>4, <1>5, SoundNext

LEMMA UnavailableStep ==
  ASSUME RequestInv, Unavailable
  PROVE  RequestInv'
<1>. DEFINE i == Next(request.todo)
            rest == [request EXCEPT !.todo = @ \ {i}, !.unavailable = TRUE, !.faulted = TRUE]
<1>1. request.phase \in {"authenticate", "resolve"} /\ request.phase \in InProgress
  BY DEF Unavailable, Resolving, InProgress
<1>2. Progress(request, Noted) /\ Described(request) /\ request.todo # {}
  BY <1>1, UnderWay, NotedGrows, ProgressGrows DEF Progress
<1>3. i \in request.todo
  BY <1>2, NextInTodo
<1>. HIDE DEF i
<1>4. Leads(request', request, Noted)
  <2>1. CASE request.phase = "authenticate"
    <3>1. request' = AfterAuthentication(rest)
      BY <2>1 DEF Unavailable, i
    <3>2. Authenticating(request, Noted)
      BY <1>2, <2>1 DEF Progress
    <3>. QED BY <1>2, <1>3, <2>1, <3>1, <3>2, UnansweredStep
  <2>2. CASE request.phase = "resolve"
    <3>1. request' = AfterResolution(rest)
      BY <2>2 DEF Unavailable, i
    <3>2. Identifying(request, Noted)
      BY <1>2, <2>2 DEF Progress
    <3>. QED BY <1>2, <1>3, <2>2, <3>1, <3>2, UnansweredStep
  <2>. QED BY <1>1, <2>1, <2>2
<1>5. Sound(hasResolver, tokens, request', Noted) /\ Same(request', request)
  BY <1>2, <1>4, LeadsSound DEF Described, Leads
<1>6. Track /\ UNCHANGED <<keys, now, tokens, ring, accounts, logouts, authority, hasResolver>>
  BY DEF Unavailable, worldVars, apiKeyVars, tokenVars, logoutVars
<1>. QED BY <1>1, <1>5, <1>6, SoundNext

LEMMA RaiseStep ==
  ASSUME RequestInv, Raise
  PROVE  RequestInv'
<1>. DEFINE raised == [request EXCEPT !.faulted = TRUE]
<1>1. request.phase \in {"authenticate", "resolve", "authorize"} /\ request.phase \in InProgress
  BY DEF Raise, Resolving, InProgress
<1>2. Progress(request, history) /\ Described(request)
  BY <1>1, UnderWay
<1>3. request.principal \in Principals \cup {Anonymous}
  BY <1>1, <1>2 DEF Progress, Authenticating, Identifying, AwaitingAuthority
<1>4. Same(raised, request) /\ raised.principal = request.principal /\ raised.faulted = TRUE
  BY <1>2 DEF Described, IsRequest, Fields, Same
<1>5. request' = Answered(raised, 503)
  BY DEF Raise
<1>. HIDE DEF raised
<1>6. IsRequest(raised) /\ raised.route \in Started
  BY <1>2, <1>4 DEF Described, Same
<1>7. Sound(hasResolver, tokens, request', Noted)
  BY <1>3, <1>4, <1>5, <1>6, RaisedSound
<1>8. Same(request', raised)
  BY <1>5, <1>6, AnsweredFields
<1>9. Same(request', request)
  BY <1>4, <1>8 DEF Same
<1>10. Track /\ UNCHANGED <<keys, now, tokens, ring, accounts, logouts, authority, hasResolver>>
  BY DEF Raise, worldVars, apiKeyVars, tokenVars, logoutVars
<1>. QED BY <1>1, <1>7, <1>9, <1>10, SoundNext

LEMMA AuthorizeStep ==
  ASSUME RequestInv, Authorize
  PROVE  RequestInv'
<1>. DEFINE outcomes == {request.outcomes[i] : i \in DOMAIN request.outcomes}
            snapshot == Snapshot(SubjectOf(request), outcomes)
<1>1. request.phase = "authorize" /\ request.phase \in InProgress
  BY DEF Authorize, InProgress
<1>2. Progress(request, Noted) /\ Described(request) /\ authority \in Noted.versions
  BY <1>1, UnderWay, NotedGrows, ProgressGrows
<1>3. \A c \in CredentialsOf(request) : Credible(c)
  BY DEF RequestInv
<1>4. outcomes = OutcomesOf(request)
  BY DEF OutcomesOf
<1>5. request' = IF snapshot = Withheld \/ (request.connect # NoConnect /\ SubjectOf(request) # request.connect.subject)
                 THEN Answered(request, 401)
                 ELSE Merged(request, snapshot, outcomes)
  BY DEF Authorize
<1>. HIDE DEF outcomes
<1>6. Sound(hasResolver, tokens, request', Noted) /\ Same(request', request)
  <2>1. CASE snapshot = Withheld \/ (request.connect # NoConnect /\ SubjectOf(request) # request.connect.subject)
    <3>1. request' = Answered(request, 401)
      BY <1>5, <2>1
    <3>2. Sound(hasResolver, tokens, Answered(request, 401), Noted)
      BY <1>1, <1>2, <1>4, <2>1, WithheldSound
    <3>. QED BY <1>2, <3>1, <3>2, AnsweredFields DEF Described
  <2>2. CASE ~(snapshot = Withheld \/ (request.connect # NoConnect /\ SubjectOf(request) # request.connect.subject))
    <3>1. request' = Merged(request, snapshot, OutcomesOf(request))
      BY <1>4, <1>5, <2>2
    <3>2. Sound(hasResolver, tokens, Merged(request, snapshot, OutcomesOf(request)), Noted)
      BY <1>1, <1>2, <1>3, <1>4, <2>2, MergedSound
    <3>3. Same(request', request)
      BY <1>2, <3>1, MergedFields DEF Described
    <3>. QED BY <3>1, <3>2, <3>3
  <2>. QED BY <2>1, <2>2
<1>7. Track /\ UNCHANGED <<keys, now, tokens, ring, accounts, logouts, authority, hasResolver>>
  BY DEF Authorize, worldVars, apiKeyVars, tokenVars, logoutVars
<1>. QED BY <1>1, <1>6, <1>7, SoundNext

LEMMA GuardStep ==
  ASSUME RequestInv, Guard
  PROVE  RequestInv'
<1>. DEFINE decision == Decide(Route[request.route].guard, request.principal, request.context, Route[request.route].tenant)
            code == CASE decision = "allowed" -> 200 [] decision = "forbidden" -> 403 [] OTHER -> 401
<1>1. request.phase = "guard" /\ request.phase \in InProgress /\ request' = Answered(request, code)
  BY DEF Guard, InProgress
<1>2. Progress(request, Noted) /\ Described(request) /\ NarrowedFor(hasResolver, tokens, request, history)
  BY <1>1, UnderWay, NotedGrows, ProgressGrows
<1>3. NarrowedFor(hasResolver, tokens, request, Noted)
  BY <1>2, NarrowedGrows, NotedGrows DEF Grows
<1>4. Sound(hasResolver, tokens, Answered(request, code), Noted)
  BY <1>1, <1>2, <1>3, GuardSound
<1>5. Same(request', request)
  <2>. HIDE DEF code
  <2>. QED BY <1>1, <1>2, AnsweredFields DEF Described
<1>6. Track /\ UNCHANGED <<keys, now, tokens, ring, accounts, logouts, authority, hasResolver>>
  BY DEF Guard, worldVars, apiKeyVars, tokenVars, logoutVars
<1>. HIDE DEF code
<1>. QED BY <1>1, <1>4, <1>5, <1>6, SoundNext

(***************************************************************************)
(* Requests arrive with credentials the world knows.                       *)
(***************************************************************************)
LEMMA ExtractedFrom ==
  ASSUME NEW g
  PROVE  /\ BearerSlot(g) \in {Malformed, NoCredential, g.authorization}
         /\ APIKeySlot(g) \in {Malformed, NoCredential, g.authorization, g.header}
<1>1. BearerSlot(g) \in {Malformed, NoCredential, g.authorization}
  <2>1. CASE g.authorization = OtherScheme
    BY <2>1, Zenon DEF BearerSlot
  <2>2. CASE g.authorization # OtherScheme /\ g.authorization.kind = "key"
    BY <2>2, Zenon DEF BearerSlot
  <2>3. CASE g.authorization # OtherScheme /\ g.authorization.kind # "key"
    BY <2>3, Zenon DEF BearerSlot
  <2>. QED BY <2>1, <2>2, <2>3
<1>2. AuthorizationKey(g) \in {Malformed, NoCredential, g.authorization, g.header}
  <2>1. CASE g.authorization = Malformed
    <3>1. g.authorization # OtherScheme /\ g.authorization.kind # "key"
      BY <2>1 DEF Malformed, OtherScheme
    <3>. QED BY <2>1, <3>1, Zenon DEF AuthorizationKey
  <2>2. CASE g.authorization = OtherScheme
    <3>1. g.authorization # Malformed /\ g.authorization.kind # "key"
      BY <2>2 DEF Malformed, OtherScheme
    <3>. QED BY <2>2, <3>1, Zenon DEF AuthorizationKey
  <2>3. CASE g.authorization # Malformed /\ g.authorization # OtherScheme /\ g.authorization.kind = "key"
    BY <2>3, Zenon DEF AuthorizationKey
  <2>4. CASE g.authorization # Malformed /\ g.authorization # OtherScheme /\ g.authorization.kind # "key"
    BY <2>4, Zenon DEF AuthorizationKey
  <2>. QED BY <2>1, <2>2, <2>3, <2>4
<1>. QED BY <1>1, <1>2 DEF APIKeySlot

LEMMA HeadersAreCredible ==
  ASSUME NEW g \in Headers
  PROVE  /\ Load(g) \in Nat
         /\ \A slot \in Slots : Presented(Extract(g)[slot]) => Credible(Extract(g)[slot])
<1>. DEFINE Key == {KeyCredential(k, TRUE) : k \in {j \in Keys : keys[j] # NoKey}}
                   \cup {KeyCredential(k, FALSE) : k \in FirstKeys}
            Token == {TokenCredential(t) : t \in tokens \cup ForeignTokens}
            Cookie == {SessionCredential(s, b) : s \in Sessions, b \in BOOLEAN}
            All == [cookie : {NoCredential} \cup Cookie, header : {NoCredential, Malformed} \cup Key,
                    authorization : {NoCredential, OtherScheme, Malformed} \cup Key \cup Token]
<1>1. g \in All
  <2>1. Headers = {h \in All : Load(h) <= MaxCredentials}
    BY DEF Headers
  <2>. HIDE DEF All
  <2>. QED BY <2>1
<1>2. \A c \in Key : Credible(c)
  BY KeyAssumption DEF KeyCredential, Credible
<1>3. \A c \in Token : Credible(c)
  BY DEF TokenCredential, Credible
<1>4. \A c \in Cookie : Credible(c)
  BY DEF SessionCredential, Credible
<1>. HIDE DEF Key, Token, Cookie
<1>5. \A c \in {NoCredential, OtherScheme, Malformed} : ~Presented(c)
  BY DEF NoCredential, OtherScheme, Malformed, Presented
<1>6. \A c \in {g.cookie, g.header, g.authorization, Malformed, NoCredential} : Presented(c) => Credible(c)
  BY <1>1, <1>2, <1>3, <1>4, <1>5
<1>7. \A slot \in Slots : Extract(g)[slot] \in {g.cookie, g.header, g.authorization, Malformed, NoCredential}
  BY ExtractedFrom DEF Extract, Slots
<1>8. Load(g) \in Nat
  <2>1. DOMAIN g = {"cookie"} \cup {"header"} \cup {"authorization"}
    BY <1>1
  <2>2. IsFiniteSet(DOMAIN g)
    <3>1. IsFiniteSet({"cookie"}) /\ IsFiniteSet({"header"}) /\ IsFiniteSet({"authorization"})
      BY FS_Singleton
    <3>2. IsFiniteSet({"cookie"} \cup {"header"})
      BY <3>1, FS_Union
    <3>3. IsFiniteSet(({"cookie"} \cup {"header"}) \cup {"authorization"})
      BY <3>1, <3>2, FS_Union
    <3>. QED BY <2>1, <3>3
  <2>3. IsFiniteSet({f \in DOMAIN g : g[f] # NoCredential})
    BY <2>2, FS_Subset
  <2>. QED BY <2>3, FS_CardinalityType DEF Load
<1>. QED BY <1>6, <1>7, <1>8

LEMMA RequestStep ==
  ASSUME RequestInv, Request
  PROVE  RequestInv'
<1>1. PICK g \in Headers, r \in Started, connect \in {NoConnect} \cup ConnectTokens : Arrive(r, g, connect)
  BY DEF Request
<1>. DEFINE q == Arrived(r, g, connect)
<1>2. /\ Described(q) /\ q.route = r /\ q.credentials = Extract(g) /\ q.load = Load(g)
      /\ q.todo = {} /\ q.outcomes = <<>> /\ q.principal = Anonymous /\ q.context = NoContext
      /\ ~q.unavailable /\ (q.invalid <=> Bad(q))
  BY ArrivedDescribed
<1>3. request' = Begun(q) /\ UNCHANGED <<hasResolver, tokens>>
  BY <1>1 DEF Arrive, worldVars, tokenVars
<1>. HIDE DEF q
<1>4. Leads(request', q, history')
  BY <1>2, <1>3, BegunLeads
<1>5. Sound(hasResolver', tokens', request', history')
  BY <1>2, <1>4, LeadsSound
<1>6. request'.load \in Nat /\ request'.credentials = Extract(g)
  BY <1>2, <1>4, HeadersAreCredible DEF Leads, Same
<1>7. \A c \in CredentialsOf(request') : Credible(c)
  BY <1>6, HeadersAreCredible DEF CredentialsOf
<1>8. \A c : Credible(c) => Credible(c)'
  BY <1>3 DEF Credible
<1>9. CredentialsOf(request)' = CredentialsOf(request')
  BY DEF CredentialsOf
<1>. QED BY <1>5, <1>6, <1>7, <1>8, <1>9 DEF RequestInv

LEMMA IdleNext == ASSUME request' = Idle PROVE RequestInv'
<1>1. CredentialsOf(request)' = {}
  <2>1. CredentialsOf(request)' = CredentialsOf(request')
    BY DEF CredentialsOf
  <2>. QED BY <2>1, IdleCredentials
<1>. QED BY <1>1, IdleCredentials DEF RequestInv

LEMMA ExtractionFailsStep ==
  ASSUME RequestInv, ExtractionFails
  PROVE  RequestInv'
<1>1. PICK r \in Started : request' = Answered([Idle EXCEPT !.route = r, !.faulted = TRUE], 503)
  BY DEF ExtractionFails
<1>. DEFINE q == [Idle EXCEPT !.route = r, !.faulted = TRUE]
<1>2. /\ IsRequest(q) /\ q.route = r /\ q.faulted = TRUE /\ q.principal = Anonymous
      /\ q.load = Idle.load /\ q.credentials = Idle.credentials
  BY DEF Idle, IsRequest, Fields
<1>. HIDE DEF q
<1>3. request' = Answered(q, 503)
  BY <1>1 DEF q
<1>4. Sound(hasResolver', tokens', request', history')
  BY <1>2, <1>3, RaisedSound
<1>5. request'.load = Idle.load /\ request'.credentials = Idle.credentials
  BY <1>2, <1>3, AnsweredFields DEF Same
<1>6. CredentialsOf(request)' = {}
  <2>1. CredentialsOf(request)' = CredentialsOf(Idle)
    BY <1>5 DEF CredentialsOf
  <2>. QED BY <2>1, IdleCredentials
<1>. QED BY <1>4, <1>5, <1>6, IdleCredentials DEF RequestInv

\* While it waits, the request is as it was and its history grows.
LEMMA WaitingStep ==
  ASSUME RequestInv, request' = request, hasResolver' = hasResolver, tokens \subseteq tokens', Track
  PROVE  RequestInv'
<1>1. CASE request = Idle
  BY <1>1, IdleNext
<1>2. CASE request # Idle
  <2>1. Sound(hasResolver, tokens, request, history) /\ request.phase # "idle"
    BY <1>2 DEF RequestInv, Sound, Progress, InProgress
  <2>2. (request.phase = "done" /\ history' = history) \/ (request.phase # "done" /\ Grows(history, history'))
    <3>1. CASE request.phase = "done"
      BY <3>1 DEF Track
    <3>2. CASE request.phase # "done"
      BY <2>1, <3>2, Watched DEF Sound, Progress
    <3>. QED BY <3>1, <3>2
  <2>3. Sound(hasResolver, tokens', request, history')
    BY <2>1, <2>2, SoundGrows
  <2>4. \A c : Credible(c) => Credible(c)'
    BY DEF Credible
  <2>5. CredentialsOf(request)' = CredentialsOf(request)
    BY DEF CredentialsOf
  <2>. QED BY <2>3, <2>4, <2>5 DEF RequestInv
<1>. QED BY <1>1, <1>2

(***************************************************************************)
(* The invariant of the evaluator, and what it says.                       *)
(***************************************************************************)
EvaluatorInv == WorldInv /\ RequestInv

LEMMA RequestKept ==
  ASSUME EvaluatorInv, DefaultTypes, [NextStep]_vars
  PROVE  RequestInv'
<1>1. CASE Handle
  <2>1. CASE Request
    BY <2>1, RequestStep DEF EvaluatorInv
  <2>2. CASE ExtractionFails
    BY <2>2, ExtractionFailsStep DEF EvaluatorInv
  <2>3. CASE Authenticate
    BY <2>3, AuthenticateStep DEF EvaluatorInv
  <2>4. CASE ResolveIdentity
    BY <2>4, ResolveIdentityStep DEF EvaluatorInv
  <2>5. CASE Authorize
    BY <2>5, AuthorizeStep DEF EvaluatorInv
  <2>6. CASE Guard
    BY <2>6, GuardStep DEF EvaluatorInv
  <2>7. CASE Finish
    BY <2>7, IdleNext DEF Finish
  <2>8. CASE Unavailable
    BY <2>8, UnavailableStep DEF EvaluatorInv
  <2>9. CASE Raise
    BY <2>9, RaiseStep DEF EvaluatorInv
  <2>. QED BY <1>1, <2>1, <2>2, <2>3, <2>4, <2>5, <2>6, <2>7, <2>8, <2>9 DEF Handle
<1>2. CASE World \/ Flush
  <2>1. request' = request /\ hasResolver' = hasResolver /\ Track
    BY <1>2 DEF World, Flush
  <2>2. tokens \subseteq tokens'
    BY RingKept DEF EvaluatorInv, WorldInv
  <2>. QED BY <2>1, <2>2, WaitingStep DEF EvaluatorInv
<1>3. CASE UNCHANGED vars
  <2>1. request' = request /\ hasResolver' = hasResolver /\ tokens' = tokens /\ history' = history
    BY <1>3 DEF vars, worldVars, tokenVars
  <2>2. \A c : Credible(c) => Credible(c)'
    BY <2>1 DEF Credible
  <2>3. CredentialsOf(request)' = CredentialsOf(request)
    BY <2>1 DEF CredentialsOf
  <2>. QED BY <2>1, <2>2, <2>3 DEF EvaluatorInv, RequestInv
<1>. QED BY <1>1, <1>2, <1>3 DEF NextStep

LEMMA EvaluatorInitInv == Init => EvaluatorInv
<1>. SUFFICES ASSUME Init PROVE EvaluatorInv
  OBVIOUS
<1>1. KeysInv /\ UsesInv /\ BufferInv /\ RingInv /\ LogoutInv /\ BoundInv
  BY KeysInitInv, UsesInitInv, BufferInitInv, RingInitInv, LogoutInitInv, BoundInitInv
<1>2. RevokedPast
  BY NewKeyIsKept DEF Init, APIKeysInit, RevokedPast
<1>3. RequestInv
  BY IdleCredentials DEF Init, RequestInv
<1>. QED BY <1>1, <1>2, <1>3 DEF EvaluatorInv, WorldInv

LEMMA EvaluatorNextInv ==
  ASSUME DefaultTypes PROVE EvaluatorInv /\ [NextStep]_vars => EvaluatorInv'
<1>. SUFFICES ASSUME EvaluatorInv, [NextStep]_vars PROVE EvaluatorInv'
  OBVIOUS
<1>1. RequestInv'
  BY RequestKept
<1>2. KeysInv' /\ UsesInv' /\ RevokedPast' /\ BufferInv' /\ RingInv' /\ LogoutInv'
  BY KeysNextInv, UsesNextInv, RevokedPastKept, BufferKept, RingKept, LogoutKept DEF EvaluatorInv, WorldInv
<1>3. BoundInv'
  BY <1>1, BoundKept DEF EvaluatorInv, WorldInv, RequestInv
<1>. QED BY <1>1, <1>2, <1>3 DEF EvaluatorInv, WorldInv

LEMMA EvaluatorAlways == ASSUME DefaultTypes PROVE Spec => []EvaluatorInv
BY EvaluatorInitInv, EvaluatorNextInv, PTL DEF Spec

\* What is known of an answer.
LEMMA AnsweredIsConcluded ==
  ASSUME RequestInv
  PROVE  \/ request.phase = "done" /\ Concluded(hasResolver, tokens, request, history)
         \/ request.phase # "done" /\ request.answer = Unanswered
BY DEF RequestInv, Idle, Sound, Progress, InProgress, Described

\* Every state of the composition has its type.
LEMMA PipelineTyped == EvaluatorInv => TypeOK
<1>. SUFFICES ASSUME EvaluatorInv PROVE TypeOK
  OBVIOUS
<1>1. APIKeysTypeOK /\ now \in 0..MaxTime /\ events \in 0..MaxEvents
  BY PartiesAssumption DEF EvaluatorInv, WorldInv, KeysInv, BufferInv, BoundInv, APIKeysTypeOK
<1>2. /\ \A p \in Principals : authority[p] \in DOMAIN AuthorityOf[p]
      /\ \A t \in tokens : t.signer \in 1..ring.active /\ t.kid = t.signer
      /\ revoked \subseteq Sessions
  BY DEF EvaluatorInv, WorldInv, BoundInv, RingInv, LogoutInv, Issued
<1>3. CASE request = Idle
  BY <1>1, <1>2, <1>3 DEF Idle, TypeOK, Phases, Unanswered
<1>4. CASE Progress(request, history)
  <2>1. /\ request.phase \in InProgress /\ request.answer = Unanswered
        /\ request.phase \in {"authenticate", "resolve"} <=> request.todo # {}
        /\ request.principal \in Principals \cup {Anonymous}
    BY <1>4 DEF Progress, InProgress, Described, Authenticating, Identifying, AwaitingAuthority, Reaching
  <2>. QED BY <1>1, <1>2, <2>1 DEF TypeOK, Phases, InProgress, Unanswered
<1>5. CASE request.phase = "done" /\ Concluded(hasResolver, tokens, request, history)
  BY <1>1, <1>2, <1>5 DEF TypeOK, Phases, Unanswered, Concluded
<1>. QED BY <1>3, <1>4, <1>5 DEF EvaluatorInv, RequestInv, Sound

LEMMA ProvedHere == EvaluatorInv => AdmissionsAreProved
<1>. SUFFICES ASSUME EvaluatorInv, request.answer = 200 PROVE AdmissionsAreProved
  BY DEF AdmissionsAreProved, Admitted
<1>1. AdmissionProved(request, history)
  BY AnsweredIsConcluded DEF EvaluatorInv, Concluded, Unanswered
<1>. QED BY <1>1 DEF AdmissionProved, AdmissionsAreProved, Bad, AllAre, Met, Used, SlotsUsed, ExpectationMet

LEMMA DeservedHere == EvaluatorInv => RefusalsAreDeserved
<1>. SUFFICES ASSUME EvaluatorInv, request.phase = "done" PROVE RefusalsAreDeserved
  BY DEF RefusalsAreDeserved
<1>1. RefusalDeserved(hasResolver, request, history)
  BY AnsweredIsConcluded DEF EvaluatorInv, Concluded
<1>. QED BY <1>1
         DEF RefusalDeserved, RefusalsAreDeserved, Grounds, Blamed, Bad, Met, Used, SlotsUsed, ExpectationMet

LEMMA NarrowedHere == EvaluatorInv => AuthorityIsNarrowed
<1>. SUFFICES ASSUME EvaluatorInv, request.answer = 200 PROVE AuthorityIsNarrowed
  BY DEF AuthorityIsNarrowed, Admitted
<1>1. NarrowedFor(hasResolver, tokens, request, history)
  BY AnsweredIsConcluded DEF EvaluatorInv, Concluded, Unanswered
<1>2. Evaluated = EvaluatedOf(request) /\ BoundsSent = SentBy(request)
  BY DEF Evaluated, EvaluatedOf, BoundsSent, SentBy
<1>. QED BY <1>1, <1>2 DEF NarrowedFor, AuthorityIsNarrowed

LEMMA AssuredHere == EvaluatorInv => AssuranceIsCurrent
<1>. SUFFICES ASSUME EvaluatorInv, request.answer = 200 PROVE AssuranceIsCurrent
  BY DEF AssuranceIsCurrent, Admitted
<1>1. AssuredAt(request)
  BY AnsweredIsConcluded DEF EvaluatorInv, Concluded, Unanswered
<1>. QED BY <1>1 DEF AssuredAt, AssuranceIsCurrent

Protected(route) == IF route.websocket THEN Origins ELSE CSRFRequired(route) /\ CSRFConfigured

\* A route that a cookie alone satisfies has a plan that a cookie could satisfy.
LEMMA CookieRoutes ==
  ASSUME NEW r \in Started, ~Expect[r].open, NEW used \in SUBSET Slots, NEW M \in Expect[r].who, M \subseteq used,
         \A N \in Expect[r].who : N \subseteq used => "session" \in N
  PROVE  Protected(Route[r])
<1>. DEFINE plan == CompilePolicy(PolicyOf(Route[r]))
            others == used \ {"session"}
<1>1. Compiled[r] = plan
  BY DEF Compiled
<1>. HIDE DEF plan
<1>2. /\ plan.authenticate
      /\ \A S \in SUBSET Slots : (\E N \in Expect[r].who : N \subseteq S) <=> \E A \in plan.alternatives : A \subseteq S
  BY <1>1, PlanMeans
<1>3. PICK A \in plan.alternatives : A \subseteq used
  BY <1>2
<1>4. "session" \in A
  <2>. SUFFICES ASSUME "session" \notin A PROVE FALSE
    OBVIOUS
  <2>1. A \subseteq others /\ others \in SUBSET Slots
    BY <1>3
  <2>2. PICK N \in Expect[r].who : N \subseteq others
    BY <1>2, <2>1
  <2>. QED BY <2>2
<1>5. (UNION plan.alternatives) \cap SessionCapable # {}
  BY <1>3, <1>4, PartiesAssumption
<1>6. PolicyOf(Route[r]).kind # "exclude"
  BY <1>2 DEF CompilePolicy, Passive, plan
<1>7. CSRFRequired(Route[r])
  BY <1>5, <1>6 DEF CSRFRequired, plan
<1>8. Starts(Route[r])
  BY DEF Started
<1>. QED BY <1>5, <1>7, <1>8 DEF Starts, Protected, plan

LEMMA CoveredHere == EvaluatorInv => CookieAdmissionsAreCovered
<1>. SUFFICES ASSUME EvaluatorInv, request.answer = 200, request.connect = NoConnect, ~Expect[request.route].open,
                     SlotsUsed # {},
                     \A M \in Expect[request.route].who : M \subseteq SlotsUsed => "session" \in M
              PROVE  Protected(Route[request.route])
  BY DEF CookieAdmissionsAreCovered, Admitted, Protected
<1>1. request.route \in Started /\ AdmissionProved(request, history)
  BY AnsweredIsConcluded DEF EvaluatorInv, Concluded, Unanswered
<1>2. PICK M \in Expect[request.route].who : M \subseteq SlotsUsed
  BY <1>1 DEF AdmissionProved, Met, Used, SlotsUsed
<1>3. SlotsUsed \in SUBSET Slots
  BY DEF SlotsUsed
<1>. QED BY <1>1, <1>2, <1>3, CookieRoutes

\* Nobody is admitted on less than the route is meant to demand, whatever the
\* routes, the keys and the tokens are and whatever the world does while the
\* stores are asked: every credential of an admitted request was good and its
\* account standing at some time of the request, all name the principal the
\* handler sees, and they are a quorum (authentication.py:1128-1271).
THEOREM NobodyIsAdmittedOnLess == ASSUME DefaultTypes PROVE Spec => []AdmissionsAreSound
<1>1. EvaluatorInv => AdmissionsAreSound
  BY PipelineTyped, ProvedHere DEF AdmissionsAreSound
<1>. QED BY <1>1, EvaluatorAlways, PTL

\* Nobody is turned away for another reason than the answer says: 503 when,
\* and only when, something could not be asked, 401 and 403 only with grounds
\* in what was sent or in what was true meanwhile: a credential that is good
\* and standing throughout is never rejected (authentication.py:1212-1271).
THEOREM NobodyIsRefusedWithoutGrounds == ASSUME DefaultTypes PROVE Spec => []RefusalsAreDeserved
BY DeservedHere, EvaluatorAlways, PTL

\* What a handler may do is within one version of the principal's authority
\* during the request and within the bounds of every credential presented, and
\* the evidence its assurance asks for is live and young enough when its guard
\* decides (authentication.py:1176-1318, context.py:372-411, guards.py:100-190).
THEOREM NobodyMayDoMore == ASSUME DefaultTypes PROVE Spec => []AuthorityIsBounded
<1>1. EvaluatorInv => AuthorityIsBounded
  BY NarrowedHere, AssuredHere DEF AuthorityIsBounded
<1>. QED BY <1>1, EvaluatorAlways, PTL

\* What a cookie alone lets in meets CSRF protection or a checked origin, by
\* the plan compiled from the policy, whatever the policy (_openapi.py:520-610).
THEOREM CookiesAreCovered == ASSUME DefaultTypes PROVE Spec => []CookieAdmissionsAreCovered
BY CoveredHere, EvaluatorAlways, PTL
==============================================================================
