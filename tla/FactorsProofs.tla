--------------------------- MODULE FactorsProofs ---------------------------
(***************************************************************************)
(* What proves a factor counts once, and every factor is traced to a grant  *)
(* of its account: the invariant behind the safety properties of Factors,   *)
(* and its proof.                                                           *)
(***************************************************************************)
EXTENDS Factors, SequenceTheorems, TLAPS

\* A grant of an account for one change, an enrolment or registration of it.
GrantFor(g, purpose, a) ==
  /\ g \in DOMAIN issued
  /\ issued[g].kind = "grant" /\ issued[g].purpose = purpose /\ issued[g].account = a
CeremonyOf(s, kind, a) ==
  s \in DOMAIN issued /\ issued[s].kind = kind /\ issued[s].account = a

IssuedOK ==
  \A s \in DOMAIN issued :
    /\ issued[s].kind = "enrollment" => GrantFor(issued[s].via, "totp-enroll", issued[s].account)
    /\ issued[s].kind = "registration" =>
         /\ GrantFor(issued[s].via, "passkey-register", issued[s].account)
         /\ issued[issued[s].via].binding = issued[s].binding

MethodsOK ==
  \A m \in DOMAIN methods :
    methods[m].via # Nobody => CeremonyOf(methods[m].via, "enrollment", methods[m].account)
PasskeysOK ==
  \A c \in DOMAIN passkeys :
    passkeys[c].via # Nobody => CeremonyOf(passkeys[c].via, "registration", passkeys[c].account)
AccountsOK ==
  \A a \in Accounts :
    inventory[a] # {} /\ \A code \in codes[a].left : code[1] = codes[a].set

\* What a coroutine has found out and nothing undoes while it waits; at
\* "record", that its verdict on the counter stands as long as the version.
CoroutineOK(q) ==
  /\ q.at = "issue" \/ (q.at \in {"credential", "record"} /\ q.op = "step-up")
       => q.over \in Transports /\ q.purpose \in ManagedPurposes
  /\ q.at = "consume" => /\ q.over \in Transports /\ q.op \in ManagedPurposes
                         /\ q.secret \in DOMAIN issued /\ issued[q.secret].kind = "grant"
  /\ q.at = "perform" => /\ q.over \in Transports /\ GrantFor(q.secret, q.op, q.account)
                         /\ issued[q.secret].binding = q.over
  /\ q.at = "activate" => CeremonyOf(q.secret, "enrollment", q.account)
  /\ q.at = "advance" => q.factor \in DOMAIN methods
  /\ q.at = "attest" => CeremonyOf(q.secret, "registration", q.account)
  /\ q.at = "record" =>
       /\ q.factor \in DOMAIN passkeys /\ q.n \in 0..MaxCount
       /\ q.version <= passkeys[q.factor].version
       /\ q.version = passkeys[q.factor].version => q.clone = CloneRisk(passkeys[q.factor], q.n)

\* One acceptance, as the history tells it: what was accepted is not to be
\* had again.
UseOK(x) ==
  /\ x[1] \in {"grant", "enrollment", "challenge"} =>
       spent[x] = 1 /\ x[2] \in DOMAIN issued /\ x[2] \notin open
  /\ x[1] = "totp" =>
       spent[x] = 1 /\ x[2] \in DOMAIN methods /\ x[3] \in Int /\ x[3] <= methods[x[2]].last
  /\ x[1] = "recovery" =>
       /\ spent[x] = 1 /\ x[2] \in Accounts /\ x[3] \notin codes[x[2]].left
       /\ x[3][1] \in Nat /\ x[3][1] <= codes[x[2]].set
  /\ x[1] = "credential" => spent[x] = 1 /\ x[2] \in DOMAIN passkeys
  /\ x[1] = "count" =>
       /\ x[2] \in DOMAIN passkeys /\ x[3] \in Nat /\ x[3] <= passkeys[x[2]].count
       /\ RejectClones /\ x[3] > 0 => spent[x] = 1

FactorsInv ==
  /\ TypeOK /\ IssuedOK /\ MethodsOK /\ PasskeysOK /\ AccountsOK
  /\ \A r \in Requests : CoroutineOK(request[r])
  /\ \A x \in DOMAIN spent : UseOK(x)

-----------------------------------------------------------------------------
(* Lemmas about bags, sequences and coroutines. *)

\* Bag C is B and the set S: what S adds for the first time is there once.
GainsOnce(B, S, C) ==
  /\ IsABag(C) /\ DOMAIN C = DOMAIN B \cup S
  /\ \A x \in DOMAIN B : x \notin S => C[x] = B[x]
  /\ \A x \in S : x \notin DOMAIN B => C[x] = 1

LEMMA BagPlus ==
  ASSUME NEW B, IsABag(B), NEW S, NEW C, C = B (+) SetToBag(S)
  PROVE  GainsOnce(B, S, C)
<1>1. C = [e \in DOMAIN B \cup S |-> (IF e \in DOMAIN B THEN B[e] ELSE 0)
                                     + (IF e \in S THEN 1 ELSE 0)]
  BY DEF (+), SetToBag
<1>2. \A x \in DOMAIN B : B[x] \in Nat /\ B[x] > 0
  BY DEF IsABag
<1>3. \A x \in DOMAIN B : (x \notin S => C[x] = B[x]) /\ C[x] \in Nat /\ C[x] > 0
  BY <1>1, <1>2
<1>4. \A x \in S : x \notin DOMAIN B => C[x] = 1
  BY <1>1
<1>5. DOMAIN C = DOMAIN B \cup S /\ C = [x \in DOMAIN C |-> C[x]]
  BY <1>1
<1>6. IsABag(C)
  BY <1>3, <1>4, <1>5 DEF IsABag
<1>. QED BY <1>3, <1>4, <1>5, <1>6 DEF GainsOnce

LEMMA SeqFacts ==
  ASSUME NEW S, NEW s \in Seq(S)
  PROVE  /\ Len(s) \in Nat /\ DOMAIN s = 1..Len(s) /\ 0 \notin DOMAIN s
         /\ \A i \in DOMAIN s : s[i] \in S
BY LenProperties, ElementOfSeq

LEMMA Appended ==
  ASSUME NEW S, NEW s \in Seq(S), NEW e \in S, NEW t, t = Append(s, e)
  PROVE  /\ t \in Seq(S) /\ Len(t) = Len(s) + 1
         /\ DOMAIN t = DOMAIN s \cup {Len(s) + 1} /\ Len(s) + 1 \notin DOMAIN s
         /\ \A i \in DOMAIN s : t[i] = s[i]
         /\ t[Len(s) + 1] = e
<1>1. Len(s) \in Nat /\ DOMAIN s = 1..Len(s)
  BY SeqFacts
<1>2. t \in Seq(S) /\ Len(t) = Len(s) + 1 /\ (\A i \in 1..Len(s) : t[i] = s[i])
      /\ t[Len(s) + 1] = e
  BY AppendProperties
<1>3. DOMAIN t = 1..(Len(s) + 1)
  BY <1>2, LenProperties
<1>. QED BY <1>1, <1>2, <1>3

LEMMA Replaced ==
  ASSUME NEW S, NEW s \in Seq(S), NEW i \in DOMAIN s, NEW e \in S, NEW t, t = [s EXCEPT ![i] = e]
  PROVE  /\ t \in Seq(S) /\ Len(t) = Len(s) /\ DOMAIN t = DOMAIN s
         /\ \A j \in DOMAIN s : t[j] = IF j = i THEN e ELSE s[j]
<1>1. Len(s) \in Nat /\ DOMAIN s = 1..Len(s)
  BY SeqFacts
<1>2. t \in Seq(S) /\ Len(t) = Len(s) /\ \A j \in 1..Len(s) : t[j] = IF j = i THEN e ELSE s[j]
  BY <1>1, ExceptSeq
<1>. QED BY <1>1, <1>2

\* The lengths, indices and elements of the three tables.
LEMMA Tables ==
  ASSUME TypeOK
  PROVE  /\ Len(issued) \in Nat /\ DOMAIN issued = 1..Len(issued) /\ DOMAIN issued \subseteq 1..MaxIssued
         /\ \A s \in DOMAIN issued : issued[s] \in Secret
         /\ Len(methods) \in Nat /\ DOMAIN methods = 1..Len(methods) /\ DOMAIN methods \subseteq 1..MaxFactors
         /\ \A m \in DOMAIN methods : methods[m] \in TOTPMethod
         /\ Len(passkeys) \in Nat /\ DOMAIN passkeys = 1..Len(passkeys)
         /\ DOMAIN passkeys \subseteq 1..MaxFactors
         /\ \A c \in DOMAIN passkeys : passkeys[c] \in PasskeyCredential
<1>1. MaxIssued \in Nat /\ MaxFactors \in Nat
  BY BoundsAssumption
<1>2. Len(issued) \in Nat /\ DOMAIN issued = 1..Len(issued)
      /\ \A s \in DOMAIN issued : issued[s] \in Secret
  BY SeqFacts DEF TypeOK
<1>3. Len(methods) \in Nat /\ DOMAIN methods = 1..Len(methods)
      /\ \A m \in DOMAIN methods : methods[m] \in TOTPMethod
  BY SeqFacts DEF TypeOK
<1>4. Len(passkeys) \in Nat /\ DOMAIN passkeys = 1..Len(passkeys)
      /\ \A c \in DOMAIN passkeys : passkeys[c] \in PasskeyCredential
  BY SeqFacts DEF TypeOK
<1>. QED BY <1>1, <1>2, <1>3, <1>4 DEF TypeOK

LEMMA IdleOK == Idle \in Coroutine /\ CoroutineOK(Idle)
<1>1. Veteran \in Accounts
  BY ConfigurationAssumption DEF MFARoutes
<1>. QED BY <1>1, BoundsAssumption DEF Idle, Points, Operations, Coroutine, CoroutineOK, Nobody

\* What was issued stays issued and is not held again; counters, versions and
\* sets only grow, and a credential of the same version is the same.
Grows ==
  /\ \A s \in DOMAIN issued : s \in DOMAIN issued' /\ issued'[s] = issued[s]
                              /\ (s \notin open => s \notin open')
  /\ \A m \in DOMAIN methods : m \in DOMAIN methods' /\ methods'[m].last >= methods[m].last
  /\ \A c \in DOMAIN passkeys :
       /\ c \in DOMAIN passkeys' /\ passkeys'[c].count >= passkeys[c].count
       /\ passkeys'[c].version >= passkeys[c].version
       /\ passkeys'[c].version = passkeys[c].version => passkeys'[c] = passkeys[c]
  /\ \A a \in Accounts :
       /\ codes'[a].set >= codes[a].set
       /\ \A code \in codes'[a].left : code \in codes[a].left \/ code[1] > codes[a].set

LEMMA CoroutinesKept ==
  ASSUME TypeOK, TypeOK', Grows, NEW q \in Coroutine, CoroutineOK(q)
  PROVE  CoroutineOK(q)'
<1>1. \A s \in DOMAIN issued : s \in DOMAIN issued' /\ issued'[s] = issued[s]
  BY DEF Grows
<1>2. q.at = "consume" => q.secret \in DOMAIN issued' /\ issued'[q.secret].kind = "grant"
  BY <1>1 DEF CoroutineOK
<1>3. q.at = "perform" => GrantFor(q.secret, q.op, q.account)' /\ issued'[q.secret].binding = q.over
  BY <1>1 DEF CoroutineOK, GrantFor
<1>4. /\ q.at = "activate" => CeremonyOf(q.secret, "enrollment", q.account)'
      /\ q.at = "attest" => CeremonyOf(q.secret, "registration", q.account)'
  BY <1>1 DEF CoroutineOK, CeremonyOf
<1>5. q.at = "advance" => q.factor \in DOMAIN methods'
  BY DEF CoroutineOK, Grows
<1>6. ASSUME q.at = "record"
      PROVE  /\ q.factor \in DOMAIN passkeys' /\ q.n \in 0..MaxCount
             /\ q.version <= passkeys'[q.factor].version
             /\ q.version = passkeys'[q.factor].version
                  => q.clone = CloneRisk(passkeys'[q.factor], q.n)
  <2>1. /\ q.factor \in DOMAIN passkeys /\ q.n \in 0..MaxCount
        /\ q.version <= passkeys[q.factor].version
        /\ q.version = passkeys[q.factor].version => q.clone = CloneRisk(passkeys[q.factor], q.n)
    BY <1>6 DEF CoroutineOK
  <2>2. passkeys[q.factor].version \in Int /\ q.version \in Int
    BY <2>1, Tables, BoundsAssumption DEF PasskeyCredential, Coroutine
  <2>3. q.factor \in DOMAIN passkeys' /\ passkeys'[q.factor].version \in Int
    <3>1. passkeys' \in Seq(PasskeyCredential) /\ q.factor \in DOMAIN passkeys'
      BY <2>1 DEF Grows, TypeOK
    <3>2. passkeys'[q.factor] \in PasskeyCredential
      BY <3>1, SeqFacts
    <3>. QED BY <3>1, <3>2, BoundsAssumption, SMTT(60) DEF PasskeyCredential
  <2>. QED BY <2>1, <2>2, <2>3 DEF Grows
<1>. QED BY <1>2, <1>3, <1>4, <1>5, <1>6 DEF CoroutineOK

LEMMA UsesKept ==
  ASSUME TypeOK, TypeOK', Grows, NEW x \in DOMAIN spent, UseOK(x), spent'[x] = spent[x]
  PROVE  UseOK(x)'
<1>1. x[1] \in {"grant", "enrollment", "challenge"} =>
        spent'[x] = 1 /\ x[2] \in DOMAIN issued' /\ x[2] \notin open'
  BY DEF UseOK, Grows
<1>2. ASSUME x[1] = "totp"
      PROVE  spent'[x] = 1 /\ x[2] \in DOMAIN methods' /\ x[3] \in Int /\ x[3] <= methods'[x[2]].last
  <2>1. spent[x] = 1 /\ x[2] \in DOMAIN methods /\ x[3] \in Int /\ x[3] <= methods[x[2]].last
    BY <1>2 DEF UseOK
  <2>2. methods[x[2]].last \in Int
    BY <2>1, Tables DEF TOTPMethod
  <2>3. methods' \in Seq(TOTPMethod) /\ x[2] \in DOMAIN methods' /\ methods'[x[2]].last >= methods[x[2]].last
    BY <2>1 DEF TypeOK, Grows
  <2>4. methods'[x[2]].last \in Int
    <3>1. methods'[x[2]] \in TOTPMethod
      BY <2>3, SeqFacts
    <3>. QED BY <3>1 DEF TOTPMethod
  <2>. QED BY <2>1, <2>2, <2>3, <2>4
<1>3. ASSUME x[1] = "recovery"
      PROVE  /\ spent'[x] = 1 /\ x[2] \in Accounts /\ x[3] \notin codes'[x[2]].left
             /\ x[3][1] \in Nat /\ x[3][1] <= codes'[x[2]].set
  <2>1. /\ spent[x] = 1 /\ x[2] \in Accounts /\ x[3] \notin codes[x[2]].left
        /\ x[3][1] \in Nat /\ x[3][1] <= codes[x[2]].set
    BY <1>3 DEF UseOK
  <2>2. codes[x[2]].set \in Nat /\ codes'[x[2]].set \in Nat
    BY <2>1, BoundsAssumption, SMTT(60) DEF TypeOK
  <2>3. /\ codes'[x[2]].set >= codes[x[2]].set
        /\ \A code \in codes'[x[2]].left : code \in codes[x[2]].left \/ code[1] > codes[x[2]].set
    BY <2>1 DEF Grows
  <2>. QED BY <2>1, <2>2, <2>3
<1>4. x[1] = "credential" => spent'[x] = 1 /\ x[2] \in DOMAIN passkeys'
  BY DEF UseOK, Grows
<1>5. ASSUME x[1] = "count"
      PROVE  /\ x[2] \in DOMAIN passkeys' /\ x[3] \in Nat /\ x[3] <= passkeys'[x[2]].count
             /\ RejectClones /\ x[3] > 0 => spent'[x] = 1
  <2>1. /\ x[2] \in DOMAIN passkeys /\ x[3] \in Nat /\ x[3] <= passkeys[x[2]].count
        /\ RejectClones /\ x[3] > 0 => spent[x] = 1
    BY <1>5 DEF UseOK
  <2>2. passkeys[x[2]].count \in Int
    BY <2>1, Tables, BoundsAssumption DEF PasskeyCredential
  <2>3. /\ passkeys' \in Seq(PasskeyCredential) /\ x[2] \in DOMAIN passkeys'
        /\ passkeys'[x[2]].count >= passkeys[x[2]].count
    BY <2>1 DEF TypeOK, Grows
  <2>4. passkeys'[x[2]].count \in Int
    <3>1. passkeys'[x[2]] \in PasskeyCredential
      BY <2>3, SeqFacts
    <3>. QED BY <3>1, BoundsAssumption DEF PasskeyCredential
  <2>. QED BY <2>1, <2>2, <2>3, <2>4
<1>. QED BY <1>1, <1>2, <1>3, <1>4, <1>5 DEF UseOK

\* One coroutine at most moves, into a state it may be in.
OneMoves ==
  \/ UNCHANGED request
  \/ \E r \in Requests, q \in Coroutine :
       request' = [request EXCEPT ![r] = q] /\ CoroutineOK(q)'

LEMMA MoveTyped ==
  ASSUME request \in [Requests -> Coroutine], OneMoves
  PROVE  request' \in [Requests -> Coroutine]
BY DEF OneMoves

LEMMA AllCoroutines ==
  ASSUME FactorsInv, TypeOK', Grows, OneMoves
  PROVE  \A r \in Requests : CoroutineOK(request[r])'
<1>. SUFFICES ASSUME NEW r \in Requests PROVE CoroutineOK(request[r])'
  OBVIOUS
<1>1. CASE request'[r] = request[r]
  BY <1>1, CoroutinesKept DEF FactorsInv, TypeOK
<1>2. CASE request'[r] # request[r]
  <2>1. PICK s \in Requests, q \in Coroutine :
          request' = [request EXCEPT ![s] = q] /\ CoroutineOK(q)'
    BY <1>2 DEF OneMoves
  <2>2. s = r /\ request'[r] = q
    BY <1>2, <2>1 DEF FactorsInv, TypeOK
  <2>. QED BY <2>1, <2>2
<1>. QED BY <1>1, <1>2

\* A secret of the tables is what it was, so what is traced to it is still.
LEMMA TracesKept ==
  ASSUME Grows, NEW s, NEW k, NEW a
  PROVE  /\ GrantFor(s, k, a) => GrantFor(s, k, a)'
         /\ CeremonyOf(s, k, a) => CeremonyOf(s, k, a)'
BY DEF Grows, GrantFor, CeremonyOf

\* Nothing is undone by a step that leaves the tables alone.
LEMMA StableGrows ==
  ASSUME TypeOK, UNCHANGED <<issued, methods, passkeys, codes>>,
         \A s \in DOMAIN issued : s \notin open => s \notin open'
  PROVE  Grows
<1>1. \A m \in DOMAIN methods : methods[m].last \in Int
  BY Tables DEF TOTPMethod
<1>2. \A c \in DOMAIN passkeys : passkeys[c].count \in Int /\ passkeys[c].version \in Int
  BY Tables, BoundsAssumption DEF PasskeyCredential
<1>3. \A a \in Accounts : codes[a].set \in Int
  BY BoundsAssumption DEF TypeOK
<1>. QED BY <1>1, <1>2, <1>3 DEF Grows

\* Most steps only move a coroutine, and the clock or an epoch.
LEMMA OnlyMoves ==
  ASSUME FactorsInv, UNCHANGED <<issued, open, methods, codes, passkeys, inventory, spent>>,
         now' \in 0..MaxTime, epoch' \in [Accounts -> 1..MaxEpoch],
         begun' \in 0..MaxRequests, OneMoves
  PROVE  FactorsInv'
<1>1. TypeOK'
  BY MoveTyped DEF FactorsInv, TypeOK
<1>2. \A r \in Requests : CoroutineOK(request[r])'
  BY <1>1, StableGrows, AllCoroutines DEF FactorsInv
<1>3. IssuedOK' /\ MethodsOK' /\ PasskeysOK' /\ AccountsOK'
  BY DEF FactorsInv, IssuedOK, MethodsOK, PasskeysOK, AccountsOK, GrantFor, CeremonyOf
<1>4. \A x \in DOMAIN spent' : UseOK(x)'
  BY DEF FactorsInv, UseOK
<1>. QED BY <1>1, <1>2, <1>3, <1>4 DEF FactorsInv

\* A coroutine that ends, and one that goes on.
LEMMA GoesOn ==
  ASSUME NEW r \in Requests, NEW q \in Coroutine, Continue(r, q) \/ Begin(r, q), CoroutineOK(q)',
         begun \in 0..MaxRequests
  PROVE  OneMoves /\ begun' \in 0..MaxRequests
BY BoundsAssumption DEF OneMoves, Continue, Begin

LEMMA Ends ==
  ASSUME NEW r \in Requests, End(r) \/ Begin(r, Idle), TypeOK
  PROVE  OneMoves /\ begun' \in 0..MaxRequests
<1>1. CoroutineOK(Idle)'
  BY IdleOK DEF CoroutineOK, Idle
<1>. QED BY <1>1, IdleOK, GoesOn DEF End, TypeOK

\* What is accepted for the first time is there once.
LEMMA AcceptedCount ==
  ASSUME IsABag(spent), NEW S, Accept(S)
  PROVE  /\ IsABag(spent') /\ DOMAIN spent' = DOMAIN spent \cup S
         /\ \A x \in DOMAIN spent : x \notin S => spent'[x] = spent[x]
         /\ \A x \in S : x \notin DOMAIN spent => spent'[x] = 1
<1>1. spent' = spent (+) SetToBag(S)
  BY DEF Accept
<1>2. GainsOnce(spent, S, spent')
  BY <1>1, BagPlus
<1>. QED BY <1>2 DEF GainsOnce

\* The history gains acceptances that are what they ought to be, or nothing.
UsesMove == UNCHANGED spent \/ \E S : Accept(S) /\ \A x \in S : UseOK(x)'

LEMMA UsesTyped == ASSUME IsABag(spent), UsesMove PROVE IsABag(spent')
BY AcceptedCount DEF UsesMove

LEMMA AllUses ==
  ASSUME FactorsInv, TypeOK', Grows, UsesMove
  PROVE  \A x \in DOMAIN spent' : UseOK(x)'
<1>. SUFFICES ASSUME NEW x \in DOMAIN spent' PROVE UseOK(x)'
  OBVIOUS
<1>1. CASE x \in DOMAIN spent /\ spent'[x] = spent[x]
  BY <1>1, UsesKept DEF FactorsInv
<1>2. CASE ~(x \in DOMAIN spent /\ spent'[x] = spent[x])
  <2>1. PICK S : Accept(S) /\ \A y \in S : UseOK(y)'
    BY <1>2 DEF UsesMove
  <2>2. x \in S
    BY <1>2, <2>1, AcceptedCount DEF FactorsInv, TypeOK
  <2>. QED BY <2>1, <2>2
<1>. QED BY <1>1, <1>2

-----------------------------------------------------------------------------
(* Steps on the secrets. *)

LEMMA IssueMoves ==
  ASSUME FactorsInv, NEW e \in Secret, Issue(e),
         e.kind = "enrollment" => GrantFor(e.via, "totp-enroll", e.account),
         e.kind = "registration" => /\ GrantFor(e.via, "passkey-register", e.account)
                                    /\ issued[e.via].binding = e.binding,
         UNCHANGED <<now, epoch, methods, codes, passkeys, inventory, spent>>,
         begun' \in 0..MaxRequests, OneMoves
  PROVE  FactorsInv'
<1>. USE DEF FactorsInv
<1>1. issued \in Seq(Secret) /\ Len(issued) < MaxIssued /\ open \subseteq DOMAIN issued
      /\ MaxIssued \in Nat /\ Len(issued) \in Nat
  BY Tables, BoundsAssumption DEF TypeOK, Issue
<1>2. /\ issued' \in Seq(Secret) /\ Len(issued') = Len(issued) + 1
      /\ DOMAIN issued' = DOMAIN issued \cup {Len(issued) + 1} /\ Len(issued) + 1 \notin DOMAIN issued
      /\ \A s \in DOMAIN issued : issued'[s] = issued[s]
      /\ issued'[Len(issued) + 1] = e
  <2>1. issued' = Append(issued, e)
    BY DEF Issue
  <2>. QED BY <1>1, <2>1, Appended
<1>3. open' = open \cup {Len(issued) + 1}
  BY DEF Issue
<1>4. TypeOK'
  BY <1>1, <1>2, <1>3, MoveTyped DEF TypeOK
<1>5. \A s \in DOMAIN issued : s \in DOMAIN issued' /\ issued'[s] = issued[s]
                               /\ (s \notin open => s \notin open')
  BY <1>2, <1>3
<1>6. Grows
  <2>1. \A m \in DOMAIN methods : methods[m].last \in Int
    BY Tables DEF TOTPMethod
  <2>2. \A c \in DOMAIN passkeys : passkeys[c].count \in Int /\ passkeys[c].version \in Int
    BY Tables, BoundsAssumption DEF PasskeyCredential
  <2>3. \A a \in Accounts : codes[a].set \in Int
    BY BoundsAssumption DEF TypeOK
  <2>. QED BY <1>5, <2>1, <2>2, <2>3 DEF Grows
<1>7. IssuedOK'
  <2>. SUFFICES ASSUME NEW s \in DOMAIN issued'
                PROVE  /\ issued'[s].kind = "enrollment"
                            => GrantFor(issued[s].via, "totp-enroll", issued[s].account)'
                       /\ issued'[s].kind = "registration" =>
                            /\ GrantFor(issued[s].via, "passkey-register", issued[s].account)'
                            /\ issued'[issued'[s].via].binding = issued'[s].binding
    BY DEF IssuedOK
  <2>1. CASE s \in DOMAIN issued
    BY <1>5, <2>1 DEF IssuedOK, GrantFor
  <2>2. CASE s = Len(issued) + 1
    BY <1>2, <1>5, <2>2 DEF GrantFor
  <2>. QED BY <1>2, <2>1, <2>2
<1>8. MethodsOK' /\ PasskeysOK' /\ AccountsOK'
  BY <1>5 DEF MethodsOK, PasskeysOK, AccountsOK, CeremonyOf
<1>9. (\A r \in Requests : CoroutineOK(request[r])') /\ \A x \in DOMAIN spent' : UseOK(x)'
  BY <1>4, <1>6, AllCoroutines, AllUses DEF UsesMove
<1>. QED BY <1>4, <1>7, <1>8, <1>9

\* Secrets leave the store, and what they proved is written down.
LEMMA SecretsBurn ==
  ASSUME FactorsInv, UNCHANGED <<now, epoch, issued, methods, codes, passkeys, inventory>>,
         open' \subseteq open, UsesMove, OneMoves, begun' \in 0..MaxRequests
  PROVE  FactorsInv'
<1>. USE DEF FactorsInv
<1>1. TypeOK'
  BY MoveTyped, UsesTyped DEF TypeOK
<1>2. Grows
  BY StableGrows
<1>3. IssuedOK' /\ MethodsOK' /\ PasskeysOK' /\ AccountsOK'
  BY DEF IssuedOK, MethodsOK, PasskeysOK, AccountsOK, GrantFor, CeremonyOf
<1>. QED BY <1>1, <1>2, <1>3, AllCoroutines, AllUses

\* A held secret of any kind is accepted for the first time.
LEMMA SecretIsNew ==
  ASSUME FactorsInv, NEW kind \in {"grant", "enrollment", "challenge"}, NEW s \in open,
         Accept({<<kind, s>>}), DOMAIN issued' = DOMAIN issued, open' = open \ {s}
  PROVE  UsesMove
<1>1. <<kind, s>> \notin DOMAIN spent
  BY DEF FactorsInv, UseOK
<1>2. spent'[<<kind, s>>] = 1
  BY <1>1, AcceptedCount DEF FactorsInv, TypeOK
<1>3. s \in DOMAIN issued
  BY DEF FactorsInv, TypeOK
<1>4. UseOK(<<kind, s>>)'
  BY <1>2, <1>3 DEF UseOK
<1>. QED BY <1>4 DEF UsesMove

LEMMA IssueGrantStep ==
  ASSUME FactorsInv, NEW r \in Requests, IssueGrant(r)
  PROVE  FactorsInv'
<1>. DEFINE q == request[r]
            e == [kind |-> "grant", account |-> q.account, binding |-> q.over,
                  purpose |-> q.purpose, epoch |-> epoch[q.account],
                  expires |-> now + Lifetime, via |-> Nobody]
<1>1. q \in Coroutine /\ CoroutineOK(q) /\ q.at = "issue"
  BY DEF FactorsInv, TypeOK, IssueGrant, At
<1>2. q.account \in Accounts /\ q.over \in Transports /\ q.purpose \in ManagedPurposes
  BY <1>1 DEF Coroutine, CoroutineOK
<1>3. epoch[q.account] \in 1..MaxEpoch /\ now + Lifetime \in Expiry
  BY <1>2, ConfigurationAssumption, BoundsAssumption DEF FactorsInv, TypeOK, Expiry, StepUpService
<1>4. e \in Secret
  BY <1>2, <1>3 DEF Secret, StepUpGrantState
<1>5. Issue(e) /\ UNCHANGED <<now, epoch, methods, codes, passkeys, inventory, spent>> /\ e.kind = "grant"
  BY DEF IssueGrant, world, factors
<1>6. OneMoves /\ begun' \in 0..MaxRequests
  BY Ends DEF IssueGrant, FactorsInv
<1>. HIDE DEF e
<1>. QED BY <1>4, <1>5, <1>6, IssueMoves

LEMMA ConsumeGrantStep ==
  ASSUME FactorsInv, NEW r \in Requests, ConsumeGrant(r)
  PROVE  FactorsInv'
<1>. DEFINE q == request[r]
<1>1. q \in Coroutine /\ CoroutineOK(q) /\ q.at = "consume" /\ begun \in 0..MaxRequests
  BY DEF FactorsInv, TypeOK, ConsumeGrant, At
<1>2. /\ UNCHANGED <<now, epoch, issued, methods, codes, passkeys, inventory>>
      /\ open' = open \ {q.secret}
  BY DEF ConsumeGrant, world, factors
<1>3. CASE q.secret \in open /\ GrantMatches(q, q.secret)
  <2>1. Continue(r, [q EXCEPT !.at = "perform"]) /\ Accept({<<"grant", q.secret>>})
    BY <1>3 DEF ConsumeGrant
  <2>2. PICK p : p = [q EXCEPT !.at = "perform"]
    OBVIOUS
  <2>3. p \in Coroutine /\ p.at = "perform" /\ p.op = q.op /\ p.account = q.account
        /\ p.over = q.over /\ p.secret = q.secret
    BY <1>1, <2>2 DEF Coroutine, Points
  <2>4. CoroutineOK(p)'
    BY <1>1, <1>2, <1>3, <2>3 DEF CoroutineOK, GrantFor, GrantMatches
  <2>5. OneMoves /\ begun' \in 0..MaxRequests
    BY <1>1, <2>1, <2>2, <2>3, <2>4, GoesOn
  <2>6. UsesMove
    BY <1>2, <1>3, <2>1, SecretIsNew
  <2>. QED BY <1>2, <2>5, <2>6, SecretsBurn
<1>4. CASE ~(q.secret \in open /\ GrantMatches(q, q.secret))
  <2>1. OneMoves /\ begun' \in 0..MaxRequests /\ UsesMove
    BY <1>4, Ends DEF ConsumeGrant, FactorsInv, UsesMove
  <2>. QED BY <1>2, <2>1, SecretsBurn
<1>. QED BY <1>3, <1>4

LEMMA EnrollStep ==
  ASSUME FactorsInv, NEW r \in Requests, Enroll(r)
  PROVE  FactorsInv'
<1>. DEFINE q == request[r]
            e == [kind |-> "enrollment", account |-> q.account,
                  expires |-> now + Lifetime, via |-> q.secret]
<1>1. q \in Coroutine /\ CoroutineOK(q) /\ q.at = "perform" /\ q.op = "totp-enroll"
  BY DEF FactorsInv, TypeOK, Enroll, At
<1>2. q.account \in Accounts /\ GrantFor(q.secret, "totp-enroll", q.account)
  BY <1>1 DEF Coroutine, CoroutineOK
<1>3. q.secret \in 1..MaxIssued /\ now + Lifetime \in Expiry
  <2>1. q.secret \in 1..MaxIssued
    BY <1>2, Tables DEF FactorsInv, GrantFor
  <2>2. now + Lifetime \in Expiry
    BY ConfigurationAssumption, BoundsAssumption DEF FactorsInv, TypeOK, Expiry, TOTPPolicy
  <2>. QED BY <2>1, <2>2
<1>4. e \in Secret
  BY <1>2, <1>3 DEF Secret, PendingTOTPEnrollment
<1>5. /\ Issue(e) /\ UNCHANGED <<now, epoch, methods, codes, passkeys, inventory, spent>>
      /\ e.kind = "enrollment" /\ GrantFor(e.via, "totp-enroll", e.account)
  BY <1>2 DEF Enroll, world, factors
<1>6. OneMoves /\ begun' \in 0..MaxRequests
  BY Ends DEF Enroll, FactorsInv
<1>. HIDE DEF e
<1>. QED BY <1>4, <1>5, <1>6, IssueMoves

LEMMA BeginRegistrationStep ==
  ASSUME FactorsInv, NEW r \in Requests, BeginRegistration(r)
  PROVE  FactorsInv'
<1>. DEFINE q == request[r]
            e == Challenge("registration", q.account, q.over, q.secret)
<1>1. q \in Coroutine /\ CoroutineOK(q) /\ q.at = "perform" /\ q.op = "passkey-register"
  BY DEF FactorsInv, TypeOK, BeginRegistration, At
<1>2. /\ q.account \in Accounts /\ q.over \in Transports
      /\ GrantFor(q.secret, "passkey-register", q.account) /\ issued[q.secret].binding = q.over
  BY <1>1 DEF Coroutine, CoroutineOK
<1>3. q.secret \in 0..MaxIssued /\ now + Lifetime \in Expiry
  BY <1>1, ConfigurationAssumption, BoundsAssumption, SMTT(60)
     DEF FactorsInv, TypeOK, Expiry, PasskeyService, Coroutine
<1>4. e \in Secret /\ e.kind = "registration" /\ e.via = q.secret /\ e.account = q.account
      /\ e.binding = q.over
  BY <1>2, <1>3 DEF Secret, WebAuthnChallenge, Challenge
<1>5. Issue(e) /\ UNCHANGED <<now, epoch, methods, codes, passkeys, inventory, spent>>
  BY DEF BeginRegistration, world, factors
<1>6. OneMoves /\ begun' \in 0..MaxRequests
  BY Ends DEF BeginRegistration, FactorsInv
<1>7. PICK c : c = e
  OBVIOUS
<1>. HIDE DEF e
<1>. QED BY <1>2, <1>4, <1>5, <1>6, <1>7, IssueMoves

LEMMA BeginAuthenticationStep ==
  ASSUME FactorsInv, NEW a \in Accounts, BeginAuthentication(a)
  PROVE  FactorsInv'
<1>. DEFINE e == Challenge("authentication", a, FreshBinding, Nobody)
<1>1. now + Lifetime \in Expiry /\ Nobody \in 0..MaxIssued
  BY ConfigurationAssumption, BoundsAssumption
     DEF FactorsInv, TypeOK, Expiry, PasskeyService, Nobody
<1>2. e \in Secret /\ e.kind = "authentication"
  BY <1>1 DEF Secret, WebAuthnChallenge, Challenge
<1>3. Issue(e) /\ UNCHANGED <<now, epoch, methods, codes, passkeys, inventory, spent>>
  BY DEF BeginAuthentication, world, factors
<1>4. OneMoves /\ begun' \in 0..MaxRequests
  BY BoundsAssumption DEF BeginAuthentication, Once, OneMoves, FactorsInv, TypeOK
<1>. HIDE DEF e
<1>. QED BY <1>2, <1>3, <1>4, IssueMoves

-----------------------------------------------------------------------------
(* Steps that begin a request or read a factor. *)

\* What a coroutine knows depends on what was issued and on the factors only.
LEMMA StillOK ==
  ASSUME NEW q, CoroutineOK(q), UNCHANGED <<issued, methods, passkeys>>
  PROVE  CoroutineOK(q)'
BY DEF CoroutineOK, GrantFor, CeremonyOf

LEMMA MovesOn ==
  ASSUME FactorsInv, NEW r \in Requests, NEW q \in Coroutine, CoroutineOK(q),
         Begin(r, q) \/ Continue(r, q), UNCHANGED <<world, secrets, factors, spent>>
  PROVE  FactorsInv'
<1>1. UNCHANGED <<now, epoch, issued, open, methods, codes, passkeys, inventory, spent>>
  BY DEF world, secrets, factors
<1>2. CoroutineOK(q)'
  BY <1>1, StillOK
<1>3. OneMoves /\ begun' \in 0..MaxRequests
  BY <1>2, GoesOn DEF FactorsInv, TypeOK
<1>. QED BY <1>1, <1>3, OnlyMoves DEF FactorsInv, TypeOK

LEMMA OwnerOK == ASSUME NEW t \in Transports PROVE Owner[t] \in Accounts
BY ConfigurationAssumption DEF MFARoutes

LEMMA StepUpWithPasswordStep ==
  ASSUME FactorsInv, NEW r \in Requests, NEW t \in Transports, NEW p \in Purposes,
         StepUpWithPassword(r, t, p)
  PROVE  FactorsInv'
<1>1. PICK q : q = [Idle EXCEPT !.at = "issue", !.op = "step-up", !.over = t,
                                !.account = Owner[t], !.purpose = p, !.since = now]
  OBVIOUS
<1>2. p \in ManagedPurposes /\ now \in 0..MaxTime
  BY ConfigurationAssumption DEF MFARoutes, FactorsInv, TypeOK
<1>3. q \in Coroutine /\ q.at = "issue" /\ q.over = t /\ q.purpose = p
  BY <1>1, <1>2, IdleOK, OwnerOK DEF Coroutine, Points, Operations
<1>4. CoroutineOK(q)
  BY <1>2, <1>3 DEF CoroutineOK
<1>5. Begin(r, q) /\ UNCHANGED <<world, secrets, factors, spent>>
  BY <1>1 DEF StepUpWithPassword
<1>. QED BY <1>3, <1>4, <1>5, MovesOn

LEMMA BeginManagedStep ==
  ASSUME FactorsInv, NEW r \in Requests, NEW t \in Transports, NEW p,
         NEW g \in DOMAIN issued, NEW f \in {Nobody} \cup DOMAIN methods \cup DOMAIN passkeys,
         BeginManaged(r, t, p, g, f)
  PROVE  FactorsInv'
<1>1. PICK q : q = [Idle EXCEPT !.at = "consume", !.op = p, !.over = t, !.account = Owner[t],
                                !.secret = g, !.factor = f, !.epoch = epoch[Owner[t]]]
  OBVIOUS
<1>2. p \in ManagedPurposes /\ issued[g].kind = "grant"
  BY ConfigurationAssumption DEF MFARoutes, BeginManaged
<1>3. g \in 0..MaxIssued /\ f \in 0..MaxFactors /\ epoch[Owner[t]] \in 0..MaxEpoch
  <2>1. g \in 0..MaxIssued
    BY Tables, BoundsAssumption DEF FactorsInv
  <2>2. f \in 0..MaxFactors
    BY Tables, BoundsAssumption DEF FactorsInv, Nobody
  <2>3. epoch[Owner[t]] \in 0..MaxEpoch
    BY OwnerOK, BoundsAssumption DEF FactorsInv, TypeOK
  <2>. QED BY <2>1, <2>2, <2>3
<1>4. q \in Coroutine /\ q.at = "consume" /\ q.over = t /\ q.op = p /\ q.secret = g
  BY <1>1, <1>2, <1>3, IdleOK, OwnerOK DEF Coroutine, Points, Operations
<1>5. CoroutineOK(q)
  BY <1>2, <1>4 DEF CoroutineOK
<1>6. Begin(r, q) /\ UNCHANGED <<world, secrets, factors, spent>>
  BY <1>1 DEF BeginManaged
<1>. QED BY <1>4, <1>5, <1>6, MovesOn

LEMMA VerifyTOTPStep ==
  ASSUME FactorsInv, NEW r \in Requests, NEW t \in Transports, NEW e \in DOMAIN issued,
         NEW n \in 0..MaxTime, VerifyTOTP(r, t, e, n)
  PROVE  FactorsInv'
<1>1. PICK q : q = [Idle EXCEPT !.at = "activate", !.op = "activate", !.over = t,
                                !.account = Owner[t], !.secret = e, !.n = n]
  OBVIOUS
<1>2. e \in 0..MaxIssued /\ n \in Int
  <2>1. e \in 0..MaxIssued
    BY Tables, BoundsAssumption DEF FactorsInv
  <2>. QED BY <2>1
<1>3. q \in Coroutine /\ q.at = "activate" /\ q.secret = e /\ q.account = Owner[t]
  BY <1>1, <1>2, IdleOK, OwnerOK DEF Coroutine, Points, Operations
<1>4. issued[e].kind = "enrollment" /\ issued[e].account = Owner[t]
  BY DEF VerifyTOTP
<1>5. CoroutineOK(q)
  BY <1>3, <1>4 DEF CoroutineOK, CeremonyOf
<1>6. Begin(r, q) /\ UNCHANGED <<world, secrets, factors, spent>>
  BY <1>1 DEF VerifyTOTP
<1>. QED BY <1>3, <1>5, <1>6, MovesOn

LEMMA ReadMethodStep ==
  ASSUME FactorsInv, NEW r \in Requests, NEW a \in Accounts, NEW m \in DOMAIN methods,
         NEW n \in 0..MaxTime, ReadMethod(r, a, m, n)
  PROVE  FactorsInv'
<1>1. PICK q : q = [Idle EXCEPT !.at = "advance", !.op = "totp", !.account = a,
                                !.factor = m, !.n = n]
  OBVIOUS
<1>2. m \in 0..MaxFactors /\ n \in Int
  <2>1. m \in 0..MaxFactors
    BY Tables, BoundsAssumption DEF FactorsInv
  <2>. QED BY <2>1
<1>3. q \in Coroutine /\ q.at = "advance" /\ q.factor = m
  BY <1>1, <1>2, IdleOK DEF Coroutine, Points, Operations
<1>4. CoroutineOK(q)
  BY <1>3 DEF CoroutineOK
<1>5. Begin(r, q) /\ UNCHANGED <<world, secrets, factors, spent>>
  BY <1>1 DEF ReadMethod
<1>. QED BY <1>3, <1>4, <1>5, MovesOn

LEMMA ReadCredentialStep ==
  ASSUME FactorsInv, NEW r \in Requests, NEW c \in DOMAIN passkeys, NEW n \in 0..MaxCount,
         ReadCredential(r, c, n)
  PROVE  FactorsInv'
<1>1. PICK p : p = request[r]
  OBVIOUS
<1>2. PICK q : q = [p EXCEPT !.at = "record", !.factor = c, !.n = n,
                             !.version = passkeys[c].version,
                             !.clone = CloneRisk(passkeys[c], n)]
  OBVIOUS
<1>3. p \in Coroutine /\ CoroutineOK(p) /\ p.at = "credential"
  BY <1>1 DEF FactorsInv, TypeOK, ReadCredential, At
<1>4. c \in 0..MaxFactors /\ passkeys[c].version \in 0..MaxVersion /\ CloneRisk(passkeys[c], n) \in BOOLEAN
  <2>1. c \in 0..MaxFactors
    BY Tables, BoundsAssumption DEF FactorsInv
  <2>2. passkeys[c].version \in 0..MaxVersion
    BY Tables, BoundsAssumption DEF FactorsInv, PasskeyCredential
  <2>. QED BY <2>1, <2>2 DEF CloneRisk
<1>5. n \in Int
  BY BoundsAssumption
<1>6. /\ q \in Coroutine /\ q.at = "record" /\ q.factor = c /\ q.n = n /\ q.version = passkeys[c].version
      /\ q.clone = CloneRisk(passkeys[c], n)
      /\ q.op = p.op /\ q.over = p.over /\ q.purpose = p.purpose
  <2>1. DOMAIN p = {"at", "op", "account", "over", "purpose", "secret", "factor", "n", "since",
                    "epoch", "version", "clone"}
    BY <1>3 DEF Coroutine
  <2>2. q.clone = CloneRisk(passkeys[c], n)
    BY <1>2, <2>1
  <2>3. q \in Coroutine
    BY <1>2, <1>3, <1>4, <1>5 DEF Coroutine, Points
  <2>. QED BY <1>2, <2>1, <2>2, <2>3
<1>7. CoroutineOK(q)
  BY <1>3, <1>4, <1>6 DEF CoroutineOK
<1>8. Continue(r, q) /\ UNCHANGED <<world, secrets, factors, spent>>
  BY <1>1, <1>2 DEF ReadCredential
<1>. QED BY <1>6, <1>7, <1>8, MovesOn

LEMMA ConsumeChallengeStep ==
  ASSUME FactorsInv, NEW r \in Requests, NEW c, NEW ceremony, NEW binding, NEW q \in Coroutine,
         ChallengeMatches(c, ceremony, q.account, binding) /\ c \in DOMAIN issued => CoroutineOK(q),
         ConsumeChallenge(r, c, ceremony, binding, q)
  PROVE  FactorsInv'
<1>1. /\ UNCHANGED <<now, epoch, issued, methods, codes, passkeys, inventory>>
      /\ c \in open /\ open' = open \ {c} /\ c \in DOMAIN issued
  BY DEF ConsumeChallenge, world, factors, FactorsInv, TypeOK
<1>2. CASE ChallengeMatches(c, ceremony, q.account, binding)
  <2>1. Begin(r, q) /\ Accept({<<"challenge", c>>})
    BY <1>2 DEF ConsumeChallenge
  <2>2. CoroutineOK(q)'
    BY <1>1, <1>2, StillOK
  <2>3. OneMoves /\ begun' \in 0..MaxRequests
    BY <2>1, <2>2, GoesOn DEF FactorsInv, TypeOK
  <2>4. UsesMove
    BY <1>1, <2>1, SecretIsNew
  <2>. QED BY <1>1, <2>3, <2>4, SecretsBurn
<1>3. CASE ~ChallengeMatches(c, ceremony, q.account, binding)
  <2>1. OneMoves /\ begun' \in 0..MaxRequests /\ UsesMove
    BY <1>3, Ends DEF ConsumeChallenge, FactorsInv, UsesMove
  <2>. QED BY <1>1, <2>1, SecretsBurn
<1>. QED BY <1>2, <1>3

LEMMA VerifyRegistrationStep ==
  ASSUME FactorsInv, NEW r \in Requests, NEW t \in Transports, NEW c \in DOMAIN issued,
         VerifyRegistration(r, t, c)
  PROVE  FactorsInv'
<1>1. PICK q : q = [Idle EXCEPT !.at = "attest", !.op = "registration", !.over = t,
                                !.account = Owner[t], !.secret = c]
  OBVIOUS
<1>2. c \in 0..MaxIssued
  BY Tables, BoundsAssumption DEF FactorsInv
<1>3. q \in Coroutine /\ q.at = "attest" /\ q.secret = c
  BY <1>1, <1>2, IdleOK, OwnerOK DEF Coroutine, Points, Operations
<1>4. ChallengeMatches(c, "registration", q.account, t) => CoroutineOK(q)
  BY <1>3 DEF CoroutineOK, CeremonyOf, ChallengeMatches
<1>5. ConsumeChallenge(r, c, "registration", t, q)
  BY <1>1 DEF VerifyRegistration
<1>. QED BY <1>3, <1>4, <1>5, ConsumeChallengeStep

LEMMA PasskeyLoginStep ==
  ASSUME FactorsInv, NEW r \in Requests, NEW a \in Accounts, NEW c \in DOMAIN issued,
         PasskeyLogin(r, a, c)
  PROVE  FactorsInv'
<1>1. PICK q : q = [Idle EXCEPT !.at = "credential", !.op = "login", !.account = a, !.secret = c]
  OBVIOUS
<1>2. c \in 0..MaxIssued
  BY Tables, BoundsAssumption DEF FactorsInv
<1>3. q \in Coroutine /\ q.at = "credential" /\ q.op = "login"
  BY <1>1, <1>2, IdleOK DEF Coroutine, Points, Operations
<1>4. CoroutineOK(q)
  BY <1>3 DEF CoroutineOK
<1>5. ConsumeChallenge(r, c, "authentication", FreshBinding, q)
  BY <1>1 DEF PasskeyLogin
<1>. QED BY <1>3, <1>4, <1>5, ConsumeChallengeStep

LEMMA StepUpWithPasskeyStep ==
  ASSUME FactorsInv, NEW r \in Requests, NEW t \in Transports, NEW p \in Purposes,
         NEW c \in DOMAIN issued, StepUpWithPasskey(r, t, p, c)
  PROVE  FactorsInv'
<1>1. PICK q : q = [Idle EXCEPT !.at = "credential", !.op = "step-up", !.over = t,
                                !.account = Owner[t], !.purpose = p, !.secret = c, !.since = now]
  OBVIOUS
<1>2. c \in 0..MaxIssued /\ p \in ManagedPurposes /\ now \in 0..MaxTime
  <2>1. c \in 0..MaxIssued
    BY Tables, BoundsAssumption DEF FactorsInv
  <2>. QED BY <2>1, ConfigurationAssumption DEF MFARoutes, FactorsInv, TypeOK
<1>3. q \in Coroutine /\ q.at = "credential" /\ q.over = t /\ q.purpose = p
  BY <1>1, <1>2, IdleOK, OwnerOK DEF Coroutine, Points, Operations
<1>4. CoroutineOK(q)
  BY <1>2, <1>3 DEF CoroutineOK
<1>5. ConsumeChallenge(r, c, "authentication", t, q)
  BY <1>1 DEF StepUpWithPasskey
<1>. QED BY <1>3, <1>4, <1>5, ConsumeChallengeStep

-----------------------------------------------------------------------------
(* Steps on the factors. *)

LEMMA FactorsSteps ==
  ASSUME FactorsInv, TypeOK', Grows, UsesMove, OneMoves, IssuedOK' \/ UNCHANGED issued,
         MethodsOK' \/ UNCHANGED <<issued, methods>>, PasskeysOK' \/ UNCHANGED <<issued, passkeys>>,
         AccountsOK' \/ UNCHANGED <<inventory, codes>>
  PROVE  FactorsInv'
<1>1. IssuedOK'
  BY DEF FactorsInv, IssuedOK, GrantFor
<1>2. MethodsOK' /\ PasskeysOK'
  BY DEF FactorsInv, MethodsOK, PasskeysOK, CeremonyOf
<1>3. AccountsOK'
  BY DEF FactorsInv, AccountsOK
<1>. QED BY <1>1, <1>2, <1>3, AllCoroutines, AllUses DEF FactorsInv

\* What never grows smaller in an untouched table.
LEMMA Untouched ==
  ASSUME TypeOK
  PROVE  /\ \A m \in DOMAIN methods : methods[m].last \in Int
         /\ \A c \in DOMAIN passkeys : passkeys[c].count \in 0..MaxCount /\ passkeys[c].count \in Nat
              /\ passkeys[c].version \in 1..MaxVersion /\ passkeys[c].version \in Nat
         /\ \A a \in Accounts : codes[a].set \in 0..MaxSets /\ codes[a].set \in Nat
<1>1. \A m \in DOMAIN methods : methods[m].last \in Int
  BY Tables DEF TOTPMethod
<1>2. \A c \in DOMAIN passkeys : passkeys[c].count \in 0..MaxCount /\ passkeys[c].count \in Nat
        /\ passkeys[c].version \in 1..MaxVersion /\ passkeys[c].version \in Nat
  BY Tables, BoundsAssumption DEF PasskeyCredential
<1>3. \A a \in Accounts : codes[a].set \in 0..MaxSets /\ codes[a].set \in Nat
  BY BoundsAssumption DEF TypeOK
<1>. QED BY <1>1, <1>2, <1>3

LEMMA NewCodesOK ==
  ASSUME FactorsInv, NEW a \in Accounts, codes[a].set < MaxSets,
         codes' = [codes EXCEPT ![a] = NewCodes(a)]
  PROVE  /\ codes' \in [Accounts -> [set: 0..MaxSets, left: SUBSET ((1..MaxSets) \X (1..CodeCount))]]
         /\ \A b \in Accounts :
              /\ codes'[b].set >= codes[b].set
              /\ \A code \in codes'[b].left : code \in codes[b].left \/ code[1] > codes[b].set
              /\ \A code \in codes'[b].left : code[1] = codes'[b].set
<1>1. codes \in [Accounts -> [set: 0..MaxSets, left: SUBSET ((1..MaxSets) \X (1..CodeCount))]]
      /\ \A b \in Accounts : codes[b].set \in Nat /\ \A code \in codes[b].left : code[1] = codes[b].set
  BY BoundsAssumption DEF FactorsInv, TypeOK, AccountsOK
<1>2. PICK n : n = NewCodes(a)
  OBVIOUS
<1>3. /\ n.set = codes[a].set + 1 /\ n.left = {n.set} \X (1..CodeCount)
      /\ n = [set |-> n.set, left |-> n.left]
  BY <1>2 DEF NewCodes
<1>4. n.set \in 1..MaxSets /\ \A code \in n.left : code[1] = n.set
  BY <1>1, <1>3, BoundsAssumption
<1>5. n.left \subseteq (1..MaxSets) \X (1..CodeCount)
  BY <1>3, <1>4
<1>6. n \in [set: 0..MaxSets, left: SUBSET ((1..MaxSets) \X (1..CodeCount))]
  BY <1>3, <1>4, <1>5, BoundsAssumption
<1>7. codes' \in [Accounts -> [set: 0..MaxSets, left: SUBSET ((1..MaxSets) \X (1..CodeCount))]]
  BY <1>1, <1>2, <1>6
<1>8. \A b \in Accounts : codes'[b] = IF b = a THEN n ELSE codes[b]
  BY <1>1, <1>2
<1>9. ASSUME NEW b \in Accounts
      PROVE  /\ codes'[b].set >= codes[b].set
             /\ \A code \in codes'[b].left : code \in codes[b].left \/ code[1] > codes[b].set
             /\ \A code \in codes'[b].left : code[1] = codes'[b].set
  <2>1. CASE b = a
    BY <1>1, <1>3, <1>4, <1>8, <2>1
  <2>2. CASE b # a
    BY <1>1, <1>8, <2>2
  <2>. QED BY <2>1, <2>2
<1>. QED BY <1>7, <1>9

LEMMA ReplaceRecoveryCodesStep ==
  ASSUME FactorsInv, NEW r \in Requests, ReplaceRecoveryCodes(r)
  PROVE  FactorsInv'
<1>1. request[r].account \in Accounts
  BY DEF FactorsInv, TypeOK, Coroutine
<1>2. /\ codes[request[r].account].set < MaxSets
      /\ codes' = [codes EXCEPT ![request[r].account] = NewCodes(request[r].account)]
      /\ UNCHANGED <<now, epoch, issued, open, methods, passkeys, inventory, spent>>
  BY DEF ReplaceRecoveryCodes, world, secrets
<1>3. PICK a \in Accounts : a = request[r].account
  BY <1>1
<1>4. /\ codes' \in [Accounts -> [set: 0..MaxSets, left: SUBSET ((1..MaxSets) \X (1..CodeCount))]]
      /\ \A b \in Accounts :
           /\ codes'[b].set >= codes[b].set
           /\ \A code \in codes'[b].left : code \in codes[b].left \/ code[1] > codes[b].set
           /\ \A code \in codes'[b].left : code[1] = codes'[b].set
  BY <1>2, <1>3, NewCodesOK
<1>5. OneMoves /\ begun' \in 0..MaxRequests
  BY Ends DEF ReplaceRecoveryCodes, FactorsInv
<1>6. TypeOK'
  BY <1>2, <1>4, <1>5, MoveTyped DEF FactorsInv, TypeOK
<1>7. Grows
  BY <1>2, <1>4, Untouched DEF Grows, FactorsInv
<1>8. AccountsOK'
  BY <1>2, <1>4 DEF AccountsOK, FactorsInv
<1>. QED BY <1>2, <1>5, <1>6, <1>7, <1>8, FactorsSteps DEF UsesMove

LEMMA ConsumeRecoveryCodeStep ==
  ASSUME FactorsInv, NEW a \in Accounts, NEW code \in codes[a].left, ConsumeRecoveryCode(a, code)
  PROVE  FactorsInv'
<1>1. /\ codes' = [codes EXCEPT ![a].left = @ \ {code}]
      /\ Accept({<<"recovery", a, code>>})
      /\ UNCHANGED <<now, epoch, issued, open, methods, passkeys, inventory, request>>
      /\ begun' \in 0..MaxRequests
  BY BoundsAssumption, SMTT(60) DEF ConsumeRecoveryCode, world, secrets, Once, FactorsInv, TypeOK
<1>2. codes \in [Accounts -> [set: 0..MaxSets, left: SUBSET ((1..MaxSets) \X (1..CodeCount))]]
  BY DEF FactorsInv, TypeOK
<1>3. /\ \A b \in Accounts : codes'[b].set = codes[b].set /\ codes'[b].left \subseteq codes[b].left
      /\ code \notin codes'[a].left
  BY <1>1, <1>2
<1>4. codes' \in [Accounts -> [set: 0..MaxSets, left: SUBSET ((1..MaxSets) \X (1..CodeCount))]]
  BY <1>1, <1>2
<1>5. code[1] = codes[a].set /\ code[1] \in Nat
  BY Untouched DEF FactorsInv, AccountsOK
<1>6. <<"recovery", a, code>> \notin DOMAIN spent
  BY DEF FactorsInv, UseOK
<1>7. UseOK(<<"recovery", a, code>>)'
  <2>1. spent'[<<"recovery", a, code>>] = 1
    BY <1>1, <1>6, AcceptedCount DEF FactorsInv, TypeOK
  <2>. QED BY <1>3, <1>5, <2>1 DEF UseOK
<1>8. UsesMove
  BY <1>1, <1>7 DEF UsesMove
<1>9. TypeOK'
  BY <1>1, <1>4, <1>8, UsesTyped DEF FactorsInv, TypeOK
<1>10. Grows
  BY <1>1, <1>3, Untouched DEF Grows, FactorsInv
<1>11. AccountsOK'
  BY <1>1, <1>3 DEF AccountsOK, FactorsInv
<1>. QED BY <1>1, <1>8, <1>9, <1>10, <1>11, FactorsSteps DEF OneMoves

LEMMA RemoveMethodStep ==
  ASSUME FactorsInv, NEW r \in Requests, NEW m, RemoveMethod(r, m)
  PROVE  FactorsInv'
<1>1. PICK a : a = request[r].account
  OBVIOUS
<1>2. a \in Accounts
  BY <1>1 DEF FactorsInv, TypeOK, Coroutine
<1>3. inventory' = IF inventory[a] \subseteq {m} THEN inventory
                   ELSE [inventory EXCEPT ![a] = @ \ {m}]
  BY <1>1 DEF RemoveMethod, RevokeLoginMethod
<1>4. inventory' \in [Accounts -> SUBSET LoginMethods]
  BY <1>2, <1>3 DEF FactorsInv, TypeOK
<1>5. \A b \in Accounts : inventory'[b] # {}
  <2>1. \A b \in Accounts : inventory[b] # {}
    BY DEF FactorsInv, AccountsOK
  <2>2. inventory \in [Accounts -> SUBSET LoginMethods]
    BY DEF FactorsInv, TypeOK
  <2>3. CASE inventory[a] \subseteq {m}
    BY <1>3, <2>1, <2>3
  <2>4. CASE ~(inventory[a] \subseteq {m})
    BY <1>2, <1>3, <2>1, <2>2, <2>4
  <2>. QED BY <2>3, <2>4
<1>6. UNCHANGED <<now, epoch, issued, open, methods, codes, passkeys, spent>>
  BY DEF RemoveMethod, world, secrets
<1>7. OneMoves /\ begun' \in 0..MaxRequests
  BY Ends DEF RemoveMethod, FactorsInv
<1>8. TypeOK'
  BY <1>4, <1>6, <1>7, MoveTyped DEF FactorsInv, TypeOK
<1>9. Grows
  BY <1>6, StableGrows DEF FactorsInv
<1>10. AccountsOK'
  BY <1>5, <1>6 DEF FactorsInv, AccountsOK
<1>. QED BY <1>6, <1>7, <1>8, <1>9, <1>10, FactorsSteps DEF UsesMove

\* A method is appended, or the counter of one goes up.
LEMMA ActivateStep ==
  ASSUME FactorsInv, NEW r \in Requests, NEW replacing \in BOOLEAN, Activate(r, replacing)
  PROVE  FactorsInv'
<1>1. PICK q : q = request[r]
  OBVIOUS
<1>2. q \in Coroutine /\ CoroutineOK(q) /\ q.at = "activate"
  BY <1>1 DEF FactorsInv, TypeOK, Activate, At
<1>3. q.account \in Accounts /\ q.n \in Int /\ CeremonyOf(q.secret, "enrollment", q.account)
  BY <1>2 DEF Coroutine, CoroutineOK
<1>4. /\ UNCHANGED <<now, epoch, issued, passkeys>> /\ open' = open \ {q.secret}
      /\ Len(methods) < MaxFactors /\ (replacing => codes[q.account].set < MaxSets)
  BY <1>1 DEF Activate, world
<1>5. OneMoves /\ begun' \in 0..MaxRequests
  BY Ends DEF Activate, FactorsInv
<1>6. CASE q.secret \notin open
  <2>1. UNCHANGED <<methods, inventory, codes, spent>>
    BY <1>1, <1>6 DEF Activate
  <2>. QED BY <1>4, <1>5, <2>1, SecretsBurn DEF UsesMove
<1>7. CASE q.secret \in open
  <2>0. PICK k : k = Len(methods) + 1
    OBVIOUS
  <2>1. /\ ActivateMethod(q)
        /\ codes' = IF replacing THEN [codes EXCEPT ![q.account] = NewCodes(q.account)] ELSE codes
        /\ Accept({<<"enrollment", q.secret>>, <<"totp", k, q.n>>})
    BY <1>1, <1>7, <2>0 DEF Activate
  <2>once. \A x \in {<<"enrollment", q.secret>>, <<"totp", k, q.n>>} :
           x \notin DOMAIN spent => spent'[x] = 1
    <3>1. PICK S : S = {<<"enrollment", q.secret>>, <<"totp", k, q.n>>}
      OBVIOUS
    <3>2. \A x \in S : x \notin DOMAIN spent => spent'[x] = 1
      BY <2>1, <3>1, AcceptedCount DEF FactorsInv, TypeOK
    <3>. QED BY <3>1, <3>2
  <2>2. PICK e : e = [account |-> q.account, last |-> q.n, via |-> q.secret]
    OBVIOUS
  <2>3. q.secret \in 0..MaxIssued
    BY <1>2 DEF Coroutine
  <2>4. e \in TOTPMethod /\ e.account = q.account /\ e.last = q.n /\ e.via = q.secret
    BY <1>3, <2>2, <2>3 DEF TOTPMethod
  <2>5. methods' = Append(methods, e) /\ methods \in Seq(TOTPMethod)
    BY <2>1, <2>2 DEF ActivateMethod, FactorsInv, TypeOK
  <2>6. /\ methods' \in Seq(TOTPMethod) /\ Len(methods') = k
        /\ DOMAIN methods' = DOMAIN methods \cup {k}
        /\ k \notin DOMAIN methods
        /\ \A m \in DOMAIN methods : methods'[m] = methods[m]
        /\ methods'[k] = e
    BY <2>0, <2>4, <2>5, Appended
  <2>7. Len(methods) \in Nat /\ k \in 1..MaxFactors
    BY <1>4, <2>0, Tables, BoundsAssumption DEF FactorsInv
  <2>8. /\ codes' \in [Accounts -> [set: 0..MaxSets, left: SUBSET ((1..MaxSets) \X (1..CodeCount))]]
        /\ \A b \in Accounts :
             /\ codes'[b].set >= codes[b].set
             /\ \A code \in codes'[b].left : code \in codes[b].left \/ code[1] > codes[b].set
             /\ \A code \in codes'[b].left : code[1] = codes'[b].set
    <3>1. CASE replacing
      <4>1. PICK a \in Accounts : a = q.account
        BY <1>3
      <4>. QED BY <1>4, <2>1, <3>1, <4>1, NewCodesOK
    <3>2. CASE ~replacing
      BY <2>1, <3>2, Untouched DEF FactorsInv, TypeOK, AccountsOK
    <3>. QED BY <3>1, <3>2
  <2>9. /\ inventory' \in [Accounts -> SUBSET LoginMethods]
        /\ \A b \in Accounts : inventory'[b] # {}
    <3>1. inventory' = [inventory EXCEPT ![q.account] = @ \cup {Totp(k)}]
      BY <2>0, <2>1 DEF ActivateMethod
    <3>2. Totp(k) \in LoginMethods
      BY <2>7 DEF Totp, LoginMethods
    <3>. QED BY <1>3, <3>1, <3>2 DEF FactorsInv, TypeOK, AccountsOK
  <2>10. UseOK(<<"enrollment", q.secret>>)'
    <3>1. <<"enrollment", q.secret>> \notin DOMAIN spent
      BY <1>7 DEF FactorsInv, UseOK
    <3>2. spent'[<<"enrollment", q.secret>>] = 1
      BY <2>once, <3>1
    <3>. QED BY <1>3, <1>4, <3>2 DEF UseOK, CeremonyOf
  <2>11. UseOK(<<"totp", k, q.n>>)'
    <3>1. <<"totp", k, q.n>> \notin DOMAIN spent
      BY <2>6 DEF FactorsInv, UseOK
    <3>2. spent'[<<"totp", k, q.n>>] = 1
      BY <2>once, <3>1
    <3>3. k \in DOMAIN methods' /\ q.n <= methods'[k].last
      BY <1>3, <2>4, <2>6
    <3>. QED BY <1>3, <3>2, <3>3 DEF UseOK
  <2>12. UsesMove
    BY <2>1, <2>10, <2>11 DEF UsesMove
  <2>13. TypeOK'
    <3>1. methods' \in Seq(TOTPMethod) /\ Len(methods') <= MaxFactors
      BY <2>6, <2>7
    <3>. QED BY <1>4, <1>5, <2>8, <2>9, <2>12, <3>1, MoveTyped, UsesTyped DEF FactorsInv, TypeOK
  <2>14. Grows
    BY <1>4, <2>6, <2>8, Untouched DEF Grows, FactorsInv
  <2>15. MethodsOK'
    BY <1>3, <1>4, <2>4, <2>6 DEF MethodsOK, CeremonyOf, FactorsInv
  <2>16. AccountsOK'
    BY <2>8, <2>9 DEF AccountsOK
  <2>. QED BY <1>4, <1>5, <2>12, <2>13, <2>14, <2>15, <2>16, FactorsSteps
<1>. QED BY <1>6, <1>7

LEMMA AdvanceCounterStep ==
  ASSUME FactorsInv, NEW r \in Requests, AdvanceCounter(r)
  PROVE  FactorsInv'
<1>1. PICK q : q = request[r]
  OBVIOUS
<1>2. q \in Coroutine /\ q.factor \in DOMAIN methods /\ q.n \in Int
  BY <1>1 DEF FactorsInv, TypeOK, AdvanceCounter, At, CoroutineOK, Coroutine
<1>3. UNCHANGED <<now, epoch, issued, open, codes, passkeys, inventory>>
  BY DEF AdvanceCounter, world, secrets
<1>4. OneMoves /\ begun' \in 0..MaxRequests
  BY Ends DEF AdvanceCounter, FactorsInv
<1>5. CASE ~LaterCounter(q)
  <2>1. UNCHANGED <<methods, spent>>
    BY <1>1, <1>5 DEF AdvanceCounter
  <2>. QED BY <1>3, <1>4, <2>1, OnlyMoves DEF FactorsInv, TypeOK
<1>6. CASE LaterCounter(q)
  <2>1. /\ methods' = [methods EXCEPT ![q.factor].last = q.n]
        /\ Accept({<<"totp", q.factor, q.n>>})
    BY <1>1, <1>6 DEF AdvanceCounter
  <2>2. PICK e : e = [methods[q.factor] EXCEPT !.last = q.n]
    OBVIOUS
  <2>3. methods[q.factor] \in TOTPMethod /\ q.n > methods[q.factor].last /\ methods[q.factor].last \in Int
    BY <1>2, <1>6, Tables, Untouched DEF FactorsInv, LaterCounter
  <2>4. e \in TOTPMethod /\ e.last = q.n /\ e.account = methods[q.factor].account
        /\ e.via = methods[q.factor].via
    BY <1>2, <2>2, <2>3 DEF TOTPMethod
  <2>5. methods' = [methods EXCEPT ![q.factor] = e] /\ methods \in Seq(TOTPMethod)
    BY <2>1, <2>2 DEF FactorsInv, TypeOK
  <2>6. /\ methods' \in Seq(TOTPMethod) /\ Len(methods') = Len(methods)
        /\ DOMAIN methods' = DOMAIN methods
        /\ \A m \in DOMAIN methods : methods'[m] = IF m = q.factor THEN e ELSE methods[m]
    BY <1>2, <2>4, <2>5, Replaced
  <2>7. UseOK(<<"totp", q.factor, q.n>>)'
    <3>1. <<"totp", q.factor, q.n>> \notin DOMAIN spent
      BY <1>2, <2>3 DEF FactorsInv, UseOK
    <3>2. spent'[<<"totp", q.factor, q.n>>] = 1
      BY <2>1, <3>1, AcceptedCount DEF FactorsInv, TypeOK
    <3>3. q.factor \in DOMAIN methods' /\ q.n <= methods'[q.factor].last
      BY <1>2, <2>4, <2>6
    <3>. QED BY <1>2, <3>2, <3>3 DEF UseOK
  <2>8. UsesMove
    BY <2>1, <2>7 DEF UsesMove
  <2>9. TypeOK'
    BY <1>3, <1>4, <2>6, <2>8, MoveTyped, UsesTyped DEF FactorsInv, TypeOK
  <2>10. Grows
    <3>1. \A m \in DOMAIN methods : m \in DOMAIN methods' /\ methods'[m].last >= methods[m].last
      BY <1>2, <2>3, <2>4, <2>6, Untouched DEF FactorsInv
    <3>. QED BY <1>3, <3>1, Untouched DEF Grows, FactorsInv
  <2>11. MethodsOK'
    BY <1>3, <2>4, <2>6 DEF MethodsOK, CeremonyOf, FactorsInv
  <2>. QED BY <1>3, <1>4, <2>8, <2>9, <2>10, <2>11, FactorsSteps
<1>. QED BY <1>5, <1>6

\* A credential is appended, or the counter and version of one go up.
LEMMA AddCredentialStep ==
  ASSUME FactorsInv, NEW r \in Requests, NEW c \in 1..(Len(passkeys) + 1), c <= MaxFactors,
         NEW n \in 0..MaxCount, AddCredential(r, c, n)
  PROVE  FactorsInv'
<1>1. PICK q : q = request[r]
  OBVIOUS
<1>2. q \in Coroutine /\ CoroutineOK(q) /\ q.at = "attest"
  BY <1>1 DEF FactorsInv, TypeOK, AddCredential, At
<1>3. q.account \in Accounts /\ CeremonyOf(q.secret, "registration", q.account) /\ q.secret \in 0..MaxIssued
  BY <1>2 DEF Coroutine, CoroutineOK
<1>4. UNCHANGED <<now, epoch, issued, open, methods, codes>>
  BY DEF AddCredential, world, secrets
<1>5. OneMoves /\ begun' \in 0..MaxRequests
  BY Ends DEF AddCredential, FactorsInv
<1>6. CASE c \in DOMAIN passkeys
  <2>1. UNCHANGED <<passkeys, inventory, spent>>
    BY <1>6 DEF AddCredential
  <2>. QED BY <1>4, <1>5, <2>1, OnlyMoves DEF FactorsInv, TypeOK
<1>7. CASE c \notin DOMAIN passkeys
  <2>1. PICK e : e = [account |-> q.account, count |-> n, version |-> 1, suspect |-> FALSE,
                      via |-> q.secret]
    OBVIOUS
  <2>2. StoreCredential(c, e) /\ Accept({<<"credential", c>>, <<"count", c, n>>})
    BY <1>1, <1>7, <2>1 DEF AddCredential
  <2>3. e \in PasskeyCredential /\ e.account = q.account /\ e.count = n /\ e.via = q.secret
    BY <1>3, <2>1, BoundsAssumption DEF PasskeyCredential
  <2>4. Len(passkeys) \in Nat /\ c = Len(passkeys) + 1 /\ c \in 1..MaxFactors
    BY <1>7, Tables, BoundsAssumption DEF FactorsInv
  <2>5. passkeys' = Append(passkeys, e) /\ passkeys \in Seq(PasskeyCredential)
    BY <2>2 DEF StoreCredential, FactorsInv, TypeOK
  <2>6. /\ passkeys' \in Seq(PasskeyCredential) /\ Len(passkeys') = Len(passkeys) + 1
        /\ DOMAIN passkeys' = DOMAIN passkeys \cup {c}
        /\ \A d \in DOMAIN passkeys : passkeys'[d] = passkeys[d]
        /\ passkeys'[c] = e
    BY <2>3, <2>4, <2>5, Appended
  <2>7. /\ inventory' \in [Accounts -> SUBSET LoginMethods]
        /\ \A b \in Accounts : inventory'[b] # {}
    <3>1. inventory' = [inventory EXCEPT ![q.account] = @ \cup {Passkey(c)}]
      BY <2>2, <2>3 DEF StoreCredential
    <3>2. Passkey(c) \in LoginMethods
      BY <2>4 DEF Passkey, LoginMethods
    <3>. QED BY <1>3, <3>1, <3>2 DEF FactorsInv, TypeOK, AccountsOK
  <2>once. \A x \in {<<"credential", c>>, <<"count", c, n>>} :
           x \notin DOMAIN spent => spent'[x] = 1
    <3>1. PICK S : S = {<<"credential", c>>, <<"count", c, n>>}
      OBVIOUS
    <3>2. \A x \in S : x \notin DOMAIN spent => spent'[x] = 1
      BY <2>2, <3>1, AcceptedCount DEF FactorsInv, TypeOK
    <3>. QED BY <3>1, <3>2
  <2>8. UseOK(<<"credential", c>>)'
    <3>1. <<"credential", c>> \notin DOMAIN spent
      BY <1>7 DEF FactorsInv, UseOK
    <3>2. spent'[<<"credential", c>>] = 1
      BY <2>once, <3>1
    <3>. QED BY <2>6, <3>2 DEF UseOK
  <2>9. UseOK(<<"count", c, n>>)'
    <3>1. <<"count", c, n>> \notin DOMAIN spent
      BY <1>7 DEF FactorsInv, UseOK
    <3>2. spent'[<<"count", c, n>>] = 1
      BY <2>once, <3>1
    <3>3. n \in Nat /\ n <= passkeys'[c].count /\ c \in DOMAIN passkeys'
      BY <2>3, <2>6, BoundsAssumption
    <3>. QED BY <3>2, <3>3 DEF UseOK
  <2>10. UsesMove
    BY <2>2, <2>8, <2>9 DEF UsesMove
  <2>11. TypeOK'
    <3>1. Len(passkeys') <= MaxFactors
      BY <2>4, <2>6
    <3>. QED BY <1>4, <1>5, <2>6, <2>7, <2>10, <3>1, MoveTyped, UsesTyped DEF FactorsInv, TypeOK
  <2>12. Grows
    BY <1>4, <2>6, Untouched DEF Grows, FactorsInv
  <2>13. PasskeysOK'
    BY <1>3, <1>4, <2>3, <2>6 DEF PasskeysOK, CeremonyOf, FactorsInv
  <2>14. AccountsOK'
    BY <1>4, <2>7 DEF AccountsOK, FactorsInv
  <2>. QED BY <1>4, <1>5, <2>10, <2>11, <2>12, <2>13, <2>14, FactorsSteps
<1>. QED BY <1>6, <1>7

LEMMA RenameStep ==
  ASSUME FactorsInv, NEW c \in DOMAIN passkeys, Rename(c)
  PROVE  FactorsInv'
<1>1. PICK e : e = [passkeys[c] EXCEPT !.version = @ + 1]
  OBVIOUS
<1>2. passkeys[c] \in PasskeyCredential /\ passkeys[c].version \in Nat /\ passkeys[c].version < MaxVersion
  BY Tables, Untouched DEF FactorsInv, Rename
<1>3. /\ e \in PasskeyCredential /\ e.version = passkeys[c].version + 1 /\ e.count = passkeys[c].count
      /\ e.account = passkeys[c].account /\ e.via = passkeys[c].via
  BY <1>1, <1>2, BoundsAssumption DEF PasskeyCredential
<1>4. passkeys' = [passkeys EXCEPT ![c] = e] /\ passkeys \in Seq(PasskeyCredential)
  BY <1>1 DEF Rename, FactorsInv, TypeOK
<1>5. /\ passkeys' \in Seq(PasskeyCredential) /\ Len(passkeys') = Len(passkeys)
      /\ DOMAIN passkeys' = DOMAIN passkeys
      /\ \A d \in DOMAIN passkeys : passkeys'[d] = IF d = c THEN e ELSE passkeys[d]
  BY <1>3, <1>4, Replaced
<1>6. /\ UNCHANGED <<now, epoch, issued, open, methods, codes, inventory, spent, request>>
      /\ begun' \in 0..MaxRequests
  BY BoundsAssumption DEF Rename, Once, world, secrets, FactorsInv, TypeOK
<1>7. TypeOK'
  BY <1>5, <1>6 DEF FactorsInv, TypeOK
<1>8. Grows
  <2>1. \A d \in DOMAIN passkeys :
          /\ d \in DOMAIN passkeys' /\ passkeys'[d].count >= passkeys[d].count
          /\ passkeys'[d].version >= passkeys[d].version
          /\ passkeys'[d].version = passkeys[d].version => passkeys'[d] = passkeys[d]
    BY <1>2, <1>3, <1>5, Untouched DEF FactorsInv
  <2>. QED BY <1>6, <2>1, Untouched DEF Grows, FactorsInv
<1>9. PasskeysOK'
  BY <1>3, <1>5, <1>6 DEF PasskeysOK, CeremonyOf, FactorsInv
<1>. QED BY <1>6, <1>7, <1>8, <1>9, FactorsSteps DEF OneMoves, UsesMove

\* An accepted assertion's counter is above every one accepted before, or the
\* verdict on it was that it is a clone's: the snapshot is the stored record.
LEMMA RecordAssertionStep ==
  ASSUME FactorsInv, NEW r \in Requests, RecordAssertion(r)
  PROVE  FactorsInv'
<1>1. PICK q : q = request[r]
  OBVIOUS
<1>2. q \in Coroutine /\ CoroutineOK(q) /\ q.at = "record"
  BY <1>1 DEF FactorsInv, TypeOK, RecordAssertion, At
<1>3. PICK c : c = q.factor
  OBVIOUS
<1>4. /\ c \in DOMAIN passkeys /\ q.n \in 0..MaxCount /\ q.n \in Nat
      /\ q.version = passkeys[c].version => q.clone = CloneRisk(passkeys[c], q.n)
  BY <1>2, <1>3, BoundsAssumption DEF CoroutineOK
<1>5. /\ UNCHANGED <<now, epoch, issued, open, methods, codes, inventory>>
      /\ passkeys[c].version < MaxVersion /\ begun \in 0..MaxRequests
  BY <1>1, <1>3 DEF RecordAssertion, world, secrets, FactorsInv, TypeOK
<1>6. CASE ~SameVersion(q)
  <2>1. UNCHANGED <<passkeys, spent>> /\ End(r)
    BY <1>1, <1>6 DEF RecordAssertion
  <2>2. OneMoves /\ begun' \in 0..MaxRequests
    BY <2>1, Ends DEF FactorsInv
  <2>. QED BY <1>5, <2>1, <2>2, OnlyMoves DEF FactorsInv, TypeOK
<1>7. CASE SameVersion(q)
  <2>1. PICK e : e = Recorded(passkeys[c], q)
    OBVIOUS
  <2>2. passkeys[c] \in PasskeyCredential /\ passkeys[c].version \in Nat /\ passkeys[c].count \in Nat
    BY <1>4, Tables, Untouched DEF FactorsInv
  <2>3. q.clone = CloneRisk(passkeys[c], q.n)
    BY <1>3, <1>4, <1>7 DEF SameVersion
  <2>4. q.clone \in BOOLEAN
    BY <1>2 DEF Coroutine
  <2>5. /\ e \in PasskeyCredential /\ e.version = passkeys[c].version + 1
        /\ e.count = (IF q.n > passkeys[c].count THEN q.n ELSE passkeys[c].count)
        /\ e.account = passkeys[c].account /\ e.via = passkeys[c].via
    <3>1. DOMAIN passkeys[c] = {"account", "count", "version", "suspect", "via"}
          /\ passkeys[c].suspect \in BOOLEAN /\ passkeys[c].count \in 0..MaxCount
          /\ passkeys[c].version + 1 \in 1..MaxVersion
      BY <1>5, <2>2, BoundsAssumption DEF PasskeyCredential
    <3>2. PICK k : k = IF q.n > passkeys[c].count THEN q.n ELSE passkeys[c].count
      OBVIOUS
    <3>3. PICK b : b = (passkeys[c].suspect \/ q.clone)
      OBVIOUS
    <3>4. e = [passkeys[c] EXCEPT !.count = k, !.suspect = b, !.version = passkeys[c].version + 1]
      BY <2>1, <3>2, <3>3 DEF Recorded
    <3>5. k \in 0..MaxCount /\ b \in BOOLEAN
      BY <1>4, <3>1, <3>2, <3>3
    <3>. QED BY <2>2, <3>1, <3>2, <3>4, <3>5 DEF PasskeyCredential
  <2>6. passkeys' = [passkeys EXCEPT ![c] = e] /\ passkeys \in Seq(PasskeyCredential)
    BY <1>1, <1>3, <1>7, <2>1 DEF RecordAssertion, FactorsInv, TypeOK
  <2>7. /\ passkeys' \in Seq(PasskeyCredential) /\ Len(passkeys') = Len(passkeys)
        /\ DOMAIN passkeys' = DOMAIN passkeys
        /\ \A d \in DOMAIN passkeys : passkeys'[d] = IF d = c THEN e ELSE passkeys[d]
    BY <1>4, <2>5, <2>6, Replaced
  <2>8. \A d \in DOMAIN passkeys :
          /\ d \in DOMAIN passkeys' /\ passkeys'[d].count >= passkeys[d].count
          /\ passkeys'[d].version >= passkeys[d].version
          /\ passkeys'[d].version = passkeys[d].version => passkeys'[d] = passkeys[d]
    BY <1>4, <2>2, <2>5, <2>7, Untouched DEF FactorsInv
  <2>9. Grows
    BY <1>5, <2>8, Untouched DEF Grows, FactorsInv
  <2>10. PasskeysOK'
    BY <1>5, <2>5, <2>7 DEF PasskeysOK, CeremonyOf, FactorsInv
  <2>11. CASE q.clone /\ RejectClones
    <3>1. End(r) /\ UNCHANGED spent
      BY <1>1, <2>11 DEF RecordAssertion
    <3>2. OneMoves /\ begun' \in 0..MaxRequests
      BY <3>1, Ends DEF FactorsInv
    <3>3. TypeOK'
      BY <1>5, <2>7, <3>1, <3>2, MoveTyped DEF FactorsInv, TypeOK
    <3>. QED BY <1>5, <2>9, <2>10, <3>1, <3>2, <3>3, FactorsSteps DEF UsesMove
  <2>12. CASE ~(q.clone /\ RejectClones)
    <3>1. Continue(r, Verified(q)) /\ Accept({<<"count", c, q.n>>})
      BY <1>1, <1>3, <1>7, <2>12 DEF RecordAssertion
    <3>2. PICK p : p = Verified(q)
      OBVIOUS
    <3>3. p \in Coroutine /\ CoroutineOK(p)'
      <4>1. CASE q.op = "step-up"
        <5>1. p = [q EXCEPT !.at = "issue", !.factor = Nobody, !.n = 0, !.version = 0,
                            !.clone = FALSE, !.secret = Nobody]
          BY <3>2, <4>1 DEF Verified
        <5>2. p \in Coroutine /\ p.at = "issue" /\ p.over = q.over /\ p.purpose = q.purpose
          <6>1. 0 \in 0..MaxIssued /\ 0 \in 0..MaxFactors /\ 0 \in 0..MaxVersion
            BY BoundsAssumption
          <6>2. "issue" \in Points
            BY DEF Points
          <6>3. q \in Coroutine /\ 0 \in Int /\ FALSE \in BOOLEAN
            BY <1>2
          <6>4. p \in Coroutine
            BY <5>1, <6>1, <6>2, <6>3 DEF Coroutine, Nobody
          <6>5. p.at = "issue" /\ p.over = q.over /\ p.purpose = q.purpose
            BY <5>1, <6>3 DEF Coroutine
          <6>. QED BY <6>4, <6>5
        <5>3. q.over \in Transports /\ q.purpose \in ManagedPurposes
          BY <1>2, <4>1 DEF CoroutineOK
        <5>. QED BY <5>2, <5>3 DEF CoroutineOK
      <4>2. CASE q.op # "step-up"
        <5>1. p = Idle
          BY <3>2, <4>2 DEF Verified
        <5>2. CoroutineOK(Idle)'
          BY IdleOK DEF CoroutineOK, Idle
        <5>. QED BY <5>1, <5>2, IdleOK
      <4>. QED BY <4>1, <4>2
    <3>4. OneMoves /\ begun' \in 0..MaxRequests
      BY <1>5, <3>1, <3>2, <3>3, GoesOn
    <3>5. UseOK(<<"count", c, q.n>>)'
      <4>1. c \in DOMAIN passkeys' /\ q.n <= passkeys'[c].count
        BY <1>4, <2>2, <2>5, <2>7
      <4>2. ASSUME RejectClones, q.n > 0
            PROVE  spent'[<<"count", c, q.n>>] = 1
        <5>1. q.n > passkeys[c].count
          <6>1. ~CloneRisk(passkeys[c], q.n)
            BY <2>3, <2>4, <2>12, <4>2
          <6>. QED BY <1>4, <2>2, <4>2, <6>1 DEF CloneRisk
        <5>2. <<"count", c, q.n>> \notin DOMAIN spent
          BY <1>4, <2>2, <5>1 DEF FactorsInv, UseOK
        <5>. QED BY <3>1, <5>2, AcceptedCount DEF FactorsInv, TypeOK
      <4>. QED BY <1>4, <4>1, <4>2 DEF UseOK
    <3>6. UsesMove
      BY <3>1, <3>5 DEF UsesMove
    <3>7. TypeOK'
      BY <1>5, <2>7, <3>4, <3>6, MoveTyped, UsesTyped DEF FactorsInv, TypeOK
    <3>. QED BY <1>5, <2>9, <2>10, <3>4, <3>6, <3>7, FactorsSteps
  <2>. QED BY <2>11, <2>12
<1>. QED BY <1>6, <1>7

LEMMA AbandonStep ==
  ASSUME FactorsInv, NEW r \in Requests, Abandon(r)
  PROVE  FactorsInv'
<1>1. UNCHANGED <<now, epoch, issued, open, methods, codes, passkeys, inventory, spent>>
  BY DEF Abandon, world, secrets, factors
<1>2. OneMoves /\ begun' \in 0..MaxRequests
  BY Ends DEF Abandon, FactorsInv
<1>. QED BY <1>1, <1>2, OnlyMoves DEF FactorsInv, TypeOK

LEMMA WorldStep ==
  ASSUME FactorsInv, Tick \/ \E t \in Transports : BumpEpoch(Owner[t])
  PROVE  FactorsInv'
<1>1. UNCHANGED <<issued, open, methods, codes, passkeys, inventory, spent, request, begun>>
  BY DEF Tick, BumpEpoch, secrets, factors
<1>2. now' \in 0..MaxTime
  BY BoundsAssumption DEF Tick, BumpEpoch, FactorsInv, TypeOK
<1>3. epoch' \in [Accounts -> 1..MaxEpoch]
  <2>1. CASE Tick
    BY <2>1 DEF Tick, FactorsInv, TypeOK
  <2>2. CASE \E t \in Transports : BumpEpoch(Owner[t])
    <3>1. PICK a \in Accounts : BumpEpoch(a)
      BY <2>2, OwnerOK
    <3>2. epoch \in [Accounts -> 1..MaxEpoch] /\ epoch[a] < MaxEpoch
          /\ epoch' = [epoch EXCEPT ![a] = epoch[a] + 1]
      BY <3>1 DEF BumpEpoch, FactorsInv, TypeOK
    <3>3. epoch[a] + 1 \in 1..MaxEpoch
      BY <3>2, BoundsAssumption
    <3>. QED BY <3>2, <3>3
  <2>. QED BY <2>1, <2>2
<1>. QED BY <1>1, <1>2, <1>3, OnlyMoves DEF OneMoves, FactorsInv, TypeOK

-----------------------------------------------------------------------------
(* The invariant, and what follows from it. *)

LEMMA RequestStep ==
  ASSUME FactorsInv, NEW r \in Requests, Step(r)
  PROVE  FactorsInv'
<1>1. ASSUME NEW t \in Transports, NEW g \in DOMAIN issued,
             \/ EnrollTOTP(r, t, g)
             \/ RecoveryCodes(r, t, g)
             \/ RegistrationOptions(r, t, g)
             \/ \E m \in DOMAIN methods : RemoveTOTP(r, t, g, m)
             \/ \E c \in DOMAIN passkeys : RemovePasskey(r, t, g, c)
      PROVE  FactorsInv'
  BY <1>1, BeginManagedStep
     DEF EnrollTOTP, RecoveryCodes, RegistrationOptions, RemoveTOTP, RemovePasskey
<1>2. CASE RemoveTOTPMethod(r) \/ RemoveCredential(r)
  BY <1>2, RemoveMethodStep DEF RemoveTOTPMethod, RemoveCredential
<1>3. CASE \/ \E t \in Transports, p \in Purposes : StepUpWithPassword(r, t, p)
           \/ IssueGrant(r) \/ ConsumeGrant(r) \/ Enroll(r) \/ ReplaceRecoveryCodes(r)
           \/ BeginRegistration(r) \/ AdvanceCounter(r) \/ RecordAssertion(r) \/ Abandon(r)
  BY <1>3, StepUpWithPasswordStep, IssueGrantStep, ConsumeGrantStep, EnrollStep,
     ReplaceRecoveryCodesStep, BeginRegistrationStep, AdvanceCounterStep, RecordAssertionStep,
     AbandonStep
<1>4. CASE \/ \E t \in Transports, e \in DOMAIN issued, n \in 0..MaxTime : VerifyTOTP(r, t, e, n)
           \/ \E replacing \in BOOLEAN : Activate(r, replacing)
           \/ \E a \in Accounts, m \in DOMAIN methods, n \in 0..MaxTime : ReadMethod(r, a, m, n)
  BY <1>4, VerifyTOTPStep, ActivateStep, ReadMethodStep
<1>5. CASE \/ \E t \in Transports, c \in DOMAIN issued :
                \/ VerifyRegistration(r, t, c)
                \/ \E p \in Purposes : StepUpWithPasskey(r, t, p, c)
           \/ \E a \in Accounts, c \in DOMAIN issued : PasskeyLogin(r, a, c)
  BY <1>5, VerifyRegistrationStep, StepUpWithPasskeyStep, PasskeyLoginStep
<1>6. CASE \/ \E c \in 1..(Len(passkeys) + 1), n \in 0..MaxCount :
                c <= MaxFactors /\ AddCredential(r, c, n)
           \/ \E c \in DOMAIN passkeys, n \in 0..MaxCount : ReadCredential(r, c, n)
  BY <1>6, AddCredentialStep, ReadCredentialStep
<1>. QED BY <1>1, <1>2, <1>3, <1>4, <1>5, <1>6 DEF Step

LEMMA FactorsNext == FactorsInv /\ [Next]_vars => FactorsInv'
<1>. SUFFICES ASSUME FactorsInv, [Next]_vars PROVE FactorsInv'
  OBVIOUS
<1>1. CASE \E r \in Requests : Step(r)
  BY <1>1, RequestStep
<1>2. CASE \E a \in Accounts : BeginAuthentication(a)
  BY <1>2, BeginAuthenticationStep
<1>3. CASE Tick \/ \E t \in Transports : BumpEpoch(Owner[t])
  BY <1>3, WorldStep
<1>4. CASE \E a \in Accounts : \E code \in codes[a].left : ConsumeRecoveryCode(a, code)
  BY <1>4, ConsumeRecoveryCodeStep
<1>5. CASE \E c \in DOMAIN passkeys : Rename(c)
  BY <1>5, RenameStep
<1>6. CASE UNCHANGED vars
  BY <1>6, OnlyMoves DEF vars, OneMoves, FactorsInv, TypeOK
<1>. QED BY <1>1, <1>2, <1>3, <1>4, <1>5, <1>6 DEF Next

LEMMA FactorsInit == Init => FactorsInv
<1>. SUFFICES ASSUME Init PROVE FactorsInv
  OBVIOUS
<1>1. Veteran \in Accounts /\ CodeCount \in Nat \ {0}
  BY ConfigurationAssumption DEF MFARoutes, RecoveryConfiguration
<1>2. PICK m : m = [account |-> Veteran, last |-> 0, via |-> Nobody]
  OBVIOUS
<1>3. PICK c : c = [account |-> Veteran, count |-> 0, version |-> 1, suspect |-> FALSE, via |-> Nobody]
  OBVIOUS
<1>4. m \in TOTPMethod /\ m.via = Nobody /\ c \in PasskeyCredential /\ c.via = Nobody
  BY <1>1, <1>2, <1>3, BoundsAssumption DEF TOTPMethod, PasskeyCredential, Nobody
<1>5. methods = <<m>> /\ passkeys = <<c>> /\ issued = <<>> /\ open = {} /\ spent = EmptyBag
  BY <1>2, <1>3 DEF Init
<1>6. methods \in Seq(TOTPMethod) /\ Len(methods) <= MaxFactors /\ passkeys \in Seq(PasskeyCredential)
      /\ Len(passkeys) <= MaxFactors /\ issued \in Seq(Secret) /\ Len(issued) <= MaxIssued
  BY <1>4, <1>5, BoundsAssumption
<1>7. codes \in [Accounts -> [set: 0..MaxSets, left: SUBSET ((1..MaxSets) \X (1..CodeCount))]]
      /\ \A a \in Accounts : \A code \in codes[a].left : code[1] = codes[a].set
  <2>1. PICK k : k = [set |-> 1, left |-> {1} \X (1..CodeCount)]
    OBVIOUS
  <2>2. PICK z : z = [set |-> 0, left |-> {}]
    OBVIOUS
  <2>3. codes = [a \in Accounts |-> IF a = Veteran THEN k ELSE z]
    BY <2>1, <2>2 DEF Init
  <2>4. k \in [set: 0..MaxSets, left: SUBSET ((1..MaxSets) \X (1..CodeCount))]
        /\ z \in [set: 0..MaxSets, left: SUBSET ((1..MaxSets) \X (1..CodeCount))]
    BY <2>1, <2>2, BoundsAssumption
  <2>5. (\A code \in k.left : code[1] = k.set) /\ z.left = {}
    BY <2>1, <2>2
  <2>. QED BY <2>3, <2>4, <2>5
<1>8. inventory \in [Accounts -> SUBSET LoginMethods] /\ \A a \in Accounts : inventory[a] # {}
  <2>1. {FirstFactor, Totp(1), Passkey(1)} \subseteq LoginMethods
    BY BoundsAssumption DEF LoginMethods, FirstFactor, Totp, Passkey
  <2>2. inventory = [a \in Accounts |->
          {FirstFactor} \cup (IF a = Veteran THEN {Totp(1), Passkey(1)} ELSE {})]
    BY DEF Init
  <2>. QED BY <2>1, <2>2
<1>9. IsABag(spent) /\ DOMAIN spent = {}
  BY <1>5 DEF EmptyBag, SetToBag, IsABag
<1>10. now \in 0..MaxTime /\ epoch \in [Accounts -> 1..MaxEpoch] /\ begun \in 0..MaxRequests
  BY BoundsAssumption DEF Init
<1>11. request \in [Requests -> Coroutine] /\ \A r \in Requests : CoroutineOK(request[r])
  BY IdleOK DEF Init
<1>12. TypeOK
  BY <1>5, <1>6, <1>7, <1>8, <1>9, <1>10, <1>11 DEF TypeOK
<1>13. IssuedOK /\ MethodsOK /\ PasskeysOK
  <2>1. DOMAIN methods = {1} /\ methods[1] = m /\ DOMAIN passkeys = {1} /\ passkeys[1] = c
        /\ DOMAIN issued = {}
    BY <1>5
  <2>. QED BY <1>4, <2>1 DEF IssuedOK, MethodsOK, PasskeysOK
<1>14. AccountsOK
  BY <1>7, <1>8 DEF AccountsOK
<1>. QED BY <1>9, <1>11, <1>12, <1>13, <1>14 DEF FactorsInv

\* However requests overlap, a TOTP code is accepted for one step of one
\* method once and a recovery code once, and no code of a replaced set is left.
THEOREM CodesCountOnce == Spec => []CodesAreAcceptedOnce
<1>1. FactorsInv => CodesAreAcceptedOnce
  BY DEF FactorsInv, UseOK, AccountsOK, CodesAreAcceptedOnce, AcceptedOnce, BagToSet
<1>. QED BY <1>1, FactorsInit, FactorsNext, PTL DEF Spec

\* Grants, enrolments and challenges are good for one use, and every factor an
\* account has gained is traced to a grant of that account for that change.
THEOREM FactorsComeFromGrants == Spec => []FactorsAreSound
<1>1. ASSUME FactorsInv PROVE FactorsAreSound
  <2>1. AcceptedOnce({"grant", "enrollment", "challenge"})
    BY <1>1 DEF FactorsInv, UseOK, AcceptedOnce, BagToSet
  <2>2. ASSUME NEW m \in DOMAIN methods, methods[m].via # Nobody
        PROVE  /\ issued[methods[m].via].account = methods[m].account
               /\ GrantOf(methods[m].via, "totp-enroll")
               /\ issued[issued[methods[m].via].via].account = methods[m].account
    <3>1. CeremonyOf(methods[m].via, "enrollment", methods[m].account)
      BY <1>1, <2>2 DEF FactorsInv, MethodsOK
    <3>. QED BY <1>1, <3>1 DEF FactorsInv, IssuedOK, CeremonyOf, GrantFor, GrantOf
  <2>3. ASSUME NEW c \in DOMAIN passkeys, passkeys[c].via # Nobody
        PROVE  /\ issued[passkeys[c].via].account = passkeys[c].account
               /\ GrantOf(passkeys[c].via, "passkey-register")
               /\ issued[issued[passkeys[c].via].via].account = passkeys[c].account
               /\ issued[issued[passkeys[c].via].via].binding = issued[passkeys[c].via].binding
    <3>1. CeremonyOf(passkeys[c].via, "registration", passkeys[c].account)
      BY <1>1, <2>3 DEF FactorsInv, PasskeysOK
    <3>. QED BY <1>1, <3>1 DEF FactorsInv, IssuedOK, CeremonyOf, GrantFor, GrantOf
  <2>. QED BY <1>1, <2>1, <2>2, <2>3 DEF FactorsAreSound, FactorsTraceToGrants, FactorsInv
<1>. QED BY <1>1, FactorsInit, FactorsNext, PTL DEF Spec

\* Under the REJECT policy no counter but zero is accepted from a credential
\* twice, a credential is registered once, and an account keeps a login method.
THEOREM CountersAdvance == Spec => []AssertionsAdvance
<1>1. FactorsInv => AssertionsAdvance
  BY DEF FactorsInv, UseOK, AccountsOK, AssertionsAdvance, AcceptedOnce, BagToSet
<1>. QED BY <1>1, FactorsInit, FactorsNext, PTL DEF Spec

=============================================================================
