-------------------------- MODULE OAuthFlowsProofs --------------------------
(***************************************************************************)
(* Whatever a grant or a login allows happens once, for what it was meant   *)
(* for: the invariant behind EffectsAreAuthorized, and its proof.           *)
(***************************************************************************)
EXTENDS OAuthFlows, TLAPS

Direct == {"unlink", "revoke"}
TwoLegged == {"link", "scope-upgrade"}
Granted == Direct \cup TwoLegged

\* From where a request goes on to the effect, in this request or a later one
Entitled == {"create", "exchange", "proof", "commit"} \cup Direct
InCallback == {"exchange", "proof", "commit", "confirming", "confirm", "reread", "issue"}

GrantOK(g) ==
    grants[g].state # "unissued" =>
        /\ grants[g].account \in DOMAIN epoch
        /\ grants[g].epoch <= epoch[grants[g].account]

\* A grant was burnt for this account, operation, session and epoch.
Paid(b) ==
    /\ b.grant \in Grants /\ grants[b.grant].state = "gone"
    /\ grants[b.grant].account = b.account /\ grants[b.grant].purpose = b.purpose
    /\ grants[b.grant].session = b.session /\ grants[b.grant].epoch = b.epoch

\* What a pending transaction, or a request of one, binds
BindsOK(b) ==
    /\ b.operation \in TwoLegged \cup Confirmations \cup {"login"}
    /\ b.operation # "login" => b.account \in DOMAIN epoch
    /\ b.operation \in TwoLegged => Paid(b)
    /\ b.operation \notin TwoLegged => b.grant = NoGrant

TransactionOK(t) ==
    /\ t \in Stored(transactions) => BindsOK(transactions[t].bound)
    /\ t \notin Stored(transactions) => transactions[t].bound = Unbound

(* What a request knows at each await, and no other actor can undo.         *)

\* The grant a request is going to present was issued before the request began.
Asks(q) ==
    q.pc \in {"epoch", "consume"} =>
        /\ q.bound.operation \in Granted \cup Confirmations
        /\ q.bound.account \in DOMAIN epoch
        /\ q.bound.operation \in Confirmations => q.pc = "epoch" /\ q.bound.grant = NoGrant
        /\ q.pc = "consume" => q.bound.epoch <= epoch[q.bound.account]
        /\ q.bound.operation \in Granted =>
              q.bound.grant \in Grants /\ grants[q.bound.grant].state # "unissued"
        /\ q.bound.operation \in Direct =>
              /\ q.since <= epoch[q.bound.account]
              /\ q.pc = "consume" => q.since <= q.bound.epoch
              /\ grants[q.bound.grant].account = q.bound.account
                   => grants[q.bound.grant].epoch <= q.since

\* What was paid for is carried to the commit; a proof narrows the epoch down.
Carries(q) ==
    q.pc \in {"create", "exchange", "proof", "commit"} =>
        /\ BindsOK(q.bound)
        /\ q.pc \in {"proof", "commit"} => q.bound.operation \notin Confirmations
        /\ q.pc = "proof" => q.bound.operation \in TwoLegged
        /\ q.pc \in {"exchange", "proof"} /\ q.bound.operation \in TwoLegged =>
              q.bound.epoch <= q.since /\ q.since <= epoch[q.bound.account]
        /\ q.pc = "commit" /\ q.bound.operation # "login" => q.since = q.bound.epoch

Acts(q) ==
    q.pc \in Direct =>
        /\ q.bound.operation = q.pc /\ q.bound.account \in DOMAIN epoch
        /\ Paid(q.bound) /\ q.since = q.bound.epoch

Confirms(q) ==
    q.pc \in {"confirming", "confirm", "reread", "issue"} =>
        /\ q.bound.operation \in Confirmations /\ q.bound.account \in DOMAIN epoch
        /\ q.bound.grant = NoGrant
        /\ q.pc \in {"reread", "issue"} => q.seen = q.bound.identity
        /\ q.pc = "issue" => q.read <= epoch[q.bound.account]

\* A callback has taken its transaction out of the store.
Returns(q) ==
    /\ q.session = q.bound.session
    /\ q.pc \in InCallback => /\ q.transaction \in Transactions
                              /\ transactions[q.transaction].status = "gone"
    /\ q.pc \notin InCallback => q.transaction = NoTransaction
    /\ q.pc \in InCallback \ {"exchange"} => q.seen \in Identities

RequestOK(q) == Asks(q) /\ Carries(q) /\ Acts(q) /\ Confirms(q) /\ Returns(q)

\* The effect of a grant is due to one place, a request or a transaction, and
\* after it to none.
Due(r) == IF req[r].pc \in Entitled THEN req[r].bound.grant ELSE NoGrant
Kept(t) == transactions[t].bound.grant

Apart ==
    /\ \A r, s \in Requests : Due(r) = Due(s) /\ Due(r) # NoGrant => r = s
    /\ \A t, u \in Transactions : Kept(t) = Kept(u) /\ Kept(t) # NoGrant => t = u
    /\ \A r \in Requests, t \in Transactions : Due(r) = Kept(t) => Due(r) = NoGrant
    /\ \A r, s \in Requests : req[r].transaction = req[s].transaction
                                /\ req[r].transaction # NoTransaction => r = s

EffectsCounted ==
    \A g \in Grants : effects[g] # 0 =>
        /\ effects[g] = 1 /\ grants[g].state = "gone"
        /\ \A r \in Requests : Due(r) # g
        /\ \A t \in Transactions : Kept(t) # g

OutcomesCounted ==
    \A t \in Transactions : outcomes[t] # 0 =>
        /\ outcomes[t] = 1 /\ transactions[t].status = "gone"
        /\ \A r \in Requests : req[r].transaction # t

FlowsInv ==
    /\ TypeOK /\ Apart /\ EffectsCounted /\ OutcomesCounted
    /\ \A g \in Grants : GrantOK(g)
    /\ \A t \in Transactions : TransactionOK(t)
    /\ \A r \in Requests : RequestOK(req[r])

-----------------------------------------------------------------------------
(* What a step leaves as it is.                                             *)

\* Epochs only grow, a grant that was issued stays what it is, and what is gone
\* stays gone.
Moves ==
    /\ \A a \in DOMAIN epoch : a \in DOMAIN epoch' /\ epoch'[a] >= epoch[a]
    /\ \A g \in Grants : grants[g].state # "unissued" =>
          /\ grants'[g].state # "unissued"
          /\ grants'[g].account = grants[g].account /\ grants'[g].purpose = grants[g].purpose
          /\ grants'[g].session = grants[g].session /\ grants'[g].epoch = grants[g].epoch
    /\ \A g \in Grants : grants[g].state = "gone" => grants'[g].state = "gone"
    /\ \A t \in Transactions : transactions[t].status = "gone" => transactions'[t].status = "gone"

LEMMA EpochTyped ==
    ASSUME TypeOK
    PROVE  /\ DOMAIN epoch \subseteq Accounts /\ epoch \in [DOMAIN epoch -> Epochs]
           /\ \A a \in DOMAIN epoch : epoch[a] \in Nat
BY FlowsAssumption DEF TypeOK, Epochs

LEMMA StableMoves ==
    ASSUME TypeOK, UNCHANGED <<epoch, grants>>,
           \A t \in Transactions : transactions[t].status = "gone" => transactions'[t].status = "gone"
    PROVE  Moves
BY EpochTyped DEF Moves

LEMMA PaidKept == ASSUME Moves, NEW b, Paid(b) PROVE Paid(b)'
<1>1. b.grant \in Grants /\ grants[b.grant].state = "gone"
    BY DEF Paid
<1>. QED BY <1>1 DEF Moves, Paid

LEMMA BindsKept == ASSUME Moves, NEW b, BindsOK(b) PROVE BindsOK(b)'
<1>1. b.account \in DOMAIN epoch => b.account \in DOMAIN epoch'
    BY DEF Moves
<1>2. b.operation \in TwoLegged => Paid(b)'
    BY PaidKept DEF BindsOK
<1>. QED BY <1>1, <1>2 DEF BindsOK

LEMMA RequestsKept ==
    ASSUME TypeOK, TypeOK', Moves, NEW q \in Progress, RequestOK(q)
    PROVE  RequestOK(q)'
<1>1. /\ q.bound.epoch \in Nat /\ q.since \in Nat /\ q.read \in Nat
      /\ \A a \in DOMAIN epoch : epoch[a] \in Nat /\ a \in DOMAIN epoch' /\ epoch'[a] >= epoch[a]
    BY EpochTyped, FlowsAssumption DEF Progress, Bindings, Epochs, Moves
<1>2. \A a \in DOMAIN epoch : epoch'[a] \in Nat
    <2>1. \E existing \in SUBSET Accounts : epoch' \in [existing -> Epochs]
        BY DEF TypeOK
    <2>. QED BY <1>1, <2>1, FlowsAssumption DEF Epochs
<1>3. Asks(q)'
    <2>. SUFFICES ASSUME q.pc \in {"epoch", "consume"} PROVE Asks(q)'
        BY DEF Asks
    <2>1. q.bound.account \in DOMAIN epoch
        BY DEF RequestOK, Asks
    <2>2. q.bound.operation \in Granted =>
            /\ q.bound.grant \in Grants /\ grants'[q.bound.grant].state # "unissued"
            /\ grants'[q.bound.grant].account = grants[q.bound.grant].account
            /\ grants'[q.bound.grant].epoch = grants[q.bound.grant].epoch
        BY DEF RequestOK, Asks, Moves
    <2>3. q.bound.operation \in Direct => q.bound.operation \in Granted
        BY DEF Granted
    <2>. QED BY <1>1, <1>2, <2>1, <2>2, <2>3 DEF RequestOK, Asks
<1>4. Carries(q)'
    <2>. SUFFICES ASSUME q.pc \in {"create", "exchange", "proof", "commit"} PROVE Carries(q)'
        BY DEF Carries
    <2>1. BindsOK(q.bound) /\ BindsOK(q.bound)'
        BY BindsKept DEF RequestOK, Carries
    <2>2. q.bound.operation \in TwoLegged => q.bound.account \in DOMAIN epoch
        BY <2>1 DEF BindsOK, TwoLegged
    <2>. QED BY <1>1, <1>2, <2>1, <2>2 DEF RequestOK, Carries
<1>5. Acts(q)'
    BY <1>1, PaidKept DEF RequestOK, Acts
<1>6. Confirms(q)'
    BY <1>1, <1>2 DEF RequestOK, Confirms
<1>7. Returns(q)'
    BY DEF RequestOK, Returns, Moves
<1>. QED BY <1>3, <1>4, <1>5, <1>6, <1>7 DEF RequestOK

\* One request at most moves, into a state it may be in.
OneMoves ==
    \/ UNCHANGED req
    \/ \E r \in Requests, q \in Progress : req' = [req EXCEPT ![r] = q] /\ RequestOK(q)'

LEMMA MoveTyped ==
    ASSUME req \in [Requests -> Progress], OneMoves PROVE req' \in [Requests -> Progress]
BY DEF OneMoves

LEMMA AllRequests ==
    ASSUME FlowsInv, TypeOK', Moves, OneMoves
    PROVE  \A r \in Requests : RequestOK(req[r])'
<1>. SUFFICES ASSUME NEW r \in Requests PROVE RequestOK(req[r])'
    OBVIOUS
<1>1. CASE req'[r] = req[r]
    BY <1>1, RequestsKept DEF FlowsInv, TypeOK
<1>2. CASE req'[r] # req[r]
    <2>1. PICK s \in Requests, q \in Progress : req' = [req EXCEPT ![s] = q] /\ RequestOK(q)'
        BY <1>2 DEF OneMoves
    <2>2. s = r /\ req'[r] = q
        BY <1>2, <2>1 DEF FlowsInv, TypeOK
    <2>. QED BY <2>1, <2>2
<1>. QED BY <1>1, <1>2

\* A transaction keeps what it binds, or it is gone.
TransactionsMove ==
    \A t \in Transactions :
        \/ /\ transactions'[t].bound = transactions[t].bound
           /\ t \in Stored(transactions) <=> t \in Stored(transactions')
        \/ transactions'[t] = Gone

LEMMA AllTransactions ==
    ASSUME FlowsInv, Moves, TransactionsMove
    PROVE  \A t \in Transactions : TransactionOK(t)'
<1>. SUFFICES ASSUME NEW t \in Transactions PROVE TransactionOK(t)'
    OBVIOUS
<1>1. CASE transactions'[t] = Gone
    BY <1>1 DEF TransactionOK, Stored, Gone
<1>2. CASE /\ transactions'[t].bound = transactions[t].bound
           /\ t \in Stored(transactions) <=> t \in Stored(transactions')
    BY <1>2, BindsKept DEF FlowsInv, TransactionOK
<1>. QED BY <1>1, <1>2 DEF TransactionsMove

LEMMA AllGrants ==
    ASSUME FlowsInv, TypeOK', Moves, \A g \in Grants : grants[g].state = "unissued" => grants'[g] = grants[g]
    PROVE  \A g \in Grants : GrantOK(g)'
<1>. SUFFICES ASSUME NEW g \in Grants PROVE GrantOK(g)'
    OBVIOUS
<1>1. CASE grants[g].state = "unissued"
    BY <1>1 DEF GrantOK
<1>2. CASE grants[g].state # "unissued"
    <2>1. /\ grants[g].account \in DOMAIN epoch /\ grants[g].epoch <= epoch[grants[g].account]
          /\ grants[g].epoch \in Nat /\ epoch[grants[g].account] \in Nat
        BY <1>2, EpochTyped, FlowsAssumption DEF FlowsInv, GrantOK, TypeOK, GrantStates, Epochs
    <2>2. \E existing \in SUBSET Accounts : epoch' \in [existing -> Epochs]
        BY DEF TypeOK
    <2>3. grants[g].account \in DOMAIN epoch' /\ epoch'[grants[g].account] \in Nat
          /\ epoch'[grants[g].account] >= epoch[grants[g].account]
        BY <2>1, <2>2, FlowsAssumption DEF Moves, Epochs
    <2>4. grants'[g].account = grants[g].account /\ grants'[g].epoch = grants[g].epoch
        BY <1>2 DEF Moves
    <2>. QED BY <2>1, <2>3, <2>4 DEF GrantOK
<1>. QED BY <1>1, <1>2

\* Nothing is due anywhere that was not due there before.
Loses ==
    /\ \A r \in Requests : /\ Due(r)' \in {Due(r), NoGrant}
                           /\ req'[r].transaction \in {req[r].transaction, NoTransaction}
    /\ \A t \in Transactions : Kept(t)' \in {Kept(t), NoGrant}

LEMMA ApartKept == ASSUME Apart, Loses PROVE Apart'
<1>1. ASSUME NEW r \in Requests, NEW s \in Requests, Due(r)' = Due(s)', Due(r)' # NoGrant
      PROVE  r = s
    BY <1>1 DEF Apart, Loses
<1>2. ASSUME NEW t \in Transactions, NEW u \in Transactions, Kept(t)' = Kept(u)', Kept(t)' # NoGrant
      PROVE  t = u
    BY <1>2 DEF Apart, Loses
<1>3. ASSUME NEW r \in Requests, NEW t \in Transactions, Due(r)' = Kept(t)'
      PROVE  Due(r)' = NoGrant
    BY <1>3 DEF Apart, Loses
<1>4. ASSUME NEW r \in Requests, NEW s \in Requests, req'[r].transaction = req'[s].transaction,
             req'[r].transaction # NoTransaction
      PROVE  r = s
    BY <1>4 DEF Apart, Loses
<1>. QED BY <1>1, <1>2, <1>3, <1>4 DEF Apart

LEMMA EffectsKept ==
    ASSUME EffectsCounted, Loses, Moves, UNCHANGED effects PROVE EffectsCounted'
<1>1. ASSUME NEW g \in Grants, effects[g] # 0
      PROVE  /\ effects[g] = 1 /\ grants'[g].state = "gone"
             /\ \A r \in Requests : Due(r)' # g
             /\ \A t \in Transactions : Kept(t)' # g
    <2>1. g # NoGrant
        BY FlowsAssumption
    <2>. QED BY <1>1, <2>1 DEF EffectsCounted, Loses, Moves
<1>. QED BY <1>1 DEF EffectsCounted

LEMMA OutcomesKept ==
    ASSUME OutcomesCounted, Loses, Moves, UNCHANGED outcomes PROVE OutcomesCounted'
<1>1. ASSUME NEW t \in Transactions, outcomes[t] # 0
      PROVE  /\ outcomes[t] = 1 /\ transactions'[t].status = "gone"
             /\ \A r \in Requests : req'[r].transaction # t
    <2>1. t # NoTransaction
        BY FlowsAssumption
    <2>. QED BY <1>1, <2>1 DEF OutcomesCounted, Loses, Moves
<1>. QED BY <1>1 DEF OutcomesCounted
LEMMA FlowsMove ==
    ASSUME FlowsInv, TypeOK', Moves, OneMoves, Loses, TransactionsMove,
           \/ \A g \in Grants : GrantOK(g)'
           \/ \A g \in Grants : grants[g].state = "unissued" => grants'[g] = grants[g],
           EffectsCounted' \/ UNCHANGED effects, OutcomesCounted' \/ UNCHANGED outcomes
    PROVE  FlowsInv'
<1>1. Apart' /\ EffectsCounted' /\ OutcomesCounted'
    BY ApartKept, EffectsKept, OutcomesKept DEF FlowsInv
<1>2. \A g \in Grants : GrantOK(g)'
    BY AllGrants
<1>. QED BY <1>1, <1>2, AllTransactions, AllRequests DEF FlowsInv

LEMMA IdleOK == Idle \in Progress /\ RequestOK(Idle) /\ Idle.pc \notin Entitled /\ Idle.transaction = NoTransaction
<1>1. Idle \in Progress
    BY FlowsAssumption DEF Idle, Progress, Unbound, Bindings, Epochs
<1>. QED BY <1>1 DEF Idle, Unbound, RequestOK, Asks, Carries, Acts, Confirms, Returns, Entitled, InCallback, Direct

\* Only what is issued, pending and linked decides about a request.
LEMMA StillOK ==
    ASSUME NEW q, RequestOK(q), UNCHANGED <<epoch, grants, transactions>> PROVE RequestOK(q)'
BY DEF RequestOK, Asks, Carries, Acts, Confirms, Returns, BindsOK, Paid

\* What one request's step makes of what is due.
LEMMA RequestLoses ==
    ASSUME req \in [Requests -> Progress], NEW r \in Requests, NEW q,
           req' = [req EXCEPT ![r] = q],
           q.pc \in Entitled => q.bound.grant \in {Due(r), NoGrant},
           q.transaction \in {req[r].transaction, NoTransaction},
           \A t \in Transactions : transactions'[t].bound \in {transactions[t].bound, Unbound}
    PROVE  Loses
<1>1. ASSUME NEW s \in Requests
      PROVE  Due(s)' \in {Due(s), NoGrant} /\ req'[s].transaction \in {req[s].transaction, NoTransaction}
    <2>1. CASE s = r
        <3>1. req'[s] = q
            BY <2>1
        <3>. QED BY <2>1, <3>1 DEF Due
    <2>2. CASE s # r
        <3>1. req'[s] = req[s]
            BY <2>2
        <3>. QED BY <3>1 DEF Due
    <2>. QED BY <2>1, <2>2
<1>2. \A t \in Transactions : Kept(t)' \in {Kept(t), NoGrant}
    BY DEF Kept, Unbound
<1>. QED BY <1>1, <1>2 DEF Loses

\* Most steps only move a request.
LEMMA RequestMoves ==
    ASSUME FlowsInv, NEW r \in Requests, NEW q \in Progress, req' = [req EXCEPT ![r] = q],
           UNCHANGED <<epoch, links, grants, transactions, history>>, RequestOK(q),
           q.pc \in Entitled => q.bound.grant \in {Due(r), NoGrant},
           q.transaction \in {req[r].transaction, NoTransaction}
    PROVE  FlowsInv'
<1>1. OneMoves
    BY StillOK DEF OneMoves
<1>2. TypeOK'
    BY <1>1, MoveTyped DEF FlowsInv, TypeOK, history
<1>3. Loses
    BY RequestLoses DEF FlowsInv, TypeOK
<1>4. Moves
    BY StableMoves DEF FlowsInv
<1>5. TransactionsMove
    BY DEF TransactionsMove, Stored
<1>. QED BY <1>1, <1>2, <1>3, <1>4, <1>5, FlowsMove DEF history

LEMMA AbortStep == ASSUME FlowsInv, NEW r \in Requests, Abort(r) PROVE FlowsInv'
BY IdleOK, RequestMoves DEF Abort, Ends

\* Beginnings: a login at once, everything else after a look at the epoch.
LEMMA StartsStep ==
    ASSUME FlowsInv, NEW r \in Requests, NEW s \in Sessions, NEW b \in Bindings, NEW pc,
           Starts(r, s, b, pc),
           \/ pc = "create" /\ b.operation = "login" /\ b.grant = NoGrant
           \/ /\ pc = "epoch" /\ b.operation \in Granted \cup Confirmations /\ b.account \in DOMAIN epoch
              /\ b.operation \in Confirmations => b.grant = NoGrant
              /\ b.operation \in Granted => b.grant \in Issued
    PROVE  FlowsInv'
<1>1. PICK c : c = [b EXCEPT !.session = s]
    OBVIOUS
<1>2. PICK since : since = IF pc = "epoch" /\ AfterGrant(b.operation) # "create"
                           THEN epoch[b.account] ELSE 0
    OBVIOUS
<1>3. PICK q : q = [Idle EXCEPT !.pc = pc, !.session = s, !.bound = c, !.since = since]
    OBVIOUS
<1>4. /\ c \in Bindings /\ c.session = s /\ c.operation = b.operation /\ c.account = b.account
      /\ c.grant = b.grant
    BY <1>1 DEF Bindings
<1>5. /\ since \in Epochs
      /\ b.operation \in Direct /\ pc = "epoch" => since = epoch[b.account]
    BY <1>2, EpochTyped, FlowsAssumption DEF FlowsInv, AfterGrant, Direct, Epochs
<1>6. /\ q \in Progress /\ q.pc = pc /\ q.session = s /\ q.bound = c /\ q.since = since
      /\ q.transaction = NoTransaction
    BY <1>3, <1>4, <1>5, IdleOK DEF Progress, Idle
<1>7. req' = [req EXCEPT ![r] = q] /\ UNCHANGED <<epoch, links, grants, transactions, history>>
    BY <1>1, <1>2, <1>3 DEF Starts
<1>8. CASE pc = "create" /\ b.operation = "login" /\ b.grant = NoGrant
    <2>1. RequestOK(q)
        BY <1>4, <1>6, <1>8 DEF RequestOK, Asks, Carries, Acts, Confirms, Returns, BindsOK,
           TwoLegged, Direct, Confirmations, InCallback
    <2>. QED BY <1>4, <1>6, <1>7, <1>8, <2>1, RequestMoves
<1>9. CASE /\ pc = "epoch" /\ b.operation \in Granted \cup Confirmations /\ b.account \in DOMAIN epoch
           /\ b.operation \in Confirmations => b.grant = NoGrant
           /\ b.operation \in Granted => b.grant \in Issued
    <2>1. b.operation \in Granted =>
            /\ b.grant \in Grants /\ grants[b.grant].state # "unissued"
            /\ grants[b.grant].account = b.account => grants[b.grant].epoch <= epoch[b.account]
        BY <1>9 DEF Issued, FlowsInv, GrantOK
    <2>2. epoch[b.account] \in Nat
        BY <1>9, EpochTyped DEF FlowsInv
    <2>3. b.operation \in Direct => b.operation \in Granted
        BY DEF Granted
    <2>4. Asks(q)
        BY <1>4, <1>5, <1>6, <1>9, <2>1, <2>2, <2>3 DEF Asks
    <2>5. RequestOK(q) /\ q.pc \notin Entitled
        BY <1>4, <1>6, <1>9, <2>4 DEF RequestOK, Carries, Acts, Confirms, Returns, Direct, InCallback, Entitled
    <2>. QED BY <1>6, <1>7, <2>5, RequestMoves
<1>. QED BY <1>8, <1>9

LEMMA BeginStep ==
    ASSUME FlowsInv, NEW r \in Requests, NEW s \in Sessions,
           \/ BeginLogin(r, s)
           \/ \E a \in DOMAIN epoch :
                \/ \E g \in Issued : BeginLink(r, a, s, g) \/ BeginRevoke(r, a, s, g)
                \/ \E i \in Identities :
                      \/ BeginConfirmation(r, a, i, s)
                      \/ \E g \in Issued : BeginUpgrade(r, a, i, s, g) \/ BeginUnlink(r, a, i, s, g)
    PROVE  FlowsInv'
<1>1. PICK u : u = Unbound
    OBVIOUS
<1>2. /\ u \in Bindings /\ u.grant = NoGrant
    BY <1>1, FlowsAssumption DEF Unbound, Bindings, Epochs
<1>3. DOMAIN epoch \subseteq Accounts /\ Issued \subseteq Grants
    BY EpochTyped DEF FlowsInv, Issued
<1>4. CASE BeginLogin(r, s)
    <2>1. PICK b : b = [u EXCEPT !.operation = "login"]
        OBVIOUS
    <2>2. b \in Bindings /\ b.operation = "login" /\ b.grant = NoGrant
        BY <1>2, <2>1 DEF Bindings
    <2>3. Starts(r, s, b, "create")
        BY <1>1, <1>4, <2>1 DEF BeginLogin
    <2>. QED BY <2>2, <2>3, StartsStep
<1>5. ASSUME NEW a \in DOMAIN epoch, NEW g \in Issued, BeginLink(r, a, s, g) \/ BeginRevoke(r, a, s, g)
      PROVE  FlowsInv'
    <2>1. PICK op \in {"link", "revoke"}, purpose \in Purposes :
            Starts(r, s, [u EXCEPT !.operation = op, !.account = a, !.purpose = purpose, !.grant = g],
                   "epoch")
        <3>1. CASE BeginLink(r, a, s, g)
            BY <1>1, <3>1 DEF BeginLink, Purposes
        <3>2. CASE BeginRevoke(r, a, s, g)
            BY <1>1, <3>2 DEF BeginRevoke, Purposes
        <3>. QED BY <1>5, <3>1, <3>2
    <2>2. PICK b : b = [u EXCEPT !.operation = op, !.account = a, !.purpose = purpose, !.grant = g]
        OBVIOUS
    <2>3. b \in Bindings /\ b.operation = op /\ b.account = a /\ b.grant = g
        BY <1>2, <1>3, <2>2 DEF Bindings
    <2>. QED BY <2>1, <2>2, <2>3, StartsStep DEF Granted, Direct, TwoLegged, Confirmations
<1>6. ASSUME NEW a \in DOMAIN epoch, NEW i \in Identities, NEW g \in Issued,
             BeginUpgrade(r, a, i, s, g) \/ BeginUnlink(r, a, i, s, g)
      PROVE  FlowsInv'
    <2>1. PICK op \in {"scope-upgrade", "unlink"}, purpose \in Purposes :
            Starts(r, s, [u EXCEPT !.operation = op, !.account = a, !.identity = i,
                                   !.purpose = purpose, !.grant = g], "epoch")
        <3>1. CASE BeginUpgrade(r, a, i, s, g)
            BY <1>1, <3>1 DEF BeginUpgrade, Purposes
        <3>2. CASE BeginUnlink(r, a, i, s, g)
            BY <1>1, <3>2 DEF BeginUnlink, Purposes
        <3>. QED BY <1>6, <3>1, <3>2
    <2>2. PICK b : b = [u EXCEPT !.operation = op, !.account = a, !.identity = i,
                                 !.purpose = purpose, !.grant = g]
        OBVIOUS
    <2>3. b \in Bindings /\ b.operation = op /\ b.account = a /\ b.grant = g
        BY <1>2, <1>3, <2>2 DEF Bindings
    <2>. QED BY <2>1, <2>2, <2>3, StartsStep DEF Granted, Direct, TwoLegged, Confirmations
<1>7. ASSUME NEW a \in DOMAIN epoch, NEW i \in Identities, BeginConfirmation(r, a, i, s)
      PROVE  FlowsInv'
    <2>1. CASE Starts(r, s, [Unbound EXCEPT !.operation = "revalidate", !.account = a, !.identity = i],
                      "epoch")
        <3>1. PICK b : b = [u EXCEPT !.operation = "revalidate", !.account = a, !.identity = i]
            OBVIOUS
        <3>2. b \in Bindings /\ b.operation = "revalidate" /\ b.account = a /\ b.grant = NoGrant
            BY <1>2, <1>3, <3>1 DEF Bindings
        <3>3. Starts(r, s, b, "epoch")
            BY <1>1, <2>1, <3>1
        <3>. QED BY <3>2, <3>3, StartsStep DEF Granted, Direct, TwoLegged, Confirmations
    <2>2. ASSUME NEW purpose \in Reauthentication,
                 Starts(r, s, [Unbound EXCEPT !.operation = "reauthenticate", !.account = a,
                                              !.identity = i, !.purpose = purpose], "epoch")
          PROVE  FlowsInv'
        <3>1. PICK b : b = [u EXCEPT !.operation = "reauthenticate", !.account = a, !.identity = i,
                                     !.purpose = purpose]
            OBVIOUS
        <3>2. b \in Bindings /\ b.operation = "reauthenticate" /\ b.account = a /\ b.grant = NoGrant
            BY <1>2, <1>3, <3>1, FlowsAssumption DEF Bindings
        <3>3. Starts(r, s, b, "epoch")
            BY <1>1, <2>2, <3>1
        <3>. QED BY <3>2, <3>3, StartsStep DEF Granted, Direct, TwoLegged, Confirmations
    <2>. QED BY <1>7, <2>1, <2>2 DEF BeginConfirmation
<1>. QED BY <1>4, <1>5, <1>6, <1>7
-----------------------------------------------------------------------------
(* Steps that only read.                                                    *)

LEMMA ReadEpochStep ==
    ASSUME FlowsInv, NEW r \in Requests, ReadEpoch(r) PROVE FlowsInv'
<1>1. PICK p : p = req[r]
    OBVIOUS
<1>2. p \in Progress /\ RequestOK(p) /\ p.pc = "epoch"
    BY <1>1 DEF FlowsInv, TypeOK, ReadEpoch, At
<1>3. PICK e : e = epoch[p.bound.account]
    OBVIOUS
<1>4. e \in Epochs /\ e \in Nat /\ p.bound.account \in DOMAIN epoch
    BY <1>2, <1>3, EpochTyped DEF FlowsInv, RequestOK, Asks
<1>5. PICK b : b = [p.bound EXCEPT !.epoch = e]
    OBVIOUS
<1>6. PICK pc : pc = IF p.bound.operation \in Confirmations THEN "create" ELSE "consume"
    OBVIOUS
<1>7. PICK q : q = [p EXCEPT !.bound = b, !.pc = pc]
    OBVIOUS
<1>8. /\ b \in Bindings /\ b.epoch = e /\ b.operation = p.bound.operation /\ b.account = p.bound.account
      /\ b.grant = p.bound.grant /\ b.session = p.bound.session
    BY <1>2, <1>4, <1>5 DEF Progress, Bindings
<1>9. /\ q \in Progress /\ q.bound = b /\ q.pc = pc /\ q.session = p.session /\ q.since = p.since
      /\ q.transaction = p.transaction
    BY <1>2, <1>6, <1>7, <1>8 DEF Progress
<1>10. req' = [req EXCEPT ![r] = q] /\ UNCHANGED <<epoch, links, grants, transactions, history>>
    <2>1. req' = [req EXCEPT ![r].bound.epoch = e, ![r].pc = pc]
        BY <1>1, <1>3, <1>6 DEF ReadEpoch
    <2>. QED BY <1>1, <1>5, <1>7, <2>1 DEF FlowsInv, TypeOK, ReadEpoch
<1>11. /\ p.session = p.bound.session /\ p.transaction = NoTransaction
       /\ p.bound.operation \in Granted \cup Confirmations
       /\ p.bound.operation \in Confirmations => p.bound.grant = NoGrant
    BY <1>2 DEF RequestOK, Asks, Returns, InCallback
<1>12. CASE p.bound.operation \in Confirmations
    <2>1. pc = "create" /\ b.grant = NoGrant /\ b.operation \in Confirmations
        BY <1>6, <1>8, <1>11, <1>12
    <2>2. BindsOK(b)
        BY <1>4, <1>8, <2>1 DEF BindsOK, TwoLegged, Confirmations
    <2>3. RequestOK(q)
        BY <1>8, <1>9, <1>11, <2>1, <2>2
           DEF RequestOK, Asks, Carries, Acts, Confirms, Returns, Direct, InCallback
    <2>. QED BY <1>9, <1>10, <1>11, <2>1, <2>3, RequestMoves
<1>13. CASE p.bound.operation \notin Confirmations
    <2>1. pc = "consume" /\ b.operation \in Granted
        BY <1>6, <1>8, <1>11, <1>13
    <2>2. Asks(q)
        BY <1>2, <1>3, <1>4, <1>8, <1>9, <1>13, <2>1 DEF RequestOK, Asks
    <2>3. RequestOK(q) /\ q.pc \notin Entitled
        BY <1>8, <1>9, <1>11, <2>1, <2>2
           DEF RequestOK, Carries, Acts, Confirms, Returns, Direct, InCallback, Entitled
    <2>. QED BY <1>9, <1>10, <1>11, <2>3, RequestMoves
<1>. QED BY <1>12, <1>13

\* A request that goes on in its callback with what it has.
LEMMA GoesOn ==
    ASSUME FlowsInv, NEW r \in Requests, NEW q \in Progress, req' = [req EXCEPT ![r] = q],
           UNCHANGED <<epoch, links, grants, transactions, history>>,
           req[r].pc \in InCallback, q.pc \in InCallback,
           q.bound = req[r].bound, q.session = req[r].session, q.transaction = req[r].transaction,
           q.pc # "exchange" => q.seen \in Identities,
           Carries(q), Confirms(q),
           q.pc \in Entitled => req[r].pc \in Entitled
    PROVE  FlowsInv'
<1>1. RequestOK(req[r])
    BY DEF FlowsInv
<1>2. RequestOK(q)
    BY <1>1 DEF RequestOK, Asks, Acts, Returns, InCallback, Direct
<1>. QED BY <1>2, RequestMoves DEF Due

LEMMA ExchangeStep ==
    ASSUME FlowsInv, NEW r \in Requests, NEW i \in Identities, Exchange(r, i) PROVE FlowsInv'
<1>1. PICK p : p = req[r]
    OBVIOUS
<1>2. p \in Progress /\ RequestOK(p) /\ p.pc = "exchange"
    BY <1>1 DEF FlowsInv, TypeOK, Exchange, At
<1>3. PICK pc : pc = AfterExchange(p.bound.operation)
    OBVIOUS
<1>4. PICK q : q = [p EXCEPT !.seen = i, !.pc = pc]
    OBVIOUS
<1>5. BindsOK(p.bound) /\ p.bound.operation \in TwoLegged \cup Confirmations \cup {"login"}
    BY <1>2 DEF RequestOK, Carries, BindsOK
<1>6. /\ p.bound.operation \in Confirmations => pc = "confirming"
      /\ p.bound.operation = "login" => pc = "commit"
      /\ p.bound.operation \in TwoLegged => pc = "proof"
    BY <1>3 DEF AfterExchange, Confirmations, TwoLegged
<1>7. /\ q \in Progress /\ q.pc = pc /\ q.seen = i /\ q.bound = p.bound /\ q.session = p.session
      /\ q.transaction = p.transaction /\ q.since = p.since
    BY <1>2, <1>4, <1>5, <1>6 DEF Progress
<1>8. req' = [req EXCEPT ![r] = q] /\ UNCHANGED <<epoch, links, grants, transactions, history>>
    BY <1>1, <1>3, <1>4 DEF Exchange
<1>9. Carries(q)
    BY <1>2, <1>5, <1>6, <1>7 DEF RequestOK, Carries, Confirmations, TwoLegged
<1>10. Confirms(q)
    BY <1>5, <1>6, <1>7 DEF Confirms, BindsOK, Confirmations, TwoLegged
<1>. QED BY <1>1, <1>2, <1>5, <1>6, <1>7, <1>8, <1>9, <1>10, GoesOn DEF InCallback, Entitled

LEMMA ProofStep ==
    ASSUME FlowsInv, NEW r \in Requests, Proof(r) PROVE FlowsInv'
<1>1. PICK p : p = req[r]
    OBVIOUS
<1>2. p \in Progress /\ RequestOK(p) /\ p.pc = "proof"
    BY <1>1 DEF FlowsInv, TypeOK, Proof, At
<1>3. UNCHANGED <<epoch, links, grants, transactions, history>>
    BY DEF Proof
<1>4. CASE Current(r) = req[r].bound.epoch
    <2>1. PICK q : q = [p EXCEPT !.pc = "commit"]
        OBVIOUS
    <2>2. /\ q \in Progress /\ q.pc = "commit" /\ q.bound = p.bound /\ q.session = p.session
          /\ q.transaction = p.transaction /\ q.since = p.since /\ q.seen = p.seen
        BY <1>2, <2>1 DEF Progress
    <2>3. req' = [req EXCEPT ![r] = q]
        BY <1>1, <1>4, <2>1 DEF Proof, Goes
    <2>4. /\ BindsOK(p.bound) /\ p.bound.operation \in TwoLegged /\ p.bound.account \in DOMAIN epoch
          /\ p.bound.epoch <= p.since /\ p.since <= epoch[p.bound.account]
        BY <1>2 DEF RequestOK, Carries, BindsOK, TwoLegged
    <2>5. p.since = p.bound.epoch
        <3>1. epoch[p.bound.account] = p.bound.epoch
            BY <1>1, <1>4 DEF Current
        <3>2. p.bound.epoch \in Nat /\ p.since \in Nat
            BY <1>2, FlowsAssumption DEF Progress, Bindings, Epochs
        <3>. QED BY <2>4, <3>1, <3>2
    <2>6. Carries(q)
        BY <2>2, <2>4, <2>5 DEF Carries, Confirmations, TwoLegged
    <2>7. Confirms(q)
        BY <2>2 DEF Confirms
    <2>8. q.seen \in Identities
        BY <1>2, <2>2 DEF RequestOK, Returns, InCallback
    <2>. QED BY <1>1, <1>2, <1>3, <2>2, <2>3, <2>6, <2>7, <2>8, GoesOn DEF InCallback, Entitled
<1>5. CASE Current(r) # req[r].bound.epoch
    BY <1>3, <1>5, IdleOK, RequestMoves DEF Proof, Ends
<1>. QED BY <1>4, <1>5

LEMMA ConfirmingStep ==
    ASSUME FlowsInv, NEW r \in Requests, Confirming(r) PROVE FlowsInv'
<1>1. PICK p : p = req[r]
    OBVIOUS
<1>2. p \in Progress /\ RequestOK(p) /\ p.pc = "confirming"
    BY <1>1 DEF FlowsInv, TypeOK, Confirming, At
<1>3. UNCHANGED <<epoch, links, grants, transactions, history>>
    BY DEF Confirming
<1>4. CASE Goes(r, "confirm")
    <2>1. PICK q : q = [p EXCEPT !.pc = "confirm"]
        OBVIOUS
    <2>2. /\ q \in Progress /\ q.pc = "confirm" /\ q.bound = p.bound /\ q.session = p.session
          /\ q.transaction = p.transaction /\ q.seen = p.seen
        BY <1>2, <2>1 DEF Progress
    <2>3. req' = [req EXCEPT ![r] = q]
        BY <1>1, <1>4, <2>1 DEF Goes
    <2>4. Confirms(q) /\ Carries(q) /\ q.seen \in Identities
        BY <1>2, <2>2 DEF RequestOK, Confirms, Carries, Returns, InCallback
    <2>. QED BY <1>1, <1>2, <1>3, <2>2, <2>3, <2>4, GoesOn DEF InCallback, Entitled, Direct
<1>5. CASE Ends(r)
    BY <1>3, <1>5, IdleOK, RequestMoves DEF Ends
<1>. QED BY <1>4, <1>5 DEF Confirming

LEMMA RereadStep ==
    ASSUME FlowsInv, NEW r \in Requests, Reread(r) PROVE FlowsInv'
<1>1. PICK p : p = req[r]
    OBVIOUS
<1>2. p \in Progress /\ RequestOK(p) /\ p.pc = "reread"
    BY <1>1 DEF FlowsInv, TypeOK, Reread, At
<1>3. PICK e : e = epoch[p.bound.account]
    OBVIOUS
<1>4. e \in Epochs /\ e \in Nat
    BY <1>2, <1>3, EpochTyped DEF FlowsInv, RequestOK, Confirms
<1>5. PICK q : q = [p EXCEPT !.pc = "issue", !.read = e]
    OBVIOUS
<1>6. /\ q \in Progress /\ q.pc = "issue" /\ q.bound = p.bound /\ q.session = p.session
      /\ q.transaction = p.transaction /\ q.seen = p.seen /\ q.read = e
    BY <1>2, <1>4, <1>5 DEF Progress
<1>7. req' = [req EXCEPT ![r] = q] /\ UNCHANGED <<epoch, links, grants, transactions, history>>
    BY <1>1, <1>3, <1>5 DEF Reread, Current
<1>8. Confirms(q) /\ Carries(q) /\ q.seen \in Identities
    BY <1>2, <1>3, <1>4, <1>6 DEF RequestOK, Confirms, Carries, Returns, InCallback
<1>. QED BY <1>1, <1>2, <1>6, <1>7, <1>8, GoesOn DEF InCallback, Entitled, Direct
-----------------------------------------------------------------------------
(* Steps that count: a request ends with an effect, an outcome or both.     *)

LEMMA EffectTaken ==
    ASSUME FlowsInv, NEW r \in Requests, Due(r) \in Grants, grants[Due(r)].state = "gone",
           Took(r), req[r].bound.grant = Due(r), Ends(r), UNCHANGED <<grants, transactions>>
    PROVE  EffectsCounted' /\ effects' \in [Grants -> Nat]
<1>1. PICK g \in Grants : g = Due(r)
    OBVIOUS
<1>2. effects \in [Grants -> Nat] /\ g # NoGrant
    BY FlowsAssumption DEF FlowsInv, TypeOK
<1>3. effects[g] = 0
    BY <1>1 DEF FlowsInv, EffectsCounted
<1>4. effects' = [effects EXCEPT ![g] = 1]
    BY <1>1, <1>2, <1>3 DEF Took
<1>5. \A s \in Requests : Due(s)' # g /\ Due(s)' \in {Due(s), NoGrant}
    <2>. SUFFICES ASSUME NEW s \in Requests PROVE Due(s)' # g /\ Due(s)' \in {Due(s), NoGrant}
        OBVIOUS
    <2>1. CASE s = r
        <3>1. req'[s] = Idle
            BY <2>1 DEF Ends, FlowsInv, TypeOK
        <3>. QED BY <1>2, <3>1, IdleOK DEF Due
    <2>2. CASE s # r
        <3>1. req'[s] = req[s]
            BY <2>2 DEF Ends, FlowsInv, TypeOK
        <3>2. Due(s) # g
            BY <1>1, <1>2, <2>2 DEF FlowsInv, Apart
        <3>. QED BY <3>1, <3>2 DEF Due
    <2>. QED BY <2>1, <2>2
<1>6. \A t \in Transactions : Kept(t) # g /\ Kept(t)' = Kept(t)
    BY <1>1, <1>2 DEF FlowsInv, Apart, Kept
<1>7. ASSUME NEW h \in Grants, effects'[h] # 0
      PROVE  /\ effects'[h] = 1 /\ grants'[h].state = "gone"
             /\ \A s \in Requests : Due(s)' # h
             /\ \A t \in Transactions : Kept(t)' # h
    <2>1. CASE h = g
        BY <1>1, <1>2, <1>4, <1>5, <1>6, <2>1
    <2>2. CASE h # g
        <3>1. effects'[h] = effects[h] /\ h # NoGrant
            BY <1>2, <1>4, <2>2, FlowsAssumption
        <3>2. /\ effects[h] = 1 /\ grants[h].state = "gone"
              /\ \A s \in Requests : Due(s) # h
              /\ \A t \in Transactions : Kept(t) # h
            BY <1>7, <3>1 DEF FlowsInv, EffectsCounted
        <3>. QED BY <1>5, <1>6, <3>1, <3>2
    <2>. QED BY <2>1, <2>2
<1>. QED BY <1>2, <1>4, <1>7 DEF EffectsCounted

LEMMA OutcomeCompleted ==
    ASSUME FlowsInv, NEW r \in Requests, req[r].pc \in InCallback, Completed(r), Ends(r),
           UNCHANGED transactions
    PROVE  OutcomesCounted' /\ outcomes' \in [Transactions -> Nat]
<1>1. req[r].transaction \in Transactions /\ transactions[req[r].transaction].status = "gone"
    BY DEF FlowsInv, RequestOK, Returns
<1>2. PICK t \in Transactions : t = req[r].transaction
    BY <1>1
<1>3. outcomes \in [Transactions -> Nat] /\ t # NoTransaction
    BY FlowsAssumption DEF FlowsInv, TypeOK
<1>4. outcomes[t] = 0
    BY <1>2 DEF FlowsInv, OutcomesCounted
<1>5. outcomes' = [outcomes EXCEPT ![t] = 1]
    BY <1>2, <1>3, <1>4 DEF Completed
<1>6. \A s \in Requests : req'[s].transaction # t
                          /\ req'[s].transaction \in {req[s].transaction, NoTransaction}
    <2>. SUFFICES ASSUME NEW s \in Requests
                  PROVE  req'[s].transaction # t
                         /\ req'[s].transaction \in {req[s].transaction, NoTransaction}
        OBVIOUS
    <2>1. CASE s = r
        <3>1. req'[s] = Idle
            BY <2>1 DEF Ends, FlowsInv, TypeOK
        <3>. QED BY <1>3, <3>1, IdleOK
    <2>2. CASE s # r
        <3>1. req'[s] = req[s]
            BY <2>2 DEF Ends, FlowsInv, TypeOK
        <3>. QED BY <1>2, <1>3, <2>2, <3>1 DEF FlowsInv, Apart
    <2>. QED BY <2>1, <2>2
<1>7. ASSUME NEW u \in Transactions, outcomes'[u] # 0
      PROVE  /\ outcomes'[u] = 1 /\ transactions'[u].status = "gone"
             /\ \A s \in Requests : req'[s].transaction # u
    <2>1. CASE u = t
        BY <1>1, <1>2, <1>3, <1>5, <1>6, <2>1
    <2>2. CASE u # t
        <3>1. outcomes'[u] = outcomes[u] /\ u # NoTransaction
            BY <1>3, <1>5, <2>2, FlowsAssumption
        <3>2. /\ outcomes[u] = 1 /\ transactions[u].status = "gone"
              /\ \A s \in Requests : req[s].transaction # u
            BY <1>7, <3>1 DEF FlowsInv, OutcomesCounted
        <3>. QED BY <1>6, <3>1, <3>2
    <2>. QED BY <2>1, <2>2
<1>. QED BY <1>3, <1>5, <1>7 DEF OutcomesCounted

LEMMA Settles ==
    ASSUME FlowsInv, NEW r \in Requests, Ends(r), UNCHANGED transactions,
           \E existing \in SUBSET Accounts : epoch' \in [existing -> Epochs],
           links' \in [Identities -> DOMAIN epoch' \cup {NoOne}], grants' \in [Grants -> GrantStates],
           Moves,
           \/ \A g \in Grants : GrantOK(g)'
           \/ \A g \in Grants : grants[g].state = "unissued" => grants'[g] = grants[g],
           (effects' \in [Grants -> Nat] /\ EffectsCounted') \/ UNCHANGED effects,
           (outcomes' \in [Transactions -> Nat] /\ OutcomesCounted') \/ UNCHANGED outcomes
    PROVE  FlowsInv'
<1>1. RequestOK(Idle)'
    BY DEF Idle, Unbound, RequestOK, Asks, Carries, Acts, Confirms, Returns, InCallback, Direct
<1>2. OneMoves
    BY <1>1, IdleOK DEF Ends, OneMoves
<1>3. TypeOK'
    BY <1>2, MoveTyped DEF FlowsInv, TypeOK
<1>4. Loses
    BY IdleOK, RequestLoses DEF Ends, FlowsInv, TypeOK
<1>5. TransactionsMove
    BY DEF TransactionsMove, Stored
<1>. QED BY <1>2, <1>3, <1>4, <1>5, FlowsMove

LEMMA CommitLoginStep ==
    ASSUME FlowsInv, NEW r \in Requests, CommitLogin(r) PROVE FlowsInv'
<1>1. req[r].pc = "commit" /\ req[r].seen \in Identities
    BY DEF CommitLogin, At, FlowsInv, RequestOK, Returns, InCallback
<1>2. Ends(r) /\ Completed(r) /\ UNCHANGED <<grants, transactions, effects>>
    BY DEF CommitLogin
<1>3. outcomes' \in [Transactions -> Nat] /\ OutcomesCounted'
    BY <1>1, <1>2, OutcomeCompleted DEF InCallback
<1>4. CASE UNCHANGED <<epoch, links>>
    BY <1>2, <1>3, <1>4, Settles, StableMoves DEF FlowsInv, TypeOK
<1>5. ASSUME NEW a \in Accounts \ DOMAIN epoch, links' = [links EXCEPT ![req[r].seen] = a],
             epoch' = Provisioned(a)
      PROVE  FlowsInv'
    <2>1. epoch \in [DOMAIN epoch -> Epochs] /\ DOMAIN epoch \subseteq Accounts
          /\ \A b \in DOMAIN epoch : epoch[b] \in Nat
        BY EpochTyped DEF FlowsInv
    <2>2. /\ epoch' \in [DOMAIN epoch \cup {a} -> Epochs] /\ DOMAIN epoch' = DOMAIN epoch \cup {a}
          /\ \A b \in DOMAIN epoch : epoch'[b] = epoch[b]
        BY <1>5, <2>1, FlowsAssumption DEF Provisioned, Epochs
    <2>3. links' \in [Identities -> DOMAIN epoch' \cup {NoOne}]
        BY <1>1, <1>5, <2>2 DEF FlowsInv, TypeOK
    <2>4. DOMAIN epoch \cup {a} \in SUBSET Accounts
        BY <2>1
    <2>5. \E existing \in SUBSET Accounts : epoch' \in [existing -> Epochs]
        BY <2>2, <2>4
    <2>6. Moves
        BY <1>2, <2>1, <2>2 DEF Moves
    <2>. QED BY <1>2, <1>3, <2>3, <2>5, <2>6, Settles DEF FlowsInv, TypeOK
<1>. QED BY <1>4, <1>5 DEF CommitLogin

LEMMA CommitLinkStep ==
    ASSUME FlowsInv, NEW r \in Requests, CommitLink(r) PROVE FlowsInv'
<1>1. /\ req[r].pc = "commit" /\ req[r].seen \in Identities /\ req[r].bound.operation = "link"
      /\ BindsOK(req[r].bound)
    BY DEF CommitLink, At, FlowsInv, RequestOK, Returns, Carries, InCallback
<1>2. req[r].bound.account \in DOMAIN epoch /\ Paid(req[r].bound)
    BY <1>1 DEF BindsOK, TwoLegged
<1>3. /\ Ends(r) /\ Completed(r) /\ Took(r) /\ UNCHANGED <<epoch, grants, transactions>>
      /\ links' = [links EXCEPT ![req[r].seen] = req[r].bound.account]
    BY DEF CommitLink
<1>4. outcomes' \in [Transactions -> Nat] /\ OutcomesCounted'
    BY <1>1, <1>3, OutcomeCompleted DEF InCallback
<1>5. Due(r) = req[r].bound.grant /\ Due(r) \in Grants /\ grants[Due(r)].state = "gone"
    BY <1>1, <1>2 DEF Due, Entitled, Paid
<1>6. effects' \in [Grants -> Nat] /\ EffectsCounted'
    BY <1>3, <1>5, EffectTaken
<1>7. links' \in [Identities -> DOMAIN epoch' \cup {NoOne}]
    BY <1>1, <1>2, <1>3 DEF FlowsInv, TypeOK
<1>. QED BY <1>3, <1>4, <1>6, <1>7, Settles, StableMoves DEF FlowsInv, TypeOK

LEMMA CommitUpgradeStep ==
    ASSUME FlowsInv, NEW r \in Requests, CommitUpgrade(r) PROVE FlowsInv'
<1>1. /\ req[r].pc = "commit" /\ req[r].bound.operation = "scope-upgrade" /\ BindsOK(req[r].bound)
    BY DEF CommitUpgrade, At, FlowsInv, RequestOK, Carries
<1>2. Paid(req[r].bound)
    BY <1>1 DEF BindsOK, TwoLegged
<1>3. Ends(r) /\ Completed(r) /\ Took(r) /\ UNCHANGED <<epoch, links, grants, transactions>>
    BY DEF CommitUpgrade
<1>4. outcomes' \in [Transactions -> Nat] /\ OutcomesCounted'
    BY <1>1, <1>3, OutcomeCompleted DEF InCallback
<1>5. Due(r) = req[r].bound.grant /\ Due(r) \in Grants /\ grants[Due(r)].state = "gone"
    BY <1>1, <1>2 DEF Due, Entitled, Paid
<1>6. effects' \in [Grants -> Nat] /\ EffectsCounted'
    BY <1>3, <1>5, EffectTaken
<1>. QED BY <1>3, <1>4, <1>6, Settles, StableMoves DEF FlowsInv, TypeOK

LEMMA ConfirmStep ==
    ASSUME FlowsInv, NEW r \in Requests, Confirm(r) PROVE FlowsInv'
<1>1. PICK p : p = req[r]
    OBVIOUS
<1>2. p \in Progress /\ RequestOK(p) /\ p.pc = "confirm"
    BY <1>1 DEF FlowsInv, TypeOK, Confirm, At
<1>3. UNCHANGED <<epoch, links, grants, transactions, effects>>
    BY DEF Confirm
<1>4. CASE Completed(r) /\ Ends(r)
    <2>1. outcomes' \in [Transactions -> Nat] /\ OutcomesCounted'
        BY <1>1, <1>2, <1>3, <1>4, OutcomeCompleted DEF InCallback
    <2>. QED BY <1>3, <1>4, <2>1, Settles, StableMoves DEF FlowsInv, TypeOK
<1>5. CASE ConfirmedIdentity(r) /\ Goes(r, "reread") /\ UNCHANGED outcomes
    <2>1. PICK q : q = [p EXCEPT !.pc = "reread"]
        OBVIOUS
    <2>2. /\ q \in Progress /\ q.pc = "reread" /\ q.bound = p.bound /\ q.session = p.session
          /\ q.transaction = p.transaction /\ q.seen = p.seen
        BY <1>2, <2>1 DEF Progress
    <2>3. req' = [req EXCEPT ![r] = q] /\ p.seen = p.bound.identity
        BY <1>1, <1>5, <2>1 DEF Goes, ConfirmedIdentity
    <2>4. Confirms(q) /\ Carries(q) /\ q.seen \in Identities
        BY <1>2, <2>2, <2>3 DEF RequestOK, Confirms, Carries, Returns, InCallback
    <2>. QED BY <1>1, <1>2, <1>3, <1>5, <2>2, <2>3, <2>4, GoesOn DEF InCallback, Entitled, Direct, history
<1>6. CASE Ends(r) /\ UNCHANGED outcomes
    BY <1>3, <1>6, IdleOK, RequestMoves DEF Ends, history
<1>. QED BY <1>4, <1>5, <1>6 DEF Confirm

LEMMA IssueStep ==
    ASSUME FlowsInv, NEW r \in Requests, NEW g \in Grants, Issue(r, g) PROVE FlowsInv'
<1>1. PICK p : p = req[r]
    OBVIOUS
<1>2. p \in Progress /\ RequestOK(p) /\ p.pc = "issue"
    BY <1>1 DEF FlowsInv, TypeOK, Issue, At
<1>3. /\ p.bound.account \in DOMAIN epoch /\ p.read <= epoch[p.bound.account]
      /\ p.bound \in Bindings /\ p.read \in Epochs /\ p.session \in Sessions \cup {NoOne}
    BY <1>2 DEF RequestOK, Confirms, Progress
<1>4. PICK e : e = [state |-> "live", account |-> p.bound.account, purpose |-> p.bound.purpose,
                    session |-> p.session, epoch |-> p.read, proved |-> p.bound.epoch]
    OBVIOUS
<1>5. e \in GrantStates /\ e.state = "live" /\ e.account = p.bound.account /\ e.epoch = p.read
    BY <1>3, <1>4, EpochTyped DEF GrantStates, Bindings, FlowsInv
<1>6. /\ grants[g].state = "unissued" /\ grants' = [grants EXCEPT ![g] = e]
      /\ Completed(r) /\ Ends(r) /\ UNCHANGED <<epoch, links, transactions, effects>>
    BY <1>1, <1>4 DEF Issue
<1>7. outcomes' \in [Transactions -> Nat] /\ OutcomesCounted'
    BY <1>1, <1>2, <1>6, OutcomeCompleted DEF InCallback
<1>8. /\ grants' \in [Grants -> GrantStates] /\ grants'[g] = e
      /\ \A h \in Grants : h # g => grants'[h] = grants[h]
    BY <1>5, <1>6 DEF FlowsInv, TypeOK
<1>9. Moves
    BY <1>6, <1>8, EpochTyped DEF Moves, FlowsInv
<1>10. \A h \in Grants : GrantOK(h)'
    BY <1>3, <1>5, <1>6, <1>8 DEF FlowsInv, GrantOK
<1>. QED BY <1>6, <1>7, <1>8, <1>9, <1>10, Settles DEF FlowsInv, TypeOK

LEMMA UnlinkStep ==
    ASSUME FlowsInv, NEW r \in Requests, Unlink(r) PROVE FlowsInv'
<1>1. req[r].pc = "unlink" /\ Paid(req[r].bound)
    BY DEF Unlink, At, FlowsInv, RequestOK, Acts, Direct
<1>2. Due(r) = req[r].bound.grant /\ Due(r) \in Grants /\ grants[Due(r)].state = "gone"
    BY <1>1 DEF Due, Entitled, Paid, Direct
<1>3. Ends(r) /\ UNCHANGED <<epoch, grants, transactions, outcomes>>
    BY DEF Unlink
<1>4. (effects' \in [Grants -> Nat] /\ EffectsCounted') \/ UNCHANGED effects
    BY <1>2, <1>3, EffectTaken DEF Unlink
<1>5. links' \in [Identities -> DOMAIN epoch' \cup {NoOne}]
    BY <1>3 DEF FlowsInv, TypeOK, Unlink
<1>. QED BY <1>3, <1>4, <1>5, Settles, StableMoves DEF FlowsInv, TypeOK

LEMMA RevokeStep ==
    ASSUME FlowsInv, NEW r \in Requests, Revoke(r) PROVE FlowsInv'
<1>1. req[r].pc = "revoke" /\ Paid(req[r].bound)
    BY DEF Revoke, At, FlowsInv, RequestOK, Acts, Direct
<1>2. Due(r) = req[r].bound.grant /\ Due(r) \in Grants /\ grants[Due(r)].state = "gone"
    BY <1>1 DEF Due, Entitled, Paid, Direct
<1>3. Ends(r) /\ UNCHANGED <<epoch, links, grants, transactions, outcomes>>
    BY DEF Revoke
<1>4. (effects' \in [Grants -> Nat] /\ EffectsCounted') \/ UNCHANGED effects
    BY <1>2, <1>3, EffectTaken DEF Revoke
<1>. QED BY <1>3, <1>4, Settles, StableMoves DEF FlowsInv, TypeOK
-----------------------------------------------------------------------------
(* The steps of nobody's request.                                           *)

LEMMA RequestsStay ==
    ASSUME FlowsInv, UNCHANGED req, TypeOK', Moves, TransactionsMove, UNCHANGED history,
           \/ \A g \in Grants : GrantOK(g)'
           \/ \A g \in Grants : grants[g].state = "unissued" => grants'[g] = grants[g]
    PROVE  FlowsInv'
<1>1. OneMoves
    BY DEF OneMoves
<1>2. Loses
    BY DEF Loses, Due, Kept, TransactionsMove, Gone, Unbound
<1>. QED BY <1>1, <1>2, FlowsMove DEF history

LEMMA BumpEpochStep ==
    ASSUME FlowsInv, NEW a \in Accounts, BumpEpoch(a) PROVE FlowsInv'
<1>1. /\ a \in DOMAIN epoch /\ epoch[a] < MaxEpoch /\ epoch' = [epoch EXCEPT ![a] = @ + 1]
      /\ UNCHANGED <<links, grants, transactions, req, history>>
    BY DEF BumpEpoch
<1>2. /\ DOMAIN epoch \subseteq Accounts /\ epoch \in [DOMAIN epoch -> Epochs]
      /\ \A b \in DOMAIN epoch : epoch[b] \in Nat
    BY EpochTyped DEF FlowsInv
<1>3. epoch[a] + 1 \in Epochs
    BY <1>1, <1>2, FlowsAssumption DEF Epochs
<1>4. /\ epoch' \in [DOMAIN epoch -> Epochs] /\ DOMAIN epoch' = DOMAIN epoch
      /\ \A b \in DOMAIN epoch : epoch'[b] >= epoch[b]
    BY <1>1, <1>2, <1>3
<1>5. TypeOK'
    BY <1>1, <1>2, <1>4 DEF FlowsInv, TypeOK, history
<1>6. Moves
    BY <1>1, <1>4 DEF Moves
<1>7. TransactionsMove
    BY <1>1 DEF TransactionsMove, Stored
<1>. QED BY <1>1, <1>5, <1>6, <1>7, RequestsStay

LEMMA ExpireStep ==
    ASSUME FlowsInv, NEW t \in Transactions, Expire(t) PROVE FlowsInv'
<1>1. /\ transactions[t].status = "pending" /\ UNCHANGED <<epoch, links, grants, req, history>>
      /\ transactions' = [transactions EXCEPT ![t].status = "expired"]
    BY DEF Expire
<1>2. TypeOK'
    BY <1>1 DEF FlowsInv, TypeOK, history
<1>3. /\ transactions'[t].status = "expired" /\ transactions'[t].bound = transactions[t].bound
      /\ \A u \in Transactions : u # t => transactions'[u] = transactions[u]
    BY <1>1 DEF FlowsInv, TypeOK
<1>4. Moves
    BY <1>1, <1>3, StableMoves DEF FlowsInv
<1>5. TransactionsMove
    BY <1>1, <1>3 DEF TransactionsMove, Stored
<1>. QED BY <1>1, <1>2, <1>4, <1>5, RequestsStay

LEMMA StepUpStep ==
    ASSUME FlowsInv, NEW g \in Grants, NEW a \in Accounts, NEW s \in Sessions,
           NEW purpose \in StepUpPurposes, StepUp(g, a, s, purpose)
    PROVE  FlowsInv'
<1>1. PICK e : e = [state |-> "live", account |-> a, purpose |-> purpose, session |-> s,
                    epoch |-> epoch[a], proved |-> epoch[a]]
    OBVIOUS
<1>2. /\ grants[g].state = "unissued" /\ a \in DOMAIN epoch /\ grants' = [grants EXCEPT ![g] = e]
      /\ UNCHANGED <<epoch, links, transactions, req, history>>
    BY <1>1 DEF StepUp
<1>3. epoch[a] \in Epochs /\ epoch[a] \in Nat
    BY <1>2, EpochTyped DEF FlowsInv
<1>4. e \in GrantStates /\ e.state = "live" /\ e.account = a /\ e.epoch = epoch[a]
    BY <1>1, <1>3, FlowsAssumption DEF GrantStates
<1>5. /\ grants' \in [Grants -> GrantStates] /\ grants'[g] = e
      /\ \A h \in Grants : h # g => grants'[h] = grants[h]
    BY <1>2, <1>4 DEF FlowsInv, TypeOK
<1>6. TypeOK'
    BY <1>2, <1>5 DEF FlowsInv, TypeOK, history
<1>7. Moves
    BY <1>2, <1>5, EpochTyped DEF Moves, FlowsInv
<1>8. \A h \in Grants : GrantOK(h)'
    BY <1>2, <1>3, <1>4, <1>5 DEF FlowsInv, GrantOK
<1>9. TransactionsMove
    BY <1>2 DEF TransactionsMove, Stored
<1>. QED BY <1>2, <1>6, <1>7, <1>8, <1>9, RequestsStay
-----------------------------------------------------------------------------
(* Steps that hand on what is due.                                          *)

\* An effect that becomes due to a request was due to nobody who keeps it.
LEMMA RequestGains ==
    ASSUME Apart, EffectsCounted, Moves, UNCHANGED effects, NEW r \in Requests,
           NEW g \in Grants \cup {NoGrant}, Due(r)' \in {g, NoGrant},
           g \in Grants => effects[g] = 0,
           \A s \in Requests \ {r} : Due(s)' \in {Due(s), NoGrant} /\ (Due(s)' = g => g = NoGrant),
           \A t \in Transactions : Kept(t)' \in {Kept(t), NoGrant} /\ (Kept(t)' = g => g = NoGrant),
           \A s, u \in Requests : req'[s].transaction = req'[u].transaction
                                    /\ req'[s].transaction # NoTransaction => s = u
    PROVE  Apart' /\ EffectsCounted'
<1>1. ASSUME NEW s \in Requests, NEW u \in Requests, Due(s)' = Due(u)', Due(s)' # NoGrant
      PROVE  s = u
    BY <1>1 DEF Apart
<1>2. ASSUME NEW t \in Transactions, NEW u \in Transactions, Kept(t)' = Kept(u)', Kept(t)' # NoGrant
      PROVE  t = u
    BY <1>2 DEF Apart
<1>3. ASSUME NEW s \in Requests, NEW t \in Transactions, Due(s)' = Kept(t)'
      PROVE  Due(s)' = NoGrant
    BY <1>3 DEF Apart
<1>4. Apart'
    BY <1>1, <1>2, <1>3 DEF Apart
<1>5. ASSUME NEW h \in Grants, effects[h] # 0
      PROVE  /\ effects[h] = 1 /\ grants'[h].state = "gone"
             /\ \A s \in Requests : Due(s)' # h
             /\ \A t \in Transactions : Kept(t)' # h
    <2>1. h # NoGrant /\ h # g
        BY <1>5, FlowsAssumption
    <2>2. /\ effects[h] = 1 /\ grants[h].state = "gone"
          /\ \A s \in Requests : Due(s) # h
          /\ \A t \in Transactions : Kept(t) # h
        BY <1>5 DEF EffectsCounted
    <2>. QED BY <2>1, <2>2 DEF Moves
<1>. QED BY <1>4, <1>5 DEF EffectsCounted

\* Whatever is due was paid for.
LEMMA DueIsPaid ==
    ASSUME FlowsInv, NEW g \in Grants, grants[g].state # "gone"
    PROVE  /\ \A r \in Requests : Due(r) # g
           /\ \A t \in Transactions : Kept(t) # g
           /\ effects[g] = 0
<1>1. g # NoGrant
    BY FlowsAssumption
<1>2. ASSUME NEW r \in Requests, Due(r) = g PROVE FALSE
    <2>1. RequestOK(req[r]) /\ req[r].bound.grant = g /\ req[r].pc \in Entitled
        BY <1>1, <1>2 DEF FlowsInv, Due
    <2>2. CASE req[r].pc \in Direct
        BY <2>1, <2>2 DEF RequestOK, Acts, Paid
    <2>3. CASE req[r].pc \notin Direct
        BY <1>1, <2>1, <2>3 DEF RequestOK, Carries, Entitled, BindsOK, Paid
    <2>. QED BY <2>2, <2>3
<1>3. ASSUME NEW t \in Transactions, Kept(t) = g PROVE FALSE
    <2>1. CASE t \in Stored(transactions)
        BY <1>1, <1>3, <2>1 DEF FlowsInv, TransactionOK, BindsOK, Paid, Kept
    <2>2. CASE t \notin Stored(transactions)
        BY <1>1, <1>3, <2>2 DEF FlowsInv, TransactionOK, Unbound, Kept
    <2>. QED BY <2>1, <2>2
<1>4. effects[g] = 0
    BY DEF FlowsInv, EffectsCounted
<1>. QED BY <1>2, <1>3, <1>4

LEMMA ConsumeGrantStep ==
    ASSUME FlowsInv, NEW r \in Requests, ConsumeGrant(r) PROVE FlowsInv'
<1>1. PICK p : p = req[r]
    OBVIOUS
<1>2. p \in Progress /\ RequestOK(p) /\ p.pc = "consume"
    BY <1>1 DEF FlowsInv, TypeOK, ConsumeGrant, At
<1>3. PICK b : b = p.bound
    OBVIOUS
<1>4. /\ b \in Bindings /\ b.operation \in Granted /\ b.grant \in Grants /\ b.account \in DOMAIN epoch
      /\ p.session = b.session /\ p.transaction = NoTransaction
      /\ b.operation \in Direct => /\ p.since <= b.epoch
                                   /\ grants[b.grant].account = b.account => grants[b.grant].epoch <= p.since
    BY <1>2, <1>3 DEF RequestOK, Asks, Returns, InCallback, Progress
<1>5. PICK g \in Grants : g = b.grant
    BY <1>4
<1>6. grants' = GrantBurnt(g) /\ UNCHANGED <<epoch, links, transactions, history>>
    BY <1>1, <1>3, <1>5 DEF ConsumeGrant
<1>7. PICK x : x = [grants[g] EXCEPT !.state = "gone"]
    OBVIOUS
<1>8. /\ grants \in [Grants -> GrantStates] /\ grants[g] \in GrantStates /\ x \in GrantStates
      /\ x.state = "gone" /\ x.account = grants[g].account /\ x.purpose = grants[g].purpose
      /\ x.session = grants[g].session /\ x.epoch = grants[g].epoch
    BY <1>7 DEF FlowsInv, TypeOK, GrantStates
<1>9. /\ grants' = IF grants[g].state = "live" THEN [grants EXCEPT ![g] = x] ELSE grants
      /\ grants' \in [Grants -> GrantStates]
      /\ grants[g].state = "live" => grants'[g] = x
      /\ grants[g].state # "live" => grants'[g] = grants[g]
      /\ \A h \in Grants : h # g => grants'[h] = grants[h]
    BY <1>6, <1>7, <1>8 DEF GrantBurnt
<1>10. Moves
    <2>1. \A h \in Grants :
            /\ grants'[h].state # grants[h].state => grants[h].state = "live" /\ grants'[h].state = "gone"
            /\ grants'[h].account = grants[h].account /\ grants'[h].purpose = grants[h].purpose
            /\ grants'[h].session = grants[h].session /\ grants'[h].epoch = grants[h].epoch
        BY <1>8, <1>9
    <2>. QED BY <1>6, <2>1, EpochTyped DEF Moves, FlowsInv
<1>11. \A h \in Grants : grants[h].state = "unissued" => grants'[h] = grants[h]
    BY <1>9
<1>12. CASE Ends(r)
    BY <1>6, <1>9, <1>10, <1>11, <1>12, Settles DEF FlowsInv, TypeOK, history
<1>13. CASE GrantFits(r, g) /\ Goes(r, AfterGrant(b.operation))
    <2>1. /\ grants[g].state = "live" /\ grants[g].account = b.account /\ grants[g].purpose = b.purpose
          /\ grants[g].epoch = b.epoch /\ grants[g].session = b.session
        BY <1>1, <1>3, <1>13 DEF GrantFits
    <2>2. PICK pc : pc = AfterGrant(b.operation)
        OBVIOUS
    <2>3. /\ b.operation \in Direct => pc = b.operation
          /\ b.operation \in TwoLegged => pc = "create"
          /\ b.operation \in Direct \cup TwoLegged
        BY <1>4, <2>2 DEF AfterGrant, Granted, Direct, TwoLegged
    <2>4. PICK q : q = [p EXCEPT !.pc = pc]
        OBVIOUS
    <2>5. /\ q \in Progress /\ q.pc = pc /\ q.bound = b /\ q.session = p.session
          /\ q.transaction = NoTransaction /\ q.since = p.since
        BY <1>2, <1>3, <1>4, <2>3, <2>4 DEF Progress, Direct
    <2>6. req' = [req EXCEPT ![r] = q] /\ req'[r] = q
        BY <1>1, <1>13, <2>2, <2>4 DEF Goes, FlowsInv, TypeOK
    <2>7. Paid(b)'
        BY <1>5, <1>8, <1>9, <2>1 DEF Paid
    <2>8. RequestOK(q)'
        <3>1. CASE b.operation \in TwoLegged
            BY <1>4, <1>6, <2>3, <2>5, <2>7, <3>1 DEF RequestOK, Asks, Carries, Acts, Confirms, Returns,
               BindsOK, Direct, InCallback
        <3>2. CASE b.operation \in Direct
            <4>1. p.since = b.epoch
                <5>1. b.epoch \in Nat /\ p.since \in Nat
                    BY <1>2, <1>4, FlowsAssumption DEF Progress, Bindings, Epochs
                <5>. QED BY <1>4, <1>5, <2>1, <3>2, <5>1
            <4>. QED BY <1>4, <1>6, <2>3, <2>5, <2>7, <3>2, <4>1 DEF RequestOK, Asks, Carries, Acts,
                    Confirms, Returns, Direct, InCallback
        <3>. QED BY <2>3, <3>1, <3>2
    <2>9. OneMoves
        BY <2>5, <2>6, <2>8 DEF OneMoves
    <2>10. TypeOK'
        BY <1>6, <1>9, <2>9, MoveTyped DEF FlowsInv, TypeOK, history
    <2>11. /\ \A s \in Requests : Due(s) # g
           /\ \A t \in Transactions : Kept(t) # g
           /\ effects[g] = 0 /\ g # NoGrant
        BY <2>1, DueIsPaid, FlowsAssumption
    <2>12. \A s \in Requests \ {r} : req'[s] = req[s] /\ Due(s)' = Due(s)
        BY <2>6 DEF FlowsInv, TypeOK, Due
    <2>13. \A s \in Requests : req'[s].transaction = req[s].transaction
        BY <1>1, <1>4, <2>5, <2>6, <2>12
    <2>14. Due(r)' \in {g, NoGrant}
        BY <1>5, <2>5, <2>6 DEF Due
    <2>15. \A t \in Transactions : Kept(t)' = Kept(t)
        BY <1>6 DEF Kept
    <2>16. \A s, u \in Requests : req'[s].transaction = req'[u].transaction
                                    /\ req'[s].transaction # NoTransaction => s = u
        BY <2>13 DEF FlowsInv, Apart
    <2>17. Apart' /\ EffectsCounted'
        BY <1>6, <1>10, <2>11, <2>12, <2>14, <2>15, <2>16, RequestGains DEF FlowsInv, history
    <2>18. OutcomesCounted'
        BY <1>6, <2>13 DEF FlowsInv, OutcomesCounted, history
    <2>19. TransactionsMove
        BY <1>6 DEF TransactionsMove, Stored
    <2>. QED BY <1>10, <1>11, <2>9, <2>10, <2>17, <2>18, <2>19, AllRequests, AllTransactions, AllGrants
             DEF FlowsInv
<1>. QED BY <1>1, <1>3, <1>5, <1>12, <1>13 DEF ConsumeGrant

\* What a store looks like that purged what expired.
LEMMA PurgeOnly ==
    ASSUME TypeOK, NEW store, store \in {Purged, AtCreate}
    PROVE  /\ store \in [Transactions -> [status : {"unused", "pending", "expired", "gone"},
                                          bound : Bindings]]
           /\ \A t \in Transactions :
                \/ store[t] = transactions[t]
                \/ transactions[t].status = "expired" /\ store[t] = Gone
<1>1. Gone \in [status : {"unused", "pending", "expired", "gone"}, bound : Bindings]
    BY FlowsAssumption DEF Gone, Unbound, Bindings, Epochs
<1>. QED BY <1>1 DEF TypeOK, Purged, AtCreate

LEMMA RefuseStep ==
    ASSUME FlowsInv, NEW r \in Requests, Refuse(r) PROVE FlowsInv'
<1>1. PICK p : p = req[r]
    OBVIOUS
<1>2. p \in Progress /\ RequestOK(p) /\ p.pc = "create"
    BY <1>1 DEF FlowsInv, TypeOK, Refuse, At
<1>3. PICK q : q = [p EXCEPT !.pc = "refused"]
    OBVIOUS
<1>4. /\ q \in Progress /\ q.pc = "refused" /\ q.bound = p.bound /\ q.session = p.session
      /\ q.transaction = p.transaction
    BY <1>2, <1>3 DEF Progress
<1>5. req' = [req EXCEPT ![r] = q] /\ UNCHANGED <<epoch, links, grants, history>>
      /\ transactions' \in {Purged, AtCreate}
    BY <1>1, <1>3 DEF Refuse, Goes
<1>6. /\ p.session = p.bound.session /\ p.transaction = NoTransaction
    BY <1>2 DEF RequestOK, Returns, InCallback
<1>7. RequestOK(q)'
    BY <1>4, <1>6 DEF RequestOK, Asks, Carries, Acts, Confirms, Returns, InCallback, Direct
<1>8. OneMoves
    BY <1>4, <1>5, <1>7 DEF OneMoves
<1>9. /\ transactions' \in [Transactions -> [status : {"unused", "pending", "expired", "gone"},
                                             bound : Bindings]]
      /\ \A t \in Transactions :
            \/ transactions'[t] = transactions[t]
            \/ transactions[t].status = "expired" /\ transactions'[t] = Gone
    BY <1>5, PurgeOnly DEF FlowsInv
<1>10. TypeOK'
    BY <1>5, <1>8, <1>9, MoveTyped DEF FlowsInv, TypeOK, history
<1>11. Moves
    BY <1>5, <1>9, StableMoves DEF FlowsInv, Gone
<1>12. TransactionsMove
    BY <1>9 DEF TransactionsMove, Stored
<1>13. \A t \in Transactions : transactions'[t].bound \in {transactions[t].bound, Unbound}
    BY <1>9 DEF Gone
<1>14. Loses
    BY <1>1, <1>4, <1>5, <1>13, RequestLoses DEF FlowsInv, TypeOK, Entitled, Direct
<1>. QED BY <1>5, <1>8, <1>10, <1>11, <1>12, <1>14, FlowsMove DEF history

\* A begin that leaves its transaction behind hands the transaction its grant.
LEMMA CreateStep ==
    ASSUME FlowsInv, NEW r \in Requests, NEW t \in Transactions, Create(r, t) PROVE FlowsInv'
<1>1. PICK b : b = req[r].bound
    OBVIOUS
<1>2. /\ req[r] \in Progress /\ RequestOK(req[r]) /\ req[r].pc = "create"
      /\ b \in Bindings /\ BindsOK(b)
    BY <1>1 DEF FlowsInv, TypeOK, Create, At, Progress, RequestOK, Carries
<1>3. PICK store \in {Purged, AtCreate} :
        transactions' = [store EXCEPT ![t] = [status |-> "pending", bound |-> b]]
    BY <1>1 DEF Create
<1>4. /\ store \in [Transactions -> [status : {"unused", "pending", "expired", "gone"},
                                     bound : Bindings]]
      /\ \A u \in Transactions :
            \/ store[u] = transactions[u]
            \/ transactions[u].status = "expired" /\ store[u] = Gone
    BY PurgeOnly DEF FlowsInv
<1>5. PICK e : e = [status |-> "pending", bound |-> b]
    OBVIOUS
<1>6. e \in [status : {"unused", "pending", "expired", "gone"}, bound : Bindings]
      /\ e.status = "pending" /\ e.bound = b
    BY <1>2, <1>5
<1>7. /\ transactions' \in [Transactions -> [status : {"unused", "pending", "expired", "gone"},
                                             bound : Bindings]]
      /\ transactions'[t] = e
      /\ \A u \in Transactions : u # t =>
            \/ transactions'[u] = transactions[u]
            \/ transactions[u].status = "expired" /\ transactions'[u] = Gone
    BY <1>3, <1>4, <1>5, <1>6
<1>8. /\ transactions[t].status = "unused" /\ req' = [req EXCEPT ![r] = Idle]
      /\ UNCHANGED <<epoch, links, grants, effects, outcomes>>
    BY DEF Create, Ends, history
<1>9. Moves
    BY <1>7, <1>8, StableMoves DEF FlowsInv, Gone
<1>10. /\ \A s \in Requests : req'[s] = IF s = r THEN Idle ELSE req[s]
       /\ Due(r)' = NoGrant
       /\ \A s \in Requests : s # r => Due(s)' = Due(s)
       /\ \A s \in Requests : req'[s].transaction \in {req[s].transaction, NoTransaction}
    <2>1. \A s \in Requests : req'[s] = IF s = r THEN Idle ELSE req[s]
        BY <1>8 DEF FlowsInv, TypeOK
    <2>. QED BY <2>1, IdleOK DEF Due
<1>11. RequestOK(Idle)'
    BY DEF Idle, Unbound, RequestOK, Asks, Carries, Acts, Confirms, Returns, InCallback, Direct
<1>12. OneMoves
    BY <1>8, <1>11, IdleOK DEF OneMoves
<1>13. TypeOK'
    BY <1>7, <1>8, <1>12, MoveTyped DEF FlowsInv, TypeOK
<1>14. /\ Due(r) = b.grant /\ Kept(t)' = b.grant
       /\ \A u \in Transactions : u # t => Kept(u)' \in {Kept(u), NoGrant}
    BY <1>1, <1>2, <1>6, <1>7 DEF Due, Entitled, Kept, Gone, Unbound
<1>15. Apart'
    <2>1. ASSUME NEW s \in Requests, NEW u \in Requests, Due(s)' = Due(u)', Due(s)' # NoGrant
          PROVE  s = u
        BY <1>10, <2>1 DEF FlowsInv, Apart
    <2>2. ASSUME NEW u \in Transactions, NEW v \in Transactions, Kept(u)' = Kept(v)', Kept(u)' # NoGrant
          PROVE  u = v
        BY <1>14, <2>2 DEF FlowsInv, Apart
    <2>3. ASSUME NEW s \in Requests, NEW u \in Transactions, Due(s)' = Kept(u)'
          PROVE  Due(s)' = NoGrant
        BY <1>10, <1>14, <2>3 DEF FlowsInv, Apart
    <2>4. ASSUME NEW s \in Requests, NEW u \in Requests, req'[s].transaction = req'[u].transaction,
                 req'[s].transaction # NoTransaction
          PROVE  s = u
        BY <1>10, <2>4 DEF FlowsInv, Apart
    <2>. QED BY <2>1, <2>2, <2>3, <2>4 DEF Apart
<1>16. EffectsCounted'
    <2>1. ASSUME NEW h \in Grants, effects[h] # 0
          PROVE  /\ effects[h] = 1 /\ grants[h].state = "gone"
                 /\ \A s \in Requests : Due(s)' # h
                 /\ \A u \in Transactions : Kept(u)' # h
        <3>1. /\ effects[h] = 1 /\ grants[h].state = "gone"
              /\ \A s \in Requests : Due(s) # h
              /\ \A u \in Transactions : Kept(u) # h
            BY <2>1 DEF FlowsInv, EffectsCounted
        <3>2. h # NoGrant
            BY FlowsAssumption
        <3>. QED BY <1>10, <1>14, <3>1, <3>2
    <2>. QED BY <1>8, <2>1 DEF EffectsCounted
<1>17. OutcomesCounted'
    <2>1. ASSUME NEW u \in Transactions, outcomes[u] # 0
          PROVE  /\ outcomes[u] = 1 /\ transactions'[u].status = "gone"
                 /\ \A s \in Requests : req'[s].transaction # u
        <3>1. /\ outcomes[u] = 1 /\ transactions[u].status = "gone"
              /\ \A s \in Requests : req[s].transaction # u
            BY <2>1 DEF FlowsInv, OutcomesCounted
        <3>2. u # NoTransaction /\ u # t
            BY <1>8, <3>1, FlowsAssumption
        <3>. QED BY <1>7, <1>10, <3>1, <3>2
    <2>. QED BY <1>8, <2>1 DEF OutcomesCounted
<1>18. \A u \in Transactions : TransactionOK(u)'
    <2>. SUFFICES ASSUME NEW u \in Transactions PROVE TransactionOK(u)'
        OBVIOUS
    <2>1. CASE u = t
        <3>1. BindsOK(b)' /\ transactions'[u].bound = b /\ transactions'[u].status = "pending"
            BY <1>2, <1>6, <1>7, <1>9, <2>1, BindsKept
        <3>. QED BY <3>1 DEF TransactionOK, Stored
    <2>2. CASE u # t /\ transactions'[u] = transactions[u]
        <3>1. u \in Stored(transactions') <=> u \in Stored(transactions)
            BY <2>2 DEF Stored
        <3>. QED BY <1>9, <2>2, <3>1, BindsKept DEF FlowsInv, TransactionOK
    <2>3. CASE transactions'[u] = Gone
        BY <2>3 DEF TransactionOK, Stored, Gone
    <2>. QED BY <1>7, <2>1, <2>2, <2>3
<1>19. \A g \in Grants : GrantOK(g)'
    BY <1>8, <1>9, <1>13, AllGrants
<1>. QED BY <1>9, <1>12, <1>13, <1>15, <1>16, <1>17, <1>18, <1>19, AllRequests DEF FlowsInv

\* A callback takes the transaction out, whether it is its own or not, and only
\* its own goes on with what the transaction kept.
LEMMA CallbackStep ==
    ASSUME FlowsInv, NEW r \in Requests, NEW t \in Transactions, NEW s \in Sessions, Callback(r, t, s)
    PROVE  FlowsInv'
<1>1. PICK b : b = transactions[t].bound
    OBVIOUS
<1>2. t \in Stored(transactions) /\ BindsOK(b) /\ b \in Bindings
    BY <1>1 DEF Callback, FlowsInv, TransactionOK, TypeOK
<1>3. Purged \in [Transactions -> [status : {"unused", "pending", "expired", "gone"}, bound : Bindings]]
      /\ \A u \in Transactions :
            \/ Purged[u] = transactions[u]
            \/ transactions[u].status = "expired" /\ Purged[u] = Gone
    BY PurgeOnly DEF FlowsInv
<1>4. Gone \in [status : {"unused", "pending", "expired", "gone"}, bound : Bindings]
      /\ Gone.status = "gone" /\ Gone.bound = Unbound
    BY FlowsAssumption DEF Gone, Unbound, Bindings, Epochs
<1>5. /\ transactions' \in [Transactions -> [status : {"unused", "pending", "expired", "gone"},
                                             bound : Bindings]]
      /\ transactions'[t] = Gone
      /\ \A u \in Transactions : transactions'[u] \in {transactions[u], Gone}
    <2>1. transactions' = [Purged EXCEPT ![t] = Gone]
        BY DEF Callback, Popped
    <2>. QED BY <1>3, <1>4, <2>1
<1>6. UNCHANGED <<epoch, links, grants, effects, outcomes>> /\ req[r].pc = "idle"
    BY DEF Callback, history, At
<1>7. Moves
    BY <1>4, <1>5, <1>6, StableMoves DEF FlowsInv
<1>8. TransactionsMove
    <2>. SUFFICES ASSUME NEW u \in Transactions
                  PROVE  \/ /\ transactions'[u].bound = transactions[u].bound
                            /\ u \in Stored(transactions) <=> u \in Stored(transactions')
                         \/ transactions'[u] = Gone
        BY DEF TransactionsMove
    <2>. QED BY <1>5 DEF Stored
<1>9. CASE UNCHANGED req
    <2>1. TypeOK'
        BY <1>5, <1>6, <1>9 DEF FlowsInv, TypeOK
    <2>. QED BY <1>6, <1>7, <1>8, <1>9, <2>1, RequestsStay DEF history
<1>10. CASE ~ UNCHANGED req
    <2>1. PICK since : since = IF b.grant = NoGrant THEN 0 ELSE epoch[b.account]
        OBVIOUS
    <2>2. PICK q : q = [Idle EXCEPT !.pc = "exchange", !.bound = b, !.session = s, !.transaction = t,
                                    !.since = since]
        OBVIOUS
    <2>3. req' = [req EXCEPT ![r] = q] /\ SessionMatches(t, s)
        BY <1>1, <1>10, <2>1, <2>2 DEF Callback
    <2>4. b.session = s
        BY <1>1, <2>3 DEF SessionMatches
    <2>5. b.operation \in TwoLegged =>
            /\ Paid(b) /\ b.account \in DOMAIN epoch /\ b.grant # NoGrant
            /\ b.epoch <= epoch[b.account] /\ since = epoch[b.account] /\ since \in Epochs
        <3>. SUFFICES ASSUME b.operation \in TwoLegged
                      PROVE  /\ Paid(b) /\ b.account \in DOMAIN epoch /\ b.grant # NoGrant
                             /\ b.epoch <= epoch[b.account] /\ since = epoch[b.account] /\ since \in Epochs
            OBVIOUS
        <3>1. Paid(b) /\ b.account \in DOMAIN epoch
            BY <1>2 DEF BindsOK, TwoLegged
        <3>2. b.grant # NoGrant
            BY <3>1, FlowsAssumption DEF Paid
        <3>3. b.epoch <= epoch[b.account]
            BY <3>1 DEF Paid, FlowsInv, GrantOK
        <3>. QED BY <2>1, <3>1, <3>2, <3>3, EpochTyped DEF FlowsInv
    <2>6. b.operation \notin TwoLegged => b.grant = NoGrant /\ since = 0 /\ since \in Epochs
        BY <1>2, <2>1, FlowsAssumption DEF BindsOK, Epochs
    <2>7. /\ q \in Progress /\ q.pc = "exchange" /\ q.bound = b /\ q.session = s /\ q.transaction = t
          /\ q.since = since
        BY <1>2, <2>2, <2>5, <2>6, IdleOK DEF Progress, Idle
    <2>8. RequestOK(q)'
        <3>1. BindsOK(b)' /\ transactions'[t].status = "gone"
            BY <1>2, <1>4, <1>5, <1>7, BindsKept
        <3>2. b.operation \in TwoLegged => b.epoch <= since /\ since <= epoch'[b.account]
            <4>1. b.operation \in TwoLegged => epoch[b.account] \in Nat /\ epoch' = epoch
                BY <1>6, <2>5, EpochTyped DEF FlowsInv
            <4>. QED BY <2>5, <4>1
        <3>. QED BY <2>4, <2>7, <3>1, <3>2 DEF RequestOK, Asks, Carries, Acts, Confirms, Returns,
                InCallback, Direct
    <2>9. OneMoves
        BY <2>3, <2>7, <2>8 DEF OneMoves
    <2>10. TypeOK'
        BY <1>5, <1>6, <2>9, MoveTyped DEF FlowsInv, TypeOK
    <2>11. /\ req'[r] = q
           /\ \A u \in Requests \ {r} : req'[u] = req[u] /\ Due(u)' = Due(u)
        BY <2>3 DEF FlowsInv, TypeOK, Due
    <2>12. Due(r)' = b.grant /\ Kept(t) = b.grant /\ Kept(t)' = NoGrant
           /\ \A u \in Transactions : Kept(u)' \in {Kept(u), NoGrant}
        BY <1>1, <1>4, <1>5, <2>7, <2>11 DEF Due, Kept, Entitled, Unbound
    <2>13. b.grant \in Grants \cup {NoGrant}
        BY <1>2 DEF Bindings
    <2>14. b.grant \in Grants => effects[b.grant] = 0
        BY <2>12 DEF FlowsInv, EffectsCounted
    <2>15. \A u \in Requests \ {r} : Due(u)' \in {Due(u), NoGrant}
                                     /\ (Due(u)' = b.grant => b.grant = NoGrant)
        BY <2>11, <2>12 DEF FlowsInv, Apart
    <2>16. \A u \in Transactions : Kept(u)' \in {Kept(u), NoGrant} /\ (Kept(u)' = b.grant => b.grant = NoGrant)
        BY <2>12 DEF FlowsInv, Apart
    <2>17. transactions[t].status # "gone" /\ t # NoTransaction
        BY <1>2, FlowsAssumption DEF Stored
    <2>18. \A u \in Requests : req[u].transaction # t
        BY <2>17 DEF FlowsInv, RequestOK, Returns
    <2>19. \A u, v \in Requests : req'[u].transaction = req'[v].transaction
                                    /\ req'[u].transaction # NoTransaction => u = v
        BY <2>7, <2>11, <2>18 DEF FlowsInv, Apart
    <2>20. Apart' /\ EffectsCounted'
        BY <1>6, <1>7, <2>12, <2>13, <2>14, <2>15, <2>16, <2>19, RequestGains DEF FlowsInv
    <2>21. OutcomesCounted'
        <3>1. ASSUME NEW u \in Transactions, outcomes[u] # 0
              PROVE  /\ outcomes[u] = 1 /\ transactions'[u].status = "gone"
                     /\ \A v \in Requests : req'[v].transaction # u
            <4>1. /\ outcomes[u] = 1 /\ transactions[u].status = "gone" /\ u # t
                  /\ \A v \in Requests : req[v].transaction # u
                BY <2>17, <3>1 DEF FlowsInv, OutcomesCounted
            <4>. QED BY <1>4, <1>5, <2>7, <2>11, <4>1
        <3>. QED BY <1>6, <3>1 DEF OutcomesCounted
    <2>22. \A g \in Grants : GrantOK(g)'
        BY <1>6, <1>7, <2>10, AllGrants
    <2>. QED BY <1>7, <1>8, <2>9, <2>10, <2>20, <2>21, <2>22, AllRequests, AllTransactions DEF FlowsInv
<1>. QED BY <1>9, <1>10
-----------------------------------------------------------------------------
LEMMA FlowsInit == ASSUME Init PROVE FlowsInv
<1>1. PICK existing \in SUBSET Accounts : epoch = [a \in existing |-> 0]
    BY DEF Init
<1>2. epoch \in [existing -> Epochs] /\ DOMAIN epoch = existing
    BY <1>1, FlowsAssumption DEF Epochs
<1>3. Unissued \in GrantStates /\ Unbound \in Bindings /\ Idle \in Progress
    BY IdleOK, FlowsAssumption DEF Unissued, GrantStates, Unbound, Bindings, Epochs
<1>4. TypeOK
    <2>1. links \in [Identities -> DOMAIN epoch \cup {NoOne}]
        BY DEF Init
    <2>2. req \in [Requests -> Progress] /\ grants \in [Grants -> GrantStates]
        BY <1>3 DEF Init
    <2>3. transactions \in [Transactions -> [status : {"unused", "pending", "expired", "gone"},
                                             bound : Bindings]]
        BY <1>3 DEF Init
    <2>. QED BY <1>2, <2>1, <2>2, <2>3 DEF Init, TypeOK
<1>5. /\ \A r \in Requests : req[r] = Idle /\ Due(r) = NoGrant
      /\ \A t \in Transactions : transactions[t].status = "unused" /\ transactions[t].bound = Unbound
                                 /\ Kept(t) = NoGrant
      /\ \A g \in Grants : grants[g].state = "unissued"
    BY IdleOK DEF Init, Due, Kept, Unbound, Unissued
<1>6. Apart /\ EffectsCounted /\ OutcomesCounted
    BY <1>5, IdleOK DEF Init, Apart, EffectsCounted, OutcomesCounted
<1>7. /\ \A g \in Grants : GrantOK(g)
      /\ \A t \in Transactions : TransactionOK(t)
      /\ \A r \in Requests : RequestOK(req[r])
    BY <1>5, IdleOK DEF GrantOK, TransactionOK, Stored
<1>. QED BY <1>4, <1>6, <1>7 DEF FlowsInv

LEMMA BeginsStep == ASSUME FlowsInv, NEW r \in Requests, Begin(r) PROVE FlowsInv'
<1>1. PICK s \in Sessions :
        \/ BeginLogin(r, s)
        \/ \E t \in Transactions : Callback(r, t, s)
        \/ \E a \in DOMAIN epoch :
              \/ \E g \in Issued : BeginLink(r, a, s, g) \/ BeginRevoke(r, a, s, g)
              \/ \E i \in Identities :
                    \/ BeginConfirmation(r, a, i, s)
                    \/ \E g \in Issued : BeginUpgrade(r, a, i, s, g) \/ BeginUnlink(r, a, i, s, g)
    BY DEF Begin
<1>2. CASE \E t \in Transactions : Callback(r, t, s)
    BY <1>2, CallbackStep
<1>. QED BY <1>1, <1>2, BeginStep

LEMMA ContinueStep == ASSUME FlowsInv, NEW r \in Requests, Continue(r) PROVE FlowsInv'
BY ReadEpochStep, ConsumeGrantStep, ProofStep, CommitLoginStep, CommitLinkStep, CommitUpgradeStep,
   ConfirmingStep, ConfirmStep, RereadStep, UnlinkStep, RevokeStep, RefuseStep, CreateStep,
   ExchangeStep, IssueStep DEF Continue

LEMMA FlowsStutter == ASSUME FlowsInv, UNCHANGED vars PROVE FlowsInv'
<1>1. Moves /\ TransactionsMove
    BY StableMoves DEF vars, FlowsInv, TransactionsMove, Stored
<1>2. TypeOK'
    BY DEF vars, history, FlowsInv, TypeOK
<1>. QED BY <1>1, <1>2, RequestsStay DEF vars

LEMMA FlowsSteps == ASSUME FlowsInv, [Next]_vars PROVE FlowsInv'
<1>1. CASE Environment
    BY <1>1, BumpEpochStep, ExpireStep, StepUpStep DEF Environment
<1>2. ASSUME NEW r \in Requests, Begin(r) \/ Continue(r) \/ Abort(r) PROVE FlowsInv'
    BY <1>2, BeginsStep, ContinueStep, AbortStep
<1>. QED BY <1>1, <1>2, FlowsStutter DEF Next

\* The invariant says all of it: what was paid is carried to the commit, what
\* is due to one place is counted once, and the proof of the callback closes
\* the gap between the epoch of the grant and that of the request.
LEMMA FlowsMeaning == ASSUME FlowsInv PROVE EffectsAreAuthorized
<1>1. EachCountsOnce
    BY DEF FlowsInv, TypeOK, EffectsCounted, OutcomesCounted, EachCountsOnce, OneEffectPerGrant,
           OneOutcomePerTransaction
<1>2. ASSUME NEW r \in Authorized
      PROVE  r \in Requests /\ Paid(req[r].bound) /\ req[r].since = req[r].bound.epoch
             /\ req[r].session = req[r].bound.session
    <2>1. /\ r \in Requests /\ req[r].pc \in {"commit", "unlink", "revoke"}
          /\ req[r].bound.operation # "login" /\ RequestOK(req[r])
        BY DEF Authorized, FlowsInv
    <2>2. CASE req[r].pc = "commit"
        BY <2>1, <2>2 DEF RequestOK, Carries, Returns, BindsOK
    <2>3. CASE req[r].pc \in Direct
        BY <2>1, <2>3 DEF RequestOK, Acts, Returns
    <2>. QED BY <2>1, <2>2, <2>3 DEF Direct
<1>3. EffectsFollowTheEpoch /\ EffectsMatchTheirGrant
    BY <1>2 DEF EffectsFollowTheEpoch, EffectsMatchTheirGrant, GrantOf, Paid
<1>4. ConfirmedIdentityIsTheOneBegunFor
    BY DEF ConfirmedIdentityIsTheOneBegunFor, FlowsInv, RequestOK, Confirms
<1>. QED BY <1>1, <1>3, <1>4 DEF FlowsInv, EffectsAreAuthorized

\* Whatever a step-up grant or a login at the provider allows happens once, for
\* the account, session, operation and epoch that proved it: through retries,
\* callbacks that come twice or in the wrong session, transactions that expire
\* or are refused at capacity, and epochs that move at every await.
THEOREM EffectsAreDue == Spec => []EffectsAreAuthorized
<1>1. Init => FlowsInv
    BY FlowsInit
<1>2. FlowsInv /\ [Next]_vars => FlowsInv'
    BY FlowsSteps
<1>3. FlowsInv => EffectsAreAuthorized
    BY FlowsMeaning
<1>. QED BY <1>1, <1>2, <1>3, PTL DEF Spec
-----------------------------------------------------------------------------
\* Only its own refusal takes a request there.
LEMMA RefusedByRefuse ==
    ASSUME TypeOK, NEW r \in Requests, At(r, "create"), Next, At(r, "refused")' PROVE Refuse(r)
<1>1. /\ req \in [Requests -> Progress] /\ req[r].pc = "create" /\ req'[r].pc = "refused"
    BY DEF TypeOK, At
<1>2. PICK s \in Requests : Begin(s) \/ Continue(s) \/ Abort(s)
    BY <1>1 DEF Next, Environment, BumpEpoch, Expire, StepUp
<1>3. PICK q : req' = [req EXCEPT ![s] = q] \/ req' = req
    <2>1. ASSUME NEW pc, NEW b, NEW t, Starts(s, t, b, pc) PROVE \E q : req' = [req EXCEPT ![s] = q]
        BY <2>1 DEF Starts
    <2>2. CASE Begin(s)
        <3>1. ASSUME NEW t \in Transactions, NEW u \in Sessions, Callback(s, t, u)
              PROVE  \E q : req' = [req EXCEPT ![s] = q] \/ req' = req
            BY <3>1 DEF Callback
        <3>. QED BY <2>1, <2>2, <3>1 DEF Begin, BeginLogin, BeginLink, BeginRevoke, BeginConfirmation,
                BeginUpgrade, BeginUnlink
    <2>3. CASE Continue(s) \/ Abort(s)
        BY <1>1, <2>3 DEF Continue, ReadEpoch, ConsumeGrant, Proof, CommitLogin, CommitLink, CommitUpgrade,
           Confirming, Confirm, Reread, Unlink, Revoke, Refuse, Create, Exchange, Issue, Abort, Goes, Ends
    <2>. QED BY <1>2, <2>2, <2>3
<1>4. s = r
    BY <1>1, <1>3
<1>5. ~ Begin(r)
    BY <1>1 DEF Begin, BeginLogin, BeginLink, BeginRevoke, BeginConfirmation, BeginUpgrade, BeginUnlink,
       Starts, Callback, At
<1>6. ~ Ends(r)
    BY <1>1 DEF Ends, Idle
<1>7. Continue(r)
    BY <1>2, <1>4, <1>5, <1>6 DEF Abort
<1>. QED BY <1>1, <1>6, <1>7 DEF Continue, ReadEpoch, ConsumeGrant, Proof, CommitLogin, CommitLink,
       CommitUpgrade, Confirming, Confirm, Reread, Unlink, Revoke, Create, Exchange, Issue, At

\* With a clock, a begin is refused only when as many transactions as the store
\* holds are alive: what nobody came back for does not lock the others out.
THEOREM ExpiredTransactionsMakeRoom ==
    ASSUME HasClock PROVE Spec => OnlyLiveTransactionsFill
<1>1. Init => FlowsInv
    BY FlowsInit
<1>2. FlowsInv /\ [Next]_vars => FlowsInv'
    BY FlowsSteps
<1>3. ASSUME FlowsInv, [Next]_vars
      PROVE  [\A r \in Requests : At(r, "create") /\ At(r, "refused")'
                => Cardinality({t \in Transactions : transactions[t].status = "pending"}) >= Capacity]_vars
    <2>. SUFFICES ASSUME Next, NEW r \in Requests, At(r, "create"), At(r, "refused")'
                  PROVE  Cardinality({t \in Transactions : transactions[t].status = "pending"}) >= Capacity
        BY <1>3
    <2>1. Refuse(r)
        BY <1>3, RefusedByRefuse DEF FlowsInv
    <2>2. Stored(AtCreate) = {t \in Transactions : transactions[t].status = "pending"}
        <3>1. AtCreate = Purged
            BY DEF AtCreate
        <3>2. \A t \in Transactions : Purged[t].status \in {"pending", "expired"}
                                        <=> transactions[t].status = "pending"
            BY DEF Purged, Gone
        <3>. QED BY <3>1, <3>2 DEF Stored
    <2>. QED BY <2>1, <2>2 DEF Refuse
<1>. QED BY <1>1, <1>2, <1>3, PTL DEF Spec, OnlyLiveTransactionsFill
=============================================================================
