------------------------ MODULE RefreshFamilyProofs ------------------------
(***************************************************************************)
(* Proofs about RefreshFamily, and about the honest caller of              *)
(* RefreshCallers, for every value of their constants.                     *)
(***************************************************************************)
EXTENDS RefreshCallers, TLAPS

\* What a coroutine holds at each of its stages.
RequestOK ==
  \A c \in Clients : LET r == request[c] IN
    /\ r.pc = "check_epoch" => r.snapshot \in Snapshot
    /\ r.pc \notin {"idle", "check_epoch"} => r.token \in Tokens
    /\ r.pc \in {"create", "created", "get_account", "get_epoch", "rotate",
                 "recover", "fail_closed"} => r.context \in Context
    /\ r.pc = "recover" => r.receipt \in Receipt

TypeInv == TypeOK /\ RequestOK

LEMMA ExpiryType ==
  ASSUME NEW at \in Times
  PROVE  /\ at + Absolute \in Expiries
         /\ \A e \in Expiries : Lesser(at + Idle, e) \in Expiries
         /\ \A e \in Expiries : Lesser(at + Window, e) \in Expiries
BY LifetimesAssumption DEF Times, Expiries, Lesser

LEMMA DigestType ==
  ASSUME NEW key \in Digests \cup {InvalidKey}
  PROVE  Digest(key) \in Digests
BY DEF Digest, Digests

\* A coroutine at rest, with or without a first stage set, is a request.
LEMMA RestingType == Resting \in Request /\ Resting.pc = "idle"
BY LifetimesAssumption DEF Resting, Request, Stages, Digests, Times

LEMMA FinishType ==
  ASSUME TypeInv, NEW c \in Clients, Finish(c)
  PROVE  request' \in [Clients -> Request] /\ RequestOK'
BY RestingType DEF TypeInv, TypeOK, RequestOK, Finish

LEMMA PutType ==
  ASSUME TypeOK, NEW t \in Tokens, NEW state \in TokenState
  PROVE  /\ Put(t, state) \in [DOMAIN tokens \cup {t} -> TokenState]
         /\ DOMAIN Put(t, state) = DOMAIN tokens \cup {t}
         /\ DOMAIN Put(t, state) \subseteq Tokens
BY DEF TypeOK, Put

LEMMA NewStateType ==
  ASSUME NEW context \in Context
  PROVE  NewState(context) \in TokenState
BY DEF NewState, Context, TokenState, Digests

LEMMA ConsumeType ==
  ASSUME NEW state \in TokenState, NEW key \in Digests, NEW receipt \in Receipt
  PROVE  Consume(state, key, receipt) \in TokenState
BY DEF Consume, TokenState

LEMMA RevokeType ==
  ASSUME TypeOK, NEW fs
  PROVE  /\ RevokeFamilies(fs) \in [DOMAIN tokens -> TokenState]
         /\ DOMAIN RevokeFamilies(fs) = DOMAIN tokens
BY DEF TypeOK, RevokeFamilies, TokenState

LEMMA InitType == Init => TypeInv
<1> SUFFICES ASSUME Init PROVE TypeInv OBVIOUS
<1>1. TypeOK
  BY RestingType, LifetimesAssumption DEF Init, TypeOK, Times, AccountState, Epochs
<1>2. RequestOK
  BY RestingType DEF Init, RequestOK
<1> QED BY <1>1, <1>2 DEF TypeInv

LEMMA NextType ==
  ASSUME TypeInv, [Next]_vars
  PROVE  TypeInv'
<1> USE DEF TypeInv
<1> SUFFICES ASSUME Next PROVE TypeOK' /\ RequestOK'
  <2>1. CASE UNCHANGED vars BY <2>1 DEF TypeOK, RequestOK, vars
  <2> QED BY <2>1
<1>1. ASSUME NEW c \in Clients, NEW a \in Accounts, BeginIssue(c, a)
      PROVE  TypeOK' /\ RequestOK'
  <2>1. request'[c] \in Request /\ request'[c].snapshot \in Snapshot
        /\ request'[c].pc = "check_epoch"
    BY <1>1, RestingType
    DEF BeginIssue, TypeOK, Resting, Request, Snapshot, Stages, AccountState, Epochs
  <2> QED BY <2>1, <1>1 DEF BeginIssue, TypeOK, RequestOK
<1>2. ASSUME NEW c \in Clients, CheckEpoch(c)
      PROVE  TypeOK' /\ RequestOK'
  <2> DEFINE r == request[c]
  <2>1. r \in Request /\ r.snapshot \in Snapshot /\ r.at \in Times
    BY <1>2 DEF CheckEpoch, TypeOK, RequestOK, Request
  <2>2. CASE Finish(c) BY <1>2, <2>2, FinishType DEF CheckEpoch, TypeOK
  <2>3. ASSUME NEW t \in Tokens, NEW f \in Families,
               request' = [request EXCEPT ![c] =
                 [r EXCEPT !.pc = "create", !.token = t,
                    !.context = [account |-> r.snapshot.account_id, family |-> f,
                                 epoch |-> r.snapshot.epoch,
                                 expires |-> Lesser(r.at + Idle, r.at + Absolute),
                                 familyExpires |-> r.at + Absolute]]]
        PROVE  TypeOK' /\ RequestOK'
    <3>1. /\ Lesser(r.at + Idle, r.at + Absolute) \in Expiries
          /\ r.at + Absolute \in Expiries
      BY <2>1, ExpiryType
    <3> DEFINE ctx == request'[c].context
    <3>2. ctx \in Context
      BY <2>1, <2>3, <3>1 DEF Context, Snapshot, TypeOK, Request
    <3>3. request'[c] \in Request /\ request'[c].pc = "create" /\ request'[c].token = t
      BY <2>1, <2>3, <3>2 DEF Request, Stages, TypeOK
    <3> QED BY <1>2, <2>3, <3>2, <3>3 DEF CheckEpoch, TypeOK, RequestOK
  <2> QED BY <1>2, <2>2, <2>3 DEF CheckEpoch
<1>3. ASSUME NEW c \in Clients, CreateFamily(c)
      PROVE  TypeOK' /\ RequestOK'
  <2>1. CASE Finish(c) /\ UNCHANGED tokens BY <1>3, <2>1, FinishType DEF CreateFamily, TypeOK
  <2>2. CASE /\ tokens' = Put(request[c].token, NewState(request[c].context))
             /\ request' = [request EXCEPT ![c].pc = "created"]
    <3>1. request[c] \in Request /\ request[c].token \in Tokens /\ request[c].context \in Context
      BY <1>3 DEF CreateFamily, TypeOK, RequestOK
    <3>2. tokens' \in [DOMAIN tokens' -> TokenState] /\ DOMAIN tokens' \subseteq Tokens
      BY <2>2, <3>1, NewStateType, PutType
    <3>3. /\ request' \in [Clients -> Request]
          /\ request'[c].pc = "created"
          /\ request'[c].token = request[c].token
          /\ request'[c].context = request[c].context
      BY <2>2, <3>1 DEF TypeOK, Request, Stages
    <3> QED BY <1>3, <2>2, <3>1, <3>2, <3>3 DEF CreateFamily, TypeOK, RequestOK
  <2> QED BY <1>3, <2>1, <2>2 DEF CreateFamily
<1>4. ASSUME NEW c \in Clients, AnswerIssue(c)
      PROVE  TypeOK' /\ RequestOK'
  <2>1. request[c].token \in Tokens BY <1>4 DEF AnswerIssue, RequestOK
  <2>2. [presented |-> None, key |-> NoKey, token |-> request[c].token] \in Delivery
    BY <2>1 DEF Delivery, Digests
  <2> QED BY <1>4, <2>2, FinishType DEF AnswerIssue, TypeOK
<1>5. ASSUME NEW c \in Clients, NEW t \in Known, NEW key \in Digests \cup {InvalidKey},
             NEW genuine \in BOOLEAN, BeginRotate(c, t, key, genuine)
      PROVE  TypeOK' /\ RequestOK'
  <2>1. t \in Tokens BY DEF Known, TypeOK, Delivery
  <2>2. request'[c] \in Request /\ request'[c].pc = "prepare" /\ request'[c].token = t
    BY <1>5, <2>1, RestingType DEF BeginRotate, TypeOK, Resting, Request, Stages
  <2> QED BY <1>5, <2>1, <2>2 DEF BeginRotate, TypeOK, RequestOK
<1>6. ASSUME NEW c \in Clients, PrepareRejected(c)
      PROVE  TypeOK' /\ RequestOK'
  BY <1>6, FinishType DEF PrepareRejected, TypeOK
<1>7. ASSUME NEW c \in Clients, PrepareReplay(c) \/ PrepareActive(c)
      PROVE  TypeOK' /\ RequestOK'
  <2> DEFINE state == tokens[request[c].token]
  <2>1. /\ request[c] \in Request /\ request[c].token \in Tokens
        /\ request[c].token \in DOMAIN tokens /\ state \in TokenState
    BY <1>7 DEF PrepareReplay, PrepareActive, Recognised, TypeOK, RequestOK
  <2>2. ContextOf(state) \in Context
    BY <2>1 DEF ContextOf, Context, TokenState
  <2>3. /\ request'[c] \in Request /\ request'[c].pc = "get_account"
        /\ request'[c].token = request[c].token /\ request'[c].context = ContextOf(state)
    <3>1. CASE PrepareReplay(c)
      BY <2>1, <2>2, <3>1 DEF PrepareReplay, TypeOK, Request, Stages, TokenState
    <3>2. CASE PrepareActive(c)
      BY <2>1, <2>2, <3>2 DEF PrepareActive, TypeOK, Request, Stages
    <3> QED BY <1>7, <3>1, <3>2
  <2>4. request' = [request EXCEPT ![c] = request'[c]]
    BY <1>7 DEF PrepareReplay, PrepareActive, TypeOK
  <2> HIDE DEF state
  <2> QED BY <1>7, <2>1, <2>2, <2>3, <2>4 DEF PrepareReplay, PrepareActive, TypeOK, RequestOK
<1>8. ASSUME NEW c \in Clients, PrepareReuse(c) \/ FailClosed(c)
      PROVE  TypeOK' /\ RequestOK'
  <2>1. tokens' \in [DOMAIN tokens' -> TokenState] /\ DOMAIN tokens' \subseteq Tokens
    BY <1>8, RevokeType DEF PrepareReuse, FailClosed, TypeOK
  <2> QED BY <1>8, <2>1, FinishType DEF PrepareReuse, FailClosed, TypeOK
<1>9. ASSUME NEW c \in Clients, GetAccount(c)
      PROVE  TypeOK' /\ RequestOK'
  <2>1. request[c] \in Request /\ request[c].token \in Tokens /\ request[c].context \in Context
    BY <1>9 DEF GetAccount, TypeOK, RequestOK
  <2>2. /\ request'[c] \in Request /\ request'[c].pc = "get_epoch"
        /\ request'[c].token = request[c].token /\ request'[c].context = request[c].context
    BY <1>9, <2>1 DEF GetAccount, TypeOK, Request, Stages, Snapshot, Context, AccountState
  <2>3. \A d \in Clients \ {c} : request'[d] = request[d]
    BY <1>9 DEF GetAccount, TypeOK
  <2>4. request' \in [Clients -> Request]
    BY <1>9, <2>2, <2>3 DEF GetAccount, TypeOK
  <2> QED BY <1>9, <2>1, <2>2, <2>3, <2>4 DEF GetAccount, TypeOK, RequestOK
<1>10. ASSUME NEW c \in Clients, GetEpoch(c)
       PROVE  TypeOK' /\ RequestOK'
  <2>1. /\ request[c] \in Request /\ request[c].token \in Tokens
        /\ request[c].context \in Context /\ request[c].receipt \in Receipt \cup {None}
    BY <1>10 DEF GetEpoch, TypeOK, RequestOK, Request
  <2>2. CASE Finish(c) BY <1>10, <2>2, FinishType DEF GetEpoch, TypeOK
  <2>3. CASE request' = [request EXCEPT ![c].pc =
                           IF request[c].receipt # None THEN "recover" ELSE "rotate"]
    <3>1. /\ request'[c] \in Request /\ request'[c].pc \in {"recover", "rotate"}
          /\ request'[c].pc = "recover" => request'[c].receipt \in Receipt
          /\ request'[c].token = request[c].token /\ request'[c].context = request[c].context
      BY <2>1, <2>3 DEF TypeOK, Request, Stages
    <3>2. \A d \in Clients \ {c} : request'[d] = request[d]
      BY <2>3 DEF TypeOK
    <3>3. request' \in [Clients -> Request]
      BY <2>3, <3>1, <3>2 DEF TypeOK
    <3> QED BY <1>10, <2>1, <3>1, <3>2, <3>3 DEF GetEpoch, TypeOK, RequestOK
  <2> QED BY <1>10, <2>2, <2>3 DEF GetEpoch
<1>11. ASSUME NEW c \in Clients, NEW t \in Tokens, Rotate(c, t)
       PROVE  TypeOK' /\ RequestOK'
  <2> DEFINE r == request[c]
             ctx == r.context
             expires == Lesser(r.at + Idle, ctx.familyExpires)
             sealed == Seal(r.token, ctx, Digest(r.key), t,
                            Lesser(r.at + Window, ctx.familyExpires))
             next == NewState([ctx EXCEPT !.expires = expires])
  <2>1. /\ r \in Request /\ r.token \in Tokens /\ ctx \in Context
        /\ ctx.familyExpires \in Expiries /\ Digest(r.key) \in Digests
    BY <1>11, DigestType DEF Rotate, TypeOK, RequestOK, Request, Context
  <2>2. expires \in Expiries /\ Lesser(r.at + Window, ctx.familyExpires) \in Expiries
    BY <2>1, ExpiryType DEF Request
  <2>3. sealed \in Receipt
    BY <2>1, <2>2 DEF Seal, Receipt, Context
  <2>4. next \in TokenState
    <3>1. [ctx EXCEPT !.expires = expires] \in Context
      BY <2>1, <2>2 DEF Context
    <3> QED BY <3>1, NewStateType
  <2>5. CASE Finish(c) /\ UNCHANGED tokens
    BY <1>11, <2>5, FinishType DEF Rotate, TypeOK
  <2>6. CASE /\ RotationValid(r, t)
             /\ tokens' = [Put(t, next) EXCEPT ![r.token] = Consume(@, Digest(r.key), sealed)]
             /\ request' = [request EXCEPT ![c].pc = "recover", ![c].receipt = sealed]
    <3>1. tokens' \in [DOMAIN tokens' -> TokenState] /\ DOMAIN tokens' \subseteq Tokens
      <4>1. /\ Put(t, next) \in [DOMAIN tokens \cup {t} -> TokenState]
            /\ DOMAIN tokens \cup {t} \subseteq Tokens
        BY <2>4, PutType
      <4>2. r.token \in DOMAIN tokens BY <2>6 DEF RotationValid, Recognised
      <4>3. Consume(Put(t, next)[r.token], Digest(r.key), sealed) \in TokenState
        BY <4>1, <4>2, <2>1, <2>3, ConsumeType
      <4> HIDE DEF sealed, next, expires
      <4> QED BY <4>1, <4>2, <4>3, <2>6
    <3> HIDE DEF sealed, next, expires
    <3>2. /\ request'[c] \in Request /\ request'[c].pc = "recover"
          /\ request'[c].receipt = sealed
          /\ request'[c].token = r.token /\ request'[c].context = ctx
      BY <2>1, <2>3, <2>6 DEF TypeOK, Request, Stages
    <3>3. request' \in [Clients -> Request] /\ \A d \in Clients \ {c} : request'[d] = request[d]
      BY <2>6, <3>2 DEF TypeOK
    <3> QED BY <1>11, <2>1, <2>3, <3>1, <3>2, <3>3 DEF Rotate, TypeOK, RequestOK
  <2> QED BY <1>11, <2>5, <2>6 DEF Rotate
<1>12. ASSUME NEW c \in Clients, Recover(c)
       PROVE  TypeOK' /\ RequestOK'
  <2> DEFINE r == request[c]
  <2>1. r \in Request /\ r.token \in Tokens /\ r.context \in Context /\ r.receipt \in Receipt
    BY <1>12 DEF Recover, TypeOK, RequestOK
  <2>2. CASE /\ delivered' = delivered \cup
                  {[presented |-> r.token, key |-> Digest(r.key), token |-> r.receipt.successor]}
             /\ Finish(c)
    <3>1. [presented |-> r.token, key |-> Digest(r.key), token |-> r.receipt.successor] \in Delivery
      BY <2>1, DigestType DEF Delivery, Receipt, Request
    <3> QED BY <1>12, <2>2, <3>1, FinishType DEF Recover, TypeOK
  <2>3. CASE request' = [request EXCEPT ![c].pc = "fail_closed"] /\ UNCHANGED delivered
    <3>1. /\ request'[c] \in Request /\ request'[c].pc = "fail_closed"
          /\ request'[c].token = r.token /\ request'[c].context = r.context
      BY <2>1, <2>3 DEF TypeOK, Request, Stages
    <3>2. request' \in [Clients -> Request] /\ \A d \in Clients \ {c} : request'[d] = request[d]
      BY <2>3, <3>1 DEF TypeOK
    <3> QED BY <1>12, <2>1, <2>3, <3>1, <3>2 DEF Recover, TypeOK, RequestOK
  <2> QED BY <1>12, <2>2, <2>3 DEF Recover
<1>13. ASSUME NEW c \in Clients, Abort(c)
       PROVE  TypeOK' /\ RequestOK'
  BY <1>13, FinishType DEF Abort, TypeOK
<1>14. ASSUME Administer
       PROVE  TypeOK' /\ RequestOK'
  <2>1. CASE \E a \in Accounts : BumpEpoch(a)
    BY <2>1, LifetimesAssumption
    DEF BumpEpoch, TypeOK, RequestOK, AccountState, Epochs
  <2>2. CASE \E a \in Accounts : SetActive(a)
    <3>1. PICK a \in Accounts : SetActive(a) BY <2>2
    <3>2. account[a] \in AccountState BY DEF TypeOK
    <3>3. [account[a] EXCEPT !.active = ~ @] \in AccountState
      <4>1. (~ account[a].active) \in BOOLEAN OBVIOUS
      <4> QED BY <3>2, <4>1 DEF AccountState
    <3>4. account' \in [Accounts -> AccountState]
      BY <3>1, <3>3 DEF SetActive, TypeOK
    <3> QED BY <3>1, <3>4 DEF SetActive, TypeOK, RequestOK
  <2>3. ASSUME NEW fs, tokens' = RevokeFamilies(fs), UNCHANGED <<now, account, request, delivered>>
        PROVE  TypeOK' /\ RequestOK'
    BY <2>3, RevokeType DEF TypeOK, RequestOK
  <2> QED BY <1>14, <2>1, <2>2, <2>3
          DEF Administer, RevokeForAccount, RevokeToken, RevokeTokenForAccount
<1>15. ASSUME Tick
       PROVE  TypeOK' /\ RequestOK'
  BY <1>15, LifetimesAssumption DEF Tick, TypeOK, RequestOK, Times
<1> QED BY <1>1, <1>2, <1>3, <1>4, <1>5, <1>6, <1>7, <1>8, <1>9, <1>10, <1>11, <1>12,
           <1>13, <1>14, <1>15 DEF Next, Serve, Digests

\* Every variable keeps its type, for every number of accounts, families,
\* tokens and concurrent requests.
THEOREM TypeCorrect == Spec => []TypeOK
<1>1. TypeInv /\ [Next]_vars => TypeInv'
  BY NextType
<1>2. TypeInv => TypeOK
  BY DEF TypeInv
<1> QED BY <1>1, <1>2, InitType, PTL DEF Spec

----------------------------------------------------------------------------
(* The three ways the dictionary changes.                                  *)

\* What create_family commits.
Created(c) ==
  LET r == request[c] IN
  /\ r.token \notin DOMAIN tokens
  /\ FamilyOf(r.context.family) = {}
  /\ account[r.context.account].epoch = r.context.epoch
  /\ tokens' = Put(r.token, NewState(r.context))

\* What rotate commits: the token is consumed and its successor appears.
Rotated(c, t) ==
  LET r == request[c]
      ctx == r.context
      sealed == Seal(r.token, ctx, Digest(r.key), t, Lesser(r.at + Window, ctx.familyExpires))
  IN
  /\ RotationValid(r, t)
  /\ t # r.token
  /\ tokens' = [Put(t, NewState([ctx EXCEPT !.expires = Lesser(r.at + Idle, ctx.familyExpires)]))
                EXCEPT ![r.token] = Consume(@, Digest(r.key), sealed)]

LEMMA TokensStep ==
  ASSUME TypeInv, [Next]_vars
  PROVE  \/ UNCHANGED tokens
         \/ \E fs : tokens' = RevokeFamilies(fs)
         \/ \E c \in Clients : request[c].pc = "create" /\ Created(c)
         \/ \E c \in Clients, t \in Tokens : request[c].pc = "rotate" /\ Rotated(c, t)
<1>1. CASE UNCHANGED vars BY <1>1 DEF vars
<1>2. ASSUME NEW c \in Clients, CreateFamily(c)
      PROVE  UNCHANGED tokens \/ (request[c].pc = "create" /\ Created(c))
  BY <1>2 DEF CreateFamily, Created
<1>3. ASSUME NEW c \in Clients, NEW t \in Tokens, Rotate(c, t)
      PROVE  UNCHANGED tokens \/ (request[c].pc = "rotate" /\ Rotated(c, t))
  BY <1>3 DEF Rotate, Rotated
<1>4. ASSUME NEW c \in Clients, PrepareReuse(c) \/ FailClosed(c)
      PROVE  \E fs : tokens' = RevokeFamilies(fs)
  BY <1>4 DEF PrepareReuse, FailClosed
<1>5. ASSUME Administer
      PROVE  UNCHANGED tokens \/ \E fs : tokens' = RevokeFamilies(fs)
  BY <1>5 DEF Administer, BumpEpoch, SetActive, RevokeForAccount, RevokeToken, RevokeTokenForAccount
<1>6. ASSUME NEW c \in Clients,
             \/ CheckEpoch(c) \/ AnswerIssue(c) \/ PrepareRejected(c) \/ PrepareReplay(c)
             \/ PrepareActive(c) \/ GetAccount(c) \/ GetEpoch(c) \/ Recover(c) \/ Abort(c)
      PROVE  UNCHANGED tokens
  BY <1>6 DEF CheckEpoch, AnswerIssue, PrepareRejected, PrepareReplay, PrepareActive,
              GetAccount, GetEpoch, Recover, Abort
<1>7. ASSUME NEW c \in Clients,
             \/ \E a \in Accounts : BeginIssue(c, a)
             \/ \E t \in Known, key \in Digests \cup {InvalidKey}, genuine \in BOOLEAN :
                  BeginRotate(c, t, key, genuine)
      PROVE  UNCHANGED tokens
  BY <1>7 DEF BeginIssue, BeginRotate
<1>8. Tick => UNCHANGED tokens BY DEF Tick
<1> QED BY <1>1, <1>2, <1>3, <1>4, <1>5, <1>6, <1>7, <1>8 DEF Next, Serve, Digests

\* The fields of the dictionary after each of the three changes.
LEMMA RevokedFields ==
  ASSUME TypeOK, NEW fs, tokens' = RevokeFamilies(fs)
  PROVE  /\ DOMAIN tokens' = DOMAIN tokens
         /\ \A t \in DOMAIN tokens :
              /\ ContextOf(tokens'[t]) = ContextOf(tokens[t])
              /\ tokens'[t].consumed = tokens[t].consumed
              /\ tokens'[t].key = tokens[t].key
              /\ tokens'[t].receipt = tokens[t].receipt
              /\ tokens'[t].revoked = (tokens[t].revoked \/ tokens[t].family \in fs)
              /\ tokens'[t].family = tokens[t].family
<1>1. DOMAIN tokens' = DOMAIN tokens BY DEF RevokeFamilies
<1>2. ASSUME NEW t \in DOMAIN tokens
      PROVE  /\ ContextOf(tokens'[t]) = ContextOf(tokens[t])
             /\ tokens'[t].consumed = tokens[t].consumed
             /\ tokens'[t].key = tokens[t].key
             /\ tokens'[t].receipt = tokens[t].receipt
             /\ tokens'[t].revoked = (tokens[t].revoked \/ tokens[t].family \in fs)
             /\ tokens'[t].family = tokens[t].family
  <2>1. tokens[t] \in TokenState BY DEF TypeOK
  <2>2. CASE tokens[t].family \in fs
    <3>1. tokens'[t] = [tokens[t] EXCEPT !.revoked = TRUE] BY <2>2 DEF RevokeFamilies
    <3> QED BY <2>1, <2>2, <3>1 DEF TokenState, ContextOf
  <2>3. CASE tokens[t].family \notin fs
    <3>1. tokens'[t] = tokens[t] BY <2>3 DEF RevokeFamilies
    <3> QED BY <2>1, <2>3, <3>1 DEF TokenState
  <2> QED BY <2>2, <2>3
<1> QED BY <1>1, <1>2

LEMMA CreatedFields ==
  ASSUME TypeInv, NEW c \in Clients, request[c].pc = "create", Created(c)
  PROVE  LET t == request[c].token IN
         /\ t \notin DOMAIN tokens
         /\ DOMAIN tokens' = DOMAIN tokens \cup {t}
         /\ tokens'[t] = NewState(request[c].context)
         /\ \A u \in DOMAIN tokens : /\ tokens'[u] = tokens[u]
                                     /\ tokens[u].family # request[c].context.family
BY DEF Created, Put, FamilyOf

LEMMA RotatedFields ==
  ASSUME TypeInv, NEW c \in Clients, NEW t \in Tokens, request[c].pc = "rotate", Rotated(c, t)
  PROVE  LET r == request[c]
             ctx == r.context
         IN
         /\ t \notin DOMAIN tokens /\ r.token \in DOMAIN tokens
         /\ DOMAIN tokens' = DOMAIN tokens \cup {t}
         /\ ~ tokens[r.token].consumed /\ ~ tokens[r.token].revoked
         /\ tokens[r.token].family = ctx.family
         /\ tokens'[t] = NewState([ctx EXCEPT !.expires = Lesser(r.at + Idle, ctx.familyExpires)])
         /\ tokens'[r.token] =
              Consume(tokens[r.token], Digest(r.key),
                      Seal(r.token, ctx, Digest(r.key), t, Lesser(r.at + Window, ctx.familyExpires)))
         /\ \A u \in DOMAIN tokens \ {r.token} : tokens'[u] = tokens[u]
<1> DEFINE r == request[c]
           ctx == r.context
           next == NewState([ctx EXCEPT !.expires = Lesser(r.at + Idle, ctx.familyExpires)])
           sealed == Seal(r.token, ctx, Digest(r.key), t,
                          Lesser(r.at + Window, ctx.familyExpires))
<1>1. /\ t \notin DOMAIN tokens /\ r.token \in DOMAIN tokens /\ t # r.token
      /\ ~ tokens[r.token].consumed /\ ~ tokens[r.token].revoked
      /\ tokens[r.token].family = ctx.family
  BY DEF Rotated, RotationValid, Recognised, ContextMatches
<1>2. tokens' = [Put(t, next) EXCEPT ![r.token] = Consume(@, Digest(r.key), sealed)]
  BY DEF Rotated
<1> HIDE DEF next, sealed
<1>3. /\ DOMAIN Put(t, next) = DOMAIN tokens \cup {t}
      /\ Put(t, next)[t] = next
      /\ \A u \in DOMAIN tokens : Put(t, next)[u] = tokens[u]
  BY <1>1 DEF Put
<1>4. /\ DOMAIN tokens' = DOMAIN tokens \cup {t}
      /\ tokens'[t] = next
      /\ tokens'[r.token] = Consume(tokens[r.token], Digest(r.key), sealed)
      /\ \A u \in DOMAIN tokens \ {r.token} : tokens'[u] = tokens[u]
  BY <1>1, <1>2, <1>3
<1> QED BY <1>1, <1>4 DEF next, sealed

----------------------------------------------------------------------------
(* The chain.                                                              *)

LEMMA LinearInit == Init => LinearFamily
BY DEF Init, LinearFamily

LEMMA LinearNext ==
  ASSUME TypeInv, LinearFamily, [Next]_vars
  PROVE  LinearFamily'
<1>1. CASE UNCHANGED tokens
  BY <1>1 DEF LinearFamily
<1>2. ASSUME NEW fs, tokens' = RevokeFamilies(fs)
      PROVE  LinearFamily'
  BY <1>2, RevokedFields DEF LinearFamily, TypeInv
<1>3. ASSUME NEW c \in Clients, request[c].pc = "create", Created(c)
      PROVE  LinearFamily'
  <2> DEFINE t == request[c].token
             state == NewState(request[c].context)
  <2>1. /\ t \notin DOMAIN tokens /\ DOMAIN tokens' = DOMAIN tokens \cup {t}
        /\ tokens'[t] = state
        /\ \A u \in DOMAIN tokens : /\ tokens'[u] = tokens[u]
                                    /\ tokens[u].family # request[c].context.family
    BY <1>3, CreatedFields
  <2>2. state.family = request[c].context.family /\ ~ state.consumed
    BY DEF NewState
  <2> HIDE DEF t, state
  <2> QED BY <2>1, <2>2 DEF LinearFamily
<1>4. ASSUME NEW c \in Clients, NEW t \in Tokens, request[c].pc = "rotate", Rotated(c, t)
      PROVE  LinearFamily'
  <2> DEFINE r == request[c]
             ctx == r.context
             next == NewState([ctx EXCEPT !.expires = Lesser(r.at + Idle, ctx.familyExpires)])
             sealed == Seal(r.token, ctx, Digest(r.key), t,
                            Lesser(r.at + Window, ctx.familyExpires))
             old == tokens[r.token]
             new == Consume(old, Digest(r.key), sealed)
  <2>1. /\ t \notin DOMAIN tokens /\ r.token \in DOMAIN tokens
        /\ DOMAIN tokens' = DOMAIN tokens \cup {t}
        /\ ~ old.consumed /\ ~ old.revoked /\ old.family = ctx.family
        /\ tokens'[t] = next /\ tokens'[r.token] = new
        /\ \A u \in DOMAIN tokens \ {r.token} : tokens'[u] = tokens[u]
    BY <1>4, RotatedFields
  <2>2. /\ next.family = ctx.family /\ ~ next.consumed /\ next.revoked = FALSE
    <3>1. ctx \in Context BY <1>4 DEF TypeInv, RequestOK
    <3> QED BY <3>1 DEF NewState, Context
  <2>3. /\ new.consumed /\ new.family = ctx.family /\ new.revoked = FALSE /\ old.revoked = FALSE
        /\ new.receipt.successor = t
    <3>1. old \in TokenState BY <2>1 DEF TypeInv, TypeOK
    <3> QED BY <2>1, <3>1 DEF Consume, TokenState, Seal
  <2> DEFINE parent == r.token
  <2>4. \A u \in DOMAIN tokens \ {parent} : tokens[u].family = ctx.family =>
          tokens[u].consumed /\ tokens[u].revoked = FALSE
    BY <2>1, <2>3 DEF LinearFamily
  <2> HIDE DEF r, next, old, new, ctx, parent
  <2>5. /\ t \notin DOMAIN tokens /\ parent \in DOMAIN tokens
        /\ DOMAIN tokens' = DOMAIN tokens \cup {t}
        /\ tokens'[t] = next /\ tokens'[parent] = new
        /\ \A u \in DOMAIN tokens \ {parent} : tokens'[u] = tokens[u]
        /\ tokens[parent].family = ctx.family
        /\ \A u \in DOMAIN tokens : tokens'[u].family = tokens[u].family
    BY <2>1, <2>3 DEF parent, old
  <2>6. \A u \in DOMAIN tokens' : tokens'[u].family = ctx.family =>
          tokens'[u].revoked = FALSE /\ (~ tokens'[u].consumed => u = t)
    BY <2>2, <2>3, <2>4, <2>5
  <2>7. \A u \in DOMAIN tokens \ {parent} : tokens[u].consumed =>
          tokens[u].receipt.successor \in DOMAIN tokens
    BY DEF LinearFamily
  <2>8. ASSUME NEW u \in DOMAIN tokens', NEW v \in DOMAIN tokens',
               tokens'[u].family = tokens'[v].family
        PROVE  /\ tokens'[u].revoked = tokens'[v].revoked
               /\ ~ tokens'[u].consumed /\ ~ tokens'[v].consumed => u = v
    <3>1. CASE tokens'[u].family = ctx.family BY <2>6, <2>8, <3>1
    <3>2. CASE tokens'[u].family # ctx.family
      <4>1. u \in DOMAIN tokens \ {parent} /\ v \in DOMAIN tokens \ {parent}
        BY <2>2, <2>3, <2>5, <2>8, <3>2
      <4> QED BY <4>1, <2>5, <2>8 DEF LinearFamily
    <3> QED BY <3>1, <3>2
  <2>9. ASSUME NEW u \in DOMAIN tokens', NEW v \in DOMAIN tokens',
               tokens'[u].family = tokens'[v].family,
               tokens'[u].consumed, tokens'[v].consumed,
               tokens'[u].receipt.successor = tokens'[v].receipt.successor
        PROVE  u = v
    <3>1. u # t /\ v # t BY <2>2, <2>5, <2>9
    <3>2. CASE u = parent \/ v = parent
      BY <2>3, <2>5, <2>7, <2>9, <3>1, <3>2
    <3>3. CASE u # parent /\ v # parent
      BY <2>5, <2>9, <3>1, <3>3 DEF LinearFamily
    <3> QED BY <3>2, <3>3
  <2>10. ASSUME NEW u \in DOMAIN tokens', tokens'[u].consumed
         PROVE  /\ tokens'[u].receipt.successor \in DOMAIN tokens' \ {u}
                /\ tokens'[tokens'[u].receipt.successor].family = tokens'[u].family
    <3>1. u # t BY <2>2, <2>5, <2>10
    <3>2. CASE u = parent BY <2>2, <2>3, <2>5, <3>2
    <3>3. CASE u # parent BY <2>5, <2>10, <3>1, <3>3 DEF LinearFamily
    <3> QED BY <3>2, <3>3
  <2> QED BY <2>8, <2>9, <2>10 DEF LinearFamily
<1> QED BY <1>1, <1>2, <1>3, <1>4, TokensStep

\* No interleaving of rotations, retries, reuse, revocations and epoch changes
\* forks a family: it stays one chain with one live tip.
THEOREM FamiliesAreLinear == Spec => []LinearFamily
<1>1. TypeInv /\ LinearFamily /\ [Next]_vars => TypeInv' /\ LinearFamily'
  BY NextType, LinearNext
<1> QED BY <1>1, InitType, LinearInit, PTL DEF Spec

----------------------------------------------------------------------------
(* What a step may never do.                                               *)

LEMMA FrozenStep ==
  ASSUME TypeInv, LinearFamily, [Next]_vars, NEW f \in Families, Revoked(f)
  PROVE  /\ {t \in DOMAIN tokens' : tokens'[t].family = f} = FamilyOf(f)
         /\ \A t \in FamilyOf(f) : tokens'[t].revoked /\ tokens'[t].consumed = tokens[t].consumed
<1>0. \A t \in FamilyOf(f) : tokens[t].revoked
  BY DEF LinearFamily, Revoked, FamilyOf
<1>1. CASE UNCHANGED tokens
  BY <1>0, <1>1 DEF FamilyOf
<1>2. ASSUME NEW fs, tokens' = RevokeFamilies(fs)
      PROVE  /\ {t \in DOMAIN tokens' : tokens'[t].family = f} = FamilyOf(f)
             /\ \A t \in FamilyOf(f) : tokens'[t].revoked /\ tokens'[t].consumed = tokens[t].consumed
  BY <1>0, <1>2, RevokedFields, ZenonT(60) DEF FamilyOf, TypeInv
<1>3. ASSUME NEW c \in Clients, request[c].pc = "create", Created(c)
      PROVE  /\ {t \in DOMAIN tokens' : tokens'[t].family = f} = FamilyOf(f)
             /\ \A t \in FamilyOf(f) : tokens'[t].revoked /\ tokens'[t].consumed = tokens[t].consumed
  <2> DEFINE t == request[c].token
             state == NewState(request[c].context)
  <2>1. /\ t \notin DOMAIN tokens /\ DOMAIN tokens' = DOMAIN tokens \cup {t}
        /\ tokens'[t] = state
        /\ \A u \in DOMAIN tokens : /\ tokens'[u] = tokens[u]
                                    /\ tokens[u].family # request[c].context.family
    BY <1>3, CreatedFields
  <2>2. state.family # f
    BY <2>1 DEF NewState, Revoked, FamilyOf
  <2> HIDE DEF t, state
  <2> QED BY <1>0, <2>1, <2>2 DEF FamilyOf
<1>4. ASSUME NEW c \in Clients, NEW t \in Tokens, request[c].pc = "rotate", Rotated(c, t)
      PROVE  /\ {u \in DOMAIN tokens' : tokens'[u].family = f} = FamilyOf(f)
             /\ \A u \in FamilyOf(f) : tokens'[u].revoked /\ tokens'[u].consumed = tokens[u].consumed
  <2> DEFINE r == request[c]
             ctx == r.context
             next == NewState([ctx EXCEPT !.expires = Lesser(r.at + Idle, ctx.familyExpires)])
             new == Consume(tokens[r.token], Digest(r.key),
                            Seal(r.token, ctx, Digest(r.key), t,
                                 Lesser(r.at + Window, ctx.familyExpires)))
  <2>1. /\ t \notin DOMAIN tokens /\ r.token \in DOMAIN tokens
        /\ DOMAIN tokens' = DOMAIN tokens \cup {t}
        /\ ~ tokens[r.token].revoked /\ tokens[r.token].family = ctx.family
        /\ tokens'[t] = next /\ tokens'[r.token] = new
        /\ \A u \in DOMAIN tokens \ {r.token} : tokens'[u] = tokens[u]
    BY <1>4, RotatedFields
  <2>2. ctx.family # f
    BY <1>0, <2>1 DEF FamilyOf
  <2>3. next.family = ctx.family
    BY <1>4 DEF NewState, Context, TypeInv, RequestOK
  <2>4. new.family = ctx.family
    BY <2>1 DEF Consume, TokenState, TypeInv, TypeOK
  <2> HIDE DEF r, ctx, next, new
  <2> QED BY <1>0, <2>1, <2>2, <2>3, <2>4 DEF FamilyOf
<1> QED BY <1>1, <1>2, <1>3, <1>4, TokensStep

\* Revocation is final: a request prepared before it cannot extend the family.
THEOREM RevocationIsFinal == Spec => RevokedStaysFrozen
<1>1. TypeInv /\ LinearFamily /\ [Next]_vars => TypeInv' /\ LinearFamily'
  BY NextType, LinearNext
<1>2. TypeInv /\ LinearFamily /\ [Next]_vars =>
        [\A f \in Families : Revoked(f) =>
           /\ {t \in DOMAIN tokens' : tokens'[t].family = f} = FamilyOf(f)
           /\ \A t \in FamilyOf(f) :
                tokens'[t].revoked /\ tokens'[t].consumed = tokens[t].consumed]_vars
  BY FrozenStep
<1> QED BY <1>1, <1>2, InitType, LinearInit, PTL DEF Spec, RevokedStaysFrozen

LEMMA EpochStep ==
  ASSUME TypeInv, [Next]_vars, NEW t \in DOMAIN tokens' \ DOMAIN tokens
  PROVE  tokens'[t].epoch = account[tokens'[t].account].epoch
<1>1. ~ UNCHANGED tokens OBVIOUS
<1>2. ASSUME NEW fs, tokens' = RevokeFamilies(fs) PROVE FALSE
  BY <1>2, RevokedFields DEF TypeInv
<1>3. ASSUME NEW c \in Clients, request[c].pc = "create", Created(c)
      PROVE  tokens'[t].epoch = account[tokens'[t].account].epoch
  <2> DEFINE ctx == request[c].context
             state == NewState(ctx)
  <2>1. t = request[c].token /\ tokens'[t] = state
    BY <1>3, CreatedFields
  <2>2. account[ctx.account].epoch = ctx.epoch
    BY <1>3 DEF Created
  <2>3. state.account = ctx.account /\ state.epoch = ctx.epoch
    BY DEF NewState
  <2> QED BY <2>1, <2>2, <2>3
<1>4. ASSUME NEW c \in Clients, NEW u \in Tokens, request[c].pc = "rotate", Rotated(c, u)
      PROVE  tokens'[t].epoch = account[tokens'[t].account].epoch
  <2> DEFINE r == request[c]
             ctx == r.context
             next == NewState([ctx EXCEPT !.expires = Lesser(r.at + Idle, ctx.familyExpires)])
  <2>1. /\ DOMAIN tokens' = DOMAIN tokens \cup {u} /\ tokens'[u] = next
    BY <1>4, RotatedFields
  <2>2. account[ctx.account].epoch = ctx.epoch
    BY <1>4 DEF Rotated, RotationValid, EpochCurrent
  <2>3. next.account = ctx.account /\ next.epoch = ctx.epoch
    BY <1>4 DEF NewState, Context, TypeInv, RequestOK
  <2> HIDE DEF r, ctx, next
  <2> QED BY <2>1, <2>2, <2>3
<1> QED BY <1>1, <1>2, <1>3, <1>4, TokensStep

\* An epoch bump cuts off every request begun before it, issue or rotation.
THEOREM EpochCutsOff == Spec => OnlyCurrentEpochGrows
<1>1. TypeInv /\ [Next]_vars => TypeInv'
  BY NextType
<1>2. TypeInv /\ [Next]_vars =>
        [\A t \in DOMAIN tokens' \ DOMAIN tokens :
           tokens'[t].epoch = account[tokens'[t].account].epoch]_vars
  BY EpochStep
<1> QED BY <1>1, <1>2, InitType, PTL DEF Spec, OnlyCurrentEpochGrows

----------------------------------------------------------------------------
(* What a coroutine read before an await still holds after it.             *)

\* A token state only ages: its binding never changes, consumption and
\* revocation are never undone, and a consumed token keeps its receipt.
LEMMA TokensOnlyAge ==
  ASSUME TypeInv, [Next]_vars, NEW t \in DOMAIN tokens
  PROVE  /\ t \in DOMAIN tokens'
         /\ ContextOf(tokens'[t]) = ContextOf(tokens[t])
         /\ tokens[t].consumed => /\ tokens'[t].consumed
                                  /\ tokens'[t].key = tokens[t].key
                                  /\ tokens'[t].receipt = tokens[t].receipt
<1>1. CASE UNCHANGED tokens BY <1>1
<1>2. ASSUME NEW fs, tokens' = RevokeFamilies(fs)
      PROVE  /\ t \in DOMAIN tokens'
             /\ ContextOf(tokens'[t]) = ContextOf(tokens[t])
             /\ tokens[t].consumed => /\ tokens'[t].consumed
                                      /\ tokens'[t].key = tokens[t].key
                                      /\ tokens'[t].receipt = tokens[t].receipt
  BY <1>2, RevokedFields DEF TypeInv
<1>3. ASSUME NEW c \in Clients, request[c].pc = "create", Created(c)
      PROVE  t \in DOMAIN tokens' /\ tokens'[t] = tokens[t]
  BY <1>3, CreatedFields
<1>4. ASSUME NEW c \in Clients, NEW u \in Tokens, request[c].pc = "rotate", Rotated(c, u)
      PROVE  /\ t \in DOMAIN tokens'
             /\ ContextOf(tokens'[t]) = ContextOf(tokens[t])
             /\ tokens[t].consumed => tokens'[t] = tokens[t]
  <2> DEFINE r == request[c]
             sealed == Seal(r.token, r.context, Digest(r.key), u,
                            Lesser(r.at + Window, r.context.familyExpires))
  <2>1. /\ t \in DOMAIN tokens' /\ r.token \in DOMAIN tokens /\ ~ tokens[r.token].consumed
        /\ tokens'[r.token] = Consume(tokens[r.token], Digest(r.key), sealed)
        /\ \A v \in DOMAIN tokens \ {r.token} : tokens'[v] = tokens[v]
    BY <1>4, RotatedFields
  <2>2. tokens[r.token] \in TokenState BY <2>1 DEF TypeInv, TypeOK
  <2> HIDE DEF sealed
  <2>3. ContextOf(tokens'[r.token]) = ContextOf(tokens[r.token])
    BY <2>1, <2>2 DEF Consume, ContextOf, TokenState
  <2> HIDE DEF r
  <2> QED BY <2>1, <2>3
<1> QED BY <1>1, <1>2, <1>3, <1>4, TokensStep

\* The first token of a committed family is in the dictionary; the context a
\* rotation holds is that of its token; the receipt it holds is its token's.
HeldBy(r, ts) ==
  /\ r.pc = "prepare" => r.receipt = None
  /\ r.pc = "created" => r.token \in DOMAIN ts
  /\ r.pc \in {"get_account", "get_epoch", "rotate", "recover"} =>
       r.token \in DOMAIN ts /\ r.context = ContextOf(ts[r.token])
  /\ \/ r.pc \in {"get_account", "get_epoch"} /\ r.receipt # None
     \/ r.pc = "recover"
     => /\ ts[r.token].consumed
        /\ ts[r.token].key = Digest(r.key)
        /\ ts[r.token].receipt = r.receipt

Held == \A c \in Clients : HeldBy(request[c], tokens)

LEMMA HeldInit == Init => Held
BY RestingType DEF Init, Held, HeldBy

LEMMA HeldPersists ==
  ASSUME TypeInv, Held, [Next]_vars, NEW c \in Clients
  PROVE  HeldBy(request[c], tokens')
<1>1. HeldBy(request[c], tokens) BY DEF Held
<1> QED BY <1>1, TokensOnlyAge DEF HeldBy

\* A step of coroutine c leaves every other coroutine as it was.
LEMMA HeldStep ==
  ASSUME TypeInv, Held, [Next]_vars, NEW c \in Clients, NEW r,
         request' = [request EXCEPT ![c] = r], HeldBy(r, tokens')
  PROVE  Held'
<1>1. \A d \in Clients : HeldBy(request'[d], tokens')
  BY HeldPersists DEF TypeInv, TypeOK
<1> QED BY <1>1 DEF Held

LEMMA HeldFinish ==
  ASSUME TypeInv, Held, [Next]_vars, NEW c \in Clients, Finish(c)
  PROVE  Held'
<1>1. HeldBy(Resting, tokens') BY RestingType DEF HeldBy
<1> QED BY <1>1, HeldStep DEF Finish

LEMMA HeldNext ==
  ASSUME TypeInv, Held, [Next]_vars
  PROVE  Held'
<1>0. ASSUME UNCHANGED request PROVE Held'
  BY <1>0, HeldPersists DEF Held
<1>1. CASE UNCHANGED vars BY <1>0, <1>1 DEF vars
<1>2. ASSUME NEW c \in Clients, NEW a \in Accounts, BeginIssue(c, a)
      PROVE  Held'
  <2> DEFINE r == [Resting EXCEPT !.pc = "check_epoch", !.at = now,
                     !.snapshot = [account_id |-> a, active |-> TRUE, epoch |-> account[a].epoch]]
  <2>1. r.pc = "check_epoch" BY DEF Resting
  <2>2. request' = [request EXCEPT ![c] = r] BY <1>2 DEF BeginIssue
  <2> HIDE DEF r
  <2> QED BY <2>1, <2>2, HeldStep DEF HeldBy
<1>3. ASSUME NEW c \in Clients, CheckEpoch(c)
      PROVE  Held'
  <2>1. CASE Finish(c) BY <2>1, HeldFinish
  <2>2. ASSUME NEW t \in Tokens, NEW ctx,
               request' = [request EXCEPT ![c] =
                 [request[c] EXCEPT !.pc = "create", !.token = t, !.context = ctx]]
        PROVE  Held'
    <3> DEFINE r == [request[c] EXCEPT !.pc = "create", !.token = t, !.context = ctx]
    <3>1. r.pc = "create" BY DEF TypeInv, TypeOK, Request
    <3> HIDE DEF r
    <3> QED BY <2>2, <3>1, HeldStep DEF HeldBy, r
  <2> QED BY <1>3, <2>1, <2>2 DEF CheckEpoch
<1>4. ASSUME NEW c \in Clients, CreateFamily(c)
      PROVE  Held'
  <2>1. CASE Finish(c) BY <2>1, HeldFinish
  <2>2. CASE /\ request' = [request EXCEPT ![c].pc = "created"]
             /\ tokens' = Put(request[c].token, NewState(request[c].context))
    <3> DEFINE r == [request[c] EXCEPT !.pc = "created"]
    <3>1. r.pc = "created" /\ r.token = request[c].token BY DEF TypeInv, TypeOK, Request
    <3>2. r.token \in DOMAIN tokens' BY <2>2, <3>1 DEF Put
    <3>3. request' = [request EXCEPT ![c] = r] BY <2>2 DEF TypeInv, TypeOK
    <3> HIDE DEF r
    <3> QED BY <3>1, <3>2, <3>3, HeldStep DEF HeldBy
  <2> QED BY <1>4, <2>1, <2>2 DEF CreateFamily
<1>5. ASSUME NEW c \in Clients, NEW t \in Known, NEW key \in Digests \cup {InvalidKey},
             NEW genuine \in BOOLEAN, BeginRotate(c, t, key, genuine)
      PROVE  Held'
  <2> DEFINE r == [Resting EXCEPT !.pc = "prepare", !.token = t, !.genuine = genuine,
                                  !.key = key, !.at = now]
  <2>1. r.pc = "prepare" /\ r.receipt = None BY DEF Resting
  <2>2. request' = [request EXCEPT ![c] = r] BY <1>5 DEF BeginRotate
  <2> HIDE DEF r
  <2> QED BY <2>1, <2>2, HeldStep DEF HeldBy
<1>6. ASSUME NEW c \in Clients, PrepareReplay(c)
      PROVE  Held'
  <2> DEFINE state == tokens[request[c].token]
             r == [request[c] EXCEPT !.pc = "get_account", !.context = ContextOf(state),
                                     !.receipt = state.receipt]
  <2>1. /\ r.pc = "get_account" /\ r.token = request[c].token /\ r.key = request[c].key
        /\ r.context = ContextOf(state) /\ r.receipt = state.receipt
    BY DEF TypeInv, TypeOK, Request
  <2>2. /\ request' = [request EXCEPT ![c] = r] /\ UNCHANGED tokens
        /\ request[c].token \in DOMAIN tokens
        /\ state.consumed /\ state.key = Digest(request[c].key)
    BY <1>6 DEF PrepareReplay, Recognised, SameKey
  <2> HIDE DEF r
  <2>3. HeldBy(r, tokens') BY <2>1, <2>2 DEF HeldBy
  <2> QED BY <2>2, <2>3, HeldStep
<1>7. ASSUME NEW c \in Clients, PrepareActive(c)
      PROVE  Held'
  <2> DEFINE state == tokens[request[c].token]
             r == [request[c] EXCEPT !.pc = "get_account", !.context = ContextOf(state)]
  <2>1. /\ r.pc = "get_account" /\ r.token = request[c].token
        /\ r.context = ContextOf(state) /\ r.receipt = request[c].receipt
    BY DEF TypeInv, TypeOK, Request
  <2>2. /\ request' = [request EXCEPT ![c] = r] /\ UNCHANGED tokens
        /\ request[c].token \in DOMAIN tokens
    BY <1>7 DEF PrepareActive, Recognised
  <2>3. request[c].receipt = None BY <1>7 DEF PrepareActive, Held, HeldBy
  <2> HIDE DEF r
  <2>4. HeldBy(r, tokens') BY <2>1, <2>2, <2>3 DEF HeldBy
  <2> QED BY <2>2, <2>4, HeldStep
<1>8. ASSUME NEW c \in Clients, GetAccount(c)
      PROVE  Held'
  <2> DEFINE a == request[c].context.account
             seen == [account_id |-> a, active |-> account[a].active, epoch |-> account[a].epoch]
             r == [request[c] EXCEPT !.pc = "get_epoch", !.snapshot = seen]
  <2>1. /\ r.pc = "get_epoch" /\ r.token = request[c].token /\ r.key = request[c].key
        /\ r.context = request[c].context /\ r.receipt = request[c].receipt
    BY DEF TypeInv, TypeOK, Request
  <2>2. request' = [request EXCEPT ![c] = r] /\ UNCHANGED tokens
    BY <1>8 DEF GetAccount, TypeInv, TypeOK
  <2>3. HeldBy(request[c], tokens) /\ request[c].pc = "get_account"
    BY <1>8 DEF GetAccount, Held
  <2> HIDE DEF r, seen
  <2>4. HeldBy(r, tokens') BY <2>1, <2>2, <2>3 DEF HeldBy
  <2> QED BY <2>2, <2>4, HeldStep
<1>9. ASSUME NEW c \in Clients, GetEpoch(c)
      PROVE  Held'
  <2>1. CASE Finish(c) BY <2>1, HeldFinish
  <2>2. CASE request' = [request EXCEPT ![c].pc =
                           IF request[c].receipt # None THEN "recover" ELSE "rotate"]
    <3> DEFINE r == [request[c] EXCEPT !.pc =
                       IF request[c].receipt # None THEN "recover" ELSE "rotate"]
    <3>1. /\ r.pc = IF request[c].receipt # None THEN "recover" ELSE "rotate"
          /\ r.token = request[c].token /\ r.key = request[c].key
          /\ r.context = request[c].context /\ r.receipt = request[c].receipt
      BY DEF TypeInv, TypeOK, Request
    <3>2. request' = [request EXCEPT ![c] = r] /\ UNCHANGED tokens
      BY <1>9, <2>2 DEF GetEpoch, TypeInv, TypeOK
    <3>3. HeldBy(request[c], tokens) /\ request[c].pc = "get_epoch"
      BY <1>9 DEF GetEpoch, Held
    <3> HIDE DEF r
    <3>4. HeldBy(r, tokens') BY <3>1, <3>2, <3>3 DEF HeldBy
    <3> QED BY <3>2, <3>4, HeldStep
  <2> QED BY <1>9, <2>1, <2>2 DEF GetEpoch
<1>10. ASSUME NEW c \in Clients, NEW t \in Tokens, Rotate(c, t)
       PROVE  Held'
  <2> DEFINE sealed == Seal(request[c].token, request[c].context, Digest(request[c].key), t,
                            Lesser(request[c].at + Window, request[c].context.familyExpires))
             r == [request[c] EXCEPT !.pc = "recover", !.receipt = sealed]
  <2>1. CASE Finish(c) BY <2>1, HeldFinish
  <2>2. CASE ~ Finish(c)
    <3>1. /\ request[c].pc = "rotate" /\ Rotated(c, t)
          /\ request' = [request EXCEPT ![c].pc = "recover", ![c].receipt = sealed]
      BY <1>10, <2>2 DEF Rotate, Rotated
    <3>2. /\ request[c].token \in DOMAIN tokens /\ request[c].token \in DOMAIN tokens'
          /\ tokens'[request[c].token] = Consume(tokens[request[c].token], Digest(request[c].key), sealed)
      BY <3>1, RotatedFields
    <3>3. tokens[request[c].token] \in TokenState BY <3>2 DEF TypeInv, TypeOK
    <3> HIDE DEF sealed
    <3>4. LET state == tokens'[request[c].token] IN
          state.consumed /\ state.key = Digest(request[c].key) /\ state.receipt = sealed
      BY <3>2, <3>3 DEF Consume, TokenState
    <3>5. /\ r.pc = "recover" /\ r.token = request[c].token /\ r.key = request[c].key
          /\ r.context = request[c].context /\ r.receipt = sealed
      BY DEF TypeInv, TypeOK, Request
    <3>6. request' = [request EXCEPT ![c] = r] BY <3>1 DEF TypeInv, TypeOK
    <3>7. r.context = ContextOf(tokens'[r.token])
      BY <3>1, <3>5, HeldPersists DEF HeldBy
    <3> HIDE DEF r
    <3>8. HeldBy(r, tokens') BY <3>2, <3>4, <3>5, <3>7 DEF HeldBy
    <3> QED BY <3>6, <3>8, HeldStep
  <2> QED BY <2>1, <2>2
<1>11. ASSUME NEW c \in Clients, Recover(c)
       PROVE  Held'
  <2>1. CASE Finish(c) BY <2>1, HeldFinish
  <2>2. CASE request' = [request EXCEPT ![c] = [request[c] EXCEPT !.pc = "fail_closed"]]
    <3> DEFINE r == [request[c] EXCEPT !.pc = "fail_closed"]
    <3>1. r.pc = "fail_closed" BY DEF TypeInv, TypeOK, Request
    <3> HIDE DEF r
    <3> QED BY <2>2, <3>1, HeldStep DEF HeldBy, r
  <2> QED BY <1>11, <2>1, <2>2 DEF Recover, TypeInv, TypeOK
<1>12. ASSUME NEW c \in Clients,
              AnswerIssue(c) \/ PrepareRejected(c) \/ PrepareReuse(c) \/ FailClosed(c) \/ Abort(c)
       PROVE  Held'
  <2>1. Finish(c)
    BY <1>12 DEF AnswerIssue, PrepareRejected, PrepareReuse, FailClosed, Abort
  <2> QED BY <2>1, HeldFinish
<1>13. ASSUME Administer \/ Tick PROVE Held'
  <2>1. UNCHANGED request
    BY <1>13 DEF Administer, Tick, BumpEpoch, SetActive, RevokeForAccount, RevokeToken,
                 RevokeTokenForAccount
  <2> QED BY <1>0, <2>1
<1> QED BY <1>1, <1>2, <1>3, <1>4, <1>5, <1>6, <1>7, <1>8, <1>9, <1>10, <1>11, <1>12, <1>13
        DEF Next, Serve, Digests

----------------------------------------------------------------------------
(* The answers and the lifetimes.                                          *)

LEMMA AnswersNext ==
  ASSUME TypeInv, LinearFamily, Held, AnswersAreCommitted, [Next]_vars
  PROVE  AnswersAreCommitted'
<1>1. \A d \in delivered :
        /\ d.token \in DOMAIN tokens'
        /\ d.presented # None =>
             /\ d.presented \in DOMAIN tokens'
             /\ tokens'[d.presented].consumed
             /\ tokens'[d.presented].key = d.key
             /\ tokens'[d.presented].receipt.successor = d.token
  BY TokensOnlyAge DEF AnswersAreCommitted
<1>2. ASSUME NEW c \in Clients, AnswerIssue(c)
      PROVE  AnswersAreCommitted'
  <2>1. request[c].token \in DOMAIN tokens BY <1>2 DEF AnswerIssue, Held, HeldBy
  <2> QED BY <1>1, <1>2, <2>1 DEF AnswerIssue, AnswersAreCommitted
<1>3. ASSUME NEW c \in Clients, Recover(c)
      PROVE  AnswersAreCommitted'
  <2> DEFINE r == request[c]
  <2>1. /\ r.token \in DOMAIN tokens /\ tokens[r.token].consumed
        /\ tokens[r.token].key = Digest(r.key) /\ tokens[r.token].receipt = r.receipt
    BY <1>3 DEF Recover, Held, HeldBy
  <2>2. r.receipt.successor \in DOMAIN tokens
    BY <2>1 DEF LinearFamily
  <2>3. UNCHANGED tokens BY <1>3 DEF Recover
  <2>4. CASE UNCHANGED delivered BY <1>1, <2>4 DEF AnswersAreCommitted
  <2>5. CASE delivered' = delivered \cup
               {[presented |-> r.token, key |-> Digest(r.key), token |-> r.receipt.successor]}
    BY <1>1, <2>1, <2>2, <2>3, <2>5 DEF AnswersAreCommitted
  <2> QED BY <1>3, <2>4, <2>5 DEF Recover
<1>4. ASSUME UNCHANGED delivered PROVE AnswersAreCommitted'
  BY <1>1, <1>4 DEF AnswersAreCommitted
<1>5. \/ UNCHANGED delivered
      \/ \E c \in Clients : AnswerIssue(c) \/ Recover(c)
  BY ZenonT(60) DEF Next, Serve, Administer, vars, BeginIssue, CheckEpoch, CreateFamily, BeginRotate,
         PrepareRejected, PrepareReplay, PrepareReuse, PrepareActive, GetAccount, GetEpoch,
         Rotate, FailClosed, Abort, BumpEpoch, SetActive, RevokeForAccount, RevokeToken,
         RevokeTokenForAccount, Tick
<1> QED BY <1>2, <1>3, <1>4, <1>5

\* Every answer ever given is the committed successor of the presented token,
\* under the key that consumed it: one token never has two answers.
THEOREM AnswersAgree == Spec => []AnswersAreCommitted
<1>1. Init => AnswersAreCommitted BY DEF Init, AnswersAreCommitted
<1>2. TypeInv /\ LinearFamily /\ Held /\ AnswersAreCommitted /\ [Next]_vars =>
        TypeInv' /\ LinearFamily' /\ Held' /\ AnswersAreCommitted'
  BY NextType, LinearNext, HeldNext, AnswersNext
<1> QED BY <1>1, <1>2, InitType, LinearInit, HeldInit, PTL DEF Spec

\* The first token's expiry is clamped to its family's before it is committed.
Clamped ==
  \A c \in Clients : request[c].pc = "create" =>
    request[c].context.expires <= request[c].context.familyExpires

LEMMA LesserIsLess ==
  ASSUME NEW m \in Int, NEW n \in Int
  PROVE  Lesser(m, n) <= n
BY DEF Lesser

LEMMA ClampedNext ==
  ASSUME TypeInv, Clamped, [Next]_vars
  PROVE  Clamped'
<1> SUFFICES ASSUME NEW d \in Clients, request'[d].pc = "create"
             PROVE  request'[d].context.expires <= request'[d].context.familyExpires
  BY DEF Clamped
<1>1. CASE request'[d] = request[d] BY <1>1 DEF Clamped
<1>2. ASSUME CheckEpoch(d)
      PROVE  request'[d].context.expires <= request'[d].context.familyExpires
  <2> DEFINE r == request[d]
  <2>1. r \in Request /\ r.at \in Times BY DEF TypeInv, TypeOK, Request
  <2>2. ~ Finish(d) BY RestingType DEF Finish, TypeInv, TypeOK
  <2>3. PICK t \in Tokens, f \in Families :
          request' = [request EXCEPT ![d] =
            [r EXCEPT !.pc = "create", !.token = t,
               !.context = [account |-> r.snapshot.account_id, family |-> f,
                            epoch |-> r.snapshot.epoch,
                            expires |-> Lesser(r.at + Idle, r.at + Absolute),
                            familyExpires |-> r.at + Absolute]]]
    BY <1>2, <2>2 DEF CheckEpoch
  <2>4. /\ request'[d].context.expires = Lesser(r.at + Idle, r.at + Absolute)
        /\ request'[d].context.familyExpires = r.at + Absolute
    BY <2>1, <2>3 DEF Request, TypeInv, TypeOK
  <2>5. r.at + Idle \in Int /\ r.at + Absolute \in Int
    BY <2>1, LifetimesAssumption DEF Times
  <2> QED BY <2>4, <2>5, LesserIsLess
<1>3. request'[d] = request[d] \/ CheckEpoch(d)
  <2>1. ASSUME NEW c \in Clients, Finish(c) PROVE request'[d] = request[d]
    BY <2>1, RestingType DEF Finish, TypeInv, TypeOK
  <2>2. ASSUME NEW c \in Clients, NEW r, r.pc # "create", request' = [request EXCEPT ![c] = r]
        PROVE  request'[d] = request[d]
    BY <2>2 DEF TypeInv, TypeOK
  <2>3. ASSUME NEW c \in Clients, NEW pc, pc # "create",
               \/ request' = [request EXCEPT ![c].pc = pc]
               \/ \E x : request' = [request EXCEPT ![c].pc = pc, ![c].snapshot = x]
               \/ \E x : request' = [request EXCEPT ![c].pc = pc, ![c].receipt = x]
               \/ \E x : request' = [request EXCEPT ![c] =
                                       [request[c] EXCEPT !.pc = pc, !.context = x]]
               \/ \E x, y : request' = [request EXCEPT ![c] =
                                       [request[c] EXCEPT !.pc = pc, !.context = x, !.receipt = y]]
        PROVE  request'[d] = request[d]
    BY <2>3, ZenonT(60) DEF TypeInv, TypeOK, Request
  <2>4. ASSUME NEW c \in Clients, NEW a \in Accounts, BeginIssue(c, a)
        PROVE  request'[d] = request[d]
    BY <2>4, RestingType DEF BeginIssue, Resting, TypeInv, TypeOK
  <2>5. ASSUME NEW c \in Clients, NEW t, NEW key, NEW genuine, BeginRotate(c, t, key, genuine)
        PROVE  request'[d] = request[d]
    BY <2>5, RestingType DEF BeginRotate, Resting, TypeInv, TypeOK
  <2>6. ASSUME NEW c \in Clients, CheckEpoch(c), c # d PROVE request'[d] = request[d]
    BY <2>6 DEF CheckEpoch, Finish, TypeInv, TypeOK
  <2>7. ASSUME NEW c \in Clients,
               \/ CreateFamily(c) \/ AnswerIssue(c) \/ PrepareRejected(c) \/ PrepareReplay(c)
               \/ PrepareReuse(c) \/ PrepareActive(c) \/ GetAccount(c) \/ GetEpoch(c)
               \/ (\E t \in Tokens : Rotate(c, t)) \/ Recover(c) \/ FailClosed(c) \/ Abort(c)
        PROVE  request'[d] = request[d]
    <3>1. CASE Finish(c) BY <2>1, <3>1
    <3>2. CASE CreateFamily(c) /\ ~ Finish(c) BY <2>3, <3>2 DEF CreateFamily
    <3>3. CASE PrepareReplay(c) BY <2>3, <3>3 DEF PrepareReplay
    <3>4. CASE PrepareActive(c) BY <2>3, <3>4 DEF PrepareActive
    <3>5. CASE GetAccount(c) BY <2>3, <3>5 DEF GetAccount
    <3>6. CASE GetEpoch(c) /\ ~ Finish(c)
      <4>1. request' = [request EXCEPT ![c].pc =
                          IF request[c].receipt # None THEN "recover" ELSE "rotate"]
        BY <3>6 DEF GetEpoch
      <4> QED BY <2>3, <4>1
    <3>7. ASSUME NEW t \in Tokens, Rotate(c, t), ~ Finish(c)
          PROVE  request'[d] = request[d]
      BY <2>3, <3>7 DEF Rotate
    <3>8. CASE Recover(c) /\ ~ Finish(c) BY <2>3, <3>8 DEF Recover
    <3> QED BY <2>7, <3>1, <3>2, <3>3, <3>4, <3>5, <3>6, <3>7, <3>8
            DEF AnswerIssue, PrepareRejected, PrepareReuse, FailClosed, Abort
  <2>8. ASSUME Administer \/ Tick \/ UNCHANGED vars PROVE request'[d] = request[d]
    BY <2>8 DEF Administer, Tick, BumpEpoch, SetActive, RevokeForAccount, RevokeToken,
                RevokeTokenForAccount, vars
  <2> QED BY <2>4, <2>5, <2>6, <2>7, <2>8 DEF Next, Serve
<1> QED BY <1>1, <1>2, <1>3

LEMMA LifetimeNext ==
  ASSUME TypeInv, Held, Clamped, LifetimeIsFixed, [Next]_vars
  PROVE  LifetimeIsFixed'
<1>1. CASE UNCHANGED tokens BY <1>1 DEF LifetimeIsFixed
<1>2. ASSUME NEW fs, tokens' = RevokeFamilies(fs)
      PROVE  LifetimeIsFixed'
  <2>1. /\ DOMAIN tokens' = DOMAIN tokens
        /\ \A t \in DOMAIN tokens :
             /\ tokens'[t].family = tokens[t].family
             /\ tokens'[t].expires = tokens[t].expires
             /\ tokens'[t].familyExpires = tokens[t].familyExpires
             /\ tokens'[t].consumed = tokens[t].consumed
             /\ tokens'[t].receipt = tokens[t].receipt
    BY <1>2, RevokedFields DEF TypeInv, ContextOf
  <2> QED BY <2>1 DEF LifetimeIsFixed
<1>3. ASSUME NEW c \in Clients, request[c].pc = "create", Created(c)
      PROVE  LifetimeIsFixed'
  <2> DEFINE t == request[c].token
             ctx == request[c].context
             state == NewState(ctx)
  <2>1. /\ DOMAIN tokens' = DOMAIN tokens \cup {t} /\ t \notin DOMAIN tokens
        /\ tokens'[t] = state
        /\ \A u \in DOMAIN tokens : tokens'[u] = tokens[u] /\ tokens[u].family # ctx.family
    BY <1>3, CreatedFields
  <2>2. /\ state.family = ctx.family /\ ~ state.consumed
        /\ state.expires <= state.familyExpires
    BY <1>3 DEF NewState, Clamped
  <2> HIDE DEF t, ctx, state
  <2> QED BY <2>1, <2>2 DEF LifetimeIsFixed
<1>4. ASSUME NEW c \in Clients, NEW t \in Tokens, request[c].pc = "rotate", Rotated(c, t)
      PROVE  LifetimeIsFixed'
  <2> DEFINE r == request[c]
             ctx == r.context
             old == tokens[r.token]
             next == NewState([ctx EXCEPT !.expires = Lesser(r.at + Idle, ctx.familyExpires)])
             sealed == Seal(r.token, ctx, Digest(r.key), t,
                            Lesser(r.at + Window, ctx.familyExpires))
             new == Consume(old, Digest(r.key), sealed)
  <2>1. /\ t \notin DOMAIN tokens /\ r.token \in DOMAIN tokens
        /\ DOMAIN tokens' = DOMAIN tokens \cup {t}
        /\ tokens'[t] = next /\ tokens'[r.token] = new
        /\ \A u \in DOMAIN tokens \ {r.token} : tokens'[u] = tokens[u]
    BY <1>4, RotatedFields
  <2>2. /\ ctx \in Context /\ r.at \in Times /\ old \in TokenState
        /\ old.family = ctx.family /\ old.familyExpires = ctx.familyExpires
    <3>1. ctx \in Context BY <1>4 DEF TypeInv, RequestOK
    <3>2. r \in Request /\ r.at \in Times BY DEF TypeInv, TypeOK, Request
    <3>3. old \in TokenState BY <2>1 DEF TypeInv, TypeOK
    <3>4. ctx = ContextOf(old) BY <1>4 DEF Held, HeldBy
    <3>5. old.family = ctx.family /\ old.familyExpires = ctx.familyExpires
      BY <3>4 DEF ContextOf
    <3> QED BY <3>1, <3>2, <3>3, <3>5
  <2>3. /\ r.at + Idle \in Int /\ r.at + Window \in Int /\ ctx.familyExpires \in Int
    BY <2>2, LifetimesAssumption DEF Times, Context, Expiries
  <2>4. /\ next.family = ctx.family /\ ~ next.consumed
        /\ next.familyExpires = ctx.familyExpires
        /\ next.expires <= ctx.familyExpires
    BY <2>2, <2>3, LesserIsLess DEF NewState, Context
  <2>5. sealed.expires <= ctx.familyExpires
    BY <2>3, LesserIsLess DEF Seal
  <2> HIDE DEF sealed
  <2>6. /\ new.family = ctx.family /\ new.familyExpires = ctx.familyExpires
        /\ new.expires = old.expires /\ new.receipt = sealed
    BY <2>2 DEF Consume, TokenState
  <2>7. old.expires <= ctx.familyExpires
    BY <2>1, <2>2 DEF LifetimeIsFixed
  <2>8. \A u \in DOMAIN tokens : tokens[u].family = ctx.family =>
                                   tokens[u].familyExpires = ctx.familyExpires
    BY <2>1, <2>2 DEF LifetimeIsFixed
  <2> HIDE DEF r, ctx, old, next, new
  <2>9. \A u \in DOMAIN tokens' : tokens'[u].family = ctx.family =>
                                   tokens'[u].familyExpires = ctx.familyExpires
    BY <2>1, <2>4, <2>6, <2>8
  <2>10. \A u \in DOMAIN tokens' :
           /\ tokens'[u].expires <= tokens'[u].familyExpires
           /\ tokens'[u].consumed => tokens'[u].receipt.expires <= tokens'[u].familyExpires
    BY <2>1, <2>4, <2>5, <2>6, <2>7 DEF LifetimeIsFixed
  <2>11. ASSUME NEW u \in DOMAIN tokens', NEW v \in DOMAIN tokens',
                tokens'[u].family = tokens'[v].family
         PROVE  tokens'[u].familyExpires = tokens'[v].familyExpires
    <3>1. CASE tokens'[u].family = ctx.family BY <2>9, <2>11, <3>1
    <3>2. CASE tokens'[u].family # ctx.family
      BY <2>1, <2>4, <2>6, <2>11, <3>2 DEF LifetimeIsFixed
    <3> QED BY <3>1, <3>2
  <2> QED BY <2>10, <2>11 DEF LifetimeIsFixed
<1> QED BY <1>1, <1>2, <1>3, <1>4, TokensStep

\* Rotating never extends a family past the expiry it was created with.
THEOREM LifetimeNeverGrows == Spec => []LifetimeIsFixed
<1>1. Init => LifetimeIsFixed /\ Clamped
  BY RestingType DEF Init, LifetimeIsFixed, Clamped
<1>2. /\ TypeInv /\ Held /\ Clamped /\ LifetimeIsFixed /\ [Next]_vars
      => TypeInv' /\ Held' /\ Clamped' /\ LifetimeIsFixed'
  BY NextType, HeldNext, ClampedNext, LifetimeNext
<1> QED BY <1>1, <1>2, InitType, HeldInit, PTL DEF Spec

----------------------------------------------------------------------------
\* A family is one chain, its callers were told nothing else, and it ends when
\* it was to end.
THEOREM ChainsStayWhole == Spec => []FamiliesAreChains
<1>1. LinearFamily /\ AnswersAreCommitted /\ LifetimeIsFixed => FamiliesAreChains
  BY DEF FamiliesAreChains
<1> QED BY <1>1, FamiliesAreLinear, AnswersAgree, LifetimeNeverGrows, PTL

\* A request overtaken by a revocation or by a new epoch commits nothing.
THEOREM OvertakenRequestsAddNothing == Spec => StaleRequestsAddNothing
BY RevocationIsFinal, EpochCutsOff DEF StaleRequestsAddNothing

----------------------------------------------------------------------------
(* The store implements the chain, step by step.                           *)

\* A family that has a token has one that is not consumed.
HasTip ==
  \A s \in DOMAIN tokens : \E t \in FamilyOf(tokens[s].family) : ~tokens[t].consumed

LEMMA HasTipNext ==
  ASSUME TypeInv, HasTip, [Next]_vars
  PROVE  HasTip'
<1> SUFFICES ASSUME NEW s \in DOMAIN tokens'
             PROVE  \E t \in DOMAIN tokens' : /\ tokens'[t].family = tokens'[s].family
                                              /\ ~tokens'[t].consumed
  BY DEF HasTip, FamilyOf
<1>1. CASE UNCHANGED tokens
  BY <1>1 DEF HasTip, FamilyOf
<1>2. ASSUME NEW fs, tokens' = RevokeFamilies(fs)
      PROVE  \E t \in DOMAIN tokens' : /\ tokens'[t].family = tokens'[s].family
                                       /\ ~tokens'[t].consumed
  BY <1>2, RevokedFields DEF HasTip, FamilyOf, TypeInv
<1>3. ASSUME NEW c \in Clients, request[c].pc = "create", Created(c)
      PROVE  \E t \in DOMAIN tokens' : /\ tokens'[t].family = tokens'[s].family
                                       /\ ~tokens'[t].consumed
  <2> DEFINE new == request[c].token
             state == NewState(request[c].context)
  <2>1. /\ DOMAIN tokens' = DOMAIN tokens \cup {new} /\ tokens'[new] = state
        /\ \A u \in DOMAIN tokens : tokens'[u] = tokens[u]
    BY <1>3, CreatedFields
  <2>2. ~ state.consumed
    BY DEF NewState
  <2> HIDE DEF new, state
  <2> QED BY <2>1, <2>2 DEF HasTip, FamilyOf
<1>4. ASSUME NEW c \in Clients, NEW t \in Tokens, request[c].pc = "rotate", Rotated(c, t)
      PROVE  \E v \in DOMAIN tokens' : /\ tokens'[v].family = tokens'[s].family
                                       /\ ~tokens'[v].consumed
  <2> DEFINE r == request[c]
             ctx == r.context
             next == NewState([ctx EXCEPT !.expires = Lesser(r.at + Idle, ctx.familyExpires)])
             new == Consume(tokens[r.token], Digest(r.key),
                            Seal(r.token, ctx, Digest(r.key), t,
                                 Lesser(r.at + Window, ctx.familyExpires)))
  <2>1. /\ r.token \in DOMAIN tokens /\ DOMAIN tokens' = DOMAIN tokens \cup {t}
        /\ t \notin DOMAIN tokens /\ tokens[r.token].family = ctx.family
        /\ tokens'[t] = next /\ tokens'[r.token] = new
        /\ \A u \in DOMAIN tokens \ {r.token} : tokens'[u] = tokens[u]
    BY <1>4, RotatedFields
  <2>2. next.family = ctx.family /\ ~ next.consumed
    BY <1>4 DEF NewState, Context, TypeInv, RequestOK
  <2>3. new.family = ctx.family
    BY <2>1 DEF Consume, TokenState, TypeInv, TypeOK
  <2> DEFINE parent == r.token
             g == ctx.family
  <2>4. parent \in DOMAIN tokens /\ tokens[parent].family = g /\ tokens'[parent].family = g
        /\ tokens'[t].family = g /\ ~tokens'[t].consumed
        /\ \A u \in DOMAIN tokens \ {parent} : tokens'[u] = tokens[u]
    BY <2>1, <2>2, <2>3
  <2> HIDE DEF r, ctx, next, new, parent, g
  <2>5. CASE tokens'[s].family = g
    BY <2>1, <2>4, <2>5
  <2>6. CASE tokens'[s].family # g
    <3>1. s \in DOMAIN tokens \ {parent} /\ tokens'[s] = tokens[s]
      BY <2>1, <2>4, <2>6
    <3>2. PICK v \in DOMAIN tokens : tokens[v].family = tokens[s].family /\ ~tokens[v].consumed
      BY <3>1 DEF HasTip, FamilyOf
    <3>3. v # parent
      BY <2>4, <2>6, <3>1, <3>2
    <3> QED BY <2>1, <2>4, <3>1, <3>2, <3>3
  <2> QED BY <2>5, <2>6
<1> QED BY <1>1, <1>2, <1>3, <1>4, TokensStep

\* The tip of a family is its one token that is not consumed.
LEMMA TipIs ==
  ASSUME LinearFamily, NEW f, NEW t \in DOMAIN tokens, tokens[t].family = f, ~tokens[t].consumed
  PROVE  Tip(f) = t
<1>1. t \in FamilyOf(f) /\ \A u \in FamilyOf(f) : ~tokens[u].consumed => u = t
  BY DEF LinearFamily, FamilyOf
<1> QED BY <1>1 DEF Tip

LEMMA TipWas ==
  ASSUME LinearFamily', NEW f, NEW t \in DOMAIN tokens', tokens'[t].family = f, ~tokens'[t].consumed
  PROVE  Tip(f)' = t
<1>1. t \in FamilyOf(f)' /\ \A u \in FamilyOf(f)' : ~tokens'[u].consumed => u = t
  BY DEF LinearFamily, FamilyOf
<1> QED BY <1>1 DEF Tip

LEMMA TipNone ==
  ASSUME NEW f
  PROVE  /\ FamilyOf(f) = {} => Tip(f) = None
         /\ FamilyOf(f)' = {} => Tip(f)' = None
BY DEF Tip

\* A family none of whose tokens changes keeps its tip and its standing.
LEMMA SameFamily ==
  ASSUME TypeInv, LinearFamily, LinearFamily', HasTip, NEW f, FamilyOf(f)' = FamilyOf(f),
         \A t \in FamilyOf(f) : tokens'[t].consumed = tokens[t].consumed
  PROVE  Tip(f)' = Tip(f)
<1>1. CASE FamilyOf(f) = {}
  BY <1>1, TipNone
<1>2. CASE FamilyOf(f) # {}
  <2>1. PICK t \in FamilyOf(f) : ~tokens[t].consumed
    BY <1>2 DEF HasTip, FamilyOf
  <2>2. Tip(f) = t
    BY <2>1, TipIs DEF FamilyOf
  <2>3. t \in DOMAIN tokens' /\ tokens'[t].family = f /\ ~tokens'[t].consumed
    BY <2>1 DEF FamilyOf
  <2> QED BY <2>2, <2>3, TipWas
<1> QED BY <1>1, <1>2

Tips == [f \in Families |-> Tip(f)]
Closed == {f \in Families : Revoked(f)}

\* revoke(), revoke_for_account(), a detected reuse and a failed recovery close
\* the families they name, those that have a token.
LEMMA RevokingCloses ==
  ASSUME TypeInv, LinearFamily, LinearFamily', HasTip, NEW fs, tokens' = RevokeFamilies(fs)
  PROVE  Chain!Next
<1> DEFINE gs == {f \in Families : f \in fs /\ FamilyOf(f) # {}}
<1>1. /\ DOMAIN tokens' = DOMAIN tokens
      /\ \A t \in DOMAIN tokens : /\ tokens'[t].family = tokens[t].family
                                  /\ tokens'[t].consumed = tokens[t].consumed
                                  /\ tokens'[t].revoked = (tokens[t].revoked \/ tokens[t].family \in fs)
  BY RevokedFields DEF TypeInv
<1>2. \A f : FamilyOf(f)' = FamilyOf(f)
  BY <1>1 DEF FamilyOf
<1>3. \A f \in Families : Tip(f)' = Tip(f)
  BY <1>1, <1>2, SameFamily DEF FamilyOf
<1>4. Tips' = Tips
  BY <1>3 DEF Tips
<1>5. \A f \in Families : Revoked(f)' <=> Revoked(f) \/ f \in gs
  BY <1>1, <1>2 DEF Revoked, FamilyOf
<1>6. Closed' = Closed \cup gs
  BY <1>5 DEF Closed
<1>7. ASSUME NEW f \in gs PROVE Tips[f] # None
  <2>1. PICK t \in FamilyOf(f) : ~tokens[t].consumed
    BY DEF HasTip, FamilyOf
  <2>2. Tip(f) = t /\ t # None
    BY <2>1, TipIs, NoneAssumption DEF FamilyOf, TypeInv, TypeOK
  <2> QED BY <2>2 DEF Tips
<1> HIDE DEF gs
<1>8. gs \in SUBSET Families
  BY DEF gs
<1>9. Chain!Close(gs)
  BY <1>1, <1>4, <1>6, <1>7 DEF Chain!Close, Tips, Closed
<1> QED BY <1>8, <1>9 DEF Chain!Next

\* create_family starts a family with an unused token.
LEMMA CreatingStarts ==
  ASSUME TypeInv, LinearFamily, LinearFamily', HasTip, NEW c \in Clients,
         request[c].pc = "create", Created(c)
  PROVE  Chain!Next
<1>1. PICK t \in Tokens, g \in Families : t = request[c].token /\ g = request[c].context.family
  BY DEF TypeInv, RequestOK, Context
<1>2. PICK state : state = NewState(request[c].context)
  OBVIOUS
<1>3. /\ t \notin DOMAIN tokens /\ DOMAIN tokens' = DOMAIN tokens \cup {t} /\ tokens'[t] = state
      /\ \A u \in DOMAIN tokens : tokens'[u] = tokens[u] /\ tokens[u].family # g
  BY <1>1, <1>2, CreatedFields
<1>4. state.family = g /\ ~state.consumed /\ ~state.revoked
  BY <1>1, <1>2 DEF NewState
<1>5. FamilyOf(g) = {} /\ Tip(g) = None
  BY <1>3, TipNone DEF FamilyOf
<1>6. Tip(g)' = t
  BY <1>3, <1>4, TipWas
<1>7. \A f \in Families \ {g} : FamilyOf(f)' = FamilyOf(f)
  BY <1>3, <1>4 DEF FamilyOf
<1>8. \A f \in Families \ {g} : Tip(f)' = Tip(f)
  BY <1>3, <1>7, SameFamily DEF FamilyOf
<1>9. Tips' = [Tips EXCEPT ![g] = t] /\ Tips[g] = None
  BY <1>1, <1>5, <1>6, <1>8 DEF Tips
<1>10. \A f \in Families : Revoked(f)' <=> Revoked(f)
  BY <1>3, <1>4, <1>5, <1>7 DEF Revoked, FamilyOf
<1>11. Closed' = Closed
  BY <1>10 DEF Closed
<1>12. Chain!Start(g, t)
  BY <1>3, <1>9, <1>11 DEF Chain!Start, Tips, Closed
<1> QED BY <1>1, <1>12 DEF Chain!Next

\* rotate replaces the tip of a family that is not revoked by an unused token.
LEMMA RotatingAdvances ==
  ASSUME TypeInv, LinearFamily, LinearFamily', HasTip, NEW c \in Clients, NEW t \in Tokens,
         request[c].pc = "rotate", Rotated(c, t)
  PROVE  Chain!Next
<1> DEFINE r == request[c]
           ctx == r.context
<1>0. PICK g \in Families : g = ctx.family
  BY DEF TypeInv, RequestOK, Context
<1>1. PICK p, next, new :
        /\ p = r.token /\ g = ctx.family
        /\ next = NewState([ctx EXCEPT !.expires = Lesser(r.at + Idle, ctx.familyExpires)])
        /\ new = Consume(tokens[r.token], Digest(r.key),
                         Seal(r.token, ctx, Digest(r.key), t,
                              Lesser(r.at + Window, ctx.familyExpires)))
  BY <1>0
<1>2. /\ t \notin DOMAIN tokens /\ p \in DOMAIN tokens
      /\ DOMAIN tokens' = DOMAIN tokens \cup {t}
      /\ ~tokens[p].consumed /\ ~tokens[p].revoked /\ tokens[p].family = g
      /\ tokens'[t] = next /\ tokens'[p] = new
      /\ \A u \in DOMAIN tokens \ {p} : tokens'[u] = tokens[u]
  BY <1>1, RotatedFields
<1>3. next.family = g /\ ~next.consumed /\ next.revoked = FALSE
  BY <1>1 DEF NewState, Context, TypeInv, RequestOK
<1>4. new.family = g /\ new.consumed /\ new.revoked = tokens[p].revoked
  BY <1>1, <1>2 DEF Consume, TokenState, TypeInv, TypeOK
<1> HIDE DEF r, ctx
<1>5. Tip(g) = p /\ p # None
  BY <1>2, TipIs, NoneAssumption DEF TypeInv, TypeOK
<1>6. Tip(g)' = t
  BY <1>2, <1>3, TipWas
<1>7. \A f \in Families \ {g} : FamilyOf(f)' = FamilyOf(f)
  BY <1>2, <1>3, <1>4 DEF FamilyOf
<1>8. \A f \in Families \ {g} : \A u \in FamilyOf(f) : tokens'[u] = tokens[u]
  BY <1>2 DEF FamilyOf
<1>9. \A f \in Families \ {g} : Tip(f)' = Tip(f)
  BY <1>7, <1>8, SameFamily
<1>10. Tips' = [Tips EXCEPT ![g] = t] /\ Tips[g] # None
  BY <1>5, <1>6, <1>9 DEF Tips
<1>11. ~Revoked(g)
  BY <1>2 DEF Revoked, FamilyOf, LinearFamily
<1>12. ~Revoked(g)'
  BY <1>2, <1>3, <1>4, <1>11 DEF Revoked, FamilyOf
<1>13. \A f \in Families : Revoked(f)' <=> Revoked(f)
  BY <1>7, <1>8, <1>11, <1>12 DEF Revoked
<1>14. Closed' = Closed /\ g \notin Closed
  BY <1>11, <1>13 DEF Closed
<1>15. Chain!Advance(g, t)
  BY <1>2, <1>10, <1>14 DEF Chain!Advance, Tips, Closed
<1> QED BY <1>15 DEF Chain!Next

LEMMA ChainInit == Init => Chain!Init /\ HasTip
<1> SUFFICES ASSUME Init PROVE Chain!Init /\ HasTip
  OBVIOUS
<1>1. DOMAIN tokens = {}
  BY DEF Init
<1>2. \A f : FamilyOf(f) = {} /\ Tip(f) = None /\ ~Revoked(f)
  BY <1>1 DEF FamilyOf, Tip, Revoked
<1> QED BY <1>1, <1>2 DEF Chain!Init, HasTip

LEMMA ChainNext ==
  ASSUME TypeInv, LinearFamily, LinearFamily', HasTip, [Next]_vars
  PROVE  [Chain!Next]_(Chain!vars)
<1>1. CASE UNCHANGED tokens
  <2>1. \A f : FamilyOf(f)' = FamilyOf(f)
    BY <1>1 DEF FamilyOf
  <2>2. \A f : Tip(f)' = Tip(f)
    BY <1>1 DEF Tip, FamilyOf
  <2>3. \A f : Revoked(f)' = Revoked(f)
    BY <1>1, <2>1 DEF Revoked
  <2>4. Tips' = Tips /\ Closed' = Closed
    BY <2>2, <2>3 DEF Tips, Closed
  <2> QED BY <1>1, <2>4 DEF Chain!vars, Tips, Closed
<1> QED BY <1>1, TokensStep, RevokingCloses, CreatingStarts, RotatingAdvances

\* Whatever requests are in flight, retried or abandoned, the store and the
\* service over it do only what a chain does: start it, advance its tip to an
\* unused token while it is open, close it for good.
THEOREM ChainsAreImplemented == Spec => ImplementsTokenChain
<1>1. Init => Chain!Init /\ HasTip
  BY ChainInit
<1>2. TypeInv /\ LinearFamily /\ HasTip /\ [Next]_vars
      => TypeInv' /\ LinearFamily' /\ HasTip' /\ [Chain!Next]_(Chain!vars)
  BY NextType, LinearNext, HasTipNext, ChainNext
<1> QED BY <1>1, <1>2, InitType, LinearInit, PTL DEF Spec, ImplementsTokenChain, Chain!Spec

----------------------------------------------------------------------------
(* The honest caller.  Whatever it presents was first presented with the    *)
(* same key within the window, so that a consumed token is always consumed  *)
(* under its caller's key, and its receipt opens for every retry unless the *)
(* family has reached its end.                                              *)

Rotating == {"prepare", "get_account", "get_epoch", "rotate", "recover", "fail_closed"}

FirstType == first \in [Tokens -> Attempt \cup {None}]

Asked(r) ==
  r.pc \in Rotating =>
    /\ r.genuine /\ r.key \in Keys
    /\ first[r.token] # None /\ first[r.token].key = r.key
    /\ first[r.token].at <= r.at /\ r.at < first[r.token].at + Window /\ r.at <= now

\* What fails closed was asked for after the end of its family.
Overdue(r) ==
  r.pc = "fail_closed" =>
    /\ r.token \in DOMAIN tokens /\ r.context = ContextOf(tokens[r.token])
    /\ r.context.familyExpires <= r.at

Sealed(t) ==
  tokens[t].consumed =>
    /\ first[t] # None /\ tokens[t].key = first[t].key
    /\ tokens[t].receipt \in Receipt
    /\ tokens[t].receipt = Seal(t, ContextOf(tokens[t]), tokens[t].key,
                                tokens[t].receipt.successor, tokens[t].receipt.expires)
    /\ Lesser(first[t].at + Window, tokens[t].familyExpires) <= tokens[t].receipt.expires

HonestInv ==
  /\ FirstType
  /\ \A t \in Tokens : first[t] # None => first[t].at <= now
  /\ \A c \in Clients : Asked(request[c]) /\ Overdue(request[c])
  /\ \A t \in DOMAIN tokens : Sealed(t) /\ (tokens[t].revoked => now >= tokens[t].familyExpires)

FamilyInv == TypeInv /\ LinearFamily /\ Held /\ Clamped /\ LifetimeIsFixed

LEMMA CallersAreCallers ==
  ASSUME TypeInv, FirstType, [CallersNext]_callerVars PROVE [Next]_vars
<1>1. ASSUME NEW c \in Clients, NEW t \in Known, Retry(c, t) \/ \E key \in Keys : FirstAttempt(c, t, key)
      PROVE  Next
  <2>1. PICK key \in Keys : BeginRotate(c, t, key, TRUE)
    <3>1. t \in Tokens
      BY DEF Known, TypeInv, TypeOK, Delivery
    <3>2. first[t] # None => first[t].key \in Keys
      BY <3>1 DEF FirstType, Attempt
    <3>. QED BY <1>1, <3>2 DEF Retry, FirstAttempt
  <2>. QED BY <2>1 DEF Next, Digests
<1>2. ASSUME Unprompted \/ Tick PROVE Next
  BY <1>2 DEF Unprompted, Next, Administer
<1>3. HonestNext => Next
  BY <1>1, <1>2 DEF HonestNext
<1>. QED BY <1>3 DEF CallersNext, ArbitraryNext, callerVars, vars

LEMMA FamilyNext == ASSUME FamilyInv, [Next]_vars PROVE FamilyInv'
BY NextType, LinearNext, HeldNext, ClampedNext, LifetimeNext DEF FamilyInv

\* Time only passes, and a first attempt stays the first.
LEMMA CallersAge ==
  ASSUME TypeInv, HonestInv, HonestNext
  PROVE  /\ now \in Nat /\ now' \in Nat /\ now <= now'
         /\ FirstType' /\ \A t \in Tokens : first[t] # None => first'[t] = first[t]
         /\ \A t \in Tokens : first'[t] # None => first'[t].at <= now'
<1>1. now \in Times /\ now \in Nat
  BY LifetimesAssumption DEF TypeInv, TypeOK, Times
<1>2. now' \in {now, now + 1}
  BY ZenonT(60) DEF HonestNext, Retry, FirstAttempt, BeginRotate, Unprompted, Tick, Serve, Abort, BeginIssue,
         BumpEpoch, SetActive, CheckEpoch, CreateFamily, AnswerIssue, PrepareRejected, PrepareReplay,
         PrepareReuse, PrepareActive, GetAccount, GetEpoch, Rotate, Recover, FailClosed
<1>3. now' \in Nat /\ now <= now'
  BY <1>1, <1>2
<1>4. \A t \in Tokens : first[t] # None => first[t].at \in Nat
  BY LifetimesAssumption DEF HonestInv, FirstType, Attempt, Times
<1>5. CASE UNCHANGED first
  BY <1>1, <1>3, <1>4, <1>5 DEF HonestInv, FirstType
<1>6. ASSUME NEW c \in Clients, NEW t \in Known, NEW key \in Keys, FirstAttempt(c, t, key)
      PROVE  /\ FirstType' /\ \A u \in Tokens : first[u] # None => first'[u] = first[u]
             /\ \A u \in Tokens : first'[u] # None => first'[u].at <= now'
  <2>1. PICK e : e = [key |-> key, at |-> now]
    OBVIOUS
  <2>2. e \in Attempt /\ e.at = now
    BY <1>1, <2>1 DEF Attempt
  <2>3. first[t] = None /\ first' = [first EXCEPT ![t] = e]
    BY <1>6, <2>1 DEF FirstAttempt
  <2>4. /\ FirstType' /\ \A u \in Tokens : first'[u] = IF u = t THEN e ELSE first[u]
    BY <2>2, <2>3 DEF HonestInv, FirstType
  <2>. QED BY <1>1, <1>3, <1>4, <2>2, <2>3, <2>4 DEF HonestInv
<1>. QED BY <1>1, <1>3, <1>5, <1>6 DEF HonestNext, Retry

\* What a step makes of one request.
LEMMA RequestStep ==
  ASSUME TypeInv, HonestNext, NEW d \in Clients
  PROVE  \/ request'[d] = request[d]
         \/ request'[d].pc \notin Rotating
         \/ /\ request[d].pc \in Rotating /\ request'[d].pc # "fail_closed"
            /\ request'[d].token = request[d].token /\ request'[d].genuine = request[d].genuine
            /\ request'[d].key = request[d].key /\ request'[d].at = request[d].at
         \/ Recover(d) /\ request'[d] = [request[d] EXCEPT !.pc = "fail_closed"]
         \/ \E t \in Known : Retry(d, t) \/ \E key \in Keys : FirstAttempt(d, t, key)
<1>1. request \in [Clients -> Request] /\ request[d] \in Request
  BY DEF TypeInv, TypeOK
<1>2. ASSUME NEW c \in Clients, Finish(c)
      PROVE  request'[d] = request[d] \/ request'[d].pc \notin Rotating
  BY <1>1, <1>2, RestingType DEF Finish, Rotating
<1>3. ASSUME NEW c \in Clients, NEW a \in Accounts, BeginIssue(c, a)
      PROVE  request'[d] = request[d] \/ request'[d].pc \notin Rotating
  BY <1>1, <1>3, RestingType DEF BeginIssue, Rotating, Request
<1>4. ASSUME NEW c \in Clients, CheckEpoch(c) \/ CreateFamily(c)
      PROVE  request'[d] = request[d] \/ request'[d].pc \notin Rotating
  <2>1. CASE Finish(c)
    BY <1>2, <2>1
  <2>2. CASE CheckEpoch(c) /\ ~ Finish(c)
    <3>1. PICK t, context :
            request' = [request EXCEPT ![c] = [request[c] EXCEPT !.pc = "create", !.token = t,
                                                                 !.context = context]]
      BY <2>2 DEF CheckEpoch
    <3>2. request[c] \in Request
      BY <1>1
    <3>. QED BY <1>1, <3>1, <3>2 DEF Rotating, Request
  <2>3. CASE CreateFamily(c) /\ ~ Finish(c)
    BY <1>1, <2>3 DEF CreateFamily, Rotating, Request
  <2>. QED BY <1>4, <2>1, <2>2, <2>3
<1>5. ASSUME NEW c \in Clients,
             PrepareReplay(c) \/ PrepareActive(c) \/ GetAccount(c) \/ GetEpoch(c)
             \/ \E t \in Tokens : Rotate(c, t)
      PROVE  \/ request'[d] = request[d]
             \/ request'[d].pc \notin Rotating
             \/ /\ request[d].pc \in Rotating /\ request'[d].pc # "fail_closed"
                /\ request'[d].token = request[d].token /\ request'[d].genuine = request[d].genuine
                /\ request'[d].key = request[d].key /\ request'[d].at = request[d].at
  <2>1. CASE Finish(c)
    BY <1>2, <2>1
  <2>2. CASE (PrepareReplay(c) \/ PrepareActive(c)) /\ ~ Finish(c)
    <3>1. request[c] \in Request /\ request[c].pc = "prepare"
      BY <1>1, <2>2 DEF PrepareReplay, PrepareActive
    <3>2. PICK q :
            /\ request' = [request EXCEPT ![c] = q] /\ q.pc = "get_account"
            /\ q.token = request[c].token /\ q.genuine = request[c].genuine
            /\ q.key = request[c].key /\ q.at = request[c].at
      <4>1. CASE PrepareReplay(c)
        <5>1. PICK context, receipt : request' =
                [request EXCEPT ![c] = [request[c] EXCEPT !.pc = "get_account", !.context = context,
                                                          !.receipt = receipt]]
          BY <4>1 DEF PrepareReplay
        <5>2. PICK q : q = [request[c] EXCEPT !.pc = "get_account", !.context = context,
                                               !.receipt = receipt]
          OBVIOUS
        <5>3. /\ q.pc = "get_account" /\ q.token = request[c].token /\ q.genuine = request[c].genuine
              /\ q.key = request[c].key /\ q.at = request[c].at
          BY <3>1, <5>2 DEF Request
        <5>. QED BY <5>1, <5>2, <5>3
      <4>2. CASE PrepareActive(c)
        <5>1. PICK context : request' =
                [request EXCEPT ![c] = [request[c] EXCEPT !.pc = "get_account", !.context = context]]
          BY <4>2 DEF PrepareActive
        <5>2. PICK q : q = [request[c] EXCEPT !.pc = "get_account", !.context = context]
          OBVIOUS
        <5>3. /\ q.pc = "get_account" /\ q.token = request[c].token /\ q.genuine = request[c].genuine
              /\ q.key = request[c].key /\ q.at = request[c].at
          BY <3>1, <5>2 DEF Request
        <5>. QED BY <5>1, <5>2, <5>3
      <4>. QED BY <2>2, <4>1, <4>2
    <3>. QED BY <1>1, <3>1, <3>2 DEF Rotating
  <2>3. CASE (GetAccount(c) \/ GetEpoch(c)) /\ ~ Finish(c)
    <3>1. request[c] \in Request /\ request[c].pc \in {"get_account", "get_epoch"}
      BY <1>1, <2>3 DEF GetAccount, GetEpoch
    <3>2. PICK q :
            /\ request' = [request EXCEPT ![c] = q] /\ q.pc \in {"get_epoch", "recover", "rotate"}
            /\ q.token = request[c].token /\ q.genuine = request[c].genuine
            /\ q.key = request[c].key /\ q.at = request[c].at
      <4>1. CASE GetAccount(c)
        <5>1. PICK s : request' = [request EXCEPT ![c].pc = "get_epoch", ![c].snapshot = s]
          BY <4>1 DEF GetAccount
        <5>2. PICK q : q = [request[c] EXCEPT !.pc = "get_epoch", !.snapshot = s]
          OBVIOUS
        <5>3. request' = [request EXCEPT ![c] = q]
          BY <1>1, <5>1, <5>2
        <5>4. /\ q.pc = "get_epoch" /\ q.token = request[c].token /\ q.genuine = request[c].genuine
              /\ q.key = request[c].key /\ q.at = request[c].at
          BY <3>1, <5>2 DEF Request
        <5>. QED BY <5>3, <5>4
      <4>2. CASE GetEpoch(c) /\ ~ Finish(c)
        <5>1. PICK pc \in {"recover", "rotate"} : request' = [request EXCEPT ![c].pc = pc]
          BY <4>2 DEF GetEpoch
        <5>2. PICK q : q = [request[c] EXCEPT !.pc = pc]
          OBVIOUS
        <5>3. request' = [request EXCEPT ![c] = q]
          BY <1>1, <5>1, <5>2
        <5>4. /\ q.pc = pc /\ q.token = request[c].token /\ q.genuine = request[c].genuine
              /\ q.key = request[c].key /\ q.at = request[c].at
          BY <3>1, <5>2 DEF Request
        <5>. QED BY <5>3, <5>4
      <4>. QED BY <2>3, <4>1, <4>2
    <3>. QED BY <1>1, <3>1, <3>2 DEF Rotating
  <2>4. ASSUME NEW t \in Tokens, Rotate(c, t), ~ Finish(c)
        PROVE  \/ request'[d] = request[d]
               \/ /\ request[d].pc \in Rotating /\ request'[d].pc # "fail_closed"
                  /\ request'[d].token = request[d].token /\ request'[d].genuine = request[d].genuine
                  /\ request'[d].key = request[d].key /\ request'[d].at = request[d].at
    BY <1>1, <2>4 DEF Rotate, Rotating, Request
  <2>. QED BY <1>5, <2>1, <2>2, <2>3, <2>4
<1>6. ASSUME NEW c \in Clients, Recover(c)
      PROVE  \/ request'[d] = request[d]
             \/ request'[d].pc \notin Rotating
             \/ Recover(d) /\ request'[d] = [request[d] EXCEPT !.pc = "fail_closed"]
  <2>1. CASE Finish(c)
    BY <1>2, <2>1
  <2>2. CASE ~ Finish(c)
    BY <1>1, <1>6, <2>2 DEF Recover
  <2>. QED BY <2>1, <2>2
<1>7. ASSUME NEW c \in Clients, Serve(c) \/ Abort(c)
      PROVE  \/ request'[d] = request[d]
             \/ request'[d].pc \notin Rotating
             \/ /\ request[d].pc \in Rotating /\ request'[d].pc # "fail_closed"
                /\ request'[d].token = request[d].token /\ request'[d].genuine = request[d].genuine
                /\ request'[d].key = request[d].key /\ request'[d].at = request[d].at
             \/ Recover(d) /\ request'[d] = [request[d] EXCEPT !.pc = "fail_closed"]
  BY <1>2, <1>4, <1>5, <1>6, <1>7
     DEF Serve, Abort, AnswerIssue, PrepareRejected, PrepareReuse, FailClosed
<1>8. ASSUME Unprompted \/ Tick
      PROVE  \/ request'[d] = request[d]
             \/ request'[d].pc \notin Rotating
             \/ /\ request[d].pc \in Rotating /\ request'[d].pc # "fail_closed"
                /\ request'[d].token = request[d].token /\ request'[d].genuine = request[d].genuine
                /\ request'[d].key = request[d].key /\ request'[d].at = request[d].at
             \/ Recover(d) /\ request'[d] = [request[d] EXCEPT !.pc = "fail_closed"]
  BY <1>3, <1>7, <1>8 DEF Unprompted, Tick, BumpEpoch, SetActive
<1>9. ASSUME NEW c \in Clients, NEW t \in Known, Retry(c, t) \/ \E key \in Keys : FirstAttempt(c, t, key)
      PROVE  \/ request'[d] = request[d]
             \/ Retry(d, t) \/ \E key \in Keys : FirstAttempt(d, t, key)
  BY <1>1, <1>9 DEF Retry, FirstAttempt, BeginRotate
<1>. QED BY <1>8, <1>9 DEF HonestNext
\* A first attempt and a retry are within the window of the first.
LEMMA AskingStep ==
  ASSUME TypeInv, HonestInv, HonestNext, NEW d \in Clients, NEW t \in Known,
         Retry(d, t) \/ \E key \in Keys : FirstAttempt(d, t, key)
  PROVE  Asked(request[d])' /\ Overdue(request[d])'
<1>1. t \in Tokens /\ now \in Nat /\ now' = now
  BY CallersAge DEF Known, TypeInv, TypeOK, Delivery, Retry, FirstAttempt, BeginRotate
<1>2. PICK key :
        /\ request' = [request EXCEPT ![d] = [Resting EXCEPT !.pc = "prepare", !.token = t,
                                                 !.genuine = TRUE, !.key = key, !.at = now]]
        /\ key \in Keys /\ first'[t] # None /\ first'[t].key = key
        /\ first'[t].at <= now /\ now < first'[t].at + Window
  <2>1. CASE Retry(d, t)
    <3>1. first[t] \in Attempt /\ first[t].key \in Keys /\ first[t].at <= now
      BY <1>1, <2>1 DEF Retry, HonestInv, FirstType, Attempt
    <3>. QED BY <2>1, <3>1 DEF Retry, BeginRotate
  <2>2. ASSUME NEW key \in Keys, FirstAttempt(d, t, key)
        PROVE  /\ first'[t] # None /\ first'[t].key = key
               /\ first'[t].at <= now /\ now < first'[t].at + Window
    <3>1. first'[t] = [key |-> key, at |-> now]
      BY <1>1, <2>2 DEF FirstAttempt, HonestInv, FirstType
    <3>2. now \in Times
      BY DEF TypeInv, TypeOK
    <3>3. first'[t] \in Attempt
      BY <3>1, <3>2 DEF Attempt
    <3>4. first'[t] # None
      BY <3>3, NoRecordAssumption
    <3>5. first'[t].key = key /\ first'[t].at = now
      BY <3>1
    <3>6. now < now + Window
      BY <1>1, LifetimesAssumption
    <3>. QED BY <1>1, <3>4, <3>5, <3>6
  <2>. QED BY <2>1, <2>2 DEF FirstAttempt, BeginRotate
<1>3. /\ request'[d].pc = "prepare" /\ request'[d].token = t /\ request'[d].genuine
      /\ request'[d].key = key /\ request'[d].at = now
  BY <1>2 DEF TypeInv, TypeOK, Resting
<1>. QED BY <1>1, <1>2, <1>3 DEF Asked, Overdue

\* Only what was asked for too late is not recovered from its receipt.
LEMMA RecoverStep ==
  ASSUME FamilyInv, HonestInv, HonestNext, NEW d \in Clients, Recover(d),
         request'[d] = [request[d] EXCEPT !.pc = "fail_closed"]
  PROVE  Asked(request[d])' /\ Overdue(request[d])'
<1>1. PICK r : r = request[d]
  OBVIOUS
<1>2. /\ r \in Request /\ r.pc = "recover" /\ UNCHANGED <<now, tokens>>
      /\ r.context \in Context /\ r.at \in Times
  BY <1>1 DEF FamilyInv, TypeInv, TypeOK, RequestOK, Recover, Request
<1>3. /\ request'[d].pc = "fail_closed" /\ request'[d].token = r.token /\ request'[d].at = r.at
      /\ request'[d].context = r.context /\ request'[d].key = r.key /\ request'[d].genuine = r.genuine
  BY <1>1, <1>2 DEF Request
<1>4. ~ Unseals(r.receipt, r.token, r.context, Digest(r.key), r.at)
  <2>1. ~ Finish(d)
    BY <1>3, RestingType DEF Finish, FamilyInv, TypeInv, TypeOK
  <2>. QED BY <1>1, <2>1 DEF Recover
<1>5. /\ r.token \in DOMAIN tokens /\ r.context = ContextOf(tokens[r.token])
      /\ tokens[r.token].consumed /\ tokens[r.token].key = Digest(r.key)
      /\ tokens[r.token].receipt = r.receipt
  BY <1>1, <1>2 DEF FamilyInv, Held, HeldBy
<1>6. /\ first[r.token] # None /\ r.genuine /\ r.key \in Keys /\ first[r.token].key = r.key
      /\ first[r.token].at <= r.at /\ r.at < first[r.token].at + Window /\ r.at <= now
  BY <1>1, <1>2 DEF HonestInv, Asked, Rotating
<1>7. /\ r.receipt = Seal(r.token, r.context, Digest(r.key), r.receipt.successor, r.receipt.expires)
      /\ Lesser(first[r.token].at + Window, tokens[r.token].familyExpires) <= r.receipt.expires
      /\ r.receipt \in Receipt
  BY <1>5 DEF HonestInv, Sealed
<1>8. ~ (r.at < r.receipt.expires)
  BY <1>4, <1>7 DEF Unseals
<1>9. /\ r.receipt.expires \in Nat /\ r.at \in Nat /\ r.context.familyExpires \in Nat
      /\ first[r.token].at \in Nat /\ Window \in Nat
  <2>1. r.token \in Tokens /\ Expiries \subseteq Nat /\ Times \subseteq Nat
    BY <1>5, LifetimesAssumption DEF FamilyInv, TypeInv, TypeOK, Expiries, Times
  <2>2. first[r.token] \in Attempt
    BY <1>6, <2>1 DEF HonestInv, FirstType
  <2>. QED BY <1>2, <1>7, <2>1, <2>2, LifetimesAssumption DEF Receipt, Context, Attempt
<1>10. tokens[r.token].familyExpires = r.context.familyExpires
  BY <1>5 DEF ContextOf
<1>11. r.context.familyExpires <= r.at
  BY <1>6, <1>7, <1>8, <1>9, <1>10 DEF Lesser
<1>12. r.token \in Tokens /\ first'[r.token] = first[r.token]
  BY <1>5, <1>6, CallersAge DEF FamilyInv, TypeInv, TypeOK
<1>. QED BY <1>2, <1>3, <1>5, <1>6, <1>11, <1>12, ZenonT(60) DEF Asked, Overdue

LEMMA RequestsStayHonest ==
  ASSUME FamilyInv, HonestInv, HonestNext, [Next]_vars, NEW d \in Clients
  PROVE  Asked(request[d])' /\ Overdue(request[d])'
<1>1. TypeInv /\ Asked(request[d]) /\ Overdue(request[d])
  BY DEF FamilyInv, HonestInv
<1>2. request[d].pc \in Rotating =>
        /\ request[d].token \in Tokens /\ request[d].at \in Nat
        /\ now \in Nat /\ now' \in Nat /\ now <= now'
        /\ first[request[d].token] # None => first'[request[d].token] = first[request[d].token]
  <2>1. request[d].pc \in Rotating => request[d].token \in Tokens
    BY <1>1 DEF TypeInv, RequestOK, Rotating
  <2>2. request[d].at \in Nat
    BY <1>1, LifetimesAssumption DEF TypeInv, TypeOK, Request, Times
  <2>. QED BY <1>1, <2>1, <2>2, CallersAge
<1>3. CASE request'[d] = request[d]
  <2>1. Asked(request[d])'
    BY <1>1, <1>2, <1>3 DEF Asked
  <2>2. Overdue(request[d])'
    BY <1>1, <1>3, TokensOnlyAge DEF Overdue
  <2>. QED BY <2>1, <2>2
<1>4. CASE request'[d].pc \notin Rotating
  BY <1>4 DEF Asked, Overdue, Rotating
<1>5. CASE /\ request[d].pc \in Rotating /\ request'[d].pc # "fail_closed"
           /\ request'[d].token = request[d].token /\ request'[d].genuine = request[d].genuine
           /\ request'[d].key = request[d].key /\ request'[d].at = request[d].at
  BY <1>1, <1>2, <1>5 DEF Asked, Overdue
<1>. QED BY <1>1, <1>3, <1>4, <1>5, RequestStep, RecoverStep, AskingStep

\* Where the tokens change while the callers are honest: nothing revokes but
\* what fails closed.
LEMMA HonestTokens ==
  ASSUME FamilyInv, HonestInv, HonestNext
  PROVE  \/ UNCHANGED tokens
         \/ \E c \in Clients : FailClosed(c)
         \/ \E c \in Clients : request[c].pc = "create" /\ Created(c)
         \/ \E c \in Clients, t \in Tokens : request[c].pc = "rotate" /\ Rotated(c, t)
<1>1. ASSUME NEW c \in Clients, PrepareReuse(c) PROVE FALSE
  <2>1. PICK r : r = request[c]
    OBVIOUS
  <2>2. /\ r.pc = "prepare" /\ r.token \in DOMAIN tokens /\ tokens[r.token].consumed
        /\ ~ SameKey(tokens[r.token], r)
    BY <1>1, <2>1 DEF PrepareReuse, Recognised
  <2>3. first[r.token].key = r.key /\ r.key \in Keys
    BY <2>1, <2>2 DEF HonestInv, Asked, Rotating
  <2>4. tokens[r.token].key = first[r.token].key /\ tokens[r.token].receipt # None
    BY <2>2, NoRecordAssumption DEF HonestInv, Sealed
  <2>5. Digest(r.key) = r.key
    BY <2>3, KeysAssumption DEF Digest
  <2>. QED BY <2>2, <2>3, <2>4, <2>5 DEF SameKey
<1>2. ASSUME NEW c \in Clients, CreateFamily(c)
      PROVE  UNCHANGED tokens \/ (request[c].pc = "create" /\ Created(c))
  BY <1>2 DEF CreateFamily, Created
<1>3. ASSUME NEW c \in Clients, NEW t \in Tokens, Rotate(c, t)
      PROVE  UNCHANGED tokens \/ (request[c].pc = "rotate" /\ Rotated(c, t))
  BY <1>3 DEF Rotate, Rotated
<1>4. ASSUME NEW c \in Clients,
             \/ CheckEpoch(c) \/ AnswerIssue(c) \/ PrepareRejected(c) \/ PrepareReplay(c)
             \/ PrepareActive(c) \/ GetAccount(c) \/ GetEpoch(c) \/ Recover(c) \/ Abort(c)
      PROVE  UNCHANGED tokens
  BY <1>4 DEF CheckEpoch, AnswerIssue, PrepareRejected, PrepareReplay, PrepareActive,
              GetAccount, GetEpoch, Recover, Abort
<1>5. ASSUME \/ \E c \in Clients, t \in Known : Retry(c, t) \/ \E key \in Keys : FirstAttempt(c, t, key)
             \/ \E c \in Clients, a \in Accounts : BeginIssue(c, a)
             \/ \E a \in Accounts : BumpEpoch(a) \/ SetActive(a)
             \/ Tick
      PROVE  UNCHANGED tokens
  BY <1>5 DEF Retry, FirstAttempt, BeginRotate, BeginIssue, BumpEpoch, SetActive, Tick
<1>. QED BY <1>1, <1>2, <1>3, <1>4, <1>5 DEF HonestNext, Unprompted, Serve

\* What a token says of itself is still so when it is as it was.
LEMMA TokenStays ==
  ASSUME TypeInv, HonestInv, HonestNext, [Next]_vars, NEW t \in DOMAIN tokens,
         tokens'[t].consumed = tokens[t].consumed, tokens'[t].revoked => tokens[t].revoked
  PROVE  Sealed(t)' /\ (tokens'[t].revoked => now' >= tokens'[t].familyExpires)
<1>1. /\ t \in DOMAIN tokens' /\ ContextOf(tokens'[t]) = ContextOf(tokens[t])
      /\ tokens[t].consumed => /\ tokens'[t].key = tokens[t].key
                               /\ tokens'[t].receipt = tokens[t].receipt
  BY TokensOnlyAge
<1>2. tokens'[t].familyExpires = tokens[t].familyExpires
  BY <1>1 DEF ContextOf
<1>3. t \in Tokens /\ tokens[t] \in TokenState
  BY DEF TypeInv, TypeOK
<1>4. first[t] # None => first'[t] = first[t]
  BY <1>3, CallersAge
<1>5. Sealed(t) /\ (tokens[t].revoked => now >= tokens[t].familyExpires)
  BY DEF HonestInv
<1>6. Sealed(t)'
  BY <1>1, <1>2, <1>4, <1>5 DEF Sealed
<1>7. now \in Nat /\ now' \in Nat /\ now <= now' /\ tokens[t].familyExpires \in Nat
  <2>1. Expiries \subseteq Nat
    BY LifetimesAssumption DEF Expiries
  <2>. QED BY <1>3, <2>1, CallersAge DEF TokenState
<1>. QED BY <1>2, <1>5, <1>6, <1>7

LEMMA TokensStayHonest ==
  ASSUME FamilyInv, HonestInv, HonestNext, [Next]_vars, NEW t \in DOMAIN tokens'
  PROVE  Sealed(t)' /\ (tokens'[t].revoked => now' >= tokens'[t].familyExpires)
<1>0. TypeInv /\ Held /\ LifetimeIsFixed
  BY DEF FamilyInv
<1>1. CASE UNCHANGED tokens
  BY <1>0, <1>1, TokenStays
<1>2. ASSUME NEW c \in Clients, FailClosed(c)
      PROVE  Sealed(t)' /\ (tokens'[t].revoked => now' >= tokens'[t].familyExpires)
  <2>1. PICK r : r = request[c]
    OBVIOUS
  <2>2. r.pc = "fail_closed" /\ tokens' = RevokeFamilies({r.context.family}) /\ now' = now
    BY <1>2, <2>1 DEF FailClosed
  <2>3. /\ r.token \in DOMAIN tokens /\ r.context = ContextOf(tokens[r.token])
        /\ r.context.familyExpires <= r.at /\ r.at <= now
    BY <2>1, <2>2 DEF HonestInv, Overdue, Asked, Rotating
  <2>4. /\ DOMAIN tokens' = DOMAIN tokens
        /\ tokens'[t].consumed = tokens[t].consumed
        /\ ContextOf(tokens'[t]) = ContextOf(tokens[t])
        /\ tokens'[t].revoked = (tokens[t].revoked \/ tokens[t].family \in {r.context.family})
    BY <1>0, <2>2, RevokedFields DEF TypeInv
  <2>5. CASE tokens[t].family # r.context.family
    BY <1>0, <2>4, <2>5, TokenStays
  <2>6. CASE tokens[t].family = r.context.family
    <3>1. /\ tokens[t].familyExpires = r.context.familyExpires
          /\ tokens'[t].familyExpires = tokens[t].familyExpires
      BY <1>0, <2>3, <2>4, <2>6 DEF LifetimeIsFixed, ContextOf
    <3>2. tokens[t].familyExpires \in Nat /\ r.at \in Nat /\ now \in Nat
      <4>1. tokens[t] \in TokenState /\ r \in Request /\ now \in Times
        BY <1>0, <2>1, <2>4 DEF TypeInv, TypeOK
      <4>. QED BY <4>1, LifetimesAssumption DEF TokenState, Request, Expiries, Times
    <3>3. now' >= tokens'[t].familyExpires
      BY <2>2, <2>3, <3>1, <3>2
    <3>4. Sealed(t)'
      <4>1. /\ tokens[t].consumed => /\ tokens'[t].key = tokens[t].key
                                     /\ tokens'[t].receipt = tokens[t].receipt
        BY <1>0, <2>4, TokensOnlyAge
      <4>2. first[t] # None => first'[t] = first[t]
        BY <1>0, <2>4, CallersAge DEF TypeInv, TypeOK
      <4>. QED BY <2>4, <3>1, <4>1, <4>2 DEF HonestInv, Sealed
    <3>. QED BY <3>3, <3>4
  <2>. QED BY <2>5, <2>6
<1>3. ASSUME NEW c \in Clients, request[c].pc = "create", Created(c)
      PROVE  Sealed(t)' /\ (tokens'[t].revoked => now' >= tokens'[t].familyExpires)
  <2>1. /\ DOMAIN tokens' = DOMAIN tokens \cup {request[c].token}
        /\ tokens'[request[c].token] = NewState(request[c].context)
        /\ \A u \in DOMAIN tokens : tokens'[u] = tokens[u]
    BY <1>0, <1>3, CreatedFields
  <2>2. CASE t = request[c].token
    BY <2>1, <2>2 DEF NewState, Sealed
  <2>3. CASE t \in DOMAIN tokens
    BY <1>0, <2>1, <2>3, TokenStays
  <2>. QED BY <2>1, <2>2, <2>3
<1>4. ASSUME NEW c \in Clients, NEW u \in Tokens, request[c].pc = "rotate", Rotated(c, u)
      PROVE  Sealed(t)' /\ (tokens'[t].revoked => now' >= tokens'[t].familyExpires)
  <2>1. PICK r : r = request[c]
    OBVIOUS
  <2>2. PICK sealed : sealed = Seal(r.token, r.context, Digest(r.key), u,
                                    Lesser(r.at + Window, r.context.familyExpires))
    OBVIOUS
  <2>3. /\ r.token \in DOMAIN tokens /\ ~ tokens[r.token].revoked
        /\ DOMAIN tokens' = DOMAIN tokens \cup {u}
        /\ tokens'[u] = NewState([r.context EXCEPT !.expires = Lesser(r.at + Idle, r.context.familyExpires)])
        /\ tokens'[r.token] = Consume(tokens[r.token], Digest(r.key), sealed)
        /\ \A v \in DOMAIN tokens \ {r.token} : tokens'[v] = tokens[v]
    BY <1>0, <1>4, <2>1, <2>2, RotatedFields
  <2>4. CASE t = u
    BY <2>3, <2>4 DEF NewState, Sealed
  <2>5. CASE t \in DOMAIN tokens \ {r.token}
    BY <1>0, <2>3, <2>5, TokenStays
  <2>6. CASE t = r.token
    <3>1. /\ r \in Request /\ r.context \in Context /\ r.at \in Times /\ r.token \in Tokens
          /\ tokens[t] \in TokenState /\ r.context = ContextOf(tokens[t])
      BY <1>0, <1>4, <2>1, <2>3, <2>6 DEF TypeInv, TypeOK, RequestOK, Request, Held, HeldBy
    <3>2. /\ first[t] # None /\ first[t].key = r.key /\ r.key \in Keys /\ first[t].at <= r.at
      BY <1>4, <2>1, <2>6 DEF HonestInv, Asked, Rotating
    <3>3. /\ tokens'[t].consumed /\ tokens'[t].key = Digest(r.key) /\ tokens'[t].receipt = sealed
          /\ ~ tokens'[t].revoked /\ ContextOf(tokens'[t]) = r.context
          /\ tokens'[t].familyExpires = r.context.familyExpires
      <4>1. PICK old \in TokenState : old = tokens[t]
        BY <3>1
      <4>2. PICK new : new = Consume(old, Digest(r.key), sealed)
        OBVIOUS
      <4>3. /\ new.consumed /\ new.key = Digest(r.key) /\ new.receipt = sealed
            /\ new.revoked = old.revoked /\ new.account = old.account /\ new.family = old.family
            /\ new.epoch = old.epoch /\ new.expires = old.expires
            /\ new.familyExpires = old.familyExpires
        BY <4>2 DEF Consume, TokenState
      <4>4. tokens'[t] = new /\ ~ old.revoked /\ r.context = ContextOf(old)
        BY <2>3, <2>6, <3>1, <4>1, <4>2
      <4>. QED BY <4>3, <4>4 DEF ContextOf
    <3>4. Digest(r.key) = r.key /\ r.key \in Digests
      BY <3>2, KeysAssumption DEF Digest, Digests
    <3>5. /\ Lesser(r.at + Window, r.context.familyExpires) \in Expiries
          /\ r.context.familyExpires \in Expiries
      BY <3>1, ExpiryType DEF Context
    <3>6. sealed \in Receipt
      BY <2>2, <3>1, <3>4, <3>5 DEF Seal, Receipt, Context
    <3>7. /\ sealed.successor = u /\ sealed.expires = Lesser(r.at + Window, r.context.familyExpires)
      BY <2>2 DEF Seal
    <3>8. sealed = Seal(t, r.context, Digest(r.key), sealed.successor, sealed.expires)
      BY <2>2, <2>6, <3>7
    <3>9. Lesser(first[t].at + Window, r.context.familyExpires) <= sealed.expires
      <4>1. first[t].at \in Nat /\ r.at \in Nat /\ r.context.familyExpires \in Nat /\ Window \in Nat
        <5>1. first[t] \in Attempt
          BY <2>6, <3>1, <3>2 DEF HonestInv, FirstType
        <5>. QED BY <3>1, <3>5, <5>1, LifetimesAssumption DEF Attempt, Times, Expiries
      <4>. QED BY <3>2, <3>7, <4>1 DEF Lesser
    <3>10. first'[t] = first[t]
      BY <1>0, <2>6, <3>1, <3>2, CallersAge
    <3>. QED BY <3>2, <3>3, <3>4, <3>6, <3>8, <3>9, <3>10 DEF Sealed
  <2>. QED BY <2>3, <2>4, <2>5, <2>6
<1>. QED BY <1>1, <1>2, <1>3, <1>4, HonestTokens

LEMMA HonestInit == CallersInit => HonestInv
<1>. SUFFICES ASSUME CallersInit PROVE HonestInv
  OBVIOUS
<1>1. /\ first = [t \in Tokens |-> None] /\ DOMAIN tokens = {}
      /\ \A c \in Clients : request[c].pc = "idle"
  BY RestingType DEF CallersInit, Init
<1>. QED BY <1>1 DEF HonestInv, FirstType, Asked, Overdue, Rotating

LEMMA HonestStep ==
  ASSUME FamilyInv, FirstType, honest => HonestInv, [CallersNext]_callerVars
  PROVE  FamilyInv' /\ FirstType' /\ (honest' => HonestInv')
<1>1. TypeInv /\ [Next]_vars
  BY CallersAreCallers DEF FamilyInv
<1>2. FamilyInv'
  BY <1>1, FamilyNext
<1>3. CASE HonestNext
  <2>1. honest /\ HonestInv
    BY <1>3 DEF HonestNext
  <2>. QED BY <1>1, <1>2, <1>3, <2>1, CallersAge, RequestsStayHonest, TokensStayHonest DEF HonestInv
<1>4. CASE ArbitraryNext
  BY <1>2, <1>4 DEF ArbitraryNext, FirstType
<1>5. CASE UNCHANGED callerVars
  <2>1. FirstType'
    BY <1>5 DEF callerVars, FirstType
  <2>2. honest' => HonestInv'
    BY <1>5 DEF callerVars, HonestInv, FirstType, Asked, Overdue, Sealed
  <2>. QED BY <1>2, <2>1, <2>2
<1>. QED BY <1>3, <1>4, <1>5 DEF CallersNext

LEMMA CallersInvariant == CallersSpec => [](FamilyInv /\ FirstType /\ (honest => HonestInv))
<1>1. CallersInit => FamilyInv /\ FirstType /\ (honest => HonestInv)
  <2>1. Init => FamilyInv
    BY InitType, LinearInit, HeldInit, RestingType
       DEF FamilyInv, Init, LifetimeIsFixed, Clamped
  <2>. QED BY <2>1, HonestInit DEF CallersInit, HonestInv
<1>2. FamilyInv /\ FirstType /\ (honest => HonestInv) /\ [CallersNext]_callerVars
      => (FamilyInv /\ FirstType /\ (honest => HonestInv))'
  BY HonestStep
<1>. QED BY <1>1, <1>2, PTL DEF CallersSpec

\* A caller that keeps to the documented contract (one key per token, sent
\* again only within the receipt window) never has its family revoked before
\* the family's end, whatever is lost, duplicated, overtaken or aborted.
THEOREM HonestCallersKeepTheirFamily == CallersSpec => []HonestFamilySurvives
<1>1. (honest => HonestInv) => HonestFamilySurvives
  BY DEF HonestInv, HonestFamilySurvives
<1>. QED BY <1>1, CallersInvariant, PTL

\* Honest or arbitrary, the callers only do what the endpoint allows anyone to
\* do: all that holds of Spec holds of them.
THEOREM CallersRefine == CallersSpec => Spec
<1>1. CallersInit => Init
  BY DEF CallersInit
<1>2. FamilyInv /\ FirstType /\ [CallersNext]_callerVars => [Next]_vars
  BY CallersAreCallers DEF FamilyInv
<1>. QED BY <1>1, <1>2, CallersInvariant, PTL DEF CallersSpec, Spec

=============================================================================
