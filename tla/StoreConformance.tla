-------------------------- MODULE StoreConformance --------------------------
(* The conformance suite an application runs against its own stores          *)
(* (testing.py): every assert_*_conformance scenario is a script of steps,   *)
(* a step is one call, or contenders at once, and the answers it lets        *)
(* pass.  The store under test is the reference with a set of defects; one   *)
(* defect, "yields", is that an operation reads the store before an await    *)
(* and writes it after; another, "raises", that a contender that comes too   *)
(* late raises where it should answer.                                       *)
EXTENDS StorePorts, Sequences, TLC

CONSTANTS Ports,       \* the ports whose suites are run
          MaxDefects   \* how many defects a store has at most

VARIABLES port,        \* the port under test
          defects,     \* what is wrong with the store under test
          store,       \* its records
          step,        \* the next step of the suite
          contenders,  \* of each task: "idle", "read" or its answer
          snapshots,   \* what a task that awaits has read
          overlapped,  \* two tasks have both read, before either wrote, what lets them win
          verdict      \* "running", "passed" or "failed"

vars == <<port, defects, store, step, contenders, snapshots, overlapped, verdict>>

Answers == {"created", "got", "nothing", "won", "lost", "conflict", "cloneRisk", "recorded",
  "changed", "allowed", "refused", "true", "false", "done", "notFound", "final", "removed",
  "duplicate", "invalidInvitation", "registered", "invalid", "used", "expired", "consumed",
  "reset", "receipt", "replay", "revoked", "epochMismatch", "context", "rotated", "live",
  "suspect", "verified", "unverified", "zero", "one", "two", "three"}

-----------------------------------------------------------------------------
(* Calls and steps.                                                          *)

Owned(k, of, n, due, epoch) ==
  [op |-> "create", key |-> k, of |-> of, n |-> n, due |-> due, epoch |-> epoch]
New(k, due) == Owned(k, "owner", 0, due, 1)
Take(k, wrong, at) == [op |-> "consume", key |-> k, wrong |-> wrong, at |-> at]
Numbered(op, k, n) == [op |-> op, key |-> k, n |-> n, to |-> "hash"]
Asserted(k, n, cloned) == [op |-> "record", key |-> k, n |-> n, cloned |-> cloned]
Moved(op, k, to) == [op |-> op, key |-> k, to |-> to, of |-> "owner"]
Show(op, k) == [op |-> op, key |-> k]
Of(op, of, k) == [op |-> op, of |-> of, key |-> k]
Bumped(k, n, to) == [op |-> "bump", key |-> k, n |-> n, to |-> to]
Registers(k, inv, ver, n) == [op |-> "register", key |-> k, inv |-> inv, ver |-> ver, n |-> n]
Proven(op, k, wrong, at) == [op |-> op, key |-> k, wrong |-> wrong, at |-> at, to |-> "resetHash"]
Family(k, of, due) == [op |-> "createFamily", key |-> k, of |-> of, due |-> due, n |-> 1]
Prepares(k, by, at) == [op |-> "prepare", key |-> k, by |-> by, wrong |-> {}, at |-> at]
Rotates(k, to, by, at) == [op |-> "rotate", key |-> k, to |-> to, by |-> by, at |-> at]

Step(mode, calls, expected) == [mode |-> mode, calls |-> calls, expected |-> expected]
Expect(call, answers) == Step("ask", <<call>>, <<answers>>)
Do(call) == Expect(call, Answers)
\* Read two records of which either may be the one described first.
Pair(a, b, first, second) == Step("ask", <<a, b>>, <<first, second>>)
\* A call on the store of another factory call, and a fresh start on one.
Elsewhere(call, answers) == Step("elsewhere", <<call>>, <<answers>>)
Anew == Step("anew", <<>>, <<>>)
\* Two contenders of which one wins.
SomeWinner(a, b, winning) == Step("race", <<a, b>>, <<winning, Answers>>)
Race(a, b, winning) == Step("race", <<a, b>>, <<winning, Answers \ winning>>)

-----------------------------------------------------------------------------
(* The scenarios.                                                            *)

Nothing == {"nothing"}
OneWinner(k) == <<Do(New(k, 2)), Race(Take(k, {}, 0), Take(k, {}, 0), {"got"})>>
Expiring(k) == <<Do(New(k, 1)), Expect(Take(k, {}, 1), Nothing)>>
\* A record asked for with one field wrong, then exactly.
Mismatched(k, field, answers) ==
  <<Do(New(k, 2)), Expect(Take(k, {field}, 0), Nothing), Expect(Take(k, {}, 0), answers)>>

MFALoginChallenges ==
  Mismatched("c1", "account", Nothing) \o Mismatched("c2", "epoch", Nothing) \o OneWinner("c3")
  \o Expiring("c4") \o <<Expect(Take("c4", {}, 0), Nothing)>>

WebAuthnChallenges ==
  Mismatched("c1", "binding", Nothing) \o Mismatched("c2", "purpose", Nothing)
  \o OneWinner("c3") \o Expiring("c4")

OAuthTransactions ==
  <<Do(New("t1", 2)), Expect(Take("t1", {"binding"}, 0), Nothing),
    Expect(Take("t1", {"provider"}, 0), Nothing), Expect(Take("t1", {}, 0), {"got"}),
    Expect(Take("t1", {}, 0), Nothing)>> \o OneWinner("t2") \o Expiring("t3")

ConnectTokens ==
  Mismatched("t1", "digest", {"got"}) \o OneWinner("t2") \o Expiring("t3")
  \o <<Expect(Take("t3", {}, 0), Nothing)>>

StepUpGrants ==
  LET altered(field) == <<Anew, Do(New("g", 2)), Expect(Take("g", {field}, 0), Nothing)>>
  IN OneWinner("g") \o <<Expect(Take("g", {}, 0), Nothing)>>
     \o altered("principal") \o altered("epoch") \o altered("purpose") \o altered("transport")
     \o <<Anew>> \o Expiring("g")

MFAMethods ==
  <<Do(New("enrolment", 2)), Expect(Take("enrolment", {}, 0), {"got"}),
    Do(Owned("totp", "owner", 1, 2, 1)),
    Race(Numbered("advance", "totp", 2), Numbered("advance", "totp", 2), {"won"}),
    Expect(Numbered("advance", "totp", 2), {"lost"}),
    Expect(Numbered("advance", "totp", 1), {"lost"})>> \o OneWinner("code")

Passkeys ==
  <<Do(New("credential", 2)),
    Race(Asserted("credential", 0, FALSE), Asserted("credential", 0, FALSE), {"recorded"}),
    Expect(Show("number", "credential"), {"one"}), Expect(Show("state", "credential"), {"live"}),
    Do(New("clone", 2)), Expect(Asserted("clone", 0, TRUE), {"cloneRisk"}),
    Expect(Show("number", "clone"), {"one"}), Expect(Show("state", "clone"), {"suspect"})>>

OIDCLogouts ==
  LET mismatch(field) ==
        <<Anew, Expect([op |-> "back", key |-> field, wrong |-> {field}], {"zero"})>>
      exact == [op |-> "back", key |-> "backchannel", wrong |-> {}]
      front(wrong) == [op |-> "front", wrong |-> wrong]
  IN <<Expect(exact, {"two"}), Expect(exact, Nothing)>>
     \o mismatch("provider") \o mismatch("issuer") \o mismatch("subject") \o mismatch("session")
     \o <<Anew, Expect(front({"binding"}), Nothing), Expect(front({}), {"two"}),
          Expect(front({}), Nothing)>>

LinkedAccounts ==
  LET second == Of("removeMethod", "owner", "second")
  IN <<Do(New("first", 2)), Expect(Of("removeMethod", "other", "first"), {"notFound"}),
       Expect(Of("removeMethod", "owner", "first"), {"final"}),
       Expect(Show("state", "first"), {"live"}), Do(New("second", 2)),
       Step("race", <<second, second>>, <<{"removed"}, {"notFound"}>>)>>

APIKeySuite ==
  <<Do(New("k1", 2)), Expect(Show("state", "k1"), {"live"}),
    Elsewhere(Show("state", "k1"), Nothing),
    Race(Moved("rotateKey", "k1", "k2"), Moved("rotateKey", "k1", "k3"), {"won"}),
    Pair(Show("state", "k2"), Show("state", "k3"), Answers \ Nothing, Nothing),
    Expect(Show("state", "k1"), {"revoked"})>>

SessionRegistries ==
  LET got(k) == Expect(Show("get", k), {"got"})
      gone(k) == Expect(Show("get", k), Nothing)
      successor == Pair(Show("get", "s3"), Show("get", "s4"), {"got"}, Nothing)
  IN <<Do(New("s1", 2)), got("s1"), Elsewhere(Show("get", "s1"), Nothing),
       Do(New("s2", 0)), gone("s2"),
       Race(Moved("rebind", "s1", "s3"), Moved("rebind", "s1", "s4"), {"won"}), successor, gone("s1"),
       Do(Owned("s5", "other", 0, 2, 1)),
       Expect(Of("revokeSession", "owner", "s5"), {"false"}), got("s5"), Do(New("s6", 2)),
       Do([op |-> "revokeOthers", of |-> "owner", keep |-> {"s3", "s4"}]),
       successor, gone("s6"), got("s5")>>

\* A secret is recovered under its own associated data and no other, and
\* protected twice gives two ciphertexts (here: numbers).
Protection(purpose) ==
  <<Do(Show("protect", purpose)), Expect([op |-> "unprotect", key |-> purpose, wrong |-> {}], {"got"}),
    Expect([op |-> "unprotect", key |-> purpose, wrong |-> {"data"}], Nothing),
    Do(Show("protect", "second")), Expect(Show("number", purpose), {"zero"}),
    Expect(Show("number", "second"), Answers \ {"zero"})>>
OAuthProtectors == Protection("pkce")
SecretProtectors == Protection("totp")

\* As many contenders as the limit are admitted (of two more here, the suite's
\* defaults are a limit of five and twenty contenders).
Admits(i) == IF i <= Limit THEN {"allowed"} ELSE Answers \ {"allowed"}
RateLimiters ==
  <<Step("race", [i \in 1 .. Limit + 2 |-> Show("acquire", "bucket")], [i \in 1 .. Limit + 2 |-> Admits(i)])>>

-----------------------------------------------------------------------------
(* The local-account scenarios share one store: "main" and "part" are        *)
(* accounts, v and r name verification and recovery tokens.                  *)

FactoryIsolation ==
  <<Expect(Registers("isolated", "none", "none", 0), {"registered"}),
    Elsewhere(Show("state", "isolated"), Nothing)>>

Registrations ==
  LET contender == Registers("atomic", "none", "none", 0)
  IN <<Expect(Registers("main", "none", "none", 0), {"registered"}),
       Step("race", <<contender, contender>>, <<{"registered"}, {"duplicate"}>>),
       Do(Owned("invitation", "nobody", 5, 2, 1)),
       Expect(Registers("main", "invitation", "v2", 5), {"duplicate"}),
       Expect(Proven("verify", "v2", {}, 0), {"invalid"}),
       Expect(Registers("part", "invitation", "v3", 5), {"registered"})>>

PasswordCAS ==
  LET replaces(to) == [op |-> "replacePassword", key |-> "main", from |-> "password", to |-> to]
  IN <<Race(replaces("hashA"), replaces("hashB"), {"won"}),
       Expect(Show("of", "main"), {"hashA", "hashB"}),
       Expect(Show("number", "main"), {"one"}), Expect(Show("state", "main"), {"verified"})>>

EpochBump ==
  <<Step("race", <<Bumped("main", 1, "epochA"), Bumped("main", 1, "epochB")>>, <<{"changed"}, {"conflict"}>>),
    Expect(Show("number", "main"), {"two"}), Expect(Show("of", "main"), {"epochA", "epochB"})>>

Verifications ==
  <<Expect(Proven("verify", "v3", {}, 0), {"consumed"}),
    Expect(Proven("verify", "v3", {}, 0), Answers \ {"consumed"}),
    Expect(Show("state", "part"), {"verified"})>>

VerificationExpiry ==
  <<Expect(Registers("late", "none", "v4", 5), {"registered"}),
    Expect(Proven("verify", "v4", {}, 1), {"expired"}), Expect(Show("state", "late"), {"unverified"})>>

VerificationExhaustion ==
  LET guess == Expect(Proven("verify", "v5", {"digest"}, 0), {"invalid"})
  IN <<Expect(Registers("burned", "none", "v5", 2), {"registered"}), guess, guess,
       Expect(Proven("verify", "v5", {}, 0), {"used"}),
       Expect(Show("state", "burned"), {"unverified"})>>

RecoveryEpoch ==
  <<Do(Owned("r6", "main", 5, 2, 2)), Expect(Bumped("main", 2, "changed"), {"changed"}),
    Expect(Proven("reset", "r6", {}, 0), {"conflict"}),
    Expect(Proven("reset", "r6", {}, 0), Answers \ {"reset"}), Expect(Show("of", "main"), {"changed"})>>

RecoveryExpiry ==
  <<Do(Owned("r7", "main", 5, 1, 3)), Expect(Proven("reset", "r7", {}, 1), {"expired"}),
    Expect(Show("of", "main"), {"changed"})>>

RecoveryExhaustion ==
  LET guess == Expect(Proven("reset", "r8", {"digest"}, 0), {"invalid"})
  IN <<Do(Owned("r8", "main", 2, 2, 3)), guess, guess,
       Expect(Proven("reset", "r8", {}, 0), {"used"}), Expect(Show("of", "main"), {"changed"})>>

FinalLoginMethod ==
  <<Expect(Registers("other", "none", "none", 0), {"registered"}),
    Do(Owned("method", "methodsOfMain", 0, 2, 1)),
    Expect(Of("removeMethod", "methodsOfOther", "method"), {"notFound"}),
    Expect(Of("removeMethod", "methodsOfMain", "method"), {"final"}),
    Expect(Of("removeMethod", "methodsOfMain", "missing"), {"notFound"})>>

LocalAccounts ==
  FactoryIsolation \o Registrations \o PasswordCAS \o EpochBump \o Verifications
  \o VerificationExpiry \o VerificationExhaustion \o RecoveryEpoch \o RecoveryExpiry
  \o RecoveryExhaustion \o FinalLoginMethod

-----------------------------------------------------------------------------
(* The refresh scenarios share one store too: t names a token, f a family.   *)

RefreshFamilies ==
  <<Expect(Family("t1", "f1", 2), {"true"}), Expect(Prepares("t1", "none", 0), {"context"}),
    Expect(Family("t1", "f12", 2), {"false"}), Expect(Family("t12", "f1", 2), {"false"}),
    Elsewhere(Prepares("t1", "none", 0), {"invalid"}),
    Expect(Family("t2", "f2", 0), {"true"}), Expect(Prepares("t2", "none", 0), {"expired"}),
    Expect(Family("t15", "f15", 0), {"true"}), Expect(Prepares("t15", "none", 0), {"expired"})>>

RotationAtomicity ==
  LET successors(first) == Pair(Prepares("t4", "none", 0), Prepares("t5", "none", 0), first, {"invalid"})
  IN <<Expect(Family("t3", "f3", 2), {"true"}),
       Race(Rotates("t3", "t4", "key4", 0), Rotates("t3", "t5", "key5", 0), {"rotated"}),
       successors({"context"}), Expect(Prepares("t3", "none", 0), {"replay"}),
       successors({"revoked"})>>

RotationCommit ==
  <<Expect(Family("t6", "f6", 2), {"true"}), Expect(Rotates("t6", "t7", "key7", 0), {"rotated"}),
    Expect(Prepares("t6", "key7", 0), {"receipt"}), Expect(Prepares("t7", "none", 0), {"context"})>>

ReplayAndIdempotency ==
  <<Expect(Family("t8", "f8", 2), {"true"}), Do(Rotates("t8", "t9", "key9", 0)),
    Expect(Prepares("t8", "key9", 0), {"receipt"}), Expect(Prepares("t8", "key10", 0), {"replay"}),
    Expect(Prepares("t9", "none", 0), {"revoked"})>>

RefreshOwnership ==
  <<Expect(Family("t11", "f11", 2), {"true"}),
    Expect([op |-> "revokeToken", key |-> "t11", wrong |-> {"account"}], {"false"}),
    Expect(Prepares("t11", "none", 0), {"context"})>>

LateRotations ==
  <<Expect(Family("t10", "f10", 2), {"true"}), Expect(Prepares("t10", "none", 0), {"context"}),
    Expect(Rotates("t10", "t16", "key16", 2), Answers \ {"rotated"}),
    Expect(Prepares("t16", "none", 2), {"invalid"}),
    Expect(Family("t13", "f13", 2), {"true"}), Expect(Prepares("t13", "none", 0), {"context"}),
    Expect(Bumped("owner", 1, "bumped"), {"changed"}),
    Expect(Rotates("t13", "t14", "key14", 0), Answers \ {"rotated"}),
    Expect(Prepares("t14", "none", 0), {"invalid"})>>

-----------------------------------------------------------------------------
Suites ==
  [mfaLogin |-> MFALoginChallenges, webauthn |-> WebAuthnChallenges, oauthTransactions |-> OAuthTransactions,
   connectTokens |-> ConnectTokens, stepUp |-> StepUpGrants, mfa |-> MFAMethods, passkeys |-> Passkeys,
   oidcLogout |-> OIDCLogouts, oauthAccounts |-> LinkedAccounts, apiKeys |-> APIKeySuite,
   oauthProtector |-> OAuthProtectors, secretProtector |-> SecretProtectors,
   sessions |-> SessionRegistries, limiter |-> RateLimiters, accounts |-> LocalAccounts,
   refresh |-> RefreshFamilies \o RotationAtomicity \o RotationCommit \o ReplayAndIdempotency
               \o RefreshOwnership \o LateRotations]

\* What is in a store when the factory has made it.
Seed ==
  [p \in DOMAIN Suites |->
     CASE p = "oidcLogout" -> [k \in Mappings \cup {"binding"} |-> Record("mapping", 0, 2)]
       [] p = "limiter" -> [k \in {"bucket"} |-> Record("bucket", 0, 2)]
       [] p = "refresh" -> [k \in {"owner"} |-> Record("password", 1, 2)]
       [] OTHER -> <<>>]

\* The defects a store of each port may have, beside "yields" and "raises".
Faults ==
  [mfaLogin |-> {"replays", "late", "lingers", "misburns", "account", "epoch"},
   webauthn |-> {"replays", "late", "lingers", "misburns", "binding", "purpose"},
   oauthTransactions |-> {"replays", "late", "lingers", "misburns", "binding", "provider"},
   connectTokens |-> {"replays", "late", "lingers", "misburns", "digest"},
   stepUp |-> {"replays", "late", "lingers", "misburns", "principal", "epoch", "purpose", "transport"},
   mfa |-> {"replays", "blind", "equal"}, passkeys |-> {"blind", "unversioned", "unmarked"},
   oidcLogout |-> {"replays", "rebinds", "leaves", "sweeps", "provider", "issuer", "subject", "session", "binding"},
   oauthAccounts |-> {"account", "final", "replays"}, apiKeys |-> {"shared", "replays", "partial", "silent"},
   sessions |-> {"shared", "late", "replays", "partial", "account", "sweeps", "spares"},
   limiter |-> {"equal"}, oauthProtector |-> {"data", "repeats"}, secretProtector |-> {"data", "repeats"},
   accounts |-> {"shared", "blind", "partial", "reusable", "late", "digest", "unburnt", "replays",
                 "stale", "account", "final"},
   refresh |-> {"shared", "collides", "late", "replays", "partial", "forgets", "lenient", "stale",
                "account", "digest"}]

-----------------------------------------------------------------------------
Tasks == 1 .. Limit + 2
Idle == contenders = [i \in Tasks |-> "idle"]
Current == Suites[port][step]
Yields == "yields" \in defects

\* The answers of a contender that came too late.  In place of them a store may
\* raise, which ends every suite but the API keys', where "lost" stands for it.
Refusals == {"nothing", "lost", "conflict", "refused", "notFound", "duplicate", "invalid"}
Tells(says) == IF "raises" \in defects /\ says \in Refusals THEN "raised" ELSE says

\* The ports whose suites let contenders race and none of them raise.
Answering == DOMAIN Suites \ {"oidcLogout", "oauthProtector", "secretProtector", "apiKeys"}

Init ==
  /\ port \in Ports
  /\ LET possible == Faults[port] \cup {"yields"} \cup (IF port \in Answering THEN {"raises"} ELSE {})
     IN defects \in {D \in SUBSET possible : Cardinality(D) <= MaxDefects}
  /\ store = Seed[port]
  /\ step = 1
  /\ Idle
  /\ snapshots = [i \in Tasks |-> <<>>]
  /\ overlapped = FALSE
  /\ verdict = "running"

\* The store of another factory call is this one only in a store that shares.
OtherStore == IF "shared" \in defects THEN store ELSE Seed[port]

\* The answers are the expected ones, in any order.
Judge(answers, expected) ==
  \E order \in Permutations(DOMAIN expected) :
    \A i \in DOMAIN expected : answers[i] \in expected[order[i]]

Advance(good) ==
  /\ verdict' = IF ~good THEN "failed" ELSE IF step = Len(Suites[port]) THEN "passed" ELSE "running"
  /\ step' = IF good /\ step < Len(Suites[port]) THEN step + 1 ELSE step

Begin(mode) == verdict = "running" /\ Current.mode = mode /\ Idle

Ask ==
  /\ Begin("ask")
  /\ LET first == Call(port, defects, store, Current.calls[1])
         both == Len(Current.calls) = 2
         second == Call(port, defects, first.store, Current.calls[2])
     IN /\ store' = IF both THEN second.store ELSE first.store
        /\ Advance(Judge(IF both THEN <<first.says, second.says>> ELSE <<first.says>>, Current.expected))
  /\ UNCHANGED <<port, defects, contenders, snapshots, overlapped>>

AskElsewhere ==
  /\ Begin("elsewhere")
  /\ Advance(Judge(<<Call(port, defects, OtherStore, Current.calls[1]).says>>, Current.expected))
  /\ UNCHANGED <<port, defects, store, contenders, snapshots, overlapped>>

StartAnew ==
  /\ Begin("anew")
  /\ store' = OtherStore
  /\ Advance(TRUE)
  /\ UNCHANGED <<port, defects, contenders, snapshots, overlapped>>

Racing(i, state) ==
  /\ verdict = "running" /\ Current.mode = "race"
  /\ i \in DOMAIN Current.calls /\ contenders[i] = state

\* A contender's operation in one step, under the store's lock.
Contend(i) ==
  /\ ~Yields
  /\ Racing(i, "idle")
  /\ LET result == Call(port, defects, store, Current.calls[i])
     IN store' = result.store /\ contenders' = [contenders EXCEPT ![i] = Tells(result.says)]
  /\ UNCHANGED <<port, defects, step, snapshots, overlapped, verdict>>

\* A contender would win the race on what it reads.
WouldWin(i, read) == Call(port, defects, read, Current.calls[i]).says \in Current.expected[1]

ReadStore(i) ==
  /\ Yields
  /\ Racing(i, "idle")
  /\ contenders' = [contenders EXCEPT ![i] = "read"]
  /\ snapshots' = [snapshots EXCEPT ![i] = store]
  /\ overlapped' = \/ overlapped
                    \/ /\ WouldWin(i, store)
                       /\ \E j \in Tasks : contenders[j] = "read" /\ WouldWin(j, snapshots[j])
  /\ UNCHANGED <<port, defects, store, step, verdict>>

\* What the operation changed in its snapshot is written over the store.
Overwritten(before, after) ==
  LET changed == {k \in DOMAIN after : k \in DOMAIN before => after[k] # before[k]}
      removed == DOMAIN before \ DOMAIN after
  IN [k \in (DOMAIN store \ removed) \cup changed |-> IF k \in changed THEN after[k] ELSE store[k]]

WriteStore(i) ==
  /\ Racing(i, "read")
  /\ LET result == Call(port, defects, snapshots[i], Current.calls[i])
     IN /\ store' = Overwritten(snapshots[i], result.store)
        /\ contenders' = [contenders EXCEPT ![i] = Tells(result.says)]
  /\ snapshots' = [snapshots EXCEPT ![i] = <<>>]
  /\ UNCHANGED <<port, defects, step, overlapped, verdict>>

SingleWinner ==
  /\ verdict = "running" /\ Current.mode = "race"
  /\ \A i \in DOMAIN Current.calls : contenders[i] \notin {"idle", "read"}
  /\ Advance(Judge(contenders, Current.expected))
  /\ contenders' = [i \in Tasks |-> "idle"]
  /\ UNCHANGED <<port, defects, store, snapshots, overlapped>>

Next ==
  \/ Ask
  \/ AskElsewhere
  \/ StartAnew
  \/ \E i \in Tasks : Contend(i) \/ ReadStore(i) \/ WriteStore(i)
  \/ SingleWinner

Spec == Init /\ [][Next]_vars

-----------------------------------------------------------------------------
\* What no scenario of a port asks for.
LeftOpen ==
  [p \in DOMAIN Suites |->
     CASE p \in {"webauthn", "oauthTransactions"} -> {"lingers"}
       [] p = "stepUp" -> {"lingers", "misburns"}
       [] p = "oidcLogout" -> {"leaves"}
       [] p = "accounts" -> {"reusable"}
       [] p = "refresh" -> {"digest"}
       [] OTHER -> {}]

\* The suite fails no store without need: the reference, and a store whose
\* defects are all among those no scenario asks for, pass whatever the order
\* of the contenders.  (assert_*_conformance: "None when every invariant holds".)
ConformingStoresPass == verdict = "failed" => ~(defects \subseteq LeftOpen[port])

\* A store that passes has none of the defects the suite's assertions name,
\* even when a second defect hides the first from the scenario made for it.
DefectsAreReported ==
  verdict = "passed" => defects \subseteq LeftOpen[port] \cup {"yields"}

\* A store that reads before an await and writes after it passes only when the
\* event loop never overlapped two contenders that would both win: such an
\* overlap is always reported.  (Refused attempts at a limiter may overlap.)
OverlapsAreReported == verdict = "passed" => ~overlapped

\* What the suite is for: a store that passes is free of the defects it names,
\* and of overlaps, whatever the order of the contenders.
FaultsAreReported == DefectsAreReported /\ OverlapsAreReported

=============================================================================
