----------------------------- MODULE StorePorts -----------------------------
(* The application-owned stores as their reference implementations answer   *)
(* (testing.py, providers/oauth/_transactions.py and _accounts.py,          *)
(* websocket/_connect_tokens.py), one operator per operation: a call on a   *)
(* store is the store after it and what it says.  d is the set of defects   *)
(* of the store under test, each named for what such a store does wrong;    *)
(* the reference has none.  The name of a bound field ("account", "epoch",  *)
(* ...) is the defect of a store that does not compare it.                  *)
EXTENDS Naturals, FiniteSetsExt

\* One record: its state, what it belongs to (owner, family, password), its
\* number (epoch, version, counter, attempts left), its deadline, the epoch it
\* was issued at and the idempotency key it was consumed with.
Record(of, n, due) ==
  [st |-> "live", of |-> of, n |-> n, due |-> due, epoch |-> 1, by |-> "none"]

With(s, k, r) == [x \in DOMAIN s \cup {k} |-> IF x = k THEN r ELSE s[x]]
Without(s, gone) == [k \in DOMAIN s \ gone |-> s[k]]
Says(s, answer) == [store |-> s, says |-> answer]
Word(n) == <<"zero", "one", "two", "three", "four">>[n + 1]
OneIf(condition, yes, no) == IF condition THEN yes ELSE no

\* Whether the presented fields that differ from the bound ones go unnoticed.
Matches(d, c) == c.wrong \subseteq d
Expired(d, r, at) == "late" \notin d /\ r.due <= at

Create(d, s, c) ==
  Says(With(s, c.key, [Record(c.of, c.n, c.due) EXCEPT !.epoch = c.epoch]), "created")

-----------------------------------------------------------------------------
(* Single-use records: login challenges, WebAuthn challenges, OAuth          *)
(* transactions, connect tokens, step-up grants and recovery codes.          *)

\* The ports whose reference pops the record before it compares the fields.
BurnsMismatch == {"mfaLogin", "webauthn", "stepUp"}

BurntIfGot(p, d, s, c) == Matches(d, c) /\ "replays" \notin d
Burnt(p, d, s, c) ==
  IF Expired(d, s[c.key], c.at) THEN "lingers" \notin d
  ELSE IF Matches(d, c) THEN "replays" \notin d
  ELSE (p \in BurnsMismatch) # ("misburns" \in d)

Consume(p, d, s, c) ==
  LET present == c.key \in DOMAIN s
      won == present /\ Matches(d, c) /\ ~Expired(d, s[c.key], c.at)
  IN Says(IF present /\ Burnt(p, d, s, c) THEN Without(s, {c.key}) ELSE s,
          OneIf(won, "got", "nothing"))

-----------------------------------------------------------------------------
(* Compare and set: TOTP counters, passkey versions, password hashes,        *)
(* security epochs, rate-limit buckets.                                      *)

AdvanceCounter(d, s, c) ==
  LET won == \/ s[c.key].n < c.n
             \/ "blind" \in d
             \/ "equal" \in d /\ s[c.key].n = c.n
  IN Says(IF won THEN [s EXCEPT ![c.key].n = c.n] ELSE s, OneIf(won, "won", "lost"))

RecordAssertion(d, s, c) ==
  IF s[c.key].n # c.n /\ "blind" \notin d THEN Says(s, "conflict")
  ELSE Says([s EXCEPT ![c.key].n = IF "unversioned" \in d THEN @ ELSE @ + 1,
                      ![c.key].st = IF c.cloned /\ "unmarked" \notin d THEN "suspect" ELSE @],
            OneIf(c.cloned, "cloneRisk", "recorded"))

ReplacePassword(d, s, c) ==
  LET won == s[c.key].of = c.from \/ "blind" \in d
  IN Says(IF won THEN [s EXCEPT ![c.key].of = c.to] ELSE s, OneIf(won, "won", "lost"))

BumpEpoch(d, s, c) ==
  LET won == s[c.key].n = c.n \/ "stale" \in d
  IN Says(IF won THEN [s EXCEPT ![c.key].of = c.to, ![c.key].n = @ + 1] ELSE s,
          OneIf(won, "changed", "conflict"))

\* The limit a limiter is made with.
Limit == 2
AcquirePermit(d, s, c) ==
  LET won == s[c.key].n < Limit + OneIf("equal" \in d, 1, 0)
  IN Says([s EXCEPT ![c.key].n = IF won THEN @ + 1 ELSE @], OneIf(won, "allowed", "refused"))

-----------------------------------------------------------------------------
(* Replacement of one record by a successor: API keys and sessions.          *)

\* A loser of the race leaves its successor behind in a store that writes it
\* before it checks.
Replaced(d, s, c, retired) ==
  LET won == c.key \in DOMAIN s /\ s[c.key].st = "live" /\ c.to \notin DOMAIN s
      successor == Record(IF c.key \in DOMAIN s THEN s[c.key].of ELSE c.of, 0, 2)
  IN IF won THEN Says(With(IF "replays" \in d THEN s ELSE retired, c.to, successor), "won")
     ELSE Says(IF "partial" \in d THEN With(s, c.to, successor) ELSE s, "lost")

\* "lost" is here what the contract asks for, an exception.
RotateKey(d, s, c) ==
  LET rotated == Replaced(d, s, c, [s EXCEPT ![c.key].st = "revoked"])
  IN IF "silent" \in d THEN [rotated EXCEPT !.says = "won"] ELSE rotated
Rebind(d, s, c) == Replaced(d, s, c, Without(s, {c.key}))

GetSession(d, s, c) ==
  Says(s, OneIf(c.key \in DOMAIN s /\ ~Expired(d, s[c.key], 0), "got", "nothing"))

RevokeSession(d, s, c) ==
  LET won == c.key \in DOMAIN s /\ (s[c.key].of = c.of \/ "account" \in d)
  IN Says(IF won THEN Without(s, {c.key}) ELSE s, OneIf(won, "true", "false"))

RevokeOthers(d, s, c) ==
  LET gone == {k \in DOMAIN s : /\ s[k].of = c.of \/ "account" \in d
                                /\ k \notin c.keep \/ "sweeps" \in d}
  IN Says(Without(s, IF "spares" \in d THEN {} ELSE gone), "done")

-----------------------------------------------------------------------------
(* OIDC logout: two mappings of one provider session, one of another         *)
(* subject's session with that provider, and a browser binding.              *)

Mappings == {"m1", "m2", "m3"}

\* The fields in which the third differs from the other two.
Unrelated == {"subject", "session"}
Differs(k, compared, wrong) == IF k = "m3" THEN SymDiff(Unrelated \cap compared, wrong) ELSE wrong
Revocable(d, s, compared, wrong) ==
  {k \in Mappings : s[k].st = "live" /\ ("sweeps" \in d \/ Differs(k, compared, wrong) \subseteq d)}
RevokeMappings(d, s, gone) ==
  [k \in DOMAIN s |-> IF k \in gone /\ "leaves" \notin d THEN [s[k] EXCEPT !.st = "revoked"] ELSE s[k]]

Backchannel(d, s, c) ==
  IF c.key \in DOMAIN s THEN Says(s, "nothing")
  ELSE LET gone == Revocable(d, s, Unrelated, c.wrong)
           left == RevokeMappings(d, s, gone)
       IN Says(IF "replays" \in d THEN left ELSE With(left, c.key, Record("token", 0, 2)),
               Word(Cardinality(gone)))

Frontchannel(d, s, c) ==
  IF "binding" \notin DOMAIN s \/ ~Matches(d, c) THEN Says(s, "nothing")
  ELSE LET gone == Revocable(d, s, {"session"}, {})
           left == RevokeMappings(d, s, gone)
       IN Says(IF "rebinds" \in d THEN left ELSE Without(left, {"binding"}), Word(Cardinality(gone)))

-----------------------------------------------------------------------------
(* Login methods and linked provider accounts.                               *)

RemoveMethod(d, s, c) ==
  IF c.key \notin DOMAIN s \/ (s[c.key].of # c.of /\ "account" \notin d) THEN Says(s, "notFound")
  ELSE IF Cardinality({k \in DOMAIN s : s[k].of = s[c.key].of}) = 1 /\ "final" \notin d THEN Says(s, "final")
  ELSE Says(IF "replays" \in d THEN s ELSE Without(s, {c.key}), "removed")

-----------------------------------------------------------------------------
(* Local accounts: registration, verification and recovery.                  *)

Register(d, s, c) ==
  LET issued(t) == IF c.ver = "none" THEN t ELSE With(t, c.ver, Record(c.key, c.n, 1))
      spent(t) == Without(t, IF "reusable" \in d THEN {} ELSE {c.inv})
  IN IF c.key \in DOMAIN s /\ "blind" \notin d
     THEN Says(IF "partial" \in d THEN issued(spent(s)) ELSE s, "duplicate")
     ELSE IF c.inv \notin DOMAIN s \cup {"none"} THEN Says(s, "invalidInvitation")
     ELSE Says(issued(spent(With(s, c.key, [Record("password", 1, 2) EXCEPT
                      !.st = IF c.ver = "none" THEN "verified" ELSE "unverified"]))), "registered")

\* A wrong secret costs the token an attempt; the last one burns it.
WrongSecret(d, s, k) ==
  [s EXCEPT ![k].n = IF "unburnt" \in d THEN @ ELSE @ - 1,
            ![k].st = IF s[k].n = 1 /\ "unburnt" \notin d THEN "used" ELSE @]

TokenRefused(d, s, c) ==
  IF c.key \notin DOMAIN s THEN Says(s, "invalid")
  ELSE IF s[c.key].st = "used" THEN Says(s, "used")
  ELSE IF ~Matches(d, c) THEN Says(WrongSecret(d, s, c.key), "invalid")
  ELSE IF Expired(d, s[c.key], c.at) THEN Says(s, "expired")
  ELSE Says(s, "accepted")
Used(d, s, k) == [s EXCEPT ![k].st = IF "replays" \in d THEN @ ELSE "used"]

Verify(d, s, c) ==
  LET checked == TokenRefused(d, s, c)
  IN IF checked.says # "accepted" THEN checked
     ELSE Says([Used(d, s, c.key) EXCEPT ![s[c.key].of].st = "verified"], "consumed")

Reset(d, s, c) ==
  LET checked == TokenRefused(d, s, c)
      owner == s[c.key].of
  IN IF checked.says # "accepted" THEN checked
     ELSE IF s[c.key].epoch # s[owner].n /\ "stale" \notin d THEN Says(s, "conflict")
     ELSE Says([Used(d, s, c.key) EXCEPT ![owner].n = @ + 1, ![owner].of = c.to], "reset")

-----------------------------------------------------------------------------
(* Refresh families: the account is the record "owner", a token's family is  *)
(* what it belongs to.                                                       *)

FamilyTokens(s, family) == {k \in DOMAIN s : s[k].of = family}
RevokedFamily(s, family) ==
  [k \in DOMAIN s |-> IF s[k].of = family THEN [s[k] EXCEPT !.st = "revoked"] ELSE s[k]]

CreateFamily(d, s, c) ==
  LET won == \/ "collides" \in d
             \/ c.key \notin DOMAIN s /\ FamilyTokens(s, c.of) = {} /\ s["owner"].n = c.n
  IN Says(IF won THEN With(s, c.key, [Record(c.of, 0, c.due) EXCEPT !.epoch = c.n]) ELSE s, OneIf(won, "true", "false"))

Prepare(d, s, c) ==
  IF c.key \notin DOMAIN s \/ ~Matches(d, c) THEN Says(s, "invalid")
  ELSE LET r == s[c.key]
       IN IF r.st = "revoked" THEN Says(s, "revoked")
          ELSE IF r.st = "consumed"
               THEN IF r.by = c.by /\ r.by # "none" THEN Says(s, "receipt")
                    ELSE Says(IF "lenient" \in d THEN s ELSE RevokedFamily(s, r.of), "replay")
          ELSE IF Expired(d, r, c.at) THEN Says(s, "expired")
          ELSE IF r.epoch # s["owner"].n /\ "stale" \notin d THEN Says(s, "epochMismatch")
          ELSE Says(s, "context")

Rotate(d, s, c) ==
  LET r == s[c.key]
      valid == r.st = "live" /\ c.to \notin DOMAIN s /\ (r.epoch = s["owner"].n \/ "stale" \in d)
      successor == [Record(r.of, 0, 2) EXCEPT !.epoch = r.epoch]
      kept == IF "partial" \in d THEN With(s, c.to, successor) ELSE s
      consumed == [s EXCEPT ![c.key].st = IF "replays" \in d THEN @ ELSE "consumed",
                            ![c.key].by = IF "forgets" \in d THEN @ ELSE c.by]
  IN IF ~valid THEN Says(kept, "invalid")
     ELSE IF Expired(d, r, c.at) THEN Says(kept, "expired")
     ELSE Says(With(consumed, c.to, successor), "rotated")

RevokeOwnToken(d, s, c) ==
  LET won == c.key \in DOMAIN s /\ Matches(d, c)
  IN Says(IF won THEN RevokedFamily(s, s[c.key].of) ELSE s, OneIf(won, "true", "false"))

-----------------------------------------------------------------------------
(* Protectors of OAuth transaction and MFA secrets.                          *)

Protect(d, s, c) ==
  Says(With(s, c.key, Record("secret", IF "repeats" \in d THEN 0 ELSE Cardinality(DOMAIN s), 2)), "created")
Unprotect(d, s, c) == Says(s, OneIf(Matches(d, c), "got", "nothing"))

-----------------------------------------------------------------------------
\* What a record shows: its state, its number, its password or family.
ReadState(s, c) == Says(s, IF c.key \in DOMAIN s THEN s[c.key].st ELSE "nothing")
ReadNumber(s, c) == Says(s, Word(s[c.key].n))
ReadOf(s, c) == Says(s, s[c.key].of)

Call(p, d, s, c) ==
  CASE c.op = "create" -> Create(d, s, c)
    [] c.op = "consume" -> Consume(p, d, s, c)
    [] c.op = "advance" -> AdvanceCounter(d, s, c)
    [] c.op = "record" -> RecordAssertion(d, s, c)
    [] c.op = "replacePassword" -> ReplacePassword(d, s, c)
    [] c.op = "bump" -> BumpEpoch(d, s, c)
    [] c.op = "acquire" -> AcquirePermit(d, s, c)
    [] c.op = "rotateKey" -> RotateKey(d, s, c)
    [] c.op = "rebind" -> Rebind(d, s, c)
    [] c.op = "get" -> GetSession(d, s, c)
    [] c.op = "revokeSession" -> RevokeSession(d, s, c)
    [] c.op = "revokeOthers" -> RevokeOthers(d, s, c)
    [] c.op = "back" -> Backchannel(d, s, c)
    [] c.op = "front" -> Frontchannel(d, s, c)
    [] c.op = "removeMethod" -> RemoveMethod(d, s, c)
    [] c.op = "register" -> Register(d, s, c)
    [] c.op = "verify" -> Verify(d, s, c)
    [] c.op = "reset" -> Reset(d, s, c)
    [] c.op = "createFamily" -> CreateFamily(d, s, c)
    [] c.op = "prepare" -> Prepare(d, s, c)
    [] c.op = "rotate" -> Rotate(d, s, c)
    [] c.op = "revokeToken" -> RevokeOwnToken(d, s, c)
    [] c.op = "protect" -> Protect(d, s, c)
    [] c.op = "unprotect" -> Unprotect(d, s, c)
    [] c.op = "state" -> ReadState(s, c)
    [] c.op = "number" -> ReadNumber(s, c)
    [] c.op = "of" -> ReadOf(s, c)
=============================================================================
