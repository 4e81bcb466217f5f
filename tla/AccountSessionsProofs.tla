------------------------ MODULE AccountSessionsProofs ------------------------
(***************************************************************************)
(* Sessions of local accounts, for any number of accounts, coroutines,      *)
(* epochs, sessions and challenges: a current session was obtained with the *)
(* current password, a challenge opens one session, and what was withdrawn  *)
(* stays withdrawn.                                                         *)
(***************************************************************************)
EXTENDS AccountSessions, SequenceTheorems, TLAPS

\* The versions of an account's password and epoch move together.
AccountsOK == \A a \in Accounts : account[a].password = account[a].epoch

\* What is stored is as good as the password it was obtained with, and never
\* ahead of its account.
RecordsOK ==
  /\ \A s \in DOMAIN sessions :
       /\ sessions[s].proved = sessions[s].epoch
       /\ sessions[s].epoch <= account[sessions[s].account].epoch
  /\ \A c \in DOMAIN challenges : challenges[c].proved = challenges[c].epoch

\* What a coroutine has found out and no other can undo while it waits.
Knows(q) ==
  /\ q.via \in {0} \cup DOMAIN challenges
  /\ q.via # 0 => q.at \in {"consume", "factor", "rebind", "create"}
  /\ q.at = "consume" => q.via # 0
  /\ q.epoch <= account[q.account].epoch
  /\ q.at \in {"challenge", "factor", "rebind", "create", "revoke_others", "rebind_changed"} =>
       q.epoch > 0 /\ q.proved = q.epoch
  /\ q.at = "rehash" => q.proof > 0 /\ q.proved = q.proof
  /\ q.at \in {"account", "epoch"} =>
       /\ q.sid \in DOMAIN sessions /\ sessions[q.sid].account = q.account
       /\ q.current \/ sessions[q.sid].epoch < account[q.account].epoch
  /\ q.at \in {"touch", "accepted"} => q.current

\* A consumed challenge is in the hands of the coroutine that consumed it
\* until that coroutine's session exists.
Holds(q, c) == c # 0 /\ q.via = c /\ q.at \in {"factor", "rebind", "create"}

ChallengesOK ==
  /\ ChallengesAreSpentOnce
  /\ \A s \in DOMAIN sessions : sessions[s].via # 0 => sessions[s].via \in DOMAIN challenges \ open
  /\ \A r \in Requests, c \in DOMAIN challenges : Holds(request[r], c) =>
       /\ c \notin open
       /\ \A s \in DOMAIN sessions : sessions[s].via # c
       /\ \A o \in Requests : Holds(request[o], c) => o = r

SessionsTyped ==
  TypeOK /\ Len(sessions) <= MaxSessions /\ Len(challenges) <= MaxChallenges

SessionsInv ==
  /\ SessionsTyped /\ AccountsOK /\ RecordsOK /\ ChallengesOK
  /\ \A r \in Requests : Knows(request[r])

-----------------------------------------------------------------------------
(* Tables, and what stays true of a coroutine that waits *)

LEMMA Tables ==
  ASSUME SessionsTyped
  PROVE  /\ Len(sessions) \in Nat /\ DOMAIN sessions = 1..Len(sessions)
         /\ \A s \in DOMAIN sessions : sessions[s] \in SessionRecord
         /\ Len(challenges) \in Nat /\ DOMAIN challenges = 1..Len(challenges)
         /\ \A c \in DOMAIN challenges : challenges[c] \in Challenge
         /\ 0 \notin DOMAIN challenges /\ NoSession \notin DOMAIN sessions
<1>1. sessions \in Seq(SessionRecord) /\ challenges \in Seq(Challenge)
  BY DEF SessionsTyped, TypeOK
<1>2. /\ Len(sessions) \in Nat /\ DOMAIN sessions = 1..Len(sessions)
      /\ Len(challenges) \in Nat /\ DOMAIN challenges = 1..Len(challenges)
  BY <1>1, LenProperties
<1>3. /\ \A s \in DOMAIN sessions : sessions[s] \in SessionRecord
      /\ \A c \in DOMAIN challenges : challenges[c] \in Challenge
  BY <1>1, <1>2, ElementOfSeq
<1>. QED BY <1>2, <1>3 DEF NoSession

LEMMA IdleKnows ==
  /\ Idle \in Coroutine
  /\ SessionsTyped => Knows(Idle) /\ \A c : ~Holds(Idle, c)
<1>1. Idle \in Coroutine
  BY BoundsAssumption DEF Idle, Coroutine, Points, NoSession
<1>2. ASSUME SessionsTyped PROVE Knows(Idle) /\ \A c : ~Holds(Idle, c)
  <2>1. (CHOOSE a \in Accounts : TRUE) \in Accounts
    BY BoundsAssumption
  <2>2. 0 <= account[CHOOSE a \in Accounts : TRUE].epoch
    BY <1>2, <2>1, BoundsAssumption DEF SessionsTyped, TypeOK, AccountState
  <2>. QED BY <2>2 DEF Idle, Knows, Holds
<1>. QED BY <1>1, <1>2

\* Epochs only rise and tables only grow.
Grows ==
  /\ \A a \in Accounts : account'[a].epoch >= account[a].epoch
  /\ \A s \in DOMAIN sessions : s \in DOMAIN sessions' /\ sessions'[s] = sessions[s]
  /\ \A c \in DOMAIN challenges : c \in DOMAIN challenges' /\ challenges'[c] = challenges[c]

LEMMA Epochs ==
  ASSUME SessionsTyped
  PROVE  \A a \in Accounts : /\ account[a] \in AccountState /\ account[a].epoch \in Nat \ {0}
                             /\ account[a].epoch \in 1..MaxEpoch
BY BoundsAssumption DEF SessionsTyped, TypeOK, AccountState

LEMMA KnowsKept ==
  ASSUME SessionsTyped, SessionsTyped', Grows, NEW q \in Coroutine, Knows(q)
  PROVE  Knows(q)'
<1>1. q.account \in Accounts /\ q.epoch \in Nat
  BY BoundsAssumption DEF Coroutine
<1>2. account[q.account].epoch \in Nat /\ account'[q.account].epoch \in Nat
      /\ account'[q.account].epoch >= account[q.account].epoch
  BY <1>1, Epochs, BoundsAssumption DEF Grows, SessionsTyped, TypeOK, AccountState
<1>3. q.epoch <= account'[q.account].epoch
  BY <1>1, <1>2 DEF Knows
<1>4. q.at \in {"account", "epoch"} =>
        /\ q.sid \in DOMAIN sessions' /\ sessions'[q.sid].account = q.account
        /\ q.current \/ sessions'[q.sid].epoch < account'[q.account].epoch
  <2>1. \A s \in DOMAIN sessions : sessions[s].epoch \in Nat
    BY Tables, BoundsAssumption DEF SessionRecord
  <2>. QED BY <1>2, <2>1 DEF Knows, Grows
<1>. QED BY <1>3, <1>4 DEF Knows, Grows

LEMMA OthersKnow ==
  ASSUME SessionsInv, SessionsTyped', Grows, NEW r \in Requests, NEW q \in Coroutine,
         Continue(r, q), Knows(q)'
  PROVE  \A o \in Requests : Knows(request[o])'
<1>. SUFFICES ASSUME NEW o \in Requests PROVE Knows(request[o])'
  OBVIOUS
<1>1. request \in [Requests -> Coroutine] /\ Knows(request[o])
  BY DEF SessionsInv, SessionsTyped, TypeOK
<1>2. CASE o = r
  <2>1. request'[o] = q
    BY <1>1, <1>2 DEF Continue
  <2>. QED BY <2>1
<1>3. CASE o # r
  <2>1. request'[o] = request[o] /\ request[o] \in Coroutine
    BY <1>1, <1>3 DEF Continue
  <2>2. PICK p \in Coroutine : p = request[o]
    BY <2>1
  <2>3. Knows(p)'
    BY <1>1, <2>2, KnowsKept DEF SessionsInv
  <2>. QED BY <2>1, <2>2, <2>3
<1>. QED BY <1>2, <1>3

LEMMA StoredKept ==
  ASSUME SessionsInv, SessionsTyped', Grows, DOMAIN sessions' = DOMAIN sessions,
         DOMAIN challenges' = DOMAIN challenges
  PROVE  RecordsOK'
<1>1. \A s \in DOMAIN sessions : sessions[s].epoch \in Nat /\ sessions[s].account \in Accounts
  BY Tables, BoundsAssumption DEF SessionsInv, SessionRecord
<1>2. \A a \in Accounts : account[a].epoch \in Nat
  BY Epochs DEF SessionsInv
<1>3. \A a \in Accounts : account'[a].epoch \in Nat
  BY BoundsAssumption DEF SessionsTyped, TypeOK, AccountState
<1>. QED BY <1>1, <1>2, <1>3 DEF SessionsInv, RecordsOK, Grows

\* Most steps create nothing and move one coroutine.
LEMMA Moves ==
  ASSUME SessionsInv, UNCHANGED <<sessions, challenges, open>>, live' \subseteq live,
         account' \in [Accounts -> AccountState], AccountsOK',
         \A a \in Accounts : account'[a].epoch >= account[a].epoch,
         NEW r \in Requests, NEW q \in Coroutine, Continue(r, q), Knows(q)',
         \A c : Holds(q, c) => Holds(request[r], c)
  PROVE  SessionsInv'
<1>1. SessionsTyped' /\ Grows
  BY DEF SessionsInv, SessionsTyped, TypeOK, Continue, Grows
<1>2. RecordsOK' /\ \A o \in Requests : Knows(request[o])'
  BY <1>1, StoredKept, OthersKnow
<1>3. \A o \in Requests, c \in DOMAIN challenges : Holds(request'[o], c) => Holds(request[o], c)
  BY DEF SessionsInv, SessionsTyped, TypeOK, Continue
<1>4. ChallengesOK'
  BY <1>3 DEF SessionsInv, ChallengesOK, ChallengesAreSpentOnce, Holds
<1>. QED BY <1>1, <1>2, <1>4 DEF SessionsInv

LEMMA StaysIdle ==
  ASSUME SessionsInv, UNCHANGED <<account, sessions, challenges, open>>, live' \subseteq live,
         NEW r \in Requests, NEW q \in Coroutine, Continue(r, q), Knows(q),
         \A c : Holds(q, c) => Holds(request[r], c)
  PROVE  SessionsInv'
<1>1. Knows(q)' /\ AccountsOK'
  BY DEF Knows, SessionsInv, AccountsOK
<1>2. \A a \in Accounts : account'[a].epoch >= account[a].epoch
  BY Epochs DEF SessionsInv
<1>. QED BY <1>1, <1>2, Moves DEF SessionsInv, SessionsTyped, TypeOK

LEMMA Ends ==
  ASSUME SessionsInv, UNCHANGED <<account, sessions, challenges, open>>, live' \subseteq live,
         NEW r \in Requests, Continue(r, Idle)
  PROVE  SessionsInv'
BY IdleKnows, StaysIdle DEF SessionsInv

LEMMA Local ==
  ASSUME SessionsInv, NEW r \in Requests
  PROVE  /\ request[r] \in Coroutine /\ Knows(request[r])
         /\ request[r].account \in Accounts
         /\ EpochOf(r) \in 1..MaxEpoch /\ EpochOf(r) = account[request[r].account].epoch
<1>1. request[r] \in Coroutine /\ Knows(request[r])
  BY DEF SessionsInv, SessionsTyped, TypeOK
<1>2. request[r].account \in Accounts
  BY <1>1 DEF Coroutine
<1>. QED BY <1>1, <1>2, Epochs DEF SessionsInv, EpochOf

-----------------------------------------------------------------------------
(* The proof of a password *)

LEMMA FindForLoginStep ==
  ASSUME SessionsInv, NEW r \in Requests, FindForLogin(r) PROVE SessionsInv'
<1>0. PICK a \in Accounts, s \in 0..Len(sessions) :
        Continue(r, [Idle EXCEPT !.at = "read", !.account = a, !.sid = s,
                                 !.epoch = account[a].epoch])
  BY DEF FindForLogin
<1>1. PICK e \in 0..MaxEpoch : e = account[a].epoch
  BY Epochs DEF SessionsInv
<1>. PICK p : p = [Idle EXCEPT !.at = "read", !.account = a, !.sid = s, !.epoch = e]
  OBVIOUS
<1>2. s \in 0..MaxSessions
  BY Tables, BoundsAssumption DEF SessionsInv, SessionsTyped
<1>3. p \in Coroutine /\ p.at = "read" /\ p.account = a /\ p.epoch = e /\ p.via = 0
  <2>1. Idle \in Coroutine /\ Idle.via = 0
    BY IdleKnows DEF Idle
  <2>. QED BY <1>2, <2>1 DEF Coroutine, Points
<1>4. Knows(p) /\ \A c : ~Holds(p, c)
  BY <1>1, <1>3 DEF Knows, Holds
<1>. QED BY <1>0, <1>1, <1>3, <1>4, StaysIdle DEF FindForLogin

\* A coroutine whose proof is the current password goes on, or is over.
LEMMA ProvenKnows ==
  ASSUME SessionsInv, NEW q \in Coroutine, q.via = 0, q.epoch <= account[q.account].epoch,
         q.proof > 0, q.proved = q.proof, NEW next \in Proven(q)
  PROVE  next \in Coroutine /\ Knows(next) /\ \A c : ~Holds(next, c)
<1>1. CASE next = Idle
  BY <1>1, IdleKnows DEF SessionsInv
<1>2. CASE next # Idle
  <2>1. PICK at \in {"prepare", "replace", "challenge", "create", "rebind"}, keep \in BOOLEAN :
          /\ next = [q EXCEPT !.at = at, !.keep = keep]
          /\ at \in {"challenge", "create", "rebind"} => q.proof = q.epoch
    <3>1. q.keep \in BOOLEAN /\ \A at : [q EXCEPT !.at = at] = [q EXCEPT !.at = at, !.keep = q.keep]
      BY DEF Coroutine
    <3>. QED BY <1>2, <3>1 DEF Proven
  <2>2. /\ next \in Coroutine /\ next.at = at /\ next.via = 0 /\ next.epoch = q.epoch
        /\ next.account = q.account /\ next.proved = q.proved
    BY <2>1, ZenonT(60) DEF Coroutine, Points
  <2>. QED BY <2>1, <2>2 DEF Knows, Holds
<1>. QED BY <1>1, <1>2

LEMMA ReadPasswordStep ==
  ASSUME SessionsInv, NEW r \in Requests, ReadPassword(r) PROVE SessionsInv'
<1>1. PICK q \in Coroutine : q = request[r]
  BY Local
<1>2. Knows(q) /\ q.at = "read" /\ q.via = 0 /\ q.epoch <= account[q.account].epoch
      /\ q.account \in Accounts
  BY <1>1, Local DEF ReadPassword, At, Knows
<1>3. PICK e \in 0..MaxEpoch : /\ e = account[q.account].epoch /\ e = account[q.account].password
                               /\ e > 0
  BY <1>2, Epochs DEF SessionsInv, AccountsOK
<1>. PICK p : p = [q EXCEPT !.proof = e, !.proved = e]
  OBVIOUS
<1>4. /\ p \in Coroutine /\ p.via = 0 /\ p.epoch = q.epoch /\ p.account = q.account
      /\ p.proof = e /\ p.proved = e
  BY <1>2 DEF Coroutine
<1>5. CASE \E next \in Proven(p) : Continue(r, next)
  <2>1. PICK next \in Proven(p) : Continue(r, next)
    BY <1>5
  <2>2. next \in Coroutine /\ Knows(next) /\ \A c : ~Holds(next, c)
    BY <1>2, <1>3, <1>4, ProvenKnows
  <2>. QED BY <2>1, <2>2, StaysIdle DEF ReadPassword
<1>6. CASE Continue(r, [p EXCEPT !.at = "rehash"])
  <2>. PICK n : n = [p EXCEPT !.at = "rehash"]
    OBVIOUS
  <2>1. /\ n \in Coroutine /\ n.at = "rehash" /\ n.via = 0 /\ n.epoch = q.epoch
        /\ n.account = q.account /\ n.proof = e /\ n.proved = e
    <3>1. "rehash" \in Points
      BY DEF Points
    <3>. QED BY <1>4, <3>1 DEF Coroutine
  <2>2. Knows(n) /\ \A c : ~Holds(n, c)
    BY <1>2, <1>3, <2>1 DEF Knows, Holds
  <2>. QED BY <1>6, <2>1, <2>2, StaysIdle DEF ReadPassword
<1>. QED BY <1>1, <1>3, <1>5, <1>6 DEF ReadPassword

LEMMA RehashStep ==
  ASSUME SessionsInv, NEW r \in Requests, Rehash(r) PROVE SessionsInv'
<1>1. PICK q \in Coroutine : q = request[r]
  BY Local
<1>2. /\ Knows(q) /\ q.at = "rehash" /\ q.via = 0 /\ q.proof > 0 /\ q.proved = q.proof
      /\ q.epoch <= account[q.account].epoch /\ q.account \in Accounts
  BY <1>1, Local DEF Rehash, At, Knows
<1>3. UNCHANGED <<sessions, live, challenges, open>>
  BY DEF Rehash
<1>4. CASE account' = [account EXCEPT ![q.account].fresh = TRUE]
           /\ \E next \in Proven(q) : Continue(r, next)
  <2>1. PICK next \in Proven(q) : Continue(r, next)
    BY <1>4
  <2>2. next \in Coroutine /\ Knows(next) /\ \A c : ~Holds(next, c)
    BY <1>2, ProvenKnows
  <2>3. account \in [Accounts -> AccountState]
    BY DEF SessionsInv, SessionsTyped, TypeOK
  <2>4. /\ account' \in [Accounts -> AccountState]
        /\ \A a \in Accounts : /\ account'[a].epoch = account[a].epoch
                               /\ account'[a].password = account[a].password
    BY <1>2, <1>4, <2>3 DEF AccountState
  <2>5. AccountsOK' /\ \A a \in Accounts : account'[a].epoch >= account[a].epoch
    BY <2>4, Epochs DEF SessionsInv, AccountsOK
  <2>6. Knows(next)'
    <3>1. next.account \in Accounts
      BY <2>2 DEF Coroutine
    <3>. QED BY <1>3, <2>2, <2>4, <3>1 DEF Knows
  <2>. QED BY <1>3, <2>1, <2>2, <2>4, <2>5, <2>6, Moves
<1>5. CASE Continue(r, Idle) /\ UNCHANGED account
  BY <1>3, <1>5, Ends
<1>. QED BY <1>1, <1>4, <1>5 DEF Rehash

\* A coroutine goes on with what it knows.
LEMMA GoesOn ==
  ASSUME SessionsInv, UNCHANGED <<account, sessions, challenges, open>>, live' \subseteq live,
         NEW r \in Requests, NEW q \in Coroutine, q = request[r],
         NEW at \in Points \ {"consume", "rehash", "account", "epoch"},
         Continue(r, [q EXCEPT !.at = at]),
         q.via # 0 => at \in {"rebind", "create"} /\ q.at \in {"factor", "rebind", "create"},
         at \in {"challenge", "factor", "rebind", "create", "revoke_others", "rebind_changed"} =>
           q.epoch > 0 /\ q.proved = q.epoch,
         at \in {"touch", "accepted"} => q.current
  PROVE  SessionsInv'
<1>. PICK p : p = [q EXCEPT !.at = at]
  OBVIOUS
<1>1. p \in Coroutine /\ p.at = at
  BY DEF Coroutine
<1>2. /\ p.via = q.via /\ p.epoch = q.epoch /\ p.proved = q.proved /\ p.account = q.account
      /\ p.current = q.current
  BY DEF Coroutine
<1>3. Knows(q)
  BY Local
<1>4. Knows(p)
  BY <1>1, <1>2, <1>3 DEF Knows
<1>5. \A c : Holds(p, c) => Holds(q, c)
  BY <1>1, <1>2 DEF Holds
<1>. QED BY <1>1, <1>4, <1>5, StaysIdle

-----------------------------------------------------------------------------
(* The second factor *)

LEMMA IssueChallengeStep ==
  ASSUME SessionsInv, NEW r \in Requests, IssueChallenge(r) PROVE SessionsInv'
<1>1. PICK q \in Coroutine : q = request[r]
  BY Local
<1>2. /\ Knows(q) /\ q.at = "challenge" /\ q.epoch > 0 /\ q.proved = q.epoch /\ q.via = 0
      /\ q.account \in Accounts
  BY <1>1, Local DEF IssueChallenge, At, Knows
<1>. PICK c : c = [account |-> q.account, epoch |-> q.epoch, proved |-> q.proved]
  OBVIOUS
<1>3. c \in Challenge /\ c.proved = c.epoch
  BY <1>2, BoundsAssumption DEF Challenge, Coroutine
<1>. DEFINE n == Len(challenges) + 1
<1>4. /\ challenges \in Seq(Challenge) /\ Len(challenges) \in Nat /\ Len(challenges) < MaxChallenges
      /\ DOMAIN challenges = 1..Len(challenges) /\ challenges' = Append(challenges, c)
  BY <1>1, Tables DEF IssueChallenge, SessionsInv, SessionsTyped, TypeOK
<1>5. /\ challenges' \in Seq(Challenge) /\ Len(challenges') = n
      /\ \A i \in 1..Len(challenges) : challenges'[i] = challenges[i]
      /\ challenges'[n] = c /\ DOMAIN challenges' = 1..n
  BY <1>3, <1>4, AppendProperties, LenProperties
<1>6. /\ DOMAIN challenges' = DOMAIN challenges \cup {n} /\ n \notin DOMAIN challenges /\ n # 0
      /\ Len(challenges') <= MaxChallenges
  BY <1>4, <1>5, BoundsAssumption
<1>7. UNCHANGED <<account, sessions, live>> /\ open' = open \cup {n} /\ Continue(r, Idle)
  BY <1>5 DEF IssueChallenge
<1>. HIDE DEF n
<1>8. SessionsTyped'
  BY <1>5, <1>6, <1>7, IdleKnows DEF SessionsInv, SessionsTyped, TypeOK, Continue
<1>9. Grows
  BY <1>4, <1>5, <1>6, <1>7, Epochs DEF SessionsInv, Grows
<1>10. Knows(Idle)'
  <2>1. Knows(Idle)
    BY IdleKnows DEF SessionsInv
  <2>. QED BY <1>8, <1>9, <2>1, IdleKnows, KnowsKept DEF SessionsInv
<1>11. RecordsOK' /\ AccountsOK'
  BY <1>3, <1>4, <1>5, <1>6, <1>7 DEF SessionsInv, RecordsOK, AccountsOK
<1>12. \A o \in Requests, d \in DOMAIN challenges' :
         Holds(request'[o], d) => d \in DOMAIN challenges /\ Holds(request[o], d)
  <2>1. SUFFICES ASSUME NEW o \in Requests, NEW d \in DOMAIN challenges', Holds(request'[o], d)
                 PROVE  d \in DOMAIN challenges /\ Holds(request[o], d)
    OBVIOUS
  <2>2. o # r /\ request'[o] = request[o]
    BY <1>7, <2>1, IdleKnows DEF SessionsInv, SessionsTyped, TypeOK, Continue
  <2>3. request[o].via \in {0} \cup DOMAIN challenges
    BY DEF SessionsInv, Knows
  <2>. QED BY <2>1, <2>2, <2>3 DEF Holds
<1>13. ChallengesOK'
  BY <1>6, <1>7, <1>12 DEF SessionsInv, ChallengesOK, ChallengesAreSpentOnce
<1>14. \A o \in Requests : Knows(request[o])'
  BY <1>7, <1>8, <1>9, <1>10, IdleKnows, OthersKnow
<1>. QED BY <1>8, <1>11, <1>13, <1>14 DEF SessionsInv

LEMMA BeginSecondFactorStep ==
  ASSUME SessionsInv, NEW r \in Requests, BeginSecondFactor(r) PROVE SessionsInv'
<1>0. PICK c \in DOMAIN challenges, a \in Accounts, s \in 0..Len(sessions) :
        Continue(r, [Idle EXCEPT !.at = "consume", !.account = a, !.sid = s,
                                 !.epoch = account[a].epoch, !.via = c])
  BY DEF BeginSecondFactor
<1>1. PICK e \in 0..MaxEpoch : e = account[a].epoch
  BY Epochs DEF SessionsInv
<1>. PICK p : p = [Idle EXCEPT !.at = "consume", !.account = a, !.sid = s, !.epoch = e, !.via = c]
  OBVIOUS
<1>2. s \in 0..MaxSessions /\ c \in 0..MaxChallenges /\ c # 0
  BY Tables, BoundsAssumption DEF SessionsInv, SessionsTyped
<1>3. p \in Coroutine /\ p.at = "consume" /\ p.account = a /\ p.epoch = e /\ p.via = c
  BY <1>2, IdleKnows DEF Coroutine, Points
<1>4. Knows(p) /\ \A d : ~Holds(p, d)
  BY <1>1, <1>2, <1>3 DEF Knows, Holds
<1>. QED BY <1>0, <1>1, <1>3, <1>4, StaysIdle DEF BeginSecondFactor

LEMMA ConsumeChallengeStep ==
  ASSUME SessionsInv, NEW r \in Requests, ConsumeChallenge(r) PROVE SessionsInv'
<1>1. PICK q \in Coroutine : q = request[r]
  BY Local
<1>2. /\ Knows(q) /\ q.at = "consume" /\ q.via \in DOMAIN challenges /\ q.via # 0
      /\ q.account \in Accounts /\ q.epoch <= account[q.account].epoch
  BY <1>1, Local DEF ConsumeChallenge, At, Knows
<1>. PICK c : c = challenges[q.via]
  OBVIOUS
<1>3. c \in Challenge /\ c.proved = c.epoch
  BY <1>2, Tables DEF SessionsInv, RecordsOK
<1>4. UNCHANGED <<account, sessions, live, challenges>> /\ open' = open \ {q.via}
  BY <1>1 DEF ConsumeChallenge
<1>. PICK p : p = [q EXCEPT !.at = "factor", !.proved = c.proved]
  OBVIOUS
<1>5. /\ p \in Coroutine /\ p.at = "factor" /\ p.via = q.via /\ p.epoch = q.epoch
      /\ p.proved = c.proved /\ p.account = q.account
  <2>1. "factor" \in Points
    BY DEF Points
  <2>2. c.proved \in 0..MaxEpoch
    BY <1>3, BoundsAssumption DEF Challenge
  <2>. QED BY <2>1, <2>2 DEF Coroutine
<1>6. PICK next \in Coroutine :
        /\ Continue(r, next)
        /\ next = Idle \/ (next = p /\ q.via \in open /\ c.epoch = q.epoch)
  BY <1>1, <1>5, IdleKnows DEF ConsumeChallenge
<1>7. SessionsTyped' /\ Grows
  BY <1>4, <1>6, Epochs DEF SessionsInv, SessionsTyped, TypeOK, Continue, Grows
<1>8. Knows(next)'
  <2>1. CASE next = Idle
    BY <1>7, <2>1, IdleKnows, KnowsKept DEF SessionsInv
  <2>2. CASE next = p /\ c.epoch = q.epoch
    <3>1. c.epoch > 0
      BY <1>3, BoundsAssumption DEF Challenge
    <3>. QED BY <1>2, <1>3, <1>4, <1>5, <2>2, <3>1 DEF Knows
  <2>. QED BY <1>6, <2>1, <2>2
<1>9. RecordsOK' /\ AccountsOK' /\ \A o \in Requests : Knows(request[o])'
  BY <1>4, <1>6, <1>7, <1>8, StoredKept, OthersKnow DEF SessionsInv, AccountsOK
<1>10. \A o \in Requests, d \in DOMAIN challenges : Holds(request'[o], d) =>
         Holds(request[o], d) \/ (o = r /\ d = q.via /\ d \in open)
  <2>1. SUFFICES ASSUME NEW o \in Requests, NEW d \in DOMAIN challenges, Holds(request'[o], d)
                 PROVE  Holds(request[o], d) \/ (o = r /\ d = q.via /\ d \in open)
    OBVIOUS
  <2>2. CASE o = r
    <3>1. request'[o] = next
      BY <1>6, <2>2 DEF SessionsInv, SessionsTyped, TypeOK, Continue
    <3>2. next = p /\ q.via \in open
      BY <1>6, <2>1, <3>1, IdleKnows DEF SessionsInv
    <3>. QED BY <1>5, <2>1, <2>2, <3>1, <3>2 DEF Holds
  <2>3. CASE o # r
    BY <1>6, <2>1, <2>3 DEF SessionsInv, SessionsTyped, TypeOK, Continue
  <2>. QED BY <2>2, <2>3
<1>11. ChallengesOK'
  <2>1. ChallengesAreSpentOnce'
        /\ \A s \in DOMAIN sessions : sessions[s].via # 0 => sessions[s].via \in DOMAIN challenges \ open'
    BY <1>4 DEF SessionsInv, ChallengesOK, ChallengesAreSpentOnce
  <2>2. ASSUME NEW o \in Requests, NEW d \in DOMAIN challenges, Holds(request'[o], d)
        PROVE  /\ d \notin open' /\ \A s \in DOMAIN sessions : sessions[s].via # d
               /\ \A m \in Requests : Holds(request'[m], d) => m = o
    <3>1. d # 0
      BY <2>2 DEF Holds
    <3>. QED BY <1>4, <1>10, <2>2, <3>1 DEF SessionsInv, ChallengesOK
  <2>. QED BY <1>4, <2>1, <2>2 DEF ChallengesOK
<1>. QED BY <1>7, <1>9, <1>11 DEF SessionsInv

LEMMA VerifiedLoginStep ==
  ASSUME SessionsInv, NEW r \in Requests, VerifiedLogin(r) PROVE SessionsInv'
<1>1. PICK q \in Coroutine : q = request[r]
  BY Local
<1>2. Knows(q) /\ q.at = "factor"
  BY <1>1, Local DEF VerifiedLogin, At
<1>3. CASE Continue(r, Idle)
  BY <1>3, Ends DEF VerifiedLogin
<1>4. CASE \E at \in {"create", "rebind"} : Continue(r, [q EXCEPT !.at = at])
  BY <1>1, <1>2, <1>4, GoesOn DEF VerifiedLogin, Knows, Points
<1>. QED BY <1>1, <1>3, <1>4 DEF VerifiedLogin

-----------------------------------------------------------------------------
(* Records *)

LEMMA Appends ==
  ASSUME SessionsTyped, NEW record \in SessionRecord, NEW replaced, Register(record, replaced)
  PROVE  /\ sessions' \in Seq(SessionRecord) /\ Len(sessions') = Len(sessions) + 1
         /\ Len(sessions') <= MaxSessions /\ Len(sessions') \in 1..MaxSessions
         /\ DOMAIN sessions' = DOMAIN sessions \cup {Len(sessions')}
         /\ Len(sessions') \notin DOMAIN sessions
         /\ \A s \in DOMAIN sessions : sessions'[s] = sessions[s]
         /\ sessions'[Len(sessions')] = record
         /\ live' = (live \ {replaced}) \cup {Len(sessions')}
<1>1. /\ sessions \in Seq(SessionRecord) /\ Len(sessions) \in Nat /\ Len(sessions) < MaxSessions
      /\ DOMAIN sessions = 1..Len(sessions) /\ sessions' = Append(sessions, record)
  BY Tables DEF Register, SessionsTyped, TypeOK
<1>2. /\ sessions' \in Seq(SessionRecord) /\ Len(sessions') = Len(sessions) + 1
      /\ \A i \in 1..Len(sessions) : sessions'[i] = sessions[i]
      /\ sessions'[Len(sessions) + 1] = record /\ DOMAIN sessions' = 1..(Len(sessions) + 1)
  BY <1>1, AppendProperties, LenProperties
<1>. QED BY <1>1, <1>2, BoundsAssumption DEF Register

\* A record that appears is paid for with a password and, where the account
\* owes a second factor, with a challenge nobody else can spend.
LEMMA Registers ==
  ASSUME SessionsInv, NEW record \in SessionRecord, record.proved = record.epoch,
         record.epoch <= account[record.account].epoch,
         NEW replaced, Register(record, replaced), UNCHANGED <<account, challenges, open>>,
         NEW r \in Requests, NEW q \in Coroutine, Continue(r, q), Knows(q), \A c : ~Holds(q, c),
         record.via # 0 => Holds(request[r], record.via)
  PROVE  SessionsInv'
<1>1. SessionsTyped' /\ Grows
  BY Appends, Epochs DEF SessionsInv, SessionsTyped, TypeOK, Continue, Grows
<1>2. \A o \in Requests : Knows(request[o])'
  BY <1>1, KnowsKept, OthersKnow DEF SessionsInv
<1>3. RecordsOK' /\ AccountsOK'
  BY Appends DEF SessionsInv, RecordsOK, AccountsOK
<1>4. \A o \in Requests, c \in DOMAIN challenges : Holds(request'[o], c) => o # r /\ Holds(request[o], c)
  BY DEF SessionsInv, SessionsTyped, TypeOK, Continue
<1>. DEFINE n == Len(sessions')
<1>5. /\ DOMAIN sessions' = DOMAIN sessions \cup {n} /\ n \notin DOMAIN sessions
      /\ sessions'[n] = record /\ \A s \in DOMAIN sessions : sessions'[s] = sessions[s]
  BY Appends DEF SessionsInv
<1>. HIDE DEF n
<1>6. record.via # 0 =>
        /\ record.via \in DOMAIN challenges \ open
        /\ \A s \in DOMAIN sessions : sessions[s].via # record.via
        /\ \A o \in Requests : Holds(request'[o], record.via) => FALSE
  <2>1. SUFFICES ASSUME record.via # 0
                 PROVE  /\ record.via \in DOMAIN challenges \ open
                        /\ \A s \in DOMAIN sessions : sessions[s].via # record.via
                        /\ \A o \in Requests : Holds(request'[o], record.via) => FALSE
    OBVIOUS
  <2>2. Holds(request[r], record.via) /\ record.via \in DOMAIN challenges
    BY <2>1, Local DEF Holds, Knows
  <2>. QED BY <1>4, <2>2 DEF SessionsInv, ChallengesOK
<1>7. ChallengesAreSpentOnce'
  BY <1>5, <1>6 DEF SessionsInv, ChallengesOK, ChallengesAreSpentOnce
<1>8. \A s \in DOMAIN sessions' : sessions'[s].via # 0 => sessions'[s].via \in DOMAIN challenges \ open
  BY <1>5, <1>6 DEF SessionsInv, ChallengesOK
<1>9. \A o \in Requests, c \in DOMAIN challenges : Holds(request'[o], c) =>
        /\ c \notin open /\ \A s \in DOMAIN sessions' : sessions'[s].via # c
        /\ \A m \in Requests : Holds(request'[m], c) => m = o
  <2>1. SUFFICES ASSUME NEW o \in Requests, NEW c \in DOMAIN challenges, Holds(request'[o], c)
                 PROVE  /\ c \notin open /\ \A s \in DOMAIN sessions' : sessions'[s].via # c
                        /\ \A m \in Requests : Holds(request'[m], c) => m = o
    OBVIOUS
  <2>2. Holds(request[o], c) /\ c # 0
    BY <1>4, <2>1 DEF Holds
  <2>3. record.via # c
    BY <1>6, <2>1, <2>2
  <2>. QED BY <1>4, <1>5, <2>1, <2>2, <2>3 DEF SessionsInv, ChallengesOK
<1>10. ChallengesOK'
  BY <1>7, <1>8, <1>9 DEF ChallengesOK
<1>. QED BY <1>1, <1>2, <1>3, <1>10 DEF SessionsInv

\* The record a coroutine asks for.
LEMMA CommandOK ==
  ASSUME SessionsInv, NEW r \in Requests, NEW q \in Coroutine, q = request[r], q.epoch > 0,
         q.proved = q.epoch, NEW prior \in 0..MaxSessions,
         NEW record, record = [Command(q) EXCEPT !.prior = prior]
  PROVE  /\ record \in SessionRecord /\ record.proved = record.epoch /\ record.via = q.via
         /\ record.epoch <= account[record.account].epoch
<1>1. q.epoch <= account[q.account].epoch
  BY Local DEF Knows
<1>2. /\ q.account \in Accounts /\ q.epoch \in 1..MaxEpoch /\ q.proved \in 1..MaxEpoch
      /\ q.via \in 0..MaxChallenges
  BY BoundsAssumption DEF Coroutine
<1>3. record = [account |-> q.account, epoch |-> q.epoch, proved |-> q.proved, via |-> q.via,
                prior |-> prior]
  BY DEF Command
<1>4. record \in SessionRecord
  BY <1>2, <1>3 DEF SessionRecord
<1>. QED BY <1>1, <1>3, <1>4

LEMMA CreateSessionStep ==
  ASSUME SessionsInv, NEW r \in Requests, CreateSession(r) PROVE SessionsInv'
<1>1. PICK q \in Coroutine : q = request[r]
  BY Local
<1>2. Knows(q) /\ q.at = "create" /\ q.epoch > 0 /\ q.proved = q.epoch
  BY <1>1, Local DEF CreateSession, At, Knows
<1>. PICK record : record = [Command(q) EXCEPT !.prior = NoSession]
  OBVIOUS
<1>3. /\ record \in SessionRecord /\ record.proved = record.epoch /\ record.via = q.via
      /\ record.epoch <= account[record.account].epoch
  <2>1. NoSession \in 0..MaxSessions
    BY BoundsAssumption DEF NoSession
  <2>. QED BY <1>1, <1>2, <2>1, CommandOK, ZenonT(60)
<1>4. record = Command(q)
  BY DEF Command
<1>5. Register(record, NoSession) /\ Continue(r, Idle) /\ UNCHANGED <<account, challenges, open>>
  BY <1>1, <1>4 DEF CreateSession
<1>6. record.via # 0 => Holds(request[r], record.via)
  BY <1>1, <1>2, <1>3 DEF Holds
<1>. QED BY <1>3, <1>5, <1>6, IdleKnows, Registers DEF SessionsInv

LEMMA RebindSessionStep ==
  ASSUME SessionsInv, NEW r \in Requests, RebindSession(r) PROVE SessionsInv'
<1>1. PICK q \in Coroutine : q = request[r]
  BY Local
<1>2. Knows(q) /\ q.at = "rebind" /\ q.epoch > 0 /\ q.proved = q.epoch /\ q.sid \in 0..MaxSessions
  BY <1>1, Local DEF RebindSession, At, Knows, Coroutine
<1>3. UNCHANGED <<account, challenges, open>>
  BY DEF RebindSession
<1>. PICK record : record = [Command(q) EXCEPT !.prior = q.sid]
  OBVIOUS
<1>4. CASE Register(record, q.sid) /\ Continue(r, Idle)
  <2>1. /\ record \in SessionRecord /\ record.proved = record.epoch /\ record.via = q.via
        /\ record.epoch <= account[record.account].epoch
    BY <1>1, <1>2, CommandOK, ZenonT(60)
  <2>2. record.via # 0 => Holds(request[r], record.via)
    BY <1>1, <1>2, <2>1 DEF Holds
  <2>. QED BY <1>3, <1>4, <2>1, <2>2, IdleKnows, Registers DEF SessionsInv
<1>5. CASE Continue(r, [q EXCEPT !.at = "create"]) /\ UNCHANGED <<sessions, live>>
  <2>1. "create" \in Points \ {"consume", "rehash", "account", "epoch"}
    BY DEF Points
  <2>. QED BY <1>1, <1>2, <1>3, <1>5, <2>1, GoesOn
<1>. QED BY <1>1, <1>4, <1>5 DEF RebindSession

-----------------------------------------------------------------------------
(* The three reads of an authentication *)

LEMMA ReadRecordStep ==
  ASSUME SessionsInv, NEW r \in Requests, ReadRecord(r) PROVE SessionsInv'
<1>1. PICK s \in live :
        LET a == sessions[s].account
        IN Continue(r, [Idle EXCEPT !.at = "account", !.account = a, !.sid = s,
                                    !.current = sessions[s].epoch = account[a].epoch])
  BY DEF ReadRecord
<1>2. /\ s \in DOMAIN sessions /\ sessions[s] \in SessionRecord /\ s \in 0..MaxSessions
      /\ sessions[s].epoch <= account[sessions[s].account].epoch
  BY Tables, BoundsAssumption DEF SessionsInv, SessionsTyped, TypeOK, RecordsOK
<1>3. PICK a \in Accounts : a = sessions[s].account
  BY <1>2 DEF SessionRecord
<1>4. sessions[s].epoch \in Nat /\ account[a].epoch \in Nat
  BY <1>2, Epochs, BoundsAssumption DEF SessionRecord, SessionsInv
<1>5. PICK b \in BOOLEAN : b = (sessions[s].epoch = account[a].epoch)
  OBVIOUS
<1>. PICK p : p = [Idle EXCEPT !.at = "account", !.account = a, !.sid = s, !.current = b]
  OBVIOUS
<1>6. /\ p \in Coroutine /\ p.at = "account" /\ p.account = a /\ p.sid = s /\ p.current = b
      /\ p.via = 0 /\ p.epoch = 0
  <2>1. Idle \in Coroutine /\ Idle.via = 0 /\ Idle.epoch = 0
    BY IdleKnows DEF Idle
  <2>2. "account" \in Points
    BY DEF Points
  <2>. QED BY <1>2, <2>1, <2>2 DEF Coroutine
<1>7. p.current \/ sessions[s].epoch < account[a].epoch
  <2>1. sessions[s].epoch = account[a].epoch => p.current
    BY <1>5, <1>6, Zenon
  <2>. QED BY <1>2, <1>3, <1>4, <2>1
<1>8. Knows(p) /\ \A c : ~Holds(p, c)
  <2>1. p.epoch <= account[p.account].epoch
    BY <1>4, <1>6
  <2>. QED BY <1>2, <1>3, <1>6, <1>7, <2>1 DEF Knows, Holds
<1>. QED BY <1>1, <1>3, <1>5, <1>6, <1>8, StaysIdle DEF ReadRecord

LEMMA ReadAccountStep ==
  ASSUME SessionsInv, NEW r \in Requests, ReadAccount(r) PROVE SessionsInv'
<1>1. PICK q \in Coroutine : q = request[r]
  BY Local
<1>2. PICK e \in 0..MaxEpoch : e = EpochOf(r) /\ e = account[q.account].epoch
  BY <1>1, Local
<1>. PICK p : p = [q EXCEPT !.at = "epoch", !.epoch = e]
  OBVIOUS
<1>3. Knows(q) /\ q.at = "account"
  BY <1>1, Local DEF ReadAccount, At
<1>4. /\ p \in Coroutine /\ p.at = "epoch" /\ p.account = q.account /\ p.sid = q.sid
      /\ p.current = q.current /\ p.via = q.via /\ p.epoch = e
  <2>1. "epoch" \in Points
    BY DEF Points
  <2>. QED BY <2>1 DEF Coroutine
<1>5. e <= e
  BY BoundsAssumption
<1>6. Knows(p) /\ \A c : ~Holds(p, c)
  BY <1>2, <1>3, <1>4, <1>5 DEF Knows, Holds
<1>. QED BY <1>1, <1>2, <1>4, <1>6, StaysIdle DEF ReadAccount

\* Epochs only rise: the record that is of the last epoch read was of the
\* first one.
LEMMA ReadEpochStep ==
  ASSUME SessionsInv, NEW r \in Requests, ReadEpoch(r) PROVE SessionsInv'
<1>1. PICK q \in Coroutine : q = request[r]
  BY Local
<1>2. Knows(q) /\ q.at = "epoch" /\ q.via = 0 /\ EpochOf(r) = account[q.account].epoch
  BY <1>1, Local DEF ReadEpoch, At, Knows
<1>3. CASE Continue(r, Idle)
  BY <1>3, Ends DEF ReadEpoch
<1>4. CASE /\ ValidCurrentState(q, EpochOf(r))
           /\ \E at \in {"accepted", "touch"} : Continue(r, [q EXCEPT !.at = at])
  <2>1. PICK at \in {"accepted", "touch"} : Continue(r, [q EXCEPT !.at = at])
    BY <1>4
  <2>2. sessions[q.sid].epoch = account[q.account].epoch /\ account[q.account].epoch \in Nat
    BY <1>1, <1>2, <1>4, Local, BoundsAssumption DEF ValidCurrentState
  <2>3. q.current
    BY <1>2, <2>2 DEF Knows
  <2>4. at \in Points \ {"consume", "rehash", "account", "epoch"}
    BY DEF Points
  <2>. QED BY <1>1, <1>2, <2>1, <2>3, <2>4, GoesOn DEF ReadEpoch
<1>. QED BY <1>1, <1>3, <1>4 DEF ReadEpoch

LEMMA TouchStep ==
  ASSUME SessionsInv, NEW r \in Requests, Touch(r) PROVE SessionsInv'
<1>1. PICK q \in Coroutine : q = request[r]
  BY Local
<1>2. q.at = "touch" /\ q.via = 0 /\ q.current
  BY <1>1, Local DEF Touch, At, Knows
<1>3. "accepted" \in Points \ {"consume", "rehash", "account", "epoch"}
  BY DEF Points
<1>. QED BY <1>1, <1>2, <1>3, GoesOn DEF Touch

-----------------------------------------------------------------------------
(* Handlers, and the change of a password *)

LEMMA BeginChangeStep ==
  ASSUME SessionsInv, NEW r \in Requests, BeginChange(r) PROVE SessionsInv'
<1>1. PICK q \in Coroutine : q = request[r]
  BY Local
<1>2. Knows(q) /\ q.at = "accepted"
  BY <1>1, Local DEF BeginChange, At
<1>. PICK p : p = [q EXCEPT !.at = "read", !.changing = TRUE]
  OBVIOUS
<1>3. p \in Coroutine /\ p.at = "read" /\ p.account = q.account /\ p.via = q.via /\ p.epoch = q.epoch
  <2>1. "read" \in Points
    BY DEF Points
  <2>. QED BY <2>1 DEF Coroutine
<1>4. Knows(p) /\ \A c : ~Holds(p, c)
  BY <1>2, <1>3 DEF Knows, Holds
<1>. QED BY <1>1, <1>3, <1>4, StaysIdle DEF BeginChange

LEMMA PrepareStep ==
  ASSUME SessionsInv, NEW r \in Requests, Prepare(r) PROVE SessionsInv'
<1>1. PICK q \in Coroutine : q = request[r]
  BY Local
<1>2. q.at = "prepare" /\ q.via = 0
  BY <1>1, Local DEF Prepare, At, Knows
<1>3. "replace" \in Points \ {"consume", "rehash", "account", "epoch"}
  BY DEF Points
<1>. QED BY <1>1, <1>2, <1>3, GoesOn, Ends DEF Prepare

LEMMA BeginResetStep ==
  ASSUME SessionsInv, NEW r \in Requests, BeginReset(r) PROVE SessionsInv'
<1>0. PICK a \in Accounts :
        Continue(r, [Idle EXCEPT !.at = "replace", !.account = a, !.proof = account[a].epoch])
  BY DEF BeginReset
<1>1. PICK e \in 0..MaxEpoch : e = account[a].epoch
  BY Epochs DEF SessionsInv
<1>. PICK p : p = [Idle EXCEPT !.at = "replace", !.account = a, !.proof = e]
  OBVIOUS
<1>2. p \in Coroutine /\ p.at = "replace" /\ p.account = a /\ p.epoch = 0 /\ p.via = 0
  <2>1. Idle \in Coroutine /\ Idle.via = 0 /\ Idle.epoch = 0
    BY IdleKnows DEF Idle
  <2>2. "replace" \in Points
    BY DEF Points
  <2>. QED BY <2>1, <2>2 DEF Coroutine
<1>3. Knows(p) /\ \A d : ~Holds(p, d)
  BY <1>1, <1>2 DEF Knows, Holds
<1>. QED BY <1>0, <1>1, <1>2, <1>3, StaysIdle DEF BeginReset

\* Epoch and password move on together, and with them what the coroutine knows.
LEMMA ReplacePasswordStep ==
  ASSUME SessionsInv, NEW r \in Requests, ReplacePassword(r) PROVE SessionsInv'
<1>1. PICK q \in Coroutine : q = request[r]
  BY Local
<1>2. Knows(q) /\ q.at = "replace" /\ q.via = 0 /\ q.account \in Accounts
  BY <1>1, Local DEF ReplacePassword, At, Knows
<1>3. CASE Continue(r, Idle) /\ UNCHANGED account
  BY <1>3, Ends DEF ReplacePassword
<1>4. PICK e \in 0..MaxEpoch : e = account[q.account].epoch /\ e = account[q.account].password
  BY <1>2, Epochs DEF SessionsInv, AccountsOK
<1>. DEFINE to == IF q.keep THEN "revoke_others" ELSE "revoke_all"
            state == [epoch |-> e + 1, password |-> e + 1, fresh |-> TRUE]
<1>5. CASE /\ e < MaxEpoch /\ account' = [account EXCEPT ![q.account] = state]
           /\ Continue(r, [q EXCEPT !.at = to, !.epoch = e + 1, !.proved = e + 1])
  <2>1. e + 1 \in 1..MaxEpoch /\ e + 1 \in 0..MaxEpoch
    BY <1>5, BoundsAssumption
  <2>2. state \in AccountState /\ state.epoch = e + 1 /\ state.password = e + 1
    BY <2>1 DEF AccountState
  <2>3. account \in [Accounts -> AccountState] /\ AccountsOK
    BY DEF SessionsInv, SessionsTyped, TypeOK
  <2>. HIDE DEF state
  <2>4. /\ account' \in [Accounts -> AccountState] /\ account'[q.account] = state
        /\ \A a \in Accounts : a # q.account => account'[a] = account[a]
    BY <1>2, <1>5, <2>2, <2>3
  <2>5. AccountsOK'
    BY <2>2, <2>3, <2>4 DEF AccountsOK
  <2>6. ASSUME NEW a \in Accounts PROVE account'[a].epoch >= account[a].epoch
    <3>1. CASE a = q.account
      <4>1. e \in Nat
        BY BoundsAssumption
      <4>2. account'[a].epoch = e + 1 /\ account[a].epoch = e
        BY <1>4, <2>2, <2>4, <3>1
      <4>. QED BY <4>1, <4>2
    <3>2. CASE a # q.account
      BY <2>4, <3>2, Epochs DEF SessionsInv
    <3>. QED BY <3>1, <3>2
  <2>. PICK p : p = [q EXCEPT !.at = to, !.epoch = e + 1, !.proved = e + 1]
    OBVIOUS
  <2>7. to \in Points \ {"challenge", "rehash", "account", "epoch", "touch", "accepted",
                         "consume", "factor", "rebind", "create"}
    BY DEF Points
  <2>. HIDE DEF to
  <2>8. /\ p \in Coroutine /\ p.at = to /\ p.account = q.account /\ p.via = 0 /\ p.epoch = e + 1
        /\ p.proved = e + 1
    BY <1>2, <2>1, <2>7 DEF Coroutine
  <2>9. Knows(p)' /\ \A c : ~Holds(p, c)
    BY <2>1, <2>2, <2>4, <2>7, <2>8, BoundsAssumption DEF Knows, Holds
  <2>. QED BY <1>5, <2>4, <2>5, <2>6, <2>8, <2>9, Moves DEF ReplacePassword
<1>. QED BY <1>1, <1>3, <1>4, <1>5 DEF ReplacePassword

LEMMA CleanupStep ==
  ASSUME SessionsInv, NEW r \in Requests,
         RevokeAll(r) \/ RevokeOthers(r) \/ Activate(r) \/ Respond(r)
  PROVE  SessionsInv'
<1>1. PICK q \in Coroutine : q = request[r]
  BY Local
<1>2. Knows(q) /\ q.via = 0
  BY <1>1, Local DEF Knows, RevokeAll, RevokeOthers, Activate, Respond, At
<1>3. {"leave", "rebind_changed", "changed"} \subseteq Points
  BY DEF Points
<1>4. CASE RevokeAll(r)
  BY <1>1, <1>2, <1>3, <1>4, GoesOn, Ends DEF RevokeAll
<1>5. CASE RevokeOthers(r)
  BY <1>1, <1>2, <1>3, <1>5, GoesOn DEF RevokeOthers, Knows, At
<1>6. CASE Activate(r)
  <2>0. (IF q.new \in live THEN q.new ELSE NoSession) \in 0..MaxSessions
    BY BoundsAssumption DEF Coroutine, NoSession
  <2>1. PICK sid \in 0..MaxSessions : Continue(r, [q EXCEPT !.at = "changed", !.sid = sid])
    BY <1>1, <1>6, <2>0 DEF Activate
  <2>. PICK p : p = [q EXCEPT !.at = "changed", !.sid = sid]
    OBVIOUS
  <2>2. /\ p \in Coroutine /\ p.at = "changed" /\ p.account = q.account /\ p.via = q.via
        /\ p.epoch = q.epoch
    BY <1>3 DEF Coroutine
  <2>3. Knows(p) /\ \A c : ~Holds(p, c)
    BY <1>2, <2>2 DEF Knows, Holds
  <2>. QED BY <1>6, <2>1, <2>2, <2>3, StaysIdle DEF Activate
<1>7. CASE Respond(r)
  BY <1>7, Ends DEF Respond
<1>. QED BY <1>4, <1>5, <1>6, <1>7

LEMMA RebindChangedStep ==
  ASSUME SessionsInv, NEW r \in Requests, RebindChanged(r) PROVE SessionsInv'
<1>1. PICK q \in Coroutine : q = request[r]
  BY Local
<1>2. /\ Knows(q) /\ q.at = "rebind_changed" /\ q.via = 0 /\ q.epoch > 0 /\ q.proved = q.epoch
      /\ q.sid \in 0..MaxSessions
  BY <1>1, Local DEF RebindChanged, At, Knows, Coroutine
<1>3. UNCHANGED <<account, challenges, open>> /\ "activate" \in Points
  BY DEF RebindChanged, Points
<1>. PICK record : record = [Command(q) EXCEPT !.prior = q.sid]
  OBVIOUS
<1>4. CASE Register(record, q.sid) /\ Continue(r, [q EXCEPT !.at = "activate", !.new = Len(sessions')])
  <2>1. /\ record \in SessionRecord /\ record.proved = record.epoch /\ record.via = q.via
        /\ record.epoch <= account[record.account].epoch
    <3>1. q = request[r] /\ q.epoch > 0 /\ q.proved = q.epoch /\ q.sid \in 0..MaxSessions
      BY <1>1, <1>2
    <3>. QED BY <3>1, CommandOK, ZenonT(60)
  <2>2. PICK n \in 0..MaxSessions : n = Len(sessions')
    BY <1>4, <2>1, Appends DEF SessionsInv
  <2>. PICK p : p = [q EXCEPT !.at = "activate", !.new = n]
    OBVIOUS
  <2>3. /\ p \in Coroutine /\ p.at = "activate" /\ p.account = q.account /\ p.via = q.via
        /\ p.epoch = q.epoch
    BY <1>3 DEF Coroutine
  <2>4. Knows(p) /\ \A c : ~Holds(p, c)
    BY <1>2, <2>3 DEF Knows, Holds
  <2>. QED BY <1>2, <1>3, <1>4, <2>1, <2>2, <2>3, <2>4, Registers
<1>5. CASE Continue(r, [q EXCEPT !.at = "activate"]) /\ UNCHANGED <<sessions, live>>
  BY <1>1, <1>2, <1>3, <1>5, GoesOn
<1>. QED BY <1>1, <1>4, <1>5 DEF RebindChanged

-----------------------------------------------------------------------------
(* The invariant, and what it says. *)

LEMMA SessionsInitInv == Init => SessionsInv
<1>. SUFFICES ASSUME Init PROVE SessionsInv
  OBVIOUS
<1>1. account \in [Accounts -> AccountState] /\ AccountsOK
  BY BoundsAssumption DEF Init, AccountState, AccountsOK
<1>2. /\ sessions \in Seq(SessionRecord) /\ challenges \in Seq(Challenge)
      /\ Len(sessions) = 0 /\ Len(challenges) = 0
      /\ DOMAIN sessions = {} /\ DOMAIN challenges = {}
  BY DEF Init
<1>3. request \in [Requests -> Coroutine] /\ \A r \in Requests : request[r] = Idle
  BY IdleKnows DEF Init
<1>4. SessionsTyped
  BY <1>1, <1>2, <1>3, BoundsAssumption DEF SessionsTyped, TypeOK, Init
<1>5. RecordsOK /\ ChallengesOK
  BY <1>2 DEF RecordsOK, ChallengesOK, ChallengesAreSpentOnce
<1>. QED BY <1>1, <1>3, <1>4, <1>5, IdleKnows DEF SessionsInv

LEMMA SessionsNextInv == SessionsInv /\ [Next]_vars => SessionsInv'
<1>. SUFFICES ASSUME SessionsInv, [Next]_vars PROVE SessionsInv'
  OBVIOUS
<1>1. ASSUME NEW r \in Requests, Step(r) PROVE SessionsInv'
  <2>1. CASE FindForLogin(r) \/ ReadPassword(r) \/ Rehash(r)
    BY <2>1, FindForLoginStep, ReadPasswordStep, RehashStep
  <2>2. CASE IssueChallenge(r) \/ BeginSecondFactor(r) \/ ConsumeChallenge(r) \/ VerifiedLogin(r)
    BY <2>2, IssueChallengeStep, BeginSecondFactorStep, ConsumeChallengeStep, VerifiedLoginStep
  <2>3. CASE RebindSession(r) \/ CreateSession(r) \/ RebindChanged(r)
    BY <2>3, RebindSessionStep, CreateSessionStep, RebindChangedStep
  <2>4. CASE ReadRecord(r) \/ ReadAccount(r) \/ ReadEpoch(r) \/ Touch(r)
    BY <2>4, ReadRecordStep, ReadAccountStep, ReadEpochStep, TouchStep
  <2>5. CASE Logout(r) \/ RevokeSession(r) \/ Abandon(r)
    BY <2>5, Ends DEF Logout, RevokeSession, Abandon
  <2>6. CASE BeginChange(r) \/ Prepare(r) \/ BeginReset(r) \/ ReplacePassword(r)
    BY <2>6, BeginChangeStep, PrepareStep, BeginResetStep, ReplacePasswordStep
  <2>7. CASE RevokeAll(r) \/ RevokeOthers(r) \/ Activate(r) \/ Respond(r)
    BY <2>7, CleanupStep
  <2>. QED BY <1>1, <2>1, <2>2, <2>3, <2>4, <2>5, <2>6, <2>7 DEF Step
<1>2. CASE UNCHANGED vars
  <2>1. SessionsTyped' /\ AccountsOK' /\ RecordsOK' /\ ChallengesOK'
    BY <1>2 DEF vars, SessionsInv, SessionsTyped, TypeOK, AccountsOK, RecordsOK, ChallengesOK,
                ChallengesAreSpentOnce
  <2>2. \A r \in Requests : Knows(request[r])'
    BY <1>2 DEF vars, SessionsInv, Knows
  <2>. QED BY <2>1, <2>2 DEF SessionsInv
<1>. QED BY <1>1, <1>2 DEF Next

LEMMA SessionsInvariant == Spec => []SessionsInv
BY SessionsInitInv, SessionsNextInv, PTL DEF Spec

\* Whatever logins, second factors, rehashes and password changes interleave, a
\* session of the current epoch was obtained with the current password, and the
\* three reads of an authentication accept no session that was not current at
\* the first of them.
THEOREM SessionsProveThePassword == Spec => []SessionsAreSound
<1>1. SessionsInv => SessionsAreSound
  <2>. SUFFICES ASSUME SessionsInv PROVE SessionsAreSound
    OBVIOUS
  <2>1. CurrentSessionsProveCurrentPassword
    BY Tables DEF SessionsInv, SessionsTyped, TypeOK, SessionRecord, RecordsOK, AccountsOK,
                  CurrentSessionsProveCurrentPassword
  <2>2. AcceptedSessionsWereCurrent
    BY DEF SessionsInv, Knows, AcceptedSessionsWereCurrent
  <2>. QED BY <2>1, <2>2 DEF SessionsAreSound, SessionsInv, SessionsTyped
<1>. QED BY <1>1, SessionsInvariant, PTL

\* However many completions race for a second-factor challenge, one of them at
\* most gets a session for it.
THEOREM ChallengesOpenOneSession == Spec => []ChallengesAreSpentOnce
<1>1. SessionsInv => ChallengesAreSpentOnce
  BY DEF SessionsInv, ChallengesOK
<1>. QED BY <1>1, SessionsInvariant, PTL

\* A session record that was revoked or replaced never comes back, nor does a
\* successor of it; and no rehash brings a replaced password back.
THEOREM WithdrawalIsFinal == Spec => WithdrawnStaysWithdrawn
<1>1. ASSUME SessionsInv, [Next]_vars
      PROVE  \A s \in live' \ live : s \notin DOMAIN sessions /\ sessions'[s].prior \in live \cup {NoSession}
  <2>. SUFFICES ASSUME NEW s \in live' \ live
                PROVE  s \notin DOMAIN sessions /\ sessions'[s].prior \in live \cup {NoSession}
    OBVIOUS
  <2>1. PICK r \in Requests : RebindSession(r) \/ CreateSession(r) \/ RebindChanged(r)
    BY <1>1 DEF Next, vars, Step, FindForLogin, ReadPassword, Rehash, IssueChallenge,
         BeginSecondFactor, ConsumeChallenge, VerifiedLogin, ReadRecord, ReadAccount, ReadEpoch,
         Touch, Logout, RevokeSession, BeginChange, Prepare, BeginReset, ReplacePassword,
         RevokeAll, RevokeOthers, Activate, Respond, Abandon
  <2>2. PICK q \in Coroutine : q = request[r]
    BY <1>1, Local
  <2>3. PICK prior \in 0..MaxSessions :
          /\ prior \in live \cup {NoSession}
          /\ Register([Command(q) EXCEPT !.prior = prior], prior)
    <3>1. [Command(q) EXCEPT !.prior = NoSession] = Command(q) /\ q.sid \in 0..MaxSessions
          /\ NoSession \in 0..MaxSessions
      BY BoundsAssumption DEF Command, Coroutine, NoSession
    <3>. QED BY <2>1, <2>2, <3>1 DEF RebindSession, CreateSession, RebindChanged
  <2>4. q.epoch > 0 /\ q.proved = q.epoch
    BY <1>1, <2>1, <2>2, Local DEF RebindSession, CreateSession, RebindChanged, At, Knows
  <2>. PICK record : record = [Command(q) EXCEPT !.prior = prior]
    OBVIOUS
  <2>5. record \in SessionRecord /\ record.prior = prior
    BY <1>1, <2>2, <2>4, CommandOK DEF Command
  <2>6. s = Len(sessions') /\ s \notin DOMAIN sessions /\ sessions'[s] = record
    BY <1>1, <2>3, <2>5, Appends DEF SessionsInv
  <2>. QED BY <2>3, <2>5, <2>6
<1>2. ASSUME SessionsInv, SessionsInv', [Next]_vars, NEW a \in Accounts
      PROVE  /\ account'[a].password >= account[a].password
             /\ account'[a].password # account[a].password <=> account'[a].epoch # account[a].epoch
  <2>1. account[a].password = account[a].epoch /\ account'[a].password = account'[a].epoch
        /\ account[a].epoch \in Nat
    BY <1>2, Epochs DEF SessionsInv, AccountsOK
  <2>2. CASE account'[a].epoch = account[a].epoch
    BY <2>1, <2>2
  <2>3. CASE account'[a].epoch # account[a].epoch
    <3>1. PICK r \in Requests : Rehash(r) \/ ReplacePassword(r)
      BY <1>2, <2>3 DEF Next, vars, Step, FindForLogin, ReadPassword, IssueChallenge,
           BeginSecondFactor, ConsumeChallenge, VerifiedLogin, RebindSession, CreateSession,
           ReadRecord, ReadAccount, ReadEpoch, Touch, Logout, RevokeSession, BeginChange,
           Prepare, BeginReset, RevokeAll, RevokeOthers, RebindChanged, Activate, Respond, Abandon
    <3>2. account \in [Accounts -> AccountState] /\ account[a] \in AccountState
      BY <1>2 DEF SessionsInv, SessionsTyped, TypeOK
    <3>3. ~Rehash(r)
      BY <2>3, <3>2 DEF Rehash, AccountState
    <3>4. account'[a].epoch = account[a].epoch + 1
      BY <2>3, <3>1, <3>2, <3>3 DEF ReplacePassword
    <3>. QED BY <2>1, <3>4
  <2>. QED BY <2>2, <2>3
<1>3. SessionsInv /\ SessionsInv' /\ [Next]_vars =>
        [\A s \in live' \ live : /\ s \notin DOMAIN sessions
                                 /\ sessions'[s].prior \in live \cup {NoSession}]_vars
  BY <1>1
<1>4. SessionsInv /\ SessionsInv' /\ [Next]_vars =>
        [\A a \in Accounts :
           /\ account'[a].password >= account[a].password
           /\ (account'[a].password # account[a].password <=> account'[a].epoch # account[a].epoch)]_vars
  BY <1>2
<1>. QED BY <1>3, <1>4, SessionsInvariant, PTL
         DEF Spec, WithdrawnStaysWithdrawn, RevocationIsFinal, ReplacedPasswordsStayReplaced
=============================================================================
