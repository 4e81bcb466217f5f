-------------------------------- MODULE APIKeys --------------------------------
(***************************************************************************)
(* API keys: the records of the reference store, the service that issues,  *)
(* rotates and revokes them, the check of a presented key, and the buffer  *)
(* that writes the last use of a key to the application's sink.            *)
(*                                                                         *)
(* A key is its identifier; secrets, digests and the pepper are data: a    *)
(* presented key has the right secret or not.                              *)
(***************************************************************************)
EXTENDS Authorization

CONSTANTS
  Keys,           \* identifiers the generator may draw
  KeyOwner,       \* whom a key is issued to
  KeyBounds,      \* the bounds it is issued with
  KeyExpiry,      \* when it expires, or Never
  FirstKeys,      \* keys issued before the model begins
  Overlaps,       \* overlaps a rotation may ask for; 0 is none
  UsageCapacity,  \* entries the usage buffer has room for
  UsageInterval   \* time between two unforced writes for one key

ASSUME KeyAssumption ==
  /\ Never \notin Int /\ FirstKeys \subseteq Keys
  /\ KeyExpiry \in [Keys -> Nat \cup {Never}] /\ Overlaps \subseteq Nat

VARIABLES
  keys,       \* the store: a record for each key, or NoKey
  pending,    \* uses waiting to be written, by key; Unused is no entry
  written,    \* the use last written for a key
  flush,      \* the flush under way: the entries it has still to visit
  \* What happened, for the properties.
  lastUse,    \* the latest accepted use of a key
  excused     \* keys with a use the buffer may have lost

usageVars  == <<pending, written, flush, lastUse, excused>>
apiKeyVars == <<keys, pending, written, flush, lastUse, excused>>

NoKey  == [state |-> "none"]
Unused == -1
NoFlush == [state |-> "idle", todo |-> {}, force |-> FALSE, writing |-> {}]

Later(s, t) == IF s > t THEN s ELSE t

NewKey(k) == [state |-> "kept", expires |-> KeyExpiry[k], revoked |-> Never, overlap |-> Never]

APIKeysInit ==
  /\ keys = [k \in Keys |-> IF k \in FirstKeys THEN NewKey(k) ELSE NoKey]
  /\ pending = [k \in Keys |-> Unused] /\ written = [k \in Keys |-> Unused]
  /\ lastUse = [k \in Keys |-> Unused] /\ flush = NoFlush /\ excused = {}

-------------------------------------------------------------------------------
(* The record.                                                              *)

\* What storage may hold: an overlap belongs to a revocation, does not end
\* before it and does not outlive the key.
APIKeyState(record) ==
  record.overlap # Never =>
    /\ record.revoked # Never /\ record.overlap >= record.revoked
    /\ record.expires # Never => record.overlap <= record.expires

\* Expiry is exclusive, the end of an overlap inclusive.
IsValidAt(record, t) ==
  /\ record.expires = Never \/ t < record.expires
  /\ record.revoked = Never \/ t < record.revoked \/ (record.overlap # Never /\ t <= record.overlap)

-------------------------------------------------------------------------------
(* The service and the store; the clock is read before the store is called. *)

IssueKey(k) ==
  /\ keys[k] = NoKey
  /\ keys' = [keys EXCEPT ![k] = NewKey(k)]
  /\ UNCHANGED usageVars

\* The store bounds an overlap by the key's own expiry; without one it ends
\* where the rotation asked.
BoundedOverlap(record, overlap) ==
  IF overlap = 0 THEN Never
  ELSE IF record.expires = Never \/ now + overlap < record.expires THEN now + overlap ELSE record.expires

Revoked(record, overlap) == [record EXCEPT !.revoked = now, !.overlap = overlap]

AnyKeyRotates(current, new) == keys[current] # NoKey /\ keys[new] = NoKey
MayRotate(current, new) ==
  keys[current] # NoKey /\ keys[current].revoked = Never /\ keys[new] = NoKey

\* One key is replaced by one successor.  A key that expired cannot keep an
\* overlap: its record would not be a valid one, and nothing changes.
RotateKey(current, new, overlap) ==
  LET replaced == Revoked(keys[current], BoundedOverlap(keys[current], overlap))
  IN /\ MayRotate(current, new) /\ APIKeyState(replaced)
     /\ keys' = [keys EXCEPT ![current] = replaced, ![new] = NewKey(new)]
     /\ UNCHANGED usageVars

\* A revocation ends an overlap too.
RevokeKey(k) ==
  /\ keys[k] # NoKey
  /\ keys' = [keys EXCEPT ![k] = Revoked(keys[k], Never)]
  /\ UNCHANGED usageVars

-------------------------------------------------------------------------------
(* The check of a presented key and its use.                                *)

KeyAccepted(k, right) == right /\ keys[k] # NoKey /\ IsValidAt(keys[k], now)

KeyEvidence(k) ==
  [at |-> now, expires |-> keys[k].expires, methods |-> {"api_key"}, traits |-> {}]

Entries == {k \in Keys : pending[k] # Unused}

\* A use updates the entry of its key, or takes a free one, or is dropped.
Observed(k) ==
  CASE pending[k] # Unused -> [pending EXCEPT ![k] = Later(pending[k], now)]
    [] OTHER -> IF Cardinality(Entries) >= UsageCapacity THEN pending ELSE [pending EXCEPT ![k] = now]

ObserveUse(k) ==
  /\ pending' = Observed(k)
  /\ lastUse' = [lastUse EXCEPT ![k] = now]
  /\ excused' = IF pending[k] = Unused /\ Cardinality(Entries) >= UsageCapacity THEN excused \cup {k}
                ELSE IF \E e \in flush.todo : e.key = k /\ now > e.used THEN excused \cup {k}
                ELSE IF pending[k] = Unused THEN excused \ {k} ELSE excused
  /\ UNCHANGED <<keys, written, flush>>

-------------------------------------------------------------------------------
(* The flush: it walks over the entries it found when it began, and a write *)
(* is an await.  The closing of the application forces every write.         *)

FlushBegins(force) ==
  /\ flush = NoFlush /\ Entries # {}
  /\ flush' = [state |-> "busy", todo |-> {[key |-> k, used |-> pending[k]] : k \in Entries},
               force |-> force, writing |-> {}]
  /\ UNCHANGED <<keys, pending, written, lastUse, excused>>

Due(entry) ==
  flush.force \/ written[entry.key] = Unused \/ entry.used - written[entry.key] >= UsageInterval

FlushSkips(entry) ==
  /\ flush.writing = {} /\ entry \in flush.todo /\ ~Due(entry)
  /\ flush' = IF flush.todo = {entry} THEN NoFlush ELSE [flush EXCEPT !.todo = @ \ {entry}]
  /\ UNCHANGED <<keys, pending, written, lastUse, excused>>

FlushWrites(entry) ==
  /\ flush.writing = {} /\ entry \in flush.todo /\ Due(entry)
  /\ flush' = [flush EXCEPT !.writing = {entry.key}]
  /\ UNCHANGED <<keys, pending, written, lastUse, excused>>

\* Written or refused by the sink, the entry leaves the buffer, with
\* whatever was merged into it meanwhile.
FlushAnswered(entry, succeeded) ==
  /\ entry \in flush.todo /\ flush.writing = {entry.key}
  /\ written' = IF succeeded THEN [written EXCEPT ![entry.key] = entry.used] ELSE written
  /\ pending' = [pending EXCEPT ![entry.key] = Unused]
  /\ flush'   = IF flush.todo = {entry} THEN NoFlush ELSE [flush EXCEPT !.todo = @ \ {entry}, !.writing = {}]
  /\ excused' = IF succeeded THEN excused ELSE excused \cup {entry.key}
  /\ UNCHANGED <<keys, lastUse>>

-------------------------------------------------------------------------------
APIKeysTypeOK ==
  /\ \A k \in Keys : keys[k] # NoKey => APIKeyState(keys[k])
  /\ Cardinality(Entries) <= UsageCapacity
  /\ flush.writing \subseteq {e.key : e \in flush.todo}

\* The last use of a key is in the sink or on its way there, unless the
\* buffer was full, the sink failed, or the use arrived after a flush had
\* taken an earlier one of the same key: no other use is forgotten, and
\* the sink is never told of a use that did not happen (_runtime.py:79-115).
UsesAreLostOnlyInTheWindow ==
  \A k \in Keys :
    /\ written[k] <= lastUse[k] /\ pending[k] <= lastUse[k]
    /\ k \notin excused => lastUse[k] = Later(written[k], pending[k])

\* A key that stopped working never works again: neither a rotation of a
\* rotated key nor a revocation in an overlap brings it back, a revoked key
\* is not replaced a second time, and an overlap only ever becomes shorter
\* (testing.py:511-543, _api_key.py:104-121).
DeadKeysStayDead ==
  \A k \in Keys : keys[k] # NoKey =>
    /\ keys'[k] # NoKey
    /\ ~IsValidAt(keys[k], now) => ~IsValidAt(keys'[k], now')
    /\ keys[k].revoked # Never => keys'[k].revoked # Never
                                  /\ keys'[k].overlap \in {keys[k].overlap, Never}
===============================================================================
