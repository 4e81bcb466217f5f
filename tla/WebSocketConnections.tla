------------------------ MODULE WebSocketConnections ------------------------
(***************************************************************************)
(* WebSocket handshakes and supervised lifetimes: the one-time connect     *)
(* tokens of websocket/_connect_tokens.py, the admission of a handshake in *)
(* authentication.py (_handle_websocket), and the close coordinator and    *)
(* the supervising tasks of websocket/_lifecycle.py.  One account; every   *)
(* connection is one handshake.                                            *)
(*                                                                         *)
(* Within a connection, the application's handler and the three supervising*)
(* tasks (expire, revoke, refresh) share the coordinator's lock.  anyio's  *)
(* lock is FIFO and hands over directly, so the tasks that hold or await   *)
(* it are one line, whose head is the holder.                              *)
(***************************************************************************)
EXTENDS Naturals, Sequences, FiniteSets

CONSTANTS Conns,      \* connections, each one handshake
          Tokens,     \* connect tokens an endpoint may mint
          Hooks,      \* the configured hooks: revocation_source, snapshot_refresher
          Talkers,    \* bound: connections whose handler sends events
          MaxEpoch,   \* bound: security changes of the account
          NoToken     \* a handshake that presents ordinary credentials

ASSUME ConnectionAssumption ==
    /\ NoToken \notin Tokens /\ Hooks \subseteq {"revoke", "refresh"} /\ Talkers \subseteq Conns
    /\ MaxEpoch \in Nat

VARIABLES epoch,      \* the account's security epoch
          store,      \* connect-token store: what each token's record is now
          expired,    \* tokens whose expires_at has passed
          conn,       \* each connection's handshake and admission
          sock        \* each connection's coordinator, tasks and wire

vars == <<epoch, store, expired, conn, sock>>

Closers == {"expire", "revoke", "refresh"}
Tasks   == Closers \cup {"handler"}
Events  == {"accept", "data", "close"}
Entries == [task : Tasks, event : Events]

Records == [state : {"absent", "live", "gone"}, epoch : 0..MaxEpoch]

\* bindings: what the record binds (route, origin, policy) is what the
\* handshake shows; since: the epoch when the token was consumed (history)
Connection == [phase : {"idle", "consumed", "admitted", "live", "refused", "ended"},
               token : Tokens \cup {NoToken},
               bindings : BOOLEAN,
               since : 0..MaxEpoch]

\* line: the coordinator's lock; busy: its holder is in send_callable;
\* asleep: supervising tasks that still wait for their cause; wire: what the
\* client was sent, "broken" once it got two accepts or anything after a close
Socket == [state : {"pending", "accepted", "closing", "closed"},
           line : Seq(Entries), busy : BOOLEAN, asleep : SUBSET Closers,
           revoked : BOOLEAN, wire : {"quiet", "accepted", "closed", "broken"}]

FreshSocket == [state |-> "pending", line |-> <<>>, busy |-> FALSE, asleep |-> {},
                revoked |-> FALSE, wire |-> "quiet"]

Init ==
    /\ epoch = 0
    /\ store = [t \in Tokens |-> [state |-> "absent", epoch |-> 0]]
    /\ expired = {}
    /\ conn = [c \in Conns |-> [phase |-> "idle", token |-> NoToken,
                                bindings |-> TRUE, since |-> 0]]
    /\ sock = [c \in Conns |-> FreshSocket]

(***************************************************************************)
(* Connect tokens.                                                         *)
(***************************************************************************)
\* issue: the endpoint read the account's epoch at some moment before create
issue(t) ==
    /\ store[t].state = "absent"
    /\ \E e \in 0..epoch : store' = [store EXCEPT ![t] = [state |-> "live", epoch |-> e]]
    /\ UNCHANGED <<epoch, expired, conn, sock>>

\* The clock reaches a token's expires_at.
TokenExpires(t) ==
    /\ store[t].state # "absent" /\ t \notin expired
    /\ expired' = expired \cup {t}
    /\ UNCHANGED <<epoch, store, conn, sock>>

\* A password reset or another security change.
BumpEpoch ==
    /\ epoch < MaxEpoch
    /\ epoch' = epoch + 1
    /\ UNCHANGED <<store, expired, conn, sock>>

\* store.consume, under the store's lock: an expired record is dropped, a
\* wrong secret leaves the record, the right one takes it.
Consumed(t, proof) ==
    IF store[t].state = "live" /\ (t \in expired \/ proof)
    THEN [store EXCEPT ![t].state = "gone"]
    ELSE store

Refuse(c) == conn' = [conn EXCEPT ![c].phase = "refused"]

\* service.consume up to the store's answer; the store may also fail.
consume(c, t) ==
    /\ conn[c].phase = "idle"
    /\ \/ \E proof \in BOOLEAN :
            /\ store' = Consumed(t, proof)
            /\ IF proof /\ store[t].state = "live" /\ t \notin expired
               THEN \E fits \in BOOLEAN :
                      conn' = [conn EXCEPT ![c] = [phase |-> "consumed", token |-> t,
                                                   bindings |-> fits, since |-> epoch]]
               ELSE Refuse(c)
       \/ Refuse(c) /\ UNCHANGED store
    /\ UNCHANGED <<epoch, expired, sock>>

\* Mutant of EpochLookup: the record's epoch is not compared.
EpochUnchecked(c) ==
    /\ conn[c].phase = "consumed"
    /\ \/ conn[c].bindings /\ conn' = [conn EXCEPT ![c].phase = "admitted"]
       \/ Refuse(c)
    /\ UNCHANGED <<epoch, store, expired, sock>>

\* service.consume after the store: the epoch lookup, then the epoch of the
\* record, then its route, origin and policy fingerprint.
EpochLookup(c) ==
    /\ conn[c].phase = "consumed"
    /\ \/ /\ epoch = store[conn[c].token].epoch
          /\ conn[c].bindings
          /\ conn' = [conn EXCEPT ![c].phase = "admitted"]
       \/ /\ epoch # store[conn[c].token].epoch \/ ~conn[c].bindings
          /\ Refuse(c)
       \/ Refuse(c)                                   \* the lookup fails
    /\ UNCHANGED <<epoch, store, expired, sock>>

\* A handshake with ordinary credentials that carry no expiry.
authenticate(c) ==
    /\ conn[c].phase = "idle"
    /\ conn' = [conn EXCEPT ![c].phase = "admitted"]
    /\ UNCHANGED <<epoch, store, expired, sock>>

(***************************************************************************)
(* The coordinator.  A task joins the line, runs when it is the head:      *)
(* Turn tests the state and starts the transmission, Transmitted ends it.  *)
(***************************************************************************)
Waits(c, k) == \E i \in DOMAIN sock[c].line : sock[c].line[i].task = k
Holder(c)   == Head(sock[c].line)

\* What the client has been sent once event is on the wire.
Sent(s, event) ==
    [s EXCEPT !.wire =
        IF @ \in {"closed", "broken"} \/ (event = "accept" /\ @ = "accepted") THEN "broken"
        ELSE CASE event = "accept" -> "accepted"
               [] event = "close"  -> "closed"
               [] event = "data"   -> @]

\* The task group is cancelled: its tasks, the lock and the binding end with it.
Cancelled(s) == [FreshSocket EXCEPT !.state = "closed",
                                    !.wire = IF s.wire = "broken" THEN "broken" ELSE "closed"]
End(c, s) == /\ conn' = [conn EXCEPT ![c].phase = "ended"]
             /\ sock' = [sock EXCEPT ![c] = Cancelled(s)]

\* supervise_websocket_lifetime: an authorization already expired is closed
\* without running the handler; otherwise its tasks start.
supervise(c) ==
    /\ conn[c].phase = "admitted"
    /\ IF conn[c].token \in expired
       THEN /\ conn' = [conn EXCEPT ![c].phase = "ended"]
            /\ sock' = [sock EXCEPT ![c] = Cancelled(Sent(@, "close"))]
       ELSE /\ conn' = [conn EXCEPT ![c].phase = "live"]
            /\ sock' = [sock EXCEPT ![c].asleep =
                  Hooks \cup IF conn[c].token = NoToken THEN {} ELSE {"expire"}]
    /\ UNCHANGED <<epoch, store, expired>>

\* The handler sends an event through send_with_guard_mapping.
send(c, event) ==
    /\ conn[c].phase = "live" /\ c \in Talkers /\ ~Waits(c, "handler")
    /\ sock' = [sock EXCEPT ![c].line = Append(@, [task |-> "handler", event |-> event])]
    /\ UNCHANGED <<epoch, store, expired, conn>>

\* The application's revocation source releases the connection's binding.
revoke(c) ==
    /\ conn[c].phase = "live" /\ "revoke" \in Hooks /\ ~sock[c].revoked
    /\ sock' = [sock EXCEPT ![c].revoked = TRUE]
    /\ UNCHANGED <<epoch, store, expired, conn>>

\* A supervising task meets its cause and asks to close: the timer fires, the
\* revocation source returns or fails, a refresh is denied or fails.
Wake(c, k) ==
    /\ k \in sock[c].asleep
    /\ k = "expire" => conn[c].token \in expired
    /\ sock' = [sock EXCEPT ![c].asleep = @ \ {k},
                            ![c].line = Append(@, [task |-> k, event |-> "close"])]
    /\ UNCHANGED <<epoch, store, expired, conn>>

\* Mutant of Dropped: the handler's events are never dropped.
DroppedAtClose(s, e) == e.task \in Closers /\ s.state \in {"closing", "closed"}

\* What the task at the head leaves without transmitting: send drops every
\* event once closed, and a second accept; close stops at "closing" already.
Dropped(s, e) ==
    IF e.task \in Closers THEN s.state \in {"closing", "closed"}
    ELSE s.state = "closed" \/ (e.event = "accept" /\ s.state # "pending")

\* Mutant of TurnDropped: a closer cancels the group only if it sent the close.
TurnDroppedStays(c) ==
    /\ sock[c].line # <<>> /\ ~sock[c].busy /\ Dropped(sock[c], Holder(c))
    /\ sock' = [sock EXCEPT ![c].line = Tail(@)]
    /\ UNCHANGED <<epoch, store, expired, conn>>

\* A closer that finds the socket closing or closed cancels the group as well.
TurnDropped(c) ==
    /\ sock[c].line # <<>> /\ ~sock[c].busy /\ Dropped(sock[c], Holder(c))
    /\ IF Holder(c).task \in Closers
       THEN End(c, sock[c])
       ELSE sock' = [sock EXCEPT ![c].line = Tail(@)] /\ UNCHANGED conn
    /\ UNCHANGED <<epoch, store, expired>>

Turn(c) ==
    /\ sock[c].line # <<>> /\ ~sock[c].busy /\ ~Dropped(sock[c], Holder(c))
    /\ sock' = [sock EXCEPT ![c].busy = TRUE,
                            ![c].state = CASE Holder(c).event = "accept" -> "accepted"
                                           [] Holder(c).event = "close"  -> "closing"
                                           [] OTHER -> @]
    /\ UNCHANGED <<epoch, store, expired, conn>>

\* The transmission ends: delivered, or send_callable raises.  A closer then
\* cancels the group (its exception does too); the handler goes on.
Transmitted(c) ==
    /\ sock[c].busy
    /\ \E delivered \in BOOLEAN :
         LET e == Holder(c)
             s == IF delivered THEN Sent(sock[c], e.event) ELSE sock[c]
             t == IF delivered /\ e.event = "close" THEN [s EXCEPT !.state = "closed"] ELSE s
         IN  IF e.task \in Closers
             THEN End(c, t)
             ELSE /\ sock' = [sock EXCEPT ![c] = [t EXCEPT !.line = Tail(@), !.busy = FALSE]]
                  /\ UNCHANGED conn
    /\ UNCHANGED <<epoch, store, expired>>

\* The handler returns or raises, or the server cancels the connection: the
\* finally cancels the group, and a transmission under way may or may not
\* have reached the client.
Return(c) ==
    /\ conn[c].phase = "live"
    /\ \/ End(c, sock[c])
       \/ sock[c].busy /\ End(c, Sent(sock[c], Holder(c).event))
    /\ UNCHANGED <<epoch, store, expired>>

Next ==
    \/ BumpEpoch
    \/ \E t \in Tokens : issue(t) \/ TokenExpires(t)
    \/ \E c \in Conns :
         \/ \E t \in Tokens : consume(c, t)
         \/ EpochLookup(c) \/ authenticate(c) \/ supervise(c)
         \/ \E event \in Events : send(c, event)
         \/ \E k \in Closers : Wake(c, k)
         \/ revoke(c) \/ Turn(c) \/ TurnDropped(c) \/ Transmitted(c) \/ Return(c)

Spec == Init /\ [][Next]_vars

\* Timers fire and an event released to a waiting task wakes it; the lock is
\* handed over; a transmission ends (a client that reads nothing is dropped by
\* the server's own timeout).  Nothing is assumed of the handler, of refresh or
\* of a revocation: the revoke task owes a wake-up only once released.
Fairness ==
    \A c \in Conns :
       /\ WF_vars(Turn(c)) /\ WF_vars(TurnDropped(c)) /\ WF_vars(Transmitted(c))
       /\ WF_vars(Wake(c, "expire"))
       /\ WF_vars(sock[c].revoked /\ Wake(c, "revoke"))

FairSpec == Spec /\ Fairness

(***************************************************************************)
(* Properties.                                                             *)
(***************************************************************************)
\* Every variable has its type, and no task stands in the line twice.
TypeOK ==
    /\ epoch \in 0..MaxEpoch
    /\ store \in [Tokens -> Records]
    /\ expired \subseteq Tokens
    /\ conn \in [Conns -> Connection]
    /\ \A c \in Conns :
         /\ sock[c] \in Socket
         /\ \A i, j \in DOMAIN sock[c].line :
              sock[c].line[i].task = sock[c].line[j].task => i = j

\* Admitted: the handshake passed every check.
Admitted(c) == conn[c].phase \in {"admitted", "live", "ended"}

\* A connect token opens at most one socket, however many handshakes present
\* it at once (store.consume is atomic, _connect_tokens.py).
OneSocketPerToken ==
    \A c, d \in Conns :
       Admitted(c) /\ Admitted(d) /\ conn[c].token = conn[d].token /\ conn[c].token # NoToken
       => c = d

\* A security change that precedes the presentation of a token refuses it: an
\* admitted token was minted for the epoch in force when it was consumed, or
\* for a later one (the epoch is looked up after the record is taken).
AdmissionFollowsTheEpoch ==
    \A c \in Conns :
       Admitted(c) /\ conn[c].token # NoToken => store[conn[c].token].epoch >= conn[c].since

\* The client gets at most one accept and one close, and nothing after the
\* close, whichever of the handler, the timer, the revocation and the refresh
\* close the socket and in whatever order (WebSocketCloseCoordinator).
NothingFollowsTheClose ==
    \A c \in Conns : sock[c].wire # "broken"

\* A socket whose token expired or whose binding was revoked ends, even when
\* its handler already closed it and goes on running, or keeps sending
\* (each supervising task cancels the group whether or not it sent the close).
DoomedSocketsEnd ==
    \A c \in Conns :
       conn[c].phase = "live" /\ (conn[c].token \in expired \/ sock[c].revoked)
       ~> conn[c].phase = "ended"

\* A handshake is admitted once per token and under the epoch of its token.
AdmissionsAreSound == TypeOK /\ OneSocketPerToken /\ AdmissionFollowsTheEpoch

=============================================================================
