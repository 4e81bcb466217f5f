------------------------------ MODULE TaskProofs ------------------------------
(***************************************************************************)
(* The two components that run tasks of their own on the event loop: a     *)
(* supervised WebSocket with its timer, revocation and refresh tasks, and  *)
(* the JWKS provider with the refresh its requests share.  They have no    *)
(* state in common; the parts below are independent.                       *)
(***************************************************************************)
EXTENDS WebSocketConnections, JWKSProvider, FiniteSetTheorems, SequenceTheorems,
        WellFoundedInduction, TLAPS

(***************************************************************************)
(* Part one: what every handshake and every supervised socket keeps, for   *)
(* any number of connections and of tokens.                                *)
(***************************************************************************)

(***************************************************************************)
(* The inductive invariant.                                                *)
(***************************************************************************)
\* A handshake that took its token's record and has not been refused since.
Spends(c, t) ==
    conn[c].phase \in {"consumed", "admitted", "live", "ended"} /\ conn[c].token = t

\* A record that was taken never comes back, so one handshake at most holds
\* it, and its epoch is the one EpochLookup found.
Handshakes ==
    /\ \A c \in Conns : conn[c].since <= epoch
    /\ \A c \in Conns : conn[c].phase = "idle" => conn[c].token = NoToken
    /\ \A c \in Conns, t \in Tokens : Spends(c, t) => store[t].state = "gone"
    /\ \A c, d \in Conns, t \in Tokens : Spends(c, t) /\ Spends(d, t) => c = d
    /\ AdmissionFollowsTheEpoch

\* The line: no task is in it twice or still asleep, and closers only close.
LineOK(s) ==
    /\ \A i, j \in DOMAIN s.line : s.line[i].task = s.line[j].task => i = j
    /\ \A i \in DOMAIN s.line : s.line[i].task \notin s.asleep
    /\ \A i \in DOMAIN s.line : s.line[i].task \in Closers => s.line[i].event = "close"

\* What the state says of the wire, and of the transmission under way: while a
\* task transmits nothing was closed, and while it accepts nothing was sent.
WireOK(s) ==
    /\ s.wire # "broken"
    /\ s.wire = "closed" => s.state = "closed"
    /\ s.wire = "accepted" => s.state # "pending"
    /\ s.busy => /\ s.line # <<>> /\ s.state \in {"accepted", "closing", "pending"}
                 /\ Head(s.line).event = "accept" => s.wire = "quiet" /\ s.state = "accepted"
                 /\ Head(s.line).event = "close"  => s.state = "closing"

\* Only a live socket has tasks.
Quiet(s) == s.line = <<>> /\ ~s.busy /\ s.asleep = {}

SocketOK(phase, s) ==
    /\ s \in Socket /\ LineOK(s) /\ WireOK(s)
    /\ phase \notin {"live", "ended"} => s = FreshSocket
    /\ phase = "ended" => Quiet(s)

Sockets == sock \in [Conns -> Socket] /\ \A c \in Conns : SocketOK(conn[c].phase, sock[c])

Typed == /\ epoch \in 0..MaxEpoch
         /\ store \in [Tokens -> Records]
         /\ expired \subseteq Tokens
         /\ conn \in [Conns -> Connection]

WebSocketInv == Typed /\ Handshakes /\ Sockets

(***************************************************************************)
(* Lemmas about one socket.                                                *)
(***************************************************************************)
LEMMA FreshIsSocket ==
  /\ FreshSocket \in Socket /\ LineOK(FreshSocket) /\ WireOK(FreshSocket) /\ Quiet(FreshSocket)
  /\ FreshSocket.wire = "quiet"
BY EmptySeq DEF FreshSocket, Socket, LineOK, WireOK, Quiet

\* Only the line and the tasks asleep count in LineOK, and none of it once quiet.
LEMMA QuietIsSound ==
  ASSUME NEW s, Quiet(s), s.wire # "broken", s.wire = "closed" => s.state = "closed",
         s.wire = "accepted" => s.state # "pending"
  PROVE  LineOK(s) /\ WireOK(s)
<1>1. DOMAIN s.line = {}
  BY DEF Quiet
<1>. QED BY <1>1 DEF Quiet, LineOK, WireOK

\* The cancelled group leaves a quiet closed socket, unless its wire was broken.
LEMMA CancelledIsQuiet ==
  ASSUME NEW s \in Socket, s.wire # "broken"
  PROVE  Cancelled(s) \in Socket /\ LineOK(Cancelled(s)) /\ WireOK(Cancelled(s))
         /\ Quiet(Cancelled(s))
<1>1. Cancelled(s) \in Socket /\ Cancelled(s).wire = "closed" /\ Cancelled(s).state = "closed"
      /\ Quiet(Cancelled(s))
  BY FreshIsSocket DEF Cancelled, Socket, Quiet
<1>. QED BY <1>1, QuietIsSound

\* An event that no rule forbids leaves the wire whole.
LEMMA SentIsWhole ==
  ASSUME NEW s \in Socket, NEW event \in Events, s.wire \in {"quiet", "accepted"},
         event = "accept" => s.wire = "quiet"
  PROVE  /\ Sent(s, event) \in Socket
         /\ Sent(s, event) = [s EXCEPT !.wire = CASE event = "accept" -> "accepted"
                                                  [] event = "close"  -> "closed"
                                                  [] event = "data"   -> @]
         /\ Sent(s, event).wire # "broken"
BY DEF Sent, Socket, Events

\* A task that was not in the line and is not asleep may join it.
LEMMA JoinLine ==
  ASSUME NEW s \in Socket, LineOK(s), WireOK(s), NEW k \in Tasks, NEW event \in Events,
         \A i \in DOMAIN s.line : s.line[i].task # k, k \in Closers => event = "close",
         NEW left \in SUBSET s.asleep, k \notin left,
         NEW t, t = [s EXCEPT !.asleep = left, !.line = Append(s.line, [task |-> k, event |-> event])]
  PROVE  t \in Socket /\ LineOK(t) /\ WireOK(t)
<1>. DEFINE e == [task |-> k, event |-> event]
<1>1. s.line \in Seq(Entries) /\ e \in Entries
  BY DEF Socket, Entries
<1>2. t.line = Append(s.line, e) /\ t.asleep = left /\ t.wire = s.wire /\ t.state = s.state
      /\ t.busy = s.busy /\ t \in Socket
  BY <1>1, AppendProperties DEF Socket
<1>3. /\ DOMAIN t.line = 1 .. Len(s.line) + 1
      /\ \A i \in DOMAIN t.line :
           t.line[i] = IF i = Len(s.line) + 1 THEN e ELSE s.line[i]
      /\ \A i \in DOMAIN t.line : i = Len(s.line) + 1 \/ i \in DOMAIN s.line
  BY <1>1, <1>2, AppendProperties, LenProperties
<1>4. LineOK(t)
  BY <1>2, <1>3 DEF LineOK
<1>5. s.line # <<>> => Head(t.line) = Head(s.line) /\ t.line # <<>>
  BY <1>1, <1>2, AppendProperties, LenProperties
<1>6. WireOK(t)
  BY <1>2, <1>5 DEF WireOK
<1>. QED BY <1>2, <1>4, <1>6

\* The head may leave the line once nothing is being transmitted.
LEMMA LeaveLine ==
  ASSUME NEW s \in Socket, LineOK(s), s.line # <<>>,
         s.wire # "broken", s.wire = "closed" => s.state = "closed",
         s.wire = "accepted" => s.state # "pending",
         NEW t, t = [s EXCEPT !.line = Tail(s.line), !.busy = FALSE]
  PROVE  t \in Socket /\ LineOK(t) /\ WireOK(t)
<1>1. s.line \in Seq(Entries)
  BY DEF Socket
<1>2. t.line = Tail(s.line) /\ t.asleep = s.asleep /\ t.wire = s.wire /\ t.state = s.state
      /\ t.busy = FALSE /\ t \in Socket
  BY <1>1, HeadTailProperties DEF Socket
<1>3. /\ \A i \in DOMAIN t.line : i + 1 \in DOMAIN s.line /\ t.line[i] = s.line[i + 1]
      /\ \A i \in DOMAIN t.line : i \in Nat
  BY <1>1, <1>2, HeadTailProperties, LenProperties
<1>4. LineOK(t)
  BY <1>2, <1>3 DEF LineOK
<1>5. WireOK(t)
  BY <1>2 DEF WireOK
<1>. QED BY <1>2, <1>4, <1>5

LEMMA HeadIsEntry ==
  ASSUME NEW s \in Socket, s.line # <<>>
  PROVE  /\ Head(s.line) \in Entries /\ 1 \in DOMAIN s.line /\ Head(s.line) = s.line[1]
         /\ Head(s.line).task \in Tasks /\ Head(s.line).event \in Events
<1>1. s.line \in Seq(Entries) BY DEF Socket
<1>2. Head(s.line) \in Entries BY <1>1, HeadTailProperties
<1>3. 1 \in DOMAIN s.line /\ Head(s.line) = s.line[1]
  BY <1>1, LenProperties, EmptySeq
<1>. QED BY <1>2, <1>3 DEF Entries

(***************************************************************************)
(* The sockets, action by action.                                          *)
(***************************************************************************)
\* The handshake moves before its socket has tasks.
LEMMA SocketsKept ==
  ASSUME Sockets, UNCHANGED sock,
         \A c \in Conns : \/ conn'[c].phase = conn[c].phase
                          \/ /\ conn[c].phase \notin {"live", "ended"}
                             /\ conn'[c].phase \notin {"live", "ended"}
  PROVE  Sockets'
BY DEF Sockets, SocketOK

\* One socket moves, and its connection with it.
LEMMA OneSocketMoves ==
  ASSUME Sockets, NEW c \in Conns, NEW s, sock' = [sock EXCEPT ![c] = s],
         SocketOK(conn'[c].phase, s),
         \A d \in Conns : d # c => conn'[d].phase = conn[d].phase
  PROVE  Sockets'
<1>1. /\ sock'[c] = s
      /\ \A d \in Conns : d # c => sock'[d] = sock[d]
  BY DEF Sockets
<1>2. sock' \in [Conns -> Socket]
  BY DEF Sockets, SocketOK
<1>3. \A d \in Conns : SocketOK(conn'[d].phase, sock'[d])
  BY <1>1 DEF Sockets
<1>. QED BY <1>2, <1>3 DEF Sockets

\* The end of a connection whose wire is whole.
LEMMA EndStep ==
  ASSUME Typed, Sockets, NEW c \in Conns, NEW s \in Socket, s.wire # "broken", End(c, s)
  PROVE  Sockets'
<1>1. conn'[c].phase = "ended" /\ \A d \in Conns : d # c => conn'[d].phase = conn[d].phase
  BY DEF End, Typed, Connection
<1>2. SocketOK("ended", Cancelled(s))
  BY CancelledIsQuiet DEF SocketOK
<1>. QED BY <1>1, <1>2, OneSocketMoves DEF End

\* A socket of a live connection moves while the connection stays.
LEMMA LiveSocketMoves ==
  ASSUME Sockets, NEW c \in Conns, conn[c].phase = "live", UNCHANGED conn,
         NEW s \in Socket, LineOK(s), WireOK(s), sock' = [sock EXCEPT ![c] = s]
  PROVE  Sockets'
<1>1. SocketOK(conn'[c].phase, s)
  BY DEF SocketOK
<1>. QED BY <1>1, OneSocketMoves

\* Whoever is in the line, or asleep, is of a live connection.
LEMMA TasksAreLive ==
  ASSUME Typed, Sockets, NEW c \in Conns,
         sock[c].line # <<>> \/ sock[c].busy \/ sock[c].asleep # {}
  PROVE  conn[c].phase = "live"
BY FreshIsSocket DEF Sockets, SocketOK, Quiet

LEMMA SuperviseStep ==
  ASSUME ConnectionAssumption, Typed, Sockets, NEW c \in Conns, supervise(c)
  PROVE  Sockets'
<1>1. sock[c] = FreshSocket /\ conn[c] \in Connection
  BY DEF supervise, Sockets, SocketOK, Typed
<1>2. CASE conn[c].token \in expired
  <2>. DEFINE s == Sent(FreshSocket, "close")
  <2>1. s \in Socket /\ s.wire # "broken"
    BY FreshIsSocket, SentIsWhole DEF Events
  <2>2. SocketOK("ended", Cancelled(s))
    BY <2>1, CancelledIsQuiet DEF SocketOK
  <2>3. /\ sock' = [sock EXCEPT ![c] = Cancelled(s)] /\ conn'[c].phase = "ended"
        /\ \A d \in Conns : d # c => conn'[d].phase = conn[d].phase
    BY <1>1, <1>2 DEF supervise, Sockets, Typed, Connection
  <2>. QED BY <2>2, <2>3, OneSocketMoves
<1>3. CASE conn[c].token \notin expired
  <2>. DEFINE asleep == Hooks \cup IF conn[c].token = NoToken THEN {} ELSE {"expire"}
              s == [FreshSocket EXCEPT !.asleep = asleep]
  <2>1. /\ sock' = [sock EXCEPT ![c] = s] /\ conn'[c].phase = "live"
        /\ \A d \in Conns : d # c => conn'[d].phase = conn[d].phase
    BY <1>1, <1>3 DEF supervise, Sockets, Typed, Connection
  <2>2. asleep \in SUBSET Closers
    BY DEF ConnectionAssumption, Closers
  <2>3. s \in Socket /\ s.line = <<>> /\ s.busy = FALSE /\ s.wire = "quiet"
    <3>. HIDE DEF asleep
    <3>. QED BY <2>2, FreshIsSocket DEF Socket, Quiet
  <2>4. LineOK(s) /\ WireOK(s)
    BY <2>3 DEF LineOK, WireOK
  <2>5. SocketOK("live", s)
    BY <2>3, <2>4 DEF SocketOK
  <2>. QED BY <2>1, <2>5, OneSocketMoves
<1>. QED BY <1>2, <1>3

LEMMA SendStep ==
  ASSUME Typed, Sockets, NEW c \in Conns, NEW event \in Events, send(c, event)
  PROVE  Sockets'
<1>. DEFINE s == sock[c]
            t == [s EXCEPT !.line = Append(s.line, [task |-> "handler", event |-> event])]
<1>1. s \in Socket /\ LineOK(s) /\ WireOK(s) /\ conn[c].phase = "live" /\ UNCHANGED conn
  BY DEF send, Sockets, SocketOK
<1>2. sock' = [sock EXCEPT ![c] = t]
  BY DEF send, Sockets
<1>3. \A i \in DOMAIN s.line : s.line[i].task # "handler"
  BY DEF send, Waits
<1>4. "handler" \in Tasks /\ "handler" \notin Closers /\ "handler" \notin s.asleep
  BY <1>1 DEF Tasks, Closers, Socket
<1>5. t = [s EXCEPT !.asleep = s.asleep,
                    !.line = Append(s.line, [task |-> "handler", event |-> event])]
  BY <1>1 DEF Socket
<1>6. t \in Socket /\ LineOK(t) /\ WireOK(t)
  <2>. HIDE DEF t, s
  <2>. QED BY <1>1, <1>3, <1>4, <1>5, JoinLine
<1>. QED BY <1>1, <1>2, <1>6, LiveSocketMoves

LEMMA WakeStep ==
  ASSUME Typed, Sockets, NEW c \in Conns, NEW k \in Closers, Wake(c, k)
  PROVE  Sockets'
<1>. DEFINE s == sock[c]
            left == s.asleep \ {k}
            t == [s EXCEPT !.asleep = left,
                           !.line = Append(s.line, [task |-> k, event |-> "close"])]
<1>1. s \in Socket /\ LineOK(s) /\ WireOK(s) /\ k \in s.asleep /\ UNCHANGED conn
  BY DEF Wake, Sockets, SocketOK
<1>2. conn[c].phase = "live"
  BY <1>1, TasksAreLive
<1>3. sock' = [sock EXCEPT ![c] = t]
  BY DEF Wake, Sockets
<1>4. \A i \in DOMAIN s.line : s.line[i].task # k
  BY <1>1 DEF LineOK
<1>5. k \in Tasks /\ "close" \in Events /\ left \in SUBSET s.asleep /\ k \notin left
  BY DEF Tasks, Events
<1>6. t \in Socket /\ LineOK(t) /\ WireOK(t)
  <2>. HIDE DEF t, s, left
  <2>. QED BY <1>1, <1>4, <1>5, JoinLine DEF t
<1>. QED BY <1>1, <1>2, <1>3, <1>6, LiveSocketMoves

LEMMA RevokeStep ==
  ASSUME Typed, Sockets, NEW c \in Conns, revoke(c)
  PROVE  Sockets'
<1>. DEFINE s == sock[c]
            t == [s EXCEPT !.revoked = TRUE]
<1>1. s \in Socket /\ LineOK(s) /\ WireOK(s) /\ conn[c].phase = "live" /\ UNCHANGED conn
  BY DEF revoke, Sockets, SocketOK
<1>2. sock' = [sock EXCEPT ![c] = t]
  BY DEF revoke, Sockets
<1>3. t \in Socket /\ t.line = s.line /\ t.asleep = s.asleep /\ t.wire = s.wire
      /\ t.state = s.state /\ t.busy = s.busy
  BY <1>1 DEF Socket
<1>4. LineOK(t) /\ WireOK(t)
  <2>. HIDE DEF t, s
  <2>. QED BY <1>1, <1>3 DEF LineOK, WireOK
<1>. QED BY <1>1, <1>2, <1>3, <1>4, LiveSocketMoves

LEMMA TurnDroppedStep ==
  ASSUME Typed, Sockets, NEW c \in Conns, TurnDropped(c)
  PROVE  Sockets'
<1>. DEFINE s == sock[c]
            t == [s EXCEPT !.line = Tail(s.line)]
<1>1. s \in Socket /\ LineOK(s) /\ WireOK(s) /\ s.line # <<>> /\ ~s.busy
  BY DEF TurnDropped, Sockets, SocketOK
<1>2. conn[c].phase = "live"
  BY <1>1, TasksAreLive
<1>3. CASE Holder(c).task \in Closers
  BY <1>1, <1>3, EndStep DEF TurnDropped, WireOK
<1>4. CASE Holder(c).task \notin Closers
  <2>1. sock' = [sock EXCEPT ![c] = t] /\ UNCHANGED conn
    BY <1>4 DEF TurnDropped, Sockets
  <2>2. t = [s EXCEPT !.line = Tail(s.line), !.busy = FALSE]
    BY <1>1 DEF Socket
  <2>3. t \in Socket /\ LineOK(t) /\ WireOK(t)
    <3>1. s.wire # "broken" /\ (s.wire = "closed" => s.state = "closed")
          /\ (s.wire = "accepted" => s.state # "pending")
      BY <1>1 DEF WireOK
    <3>. HIDE DEF t, s
    <3>. QED BY <1>1, <2>2, <3>1, LeaveLine
  <2>. QED BY <1>2, <2>1, <2>3, LiveSocketMoves
<1>. QED BY <1>3, <1>4

LEMMA TurnStep ==
  ASSUME Typed, Sockets, NEW c \in Conns, Turn(c)
  PROVE  Sockets'
<1>. DEFINE s == sock[c]
            e == Head(s.line)
            state == CASE e.event = "accept" -> "accepted"
                       [] e.event = "close"  -> "closing"
                       [] OTHER -> s.state
            t == [s EXCEPT !.busy = TRUE, !.state = state]
<1>1. /\ s \in Socket /\ LineOK(s) /\ WireOK(s) /\ s.line # <<>> /\ ~s.busy /\ ~Dropped(s, e)
      /\ UNCHANGED conn
  BY DEF Turn, Holder, Sockets, SocketOK
<1>2. conn[c].phase = "live"
  BY <1>1, TasksAreLive
<1>3. sock' = [sock EXCEPT ![c] = t]
  BY DEF Turn, Holder, Sockets
<1>4. e \in Entries /\ e.event \in Events /\ e.task \in Tasks
      /\ (e.task \in Closers => e.event = "close")
  <2>. HIDE DEF s
  <2>. QED BY <1>1, HeadIsEntry DEF LineOK
<1>5. s.state # "closed" /\ (e.event = "accept" => s.state = "pending")
  BY <1>1, <1>4 DEF Dropped, Events
<1>6. s.wire \in {"quiet", "accepted"} /\ (s.state = "pending" => s.wire = "quiet")
  BY <1>1, <1>5 DEF WireOK, Socket
<1>7. /\ e.event = "accept" => state = "accepted"
      /\ e.event = "close" => state = "closing"
      /\ e.event \notin {"accept", "close"} => state = s.state
  OBVIOUS
<1>8. state \in {"pending", "accepted", "closing"} /\ s.state \in {"pending", "accepted", "closing"}
  BY <1>1, <1>5, <1>7 DEF Socket
<1>9. t \in Socket /\ t.line = s.line /\ t.asleep = s.asleep /\ t.wire = s.wire
      /\ t.state = state /\ t.busy = TRUE
  <2>. HIDE DEF s, state
  <2>. QED BY <1>1, <1>8 DEF Socket
<1>10. LineOK(t)
  <2>. HIDE DEF s, t
  <2>. QED BY <1>1, <1>9 DEF LineOK
<1>11. WireOK(t)
  <2>. HIDE DEF s, t, state
  <2>. QED BY <1>1, <1>5, <1>6, <1>7, <1>8, <1>9 DEF WireOK
<1>. QED BY <1>1, <1>2, <1>3, <1>9, <1>10, <1>11, LiveSocketMoves

LEMMA TransmittedStep ==
  ASSUME Typed, Sockets, NEW c \in Conns, Transmitted(c)
  PROVE  Sockets'
<1>. DEFINE s == sock[c]
            e == Head(s.line)
            u(delivered) == IF delivered THEN Sent(s, e.event) ELSE s
            v(delivered) == IF delivered /\ e.event = "close"
                            THEN [u(delivered) EXCEPT !.state = "closed"] ELSE u(delivered)
            t(delivered) == [v(delivered) EXCEPT !.line = Tail(v(delivered).line), !.busy = FALSE]
<1>1. s \in Socket /\ LineOK(s) /\ WireOK(s) /\ s.busy
  BY DEF Transmitted, Sockets, SocketOK
<1>2. s.line # <<>> /\ conn[c].phase = "live"
  BY <1>1, TasksAreLive DEF WireOK
<1>3. e \in Entries /\ e.event \in Events
  <2>. HIDE DEF s
  <2>. QED BY <1>1, <1>2, HeadIsEntry
<1>4. s.wire \in {"quiet", "accepted"} /\ (e.event = "accept" => s.wire = "quiet")
      /\ s.state \in {"accepted", "closing", "pending"}
      /\ (e.event = "accept" => s.state = "accepted") /\ (s.wire = "accepted" => s.state # "pending")
  BY <1>1 DEF WireOK, Socket
<1>5. PICK delivered \in BOOLEAN :
        IF e.task \in Closers THEN End(c, v(delivered))
        ELSE sock' = [sock EXCEPT ![c] = t(delivered)] /\ UNCHANGED conn
  BY DEF Transmitted, Holder
<1>6. /\ v(delivered) \in Socket
      /\ v(delivered).line = s.line /\ v(delivered).asleep = s.asleep
      /\ v(delivered).wire # "broken"
      /\ v(delivered).wire = "closed" => v(delivered).state = "closed"
      /\ v(delivered).wire = "accepted" => v(delivered).state # "pending"
  <2>1. CASE ~delivered
    BY <1>1, <1>4, <2>1 DEF Socket
  <2>2. CASE delivered
    <3>1. Sent(s, e.event) \in Socket
      <4>. HIDE DEF s
      <4>. QED BY <1>1, <1>3, <1>4, SentIsWhole
    <3>2. /\ Sent(s, e.event) = [s EXCEPT !.wire = CASE e.event = "accept" -> "accepted"
                                                     [] e.event = "close"  -> "closed"
                                                     [] e.event = "data"   -> @]
      <4>. HIDE DEF s
      <4>. QED BY <1>1, <1>3, <1>4, SentIsWhole
    <3>3. u(delivered) \in Socket /\ u(delivered).line = s.line /\ u(delivered).asleep = s.asleep
          /\ u(delivered).state = s.state
          /\ (e.event = "accept" => u(delivered).wire = "accepted")
          /\ (e.event = "close" => u(delivered).wire = "closed")
          /\ (e.event = "data" => u(delivered).wire = s.wire)
      <4>. HIDE DEF s, e
      <4>. QED BY <2>2, <1>1, <1>3, <3>1, <3>2 DEF Socket, Events
    <3>4. CASE e.event = "close"
      <4>1. v(delivered) = [u(delivered) EXCEPT !.state = "closed"]
        BY <2>2, <3>4
      <4>. HIDE DEF u, v, s, e
      <4>. QED BY <3>3, <3>4, <4>1 DEF Socket
    <3>5. CASE e.event # "close"
      <4>1. v(delivered) = u(delivered)
        BY <2>2, <3>5
      <4>. HIDE DEF u, v, s, e
      <4>. QED BY <3>3, <3>5, <4>1, <1>3, <1>4 DEF Socket, Events
    <3>. QED BY <3>4, <3>5
  <2>. QED BY <2>1, <2>2
<1>7. CASE e.task \in Closers
  <2>. HIDE DEF v, s, e
  <2>. QED BY <1>5, <1>6, <1>7, EndStep
<1>8. CASE e.task \notin Closers
  <2>1. sock' = [sock EXCEPT ![c] = t(delivered)] /\ UNCHANGED conn
    BY <1>5, <1>8
  <2>2. LineOK(v(delivered)) /\ v(delivered).line # <<>>
    <3>. HIDE DEF v, s
    <3>. QED BY <1>1, <1>2, <1>6 DEF LineOK
  <2>3. t(delivered) \in Socket /\ LineOK(t(delivered)) /\ WireOK(t(delivered))
    <3>. HIDE DEF v
    <3>. QED BY <1>6, <2>2, LeaveLine
  <2>. HIDE DEF t
  <2>. QED BY <1>2, <2>1, <2>3, LiveSocketMoves
<1>. QED BY <1>7, <1>8

LEMMA ReturnStep ==
  ASSUME Typed, Sockets, NEW c \in Conns, Return(c)
  PROVE  Sockets'
<1>. DEFINE s == sock[c]
<1>1. s \in Socket /\ WireOK(s)
  BY DEF Sockets, SocketOK
<1>2. CASE End(c, s)
  BY <1>1, <1>2, EndStep DEF WireOK
<1>3. CASE s.busy /\ End(c, Sent(s, Head(s.line).event))
  <2>1. s.line # <<>> /\ s.wire \in {"quiet", "accepted"}
        /\ (Head(s.line).event = "accept" => s.wire = "quiet")
    BY <1>1, <1>3 DEF WireOK, Socket
  <2>2. Sent(s, Head(s.line).event) \in Socket /\ Sent(s, Head(s.line).event).wire # "broken"
    <3>. HIDE DEF s
    <3>. QED BY <1>1, <2>1, HeadIsEntry, SentIsWhole
  <2>. QED BY <1>3, <2>2, EndStep
<1>. QED BY <1>2, <1>3 DEF Return, Holder

(***************************************************************************)
(* The handshakes.                                                         *)
(***************************************************************************)
\* Nothing that Handshakes and Typed speak of moves but a connection's phase,
\* to "refused", to the end of a life, or from presenting no token.
LEMMA PhaseMoves ==
  ASSUME Typed, Handshakes, UNCHANGED <<epoch, store, expired>>, NEW c \in Conns,
         NEW p \in {"admitted", "live", "refused", "ended"},
         conn' = [conn EXCEPT ![c].phase = p],
         \/ p = "refused"
         \/ p \in {"live", "ended"} /\ Admitted(c)
         \/ p = "admitted" /\ conn[c].phase = "idle"
         \/ /\ p = "admitted" /\ conn[c].phase = "consumed"
            /\ conn[c].token # NoToken => store[conn[c].token].epoch >= conn[c].since
  PROVE  Typed' /\ Handshakes'
<1>1. Typed'
  BY DEF Typed, Connection
<1>2. /\ \A d \in Conns : conn'[d].token = conn[d].token /\ conn'[d].since = conn[d].since
      /\ \A d \in Conns : d # c => conn'[d].phase = conn[d].phase
      /\ conn'[c].phase = p
  BY DEF Typed, Connection
<1>3. \A d \in Conns : Admitted(d)' /\ conn'[d].token # NoToken
        => store[conn[d].token].epoch >= conn[d].since
  BY <1>2 DEF Admitted, Handshakes, AdmissionFollowsTheEpoch
<1>4. NoToken \notin Tokens => \A d \in Conns, t \in Tokens : Spends(d, t)' => Spends(d, t)
  BY <1>2 DEF Spends, Admitted, Handshakes
<1>. QED BY <1>1, <1>2, <1>3, <1>4, ConnectionAssumption
         DEF Handshakes, AdmissionFollowsTheEpoch, Admitted

LEMMA ConsumeStep ==
  ASSUME Typed, Handshakes, NEW c \in Conns, NEW t \in Tokens, consume(c, t)
  PROVE  Typed' /\ Handshakes'
<1>1. conn[c].phase = "idle" /\ UNCHANGED <<epoch, expired>>
  BY DEF consume
<1>2. CASE Refuse(c) /\ UNCHANGED store
  BY <1>1, <1>2, PhaseMoves DEF Refuse
<1>3. CASE \E proof \in BOOLEAN : store' = Consumed(t, proof) /\ Refuse(c)
  <2>1. /\ \A u \in Tokens : store[u].state = "gone" => store'[u].state = "gone"
        /\ \A u \in Tokens : store'[u].epoch = store[u].epoch
        /\ store' \in [Tokens -> Records]
    BY <1>3 DEF Consumed, Typed, Records
  <2>2. /\ \A d \in Conns : conn'[d].token = conn[d].token /\ conn'[d].since = conn[d].since
        /\ \A d \in Conns : d # c => conn'[d].phase = conn[d].phase
        /\ conn'[c].phase = "refused" /\ conn' \in [Conns -> Connection]
    BY <1>3 DEF Refuse, Typed, Connection
  <2>3. Typed'
    BY <1>1, <2>1, <2>2 DEF Typed
  <2>4. \A d \in Conns, u \in Tokens : Spends(d, u)' => Spends(d, u)
    BY <2>2 DEF Spends
  <2>5. AdmissionFollowsTheEpoch'
    <3>1. \A d \in Conns : Admitted(d)' => Admitted(d)
      BY <2>2 DEF Admitted
    <3>2. \A d \in Conns : conn[d].token \in Tokens \cup {NoToken}
      BY DEF Typed, Connection
    <3>. QED BY <2>1, <2>2, <3>1, <3>2 DEF Handshakes, AdmissionFollowsTheEpoch
  <2>. QED BY <1>1, <2>1, <2>2, <2>3, <2>4, <2>5 DEF Handshakes
<1>4. CASE /\ store[t].state = "live" /\ store' = [store EXCEPT ![t].state = "gone"]
           /\ \E fits \in BOOLEAN :
                conn' = [conn EXCEPT ![c] = [phase |-> "consumed", token |-> t,
                                             bindings |-> fits, since |-> epoch]]
  <2>1. /\ \A u \in Tokens : u # t => store'[u] = store[u]
        /\ store'[t].state = "gone" /\ store'[t].epoch = store[t].epoch
        /\ store' \in [Tokens -> Records]
    BY <1>4 DEF Typed, Records
  <2>2. /\ \A d \in Conns : d # c => conn'[d] = conn[d]
        /\ conn'[c].phase = "consumed" /\ conn'[c].token = t /\ conn'[c].since = epoch
        /\ conn' \in [Conns -> Connection]
    BY <1>4 DEF Typed, Connection
  <2>3. Typed'
    BY <1>1, <2>1, <2>2 DEF Typed
  <2>4. \A d \in Conns, u \in Tokens : Spends(d, u)' => (d = c /\ u = t) \/ (d # c /\ Spends(d, u))
    BY <2>2 DEF Spends
  <2>5. \A d \in Conns : ~Spends(d, t)
    BY <1>4 DEF Handshakes
  <2>6. AdmissionFollowsTheEpoch'
    <3>1. \A d \in Conns : Admitted(d)' => d # c /\ Admitted(d) /\ conn'[d] = conn[d]
      BY <2>2 DEF Admitted
    <3>2. \A d \in Conns : conn[d].token \in Tokens \cup {NoToken}
      BY DEF Typed, Connection
    <3>3. \A u \in Tokens : store'[u].epoch = store[u].epoch
      BY <2>1
    <3>. QED BY <3>1, <3>2, <3>3 DEF Handshakes, AdmissionFollowsTheEpoch
  <2>7. \A d \in Conns : conn'[d].since <= epoch /\ (conn'[d].phase = "idle" => conn'[d].token = NoToken)
    BY <2>2, <2>3 DEF Handshakes, Typed
  <2>8. \A d \in Conns, u \in Tokens : Spends(d, u)' => store'[u].state = "gone"
    BY <2>1, <2>4 DEF Handshakes
  <2>9. \A d, e \in Conns, u \in Tokens : Spends(d, u)' /\ Spends(e, u)' => d = e
    BY <2>4, <2>5 DEF Handshakes
  <2>. QED BY <1>1, <2>3, <2>6, <2>7, <2>8, <2>9 DEF Handshakes
<1>. QED BY <1>2, <1>3, <1>4 DEF consume, Consumed

\* A record that no handshake has taken changes as the endpoint or time wants.
LEMMA StoreOrClockMoves ==
  ASSUME Typed, Handshakes, UNCHANGED conn, Typed', epoch <= epoch',
         \A t \in Tokens : store[t].state = "gone" => store'[t] = store[t]
  PROVE  Handshakes'
<1>1. \A d \in Conns : conn[d].token # NoToken /\ Admitted(d)
        => store'[conn[d].token].epoch = store[conn[d].token].epoch
  <2>1. \A d \in Conns : conn[d].token \in Tokens \cup {NoToken}
    BY DEF Typed, Connection
  <2>2. \A d \in Conns : Admitted(d) => Spends(d, conn[d].token)
    BY DEF Admitted, Spends
  <2>. QED BY <2>1, <2>2 DEF Handshakes
<1>2. AdmissionFollowsTheEpoch'
  BY <1>1 DEF Handshakes, AdmissionFollowsTheEpoch, Admitted
<1>3. \A d \in Conns : conn[d].since <= epoch'
  BY ConnectionAssumption DEF Handshakes, Typed, Connection
<1>. QED BY <1>2, <1>3 DEF Handshakes, Spends

(***************************************************************************)
(* The invariant.                                                          *)
(***************************************************************************)
LEMMA WebSocketInitInv == Init => WebSocketInv
<1>. SUFFICES ASSUME Init PROVE WebSocketInv
  OBVIOUS
<1>1. Typed
  BY ConnectionAssumption DEF Init, Typed, Records, Connection
<1>2. Handshakes
  BY DEF Init, Handshakes, Spends, AdmissionFollowsTheEpoch, Admitted
<1>3. Sockets
  BY FreshIsSocket DEF Init, Sockets, SocketOK
<1>. QED BY <1>1, <1>2, <1>3 DEF WebSocketInv

LEMMA HandshakeStep ==
  ASSUME WebSocketInv, NEW c \in Conns,
         \/ \E t \in Tokens : consume(c, t)
         \/ EpochLookup(c) \/ authenticate(c)
  PROVE  WebSocketInv'
<1>. USE DEF WebSocketInv
<1>1. CASE \E t \in Tokens : consume(c, t)
  <2>1. /\ conn[c].phase = "idle" /\ UNCHANGED sock
        /\ conn'[c].phase \in {"consumed", "refused"}
        /\ \A d \in Conns : d # c => conn'[d].phase = conn[d].phase
    BY <1>1 DEF consume, Refuse, Typed, Connection
  <2>2. Sockets'
    BY <2>1, SocketsKept
  <2>. QED BY <1>1, <2>2, ConsumeStep
<1>2. CASE EpochLookup(c) \/ authenticate(c)
  <2>1. PICK p \in {"admitted", "refused"} :
          /\ conn' = [conn EXCEPT ![c].phase = p] /\ conn[c].phase \in {"idle", "consumed"}
          /\ UNCHANGED <<epoch, store, expired, sock>>
          /\ \/ p = "refused"
             \/ p = "admitted" /\ conn[c].phase = "idle"
             \/ p = "admitted" /\ conn[c].phase = "consumed"
                /\ epoch = store[conn[c].token].epoch
    BY <1>2 DEF EpochLookup, authenticate, Refuse
  <2>2. conn[c].since <= epoch
    BY DEF Handshakes
  <2>3. Typed' /\ Handshakes'
    BY <2>1, <2>2, PhaseMoves DEF Typed, Connection
  <2>4. /\ conn'[c].phase = p
        /\ \A d \in Conns : d # c => conn'[d].phase = conn[d].phase
    BY <2>1 DEF Typed, Connection
  <2>5. Sockets'
    BY <2>1, <2>4, SocketsKept
  <2>. QED BY <2>3, <2>5
<1>. QED BY <1>1, <1>2

LEMMA LifetimeStep ==
  ASSUME WebSocketInv, NEW c \in Conns,
         \/ supervise(c) \/ \E event \in Events : send(c, event)
         \/ \E k \in Closers : Wake(c, k)
         \/ revoke(c) \/ Turn(c) \/ TurnDropped(c) \/ Transmitted(c) \/ Return(c)
  PROVE  WebSocketInv'
<1>. USE DEF WebSocketInv
<1>1. Sockets'
  BY ConnectionAssumption, SuperviseStep, SendStep, WakeStep, RevokeStep, TurnStep,
     TurnDroppedStep, TransmittedStep, ReturnStep
<1>2. CASE UNCHANGED conn
  <2>1. UNCHANGED <<epoch, store, expired>>
    BY DEF supervise, send, Wake, revoke, Turn, TurnDropped, Transmitted, Return
  <2>. QED BY <1>1, <1>2, <2>1, StoreOrClockMoves DEF Typed
<1>3. CASE conn' # conn
  <2>1. CASE supervise(c)
    <3>1. PICK p \in {"live", "ended"} : conn' = [conn EXCEPT ![c].phase = p]
      BY <2>1 DEF supervise
    <3>. QED BY <1>1, <2>1, <3>1, PhaseMoves DEF supervise, Admitted
  <2>2. CASE TurnDropped(c) \/ Transmitted(c) \/ Return(c)
    <3>1. /\ sock[c].line # <<>> \/ sock[c].busy \/ conn[c].phase = "live"
          /\ conn' = [conn EXCEPT ![c].phase = "ended"]
          /\ UNCHANGED <<epoch, store, expired>>
      BY <1>3, <2>2 DEF TurnDropped, Transmitted, Return, End
    <3>2. conn[c].phase = "live"
      BY <3>1, TasksAreLive
    <3>. QED BY <1>1, <3>1, <3>2, PhaseMoves DEF Admitted
  <2>3. ~(\E event \in Events : send(c, event)) /\ ~(\E k \in Closers : Wake(c, k))
        /\ ~revoke(c) /\ ~Turn(c)
    BY <1>3 DEF send, Wake, revoke, Turn
  <2>. QED BY <2>1, <2>2, <2>3
<1>. QED BY <1>2, <1>3

LEMMA WebSocketNextInv == WebSocketInv /\ [Next]_vars => WebSocketInv'
<1>. SUFFICES ASSUME WebSocketInv, [Next]_vars PROVE WebSocketInv'
  OBVIOUS
<1>. USE DEF WebSocketInv
<1>1. CASE BumpEpoch
  <2>1. Typed' /\ epoch <= epoch' /\ UNCHANGED <<store, conn, sock>>
    BY <1>1, ConnectionAssumption DEF BumpEpoch, Typed
  <2>. QED BY <2>1, StoreOrClockMoves, SocketsKept
<1>2. ASSUME NEW t \in Tokens, issue(t) PROVE WebSocketInv'
  <2>1. Typed' /\ UNCHANGED <<epoch, conn, sock>>
    BY <1>2, ConnectionAssumption DEF issue, Typed, Records
  <2>2. \A u \in Tokens : store[u].state = "gone" => store'[u] = store[u]
    BY <1>2 DEF issue, Typed
  <2>3. epoch <= epoch'
    BY <2>1, ConnectionAssumption DEF Typed
  <2>. QED BY <2>1, <2>2, <2>3, StoreOrClockMoves, SocketsKept
<1>3. ASSUME NEW t \in Tokens, TokenExpires(t) PROVE WebSocketInv'
  <2>1. Typed' /\ epoch <= epoch' /\ UNCHANGED <<store, conn, sock>>
    BY <1>3, ConnectionAssumption DEF TokenExpires, Typed
  <2>. QED BY <2>1, StoreOrClockMoves, SocketsKept
<1>4. CASE UNCHANGED vars
  <2>1. Typed' /\ epoch <= epoch' /\ UNCHANGED <<store, conn, sock>>
    BY <1>4, ConnectionAssumption DEF vars, Typed
  <2>. QED BY <2>1, StoreOrClockMoves, SocketsKept
<1>. QED BY <1>1, <1>2, <1>3, <1>4, HandshakeStep, LifetimeStep DEF Next

\* Every behaviour keeps the invariant.
LEMMA WebSocketAlways == Spec => []WebSocketInv
BY WebSocketInitInv, WebSocketNextInv, PTL DEF Spec

\* Whatever handshakes race for a connect token, and whatever changes between
\* the store's answer and the epoch lookup, the token opens one socket at most,
\* and none if the account changed before it was presented.
THEOREM TokensAdmitOnce == Spec => []AdmissionsAreSound
<1>1. WebSocketInv => AdmissionsAreSound
  <2>. SUFFICES ASSUME WebSocketInv PROVE AdmissionsAreSound
    OBVIOUS
  <2>. USE DEF WebSocketInv
  <2>1. TypeOK
    BY DEF Typed, Sockets, SocketOK, LineOK, TypeOK
  <2>2. OneSocketPerToken
    <3>. SUFFICES ASSUME NEW c \in Conns, NEW d \in Conns, Admitted(c), Admitted(d),
                         conn[c].token = conn[d].token, conn[c].token # NoToken
                  PROVE  c = d
      BY DEF OneSocketPerToken
    <3>1. conn[c].token \in Tokens
      BY DEF Typed, Connection
    <3>2. Spends(c, conn[c].token) /\ Spends(d, conn[c].token)
      BY DEF Admitted, Spends
    <3>. QED BY <3>1, <3>2 DEF Handshakes
  <2>3. AdmissionFollowsTheEpoch
    BY DEF Handshakes
  <2>. QED BY <2>1, <2>2, <2>3 DEF AdmissionsAreSound
<1>. QED BY <1>1, WebSocketAlways, PTL

\* However the handler, the timer, a revocation and a refresh interleave their
\* events with the transmissions, and whichever of those fail, the client sees
\* one accept and one close at most, and nothing after the close.
THEOREM TheCloseIsLast == Spec => []NothingFollowsTheClose
<1>1. WebSocketInv => NothingFollowsTheClose
  BY DEF WebSocketInv, Sockets, SocketOK, WireOK, NothingFollowsTheClose
<1>. QED BY <1>1, WebSocketAlways, PTL

(***************************************************************************)
(* Part two: the JWKS provider, for any number of providers, requests and  *)
(* keys over one cache entry.                                              *)
(***************************************************************************)

\* What is left of an ordered dictionary after deletions.

\* Induction, as a statement about sets of numbers.
LEMMA NaturalsBySteps ==
  ASSUME NEW S, 0 \in S, \A n \in Nat : n \in S => n + 1 \in S
  PROVE  Nat \subseteq S
<1>. DEFINE T == Nat \ S
<1>1. SUFFICES ASSUME T # {} PROVE FALSE
  OBVIOUS
<1>2. PICK x \in T : \A y \in T : ~ (<<y, x>> \in OpToRel(<, Nat))
  <2>1. T \subseteq Nat
    OBVIOUS
  <2>. HIDE DEF T
  <2>. QED BY <1>1, <2>1, NatLessThanWellFounded, WFMin
<1>3. x \in Nat /\ x # 0 /\ x - 1 \in Nat
  OBVIOUS
<1>4. <<x - 1, x>> \in OpToRel(<, Nat)
  <2>1. x - 1 < x /\ <<x - 1, x>> \in Nat \X Nat
    BY <1>3
  <2>. QED BY <2>1, Zenon DEF OpToRel
<1>5. x - 1 \in S
  BY <1>2, <1>3, <1>4
<1>. QED BY <1>3, <1>5

\* The entries kept of the first n.
KeptUpTo(s, I, n, g) ==
  g = [i \in 0 .. n |->
         IF i = 0 THEN <<>> ELSE IF i \in I THEN Append(g[i - 1], s[i]) ELSE g[i - 1]]

LEMMA KeptExists ==
  ASSUME NEW S, NEW s \in Seq(S), NEW I
  PROVE  \E g : KeptUpTo(s, I, Len(s), g)
<1>. DEFINE Ns == {n \in Nat : \E g : KeptUpTo(s, I, n, g)}
<1>1. 0 \in Ns
  <2>1. PICK g : g = [i \in 0 .. 0 |-> <<>>]
    OBVIOUS
  <2>2. KeptUpTo(s, I, 0, g)
    BY <2>1 DEF KeptUpTo
  <2>. QED BY <2>2
<1>2. ASSUME NEW n \in Nat, n \in Ns PROVE n + 1 \in Ns
  <2>1. PICK g : KeptUpTo(s, I, n, g)
    BY <1>2
  <2>2. PICK h : h = [i \in 0 .. n + 1 |->
                        IF i <= n THEN g[i]
                        ELSE IF n + 1 \in I THEN Append(g[n], s[n + 1]) ELSE g[n]]
    OBVIOUS
  <2>3. \A i \in 0 .. n + 1 :
          h[i] = IF i = 0 THEN <<>> ELSE IF i \in I THEN Append(h[i - 1], s[i]) ELSE h[i - 1]
    <3>1. \A i \in 0 .. n :
            g[i] = IF i = 0 THEN <<>> ELSE IF i \in I THEN Append(g[i - 1], s[i]) ELSE g[i - 1]
      BY <2>1 DEF KeptUpTo
    <3>2. ASSUME NEW i \in 0 .. n + 1
          PROVE  h[i] = IF i = 0 THEN <<>> ELSE IF i \in I THEN Append(h[i - 1], s[i]) ELSE h[i - 1]
      <4>1. CASE i = 0
        BY <2>2, <3>1, <4>1
      <4>2. CASE i # 0 /\ i <= n
        <5>1. h[i] = g[i] /\ h[i - 1] = g[i - 1] /\ i \in 0 .. n
          BY <2>2, <4>2
        <5>. QED BY <3>1, <4>2, <5>1
      <4>3. CASE i = n + 1
        <5>1. h[i - 1] = g[n] /\ h[i] = IF n + 1 \in I THEN Append(g[n], s[n + 1]) ELSE g[n]
          BY <2>2, <4>3
        <5>. QED BY <4>3, <5>1
      <4>. QED BY <4>1, <4>2, <4>3
    <3>. QED BY <3>2
  <2>4. KeptUpTo(s, I, n + 1, h)
    BY <2>2, <2>3 DEF KeptUpTo
  <2>. QED BY <2>4
<1>. HIDE DEF Ns
<1>3. Nat \subseteq Ns
  BY <1>1, <1>2, NaturalsBySteps
<1>. QED BY <1>3, LenProperties DEF Ns

\* It is a sequence of the same entries, shorter if one was deleted.
LEMMA KeptIs ==
  ASSUME NEW S, NEW s \in Seq(S), NEW I
  PROVE  /\ Kept(s, I) \in Seq(S) /\ Len(Kept(s, I)) <= Len(s)
         /\ \A k \in 1 .. Len(s) : k \notin I => Len(Kept(s, I)) < Len(s)
<1>1. PICK g : KeptUpTo(s, I, Len(s), g) /\ Kept(s, I) = g[Len(s)]
  <2>. DEFINE G == CHOOSE g : KeptUpTo(s, I, Len(s), g)
  <2>1. KeptUpTo(s, I, Len(s), G)
    BY KeptExists
  <2>2. Kept(s, I) = G[Len(s)]
    BY Zenon DEF Kept, KeptUpTo
  <2>. QED BY <2>1, <2>2
<1>. DEFINE Ns == {n \in Nat : n <= Len(s) =>
                     /\ g[n] \in Seq(S) /\ Len(g[n]) <= n
                     /\ \A k \in 1 .. n : k \notin I => Len(g[n]) < n}
<1>2. 0 \in Ns
  BY <1>1 DEF KeptUpTo
<1>3. ASSUME NEW n \in Nat, n \in Ns PROVE n + 1 \in Ns
  <2>1. SUFFICES ASSUME n + 1 <= Len(s)
                 PROVE  /\ g[n + 1] \in Seq(S) /\ Len(g[n + 1]) <= n + 1
                        /\ \A k \in 1 .. n + 1 : k \notin I => Len(g[n + 1]) < n + 1
    OBVIOUS
  <2>2. /\ g[n] \in Seq(S) /\ Len(g[n]) <= n /\ Len(g[n]) \in Nat
        /\ \A k \in 1 .. n : k \notin I => Len(g[n]) < n
    BY <1>3, <2>1, LenProperties
  <2>3. g[n + 1] = IF n + 1 \in I THEN Append(g[n], s[n + 1]) ELSE g[n]
    <3>1. n + 1 \in 0 .. Len(s) /\ n + 1 # 0 /\ (n + 1) - 1 = n
      BY <2>1, LenProperties
    <3>2. g[n + 1] = IF n + 1 = 0 THEN <<>>
                     ELSE IF n + 1 \in I THEN Append(g[(n + 1) - 1], s[n + 1]) ELSE g[(n + 1) - 1]
      BY <1>1, <3>1 DEF KeptUpTo
    <3>. QED BY <3>1, <3>2
  <2>4. s[n + 1] \in S
    BY <2>1, ElementOfSeq
  <2>5. CASE n + 1 \in I
    <3>1. g[n + 1] \in Seq(S) /\ Len(g[n + 1]) = Len(g[n]) + 1
      BY <2>2, <2>3, <2>4, <2>5, AppendProperties
    <3>. QED BY <2>2, <2>5, <3>1
  <2>6. CASE n + 1 \notin I
    BY <2>2, <2>3, <2>6
  <2>. QED BY <2>5, <2>6
<1>. HIDE DEF Ns
<1>4. Nat \subseteq Ns
  BY <1>2, <1>3, NaturalsBySteps
<1>5. Len(s) \in Nat /\ Len(s) \in Ns
  BY <1>4, LenProperties
<1>. QED BY <1>1, <1>5 DEF Ns

----------------------------------------------------------------------------
\* The invariant.

\* What a request knows at each await.  One that wants a forced refresh missed
\* its key in the snapshot whose generation it wants to be replaced.
Missed(r) ==
  r.kid \in Kids /\ r.snapshot # None /\ r.kid \notin r.snapshot.keys

RequestOK(r) ==
  /\ r.pc # "answered" /\ (r.pc # "idle" => r.by \in Providers)
  /\ r.pc = "negative" => Missed(r) /\ r.forced = None
  /\ r.pc \in {"coordinate", "waiting", "woken"} /\ r.forced # None
       => Missed(r) /\ r.forced = r.snapshot.generation
  /\ r.pc = "woken" => IF r.result = None THEN r.failed ELSE r.published
  /\ r.pc = "remember" => /\ r.kid \in Kids /\ r.generation \in Nat \ {0}
                           /\ r.outcome \in {"invalid", "unavailable"}

\* The cache holds what the request read until something is published.
StillCached(r) ==
  r.pc \in {"negative", "coordinate"} /\ r.kid # None /\ ~r.published
    => cache \in {None, r.snapshot}

RequestsOK ==
  /\ request \in [Clients -> Request]
  /\ \A c \in Clients : RequestOK(request[c]) /\ StillCached(request[c])

ServedOK ==
  /\ served \in {None} \cup
       [fresh : BOOLEAN, usable : BOOLEAN, published : BOOLEAN, failed : BOOLEAN, closed : BOOLEAN]
  /\ ServedKeysAreCurrent

\* The refresh that runs is the one the coordinator knows.
OneFlight == \A t \in Live : t = coordination.refresh

\* Its provider has not left, or waits for it, or gave up without closing the fetcher.
Owned ==
  \A t \in Live :
    LET q == provider[tasks[t].by] IN
    /\ ~q.fetcherClosed
    /\ q.stage \in {"new", "open", "detach", "closed"} \/ (q.stage = "gather" /\ q.gathers = t)

ClosedAtTheEnd == \A p \in Providers : provider[p].fetcherClosed => provider[p].stage = "closed"

Attached == {p \in Providers : provider[p].stage \in {"open", "detach"}}
UsersCounted == Cardinality(Attached) <= coordination.users

JWKSInv ==
  /\ JWKSTypeOK /\ RemembersFew /\ RequestsOK /\ ServedOK
  /\ OneFlight /\ Owned /\ ClosedAtTheEnd /\ UsersCounted

----------------------------------------------------------------------------
\* How a request goes on.

\* An answer that hands out a key may do so.
Usable(r, s) == r.at < s.fresh \/ r.published \/ (r.at < s.stale /\ (r.failed \/ Closed(r.by)))
Due(r) == r.outcome = "key" => r.used \in Snapshot /\ r.by \in Providers /\ Usable(r, r.used)

Allowed(r) ==
  r \in Request /\ IF r.pc = "answered" THEN Due(r) ELSE RequestOK(r) /\ StillCached(r)

LEMMA RestingOK ==
  /\ Resting \in Request /\ RequestOK(Resting) /\ Resting.pc = "idle"
  /\ Resting.kid = None /\ Resting.forced = None
BY NoneAssumption DEF Resting, Request, RequestOK

LEMMA Grounded ==
  ASSUME NEW r \in Request, Due(r), served' = Grounds(r), provider \in [Providers -> ProviderState]
  PROVE  ServedOK'
<1>1. CASE r.outcome # "key"
  BY <1>1 DEF Grounds, ServedOK, ServedKeysAreCurrent
<1>2. CASE r.outcome = "key"
  <2>. DEFINE fresh == r.at < r.used.fresh
              usable == r.at < r.used.stale
              closed == Closed(r.by)
  <2>1. fresh \in BOOLEAN /\ usable \in BOOLEAN /\ closed \in BOOLEAN
        /\ r.published \in BOOLEAN /\ r.failed \in BOOLEAN
    BY DEF Request, Closed
  <2>2. served' = [fresh |-> fresh, usable |-> usable, published |-> r.published,
                   failed |-> r.failed, closed |-> closed]
    BY <1>2 DEF Grounds
  <2>3. fresh \/ r.published \/ (usable /\ (r.failed \/ closed))
    BY <1>2 DEF Due, Usable
  <2>. HIDE DEF fresh, usable, closed
  <2>. QED BY <2>1, <2>2, <2>3 DEF ServedOK, ServedKeysAreCurrent
<1>. QED BY <1>1, <1>2

LEMMA Goes ==
  ASSUME JWKSInv, NEW c \in Clients, NEW r, Allowed(r), Continue(c, r), UNCHANGED cache
  PROVE  RequestsOK' /\ ServedOK'
<1>1. request \in [Clients -> Request]
  BY DEF JWKSInv, RequestsOK
<1>2. CASE r.pc = "answered"
  <2>1. request' = [request EXCEPT ![c] = Resting] /\ served' = Grounds(r)
    BY <1>2 DEF Continue
  <2>2. ServedOK'
    BY <1>2, <2>1, Grounded DEF Allowed, JWKSInv, JWKSTypeOK
  <2>3. RequestsOK'
    BY <1>1, <2>1, RestingOK DEF JWKSInv, RequestsOK, StillCached
  <2>. QED BY <2>2, <2>3
<1>3. CASE r.pc # "answered"
  <2>1. request' = [request EXCEPT ![c] = r] /\ served' = None
    BY <1>3 DEF Continue
  <2>2. ServedOK'
    BY <2>1 DEF ServedOK, ServedKeysAreCurrent
  <2>3. RequestsOK'
    BY <1>1, <1>3, <2>1 DEF JWKSInv, RequestsOK, StillCached, Allowed
  <2>. QED BY <2>2, <2>3
<1>. QED BY <1>2, <1>3

LEMMA MayServe ==
  ASSUME NEW r \in Request, r.by \in Providers, NEW s \in Snapshot, Usable(r, s)
  PROVE  Allowed(Served(r, s))
<1>1. PICK q : q = Served(r, s)
  OBVIOUS
<1>2. q \in Request /\ q.pc = "answered" /\ q.used = s /\ q.by = r.by /\ q.at = r.at
      /\ q.published = r.published /\ q.failed = r.failed
  BY <1>1 DEF Served, Answered, Request
<1>. QED BY <1>1, <1>2 DEF Allowed, Due, Usable

LEMMA MayRefuse ==
  ASSUME NEW r \in Request, NEW outcome \in {"invalid", "unavailable", "warm"}
  PROVE  Allowed(Answered(r, outcome))
<1>1. PICK q : q = Answered(r, outcome)
  OBVIOUS
<1>2. q \in Request /\ q.pc = "answered" /\ q.outcome # "key"
  BY <1>1 DEF Answered, Request
<1>. QED BY <1>1, <1>2 DEF Allowed, Due

\* Whatever a refresh came to, the request goes on or answers as it may.
LEMMA ConcludeOK ==
  ASSUME NEW r \in Request, r.by \in Providers, NEW result \in Snapshot \cup {None},
         r.forced # None => Missed(r) /\ r.forced = r.snapshot.generation,
         result = None /\ r.forced = None => r.failed \/ Closed(r.by),
         result # None /\ r.kid \in result.keys => r.published \/ r.at < result.fresh
  PROVE  Allowed(Conclude(r, result))
<1>1. ASSUME NEW outcome \in {"invalid", "unavailable"}, NEW n \in Nat \ {0}, r.kid \in Kids
      PROVE  Allowed(Remembers(r, outcome, n))
  <2>1. PICK q : q = Remembers(r, outcome, n)
    OBVIOUS
  <2>2. q \in Request /\ q.pc = "remember" /\ q.outcome = outcome /\ q.generation = n
        /\ q.kid = r.kid /\ q.by = r.by
    BY <1>1, <2>1 DEF Remembers, Request
  <2>3. RequestOK(q) /\ StillCached(q)
    BY <1>1, <2>2 DEF RequestOK, StillCached
  <2>. QED BY <2>1, <2>2, <2>3 DEF Allowed
<1>4. CASE result = None /\ r.forced # None
  <2>1. r.snapshot.generation \in Nat \ {0}
    BY <1>4 DEF Missed, Request, Snapshot
  <2>. QED BY <1>1, <1>4, <2>1 DEF Conclude, Missed
<1>5. CASE result = None /\ r.forced = None /\ StaleAllowed(r)
  <2>1. r.snapshot \in Snapshot /\ Usable(r, r.snapshot)
    BY <1>5 DEF StaleAllowed, Request, Usable
  <2>2. Conclude(r, result) = Served(r, r.snapshot)
    BY <1>5 DEF Conclude
  <2>. QED BY <2>1, <2>2, MayServe
<1>6. CASE result = None /\ r.forced = None /\ ~StaleAllowed(r)
  BY <1>6, MayRefuse DEF Conclude
<1>7. CASE result # None /\ r.kid = None
  <2>1. r.kid \notin result.keys
    BY <1>7, NoneAssumption DEF Snapshot
  <2>2. Conclude(r, result) = Answered(r, "warm")
    BY <1>7, <2>1 DEF Conclude
  <2>. QED BY <2>2, MayRefuse
<1>8. CASE result # None /\ r.kid # None /\ r.kid \in result.keys
  <2>1. Conclude(r, result) = Served(r, result)
    BY <1>8 DEF Conclude
  <2>2. result \in Snapshot /\ Usable(r, result)
    <3>1. result \in Snapshot
      BY <1>8
    <3>2. r.published \/ r.at < result.fresh
      BY <1>8
    <3>. QED BY <3>1, <3>2, Zenon DEF Usable
  <2>3. Allowed(Served(r, result))
    BY <2>2, MayServe
  <2>. QED BY <2>1, <2>3
<1>9. CASE result # None /\ r.kid # None /\ r.kid \notin result.keys
  <2>1. r.kid \in Kids /\ result.generation \in Nat \ {0}
    BY <1>9 DEF Request, Snapshot
  <2>. QED BY <1>1, <1>9, <2>1 DEF Conclude
<1>. QED BY <1>4, <1>5, <1>6, <1>7, <1>8, <1>9

----------------------------------------------------------------------------
\* The steps of requests.

\* What a step of a request leaves alone.
LEMMA SelectingKeeps ==
  ASSUME JWKSInv, RequestsOK', ServedOK', UNCHANGED <<now, cache, tasks, provider>>,
         coordination' \in Coordination, Len(coordination'.negative) <= MaximumUnknown,
         coordination'.refresh = coordination.refresh, coordination'.users = coordination.users,
         spent' \in BOOLEAN
  PROVE  JWKSInv'
BY DEF JWKSInv, JWKSTypeOK, RemembersFew, RequestsOK, ServedOK, OneFlight, Owned, ClosedAtTheEnd,
       UsersCounted, Attached, Live

LEMMA OnlyRequests ==
  ASSUME JWKSInv, NEW c \in Clients, NEW r, Allowed(r), Continue(c, r),
         UNCHANGED <<now, cache, coordination, tasks, provider, spent>>
  PROVE  JWKSInv'
<1>1. RequestsOK' /\ ServedOK'
  BY Goes
<1>. QED BY <1>1, SelectingKeeps DEF JWKSInv, JWKSTypeOK, RemembersFew

\* The fields of a request at an await.
LEMMA At ==
  ASSUME JWKSInv, NEW c \in Clients
  PROVE  request[c] \in Request /\ RequestOK(request[c]) /\ StillCached(request[c])
BY DEF JWKSInv, RequestsOK

LEMMA SelectStep ==
  ASSUME JWKSInv, NEW c \in Clients, NEW p \in Providers, NEW kid \in Kids, Select(c, p, kid)
  PROVE  JWKSInv'
<1>. DEFINE r == [Resting EXCEPT !.by = p, !.kid = kid, !.at = now, !.snapshot = cache]
<1>0. now \in Nat /\ cache \in Snapshot \cup {None}
  BY PolicyAssumption DEF JWKSInv, JWKSTypeOK
<1>1. /\ r \in Request /\ r.by = p /\ r.kid = kid /\ r.at = now /\ r.snapshot = cache
      /\ r.forced = None
  BY <1>0, RestingOK DEF Request
<1>2. PICK next : /\ Continue(c, next)
                  /\ next = IF Closed(p) THEN Answered(r, "unavailable")
                            ELSE IF ~Fresh(cache, now) THEN [r EXCEPT !.pc = "coordinate"]
                            ELSE IF kid \in cache.keys THEN Served(r, cache)
                            ELSE [r EXCEPT !.pc = "negative"]
  BY DEF Select
<1>. HIDE DEF r
<1>3. Allowed(next)
  <2>1. CASE next = Answered(r, "unavailable")
    BY <1>1, <2>1, MayRefuse
  <2>2. CASE next = [r EXCEPT !.pc = "coordinate"]
    <3>1. next \in Request /\ next.pc = "coordinate" /\ next.by = p /\ next.forced = None
          /\ next.snapshot = cache
      BY <1>1, <2>2 DEF Request
    <3>. QED BY <3>1 DEF Allowed, RequestOK, StillCached
  <2>3. CASE Fresh(cache, now) /\ next = Served(r, cache)
    <3>1. cache \in Snapshot /\ now < cache.fresh
      BY <2>3 DEF JWKSInv, JWKSTypeOK, Fresh
    <3>2. Usable(r, cache)
      BY <1>1, <3>1 DEF Usable
    <3>. QED BY <1>1, <2>3, <3>1, <3>2, MayServe
  <2>4. CASE Fresh(cache, now) /\ kid \notin cache.keys /\ next = [r EXCEPT !.pc = "negative"]
    <3>1. next \in Request /\ next.pc = "negative" /\ next.by = p /\ next.forced = None
          /\ next.snapshot = cache /\ next.kid = kid
      BY <1>1, <2>4 DEF Request
    <3>. QED BY <2>4, <3>1 DEF Allowed, RequestOK, StillCached, Missed, Fresh
  <2>. QED BY <1>2, <2>1, <2>2, <2>3, <2>4
<1>. QED BY <1>2, <1>3, OnlyRequests DEF Select

LEMMA WarmupStep ==
  ASSUME JWKSInv, NEW c \in Clients, NEW p \in Providers, Warmup(c, p)
  PROVE  JWKSInv'
<1>. DEFINE r == [Resting EXCEPT !.by = p, !.at = now]
<1>0. now \in Nat
  BY PolicyAssumption DEF JWKSInv, JWKSTypeOK
<1>1. r \in Request /\ r.by = p /\ r.kid = None /\ r.forced = None
  BY <1>0, RestingOK DEF Request
<1>2. PICK next : /\ Continue(c, next)
                  /\ next = IF Closed(p) THEN Answered(r, "unavailable")
                            ELSE [r EXCEPT !.pc = "coordinate"]
  BY DEF Warmup
<1>. HIDE DEF r
<1>3. Allowed(next)
  <2>1. CASE next = Answered(r, "unavailable")
    BY <1>1, <2>1, MayRefuse
  <2>2. CASE next = [r EXCEPT !.pc = "coordinate"]
    <3>1. next \in Request /\ next.pc = "coordinate" /\ next.by = p /\ next.forced = None
          /\ next.kid = None
      BY <1>1, <2>2 DEF Request
    <3>. QED BY <3>1 DEF Allowed, RequestOK, StillCached
  <2>. QED BY <1>2, <2>1, <2>2
<1>. QED BY <1>2, <1>3, OnlyRequests DEF Warmup

\* Both deletions only shorten the dictionary.
LEMMA FewerNegatives ==
  ASSUME NEW s \in Seq(Negative), NEW kid, NEW n, NEW at
  PROVE  /\ Pruned(s, n, at) \in Seq(Negative) /\ Len(Pruned(s, n, at)) <= Len(s)
         /\ Without(s, kid) \in Seq(Negative) /\ Len(Without(s, kid)) <= Len(s)
         /\ \A i \in 1 .. Len(s) : s[i].kid = kid => Len(Without(s, kid)) < Len(s)
<1>. DEFINE Others == {i \in DOMAIN s : s[i].kid # kid}
<1>1. Without(s, kid) = Kept(s, Others)
  BY DEF Without
<1>2. \A i \in 1 .. Len(s) : s[i].kid = kid => i \notin Others
  OBVIOUS
<1>. HIDE DEF Others
<1>. QED BY <1>1, <1>2, KeptIs DEF Pruned

LEMMA CheckNegativeStep ==
  ASSUME JWKSInv, NEW c \in Clients, CheckNegative(c) PROVE JWKSInv'
<1>1. PICK r \in Request : /\ r = request[c] /\ r.pc = "negative" /\ RequestOK(r) /\ StillCached(r)
                           /\ Missed(r) /\ r.forced = None /\ r.by \in Providers
  BY At DEF CheckNegative, RequestOK
<1>. DEFINE kept == Pruned(coordination.negative, r.snapshot.generation, r.at)
            hit == {i \in 1 .. Len(kept) : kept[i].kid = r.kid}
<1>2. kept \in Seq(Negative) /\ Len(kept) <= MaximumUnknown
  <2>1. coordination.negative \in Seq(Negative) /\ Len(coordination.negative) <= MaximumUnknown
    BY DEF JWKSInv, JWKSTypeOK, Coordination, RemembersFew
  <2>2. Pruned(coordination.negative, r.snapshot.generation, r.at) \in Seq(Negative)
        /\ Len(kept) <= Len(coordination.negative)
    BY <2>1, FewerNegatives
  <2>. QED BY <2>1, <2>2, LenProperties, PolicyAssumption
<1>3. PICK negative : /\ coordination' = [coordination EXCEPT !.negative = negative]
                      /\ negative = IF hit = {} THEN kept
                                    ELSE Append(Without(kept, r.kid), kept[CHOOSE i \in hit : TRUE])
  BY <1>1 DEF CheckNegative
<1>4. PICK next : /\ Continue(c, next)
                  /\ next = IF hit # {} THEN Answered(r, "invalid")
                            ELSE [r EXCEPT !.pc = "coordinate", !.forced = r.snapshot.generation]
  BY <1>1 DEF CheckNegative
<1>. HIDE DEF kept
<1>5. negative \in Seq(Negative) /\ Len(negative) <= MaximumUnknown
  <2>1. CASE hit = {}
    BY <1>2, <1>3, <2>1
  <2>2. CASE hit # {}
    <3>1. PICK i \in 1 .. Len(kept) : kept[i].kid = r.kid /\ i = CHOOSE j \in hit : TRUE
      BY <2>2
    <3>2. /\ Without(kept, r.kid) \in Seq(Negative) /\ Len(Without(kept, r.kid)) < Len(kept)
          /\ kept[i] \in Negative
      BY <1>2, <3>1, FewerNegatives, ElementOfSeq
    <3>3. negative = Append(Without(kept, r.kid), kept[i])
      BY <1>3, <2>2, <3>1
    <3>4. negative \in Seq(Negative) /\ Len(negative) = Len(Without(kept, r.kid)) + 1
      BY <3>2, <3>3, AppendProperties
    <3>. QED BY <1>2, <3>2, <3>4, LenProperties, PolicyAssumption
  <2>. QED BY <2>1, <2>2
<1>6. Allowed(next)
  <2>1. CASE next = Answered(r, "invalid")
    BY <2>1, MayRefuse
  <2>2. CASE next = [r EXCEPT !.pc = "coordinate", !.forced = r.snapshot.generation]
    <3>1. r.snapshot.generation \in Nat
      BY <1>1 DEF Missed, Request, Snapshot
    <3>2. /\ next \in Request /\ next.pc = "coordinate" /\ next.by = r.by /\ next.kid = r.kid
          /\ next.snapshot = r.snapshot /\ next.forced = r.snapshot.generation
          /\ next.published = r.published
      BY <2>2, <3>1 DEF Request
    <3>. QED BY <1>1, <3>2 DEF Allowed, RequestOK, StillCached, Missed
  <2>. QED BY <1>4, <2>1, <2>2
<1>7. RequestsOK' /\ ServedOK'
  BY <1>4, <1>6, Goes DEF CheckNegative
<1>8. /\ coordination' \in Coordination /\ coordination'.negative = negative
      /\ coordination'.refresh = coordination.refresh /\ coordination'.users = coordination.users
  BY <1>3, <1>5 DEF JWKSInv, JWKSTypeOK, Coordination
<1>. QED BY <1>5, <1>7, <1>8, SelectingKeeps DEF CheckNegative, JWKSInv, JWKSTypeOK

LEMMA RememberStep ==
  ASSUME JWKSInv, NEW c \in Clients, Remember(c) PROVE JWKSInv'
<1>1. PICK r \in Request :
        /\ r = request[c] /\ r.pc = "remember" /\ r.kid \in Kids /\ r.generation \in Nat \ {0}
        /\ r.outcome \in {"invalid", "unavailable"}
  BY At DEF Remember, RequestOK
<1>. DEFINE pruned == Pruned(coordination.negative, r.generation, r.at)
            kept == Without(pruned, r.kid)
            entry == [generation |-> r.generation, kid |-> r.kid, expires |-> r.at + Cooldown]
<1>2. coordination' = [coordination EXCEPT !.negative = Trim(Append(kept, entry))]
  BY <1>1 DEF Remember
<1>3. kept \in Seq(Negative) /\ Len(kept) <= MaximumUnknown
  <2>1. coordination.negative \in Seq(Negative) /\ Len(coordination.negative) <= MaximumUnknown
    BY DEF JWKSInv, JWKSTypeOK, Coordination, RemembersFew
  <2>2. pruned \in Seq(Negative) /\ Len(pruned) <= Len(coordination.negative)
    BY <2>1, FewerNegatives
  <2>. HIDE DEF pruned
  <2>3. kept \in Seq(Negative) /\ Len(kept) <= Len(pruned)
    BY <2>2, FewerNegatives
  <2>. QED BY <2>1, <2>2, <2>3, LenProperties, PolicyAssumption
<1>4. entry \in Negative
  BY <1>1, PolicyAssumption DEF Negative, Request
<1>. HIDE DEF kept, entry
<1>5. /\ Trim(Append(kept, entry)) \in Seq(Negative)
      /\ Len(Trim(Append(kept, entry))) <= MaximumUnknown
  <2>1. PICK s \in Seq(Negative) : s = Append(kept, entry) /\ Len(s) = Len(kept) + 1
    BY <1>3, <1>4, AppendProperties
  <2>2. Len(s) > MaximumUnknown => Tail(s) \in Seq(Negative) /\ Len(Tail(s)) = Len(s) - 1
    BY <1>3, <2>1, PolicyAssumption, LenProperties, HeadTailProperties, EmptySeq
  <2>. QED BY <1>3, <2>1, <2>2, LenProperties, PolicyAssumption DEF Trim
<1>6. Allowed(Answered(r, r.outcome))
  BY <1>1, MayRefuse
<1>7. RequestsOK' /\ ServedOK'
  BY <1>1, <1>6, Goes DEF Remember
<1>8. /\ coordination' \in Coordination /\ coordination'.negative = Trim(Append(kept, entry))
      /\ coordination'.refresh = coordination.refresh /\ coordination'.users = coordination.users
  BY <1>2, <1>5 DEF JWKSInv, JWKSTypeOK, Coordination
<1>. QED BY <1>5, <1>7, <1>8, SelectingKeeps DEF Remember, JWKSInv, JWKSTypeOK

\* The refresh is over or was not needed: what the cache holds is the answer.
LEMMA CoordinateImmediateStep ==
  ASSUME JWKSInv, NEW c \in Clients, CoordinateImmediate(c) PROVE JWKSInv'
<1>1. PICK r \in Request :
        /\ r = request[c] /\ r.pc = "coordinate" /\ StillCached(r) /\ r.by \in Providers
        /\ r.forced # None => Missed(r) /\ r.forced = r.snapshot.generation
  BY At DEF CoordinateImmediate, RequestOK
<1>2. PICK result \in Snapshot \cup {None} : result = IF Closed(r.by) THEN None ELSE cache
  BY DEF JWKSInv, JWKSTypeOK
<1>3. /\ Continue(c, Conclude(r, result))
      /\ Closed(r.by) \/ AlreadyRefreshed(r) \/ ForcedUsed(r)
  BY <1>1, <1>2 DEF CoordinateImmediate
<1>4. result = None /\ r.forced = None => Closed(r.by)
  BY <1>2, <1>3 DEF AlreadyRefreshed, Fresh, ForcedUsed
<1>5. result # None /\ r.kid \in result.keys => r.published \/ r.at < result.fresh
  <2>1. SUFFICES ASSUME ~Closed(r.by), result = cache, cache # None, r.kid \in cache.keys, ~r.published
                 PROVE  r.at < cache.fresh
    BY <1>2
  <2>2. r.forced = None
    BY <1>1, <2>1, NoneAssumption DEF StillCached, Missed
  <2>. QED BY <1>3, <2>1, <2>2 DEF AlreadyRefreshed, ForcedUsed, Fresh
<1>6. Allowed(Conclude(r, result))
  BY <1>1, <1>4, <1>5, ConcludeOK
<1>. QED BY <1>3, <1>6, OnlyRequests DEF CoordinateImmediate

LEMMA CoordinateJoinStep ==
  ASSUME JWKSInv, NEW c \in Clients, CoordinateJoin(c) PROVE JWKSInv'
<1>1. PICK r \in Request :
        /\ r = request[c] /\ r.pc = "coordinate" /\ r.by \in Providers
        /\ r.forced # None => Missed(r) /\ r.forced = r.snapshot.generation
  BY At DEF CoordinateJoin, RequestOK
<1>2. PICK t \in TaskIds : t = coordination.refresh
  BY DEF CoordinateJoin, Joins, JWKSInv, JWKSTypeOK, Coordination
<1>3. CASE t \in Live
  <2>1. PICK next : next = [r EXCEPT !.pc = "waiting", !.task = t]
    OBVIOUS
  <2>2. Continue(c, next)
    BY <1>1, <1>2, <1>3, <2>1 DEF CoordinateJoin
  <2>3. /\ next \in Request /\ next.pc = "waiting" /\ next.by = r.by /\ next.forced = r.forced
        /\ next.kid = r.kid /\ next.snapshot = r.snapshot
    BY <2>1 DEF Request
  <2>4. Allowed(next)
    BY <1>1, <2>3 DEF Allowed, RequestOK, StillCached, Missed
  <2>. QED BY <2>2, <2>4, OnlyRequests DEF CoordinateJoin
<1>4. CASE t \notin Live
  <2>1. PICK q : q = [r EXCEPT !.failed = TRUE]
    OBVIOUS
  <2>2. Continue(c, Conclude(q, None))
    BY <1>1, <1>2, <1>4, <2>1 DEF CoordinateJoin
  <2>3. /\ q \in Request /\ q.failed /\ q.by = r.by /\ q.forced = r.forced /\ q.kid = r.kid
        /\ q.snapshot = r.snapshot
    BY <2>1 DEF Request
  <2>4. Allowed(Conclude(q, None))
    BY <1>1, <2>3, ConcludeOK DEF Missed
  <2>. QED BY <2>2, <2>4, OnlyRequests DEF CoordinateJoin
<1>. QED BY <1>3, <1>4

LEMMA ResumeStep ==
  ASSUME JWKSInv, NEW c \in Clients, Resume(c) PROVE JWKSInv'
<1>1. PICK r \in Request :
        /\ r = request[c] /\ r.by \in Providers
        /\ r.forced # None => Missed(r) /\ r.forced = r.snapshot.generation
        /\ IF r.result = None THEN r.failed ELSE r.published
  BY At DEF Resume, RequestOK
<1>2. PICK result \in Snapshot \cup {None} : result = IF Closed(r.by) THEN None ELSE r.result
  BY DEF Request
<1>3. Continue(c, Conclude(r, result))
  BY <1>1, <1>2 DEF Resume
<1>4. Allowed(Conclude(r, result))
  BY <1>1, <1>2, ConcludeOK
<1>. QED BY <1>3, <1>4, OnlyRequests DEF Resume

LEMMA AbortStep ==
  ASSUME JWKSInv, NEW c \in Clients, Abort(c) PROVE JWKSInv'
<1>1. RequestsOK'
  BY RestingOK DEF Abort, JWKSInv, RequestsOK, StillCached
<1>2. ServedOK'
  BY DEF Abort, ServedOK, ServedKeysAreCurrent
<1>. QED BY <1>1, <1>2, SelectingKeeps DEF Abort, JWKSInv, JWKSTypeOK, RemembersFew

\* A refresh starts when none is known to the coordinator, so none runs.
LEMMA CoordinateStartStep ==
  ASSUME JWKSInv, NEW c \in Clients, NEW t \in TaskIds, CoordinateStart(c, t) PROVE JWKSInv'
<1>1. PICK r \in Request :
        /\ r = request[c] /\ r.pc = "coordinate" /\ r.by \in Providers
        /\ r.forced # None => Missed(r) /\ r.forced = r.snapshot.generation
  BY At DEF CoordinateStart, RequestOK
<1>2. PICK next : next = [r EXCEPT !.pc = "waiting", !.task = t]
  OBVIOUS
<1>3. /\ Continue(c, next) /\ ~Closed(r.by) /\ ~Joins(r)
      /\ tasks' = [u \in Live \cup {t} |-> IF u = t THEN NewTask(r) ELSE tasks[u]]
      /\ coordination' = [coordination EXCEPT
           !.refresh = t, !.forced = IF r.forced # None THEN r.forced ELSE @]
      /\ spent' = (spent \/ r.forced # None)
      /\ UNCHANGED <<now, cache, provider>>
  BY <1>1, <1>2 DEF CoordinateStart
<1>4. Allowed(next)
  <2>1. /\ next \in Request /\ next.pc = "waiting" /\ next.by = r.by /\ next.forced = r.forced
        /\ next.kid = r.kid /\ next.snapshot = r.snapshot
    BY <1>2 DEF Request
  <2>. QED BY <1>1, <2>1 DEF Allowed, RequestOK, StillCached, Missed
<1>5. RequestsOK' /\ ServedOK'
  BY <1>3, <1>4, Goes
<1>6. coordination \in Coordination
  BY DEF JWKSInv, JWKSTypeOK
<1>7. /\ coordination' \in Coordination /\ coordination'.refresh = t
      /\ coordination'.negative = coordination.negative /\ coordination'.users = coordination.users
  <2>1. r.forced \in Nat \cup {None} /\ coordination.forced \in Nat \cup {None}
    BY <1>6 DEF Request, Coordination
  <2>. QED BY <1>3, <1>6, <2>1 DEF Coordination
<1>8. Live = {}
  BY <1>3, NoneAssumption DEF Joins, OneFlight, JWKSInv, JWKSTypeOK
<1>9. Live' = {t} /\ tasks'[t] = NewTask(r)
  BY <1>3, <1>8 DEF Live
<1>10. NewTask(r) \in Task /\ NewTask(r).by = r.by
  BY <1>1 DEF NewTask, Task, Request
<1>11. JWKSTypeOK'
  BY <1>3, <1>5, <1>7, <1>9, <1>10 DEF JWKSInv, JWKSTypeOK, RequestsOK, ServedOK
<1>12. OneFlight' /\ RemembersFew'
  BY <1>7, <1>9 DEF OneFlight, RemembersFew, JWKSInv
<1>13. Owned'
  <2>1. provider[r.by].stage \in {"new", "open"} /\ ~provider[r.by].fetcherClosed
    BY <1>1, <1>3 DEF Closed, JWKSInv, ClosedAtTheEnd
  <2>. QED BY <1>3, <1>9, <1>10, <2>1 DEF Owned
<1>14. ClosedAtTheEnd' /\ UsersCounted'
  BY <1>3, <1>7 DEF ClosedAtTheEnd, UsersCounted, Attached, JWKSInv
<1>. QED BY <1>5, <1>11, <1>12, <1>13, <1>14 DEF JWKSInv

----------------------------------------------------------------------------
\* The steps of the refresh task.

\* What the others learn from the end of t.
LEMMA WokenOK ==
  ASSUME JWKSInv, NEW t, NEW result \in Snapshot \cup {None},
         request' = Woken(t, result, result # None), served' = None,
         cache' = IF result = None THEN cache ELSE result
  PROVE  RequestsOK' /\ ServedOK'
<1>1. ServedOK'
  BY DEF ServedOK, ServedKeysAreCurrent
<1>2. ASSUME NEW c \in Clients
      PROVE  request'[c] \in Request /\ RequestOK(request[c])' /\ StillCached(request[c])'
  <2>1. PICK r \in Request : r = request[c] /\ RequestOK(r) /\ StillCached(r)
    BY At
  <2>2. PICK seen \in BOOLEAN : seen = (r.published \/ (result # None /\ r.pc # "idle"))
    OBVIOUS
  <2>3. PICK p : p = [r EXCEPT !.published = seen]
    OBVIOUS
  <2>4. p \in Request /\ p.published = seen /\ p.pc = r.pc /\ p.kid = r.kid /\ p.by = r.by
        /\ p.snapshot = r.snapshot /\ p.forced = r.forced /\ p.result = r.result
        /\ p.failed = r.failed /\ p.generation = r.generation /\ p.outcome = r.outcome
        /\ p.task = r.task
    <3>1. p \in Request
      BY ONLY r \in Request, seen \in BOOLEAN, p = [r EXCEPT !.published = seen], SMTT(60)
         DEF Request
    <3>2. p.published = seen /\ p.pc = r.pc /\ p.kid = r.kid /\ p.by = r.by
          /\ p.snapshot = r.snapshot /\ p.forced = r.forced
      BY <2>3 DEF Request
    <3>3. p.result = r.result /\ p.failed = r.failed /\ p.generation = r.generation
          /\ p.outcome = r.outcome /\ p.task = r.task
      BY <2>3 DEF Request
    <3>. QED BY <3>1, <3>2, <3>3
  <2>5. p = [request[c] EXCEPT !.published = @ \/ (result # None /\ request[c].pc # "idle")]
    BY <2>1, <2>2, <2>3
  <2>6. request'[c] = IF p.pc = "waiting" /\ p.task = t
                      THEN [p EXCEPT !.pc = "woken", !.task = None, !.result = result,
                                     !.failed = @ \/ result = None]
                      ELSE p
    BY <2>5 DEF Woken
  <2>7. CASE p.pc = "waiting" /\ p.task = t
    <3>1. PICK failed \in BOOLEAN : failed = (p.failed \/ result = None)
      OBVIOUS
    <3>2. PICK q : q = [p EXCEPT !.pc = "woken", !.task = None, !.result = result, !.failed = failed]
      OBVIOUS
    <3>3. request'[c] = q
      BY <2>6, <2>7, <3>1, <3>2
    <3>4. /\ q \in Request /\ q.pc = "woken" /\ q.by = p.by /\ q.forced = p.forced /\ q.kid = p.kid
          /\ q.snapshot = p.snapshot /\ q.result = result /\ q.failed = failed
          /\ q.published = p.published
      <4>1. p \in Request
        BY <2>4
      <4>2. q \in Request
        BY <3>2, <4>1, ZenonT(60) DEF Request
      <4>3. /\ q.pc = "woken" /\ q.by = p.by /\ q.forced = p.forced /\ q.kid = p.kid
            /\ q.snapshot = p.snapshot /\ q.result = result /\ q.failed = failed
            /\ q.published = p.published
        BY <3>2, <4>1 DEF Request
      <4>. QED BY <4>2, <4>3
    <3>5. IF result = None THEN q.failed ELSE q.published
      BY <2>2, <2>4, <2>7, <3>1, <3>4
    <3>6. q.by \in Providers /\ (q.forced # None => Missed(q) /\ q.forced = q.snapshot.generation)
      BY <2>1, <2>4, <2>7, <3>4 DEF RequestOK, Missed
    <3>7. RequestOK(q)
      BY <3>4, <3>5, <3>6 DEF RequestOK
    <3>. QED BY <3>3, <3>4, <3>7 DEF RequestOK, StillCached, Missed
  <2>8. CASE ~ (p.pc = "waiting" /\ p.task = t)
    <3>1. RequestOK(p)
      BY <2>1, <2>2, <2>4 DEF RequestOK, Missed
    <3>2. p.pc \in {"negative", "coordinate"} /\ p.kid # None /\ ~p.published
             => cache' \in {None, p.snapshot}
      BY <2>1, <2>2, <2>4 DEF StillCached
    <3>. QED BY <2>4, <2>6, <2>8, <3>1, <3>2 DEF RequestOK, StillCached, Missed
  <2>. QED BY <2>7, <2>8
<1>3. request' \in [Clients -> Request]
  BY <1>2 DEF Woken
<1>. QED BY <1>1, <1>2, <1>3 DEF RequestsOK

\* A task goes on, the same one for the same provider.
LEMMA TaskGoesOn ==
  ASSUME JWKSInv, NEW t \in Live, NEW task \in Task, task.by = tasks[t].by,
         tasks' = [tasks EXCEPT ![t] = task], served' = None,
         UNCHANGED <<now, cache, coordination, provider, request, spent>>
  PROVE  JWKSInv'
<1>1. Live' = Live /\ \A u \in Live : tasks'[u] \in Task /\ tasks'[u].by = tasks[u].by
  BY DEF Live, JWKSInv, JWKSTypeOK
<1>2. JWKSTypeOK'
  BY <1>1 DEF JWKSInv, JWKSTypeOK
<1>3. RequestsOK' /\ ServedOK'
  BY DEF JWKSInv, RequestsOK, RequestOK, StillCached, Missed, ServedOK, ServedKeysAreCurrent
<1>4. Owned' /\ OneFlight'
  BY <1>1 DEF JWKSInv, Owned, OneFlight
<1>. QED BY <1>2, <1>3, <1>4 DEF JWKSInv, RemembersFew, ClosedAtTheEnd, UsersCounted, Attached

\* What a response becomes.
LEMMA Documents ==
  ASSUME NEW task \in Task, NEW keys \in SUBSET Kids, NEW ttl \in Ttls, NEW noStore \in BOOLEAN
  PROVE  /\ Replaced(task, keys, ttl, noStore) \in Snapshot
         /\ task.base # None => Revalidated(task, ttl, noStore) \in Snapshot
<1>1. task.at \in Nat /\ ttl \in Nat /\ StaleIfError \in Nat
  BY PolicyAssumption DEF Task
<1>2. task.base # None => /\ task.base.generation \in Nat \ {0} /\ task.base.keys \in SUBSET Kids
  BY DEF Task, Snapshot
<1>3. ASSUME NEW ks \in SUBSET Kids PROVE Replaced(task, ks, ttl, noStore) \in Snapshot
  BY <1>1, <1>2 DEF Replaced, Snapshot
<1>4. ASSUME task.base # None PROVE Revalidated(task, ttl, noStore) \in Snapshot
  <2>1. PICK s \in Snapshot : s = Replaced(task, task.base.keys, ttl, noStore)
    BY <1>2, <1>3, <1>4
  <2>. QED BY <1>2, <1>4, <2>1 DEF Revalidated, Snapshot
<1>. QED BY <1>3, <1>4

LEMMA TaskSteps ==
  ASSUME JWKSInv, NEW t \in TaskIds,
         \/ StartFetch(t) \/ FetchFailed(t)
         \/ \E ttl \in Ttls, noStore \in BOOLEAN :
              \/ FetchNotModified(t, ttl, noStore)
              \/ \E keys \in SUBSET Kids : FetchDocument(t, keys, ttl, noStore)
  PROVE  JWKSInv'
<1>1. t \in Live /\ tasks[t] \in Task
  BY DEF StartFetch, FetchFailed, FetchNotModified, FetchDocument, JWKSInv, JWKSTypeOK
<1>2. CASE StartFetch(t)
  <2>1. PICK task : task = [tasks[t] EXCEPT !.stage = "fetching", !.base = cache]
    OBVIOUS
  <2>2. task \in Task /\ task.by = tasks[t].by
    BY <1>1, <2>1 DEF Task, JWKSInv, JWKSTypeOK
  <2>3. tasks' = [tasks EXCEPT ![t] = task]
    BY <1>1, <1>2, <2>1 DEF StartFetch
  <2>. QED BY <1>1, <1>2, <2>2, <2>3, TaskGoesOn DEF StartFetch
<1>3. CASE FetchFailed(t)
  <2>1. PICK task : task = [tasks[t] EXCEPT !.stage = "publishing"]
    OBVIOUS
  <2>2. task \in Task /\ task.by = tasks[t].by
    BY <1>1, <2>1 DEF Task
  <2>3. tasks' = [tasks EXCEPT ![t] = task]
    BY <1>1, <1>3, <2>1 DEF FetchFailed
  <2>. QED BY <1>1, <1>3, <2>2, <2>3, TaskGoesOn DEF FetchFailed
<1>4. ASSUME NEW result \in Snapshot, served' = None,
             tasks' = [tasks EXCEPT ![t].stage = "publishing", ![t].result = result],
             UNCHANGED <<now, cache, coordination, provider, request, spent>>
      PROVE  JWKSInv'
  <2>1. PICK task : task = [tasks[t] EXCEPT !.stage = "publishing", !.result = result]
    OBVIOUS
  <2>2. task \in Task /\ task.by = tasks[t].by
    BY <1>1, <2>1 DEF Task
  <2>3. tasks' = [tasks EXCEPT ![t] = task]
    BY <1>1, <1>4, <2>1
  <2>. QED BY <1>1, <1>4, <2>2, <2>3, TaskGoesOn
<1>5. ASSUME NEW ttl \in Ttls, NEW noStore \in BOOLEAN, FetchNotModified(t, ttl, noStore)
      PROVE  JWKSInv'
  <2>1. Revalidated(tasks[t], ttl, noStore) \in Snapshot
    BY <1>1, <1>5, Documents DEF FetchNotModified
  <2>. QED BY <1>4, <1>5, <2>1 DEF FetchNotModified
<1>6. ASSUME NEW ttl \in Ttls, NEW noStore \in BOOLEAN, NEW keys \in SUBSET Kids,
             FetchDocument(t, keys, ttl, noStore)
      PROVE  JWKSInv'
  <2>1. Replaced(tasks[t], keys, ttl, noStore) \in Snapshot
    BY <1>1, Documents
  <2>. QED BY <1>4, <1>6, <2>1 DEF FetchDocument
<1>. QED BY <1>2, <1>3, <1>5, <1>6

LEMMA PublishStep ==
  ASSUME JWKSInv, NEW t \in TaskIds, Publish(t) PROVE JWKSInv'
<1>1. PICK task \in Task : t \in Live /\ task = tasks[t]
  BY DEF Publish, JWKSInv, JWKSTypeOK
<1>2. PICK result \in Snapshot \cup {None} : result = task.result
  BY <1>1 DEF Task
<1>3. /\ cache' = IF result = None THEN cache ELSE result
      /\ request' = Woken(t, result, result # None)
      /\ coordination' = [coordination EXCEPT
           !.forced = ForcedAfter(task),
           !.negative = IF NewGeneration(result) THEN <<>> ELSE @,
           !.refresh = IF @ = t THEN None ELSE @]
      /\ spent' = (spent /\ (task.forced # None \/ ~NewGeneration(result)))
      /\ tasks' = Ended(t) /\ served' = None /\ UNCHANGED <<now, provider>>
  BY <1>1, <1>2 DEF Publish, WakesOnPublish
<1>4. RequestsOK' /\ ServedOK'
  BY <1>3, WokenOK
<1>5. coordination \in Coordination /\ coordination.refresh = t
  BY <1>1 DEF JWKSInv, JWKSTypeOK, OneFlight
<1>6. Live' = {}
  BY <1>3, <1>5 DEF Ended, Live, JWKSInv, OneFlight
<1>7. ForcedAfter(task) \in Nat \cup {None}
  BY <1>5 DEF ForcedAfter, Task, Snapshot, Coordination
<1>8. PICK negative \in Seq(Negative) :
        /\ negative = IF NewGeneration(result) THEN <<>> ELSE coordination.negative
        /\ Len(negative) <= MaximumUnknown
  <2>1. <<>> \in Seq(Negative) /\ Len(<<>>) <= MaximumUnknown
    BY EmptySeq, PolicyAssumption
  <2>2. coordination.negative \in Seq(Negative) /\ Len(coordination.negative) <= MaximumUnknown
    BY <1>5 DEF Coordination, JWKSInv, RemembersFew
  <2>. QED BY <2>1, <2>2
<1>9. coordination' = [coordination EXCEPT !.forced = ForcedAfter(task), !.negative = negative,
                                           !.refresh = None]
  BY <1>3, <1>5, <1>8
<1>10. coordination' \in Coordination /\ coordination'.negative = negative
       /\ coordination'.users = coordination.users
  BY <1>5, <1>7, <1>9 DEF Coordination
<1>11. JWKSTypeOK'
  <2>1. cache' \in Snapshot \cup {None} /\ spent' \in BOOLEAN
    BY <1>3 DEF JWKSInv, JWKSTypeOK
  <2>. QED BY <1>3, <1>4, <1>6, <1>10, <2>1 DEF JWKSInv, JWKSTypeOK, RequestsOK, ServedOK
<1>12. RemembersFew' /\ OneFlight' /\ Owned'
  BY <1>6, <1>8, <1>10 DEF RemembersFew, OneFlight, Owned
<1>13. ClosedAtTheEnd' /\ UsersCounted'
  BY <1>3, <1>10 DEF ClosedAtTheEnd, UsersCounted, Attached, JWKSInv
<1>. QED BY <1>4, <1>11, <1>12, <1>13 DEF JWKSInv

----------------------------------------------------------------------------
\* The steps of a close.

\* Cancelling the refresh ends it or leaves it with its provider; whoever waits is woken.
LEMMA RefreshCancelled ==
  ASSUME JWKSInv, NEW t \in Live, CancelTask(t), served' = None, UNCHANGED cache
  PROVE  /\ RequestsOK' /\ ServedOK'
         /\ Live' \subseteq Live
         /\ \A u \in Live' : tasks'[u] \in Task /\ tasks'[u].by = tasks[u].by
<1>1. CASE tasks[t].stage = "fetching"
  <2>1. tasks' = [tasks EXCEPT ![t].stage = "publishing"] /\ UNCHANGED request
    BY <1>1 DEF CancelTask
  <2>2. Live' = Live /\ \A u \in Live : tasks'[u] \in Task /\ tasks'[u].by = tasks[u].by
    BY <2>1 DEF Live, JWKSInv, JWKSTypeOK, Task
  <2>. QED BY <2>1, <2>2 DEF JWKSInv, RequestsOK, RequestOK, StillCached, Missed, ServedOK,
                             ServedKeysAreCurrent
<1>2. CASE tasks[t].stage # "fetching"
  <2>1. tasks' = Ended(t) /\ request' = Woken(t, None, FALSE)
    BY <1>2 DEF CancelTask
  <2>2. RequestsOK' /\ ServedOK'
    BY <2>1, WokenOK
  <2>3. Live' \subseteq Live /\ \A u \in Live' : tasks'[u] = tasks[u]
    BY <2>1 DEF Ended, Live
  <2>. QED BY <2>2, <2>3 DEF JWKSInv, JWKSTypeOK
<1>. QED BY <1>1, <1>2

\* What all steps of a provider's life have in common.
LEMMA ClosingKeeps ==
  ASSUME JWKSInv, served' = None, UNCHANGED <<now, cache, spent>>,
         \/ UNCHANGED <<tasks, request>>
         \/ \E t \in Live : CancelTask(t),
         provider' \in [Providers -> ProviderState],
         coordination' \in Coordination, coordination'.negative = coordination.negative,
         Live' # {} => coordination'.refresh = coordination.refresh,
         Owned', ClosedAtTheEnd', UsersCounted',
         \A p \in Providers : Closed(p) => Closed(p)'
  PROVE  JWKSInv'
<1>1. /\ RequestsOK' /\ ServedOK' /\ Live' \subseteq Live
      /\ \A u \in Live' : tasks'[u] \in Task /\ tasks'[u].by = tasks[u].by
  <2>1. CASE UNCHANGED <<tasks, request>>
    BY <2>1 DEF Live, JWKSInv, JWKSTypeOK, RequestsOK, RequestOK, StillCached, Missed, ServedOK,
                ServedKeysAreCurrent
  <2>. QED BY <2>1, RefreshCancelled
<1>2. JWKSTypeOK'
  BY <1>1 DEF JWKSInv, JWKSTypeOK, RequestsOK, ServedOK
<1>3. OneFlight' /\ RemembersFew'
  BY <1>1 DEF OneFlight, RemembersFew, JWKSInv
<1>. QED BY <1>1, <1>2, <1>3 DEF JWKSInv

LEMMA AttachedFinite ==
  ASSUME NEW p \in Providers
  PROVE  /\ IsFiniteSet(Attached) /\ Cardinality(Attached) \in Nat
         /\ p \notin Attached => Cardinality(Attached \cup {p}) = Cardinality(Attached) + 1
         /\ p \in Attached => Cardinality(Attached \ {p}) = Cardinality(Attached) - 1
         /\ p \in Attached => Cardinality(Attached) > 0
<1>1. IsFiniteSet(Attached)
  BY ProvidersAssumption, FS_Subset DEF Attached
<1>2. Cardinality(Attached) \in Nat
  BY <1>1, FS_CardinalityType
<1>3. p \in Attached => Cardinality(Attached) # 0
  BY <1>1, FS_EmptySet
<1>. QED BY <1>1, <1>2, <1>3, FS_AddElement, FS_RemoveElement

LEMMA AttachStep ==
  ASSUME JWKSInv, NEW p \in Providers, Attach(p) PROVE JWKSInv'
<1>1. provider \in [Providers -> ProviderState] /\ coordination \in Coordination
  BY DEF JWKSInv, JWKSTypeOK
<1>2. /\ provider' \in [Providers -> ProviderState]
      /\ \A q \in Providers : q # p => provider'[q] = provider[q]
      /\ provider[p].stage = "new" /\ provider'[p].stage = "open"
      /\ provider'[p].fetcherClosed = provider[p].fetcherClosed
  BY <1>1 DEF Attach, ProviderState
<1>3. /\ coordination' \in Coordination /\ coordination'.negative = coordination.negative
      /\ coordination'.refresh = coordination.refresh /\ coordination'.users = coordination.users + 1
  <2>1. coordination.users + 1 \in Nat
    BY <1>1 DEF Coordination
  <2>2. coordination' = [coordination EXCEPT !.users = coordination.users + 1]
    BY DEF Attach
  <2>. QED BY <1>1, <2>1, <2>2 DEF Coordination
<1>4. Attached' = Attached \cup {p} /\ p \notin Attached
  BY <1>2 DEF Attached
<1>5. UsersCounted'
  BY <1>1, <1>3, <1>4, AttachedFinite DEF UsersCounted, JWKSInv, Coordination
<1>6. Owned'
  BY <1>2 DEF Attach, Owned, JWKSInv, JWKSTypeOK, Task, Live
<1>7. ClosedAtTheEnd' /\ \A q \in Providers : Closed(q) => Closed(q)'
  BY <1>2 DEF ClosedAtTheEnd, Closed, JWKSInv
<1>. QED BY <1>2, <1>3, <1>5, <1>6, <1>7, ClosingKeeps DEF Attach

LEMMA BeginCloseStep ==
  ASSUME JWKSInv, NEW p \in Providers, BeginClose(p) PROVE JWKSInv'
<1>1. provider \in [Providers -> ProviderState] /\ coordination \in Coordination
  BY DEF JWKSInv, JWKSTypeOK
<1>2. /\ provider' \in [Providers -> ProviderState]
      /\ \A q \in Providers : q # p => provider'[q] = provider[q]
      /\ provider[p].stage = "open" /\ provider'[p].stage = "detach"
      /\ provider'[p].fetcherClosed = provider[p].fetcherClosed
  BY <1>1 DEF BeginClose, ProviderState
<1>3. Attached' = Attached
  BY <1>2 DEF Attached
<1>4. UsersCounted'
  BY <1>3 DEF BeginClose, UsersCounted, JWKSInv
<1>5. Owned'
  BY <1>2 DEF BeginClose, Owned, JWKSInv, JWKSTypeOK, Task, Live
<1>6. ClosedAtTheEnd' /\ \A q \in Providers : Closed(q) => Closed(q)'
  BY <1>2 DEF ClosedAtTheEnd, Closed, JWKSInv
<1>. QED BY <1>1, <1>2, <1>4, <1>5, <1>6, ClosingKeeps DEF BeginClose

\* A provider that leaves waits for the refresh that runs.
LEMMA DetachStep ==
  ASSUME JWKSInv, NEW p \in Providers, Detach(p) PROVE JWKSInv'
<1>1. /\ provider \in [Providers -> ProviderState] /\ coordination \in Coordination
      /\ coordination.refresh \in TaskIds \cup {None}
  BY DEF JWKSInv, JWKSTypeOK, Coordination
<1>2. PICK waits \in BOOLEAN : waits = (coordination.refresh # None)
  OBVIOUS
<1>3. provider' = [provider EXCEPT ![p].stage = IF waits THEN "gather" ELSE "fetcher",
                                   ![p].gathers = IF waits THEN coordination.refresh ELSE None]
  BY <1>2 DEF Detach, Gathers
<1>4. /\ provider' \in [Providers -> ProviderState]
      /\ \A q \in Providers : q # p => provider'[q] = provider[q]
      /\ provider[p].stage = "detach" /\ provider'[p].stage \in {"gather", "fetcher"}
      /\ waits => provider'[p].stage = "gather" /\ provider'[p].gathers = coordination.refresh
      /\ provider'[p].fetcherClosed = provider[p].fetcherClosed
  <2>1. PICK q : q = [provider[p] EXCEPT !.stage = IF waits THEN "gather" ELSE "fetcher",
                                         !.gathers = IF waits THEN coordination.refresh ELSE None]
    OBVIOUS
  <2>2. /\ q \in ProviderState /\ q.stage \in {"gather", "fetcher"}
        /\ waits => q.stage = "gather" /\ q.gathers = coordination.refresh
        /\ q.fetcherClosed = provider[p].fetcherClosed
    <3>1. PICK o \in ProviderState : o = provider[p]
      BY <1>1
    <3>2. PICK stage \in {"gather", "fetcher"} : stage = IF waits THEN "gather" ELSE "fetcher"
      OBVIOUS
    <3>3. PICK held \in TaskIds \cup {None} : held = IF waits THEN coordination.refresh ELSE None
      BY <1>1
    <3>4. q = [o EXCEPT !.stage = stage, !.gathers = held]
      BY <2>1, <3>1, <3>2, <3>3
    <3>5. /\ q \in ProviderState /\ q.stage = stage /\ q.gathers = held
          /\ q.fetcherClosed = o.fetcherClosed
      BY <3>4 DEF ProviderState
    <3>. QED BY <3>1, <3>2, <3>3, <3>5
  <2>3. provider' = [provider EXCEPT ![p] = q]
    BY <1>1, <1>3, <2>1
  <2>. QED BY <1>1, <2>2, <2>3 DEF Detach
<1>5. Attached' = Attached \ {p} /\ p \in Attached
  BY <1>4 DEF Attached
<1>6. coordination.users \in Nat /\ Cardinality(Attached) <= coordination.users
      /\ coordination.users - 1 \in Nat
  <2>1. coordination.users \in Nat
    BY <1>1 DEF Coordination
  <2>2. Cardinality(Attached) \in Nat /\ Cardinality(Attached) > 0
    BY <1>5, AttachedFinite
  <2>3. Cardinality(Attached) <= coordination.users
    BY DEF JWKSInv, UsersCounted
  <2>. QED BY <2>1, <2>2, <2>3
<1>7. /\ coordination' \in Coordination /\ coordination'.negative = coordination.negative
      /\ coordination'.refresh = coordination.refresh /\ coordination'.users = coordination.users - 1
  <2>1. coordination' = [coordination EXCEPT !.users = coordination.users - 1]
    BY DEF Detach
  <2>. QED BY <1>1, <1>6, <2>1 DEF Coordination
<1>8. UsersCounted'
  BY <1>5, <1>6, <1>7, AttachedFinite DEF UsersCounted
<1>9. UNCHANGED <<tasks, request>> \/ \E t \in Live : CancelTask(t)
  BY DEF Detach
<1>10. Live' \subseteq Live /\ \A u \in Live' : tasks'[u].by = tasks[u].by
  BY <1>9, RefreshCancelled DEF Detach, Live
<1>11. Owned'
  <2>1. ASSUME NEW t \in Live'
        PROVE  LET q == provider'[tasks'[t].by] IN
               /\ ~q.fetcherClosed
               /\ q.stage \in {"new", "open", "detach", "closed"} \/ (q.stage = "gather" /\ q.gathers = t)
    <3>1. PICK o \in Providers : o = tasks[t].by /\ o = tasks'[t].by
      BY <1>10, <2>1 DEF JWKSInv, JWKSTypeOK, Task
    <3>2. t = coordination.refresh /\ waits
      BY <1>2, <1>10, <2>1, NoneAssumption DEF JWKSInv, OneFlight, JWKSTypeOK
    <3>3. /\ ~provider[o].fetcherClosed
          /\ \/ provider[o].stage \in {"new", "open", "detach", "closed"}
             \/ (provider[o].stage = "gather" /\ provider[o].gathers = t)
      BY <1>10, <2>1, <3>1 DEF JWKSInv, Owned
    <3>. QED BY <1>4, <3>1, <3>2, <3>3
  <2>. QED BY <2>1 DEF Owned
<1>12. ClosedAtTheEnd' /\ \A q \in Providers : Closed(q) => Closed(q)'
  BY <1>4 DEF ClosedAtTheEnd, Closed, JWKSInv
<1>. QED BY <1>4, <1>7, <1>8, <1>9, <1>11, <1>12, ClosingKeeps DEF Detach

\* The task a provider waited for has ended, so none runs if the coordinator names it.
LEMMA GatherStep ==
  ASSUME JWKSInv, NEW p \in Providers, Gather(p) PROVE JWKSInv'
<1>1. provider \in [Providers -> ProviderState] /\ coordination \in Coordination
  BY DEF JWKSInv, JWKSTypeOK
<1>2. /\ provider' \in [Providers -> ProviderState]
      /\ \A q \in Providers : q # p => provider'[q] = provider[q]
      /\ provider[p].stage = "gather" /\ provider'[p].stage = "fetcher"
      /\ provider'[p].fetcherClosed = provider[p].fetcherClosed
      /\ provider[p].gathers \notin Live
  <2>1. PICK q : q = [provider[p] EXCEPT !.stage = "fetcher", !.gathers = None]
    OBVIOUS
  <2>2. q \in ProviderState /\ q.stage = "fetcher" /\ q.fetcherClosed = provider[p].fetcherClosed
    BY <1>1, <2>1 DEF ProviderState
  <2>3. provider' = [provider EXCEPT ![p] = q]
    BY <1>1, <2>1 DEF Gather
  <2>. QED BY <1>1, <2>2, <2>3 DEF Gather
<1>3. /\ coordination' \in Coordination /\ coordination'.negative = coordination.negative
      /\ coordination'.users = coordination.users
      /\ coordination'.refresh = IF ClearsDead(p) THEN None ELSE coordination.refresh
  BY <1>1 DEF Gather, Coordination
<1>4. Live' = Live /\ (Live # {} => coordination'.refresh = coordination.refresh)
  BY <1>2, <1>3 DEF Gather, ClearsDead, Live, JWKSInv, OneFlight
<1>5. UsersCounted'
  <2>1. Attached' = Attached
    BY <1>2 DEF Attached
  <2>. QED BY <1>3, <2>1 DEF UsersCounted, JWKSInv
<1>6. Owned'
  BY <1>2 DEF Gather, Owned, JWKSInv, JWKSTypeOK, Task, Live
<1>7. ClosedAtTheEnd' /\ \A q \in Providers : Closed(q) => Closed(q)'
  BY <1>2 DEF ClosedAtTheEnd, Closed, JWKSInv
<1>. QED BY <1>2, <1>3, <1>4, <1>5, <1>6, <1>7, ClosingKeeps DEF Gather

\* No refresh runs for a provider that has come to close its fetcher.
LEMMA CloseFetcherStep ==
  ASSUME JWKSInv, NEW p \in Providers, CloseFetcher(p) PROVE JWKSInv'
<1>1. provider \in [Providers -> ProviderState] /\ coordination \in Coordination
  BY DEF JWKSInv, JWKSTypeOK
<1>2. /\ provider' \in [Providers -> ProviderState]
      /\ \A q \in Providers : q # p => provider'[q] = provider[q]
      /\ provider[p].stage = "fetcher" /\ provider'[p].stage = "closed"
  <2>1. PICK owned \in BOOLEAN :
          provider' = [provider EXCEPT ![p].stage = "closed", ![p].fetcherClosed = owned]
    BY DEF CloseFetcher
  <2>2. PICK q : q = [provider[p] EXCEPT !.stage = "closed", !.fetcherClosed = owned]
    OBVIOUS
  <2>3. q \in ProviderState /\ q.stage = "closed"
    BY <1>1, <2>2 DEF ProviderState
  <2>4. provider' = [provider EXCEPT ![p] = q]
    BY <1>1, <2>1, <2>2
  <2>. QED BY <1>1, <2>3, <2>4 DEF CloseFetcher
<1>3. UsersCounted'
  <2>1. Attached' = Attached
    BY <1>2 DEF Attached
  <2>. QED BY <2>1 DEF CloseFetcher, UsersCounted, JWKSInv
<1>4. Owned'
  BY <1>2 DEF CloseFetcher, Owned, JWKSInv, JWKSTypeOK, Task, Live
<1>5. ClosedAtTheEnd' /\ \A q \in Providers : Closed(q) => Closed(q)'
  BY <1>2 DEF ClosedAtTheEnd, Closed, JWKSInv
<1>. QED BY <1>1, <1>2, <1>3, <1>4, <1>5, ClosingKeeps DEF CloseFetcher

\* A provider whose close is cancelled never closes its fetcher.
LEMMA CancelCloseStep ==
  ASSUME JWKSInv, NEW p \in Providers, CancelClose(p) PROVE JWKSInv'
<1>1. provider \in [Providers -> ProviderState] /\ coordination \in Coordination
  BY DEF JWKSInv, JWKSTypeOK
<1>2. /\ provider' \in [Providers -> ProviderState]
      /\ \A q \in Providers : q # p => provider'[q] = provider[q]
      /\ provider[p].stage \in {"detach", "gather", "fetcher"} /\ provider'[p].stage = "closed"
      /\ provider'[p].fetcherClosed = provider[p].fetcherClosed
  <2>1. PICK q : q = [provider[p] EXCEPT !.stage = "closed", !.gathers = None]
    OBVIOUS
  <2>2. q \in ProviderState /\ q.stage = "closed" /\ q.fetcherClosed = provider[p].fetcherClosed
    BY <1>1, <2>1 DEF ProviderState
  <2>3. provider' = [provider EXCEPT ![p] = q]
    BY <1>1, <2>1 DEF CancelClose
  <2>. QED BY <1>1, <2>2, <2>3 DEF CancelClose
<1>3. UsersCounted'
  <2>1. Attached' \subseteq Attached
    BY <1>2 DEF Attached
  <2>2. IsFiniteSet(Attached)
    BY ProvidersAssumption, FS_Subset DEF Attached
  <2>3. /\ Cardinality(Attached') <= Cardinality(Attached)
        /\ Cardinality(Attached) \in Nat /\ Cardinality(Attached') \in Nat
    BY <2>1, <2>2, FS_Subset, FS_CardinalityType
  <2>4. coordination' = coordination /\ coordination.users \in Nat
        /\ Cardinality(Attached) <= coordination.users
    BY <1>1 DEF CancelClose, Coordination, JWKSInv, UsersCounted
  <2>. QED BY <2>3, <2>4 DEF UsersCounted
<1>4. UNCHANGED <<tasks, request>> \/ \E t \in Live : CancelTask(t)
  BY DEF CancelClose
<1>5. Live' \subseteq Live /\ \A u \in Live' : tasks'[u].by = tasks[u].by
  BY <1>4, RefreshCancelled DEF CancelClose, Live
<1>6. Owned'
  <2>1. ASSUME NEW t \in Live'
        PROVE  LET q == provider'[tasks'[t].by] IN
               /\ ~q.fetcherClosed
               /\ q.stage \in {"new", "open", "detach", "closed"} \/ (q.stage = "gather" /\ q.gathers = t)
    <3>1. PICK o \in Providers : o = tasks[t].by /\ o = tasks'[t].by
      BY <1>5, <2>1 DEF JWKSInv, JWKSTypeOK, Task
    <3>2. /\ ~provider[o].fetcherClosed
          /\ \/ provider[o].stage \in {"new", "open", "detach", "closed"}
             \/ (provider[o].stage = "gather" /\ provider[o].gathers = t)
      BY <1>5, <2>1, <3>1 DEF JWKSInv, Owned
    <3>. QED BY <1>2, <3>1, <3>2
  <2>. QED BY <2>1 DEF Owned
<1>7. ClosedAtTheEnd' /\ \A q \in Providers : Closed(q) => Closed(q)'
  BY <1>2 DEF ClosedAtTheEnd, Closed, JWKSInv
<1>. QED BY <1>1, <1>2, <1>3, <1>4, <1>6, <1>7, ClosingKeeps DEF CancelClose

----------------------------------------------------------------------------
\* The specification.

LEMMA JWKSStart == JWKSInit => JWKSInv
<1>1. SUFFICES ASSUME JWKSInit PROVE JWKSInv
  OBVIOUS
<1>2. Live = {}
  BY <1>1 DEF JWKSInit, Live
<1>3. coordination \in Coordination /\ coordination.users = 0 /\ Len(coordination.negative) = 0
  <2>1. <<>> \in Seq(Negative)
    BY EmptySeq
  <2>. QED BY <1>1, <2>1 DEF JWKSInit, Coordination
<1>4. provider \in [Providers -> ProviderState]
      /\ \A p \in Providers : provider[p].stage = "new" /\ ~provider[p].fetcherClosed
  BY <1>1 DEF JWKSInit, ProviderState
<1>5. RequestsOK
  BY <1>1, RestingOK DEF JWKSInit, RequestsOK, StillCached
<1>6. ServedOK
  BY <1>1 DEF JWKSInit, ServedOK, ServedKeysAreCurrent
<1>7. JWKSTypeOK /\ RemembersFew
  <2>1. MaxTime \in Nat /\ MaximumUnknown \in Nat
    BY PolicyAssumption
  <2>0. 0 \in 0 .. MaxTime
    BY <2>1
  <2>2. now \in 0 .. MaxTime /\ cache = None /\ spent \in BOOLEAN
    BY <1>1, <2>0, Zenon DEF JWKSInit
  <2>3. RemembersFew
    BY <1>3, <2>1 DEF RemembersFew
  <2>. QED BY <1>2, <1>3, <1>4, <1>5, <1>6, <2>2, <2>3 DEF JWKSTypeOK, RequestsOK, ServedOK
<1>8. UsersCounted
  <2>1. Attached = {}
    BY <1>4 DEF Attached
  <2>2. Cardinality(Attached) = 0
    BY <2>1, FS_EmptySet
  <2>. QED BY <1>3, <2>2 DEF UsersCounted
<1>. QED BY <1>2, <1>4, <1>5, <1>6, <1>7, <1>8 DEF JWKSInv, OneFlight, Owned, ClosedAtTheEnd

LEMMA WorldSteps ==
  ASSUME JWKSInv, Evict \/ Tick \/ UNCHANGED jwksVars PROVE JWKSInv'
<1>1. UNCHANGED <<coordination, tasks, provider, request, spent>>
      /\ cache' \in {cache, None} /\ served' \in {served, None} /\ now' \in 0 .. MaxTime
  BY PolicyAssumption DEF Evict, Tick, jwksVars, JWKSInv, JWKSTypeOK
<1>2. RequestsOK' /\ ServedOK'
  BY <1>1 DEF JWKSInv, RequestsOK, RequestOK, StillCached, Missed, ServedOK, ServedKeysAreCurrent
<1>3. JWKSTypeOK' /\ RemembersFew'
  BY <1>1, <1>2 DEF JWKSInv, JWKSTypeOK, RequestsOK, ServedOK, RemembersFew, Live
<1>4. OneFlight' /\ Owned' /\ ClosedAtTheEnd' /\ UsersCounted'
  BY <1>1 DEF JWKSInv, OneFlight, Owned, ClosedAtTheEnd, UsersCounted, Attached, Live
<1>. QED BY <1>2, <1>3, <1>4 DEF JWKSInv

LEMMA JWKSSteps ==
  ASSUME JWKSInv, [JWKSNext]_jwksVars PROVE JWKSInv'
<1>1. ASSUME Selecting PROVE JWKSInv'
  <2>1. PICK c \in Clients :
          \/ \E p \in Providers : Warmup(c, p) \/ \E kid \in Kids : Select(c, p, kid)
          \/ CheckNegative(c) \/ CoordinateImmediate(c) \/ CoordinateJoin(c)
          \/ \E t \in TaskIds : CoordinateStart(c, t)
          \/ Resume(c) \/ Remember(c) \/ Abort(c)
    BY <1>1 DEF Selecting
  <2>. QED BY <2>1, WarmupStep, SelectStep, CheckNegativeStep, CoordinateImmediateStep,
              CoordinateJoinStep, CoordinateStartStep, ResumeStep, RememberStep, AbortStep
<1>2. ASSUME Refreshing PROVE JWKSInv'
  BY <1>2, TaskSteps, PublishStep DEF Refreshing
<1>3. ASSUME Closing PROVE JWKSInv'
  BY <1>3, AttachStep, BeginCloseStep, DetachStep, GatherStep, CloseFetcherStep, CancelCloseStep
     DEF Closing
<1>. QED BY <1>1, <1>2, <1>3, WorldSteps DEF JWKSNext

LEMMA JWKSInductive == JWKSSpec => []JWKSInv
BY JWKSStart, JWKSSteps, PTL DEF JWKSSpec

(* However many providers and requests share a cache, at most one refresh runs
   at a time: nothing a close, a cancellation or another provider's request
   does in between leaves a task running that the coordinator has forgotten.
   The negative entries stay within their bound through every order of
   look-ups, answers and publications.                                     *)
THEOREM CoordinationStaysSound == JWKSSpec => []CoordinationIsSound
<1>1. JWKSInv => CoordinationIsSound
  BY DEF JWKSInv, OneFlight, CoordinationIsSound, SingleFlight
<1>. QED BY <1>1, JWKSInductive, PTL

(* A key is handed out only from a snapshot that was fresh at the time its
   caller gave, or published while the request ran, or within its stale
   deadline after the refresh failed or the provider was closed, whatever was
   evicted, published, cancelled or closed between the request's awaits.   *)
THEOREM KeysStayCurrent == JWKSSpec => []ServedKeysAreCurrent
<1>1. JWKSInv => ServedKeysAreCurrent
  BY DEF JWKSInv, ServedOK
<1>. QED BY <1>1, JWKSInductive, PTL

(* aclose closes a fetcher only after the last fetch through it, though the
   refresh may have been shared with other providers and the close itself may
   be cancelled at each of its awaits.                                     *)
THEOREM FetchersOutliveFetches == JWKSSpec => []FetcherOutlivesFetches
<1>1. JWKSInv => FetcherOutlivesFetches
  BY DEF JWKSInv, Owned, FetcherOutlivesFetches
<1>. QED BY <1>1, JWKSInductive, PTL

\* With closes that nobody cancels, a dead refresh is one a provider waits for.
LEMMA DeadAreGathered ==
  ASSUME ~CloseCancellable, JWKSInv, NoDeadRefresh, [JWKSNext]_jwksVars PROVE NoDeadRefresh'
<1>1. CASE UNCHANGED <<coordination, tasks, provider>>
  BY <1>1 DEF NoDeadRefresh, Live
<1>2. ASSUME NEW c \in Clients,
             CheckNegative(c) \/ Remember(c) \/ \E t \in TaskIds : CoordinateStart(c, t)
      PROVE  NoDeadRefresh'
  <2>1. CASE CheckNegative(c) \/ Remember(c)
    <3>1. coordination'.refresh = coordination.refresh /\ UNCHANGED <<tasks, provider>>
      BY <2>1 DEF CheckNegative, Remember, JWKSInv, JWKSTypeOK, Coordination
    <3>. QED BY <3>1 DEF NoDeadRefresh, Live
  <2>2. ASSUME NEW t \in TaskIds, CoordinateStart(c, t) PROVE NoDeadRefresh'
    <3>1. coordination'.refresh = t /\ t \in Live'
      BY <2>2 DEF CoordinateStart, Live, JWKSInv, JWKSTypeOK, Coordination
    <3>. QED BY <3>1 DEF NoDeadRefresh
  <2>. QED BY <1>2, <2>1, <2>2
<1>3. ASSUME NEW t \in TaskIds,
             \/ StartFetch(t) \/ FetchFailed(t)
             \/ \E ttl \in Ttls, noStore \in BOOLEAN :
                  \/ FetchNotModified(t, ttl, noStore)
                  \/ \E keys \in SUBSET Kids : FetchDocument(t, keys, ttl, noStore)
      PROVE  NoDeadRefresh'
  <2>1. Live' = Live /\ UNCHANGED <<coordination, provider>>
    BY <1>3 DEF StartFetch, FetchFailed, FetchNotModified, FetchDocument, Live
  <2>. QED BY <2>1 DEF NoDeadRefresh
<1>4. ASSUME NEW t \in TaskIds, Publish(t) PROVE NoDeadRefresh'
  <2>1. coordination'.refresh = None
    BY <1>4 DEF Publish, JWKSInv, OneFlight, JWKSTypeOK, Coordination
  <2>. QED BY <2>1 DEF NoDeadRefresh
<1>5. provider \in [Providers -> ProviderState] /\ coordination \in Coordination
  BY DEF JWKSInv, JWKSTypeOK
<1>6. ASSUME NEW p \in Providers, Attach(p) \/ BeginClose(p) \/ CloseFetcher(p) PROVE NoDeadRefresh'
  <2>1. \A q \in Providers : provider'[q].gathers = provider[q].gathers
    BY <1>5, <1>6 DEF Attach, BeginClose, CloseFetcher, ProviderState
  <2>2. coordination'.refresh = coordination.refresh /\ Live' = Live
    BY <1>5, <1>6 DEF Attach, BeginClose, CloseFetcher, Coordination, Live
  <2>. QED BY <2>1, <2>2 DEF NoDeadRefresh
<1>7. ASSUME NEW p \in Providers, Detach(p) PROVE NoDeadRefresh'
  <2>1. coordination'.refresh = coordination.refresh
    BY <1>5, <1>7 DEF Detach, Coordination
  <2>2. coordination.refresh # None => provider'[p].gathers = coordination.refresh
    BY <1>5, <1>7 DEF Detach, Gathers, ProviderState
  <2>. QED BY <2>1, <2>2 DEF NoDeadRefresh
<1>8. ASSUME NEW p \in Providers, Gather(p) PROVE NoDeadRefresh'
  <2>1. \A q \in Providers : q # p => provider'[q].gathers = provider[q].gathers
    BY <1>5, <1>8 DEF Gather, ProviderState
  <2>2. coordination'.refresh = IF ClearsDead(p) THEN None ELSE coordination.refresh
    BY <1>5, <1>8 DEF Gather, Coordination
  <2>3. Live' = Live
    BY <1>8 DEF Gather, Live
  <2>. QED BY <2>1, <2>2, <2>3 DEF NoDeadRefresh, ClearsDead
<1>9. ASSUME Selecting PROVE NoDeadRefresh'
  <2>1. PICK c \in Clients :
          \/ \E p \in Providers : Warmup(c, p) \/ \E kid \in Kids : Select(c, p, kid)
          \/ CheckNegative(c) \/ CoordinateImmediate(c) \/ CoordinateJoin(c)
          \/ \E t \in TaskIds : CoordinateStart(c, t)
          \/ Resume(c) \/ Remember(c) \/ Abort(c)
    BY <1>9 DEF Selecting
  <2>2. CASE \/ \E p \in Providers : Warmup(c, p) \/ \E kid \in Kids : Select(c, p, kid)
             \/ CoordinateImmediate(c) \/ CoordinateJoin(c) \/ Resume(c) \/ Abort(c)
    <3>1. UNCHANGED <<coordination, tasks, provider>>
      BY <2>2 DEF Warmup, Select, CoordinateImmediate, CoordinateJoin, Resume, Abort
    <3>. QED BY <1>1, <3>1
  <2>. QED BY <1>2, <2>1, <2>2
<1>10. ASSUME Refreshing PROVE NoDeadRefresh'
  BY <1>3, <1>4, <1>10 DEF Refreshing
<1>11. ASSUME Closing PROVE NoDeadRefresh'
  BY <1>6, <1>7, <1>8, <1>11 DEF Closing, CancelClose
<1>12. ASSUME Evict \/ Tick \/ UNCHANGED jwksVars PROVE NoDeadRefresh'
  BY <1>1, <1>12 DEF Evict, Tick, jwksVars
<1>. QED BY <1>9, <1>10, <1>11, <1>12 DEF JWKSNext

(* Where a close always runs to its end, the refresh the coordinator names is
   one that runs, or one that died and that a close in progress still holds
   and will clear: later requests are not turned away by a dead task.      *)
THEOREM RefreshesStayOwned ==
  ASSUME ~CloseCancellable PROVE JWKSSpec => []RefreshesAreOwned
<1>1. JWKSInit => NoDeadRefresh
  BY DEF JWKSInit, NoDeadRefresh
<1>2. JWKSSpec => []NoDeadRefresh
  <2>1. JWKSInv /\ NoDeadRefresh /\ [JWKSNext]_jwksVars => NoDeadRefresh'
    BY DeadAreGathered
  <2>. QED BY <1>1, <2>1, JWKSInductive, PTL DEF JWKSSpec
<1>3. JWKSInv /\ NoDeadRefresh => RefreshesAreOwned
  BY DEF JWKSInv, Owned, RefreshesAreOwned, NoDeadRefresh, FetcherOutlivesFetches
<1>. QED BY <1>2, <1>3, JWKSInductive, PTL

\* While no ordinary refresh has replaced the keys since, the generation that may
\* not be forced again is the one in the cache.
Rationed == spent /\ cache # None => coordination.forced = cache.generation

\* A refresh is published: a forced one uses its own generation up, an ordinary
\* one that leaves the history alone leaves the generation alone.
LEMMA PublishRations ==
  ASSUME JWKSInv, Rationed, NEW t \in TaskIds, Publish(t) PROVE Rationed'
<1>1. PICK task \in Task : task = tasks[t]
  BY DEF Publish, JWKSInv, JWKSTypeOK
<1>2. /\ cache' = IF task.result = None THEN cache ELSE task.result
      /\ coordination'.forced = ForcedAfter(task)
      /\ spent' = (spent /\ (task.forced # None \/ ~NewGeneration(task.result)))
  BY <1>1 DEF Publish, JWKSInv, JWKSTypeOK, Coordination
<1>3. CASE task.result = None
  BY <1>2, <1>3 DEF ForcedAfter, Rationed
<1>4. CASE task.result # None /\ task.forced # None
  BY <1>2, <1>4 DEF ForcedAfter, Rationed
<1>5. CASE task.result # None /\ task.forced = None
  <2>1. task.result.generation \in Nat \ {0}
    BY <1>5 DEF Task, Snapshot
  <2>2. ASSUME spent' PROVE cache # None /\ task.result.generation = cache.generation /\ spent
    BY <1>2, <1>5, <2>1, <2>2 DEF NewGeneration, Generation
  <2>. QED BY <1>2, <1>5, <2>2 DEF ForcedAfter, Rationed
<1>. QED BY <1>3, <1>4, <1>5

\* Whoever starts a forced refresh found its generation in the cache, and not used up.
LEMMA StartRations ==
  ASSUME JWKSInv, Rationed, NEW c \in Clients, NEW t \in TaskIds, CoordinateStart(c, t)
  PROVE  Rationed' /\ (tasks'[t].forced # None => ~spent)
<1>1. PICK r \in Request :
        /\ r = request[c] /\ r.pc = "coordinate"
        /\ r.forced # None => Missed(r) /\ r.forced = r.snapshot.generation
  BY At DEF CoordinateStart, RequestOK
<1>2. /\ ~AlreadyRefreshed(r) /\ ~ForcedUsed(r) /\ spent' = (spent \/ r.forced # None) /\ cache' = cache
      /\ coordination'.forced = IF r.forced # None THEN r.forced ELSE coordination.forced
      /\ tasks'[t].forced = r.forced
  BY <1>1 DEF CoordinateStart, NewTask, JWKSInv, JWKSTypeOK, Coordination
<1>3. CASE r.forced = None
  BY <1>2, <1>3 DEF Rationed
<1>4. CASE r.forced # None
  <2>1. r.forced \in Nat \ {0}
    BY <1>1, <1>4 DEF Missed, Request, Snapshot
  <2>2. cache # None /\ cache.generation = r.forced /\ coordination.forced # r.forced
    BY <1>2, <1>4, <2>1 DEF AlreadyRefreshed, Generation, ForcedUsed
  <2>. QED BY <1>2, <1>4, <2>2 DEF Rationed
<1>. QED BY <1>3, <1>4

\* No other step forces a refresh, or gives a forced generation free.
LEMMA StepsRation ==
  ASSUME JWKSInv, Rationed, [JWKSNext]_jwksVars,
         \A t \in TaskIds : ~Publish(t) /\ \A c \in Clients : ~CoordinateStart(c, t)
  PROVE  Rationed' /\ Live' \subseteq Live
<1>1. coordination \in Coordination
  BY DEF JWKSInv, JWKSTypeOK
<1>2. SUFFICES /\ cache' = cache \/ cache' = None
               /\ spent' = spent /\ coordination'.forced = coordination.forced /\ Live' \subseteq Live
  BY DEF Rationed
<1>3. ASSUME NEW c \in Clients,
             \/ \E p \in Providers : Warmup(c, p) \/ \E kid \in Kids : Select(c, p, kid)
             \/ CheckNegative(c) \/ CoordinateImmediate(c) \/ CoordinateJoin(c)
             \/ Resume(c) \/ Remember(c) \/ Abort(c)
      PROVE  /\ cache' = cache \/ cache' = None
             /\ spent' = spent /\ coordination'.forced = coordination.forced /\ Live' \subseteq Live
  BY <1>1, <1>3 DEF Warmup, Select, CheckNegative, CoordinateImmediate, CoordinateJoin, Resume, Remember,
                    Abort, Coordination, Live
<1>4. ASSUME NEW t \in TaskIds,
             \/ StartFetch(t) \/ FetchFailed(t)
             \/ \E ttl \in Ttls, noStore \in BOOLEAN :
                  \/ FetchNotModified(t, ttl, noStore)
                  \/ \E ks \in SUBSET Kids : FetchDocument(t, ks, ttl, noStore)
      PROVE  /\ cache' = cache \/ cache' = None
             /\ spent' = spent /\ coordination'.forced = coordination.forced /\ Live' \subseteq Live
  BY <1>4 DEF StartFetch, FetchFailed, FetchNotModified, FetchDocument, Live
<1>5. ASSUME NEW t \in Live, CancelTask(t) PROVE Live' \subseteq Live
  BY <1>5 DEF CancelTask, Ended, Live
<1>6. ASSUME NEW p \in Providers,
             Attach(p) \/ BeginClose(p) \/ Detach(p) \/ Gather(p) \/ CloseFetcher(p) \/ CancelClose(p)
      PROVE  /\ cache' = cache \/ cache' = None
             /\ spent' = spent /\ coordination'.forced = coordination.forced /\ Live' \subseteq Live
  <2>1. CASE Attach(p) \/ BeginClose(p) \/ Gather(p) \/ CloseFetcher(p)
    BY <1>1, <2>1 DEF Attach, BeginClose, Gather, CloseFetcher, Coordination, Live
  <2>2. CASE Detach(p)
    BY <1>1, <1>5, <2>2 DEF Detach, Coordination, Live
  <2>3. CASE CancelClose(p)
    BY <1>5, <2>3 DEF CancelClose, Live
  <2>. QED BY <1>6, <2>1, <2>2, <2>3
<1>7. CASE Evict \/ Tick \/ UNCHANGED jwksVars
  BY <1>7 DEF Evict, Tick, jwksVars, Live
<1>8. CASE Selecting
  BY <1>3, <1>8 DEF Selecting
<1>9. CASE Refreshing
  BY <1>4, <1>9 DEF Refreshing
<1>10. CASE Closing
  BY <1>6, <1>10 DEF Closing
<1>. QED BY <1>7, <1>8, <1>9, <1>10 DEF JWKSNext

LEMMA RationedStep ==
  ASSUME JWKSInv, Rationed, [JWKSNext]_jwksVars
  PROVE  /\ Rationed'
         /\ \A t \in TaskIds : t \notin Live /\ t \in DOMAIN tasks' /\ tasks'[t].forced # None => ~spent
<1>1. CASE \E t \in TaskIds : Publish(t)
  <2>1. PICK t \in TaskIds : Publish(t)
    BY <1>1
  <2>2. Live' \subseteq Live
    BY <2>1 DEF Publish, Ended, Live
  <2>. QED BY <2>1, <2>2, PublishRations DEF Live
<1>2. CASE \E t \in TaskIds, c \in Clients : CoordinateStart(c, t)
  <2>1. PICK t \in TaskIds, c \in Clients : CoordinateStart(c, t)
    BY <1>2
  <2>2. Live' = Live \cup {t}
    BY <2>1 DEF CoordinateStart, Live
  <2>. QED BY <2>1, <2>2, StartRations DEF Live
<1>3. CASE \A t \in TaskIds : ~Publish(t) /\ \A c \in Clients : ~CoordinateStart(c, t)
  BY <1>3, StepsRation DEF Live
<1>. QED BY <1>1, <1>2, <1>3

(* However many requests for unknown keys arrive, through however many providers,
   evictions, failures, cancelled tasks and closes: after one forced fetch there is
   no second one before an ordinary refresh has stored another generation.  *)
THEOREM ForcedFetchesStayRationed == JWKSSpec => ForcedFetchesAreRationed
<1>1. JWKSInit => Rationed
  BY DEF JWKSInit, Rationed
<1>2. JWKSSpec => []Rationed
  <2>1. JWKSInv /\ Rationed /\ [JWKSNext]_jwksVars => Rationed'
    BY RationedStep
  <2>. QED BY <1>1, <2>1, JWKSInductive, PTL DEF JWKSSpec
<1>3. JWKSInv /\ Rationed /\ [JWKSNext]_jwksVars =>
        [\A t \in TaskIds : t \notin Live /\ t \in DOMAIN tasks' /\ tasks'[t].forced # None => ~spent]_jwksVars
  BY RationedStep
<1>. QED BY <1>2, <1>3, JWKSInductive, PTL DEF JWKSSpec, ForcedFetchesAreRationed

===============================================================================
