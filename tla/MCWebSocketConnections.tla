----------------------- MODULE MCWebSocketConnections -----------------------
EXTENDS WebSocketConnections

\* Two connections race for one connect token across one security change; the
\* handler of one of them sends events.
=============================================================================
