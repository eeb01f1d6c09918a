--------------------------- MODULE SignalingSockets ---------------------------
(* The sockets of a signaling session: one per relay or tracker, reconnected *)
(* after a delay until the session is closed (a timer may fire at any time:  *)
(* how the delay grows is left out). Nostr and BitTorrent sessions have the  *)
(* same code for it; NostrSession and TorrentSession add what their onopen,  *)
(* onmessage and timers do.                                                  *)
CONSTANT Urls

VARIABLES
  socket,   \* the newest socket of each url: "none", "connecting", "open",
            \* "closing" (no longer open, onclose not yet called) or "closed"
  timer,    \* whether a reconnect of the url is scheduled
  closed    \* close() was called

socketVars == <<socket, timer, closed>>

Live == {"connecting", "open"}

\* The constructor connects every url; `new WebSocket` may throw at once.
SocketsInit ==
  /\ socket \in [Urls -> {"connecting", "none"}]
  /\ timer = [u \in Urls |-> socket[u] = "none"]
  /\ closed = FALSE

SocketOpens(u) ==
  /\ socket[u] = "connecting"
  /\ socket' = [socket EXCEPT ![u] = "open"]
  /\ UNCHANGED <<timer, closed>>

SocketDrops(u) ==
  /\ socket[u] \in Live
  /\ socket' = [socket EXCEPT ![u] = "closing"]
  /\ UNCHANGED <<timer, closed>>

\* Mutant: no reconnect is scheduled.
Scheduled_Never(u) == timer
Scheduled(u) == [timer EXCEPT ![u] = TRUE]

SocketCloses(u) ==
  /\ socket[u] = "closing"
  /\ socket' = [socket EXCEPT ![u] = "closed"]
  /\ IF closed THEN UNCHANGED timer ELSE timer' = Scheduled(u)
  /\ UNCHANGED closed

\* The timer fires: #connect() makes a socket, or its constructor throws and
\* the next reconnect is scheduled.
Reconnects(u) ==
  /\ timer[u]
  /\ \/ /\ closed
        /\ timer' = [timer EXCEPT ![u] = FALSE]
        /\ UNCHANGED socket
     \/ /\ ~closed
        /\ timer' = [timer EXCEPT ![u] = FALSE]
        /\ socket' = [socket EXCEPT ![u] = "connecting"]
     \/ ~closed /\ timer' = Scheduled(u) /\ UNCHANGED socket
  /\ UNCHANGED closed

\* close() reaches only urls that ever had a socket: the timer of one whose
\* constructor has always thrown stays, and finds the session closed.
SocketsShut ==
  /\ ~closed
  /\ closed' = TRUE
  /\ timer' = [u \in Urls |-> timer[u] /\ socket[u] = "none"]
  /\ socket' = [u \in Urls |-> IF socket[u] \in Live THEN "closing" ELSE socket[u]]

SocketsTypeOK ==
  /\ socket \in [Urls -> Live \union {"none", "closing", "closed"}]
  /\ timer \in [Urls -> BOOLEAN]
  /\ closed \in BOOLEAN

(* No relay is forgotten and none is connected twice: while the session is   *)
(* open, a url has either a socket that will still report its close, or a    *)
(* scheduled reconnect, never both; a closed session has no live socket and  *)
(* makes none (#connect, #scheduleReconnect and close of both sessions).     *)
RelayKept ==
  \A u \in Urls :
    /\ ~closed => (timer[u] <=> socket[u] \in {"none", "closed"})
    /\ closed => socket[u] \notin Live
=============================================================================
