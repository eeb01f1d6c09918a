----------------------------- MODULE LocalForward -----------------------------
(* startLocalForward: each accepted TCP socket opens a stream and is bridged *)
(* to it. The bridge itself is one step: it ends when both directions have,  *)
(* or with an error of either end. A socket that is destroyed reports its    *)
(* close a little later.                                                     *)
CONSTANT Sockets

VARIABLES
  socket,     \* "new", "open", "destroyed", "gone" (its close was reported)
  stream,     \* of the socket: "none", "open", "closed"
  session,    \* "none", "opening" while openStream() is pending, "bridging", "done"
  known,      \* the streams in the set `streams`
  watching,   \* sockets whose close aborts their stream (onSocketClose)
  listener    \* "listening", "closing" while close() awaits, "closed"

forwardVars == <<socket, stream, session, known, watching, listener>>

ForwardInit ==
  /\ socket = [s \in Sockets |-> "new"]
  /\ stream = [s \in Sockets |-> "none"]
  /\ session = [s \in Sockets |-> "none"]
  /\ known = {} /\ watching = {}
  /\ listener = "listening"

\* Mutant: close() and the catch of a failed session leave the socket alone.
Destroyed_Left(s) == socket[s]
\* socket.destroy(), which does nothing twice.
Destroyed(s) == IF socket[s] = "open" THEN "destroyed" ELSE socket[s]

Accept(s) ==
  /\ listener = "listening" /\ socket[s] = "new"
  /\ socket' = [socket EXCEPT ![s] = "open"]
  /\ session' = [session EXCEPT ![s] = "opening"]
  /\ UNCHANGED <<stream, known, watching, listener>>

\* Mutant: the socket is not looked at again after openStream().
GoneMeanwhile_NotAsked(s) == FALSE
GoneMeanwhile(s) == socket[s] # "open"

\* openStream() resolves. The socket may be gone by then, and close() may have
\* run: its own abort did not know this stream.
StreamOpens(s) ==
  /\ session[s] = "opening"
  /\ IF GoneMeanwhile(s)
     THEN /\ stream' = [stream EXCEPT ![s] = "closed"]
          /\ session' = [session EXCEPT ![s] = "done"]
          /\ UNCHANGED <<known, watching>>
     ELSE /\ stream' = [stream EXCEPT ![s] = "open"]
          /\ session' = [session EXCEPT ![s] = "bridging"]
          /\ known' = known \union {s}
          /\ watching' = watching \union {s}
  /\ UNCHANGED <<socket, listener>>

\* openStream() rejects; the catch destroys the socket.
OpenFails(s) ==
  /\ session[s] = "opening"
  /\ session' = [session EXCEPT ![s] = "done"]
  /\ socket' = [socket EXCEPT ![s] = Destroyed(s)]
  /\ UNCHANGED <<stream, known, watching, listener>>

\* The socket's own end, or an error.
SocketFails(s) ==
  /\ socket[s] = "open"
  /\ socket' = [socket EXCEPT ![s] = "destroyed"]
  /\ UNCHANGED <<stream, session, known, watching, listener>>

SocketCloses(s) ==
  /\ socket[s] = "destroyed"
  /\ socket' = [socket EXCEPT ![s] = "gone"]
  /\ stream' = IF s \in watching THEN [stream EXCEPT ![s] = "closed"] ELSE stream
  /\ UNCHANGED <<session, known, watching, listener>>

\* The remote side, or the transport, ends the stream.
RemoteCloses(s) ==
  /\ stream[s] = "open"
  /\ stream' = [stream EXCEPT ![s] = "closed"]
  /\ UNCHANGED <<socket, session, known, watching, listener>>

\* The bridge ends: both directions are through, or one failed; inputToP2P
\* leaves no open stream and the socket is ended or destroyed.
BridgeEnds(s) ==
  /\ session[s] = "bridging"
  /\ session' = [session EXCEPT ![s] = "done"]
  /\ stream' = [stream EXCEPT ![s] = "closed"]
  /\ socket' = [socket EXCEPT ![s] = Destroyed(s)]
  /\ known' = known \ {s}
  /\ watching' = watching \ {s}
  /\ UNCHANGED listener

--------------------------------------------------------------------------------
\* close(): sockets are destroyed and known streams aborted.
CloseBegins ==
  /\ listener = "listening"
  /\ listener' = "closing"
  /\ socket' = [s \in Sockets |-> Destroyed(s)]
  /\ stream' = [s \in Sockets |-> IF s \in known THEN "closed" ELSE stream[s]]
  /\ UNCHANGED <<session, known, watching>>

\* The server reports its close when its last socket is gone; then the
\* sessions are awaited.
CloseEnds ==
  /\ listener = "closing"
  /\ \A s \in Sockets : socket[s] \in {"new", "gone"}
  /\ \A s \in Sockets : session[s] \in {"none", "done"}
  /\ listener' = "closed"
  /\ UNCHANGED <<socket, stream, session, known, watching>>

ForwardNext ==
  \/ CloseBegins \/ CloseEnds
  \/ \E s \in Sockets : \/ Accept(s) \/ StreamOpens(s) \/ OpenFails(s) \/ SocketFails(s)
                        \/ SocketCloses(s) \/ RemoteCloses(s) \/ BridgeEnds(s)

\* openStream() settles (it has a timeout), a destroyed socket reports its
\* close, and a bridge whose socket or stream is gone ends.
ForwardFairness ==
  /\ WF_forwardVars(CloseEnds)
  /\ \A s \in Sockets :
       /\ WF_forwardVars(StreamOpens(s) \/ OpenFails(s))
       /\ WF_forwardVars(SocketCloses(s))
       /\ WF_forwardVars(BridgeEnds(s) /\ (socket[s] # "open" \/ stream[s] # "open"))

ForwardSpec == ForwardInit /\ [][ForwardNext]_forwardVars /\ ForwardFairness

--------------------------------------------------------------------------------
ForwardTypeOK ==
  /\ socket \in [Sockets -> {"new", "open", "destroyed", "gone"}]
  /\ stream \in [Sockets -> {"none", "open", "closed"}]
  /\ session \in [Sockets -> {"none", "opening", "bridging", "done"}]
  /\ known \subseteq Sockets /\ watching \subseteq Sockets
  /\ listener \in {"listening", "closing", "closed"}

(* After close() has completed no stream is open, also none whose opening    *)
(* was pending when close() aborted the streams it knew; and while it        *)
(* listens, a stream never outlives its socket's report unless the bridge is *)
(* still there to end it.                                                    *)
NoOpenStreamLeft ==
  \A s \in Sockets :
    /\ listener = "closed" => stream[s] # "open"
    /\ stream[s] = "open" => session[s] = "bridging" /\ socket[s] # "gone"

(* close() completes: every pending openStream(), socket and session it      *)
(* waits for settles.                                                        *)
CloseCompletes == (listener = "closing") ~> (listener = "closed")
=============================================================================
