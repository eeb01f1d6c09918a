----------------------------- MODULE BrowserClient -----------------------------
(* One connection of the web page: page.tsx, BrowserP2PClient, the Worker's  *)
(* connect and stop, and BrowserNativeWebRtcClient. The Worker dials libp2p  *)
(* while the native client tries WebRTC; the first to connect is kept.       *)
(* Messages of the Worker arrive in order; what the page does between two    *)
(* awaits is one step.                                                       *)
EXTENDS Naturals, Sequences

CONSTANT MaxInbox   \* bound: Worker messages on their way

VARIABLES
  relay, token,      \* what the user filled in: a relay address, a pairing token
  ui,                \* connectionState
  phase,             \* of BrowserP2PClient.connect()
  active,            \* the transport that won
  stopped,           \* client.stop() was called
  request,           \* the page's "connect" request to the Worker
  worker,            \* the Worker's connect: its stream is open in "auth" and "reading"
  timedOut,          \* connectWithTimeout has rejected
  workerStop,        \* WorkerP2PClient.stopped: "no", "asked", "done"
  inbox,             \* messages of the Worker
  native,            \* BrowserNativeWebRtcClient.connect()
  nativeStopped, sessions, connection,
  heard              \* transports whose data reached the page

pageVars == <<relay, token, ui, phase, active, stopped, request, heard>>
workerVars == <<worker, timedOut, workerStop, inbox>>
nativeVars == <<native, nativeStopped, sessions, connection>>
clientVars == <<pageVars, workerVars, nativeVars>>

ClientInit ==
  /\ relay \in BOOLEAN /\ token \in BOOLEAN
  /\ ui = "idle" /\ phase = "none" /\ active = "none" /\ stopped = FALSE
  /\ request = "none" /\ heard = {}
  /\ worker = "idle" /\ timedOut = FALSE /\ workerStop = "no" /\ inbox = <<>>
  /\ native = "none" /\ nativeStopped = FALSE /\ sessions = "none" /\ connection = "none"

\* native.stop() up to its first await; the connection takes its sessions along.
StopNative ==
  /\ nativeStopped' = (native # "none")
  /\ connection' = IF connection = "live" THEN "closed" ELSE connection
  /\ sessions' = IF connection = "live" THEN "closed" ELSE sessions

AskWorkerToStop == workerStop' = IF workerStop = "no" THEN "asked" ELSE workerStop

\* BrowserP2PClient.stop() up to its await.
StopBoth == StopNative /\ AskWorkerToStop /\ stopped' = TRUE

--------------------------------------------------------------------------------
\* connect() of the page; the Worker starts its node first.
UserConnects ==
  /\ ui = "idle"
  /\ ui' = "starting" /\ phase' = "starting"
  /\ UNCHANGED <<relay, token, active, stopped, request, heard, workerVars, nativeVars>>

WorkerStarted ==
  /\ phase = "starting"
  /\ phase' = "racing" /\ ui' = "connecting"
  /\ request' = "pending" /\ worker' = "dialing"
  /\ native' = IF relay THEN "none" ELSE "sessions"
  /\ UNCHANGED <<relay, token, active, stopped, heard, timedOut, workerStop, inbox,
                 nativeStopped, sessions, connection>>

StartFails ==
  /\ phase = "starting"
  /\ phase' = "threw" /\ ui' = "error"
  /\ StopBoth
  /\ UNCHANGED <<relay, token, active, request, heard, worker, timedOut, inbox, native>>

\* Every transport has failed: connect() throws and the page stops the client.
ConnectFails ==
  /\ phase = "racing" /\ request = "failed" /\ native \in {"none", "failed"}
  /\ phase' = "threw" /\ ui' = "error"
  /\ StopBoth
  /\ UNCHANGED <<relay, token, active, request, heard, worker, timedOut, inbox, native>>

\* nativeWebRtc.stop() is over, connect() returns.
NativeStopped ==
  /\ phase = "stoppingNative"
  /\ phase' = "done" /\ ui' = "connected"
  /\ UNCHANGED <<relay, token, active, stopped, request, heard, workerVars, nativeVars>>

\* The button of a connected page, or the next connect after the stream's end.
Disconnect ==
  /\ ui \in {"connected", "closed"} /\ phase = "done"
  /\ phase' = "disconnecting"
  /\ StopBoth
  /\ UNCHANGED <<relay, token, ui, active, request, heard, worker, timedOut, inbox, native>>

Disconnected ==
  /\ phase = "disconnecting" /\ workerStop = "done"
  /\ phase' = "disconnected" /\ ui' = "closed"
  /\ UNCHANGED <<relay, token, active, stopped, request, heard, workerVars, nativeVars>>

\* The page goes away while connecting, or later.
Unmount ==
  /\ phase \in {"racing", "stoppingNative", "done"} /\ ~stopped
  /\ StopBoth
  /\ UNCHANGED <<relay, token, ui, phase, active, request, heard, worker, timedOut, inbox, native>>

--------------------------------------------------------------------------------
\* Answer to the connect request; after the timeout nobody takes it.
Answer(m) == IF timedOut THEN inbox ELSE Append(inbox, m)

StreamOpens ==
  /\ worker = "dialing"
  /\ worker' = IF token THEN "auth" ELSE "reading"
  /\ inbox' = IF token THEN inbox ELSE Answer("ok")
  /\ UNCHANGED <<pageVars, timedOut, workerStop, nativeVars>>

Authenticated ==
  /\ worker = "auth"
  /\ worker' = "reading" /\ inbox' = Answer("ok")
  /\ UNCHANGED <<pageVars, timedOut, workerStop, nativeVars>>

WorkerFails ==
  /\ worker \in {"dialing", "auth"}
  /\ worker' = "ended" /\ inbox' = Answer("error")
  /\ UNCHANGED <<pageVars, timedOut, workerStop, nativeVars>>

\* connect() itself goes on.
WorkerTimesOut ==
  /\ worker \in {"dialing", "auth"} /\ ~timedOut
  /\ timedOut' = TRUE /\ inbox' = Append(inbox, "error")
  /\ UNCHANGED <<pageVars, worker, workerStop, nativeVars>>

WorkerReceives ==
  /\ worker = "reading" /\ Len(inbox) < MaxInbox
  /\ inbox' = Append(inbox, "data")
  /\ UNCHANGED <<pageVars, worker, timedOut, workerStop, nativeVars>>

StreamEnds ==
  /\ worker = "reading"
  /\ worker' = "ended" /\ inbox' = Append(inbox, "closed")
  /\ UNCHANGED <<pageVars, timedOut, workerStop, nativeVars>>

\* stop() in the Worker: the stream is aborted, receiveTask ends, the node stops.
WorkerStops ==
  /\ workerStop = "asked" /\ worker \notin {"stopped", "terminated"}
  /\ worker' = "stopped"
  /\ inbox' = inbox \o (IF worker = "reading" THEN <<"closed", "stopped">> ELSE <<"stopped">>)
  /\ UNCHANGED <<pageVars, timedOut, workerStop, nativeVars>>

\* Mutant: the transport that lost is left running.
Loser_Kept(state) == state
Loser(state) == "terminated"

\* WorkerP2PClient.cancel(), which does nothing after a stop().
CancelWorker ==
  IF workerStop = "no"
  THEN /\ worker' = Loser(worker) /\ workerStop' = "done" /\ inbox' = <<>> /\ request' = "failed"
  ELSE UNCHANGED <<worker, workerStop, inbox, request>>

TakeOk ==
  /\ request' = "done"
  /\ IF phase = "racing" /\ active = "none"
     THEN /\ active' = "worker"
          /\ IF relay THEN phase' = "done" /\ ui' = "connected" /\ UNCHANGED nativeVars
                      ELSE phase' = "stoppingNative" /\ StopNative /\ UNCHANGED <<ui, native>>
     ELSE UNCHANGED <<active, phase, ui, nativeVars>>
  /\ UNCHANGED <<heard, worker, workerStop>>

\* The page takes the next message.
WorkerMessage ==
  /\ inbox # <<>>
  /\ inbox' = IF Head(inbox) = "stopped" THEN <<>> ELSE Tail(inbox)
  /\ \/ Head(inbox) = "ok" /\ request = "pending" /\ TakeOk
     \/ /\ Head(inbox) = "error"
        /\ request' = "failed"
        /\ UNCHANGED <<phase, ui, active, heard, worker, workerStop, nativeVars>>
     \/ /\ Head(inbox) = "data"
        /\ heard' = heard \union {"worker"}
        /\ UNCHANGED <<phase, ui, active, request, worker, workerStop, nativeVars>>
     \/ /\ Head(inbox) = "closed"
        /\ ui' = IF ui = "error" THEN ui ELSE "closed"
        /\ UNCHANGED <<phase, active, request, heard, worker, workerStop, nativeVars>>
     \/ /\ Head(inbox) = "stopped"
        /\ worker' = "terminated" /\ workerStop' = "done"
        /\ request' = IF request = "pending" THEN "failed" ELSE request
        /\ UNCHANGED <<phase, ui, active, heard, nativeVars>>
  /\ UNCHANGED <<relay, token, stopped, timedOut>>

--------------------------------------------------------------------------------
\* Mutant: connect() goes on although stop() came while the sessions opened.
StoppedMeanwhile_NotAsked == FALSE
StoppedMeanwhile == nativeStopped

SessionsReady ==
  /\ native = "sessions"
  /\ IF StoppedMeanwhile
     THEN native' = "failed" /\ UNCHANGED <<sessions, connection>>
     ELSE native' = "connecting" /\ sessions' = "open" /\ connection' = "live"
  /\ UNCHANGED <<pageVars, workerVars, nativeStopped>>

\* No session opened, the connection timed out or was closed, or the handshake failed.
NativeFails ==
  /\ native \in {"sessions", "connecting", "auth"}
  /\ native' = "failed"
  /\ connection' = IF connection = "live" THEN "closed" ELSE connection
  /\ sessions' = IF connection = "live" THEN "closed" ELSE sessions
  /\ UNCHANGED <<pageVars, workerVars, nativeStopped>>

NativeAuthenticates ==
  /\ native = "connecting" /\ connection = "live" /\ token
  /\ native' = "auth"
  /\ UNCHANGED <<pageVars, workerVars, nativeStopped, sessions, connection>>

\* connect() fulfils; if it is the first to, the Worker is cancelled.
NativeOpens ==
  /\ native = (IF token THEN "auth" ELSE "connecting") /\ connection = "live"
  /\ native' = "open"
  /\ IF phase = "racing" /\ active = "none"
     THEN active' = "native" /\ phase' = "done" /\ ui' = "connected" /\ CancelWorker
     ELSE UNCHANGED <<active, phase, ui, request, worker, workerStop, inbox>>
  /\ UNCHANGED <<relay, token, stopped, heard, timedOut, nativeStopped, sessions, connection>>

NativeReceives ==
  /\ native = "open" /\ connection = "live"
  /\ heard' = heard \union {"native"}
  /\ UNCHANGED <<relay, token, ui, phase, active, stopped, request, workerVars, nativeVars>>

\* The receive loop ends: the remote side closed, or the connection did.
NativeEnds ==
  /\ native = "open"
  /\ native' = "ended"
  /\ connection' = "closed" /\ sessions' = "closed"
  /\ ui' = IF nativeStopped \/ ui = "error" THEN ui ELSE "closed"
  /\ UNCHANGED <<relay, token, phase, active, stopped, request, heard, workerVars, nativeStopped>>

ClientNext ==
  \/ UserConnects \/ WorkerStarted \/ StartFails \/ ConnectFails \/ NativeStopped
  \/ Disconnect \/ Disconnected \/ Unmount
  \/ StreamOpens \/ Authenticated \/ WorkerFails \/ WorkerTimesOut \/ WorkerReceives
  \/ StreamEnds \/ WorkerStops \/ WorkerMessage
  \/ SessionsReady \/ NativeFails \/ NativeAuthenticates \/ NativeOpens \/ NativeReceives \/ NativeEnds

\* Timers end a connect, messages arrive and promises settle.
ClientFairness ==
  /\ WF_clientVars(WorkerStarted \/ StartFails \/ ConnectFails \/ NativeStopped \/ Disconnected)
  /\ WF_clientVars(WorkerTimesOut \/ StreamOpens \/ WorkerFails)
  /\ WF_clientVars(WorkerStops)
  /\ WF_clientVars(WorkerMessage)
  /\ WF_clientVars(SessionsReady \/ NativeOpens \/ NativeFails)

ClientSpec == ClientInit /\ [][ClientNext]_clientVars /\ ClientFairness

--------------------------------------------------------------------------------
ClientTypeOK ==
  /\ relay \in BOOLEAN /\ token \in BOOLEAN /\ stopped \in BOOLEAN
  /\ timedOut \in BOOLEAN /\ nativeStopped \in BOOLEAN
  /\ ui \in {"idle", "starting", "connecting", "connected", "closed", "error"}
  /\ phase \in {"none", "starting", "racing", "stoppingNative", "done", "threw",
                "disconnecting", "disconnected"}
  /\ active \in {"none", "worker", "native"}
  /\ request \in {"none", "pending", "done", "failed"}
  /\ worker \in {"idle", "dialing", "auth", "reading", "ended", "stopped", "terminated"}
  /\ workerStop \in {"no", "asked", "done"}
  /\ inbox \in Seq({"ok", "error", "data", "closed", "stopped"})
  /\ native \in {"none", "sessions", "connecting", "auth", "open", "ended", "failed"}
  /\ sessions \in {"none", "open", "closed"} /\ connection \in {"none", "live", "closed"}
  /\ heard \subseteq {"worker", "native"}

(* The first channel cancels the other for good, also one that was still     *)
(* opening its signaling sessions or dialling; and unless the Worker's       *)
(* connect had timed out before, the page hears only the one it has chosen.  *)
OneTransport ==
  /\ active = "worker" => connection # "live"
  /\ active = "native" => worker = "terminated"
  /\ ~timedOut => heard \subseteq {active}

(* connect() settles, and a client that was stopped lets go of the Worker,   *)
(* the signaling sessions and the connection, wherever the stop met it.      *)
ClientLetsGo ==
  /\ (phase = "racing") ~> (phase # "racing")
  /\ stopped ~> (workerStop = "done" /\ sessions # "open" /\ native # "sessions")

(* The Worker enforces the connection timeout around its whole sequence: a   *)
(* connect that timed out opens no stream (connectWithTimeout).              *)
TimedOutStaysClosed == timedOut => worker # "reading"
=============================================================================
