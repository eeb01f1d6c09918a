----------------------------- MODULE SessionRace -----------------------------
(***************************************************************************)
(* One listener (runListener, src/cli.js) and the clients that race libp2p *)
(* against native WebRTC to reach it (runClient).  A one-shot listener     *)
(* serves one session and stops; with a pairing token a stream has to      *)
(* authenticate first (packages/core/src/authenticated-stream.js).         *)
(*                                                                         *)
(* A stream is a pair <<client, transport>>.  The two transports open in   *)
(* opposite orders: libp2p's handler runs at the listener before           *)
(* dialProtocol resolves at the client, the WebRTC client's promise        *)
(* resolves when AUTH_READY is sent, before the listener has its stream.   *)
(***************************************************************************)
EXTENDS FiniteSets

CONSTANT Client

Transport == {"libp2p", "webrtc"}
Stream == Client \X Transport
Rival(s) == <<s[1], IF s[2] = "libp2p" THEN "webrtc" ELSE "libp2p">>

VARIABLES
    persistent, \* persistentMode: -k, -i, -S or -p
    token,      \* a pairing token is given on both sides
    dial,       \* dial[s]: the client's attempt on s
    winner,     \* winner[k]: the stream runClient chose, a set of at most one
    left,       \* the clients whose runClient has ended
    srv,        \* srv[s]: where handleIncoming is with s
    acked,      \* the streams the listener sent the pairing acknowledgement on
    down,       \* the streams that were closed, aborted or reset
    handled,    \* runListener's flag
    completed,  \* the promise firstSession
    up,         \* the listener runs
    began       \* the streams a session function was given (history)

options == <<persistent, token>>
clientVars == <<dial, winner, left>>
listenerVars == <<srv, acked, handled, completed, up, began>>
vars == <<options, clientVars, listenerVars, down>>

TypeOK ==
    /\ persistent \in BOOLEAN /\ token \in BOOLEAN
    /\ dial \in [Stream -> {"dialing", "open", "done", "failed"}]
    /\ winner \in [Client -> {{}} \cup {{s} : s \in Stream}]
    /\ left \subseteq Client
    /\ srv \in [Stream -> {"idle", "auth", "session", "refused", "over"}]
    /\ acked \subseteq Stream
    /\ down \subseteq Stream
    /\ handled \in BOOLEAN
    /\ completed \in {"pending", "resolved", "rejected"}
    /\ up \in BOOLEAN
    /\ began \subseteq Stream

Init ==
    /\ persistent \in BOOLEAN /\ token \in BOOLEAN
    /\ dial = [s \in Stream |-> "dialing"]
    /\ winner = [k \in Client |-> {}]
    /\ left = {}
    /\ srv = [s \in Stream |-> "idle"]
    /\ acked = {}
    /\ down = {}
    /\ handled = FALSE
    /\ completed = "pending"
    /\ up = TRUE
    /\ began = {}

-----------------------------------------------------------------------------
(* The client.                                                              *)

\* Mutant: the losing attempt is left alone.
Cancels_Nothing(s) == FALSE
\* Choosing the winner cancels attempt s: webRtcAttempt.close() ends a WebRTC
\* attempt in any state; libp2pController.abort ends a dial, but not the
\* pairing handshake on a stream that is already open.
Cancels(s) ==
    \/ dial[s] = "dialing"
    \/ s[2] = "webrtc" /\ dial[s] = "open"

\* Mutant: an attempt that fulfils later is chosen as well.
Fulfil_EveryOne(s) ==
    /\ winner' = [winner EXCEPT ![s[1]] = @ \cup {s}]
    /\ dial' = [dial EXCEPT ![s] = "done"]
    /\ UNCHANGED down
\* The promise of s fulfils; the first one is Promise.any's.
Fulfil(s) ==
    IF winner[s[1]] # {}
    THEN dial' = [dial EXCEPT ![s] = "done"] /\ UNCHANGED <<winner, down>>
    ELSE /\ winner' = [winner EXCEPT ![s[1]] = {s}]
         /\ dial' = [dial EXCEPT ![s] = "done",
                        ![Rival(s)] = IF Cancels(Rival(s)) THEN "failed" ELSE @]
         /\ down' = IF Cancels(Rival(s)) THEN down \cup {Rival(s)} ELSE down

\* dialProtocol resolves, or the WebRTC promise does; with a token the hello
\* is sent and the attempt waits for its acknowledgement.
Opens(s) ==
    /\ dial[s] = "dialing"
    /\ s[1] \notin left /\ up
    /\ s[2] = "libp2p" => srv[s] # "idle"
    /\ IF token
       THEN dial' = [dial EXCEPT ![s] = "open"] /\ UNCHANGED <<winner, down>>
       ELSE Fulfil(s)
    /\ UNCHANGED <<left, listenerVars>>

\* The listener's acknowledgement arrives and verifies.
AckArrives(s) ==
    /\ dial[s] = "open" /\ s \in acked
    /\ s[1] \notin left
    /\ Fulfil(s)
    /\ UNCHANGED <<left, listenerVars>>

\* An attempt fails: its dial times out or is refused, or
\* authenticateClientStream times out or finds the stream closed, and aborts.
AttemptFails(s) ==
    /\ dial[s] \in {"dialing", "open"}
    /\ s[1] \notin left
    /\ dial' = [dial EXCEPT ![s] = "failed"]
    /\ down' = down \cup {s}
    /\ UNCHANGED <<winner, left, listenerVars>>

\* The client's session ends, or both attempts have failed: the finally block
\* of runClient closes everything that is still open.
ClientLeaves(k) ==
    /\ k \notin left
    /\ \/ winner[k] # {}
       \/ \A s \in Stream : s[1] = k => dial[s] = "failed"
    /\ left' = left \cup {k}
    /\ down' = down \cup {s \in Stream : s[1] = k /\ dial[s] # "failed"}
    /\ UNCHANGED <<dial, winner, listenerVars>>
-----------------------------------------------------------------------------
(* The listener.                                                            *)

Settle(how) == completed' = IF completed = "pending" THEN how ELSE completed

\* Mutant: refusing a second stream ends the listener.
CompletedAfterRefusal_Rejected == IF completed = "pending" THEN "rejected" ELSE completed
\* Refusing a stream is an early return: firstSession is not touched.
CompletedAfterRefusal == completed

\* The check before the handshake.
Full == handled /\ ~persistent

\* handleIncoming up to the session function or the pairing handshake.
Arrives(s) ==
    /\ up
    /\ srv[s] = "idle"
    /\ IF s[2] = "libp2p" THEN dial[s] = "dialing" ELSE dial[s] \in {"open", "done"}
    /\ IF Full
       THEN /\ srv' = [srv EXCEPT ![s] = "refused"]
            /\ down' = down \cup {s}
            /\ completed' = CompletedAfterRefusal
            /\ UNCHANGED <<handled, began>>
       ELSE /\ srv' = [srv EXCEPT ![s] = IF token THEN "auth" ELSE "session"]
            /\ handled' = (handled \/ ~token)
            /\ began' = IF token THEN began ELSE began \cup {s}
            /\ UNCHANGED <<down, completed>>
    /\ UNCHANGED <<acked, up, clientVars>>

\* Mutant: handled is not read again after the handshake.
FullAfterAuth_NotChecked == FALSE
\* The same check after the handshake, which other streams may have passed
\* meanwhile.
FullAfterAuth == Full

\* The hello verifies and the acknowledgement is sent; then the check.
AuthPasses(s) ==
    /\ up
    /\ srv[s] = "auth"
    /\ dial[s] # "dialing" /\ s \notin down
    /\ acked' = acked \cup {s}
    /\ IF FullAfterAuth
       THEN /\ srv' = [srv EXCEPT ![s] = "refused"]
            /\ down' = down \cup {s}
            /\ completed' = CompletedAfterRefusal
            /\ UNCHANGED <<handled, began>>
       ELSE /\ srv' = [srv EXCEPT ![s] = "session"]
            /\ handled' = TRUE
            /\ began' = began \cup {s}
            /\ UNCHANGED <<down, completed>>
    /\ UNCHANGED <<up, clientVars>>

\* authenticateServerStream throws (timeout, or the stream ended) and aborts
\* the stream; the catch block of handleIncoming settles firstSession.
AuthFails(s) ==
    /\ up
    /\ srv[s] = "auth"
    /\ srv' = [srv EXCEPT ![s] = "over"]
    /\ down' = down \cup {s}
    /\ IF persistent THEN UNCHANGED completed ELSE Settle("rejected")
    /\ UNCHANGED <<acked, handled, up, began, clientVars>>

\* The session function returns, or throws.
SessionEnds(s) ==
    /\ up
    /\ srv[s] = "session"
    /\ srv' = [srv EXCEPT ![s] = "over"]
    /\ down' = down \cup {s}
    /\ IF persistent THEN UNCHANGED completed
       ELSE \E how \in {"resolved", "rejected"} : Settle(how)
    /\ UNCHANGED <<acked, handled, up, began, clientVars>>

\* firstSession has settled: the finally block of runListener stops the node.
ListenerStops ==
    /\ up /\ ~persistent
    /\ completed # "pending"
    /\ up' = FALSE
    /\ down' = Stream
    /\ UNCHANGED <<srv, acked, handled, completed, began, clientVars>>
-----------------------------------------------------------------------------
Next ==
    /\ \/ \E s \in Stream :
             \/ Opens(s) \/ AckArrives(s) \/ AttemptFails(s)
             \/ Arrives(s) \/ AuthPasses(s) \/ AuthFails(s) \/ SessionEnds(s)
       \/ \E k \in Client : ClientLeaves(k)
       \/ ListenerStops
    /\ UNCHANGED options

Spec == Init /\ [][Next]_vars

\* A session function or a handshake whose stream is down ends, attempts time
\* out, and a settled firstSession stops the listener.  Nothing makes a
\* healthy session end or a stream arrive.
Fairness ==
    /\ \A s \in Stream :
          /\ WF_vars(s \in down /\ SessionEnds(s) /\ UNCHANGED options)
          /\ WF_vars(AuthFails(s) /\ UNCHANGED options)
          /\ WF_vars(AttemptFails(s) /\ UNCHANGED options)
    /\ WF_vars(ListenerStops /\ UNCHANGED options)

FairSpec == Spec /\ Fairness
-----------------------------------------------------------------------------
\* A one-shot listener gives at most one stream to a session function, also
\* when several streams pass the pairing handshake at the same time.
OneSession == ~persistent => \A s, t \in began : s = t

\* Without a token a one-shot listener stops only after the session it
\* accepted is over: no other stream's fate, a refusal least of all, ends it.
StopsAfterItsSession == ~up /\ ~token => \E s \in began : srv[s] = "over"

\* Without a token, once a client has chosen, what it started on the other
\* transport does not keep a session of the listener busy.
LoserLetsGo ==
    \A s \in Stream :
        (s \in winner[s[1]] /\ ~token) ~> (srv[Rival(s)] # "session" \/ ~up)

-----------------------------------------------------------------------------
(* What the documents promise beyond that; TLC refutes it.                  *)

\* A session that was accepted is not cut short by the listener stopping.
AcceptedSessionRunsOn == up \/ \A s \in began : srv[s] = "over"
=============================================================================
