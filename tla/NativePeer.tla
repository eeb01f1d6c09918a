------------------------------ MODULE NativePeer ------------------------------
(* One NativeWebRtcPeer. RTCPeerConnection and its data channel are external *)
(* and appear as the code sees them: promises that resolve or reject, state  *)
(* changes that call handlers. The caller closes a peer whose start() or     *)
(* signal() rejects, as native-endpoint.js does.                             *)
EXTENDS Naturals, Sequences, SequencesExt

CONSTANTS
  Candidates,   \* remote ICE candidates, each signaled at most once
  MaxChanges    \* bound of the model: changes of the connection's states

States == {"new", "connected", "disconnected", "failed"}

VARIABLES
  initiator,    \* constructor option
  trickle,      \* constructor option trickleIce
  local,        \* our description: "none", "making", "gathering", "published"
  remote,       \* theirs: "none", "setting", "set"
  queue,        \* #pendingCandidates
  adding,       \* those #flushCandidates has taken and not yet added
  added,        \* what addIceCandidate was called with
  arrived,      \* every candidate that was signaled to us
  connection, ice,   \* connectionState and iceConnectionState
  changes,
  timer,        \* #disconnectTimer is set
  channel,      \* "none", "connecting", "open", "closed"
  opening,      \* #openPromise: "pending", "resolved", "rejected"
  closed, ended \* #closed, and how often onClose was called

link == <<connection, ice, changes>>
vars == <<initiator, trickle, local, remote, queue, adding, added, arrived, link, timer,
          channel, opening, closed, ended>>

Init ==
  /\ initiator \in BOOLEAN /\ trickle \in BOOLEAN
  /\ local = "none" /\ remote = "none"
  /\ queue = <<>> /\ adding = <<>> /\ added = {} /\ arrived = {}
  /\ connection = "new" /\ ice = "new" /\ changes = 0
  /\ timer = FALSE
  /\ channel = IF initiator THEN "connecting" ELSE "none"
  /\ opening = "pending"
  /\ closed = FALSE /\ ended = 0

\* Mutant: close() leaves the timer of a disconnected connection running.
TimerAtClose_Kept == timer
TimerAtClose == FALSE

\* close() and #finalize: what they change, once; nothing on a closed peer.
Ends ==
  /\ closed' = TRUE
  /\ timer' = TimerAtClose
  /\ opening' = IF opening = "pending" THEN "rejected" ELSE opening
  /\ channel' = IF channel = "none" THEN "none" ELSE "closed"
  /\ ended' = ended + 1

Stays == UNCHANGED <<closed, timer, opening, channel, ended>>
EndsOnce == IF closed THEN Stays ELSE Ends

Close ==
  /\ ~closed /\ Ends
  /\ UNCHANGED <<initiator, trickle, local, remote, queue, adding, added, arrived, link>>

--------------------------------------------------------------------------------
\* start(): only the initiator, only once.
Start ==
  /\ initiator /\ ~closed /\ local = "none"
  /\ local' = "making"
  /\ Stays
  /\ UNCHANGED <<initiator, trickle, remote, queue, adding, added, arrived, link>>

\* setLocalDescription resolved; without trickle the description waits for all
\* candidates, or 12 seconds.
Described ==
  /\ local = "making" /\ ~closed
  /\ local' = IF trickle THEN "published" ELSE "gathering"
  /\ Stays
  /\ UNCHANGED <<initiator, trickle, remote, queue, adding, added, arrived, link>>

\* waitForIceGathering ends, on a closed peer too.
Gathered ==
  /\ local = "gathering"
  /\ local' = "published"
  /\ Stays
  /\ UNCHANGED <<initiator, trickle, remote, queue, adding, added, arrived, link>>

\* Creating, setting or publishing the local description fails, or one of our
\* own candidates cannot be published.
LocalFails ==
  /\ ~closed
  /\ local = "making" \/ (local # "none" /\ trickle)
  /\ Ends
  /\ UNCHANGED <<initiator, trickle, local, remote, queue, adding, added, arrived, link>>

\* signal(offer) or signal(answer): a responder is offered, an initiator
\* answered what it has published.
ReceiveDescription ==
  /\ ~closed /\ remote = "none"
  /\ initiator => local = "published"
  /\ remote' = "setting"
  /\ Stays
  /\ UNCHANGED <<initiator, trickle, local, queue, adding, added, arrived, link>>

\* Mutant: the candidates to add are taken when the description arrives.
Taken_Empty == <<>>
Taken == queue

\* setRemoteDescription resolves and #flushCandidates takes the queue, in one
\* step: from now on candidates do not queue.
RemoteSet ==
  /\ remote = "setting" /\ ~closed
  /\ remote' = "set"
  /\ adding' = Taken
  /\ queue' = <<>>
  /\ Stays
  /\ UNCHANGED <<initiator, trickle, local, added, arrived, link>>

\* A responder answers when the flush is done.
NextLocal == IF adding' = <<>> /\ ~initiator /\ local = "none" THEN "making" ELSE local

FlushOne ==
  /\ remote = "set" /\ adding # <<>> /\ ~closed
  /\ added' = added \union {Head(adding)}
  /\ adding' = Tail(adding)
  /\ local' = NextLocal
  /\ Stays
  /\ UNCHANGED <<initiator, trickle, remote, queue, arrived, link>>

FlushEmpty ==
  /\ remote = "set" /\ adding = <<>> /\ ~closed /\ ~initiator /\ local = "none"
  /\ local' = "making"
  /\ Stays
  /\ UNCHANGED <<initiator, trickle, remote, queue, adding, added, arrived, link>>

\* setRemoteDescription or addIceCandidate rejects.
RemoteFails ==
  /\ remote # "none" /\ ~closed
  /\ Ends
  /\ UNCHANGED <<initiator, trickle, local, remote, queue, adding, added, arrived, link>>

\* signal(candidate): queued while there is no remote description.
ReceiveCandidate(c) ==
  /\ ~closed /\ c \notin arrived
  /\ arrived' = arrived \union {c}
  /\ IF remote # "set" THEN queue' = Append(queue, c) /\ UNCHANGED added
                       ELSE added' = added \union {c} /\ UNCHANGED queue
  /\ Stays
  /\ UNCHANGED <<initiator, trickle, local, remote, adding, link>>

--------------------------------------------------------------------------------
\* A remote channel arrives, with the expected label; it is kept if it is the
\* first.
ChannelArrives ==
  /\ ~initiator /\ ~closed /\ remote = "set" /\ channel = "none"
  /\ channel' = "connecting"
  /\ UNCHANGED <<closed, timer, opening, ended>>
  /\ UNCHANGED <<initiator, trickle, local, remote, queue, adding, added, arrived, link>>

ChannelOpens ==
  /\ channel = "connecting" /\ ~closed /\ remote = "set"
  /\ channel' = "open"
  /\ opening' = "resolved"
  /\ UNCHANGED <<closed, timer, ended>>
  /\ UNCHANGED <<initiator, trickle, local, remote, queue, adding, added, arrived, link>>

\* onclose, onerror, or a frame its handler rejects.
ChannelFails ==
  /\ channel \in {"connecting", "open"} /\ ~closed
  /\ Ends
  /\ UNCHANGED <<initiator, trickle, local, remote, queue, adding, added, arrived, link>>

\* The late onclose of a channel that close() has closed.
ChannelClosed ==
  /\ closed /\ channel = "closed"
  /\ EndsOnce
  /\ UNCHANGED <<initiator, trickle, local, remote, queue, adding, added, arrived, link>>

Disconnected == connection = "disconnected" \/ ice = "disconnected"

\* Mutant: the timer survives a recovery.
TimerAfter_KeptOnRecovery(down) == timer \/ down
TimerAfter(down) == down

\* #handleConnectionState, called for either state.
StateChanges(c, i) ==
  /\ ~closed /\ changes < MaxChanges
  /\ <<c, i>> # <<connection, ice>>
  /\ c = connection \/ i = ice
  /\ connection' = c /\ ice' = i /\ changes' = changes + 1
  /\ IF "failed" \in {c, i} THEN Ends
     ELSE /\ timer' = TimerAfter("disconnected" \in {c, i})
          /\ UNCHANGED <<closed, opening, channel, ended>>
  /\ UNCHANGED <<initiator, trickle, local, remote, queue, adding, added, arrived>>

TimerFires ==
  /\ timer
  /\ IF Disconnected /\ ~closed THEN Ends
     ELSE timer' = FALSE /\ UNCHANGED <<closed, opening, channel, ended>>
  /\ UNCHANGED <<initiator, trickle, local, remote, queue, adding, added, arrived, link>>

Next ==
  \/ Close \/ Start \/ Described \/ Gathered \/ LocalFails
  \/ ReceiveDescription \/ RemoteSet \/ FlushOne \/ FlushEmpty \/ RemoteFails
  \/ \E c \in Candidates : ReceiveCandidate(c)
  \/ ChannelArrives \/ ChannelOpens \/ ChannelFails \/ ChannelClosed
  \/ \E c, i \in States : StateChanges(c, i)
  \/ TimerFires

Spec == Init /\ [][Next]_vars

--------------------------------------------------------------------------------
TypeOK ==
  /\ {initiator, trickle, timer, closed} \subseteq BOOLEAN
  /\ local \in {"none", "making", "gathering", "published"}
  /\ remote \in {"none", "setting", "set"}
  /\ ToSet(queue) \union ToSet(adding) \union added \subseteq arrived
  /\ arrived \subseteq Candidates
  /\ {connection, ice} \subseteq States /\ changes \in 0 .. MaxChanges
  /\ channel \in {"none", "connecting", "open", "closed"}
  /\ opening \in {"pending", "resolved", "rejected"}
  /\ ended \in Nat

(* A remote candidate is never stranded: it waits in the queue only until    *)
(* the remote description is set, is then handed to the connection exactly   *)
(* once, in the flush or directly, and none is added before it (signal,      *)
(* #flushCandidates).                                                        *)
CandidateReachesConnection ==
  /\ ToSet(queue) \union ToSet(adding) \union added = arrived
  /\ remote = "set" => queue = <<>>
  /\ remote # "set" => added = {}

(* The peer waits for a recovery exactly while it is open and one of the two *)
(* states says disconnected: a recovered connection is not closed by an old  *)
(* timer, a second loss has its full delay, and a closed peer has no timer.  *)
(* It reports its end once, and its open promise is settled by then.         *)
WaitsWhileDisconnected ==
  /\ timer <=> ~closed /\ Disconnected
  /\ ended = IF closed THEN 1 ELSE 0
  /\ closed => opening # "pending" /\ channel \in {"none", "closed"}
=============================================================================
