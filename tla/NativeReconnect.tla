---------------------------- MODULE NativeReconnect ----------------------------
(***************************************************************************)
(* The control plane of native WebRTC: connectNativeWebRtc on the client   *)
(* and startNativeWebRtcListener for this client on the listener           *)
(* (packages/core/src/native-endpoint.js).                                 *)
(*                                                                         *)
(* The client starts an attempt on each signaling session, each with a     *)
(* peer connection of its own; the listener answers it with another.  The  *)
(* first attempt whose AUTH_RESPONSE verifies becomes the link of the      *)
(* client's stream, and AUTH_READY binds the listener's stream to it.  A   *)
(* lost link is replaced by a new attempt; a stream that stays without one *)
(* for the grace period ends.                                              *)
(*                                                                         *)
(* What travels on a bound channel is WebRtcStream's subject.  Here a      *)
(* stream is its life cycle only, and the one frame kept is the one that   *)
(* ends it (abort, or the eofs of both sides).                             *)
(***************************************************************************)
EXTENDS Integers, FiniteSets

CONSTANTS
    Sessions,     \* the signaling sessions (Nostr, WebTorrent)
    MaxAttempts,  \* bound: attempts the client starts in a behaviour
    MaxPerPeer    \* MAX_LISTENER_ATTEMPTS_PER_PEER

ASSUME SessionsAssumption == Sessions # {} /\ IsFiniteSet(Sessions)
ASSUME AttemptsAssumption ==
    MaxAttempts \in Nat \ {0} /\ MaxPerPeer \in Nat \ {0}

Attempt == 1 .. MaxAttempts

VARIABLES
    closed,      \* the client connection's closed flag
    stream,      \* the client's stream
    link,        \* the attempt whose peer is link.peer, or 0
    retryTimer,  \* scheduleRound's timer is armed
    closeTimer,  \* onFinalize's 50 ms timer is armed
    outcome,     \* the promise returned by connectNativeWebRtc
    ready,       \* the sessions whose ready promise has resolved
    starting,    \* the sessions a startAttempt is waiting to use
    used,        \* attempts started so far
    session,     \* session[a]: the session of attempt a
    c,           \* c[a]: the client's part of the handshake
    cOpen,       \* the attempts whose client peer is open: the attempts set
    l,           \* l[a]: the listener's part of the handshake
    lOpen,       \* the attempts whose listener peer is open
    ended,       \* ended[a]: the sides that sent an ending frame on a
    sid,         \* the listener's open stream for this client, or 0
    sids,        \* streams the listener has opened for this client
    sLink        \* the attempt whose peer is that stream's link, or 0

clientVars == <<closed, stream, link, retryTimer, closeTimer, outcome, ready,
                starting, used, session, c, cOpen>>
listenerVars == <<l, lOpen, sid, sids, sLink>>
vars == <<clientVars, listenerVars, ended>>

TypeOK ==
    /\ closed \in BOOLEAN
    /\ stream \in {"none", "connected", "reconnecting", "closed"}
    /\ link \in 0 .. MaxAttempts
    /\ retryTimer \in BOOLEAN
    /\ closeTimer \in BOOLEAN
    /\ outcome \in {"pending", "resolved", "rejected"}
    /\ ready \subseteq Sessions
    /\ starting \subseteq Sessions
    /\ used \in 0 .. MaxAttempts
    /\ session \in [Attempt -> Sessions]
    /\ c \in [Attempt -> {"unused", "offered", "verifying", "claimed", "failed"}]
    /\ cOpen \subseteq Attempt
    /\ l \in [Attempt -> {"none", "refused", "answered", "responded", "authed"}]
    /\ lOpen \subseteq Attempt /\ Cardinality(lOpen) <= MaxPerPeer
    /\ ended \in [Attempt -> SUBSET {"client", "listener"}]
    /\ sid \in Nat
    /\ sids \in Nat
    /\ sLink \in 0 .. MaxAttempts

\* connectNativeWebRtc has called startRound; the listener is up.
Init ==
    /\ closed = FALSE
    /\ stream = "none"
    /\ link = 0
    /\ retryTimer = FALSE
    /\ closeTimer = FALSE
    /\ outcome = "pending"
    /\ ready = {}
    /\ starting = Sessions
    /\ used = 0
    /\ session = [a \in Attempt |-> CHOOSE s \in Sessions : TRUE]
    /\ c = [a \in Attempt |-> "unused"]
    /\ cOpen = {}
    /\ l = [a \in Attempt |-> "none"]
    /\ lOpen = {}
    /\ ended = [a \in Attempt |-> {}]
    /\ sid = 0
    /\ sids = 0
    /\ sLink = 0

-----------------------------------------------------------------------------
(* The client: rounds of attempts.                                          *)

\* The guard shared by startRound and startAttempt.
WantsPeer == ~closed /\ link = 0 /\ stream # "closed"

\* scheduleRound, called while lnk is link and str the stream.
Schedule == retryTimer' = (retryTimer \/ (~closed /\ stream # "closed"))

\* Mutant: a failed attempt starts another round only before the first success.
FailedAttemptSchedules_FirstConnectOnly(open) ==
    ~closed /\ link = 0 /\ open = {} /\ stream = "none"

\* The condition under which a failed attempt schedules a round; open are the
\* attempts that remain.
FailedAttemptSchedules(open) == ~closed /\ link = 0 /\ open = {}

SessionReady(s) ==
    /\ s \notin ready
    /\ ready' = ready \cup {s}
    /\ UNCHANGED <<closed, stream, link, retryTimer, closeTimer, outcome,
                   starting, used, session, c, cOpen, listenerVars, ended>>

\* The retry timer: startRound calls startAttempt on every session.
RetryFires ==
    /\ retryTimer
    /\ retryTimer' = FALSE
    /\ starting' = IF WantsPeer THEN Sessions ELSE starting
    /\ UNCHANGED <<closed, stream, link, closeTimer, outcome, ready, used,
                   session, c, cOpen, listenerVars, ended>>

\* startAttempt after its await of session.ready.
StartAttempt(s) ==
    LET a == used + 1
        busy == \E b \in cOpen : session[b] = s
    IN
    /\ s \in starting /\ s \in ready
    /\ starting' = starting \ {s}
    /\ IF WantsPeer /\ ~busy
       THEN /\ used < MaxAttempts
            /\ used' = a
            /\ session' = [session EXCEPT ![a] = s]
            /\ c' = [c EXCEPT ![a] = "offered"]
            /\ cOpen' = cOpen \cup {a}
       ELSE UNCHANGED <<used, session, c, cOpen>>
    /\ UNCHANGED <<closed, stream, link, retryTimer, closeTimer, outcome, ready,
                   listenerVars, ended>>

\* The peer of an attempt that is not claimed closes: its timer, an ICE
\* failure, a protocol error.
AttemptFails(a) ==
    /\ a \in cOpen /\ c[a] # "claimed"
    /\ cOpen' = cOpen \ {a}
    /\ IF FailedAttemptSchedules(cOpen \ {a}) THEN Schedule ELSE UNCHANGED retryTimer
    /\ UNCHANGED <<closed, stream, link, closeTimer, outcome, ready, starting,
                   used, session, c, listenerVars, ended>>

\* handleActivePeerLost.
ActivePeerLost(a) ==
    /\ a \in cOpen /\ c[a] = "claimed"
    /\ cOpen' = cOpen \ {a}
    /\ IF closed \/ link # a \/ stream \in {"none", "closed"}
       THEN UNCHANGED <<link, stream, retryTimer>>
       ELSE link' = 0 /\ stream' = "reconnecting" /\ Schedule
    /\ UNCHANGED <<closed, closeTimer, outcome, ready, starting, used, session, c,
                   listenerVars, ended>>

\* AUTH_RESPONSE arrives: claimPeer starts to verify it.
ReceiveResponse(a) ==
    /\ a \in cOpen /\ c[a] = "offered" /\ l[a] = "responded"
    /\ c' = [c EXCEPT ![a] = "verifying"]
    /\ UNCHANGED <<closed, stream, link, retryTimer, closeTimer, outcome, ready,
                   starting, used, session, cOpen, listenerVars, ended>>

\* claimPeer's checks after the await of verifyAuthResponse.
MayClaim(a) == ~closed /\ link \in {0, a}

\* Mutant: the losing attempts are left to their timers.
OpenAfterClaim_LosersSurvive(a) == cOpen
\* The attempts that stay open when a is claimed.
OpenAfterClaim(a) == {a}

\* claimPeer, success: the link is set, AUTH_READY sent, the stream created or
\* rebound, the other attempts closed.
ClaimSucceeds(a) ==
    /\ c[a] = "verifying" /\ a \in cOpen
    /\ MayClaim(a)
    /\ link' = a
    /\ c' = [c EXCEPT ![a] = "claimed"]
    /\ stream' = IF stream = "closed" THEN "closed" ELSE "connected"
    /\ outcome' = IF stream = "none" THEN "resolved" ELSE outcome
    /\ cOpen' = OpenAfterClaim(a)
    /\ UNCHANGED <<closed, retryTimer, closeTimer, ready, starting, used, session,
                   listenerVars, ended>>

\* claimPeer, the peer closed during the verification: link.peer is set, and
\* the sendFrame of AUTH_READY rejects.
ClaimOfClosedPeer(a) ==
    /\ c[a] = "verifying" /\ a \notin cOpen
    /\ MayClaim(a)
    /\ link' = a
    /\ c' = [c EXCEPT ![a] = "failed"]
    /\ UNCHANGED <<closed, stream, retryTimer, closeTimer, outcome, ready, starting,
                   used, session, cOpen, listenerVars, ended>>

\* claimPeer throws (bad signature, closed, another attempt claimed): the
\* receive chain closes the peer, if it is still open.
ClaimThrows(a) ==
    /\ c[a] = "verifying"
    /\ c' = [c EXCEPT ![a] = "failed"]
    /\ cOpen' = cOpen \ {a}
    /\ IF a \in cOpen /\ FailedAttemptSchedules(cOpen \ {a})
       THEN Schedule ELSE UNCHANGED retryTimer
    /\ UNCHANGED <<closed, stream, link, closeTimer, outcome, ready, starting, used,
                   session, listenerVars, ended>>

\* The grace timer of the client's stream.
ClientGraceExpires ==
    /\ stream = "reconnecting"
    /\ stream' = "closed"
    /\ closeTimer' = ~closed
    /\ UNCHANGED <<closed, link, retryTimer, outcome, ready, starting, used,
                   session, c, cOpen, listenerVars, ended>>

\* The listener's ending frame reaches the client's stream.
ClientReceivesEnd(a) ==
    /\ "listener" \in ended[a]
    /\ a \in cOpen /\ c[a] = "claimed" /\ link = a
    /\ stream = "connected"
    /\ stream' = "closed"
    /\ closeTimer' = ~closed
    /\ UNCHANGED <<closed, link, retryTimer, outcome, ready, starting, used,
                   session, c, cOpen, listenerVars, ended>>

\* Mutant: close() leaves the pending attempts alone.
OpenAfterClose_PendingSurvive == {a \in cOpen : c[a] # "claimed"}
\* The attempts that close() leaves open.
OpenAfterClose == {}

\* Mutant: close() does not reject a promise that is still pending.
OutcomeAfterClose_Pending == outcome
OutcomeAfterClose == IF outcome = "pending" THEN "rejected" ELSE outcome

\* close(): a connected stream first sends abort on its peer.
CloseEffect ==
    /\ closed' = TRUE
    /\ retryTimer' = FALSE
    /\ closeTimer' = FALSE
    /\ ended' = IF stream = "connected" /\ link \in cOpen
                THEN [ended EXCEPT ![link] = @ \cup {"client"}] ELSE ended
    /\ cOpen' = OpenAfterClose
    /\ link' = 0
    /\ stream' = IF stream = "none" THEN "none" ELSE "closed"
    /\ UNCHANGED <<ready, starting, used, session, c, listenerVars>>

\* The finalized stream's timer, or the application at any time (a transport
\* that lost the race is closed before it has settled).
FinalizedClose == closeTimer /\ ~closed /\ CloseEffect /\ outcome' = OutcomeAfterClose
ClientCloses == ~closed /\ CloseEffect /\ outcome' = OutcomeAfterClose

\* The overall timer rejects the promise itself, then closes.
OverallTimeout ==
    /\ ~closed /\ outcome = "pending"
    /\ CloseEffect
    /\ outcome' = "rejected"
-----------------------------------------------------------------------------
(* The listener.                                                            *)

\* Mutant: the limit is off by one.
AtLimit_OffByOne == Cardinality(lOpen) > MaxPerPeer
AtLimit == Cardinality(lOpen) >= MaxPerPeer

\* answerOffer; at the limit the offer is rejected.
AnswerOffer(a) ==
    /\ c[a] # "unused" /\ l[a] = "none"
    /\ IF AtLimit
       THEN l' = [l EXCEPT ![a] = "refused"] /\ UNCHANGED lOpen
       ELSE l' = [l EXCEPT ![a] = "answered"] /\ lOpen' = lOpen \cup {a}
    /\ UNCHANGED <<sid, sids, sLink, clientVars, ended>>

\* The channel has opened, AUTH_CHALLENGE arrived, AUTH_RESPONSE is sent.
Respond(a) ==
    /\ a \in lOpen /\ l[a] = "answered"
    /\ a \in cOpen
    /\ l' = [l EXCEPT ![a] = "responded"]
    /\ UNCHANGED <<lOpen, sid, sids, sLink, clientVars, ended>>

\* activateStream: the stream for this client still has another peer.
SecondPeerRefused(a) == sid # 0 /\ sLink # 0 /\ sLink # a

\* AUTH_READY: activateStream opens a stream, rebinds one, or closes the peer.
ReceiveReady(a) ==
    /\ c[a] = "claimed"
    /\ a \in lOpen /\ l[a] = "responded"
    /\ l' = [l EXCEPT ![a] = "authed"]
    /\ IF SecondPeerRefused(a)
       THEN lOpen' = lOpen \ {a} /\ UNCHANGED <<sid, sids, sLink>>
       ELSE /\ sLink' = a
            /\ sids' = IF sid = 0 THEN sids + 1 ELSE sids
            /\ sid' = IF sid = 0 THEN sids + 1 ELSE sid
            /\ UNCHANGED lOpen
    /\ UNCHANGED <<clientVars, ended>>

\* Mutant: handleLost keeps the link.
LinkAfterLoss_Kept(a) == sLink
\* handleLost: the stream that was bound to the peer waits without one.
LinkAfterLoss(a) == IF sLink = a THEN 0 ELSE sLink

ListenerPeerCloses(a) ==
    /\ a \in lOpen
    /\ lOpen' = lOpen \ {a}
    /\ sLink' = LinkAfterLoss(a)
    /\ UNCHANGED <<l, sid, sids, clientVars, ended>>

\* onFinalize of the listener's stream: the entry goes, the peer is closed.
StreamFinalized ==
    /\ sid' = 0
    /\ sLink' = 0
    /\ lOpen' = lOpen \ {sLink}
    /\ UNCHANGED <<l, sids, clientVars>>

ListenerGraceExpires ==
    /\ sid # 0 /\ sLink = 0
    /\ StreamFinalized
    /\ UNCHANGED ended

\* The application's session on the listener ends; with a peer its ending
\* frame is sent first.
SessionEnds ==
    /\ sid # 0
    /\ StreamFinalized
    /\ ended' = IF sLink = 0 THEN ended
                ELSE [ended EXCEPT ![sLink] = @ \cup {"listener"}]

\* The client's ending frame arrives before the loss of its peer is noticed.
ListenerReceivesEnd(a) ==
    /\ "client" \in ended[a]
    /\ sid # 0 /\ sLink = a
    /\ StreamFinalized
    /\ UNCHANGED ended
-----------------------------------------------------------------------------
Next ==
    \/ \E s \in Sessions : SessionReady(s) \/ StartAttempt(s)
    \/ RetryFires
    \/ \E a \in Attempt :
          \/ AttemptFails(a) \/ ActivePeerLost(a) \/ ReceiveResponse(a)
          \/ ClaimSucceeds(a) \/ ClaimOfClosedPeer(a) \/ ClaimThrows(a)
          \/ ClientReceivesEnd(a)
          \/ AnswerOffer(a) \/ Respond(a) \/ ReceiveReady(a)
          \/ ListenerPeerCloses(a) \/ ListenerReceivesEnd(a)
    \/ ClientGraceExpires \/ FinalizedClose \/ ClientCloses \/ OverallTimeout
    \/ ListenerGraceExpires \/ SessionEnds

Spec == Init /\ [][Next]_vars

\* What happens without anybody's help: timers fire (retry, attempt, grace,
\* close, overall), verification ends, a peer whose counterpart has closed
\* closes, and a READY on an open peer arrives.  Neither signaling nor the
\* network has to deliver anything else.
Scheduled ==
    \/ RetryFires
    \/ \E s \in Sessions : StartAttempt(s)
    \/ \E a \in Attempt :
          \/ AttemptFails(a)
          \/ (a \notin lOpen /\ ActivePeerLost(a))
          \/ ClaimSucceeds(a) \/ ClaimOfClosedPeer(a) \/ ClaimThrows(a)
          \/ ReceiveReady(a)
          \/ (a \notin cOpen /\ ListenerPeerCloses(a))
    \/ ClientGraceExpires \/ FinalizedClose \/ OverallTimeout
    \/ ListenerGraceExpires

FairSpec == Spec /\ WF_vars(Scheduled)
-----------------------------------------------------------------------------
\* While an authenticated peer of the client is open, it is the stream's link
\* and no other attempt is alive: a losing adapter never carries data, also
\* when both answers are verified at the same time.
OneClaimedPeer ==
    \A a \in cOpen : c[a] = "claimed" => link = a /\ cOpen = {a}

\* A client that wants a peer always has something pending that leads to a new
\* attempt: the retry timer, an attempt, or a session it waits for.
RetryArmed ==
    WantsPeer => retryTimer \/ cOpen # {} \/ starting # {}

\* The listener's stream is bound only to an authenticated peer that is open.
ListenerLinkLive ==
    sLink # 0 => sLink \in lOpen /\ l[sLink] = "authed" /\ sid # 0

\* A closed connection holds no peer and starts no attempt.
ClosedHoldsNothing ==
    closed => cOpen = {} /\ link = 0 /\ ~retryTimer

\* The promise settles, whatever signaling and the network do.
PromiseSettles == outcome = "pending" ~> outcome # "pending"

\* No listener session outlives the client's connection for ever, not even one
\* opened by a READY that was under way when the client closed.
ListenerLetsGo == closed ~> [](sid = 0)

-----------------------------------------------------------------------------
(* What the documents promise beyond that; TLC refutes it.                  *)

\* A client without an open peer, whose stream has not ended, has something
\* pending that leads to new offers.
NewOffersWhileDown ==
    ~closed /\ stream # "closed" /\ link \notin cOpen =>
        retryTimer \/ cOpen # {} \/ starting # {}
=============================================================================
