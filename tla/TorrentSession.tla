---------------------------- MODULE TorrentSession ----------------------------
(* One TorrentSignalingSession with its trackers. A tracker is external: it  *)
(* hands offers of the info hash to its peers as often as it likes and an    *)
(* answer to the peer it is for, sometimes twice. Signals are <<type,        *)
(* session>>; with a pairing token they carry their sender's time stamp,     *)
(* without one a signal is stamped when it is read.                          *)
EXTENDS SignalingSockets, Integers, Sequences, SequencesExt

CONSTANTS
  Ours,      \* sessions this peer offers
  Theirs,    \* sessions other peers offer
  TTL,       \* SIGNAL_TTL_SECONDS
  Spacing,   \* the five seconds in which a repeated signal is dropped
  Newest,    \* how many offers an announcement carries
  MaxTime, MaxInbox   \* bounds of the model: the clock, messages not yet read

Incoming == ({"offer"} \X Theirs) \union ({"answer"} \X Ours)
Never == -100

VARIABLES
  now,
  token,       \* whether signals are sealed with a pairing token
  stamp,       \* the time stamp of each incoming signal, Never before it is sent;
               \* 0 if it carries none
  published,   \* the offers published so far
  offers,      \* #offers in insertion order
  origins,     \* #offerOrigins: tracker of an offer, "none" if unknown
  announcing,  \* trackers whose announce interval runs
  announced,   \* the offers in the last announcement on each socket
  inbox,       \* #messageChain
  recent,      \* #seenSignals: when a signal was last emitted, or Never
  emitted      \* how often each signal was emitted

torrentVars == <<now, token, stamp, published, offers, origins, announcing,
                 announced, inbox, recent, emitted>>
vars == <<socketVars, torrentVars>>

Init ==
  /\ SocketsInit
  /\ now = 0
  /\ token \in BOOLEAN
  /\ stamp = [s \in Incoming |-> Never]
  /\ published = {}
  /\ offers = <<>>
  /\ origins = [t \in Theirs |-> "none"]
  /\ announcing = {}
  /\ announced = [u \in Urls |-> {}]
  /\ inbox = <<>>
  /\ recent = [s \in Incoming |-> Never]
  /\ emitted = [s \in Incoming |-> 0]

Open == {u \in Urls : socket[u] = "open" /\ ~closed}
LastOf(queue) ==
  LET first == IF Len(queue) > Newest THEN Len(queue) - Newest + 1 ELSE 1
  IN {queue[i] : i \in first .. Len(queue)}

\* #announce(entry) on each of the trackers us.
Announce(us, queue) ==
  announced' = [u \in Urls |-> IF u \in us \intersect Open THEN LastOf(queue) ELSE announced[u]]

\* Map.delete: an offer stands in the Map at most once.
Deleted(o) ==
  IF o \in ToSet(offers) THEN RemoveAt(offers, CHOOSE i \in DOMAIN offers : offers[i] = o) ELSE offers

--------------------------------------------------------------------------------
\* publish(). Encoding only delays it. An answer changes nothing here: it goes
\* to the tracker its offer came from, or to all if that is not known.
PublishOffer(o) ==
  /\ ~closed
  /\ o \in Ours \ published
  /\ published' = published \union {o}
  /\ offers' = Append(offers, o)
  /\ Announce(Urls, offers')
  /\ UNCHANGED <<socketVars, now, token, stamp, origins, announcing, inbox, recent, emitted>>

\* An endpoint takes leave of a session it offered or was offered.
PublishBye(s) ==
  /\ ~closed
  /\ s \in published \/ (s \in Theirs /\ emitted[<<"offer", s>>] > 0)
  /\ offers' = Deleted(s)
  /\ origins' = [t \in Theirs |-> IF t = s THEN "none" ELSE origins[t]]
  /\ Announce(Urls, offers')
  /\ UNCHANGED <<socketVars, now, token, stamp, published, announcing, inbox, recent, emitted>>

\* Mutant: a new socket announces once and never again.
IntervalOn_Not(u) == announcing
IntervalOn(u) == announcing \union {u}

TrackerOpens(u) ==
  /\ ~closed
  /\ SocketOpens(u)
  /\ announced' = [announced EXCEPT ![u] = LastOf(offers)]
  /\ announcing' = IntervalOn(u)
  /\ UNCHANGED <<now, token, stamp, published, offers, origins, inbox, recent, emitted>>

AnnounceTimer(u) ==
  /\ u \in announcing
  /\ Announce({u}, offers)
  /\ UNCHANGED <<socketVars, now, token, stamp, published, offers, origins, announcing, inbox, recent, emitted>>

TrackerDrops(u) == SocketDrops(u) /\ UNCHANGED torrentVars

TrackerCloses(u) ==
  /\ SocketCloses(u)
  /\ announcing' = announcing \ {u}
  /\ UNCHANGED <<now, token, stamp, published, offers, origins, announced, inbox, recent, emitted>>

TrackerReconnects(u) == Reconnects(u) /\ UNCHANGED torrentVars

Close ==
  /\ SocketsShut
  /\ announcing' = {}
  /\ offers' = <<>>
  /\ origins' = [t \in Theirs |-> "none"]
  /\ UNCHANGED <<now, token, stamp, published, announced, inbox, recent, emitted>>

--------------------------------------------------------------------------------
\* Another peer offers a session, or answers one of ours.
PeerSends(s) ==
  /\ s \in Incoming /\ stamp[s] = Never
  /\ s[1] = "answer" => \E u \in Urls : s[2] \in announced[u]
  /\ stamp' = [stamp EXCEPT ![s] = IF token THEN now ELSE 0]
  /\ UNCHANGED <<socketVars, now, token, published, offers, origins, announcing, announced, inbox, recent, emitted>>

Arrives(u, s) ==
  /\ socket[u] = "open"
  /\ stamp[s] # Never
  /\ Len(inbox) < MaxInbox
  /\ inbox' = Append(inbox, [signal |-> s, url |-> u, step |-> "queued"])
  /\ UNCHANGED <<socketVars, now, token, stamp, published, offers, origins, announcing, announced, recent, emitted>>

\* #emitOnce up to the await of _emit.
EmitOnce(s) ==
  IF recent[s] # Never /\ now - recent[s] < Spacing
  THEN inbox' = Tail(inbox) /\ UNCHANGED recent
  ELSE /\ LET with == [recent EXCEPT ![s] = now]
          IN recent' = [r \in Incoming |-> IF now - with[r] > TTL THEN Never ELSE with[r]]
       /\ inbox' = [inbox EXCEPT ![1].step = "decode"]

HeadIs(step) == inbox # <<>> /\ inbox[1].step = step
ReadUnchanged == UNCHANGED <<socketVars, now, token, stamp, published, announcing, announced, emitted>>

ReadOffer ==
  /\ HeadIs("queued") /\ inbox[1].signal[1] = "offer"
  /\ origins' = [origins EXCEPT ![inbox[1].signal[2]] = inbox[1].url]
  /\ EmitOnce(inbox[1].signal)
  /\ UNCHANGED offers /\ ReadUnchanged

\* Mutant: an answer is taken whether its offer is still there or not.
IsOffered_Always(o) == TRUE
IsOffered(o) == o \in ToSet(offers)

ReadAnswer ==
  /\ HeadIs("queued") /\ inbox[1].signal[1] = "answer"
  /\ IF IsOffered(inbox[1].signal[2])
     THEN offers' = Deleted(inbox[1].signal[2]) /\ EmitOnce(inbox[1].signal)
     ELSE inbox' = Tail(inbox) /\ UNCHANGED <<offers, recent>>
  /\ UNCHANGED origins /\ ReadUnchanged

\* The time stamp a sealed signal carries; an open one is stamped when read.
Stamp(s) == IF token THEN stamp[s] ELSE now
InTime(s) == now - Stamp(s) <= TTL /\ Stamp(s) - now <= TTL

Emit ==
  /\ HeadIs("decode")
  /\ inbox' = Tail(inbox)
  /\ emitted' = IF InTime(inbox[1].signal)
                THEN [emitted EXCEPT ![inbox[1].signal] = @ + 1] ELSE emitted
  /\ UNCHANGED <<socketVars, now, token, stamp, published, offers, origins, announcing, announced, recent>>

Tick ==
  /\ now < MaxTime
  /\ now' = now + 1
  /\ UNCHANGED <<socketVars, token, stamp, published, offers, origins, announcing, announced, inbox, recent, emitted>>

Next ==
  \/ Tick \/ Close \/ ReadOffer \/ ReadAnswer \/ Emit
  \/ \E o \in Ours : PublishOffer(o)
  \/ \E s \in Ours \union Theirs : PublishBye(s)
  \/ \E u \in Urls : TrackerOpens(u) \/ TrackerDrops(u) \/ TrackerCloses(u) \/ TrackerReconnects(u) \/ AnnounceTimer(u)
  \/ \E s \in Incoming : PeerSends(s)
  \/ \E u \in Urls, s \in Incoming : Arrives(u, s)

\* A running interval fires again and again.
Fairness == \A u \in Urls : WF_vars(AnnounceTimer(u))

Spec == Init /\ [][Next]_vars /\ Fairness

--------------------------------------------------------------------------------
TypeOK ==
  /\ SocketsTypeOK
  /\ now \in 0 .. MaxTime /\ token \in BOOLEAN
  /\ stamp \in [Incoming -> 0 .. MaxTime \union {Never}]
  /\ published \subseteq Ours
  /\ ToSet(offers) \subseteq Ours
  /\ origins \in [Theirs -> Urls \union {"none"}]
  /\ announcing \subseteq Urls
  /\ announced \in [Urls -> SUBSET Ours]
  /\ recent \in [Incoming -> 0 .. MaxTime \union {Never}]
  /\ emitted \in [Incoming -> Nat]

(* A tracker that stays open hears of every offer that is among the newest.  *)
(* An offer that becomes one of them because a newer one was answered is not *)
(* announced at once but by the interval, which must run on every open       *)
(* socket (#announce, onopen).                                               *)
OfferAnnounced ==
  \A u \in Urls, o \in Ours :
    (u \in Open /\ o \in LastOf(offers))
      ~> (o \in announced[u] \/ u \notin Open \/ o \notin LastOf(offers))

(* The session implements the abstract signaling service: it hands over only *)
(* what was sent and is acceptable now, and the answer to an offer at most   *)
(* once, from however many trackers it comes, because the first one deletes  *)
(* the offer. Repeated offers are handed over again after five seconds, and  *)
(* the endpoint must know them.                                              *)
Service == INSTANCE Signaling WITH
  Signals <- Incoming,
  Ours    <- Incoming,
  Once    <- {"answer"} \X Ours,
  sent    <- {s \in Incoming : stamp[s] # Never},
  valid   <- {s \in Incoming : stamp[s] # Never /\ InTime(s)},
  got     <- emitted

ImplementsSignaling == Service!Spec
=============================================================================
