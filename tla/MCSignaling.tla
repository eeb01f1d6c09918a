----------------------------- MODULE MCSignaling -----------------------------
(* Instances of NostrSession and TorrentSession for TLC. The two sessions    *)
(* share nothing, so each behaviour runs one of them and keeps the other in  *)
(* its initial state. Publishing and receiving share only the sockets and    *)
(* the clock; a behaviour of the Nostr session does one or the other.        *)
EXTENDS NostrSession

CONSTANTS relayA, relayB, mine, mine2, theirs, late, tracker, offerA, offerB, remote,
          Trackers, Ours, Theirs, Spacing, Newest, MaxInbox

ASSUME TorrentAssumption == {Spacing, Newest} \subseteq Nat

\* `late` comes from a clock that is ahead.
MCSkew == [e \in Own \union Others |-> IF e = late THEN 1 ELSE 0]

VARIABLES which, tsocket, ttimer, tclosed, tnow, token, stamp, published, offers,
          origins, announcing, announced, inbox, recent, emitted

Torrent == INSTANCE TorrentSession WITH
  Urls <- Trackers, socket <- tsocket, timer <- ttimer, closed <- tclosed, now <- tnow

trackerVars == <<tsocket, ttimer, tclosed, tnow, token, stamp, published, offers,
                 origins, announcing, announced, inbox, recent, emitted>>
mcVars == <<which, vars, trackerVars>>

MCInit ==
  /\ which \in {"publish", "receive", "torrent"} /\ Init /\ Torrent!Init
  /\ which # "torrent" => ~token /\ tsocket = [u \in Trackers |-> "connecting"]
  /\ which = "torrent" => socket = [u \in Urls |-> "connecting"]

MCNext ==
  /\ UNCHANGED which
  /\ \/ /\ which # "torrent" /\ Next /\ UNCHANGED trackerVars
        /\ which = "publish" => chain' = <<>>
        /\ which = "receive" => signing' = {}
     \/ which = "torrent" /\ Torrent!Next /\ UNCHANGED vars

MCSpec ==
  /\ MCInit /\ [][MCNext]_mcVars
  /\ \A u \in Trackers : WF_mcVars(which = "torrent" /\ Torrent!AnnounceTimer(u) /\ UNCHANGED <<which, vars>>)

\* The types of both sessions.
TypesOK == TypeOK /\ Torrent!TypeOK

\* No relay or tracker is forgotten or connected twice, and a closed session
\* has none (SignalingSockets!RelayKept, of either session).
RelaysKept == RelayKept /\ Torrent!RelayKept

\* The BitTorrent session implements the abstract signaling service too: only
\* what was sent, for us and in time is handed over, and answers at most once.
TorrentImplementsSignaling == Torrent!ImplementsSignaling

\* A tracker that stays open hears of every offer among the newest
\* (TorrentSession!OfferAnnounced).
OfferAnnounced == Torrent!OfferAnnounced
=============================================================================
