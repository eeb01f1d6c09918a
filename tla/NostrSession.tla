----------------------------- MODULE NostrSession -----------------------------
(* One NostrSignalingSession with its relays. Relays are external: they may  *)
(* hand any event of the topic to any open subscription, as often as they    *)
(* like and in any order, the session's own events included. Ciphers,        *)
(* signatures and identifiers are exact: an event is itself and no other.    *)
EXTENDS SignalingSockets, Integers, FiniteSets, Sequences, SequencesExt

CONSTANTS
  Own,       \* events this session may publish
  Others,    \* events other sessions publish on the topic
  Readable,  \* events of Others that open with our token and are addressed to us
  Skew,      \* how far the clock of an event's sender is ahead of ours
  TTL, Keep, \* SIGNAL_TTL_SECONDS, and the outbox's 32
  MaxTime, MaxChain   \* bounds of the model: the clock, messages not yet read

ASSUME NostrAssumption ==
  /\ Own \intersect Others = {}
  /\ Readable \subseteq Others
  /\ Skew \in [Own \union Others -> Int]
  /\ {TTL, Keep, MaxTime, MaxChain} \subseteq Nat
  /\ Keep > 0

Events == Own \union Others
Never == -100

VARIABLES
  now,
  created,    \* created_at of each event, Never before it exists
  signing,    \* publish() calls waiting for #createEvent
  outbox,     \* events with the time they were pushed
  offered,    \* what the current socket of each url was given
  chain,      \* #messageChain: received messages and how far each has come
  seen,       \* #seenEvents: arrival time, Never for an absent event
  delivered   \* how often each event was emitted to the subscribers

nostrVars == <<now, created, signing, outbox, offered, chain, seen, delivered>>
vars == <<socketVars, nostrVars>>

Init ==
  /\ SocketsInit
  /\ now = 0
  /\ created = [e \in Events |-> Never]
  /\ signing = {}
  /\ outbox = <<>>
  /\ offered = [u \in Urls |-> {}]
  /\ chain = <<>>
  /\ seen = [e \in Events |-> Never]
  /\ delivered = [e \in Events |-> 0]

Ids(box) == {box[i].event : i \in DOMAIN box}
\* Mutant: one event too many is kept.
Tail32_OneMore(box) == SubSeq(box, IF Len(box) > Keep + 1 THEN Len(box) - Keep ELSE 1, Len(box))
Tail32(box) == SubSeq(box, IF Len(box) > Keep THEN Len(box) - Keep + 1 ELSE 1, Len(box))

\* #pruneOutbox: drop what is too old, keep the newest. Items are pushed as
\* time goes on, so those that are too old are the first ones.
Stale(box) == {i \in DOMAIN box : box[i].at < now - TTL}
Pruned(box) == Tail32(SubSeq(box, Cardinality(Stale(box)) + 1, Len(box)))

\* #pruneSeenEvents, after the event was entered.
SeenWith(e) ==
  LET with == [seen EXCEPT ![e] = now]
  IN [f \in Events |-> IF with[f] < now - TTL THEN Never ELSE with[f]]

--------------------------------------------------------------------------------
\* publish() up to the awaits of encodeOutgoingSignal and #createEvent.
PublishBegins(e) ==
  /\ ~closed
  /\ e \in Own /\ created[e] = Never
  /\ created' = [created EXCEPT ![e] = now]
  /\ signing' = signing \union {e}
  /\ UNCHANGED <<socketVars, now, outbox, offered, chain, seen, delivered>>

\* publish() after them: also when close() ran meanwhile. Every open socket
\* is given the event in the same step in which it enters the outbox.
PublishEnds(e) ==
  /\ e \in signing
  /\ signing' = signing \ {e}
  /\ outbox' = Pruned(Append(outbox, [event |-> e, at |-> now]))
  /\ offered' = [u \in Urls |-> IF socket[u] = "open" /\ ~closed
                                THEN offered[u] \union {e} ELSE offered[u]]
  /\ UNCHANGED <<socketVars, now, created, chain, seen, delivered>>

\* Mutant: the new socket subscribes and is sent nothing.
Replayed_Nothing(box) == {}
Replayed(box) == Ids(Pruned(box))

\* onopen: subscribe, prune, send the whole outbox again.
RelayOpens(u) ==
  /\ ~closed
  /\ SocketOpens(u)
  /\ outbox' = Pruned(outbox)
  /\ offered' = [offered EXCEPT ![u] = Replayed(outbox)]
  /\ UNCHANGED <<now, created, signing, chain, seen, delivered>>

RelayDrops(u) == SocketDrops(u) /\ UNCHANGED nostrVars
RelayCloses(u) == SocketCloses(u) /\ UNCHANGED nostrVars
RelayReconnects(u) == Reconnects(u) /\ UNCHANGED nostrVars

Close ==
  /\ SocketsShut
  /\ outbox' = <<>>
  /\ UNCHANGED <<now, created, signing, offered, chain, seen, delivered>>

\* Another session publishes an event.
OtherPublishes(e) ==
  /\ e \in Others /\ created[e] = Never
  /\ created' = [created EXCEPT ![e] = now + Skew[e]]
  /\ UNCHANGED <<socketVars, now, signing, outbox, offered, chain, seen, delivered>>

--------------------------------------------------------------------------------
\* onmessage chains the message behind those not yet read.
Arrives(u, e) ==
  /\ socket[u] = "open"
  /\ created[e] # Never /\ e \notin signing
  /\ Len(chain) < MaxChain
  /\ chain' = Append(chain, [event |-> e, step |-> "queued"])
  /\ UNCHANGED <<socketVars, now, created, signing, outbox, offered, seen, delivered>>

InTime(e) == created[e] - now <= TTL /\ now - created[e] <= TTL

\* Mutant: every message is read as soon as it comes.
Turns_Concurrent == DOMAIN chain
\* The messages that may take a step: the chain reads one after the other.
Turns == {1} \intersect DOMAIN chain

At(i, step) == i \in Turns /\ chain[i].step = step
Moves(i, step) == chain' = [chain EXCEPT ![i].step = step]
Leaves(i) == chain' = RemoveAt(chain, i)

\* #receive up to the awaits of the digest and the signature.
Check(i) ==
  /\ At(i, "queued")
  /\ IF InTime(chain[i].event) /\ seen[chain[i].event] = Never
     THEN Moves(i, "verify") ELSE Leaves(i)
  /\ UNCHANGED <<socketVars, now, created, signing, outbox, offered, seen, delivered>>

\* The signature holds; the event is remembered before it is decoded.
Verified(i) ==
  /\ At(i, "verify")
  /\ seen' = SeenWith(chain[i].event)
  /\ Moves(i, "decode")
  /\ UNCHANGED <<socketVars, now, created, signing, outbox, offered, delivered>>

\* decodeIncomingSignal: null for what another token sealed.
Accepted(e) == e \in Readable /\ InTime(e)

Emit(i) ==
  /\ At(i, "decode")
  /\ Leaves(i)
  /\ delivered' = IF Accepted(chain[i].event)
                  THEN [delivered EXCEPT ![chain[i].event] = @ + 1] ELSE delivered
  /\ UNCHANGED <<socketVars, now, created, signing, outbox, offered, seen>>

Tick ==
  /\ now < MaxTime
  /\ now' = now + 1
  /\ UNCHANGED <<socketVars, created, signing, outbox, offered, chain, seen, delivered>>

Next ==
  \/ Tick \/ Close
  \/ \E e \in Events : PublishBegins(e) \/ PublishEnds(e) \/ OtherPublishes(e)
  \/ \E u \in Urls : RelayOpens(u) \/ RelayDrops(u) \/ RelayCloses(u) \/ RelayReconnects(u)
  \/ \E u \in Urls, e \in Events : Arrives(u, e)
  \/ \E i \in DOMAIN chain : Check(i) \/ Verified(i) \/ Emit(i)

Spec == Init /\ [][Next]_vars

--------------------------------------------------------------------------------
TypeOK ==
  /\ SocketsTypeOK
  /\ now \in 0 .. MaxTime
  /\ created \in [Events -> Int]
  /\ signing \subseteq Own
  /\ Ids(outbox) \subseteq Own /\ Len(outbox) <= Keep
  /\ offered \in [Urls -> SUBSET Own]
  /\ \A i \in DOMAIN chain : chain[i].event \in Events /\ chain[i].step \in {"queued", "verify", "decode"}
  /\ seen \in [Events -> 0 .. MaxTime \union {Never}]
  /\ delivered \in [Events -> Nat]

(* Whatever happened to the sockets meanwhile, a relay that is open now was  *)
(* given every event of the outbox: an event published while it was down is  *)
(* replayed when it opens, one published while it is open is sent at once    *)
(* (publish, onopen).                                                        *)
OpenRelayHasAll ==
  ~closed => \A u \in Urls : socket[u] = "open" => Ids(outbox) \subseteq offered[u]

(* The session implements the abstract signaling service: only what was      *)
(* sent, for us, in time; and an event at most once, although every relay    *)
(* may hand it over and replay it, because it stays in seen for as long as   *)
(* its time stamp is accepted. That needs a sender whose clock is not ahead: *)
(* an event from the future outlives its entry in seen.                      *)
Service == INSTANCE Signaling WITH
  Signals <- Events,
  Ours    <- Readable,
  Once    <- {e \in Events : Skew[e] <= 0},
  sent    <- {e \in Events : created[e] # Never},
  valid   <- {e \in Events : created[e] # Never /\ InTime(e)},
  got     <- delivered

ImplementsSignaling == Service!Spec
=============================================================================
