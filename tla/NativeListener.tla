---------------------------- MODULE NativeListener ----------------------------
(* startNativeWebRtcListener with several clients: the table of attempts,    *)
(* candidates that arrive before their offer, the stream of each client and  *)
(* close(). NativeReconnect shows one client of it and the client's side in  *)
(* more detail. An attempt is named by its key (signaling session, client,   *)
(* session id); the same key may be offered again once its attempt is gone.  *)
EXTENDS Naturals, FiniteSets, Sequences, SequencesExt

CONSTANTS
  Keys, Clients, ClientOf, Candidates, none, waiting,
  MaxAttempts, MaxPerPeer,    \* MAX_LISTENER_ATTEMPTS, .._PER_PEER
  MaxSessions, MaxParked      \* MAX_PENDING_CANDIDATE_SESSIONS, .._PER_ATTEMPT

ASSUME ListenerAssumption ==
  /\ ClientOf \in [Keys -> Clients]
  /\ {MaxAttempts, MaxPerPeer, MaxSessions, MaxParked} \subseteq Nat \ {0}
  /\ none \notin Keys /\ waiting \notin Keys /\ none # waiting

VARIABLES
  attempt,    \* attempts: "none", or how far the handshake of its peer has come
  answering,  \* attempts whose answerOffer still awaits peer.signal
  parked,     \* pendingCandidates, a Map in insertion order
  given,      \* candidates handed to the attempt's peer
  kept,       \* candidates that came, and were not dropped on purpose
  stream,     \* the entry of each client in streams: "none", "open", "reconnecting"
  link,       \* its link.peer
  ending,     \* peers that deferPeerClose will close
  phase       \* of close(): "running", "closing" while it awaits, "closed"

vars == <<attempt, answering, parked, given, kept, stream, link, ending, phase>>

Init ==
  /\ attempt = [k \in Keys |-> "none"]
  /\ answering = {}
  /\ parked = <<>>
  /\ given = [k \in Keys |-> {}]
  /\ kept = [k \in Keys |-> {}]
  /\ stream = [c \in Clients |-> "none"]
  /\ link = [c \in Clients |-> none]
  /\ ending = {}
  /\ phase = "running"

InTable == {k \in Keys : attempt[k] # "none"}
IsParked(k, box) == \E i \in DOMAIN box : box[i].key = k
ParkedFor(k) == UNION {parked[i].messages : i \in {j \in DOMAIN parked : parked[j].key = k}}

PlaceOf(k) == CHOOSE i \in DOMAIN parked : parked[i].key = k

\* forgetPendingCandidates(key): no two entries of a Map have the same key.
Forget(k) == IF IsParked(k, parked) THEN RemoveAt(parked, PlaceOf(k)) ELSE parked
Without(ks) == [k \in Keys |-> IF k \in ks THEN {} ELSE kept[k]]

--------------------------------------------------------------------------------
\* cleanupAttempt and handleLost for the peer of k. A peer that is not the link
\* of its client's stream leaves the stream alone.
Lose(k) ==
  LET c == ClientOf[k]
  IN /\ attempt' = [attempt EXCEPT ![k] = "none"]
     /\ answering' = answering \ {k}
     /\ parked' = Forget(k)
     /\ given' = [given EXCEPT ![k] = {}]
     /\ kept' = Without({k})
     /\ ending' = ending \ {k}
     /\ IF link[c] = k
        THEN /\ link' = [link EXCEPT ![c] = none]
             /\ stream' = [stream EXCEPT ![c] = "reconnecting"]
        ELSE UNCHANGED <<link, stream>>

\* The peer fails, times out, or its deferred close comes.
PeerCloses(k) == phase # "closed" /\ k \in InTable /\ Lose(k) /\ UNCHANGED phase

\* Mutant: an authenticated connection is not counted any more.
AttemptsNow_Unauthenticated == {k \in InTable : attempt[k] # "authenticated"}
AttemptsNow == InTable

\* receiveSignal(offer): the part of answerOffer before its await.
AnswerOffer(k) ==
  /\ phase = "running"
  /\ k \notin InTable
  /\ Cardinality(AttemptsNow) < MaxAttempts
  /\ Cardinality({o \in AttemptsNow : ClientOf[o] = ClientOf[k]}) < MaxPerPeer
  /\ attempt' = [attempt EXCEPT ![k] = "new"]
  /\ answering' = answering \union {k}
  /\ UNCHANGED <<parked, given, kept, stream, link, ending, phase>>

\* Mutant: the parked candidates are forgotten and never handed over.
OnceAnswered_Dropped(k) == given[k]
OnceAnswered(k) == given[k] \union ParkedFor(k)

\* answerOffer after the await: the parked candidates go to the peer.
Answered(k) ==
  /\ k \in answering
  /\ answering' = answering \ {k}
  /\ given' = [given EXCEPT ![k] = OnceAnswered(k)]
  /\ parked' = Forget(k)
  /\ UNCHANGED <<attempt, kept, stream, link, ending, phase>>

--------------------------------------------------------------------------------
\* queuePendingCandidate: a new session may push out the oldest one; a full
\* session ignores the candidate.
Park(k, d) ==
  LET full == Len(parked) >= MaxSessions
      room == IF full THEN Tail(parked) ELSE parked
      evicted == IF full THEN {parked[1].key} ELSE {}
  IN IF IsParked(k, parked)
     THEN IF Cardinality(parked[PlaceOf(k)].messages) < MaxParked
          THEN /\ parked' = [parked EXCEPT ![PlaceOf(k)].messages = @ \union {d}]
               /\ kept' = [kept EXCEPT ![k] = @ \union {d}]
          ELSE UNCHANGED <<parked, kept>>
     ELSE /\ parked' = Append(room, [key |-> k, messages |-> {d}])
          /\ kept' = [Without(evicted) EXCEPT ![k] = @ \union {d}]

\* receiveSignal(candidate).
Candidate(k, d) ==
  /\ phase = "running"
  /\ d \notin kept[k]
  /\ IF k \in InTable
     THEN /\ given' = [given EXCEPT ![k] = @ \union {d}]
          /\ kept' = [kept EXCEPT ![k] = @ \union {d}]
          /\ UNCHANGED parked
     ELSE Park(k, d) /\ UNCHANGED given
  /\ UNCHANGED <<attempt, answering, stream, link, ending, phase>>

\* The timer of a parked session. It may also fire while its offer is answered.
ParkTimer(k) ==
  /\ IsParked(k, parked)
  /\ parked' = Forget(k)
  /\ kept' = [kept EXCEPT ![k] = @ \ ParkedFor(k)]
  /\ UNCHANGED <<attempt, answering, given, stream, link, ending, phase>>

\* receiveSignal(bye).
Bye(k) ==
  /\ phase = "running"
  /\ k \in InTable \/ IsParked(k, parked)
  /\ Lose(k)
  /\ UNCHANGED phase

--------------------------------------------------------------------------------
Challenge(k) ==
  /\ attempt[k] = "new"
  /\ attempt' = [attempt EXCEPT ![k] = "challenged"]
  /\ UNCHANGED <<answering, parked, given, kept, stream, link, ending, phase>>

\* Mutant: a second connection of a client takes the stream over.
Refused_Never(k) == FALSE
Refused(k) == link[ClientOf[k]] \notin {none, k}

\* AUTH_READY and activateStream. close() may be waiting meanwhile.
Ready(k) ==
  LET c == ClientOf[k]
  IN /\ attempt[k] = "challenged"
     /\ IF Refused(k) THEN Lose(k)
        ELSE /\ attempt' = [attempt EXCEPT ![k] = "authenticated"]
             /\ link' = [link EXCEPT ![c] = k]
             /\ stream' = [stream EXCEPT ![c] = "open"]
             /\ UNCHANGED <<answering, parked, given, kept, ending>>
     /\ UNCHANGED phase

\* onFinalize: the application, the remote side or the grace timer ends it.
StreamEnds(c) ==
  /\ stream[c] # "none"
  /\ stream' = [stream EXCEPT ![c] = "none"]
  /\ link' = [link EXCEPT ![c] = none]
  /\ ending' = ending \union ({link[c]} \ {none})
  /\ UNCHANGED <<attempt, answering, parked, given, kept, phase>>

--------------------------------------------------------------------------------
\* Mutant: close() ends the streams it found when it began.
EndedByClose_Found(c) == phase = "running"
EndedByClose(c) == TRUE

\* The end of close(): peers are closed, then streams are told peerLeft.
Stop ==
  /\ attempt' = [k \in Keys |-> "none"]
  /\ answering' = {}
  /\ parked' = <<>>
  /\ given' = [k \in Keys |-> {}]
  /\ kept' = [k \in Keys |-> {}]
  /\ stream' = [c \in Clients |-> IF EndedByClose(c) THEN "none" ELSE stream[c]]
  /\ link' = [c \in Clients |-> none]
  /\ ending' = {}
  /\ phase' = "closed"

\* close(): with streams it awaits their abort frames and 50 ms, and peers go
\* on meanwhile.
CloseBegins ==
  /\ phase = "running"
  /\ IF \E c \in Clients : stream[c] # "none"
     THEN phase' = "closing" /\ UNCHANGED <<attempt, answering, parked, given, kept, stream, link, ending>>
     ELSE Stop

CloseEnds == phase = "closing" /\ Stop

Next ==
  \/ CloseBegins \/ CloseEnds
  \/ \E k \in Keys : \/ AnswerOffer(k) \/ Answered(k) \/ PeerCloses(k) \/ ParkTimer(k)
                     \/ Bye(k) \/ Challenge(k) \/ Ready(k)
                     \/ \E d \in Candidates : Candidate(k, d)
  \/ \E c \in Clients : StreamEnds(c)

Spec == Init /\ [][Next]_vars

--------------------------------------------------------------------------------
TypeOK ==
  /\ attempt \in [Keys -> {"none", "new", "challenged", "authenticated"}]
  /\ answering \subseteq InTable /\ Cardinality(InTable) <= MaxAttempts
  /\ \A i \in DOMAIN parked : parked[i].key \in Keys /\ parked[i].messages \subseteq Candidates
  /\ given \in [Keys -> SUBSET Candidates] /\ kept \in [Keys -> SUBSET Candidates]
  /\ stream \in [Clients -> {"none", "open", "reconnecting"}]
  /\ link \in [Clients -> Keys \union {none}]
  /\ ending \subseteq InTable
  /\ phase \in {"running", "closing", "closed"}

(* No candidate is lost between the table of parked candidates and the peer: *)
(* one that arrived before, during or after the await of answerOffer, and    *)
(* was not evicted, timed out or over the limit, is with the peer or still   *)
(* parked, and only parked while there is no answered peer to take it.       *)
NoCandidateLost ==
  \A k \in Keys :
    /\ kept[k] \subseteq given[k] \union ParkedFor(k)
    /\ k \in InTable \ answering => kept[k] \subseteq given[k]

(* The listener implements ClientStreams: one stream per client, whichever   *)
(* of its connections authenticate in whatever order; a refused connection   *)
(* and a late loss of an old one leave the stream alone; after close() no    *)
(* stream is left, also none that began while close() was waiting.           *)
Served == [c \in Clients |-> CASE stream[c] = "none" -> none
                               [] stream[c] = "reconnecting" -> waiting
                               [] OTHER -> link[c]]

Program == INSTANCE ClientStreams WITH
  Connections <- Keys, serving <- Served, stopped <- phase = "closed"

ImplementsClientStreams == Program!Spec
=============================================================================
