----------------------------- MODULE NativeProofs -----------------------------
(* Proofs about the native listener and the native peer, for any clients,    *)
(* connections, candidates and limits: the listener implements               *)
(* ClientStreams, no remote candidate is lost on its way through the two,    *)
(* and a peer waits with a timer exactly while its connection is down.       *)
EXTENDS MCNative, FiniteSetTheorems, TLAPS

--------------------------------------------------------------------------------
(* Removing one entry from the table of parked candidates.                   *)
Entry == [key : Keys, messages : SUBSET Candidates]

\* An element of the second of two sequences.
LEMMA Behind ==
  ASSUME NEW S, NEW s \in Seq(S), NEW t \in Seq(S), NEW n \in 1 .. Len(s) + Len(t), ~(n <= Len(s))
  PROVE  (s \o t)[n] = t[n - Len(s)]
  OBVIOUS

\* The table without its entry i.
LEMMA RemovedAt ==
  ASSUME NEW box \in Seq(Entry), NEW i \in DOMAIN box
  PROVE  /\ RemoveAt(box, i) \in Seq(Entry)
         /\ DOMAIN RemoveAt(box, i) = 1 .. Len(box) - 1
         /\ \A j \in 1 .. Len(box) - 1 : RemoveAt(box, i)[j] = IF j < i THEN box[j] ELSE box[j + 1]
<1> DEFINE front == SubSeq(box, 1, i - 1)
           rest == SubSeq(box, i + 1, Len(box))
<1>1. i \in 1 .. Len(box) /\ Len(box) \in Nat
  OBVIOUS
<1>2. front \in Seq(Entry) /\ Len(front) = i - 1 /\ \A j \in 1 .. i - 1 : front[j] = box[j]
  BY <1>1
<1>3. rest \in Seq(Entry) /\ Len(rest) = Len(box) - i /\ \A j \in 1 .. Len(box) - i : rest[j] = box[j + i]
  BY <1>1
<1>4. RemoveAt(box, i) = front \o rest
  BY DEF RemoveAt
<1> HIDE DEF front, rest
<1>5. front \o rest \in Seq(Entry) /\ Len(front \o rest) = Len(box) - 1
  BY <1>1, <1>2, <1>3
<1>6. ASSUME NEW j \in 1 .. Len(box) - 1
      PROVE  (front \o rest)[j] = IF j < i THEN box[j] ELSE box[j + 1]
  <2>1. CASE j < i
    BY <2>1, <1>1, <1>2, <1>3
  <2>2. CASE ~(j < i)
    <3>1. j - Len(front) \in 1 .. Len(box) - i /\ (j - Len(front)) + i = j + 1
      BY <2>2, <1>1, <1>2
    <3>2. (front \o rest)[j] = rest[j - Len(front)]
      <4>1. j \in 1 .. Len(front) + Len(rest) /\ ~(j <= Len(front))
        BY <2>2, <1>1, <1>2, <1>3
      <4> QED
        BY ONLY <4>1, <1>2, <1>3, Behind
    <3>3. rest[j - Len(front)] = box[(j - Len(front)) + i]
      BY <3>1, <1>3
    <3> QED
      BY <3>1, <3>2, <3>3, <2>2
  <2> QED
    BY <2>1, <2>2
<1> QED
  BY <1>4, <1>5, <1>6

\* Forgetting a key leaves what is parked for the others.
LEMMA ForgetKeeps ==
  ASSUME parked \in Seq(Entry), NEW k, parked' = Forget(k)
  PROVE  /\ parked' \in Seq(Entry)
         /\ \A o \in Keys \ {k} : ParkedFor(o)' = ParkedFor(o)
<1>1. CASE ~IsParked(k, parked)
  BY <1>1 DEF Forget, ParkedFor
<1>2. CASE IsParked(k, parked)
  <2> DEFINE i == PlaceOf(k)
  <2>1. i \in DOMAIN parked /\ parked[i].key = k
    BY <1>2 DEF IsParked, PlaceOf
  <2> HIDE DEF i
  <2>2. parked' = RemoveAt(parked, i)
    BY <1>2 DEF Forget, i
  <2>3. /\ parked' \in Seq(Entry) /\ DOMAIN parked' = 1 .. Len(parked) - 1
        /\ \A j \in 1 .. Len(parked) - 1 : parked'[j] = IF j < i THEN parked[j] ELSE parked[j + 1]
    BY <2>1, <2>2, RemovedAt
  <2>4. ASSUME NEW o \in Keys \ {k}
        PROVE  ParkedFor(o)' = ParkedFor(o)
    <3>1. \A j \in DOMAIN parked' :
            \E n \in DOMAIN parked : parked[n] = parked'[j]
      BY <2>1, <2>3
    <3>2. \A n \in DOMAIN parked : parked[n].key = o => \E j \in DOMAIN parked' : parked'[j] = parked[n]
      <4>1. SUFFICES ASSUME NEW n \in DOMAIN parked, parked[n].key = o
                     PROVE  \E j \in DOMAIN parked' : parked'[j] = parked[n]
        OBVIOUS
      <4>2. n # i /\ n \in 1 .. Len(parked) /\ i \in 1 .. Len(parked)
        BY <4>1, <2>1
      <4>3. CASE n < i
        BY <4>3, <4>2, <2>3
      <4>4. CASE n > i
        <5>1. n - 1 \in 1 .. Len(parked) - 1 /\ ~(n - 1 < i) /\ (n - 1) + 1 = n
          BY <4>4, <4>2
        <5> QED
          BY <5>1, <2>3
      <4> QED
        BY <4>2, <4>3, <4>4
    <3> QED
      BY <3>1, <3>2 DEF ParkedFor
  <2> QED
    BY <2>3, <2>4
<1> QED
  BY <1>1, <1>2

\* A new entry, and a longer one, add their candidate and nothing else.
LEMMA AppendKeeps ==
  ASSUME parked \in Seq(Entry), NEW k \in Keys, NEW d \in Candidates, NEW room \in Seq(Entry),
         parked' = Append(room, [key |-> k, messages |-> {d}]),
         room = parked \/ (parked # <<>> /\ room = Tail(parked))
  PROVE  /\ parked' \in Seq(Entry)
         /\ d \in ParkedFor(k)'
         /\ \A o \in Keys : room = parked \/ o # parked[1].key => ParkedFor(o) \subseteq ParkedFor(o)'
<1> DEFINE new == [key |-> k, messages |-> {d}]
<1>1. new \in Entry /\ new.key = k /\ new.messages = {d}
  BY DEF Entry
<1> HIDE DEF new
<1>2. /\ parked' = Append(room, new) /\ parked' \in Seq(Entry) /\ Len(parked') = Len(room) + 1
      /\ parked'[Len(room) + 1] = new /\ \A j \in 1 .. Len(room) : parked'[j] = room[j]
  BY <1>1 DEF new
<1>3. Len(room) + 1 \in DOMAIN parked'
  BY <1>2
<1>4. d \in ParkedFor(k)'
  BY <1>1, <1>2, <1>3 DEF ParkedFor
<1>5. ASSUME NEW o \in Keys, room = parked \/ o # parked[1].key
      PROVE  ParkedFor(o) \subseteq ParkedFor(o)'
  <2>1. ASSUME NEW n \in DOMAIN parked, parked[n].key = o
        PROVE  \E j \in DOMAIN parked' : parked'[j] = parked[n]
    <3>1. CASE room = parked
      BY <3>1, <1>2
    <3>2. CASE parked # <<>> /\ room = Tail(parked) /\ o # parked[1].key
      <4>1. n \in 1 .. Len(parked) /\ n # 1 /\ Len(room) = Len(parked) - 1
        BY <2>1, <3>2
      <4>2. n - 1 \in 1 .. Len(room) /\ (n - 1) + 1 = n
        BY <4>1
      <4>3. room[n - 1] = parked[n]
        BY <4>2, <3>2
      <4> QED
        BY <4>2, <4>3, <1>2
    <3> QED
      BY <3>1, <3>2, <1>5
  <2> QED
    BY <2>1 DEF ParkedFor
<1> QED
  BY <1>2, <1>4, <1>5

LEMMA EnterKeeps ==
  ASSUME parked \in Seq(Entry), NEW k, NEW d \in Candidates,
         NEW i \in DOMAIN parked, parked[i].key = k,
         parked' = [parked EXCEPT ![i].messages = @ \union {d}]
  PROVE  /\ parked' \in Seq(Entry)
         /\ d \in ParkedFor(k)'
         /\ \A o \in Keys : ParkedFor(o) \subseteq ParkedFor(o)'
<1>1. /\ parked[i] \in Entry
      /\ [parked[i] EXCEPT !.messages = @ \union {d}] \in Entry
  <2>1. parked[i] \in Entry
    OBVIOUS
  <2>2. parked[i].messages \union {d} \subseteq Candidates
    BY <2>1 DEF Entry
  <2> QED
    BY <2>1, <2>2, Zenon DEF Entry
<1>2. /\ DOMAIN parked' = DOMAIN parked /\ parked' \in Seq(Entry)
      /\ parked'[i] = [parked[i] EXCEPT !.messages = @ \union {d}]
      /\ \A j \in DOMAIN parked : j # i => parked'[j] = parked[j]
  BY <1>1
<1>3. /\ parked'[i].key = parked[i].key /\ d \in parked'[i].messages
      /\ parked[i].messages \subseteq parked'[i].messages
  BY <1>1, <1>2 DEF Entry
<1>4. \A j \in DOMAIN parked : parked'[j].key = parked[j].key /\ parked[j].messages \subseteq parked'[j].messages
  BY <1>2, <1>3
<1>5. d \in ParkedFor(k)'
  BY <1>2, <1>3 DEF ParkedFor
<1>6. ASSUME NEW o \in Keys, NEW x \in ParkedFor(o)
      PROVE  x \in ParkedFor(o)'
  <2>1. PICK j \in DOMAIN parked : parked[j].key = o /\ x \in parked[j].messages
    BY <1>6 DEF ParkedFor
  <2>2. j \in DOMAIN parked' /\ parked'[j].key = o /\ x \in parked'[j].messages
    BY <2>1, <1>2, <1>4
  <2> QED
    BY <2>2 DEF ParkedFor
<1> QED
  BY <1>2, <1>5, <1>6

--------------------------------------------------------------------------------
(* The listener: its streams and links.                                      *)
Table ==
  /\ attempt \in [Keys -> {"none", "new", "challenged", "authenticated"}]
  /\ stream \in [Clients -> {"none", "open", "reconnecting"}]
  /\ link \in [Clients -> Keys \union {none}]
  /\ phase \in {"running", "closing", "closed"}

\* A stream is open exactly while it has a link, its link is an authenticated
\* connection of its own client, and nothing is left when close() is over.
Linked ==
  /\ \A c \in Clients :
       /\ stream[c] = "open" <=> link[c] # none
       /\ link[c] # none => ClientOf[link[c]] = c /\ attempt[link[c]] = "authenticated"
  /\ phase = "closed" =>
       /\ \A k \in Keys : attempt[k] = "none"
       /\ \A c \in Clients : stream[c] = "none"

IInv == Table /\ Linked

--------------------------------------------------------------------------------
LEMMA InitIInv == Init => IInv
  BY DEF Init, IInv, Table, Linked

\* What serves a client, as ClientStreams sees it.
LEMMA ServedFacts ==
  ASSUME IInv
  PROVE  /\ Served \in [Clients -> Keys \union {none, waiting}]
         /\ \A c \in Clients :
              /\ stream[c] = "none" => Served[c] = none
              /\ stream[c] = "reconnecting" => Served[c] = waiting
              /\ stream[c] = "open" => Served[c] = link[c] /\ Served[c] \in Keys
  BY DEF Served, IInv, Table, Linked

\* Steps that leave the streams, their links and the end of close() alone.
LEMMA Aside ==
  ASSUME UNCHANGED <<stream, link>>, (phase = "closed") = (phase' = "closed")
  PROVE  UNCHANGED Program!vars
  BY DEF Served, Program!vars

--------------------------------------------------------------------------------
\* The loss of a peer takes its stream's link, or nothing.
LEMMA LoseStep ==
  ASSUME IInv, NEW k \in Keys, Lose(k), UNCHANGED phase
  PROVE  IInv' /\ [Program!Next]_Program!vars
<1> DEFINE c == ClientOf[k]
<1>1. c \in Clients /\ none \notin Keys /\ waiting \notin Keys /\ none # waiting
  BY ListenerAssumption
<1>2. IInv'
  BY <1>1 DEF Lose, IInv, Table, Linked
<1>3. CASE link[c] = k
  <2>1. stream' = [stream EXCEPT ![c] = "reconnecting"] /\ link' = [link EXCEPT ![c] = none]
    BY <1>3 DEF Lose
  <2>2. Served[c] \in Keys
    BY <1>1, <1>3, ServedFacts DEF IInv, Linked
  <2>3. Served' = [Served EXCEPT ![c] = waiting]
    BY <1>1, <2>1 DEF Served, IInv, Table
  <2> QED
    BY <1>1, <1>2, <2>2, <2>3 DEF Program!Next, Program!Lose
<1>4. CASE link[c] # k
  BY <1>2, <1>4, Aside DEF Lose
<1> QED
  BY <1>3, <1>4

\* AUTH_READY: the connection is refused, or it takes a stream that has none.
LEMMA ReadyStep ==
  ASSUME IInv, NEW k \in Keys, Ready(k)
  PROVE  IInv' /\ [Program!Next]_Program!vars
<1> DEFINE c == ClientOf[k]
<1>1. c \in Clients /\ none \notin Keys /\ waiting \notin Keys /\ none # waiting
  BY ListenerAssumption
<1>2. CASE Refused(k)
  BY <1>2, LoseStep DEF Ready
<1>3. CASE ~Refused(k)
  <2>1. /\ attempt[k] = "challenged" /\ attempt' = [attempt EXCEPT ![k] = "authenticated"]
        /\ link' = [link EXCEPT ![c] = k] /\ stream' = [stream EXCEPT ![c] = "open"]
        /\ UNCHANGED phase
    BY <1>3 DEF Ready
  <2>2. link[c] = none /\ phase # "closed"
    BY <1>1, <1>3, <2>1 DEF Refused, IInv, Table, Linked
  <2>3. IInv'
    BY <1>1, <2>1, <2>2 DEF IInv, Table, Linked
  <2>4. Served[c] \notin Keys
    BY <1>1, <2>2, ServedFacts DEF IInv, Table, Linked
  <2>5. Served' = [Served EXCEPT ![c] = k]
    BY <1>1, <2>1 DEF Served, IInv, Table
  <2>6. Program!Serve(k)
    BY <2>1, <2>2, <2>4, <2>5 DEF Program!Serve
  <2> QED
    BY <2>3, <2>6 DEF Program!Next
<1> QED
  BY <1>2, <1>3

LEMMA StreamEndsStep ==
  ASSUME IInv, NEW c \in Clients, StreamEnds(c)
  PROVE  IInv' /\ [Program!Next]_Program!vars
<1>1. IInv'
  BY DEF StreamEnds, IInv, Table, Linked
<1>2. Served' = [Served EXCEPT ![c] = none]
  BY DEF StreamEnds, Served, IInv, Table
<1> QED
  BY <1>1, <1>2 DEF StreamEnds, Program!Next, Program!End

\* The end of close() ends every stream, also one that began while it waited.
LEMMA StopStep ==
  ASSUME IInv, Stop
  PROVE  IInv' /\ Program!Stop
<1>1. IInv'
  BY DEF Stop, EndedByClose, IInv, Table, Linked
<1>2. Served' = [c \in Clients |-> none]
  BY DEF Stop, EndedByClose, Served
<1> QED
  BY <1>1, <1>2 DEF Stop, Program!Stop

\* The other steps of an attempt change neither streams nor links.
LEMMA AttemptStep ==
  ASSUME IInv, NEW k \in Keys,
         \/ AnswerOffer(k) \/ Answered(k) \/ ParkTimer(k) \/ Challenge(k)
         \/ \E d \in Candidates : Candidate(k, d)
  PROVE  IInv' /\ [Program!Next]_Program!vars
<1>1. /\ UNCHANGED <<stream, link, phase>>
      /\ attempt' = attempt \/ (attempt' = [attempt EXCEPT ![k] = "new"] /\ attempt[k] = "none" /\ phase = "running")
                            \/ (attempt' = [attempt EXCEPT ![k] = "challenged"] /\ attempt[k] = "new")
  BY DEF AnswerOffer, InTable, Answered, ParkTimer, Challenge, Candidate
<1>2. IInv'
  BY <1>1 DEF IInv, Table, Linked
<1> QED
  BY <1>1, <1>2, Aside

LEMMA NextIInv == IInv /\ [Next]_vars => IInv' /\ [Program!Next]_Program!vars
<1> SUFFICES ASSUME IInv, [Next]_vars PROVE IInv' /\ [Program!Next]_Program!vars
  OBVIOUS
<1>1. CASE CloseBegins
  <2>1. CASE \E c \in Clients : stream[c] # "none"
    <3>1. UNCHANGED <<attempt, stream, link>> /\ phase = "running" /\ phase' = "closing"
      BY <1>1, <2>1 DEF CloseBegins
    <3> QED
      BY <3>1, Aside DEF IInv, Table, Linked
  <2>2. CASE ~ \E c \in Clients : stream[c] # "none"
    BY <1>1, <2>2, StopStep DEF CloseBegins, Program!Next
  <2> QED
    BY <2>1, <2>2
<1>2. CASE CloseEnds
  BY <1>2, StopStep DEF CloseEnds, Program!Next
<1>3. ASSUME NEW k \in Keys, PeerCloses(k) \/ Bye(k)
      PROVE  IInv' /\ [Program!Next]_Program!vars
  BY <1>3, LoseStep DEF PeerCloses, Bye
<1>4. CASE UNCHANGED vars
  BY <1>4, Aside DEF vars, IInv, Table, Linked
<1> QED
  BY <1>1, <1>2, <1>3, <1>4, ReadyStep, StreamEndsStep, AttemptStep DEF Next

--------------------------------------------------------------------------------
\* For any number of clients and connections the listener gives each client one
\* stream, served by one authenticated connection at a time, hands it over only
\* after a loss, and serves nobody after close() (startNativeWebRtcListener).
THEOREM ListenerImplements == Spec => ImplementsClientStreams
<1>1. Init => Program!Init
  BY DEF Init, Served, Program!Init
<1> QED
  BY <1>1, InitIInv, NextIInv, PTL DEF Spec, ImplementsClientStreams, Program!Spec

--------------------------------------------------------------------------------
(* The listener: candidates on their way to a peer.                          *)

\* The table of attempts is within its limit, and what is parked is well formed.
Parking ==
  /\ parked \in Seq(Entry)
  /\ given \in [Keys -> SUBSET Candidates] /\ kept \in [Keys -> SUBSET Candidates]
  /\ IsFiniteSet(InTable) /\ Cardinality(InTable) <= MaxAttempts
  /\ answering \subseteq InTable /\ ending \subseteq InTable

KInv == IInv /\ Parking /\ NoCandidateLost

LEMMA InitKInv == Init => KInv
<1> SUFFICES ASSUME Init PROVE KInv
  OBVIOUS
<1>1. InTable = {} /\ MaxAttempts \in Nat
  BY ListenerAssumption DEF Init, InTable
<1>2. Parking
  BY <1>1, FS_EmptySet DEF Init, Parking
<1>3. NoCandidateLost
  BY DEF Init, NoCandidateLost
<1> QED
  BY <1>2, <1>3, InitIInv DEF KInv

\* What is left of the table of attempts is not larger.
LEMMA TableShrinks ==
  ASSUME Parking, InTable' \subseteq InTable
  PROVE  IsFiniteSet(InTable') /\ Cardinality(InTable') <= MaxAttempts
<1>1. IsFiniteSet(InTable') /\ Cardinality(InTable') <= Cardinality(InTable)
  BY FS_Subset DEF Parking
<1>2. Cardinality(InTable) \in Nat /\ Cardinality(InTable') \in Nat /\ MaxAttempts \in Nat
  BY <1>1, FS_CardinalityType, ListenerAssumption DEF Parking
<1> QED
  BY <1>1, <1>2 DEF Parking

\* A lost peer takes all its candidates with it, and those of no other.
LEMMA LoseParks ==
  ASSUME KInv, NEW k \in Keys, Lose(k)
  PROVE  Parking' /\ NoCandidateLost'
<1>1. /\ attempt' = [attempt EXCEPT ![k] = "none"] /\ answering' = answering \ {k}
      /\ parked' = Forget(k) /\ given' = [given EXCEPT ![k] = {}]
      /\ kept' = [j \in Keys |-> IF j = k THEN {} ELSE kept[j]] /\ ending' = ending \ {k}
  BY DEF Lose, Without
<1>2. InTable' = InTable \ {k}
  BY <1>1 DEF InTable, KInv, IInv, Table
<1>3. parked \in Seq(Entry)
  BY DEF KInv, Parking
<1>4. parked' \in Seq(Entry) /\ \A o \in Keys \ {k} : ParkedFor(o)' = ParkedFor(o)
  BY <1>1, <1>3, ForgetKeeps
<1>5. Parking'
  BY <1>1, <1>2, <1>4, TableShrinks DEF KInv, Parking
<1>6. \A o \in Keys \ {k} : kept'[o] = kept[o] /\ given'[o] = given[o]
  BY <1>1 DEF KInv, Parking
<1>7. kept'[k] = {}
  BY <1>1
<1> QED
  BY <1>1, <1>2, <1>4, <1>5, <1>6, <1>7 DEF KInv, NoCandidateLost

LEMMA AnswerOfferParks ==
  ASSUME KInv, NEW k \in Keys, AnswerOffer(k)
  PROVE  Parking' /\ NoCandidateLost'
<1>1. /\ k \notin InTable /\ Cardinality(InTable) < MaxAttempts
      /\ attempt' = [attempt EXCEPT ![k] = "new"] /\ answering' = answering \union {k}
      /\ UNCHANGED <<parked, given, kept, ending>>
  BY DEF AnswerOffer, AttemptsNow
<1>2. InTable' = InTable \union {k}
  BY <1>1 DEF InTable, KInv, IInv, Table
<1>3. IsFiniteSet(InTable') /\ Cardinality(InTable') = Cardinality(InTable) + 1
  BY <1>1, <1>2, FS_AddElement DEF KInv, Parking
<1>4. Cardinality(InTable) \in Nat /\ MaxAttempts \in Nat
  BY FS_CardinalityType, ListenerAssumption DEF KInv, Parking
<1>5. Cardinality(InTable') <= MaxAttempts
  BY <1>1, <1>3, <1>4
<1>6. Parking'
  BY <1>1, <1>2, <1>3, <1>5 DEF KInv, Parking
<1>7. \A o \in Keys : ParkedFor(o)' = ParkedFor(o)
  BY <1>1 DEF ParkedFor
<1> QED
  BY <1>1, <1>2, <1>6, <1>7 DEF KInv, NoCandidateLost

\* Once the offer is answered, the peer has all that was parked for it.
LEMMA AnsweredParks ==
  ASSUME KInv, NEW k \in Keys, Answered(k)
  PROVE  Parking' /\ NoCandidateLost'
<1>1. /\ answering' = answering \ {k} /\ parked' = Forget(k)
      /\ given' = [given EXCEPT ![k] = given[k] \union ParkedFor(k)]
      /\ UNCHANGED <<attempt, kept, ending>>
  BY DEF Answered, OnceAnswered
<1>2. parked \in Seq(Entry)
  BY DEF KInv, Parking
<1>3. parked' \in Seq(Entry) /\ \A o \in Keys \ {k} : ParkedFor(o)' = ParkedFor(o)
  BY <1>1, <1>2, ForgetKeeps
<1>4. InTable' = InTable
  BY <1>1 DEF InTable
<1>5. ParkedFor(k) \subseteq Candidates
  <2>1. ASSUME NEW j \in DOMAIN parked PROVE parked[j].messages \subseteq Candidates
    <3>1. parked[j] \in Entry
      BY <1>2
    <3> QED
      BY <3>1 DEF Entry
  <2> QED
    BY <2>1 DEF ParkedFor
<1>6. /\ given' \in [Keys -> SUBSET Candidates] /\ given'[k] = given[k] \union ParkedFor(k)
      /\ \A o \in Keys \ {k} : given'[o] = given[o]
  BY <1>1, <1>5 DEF KInv, Parking
<1>7. Parking'
  BY <1>1, <1>3, <1>4, <1>6 DEF KInv, Parking
<1> QED
  BY <1>1, <1>3, <1>4, <1>6, <1>7 DEF KInv, NoCandidateLost

\* A candidate that comes early is parked; one that is pushed out is not kept.
LEMMA ParkParks ==
  ASSUME KInv, NEW k \in Keys \ InTable, NEW d \in Candidates, Park(k, d),
         UNCHANGED <<attempt, answering, given, ending>>
  PROVE  Parking' /\ NoCandidateLost'
<1>1. InTable' = InTable
  BY DEF InTable
<1>2. parked \in Seq(Entry) /\ kept \in [Keys -> SUBSET Candidates]
  BY DEF KInv, Parking
<1>3. CASE IsParked(k, parked)
  <2> DEFINE i == PlaceOf(k)
  <2>1. i \in DOMAIN parked /\ parked[i].key = k
    BY <1>3 DEF IsParked, PlaceOf
  <2>2. CASE Cardinality(parked[i].messages) < MaxParked
    <3>1. parked' = [parked EXCEPT ![i].messages = @ \union {d}] /\ kept' = [kept EXCEPT ![k] = @ \union {d}]
      BY <1>3, <2>2 DEF Park
    <3> HIDE DEF i
    <3>2. /\ parked' \in Seq(Entry) /\ d \in ParkedFor(k)'
          /\ \A o \in Keys : ParkedFor(o) \subseteq ParkedFor(o)'
      BY <1>2, <2>1, <3>1, EnterKeeps
    <3>3. /\ kept' \in [Keys -> SUBSET Candidates] /\ kept'[k] = kept[k] \union {d}
          /\ \A o \in Keys : o # k => kept'[o] = kept[o]
      BY <1>2, <3>1
    <3> QED
      BY <1>1, <3>2, <3>3 DEF KInv, Parking, NoCandidateLost
  <2>3. CASE ~(Cardinality(parked[i].messages) < MaxParked)
    <3>1. UNCHANGED <<parked, kept>>
      BY <1>3, <2>3 DEF Park
    <3> QED
      BY <1>1, <3>1 DEF KInv, Parking, NoCandidateLost, ParkedFor
  <2> QED
    BY <2>2, <2>3
<1>4. CASE ~IsParked(k, parked)
  <2> DEFINE full == Len(parked) >= MaxSessions
             room == IF full THEN Tail(parked) ELSE parked
             evicted == IF full THEN {parked[1].key} ELSE {}
  <2>1. /\ parked' = Append(room, [key |-> k, messages |-> {d}])
        /\ kept' = [Without(evicted) EXCEPT ![k] = @ \union {d}]
    BY <1>4 DEF Park
  <2>2. full => parked # <<>> /\ Len(parked) # 0
    <3>1. MaxSessions \in Nat \ {0}
      BY ListenerAssumption
    <3> QED
      BY <1>2, <3>1
  <2>3. room \in Seq(Entry) /\ (room = parked \/ (parked # <<>> /\ room = Tail(parked)))
    BY <1>2, <2>2
  <2>4. /\ parked' \in Seq(Entry) /\ d \in ParkedFor(k)'
        /\ \A o \in Keys : room = parked \/ o # parked[1].key => ParkedFor(o) \subseteq ParkedFor(o)'
    BY <1>2, <2>1, <2>3, AppendKeeps
  <2>5. \A o \in Keys : o \notin evicted => room = parked \/ o # parked[1].key
    OBVIOUS
  <2>6. /\ kept' \in [Keys -> SUBSET Candidates] /\ kept'[k] \subseteq kept[k] \union {d}
        /\ \A o \in Keys : kept'[o] \subseteq kept[o] \union {d}
        /\ \A o \in Keys : o \in evicted /\ o # k => kept'[o] = {}
        /\ \A o \in Keys : o # k => kept'[o] \subseteq kept[o]
        /\ k \in evicted => kept'[k] = {d}
    BY <1>2, <2>1 DEF Without
  <2> HIDE DEF room, evicted, full
  <2>7. \A o \in Keys : kept'[o] \subseteq given[o] \union ParkedFor(o)'
    <3>1. \A o \in Keys : kept[o] \subseteq given[o] \union ParkedFor(o)
      BY DEF KInv, NoCandidateLost
    <3> QED
      BY <2>4, <2>5, <2>6, <3>1
  <2>8. \A o \in InTable \ answering : kept'[o] \subseteq given[o]
    BY <2>6 DEF KInv, NoCandidateLost, InTable
  <2> QED
    BY <1>1, <2>4, <2>6, <2>7, <2>8 DEF KInv, Parking, NoCandidateLost
<1> QED
  BY <1>3, <1>4

LEMMA CandidateParks ==
  ASSUME KInv, NEW k \in Keys, NEW d \in Candidates, Candidate(k, d)
  PROVE  Parking' /\ NoCandidateLost'
<1>1. CASE k \in InTable
  <2>1. /\ given' = [given EXCEPT ![k] = @ \union {d}] /\ kept' = [kept EXCEPT ![k] = @ \union {d}]
        /\ UNCHANGED <<attempt, answering, parked, ending>>
    BY <1>1 DEF Candidate
  <2>2. InTable' = InTable /\ \A o \in Keys : ParkedFor(o)' = ParkedFor(o)
    BY <2>1 DEF InTable, ParkedFor
  <2>3. \A o \in Keys : /\ given'[o] = given[o] \union (IF o = k THEN {d} ELSE {})
                        /\ kept'[o] = kept[o] \union (IF o = k THEN {d} ELSE {})
    BY <2>1 DEF KInv, Parking
  <2>4. given' \in [Keys -> SUBSET Candidates] /\ kept' \in [Keys -> SUBSET Candidates]
    BY <2>1 DEF KInv, Parking
  <2>5. Parking'
    BY <2>1, <2>2, <2>4 DEF KInv, Parking
  <2> QED
    BY <2>1, <2>2, <2>3, <2>5 DEF KInv, NoCandidateLost
<1>2. CASE k \notin InTable
  BY <1>2, ParkParks DEF Candidate
<1> QED
  BY <1>1, <1>2

LEMMA ParkTimerParks ==
  ASSUME KInv, NEW k \in Keys, ParkTimer(k)
  PROVE  Parking' /\ NoCandidateLost'
<1>1. /\ parked' = Forget(k) /\ kept' = [kept EXCEPT ![k] = @ \ ParkedFor(k)]
      /\ UNCHANGED <<attempt, answering, given, ending>>
  BY DEF ParkTimer
<1>2. parked \in Seq(Entry)
  BY DEF KInv, Parking
<1>3. parked' \in Seq(Entry) /\ \A o \in Keys \ {k} : ParkedFor(o)' = ParkedFor(o)
  BY <1>1, <1>2, ForgetKeeps
<1>4. InTable' = InTable
  BY <1>1 DEF InTable
<1>5. /\ kept' \in [Keys -> SUBSET Candidates] /\ kept'[k] = kept[k] \ ParkedFor(k)
      /\ \A o \in Keys \ {k} : kept'[o] = kept[o]
  BY <1>1 DEF KInv, Parking
<1>6. Parking'
  BY <1>1, <1>3, <1>4, <1>5 DEF KInv, Parking
<1> QED
  BY <1>1, <1>3, <1>4, <1>5, <1>6 DEF KInv, NoCandidateLost

\* The handshake goes on, or a stream begins or ends: the candidates stay.
LEMMA OthersPark ==
  ASSUME KInv, InTable' = InTable, UNCHANGED <<answering, parked, given, kept>>,
         ending' \subseteq InTable
  PROVE  Parking' /\ NoCandidateLost'
<1>1. \A o \in Keys : ParkedFor(o)' = ParkedFor(o)
  BY DEF ParkedFor
<1>2. Parking'
  BY DEF KInv, Parking
<1> QED
  BY <1>1, <1>2 DEF KInv, NoCandidateLost

LEMMA StopParks ==
  ASSUME KInv, Stop
  PROVE  Parking' /\ NoCandidateLost'
<1>1. InTable' = {}
  BY DEF Stop, InTable
<1>2. Parking'
  BY <1>1, TableShrinks DEF KInv, Stop, Parking
<1> QED
  BY <1>2 DEF Stop, NoCandidateLost

LEMMA NextKInv == KInv /\ [Next]_vars => KInv'
<1> SUFFICES ASSUME KInv, [Next]_vars PROVE Parking' /\ NoCandidateLost'
  BY NextIInv DEF KInv
<1>1. CASE CloseBegins
  <2>1. CASE \E c \in Clients : stream[c] # "none"
    BY <1>1, <2>1, OthersPark DEF CloseBegins, InTable, KInv, Parking
  <2>2. CASE ~ \E c \in Clients : stream[c] # "none"
    BY <1>1, <2>2, StopParks DEF CloseBegins
  <2> QED
    BY <2>1, <2>2
<1>2. CASE CloseEnds
  BY <1>2, StopParks DEF CloseEnds
<1>3. ASSUME NEW k \in Keys, PeerCloses(k) \/ Bye(k)
      PROVE  Parking' /\ NoCandidateLost'
  BY <1>3, LoseParks DEF PeerCloses, Bye
<1>4. ASSUME NEW k \in Keys, Challenge(k)
      PROVE  Parking' /\ NoCandidateLost'
  <2>1. attempt[k] = "new" /\ attempt' = [attempt EXCEPT ![k] = "challenged"]
    BY <1>4 DEF Challenge
  <2>2. InTable' = InTable
    BY <2>1 DEF InTable, KInv, IInv, Table
  <2> QED
    BY <1>4, <2>2, OthersPark DEF Challenge, KInv, Parking
<1>5. ASSUME NEW k \in Keys, Ready(k)
      PROVE  Parking' /\ NoCandidateLost'
  <2>1. CASE Refused(k)
    BY <1>5, <2>1, LoseParks DEF Ready
  <2>2. CASE ~Refused(k)
    <3>1. /\ attempt[k] = "challenged" /\ attempt' = [attempt EXCEPT ![k] = "authenticated"]
          /\ UNCHANGED <<answering, parked, given, kept, ending>>
      BY <1>5, <2>2 DEF Ready
    <3>2. InTable' = InTable
      BY <3>1 DEF InTable, KInv, IInv, Table
    <3> QED
      BY <3>1, <3>2, OthersPark DEF KInv, Parking
  <2> QED
    BY <2>1, <2>2
<1>6. ASSUME NEW c \in Clients, StreamEnds(c)
      PROVE  Parking' /\ NoCandidateLost'
  <2>1. link[c] # none => link[c] \in InTable
    BY DEF KInv, IInv, Table, Linked, InTable
  <2> QED
    BY <1>6, <2>1, OthersPark DEF StreamEnds, InTable, KInv, Parking
<1>7. CASE UNCHANGED vars
  BY <1>7, OthersPark DEF vars, InTable, KInv, Parking
<1> QED
  BY <1>1, <1>2, <1>3, <1>4, <1>5, <1>6, <1>7,
     AnswerOfferParks, AnsweredParks, CandidateParks, ParkTimerParks DEF Next

LEMMA KInvariance == Spec => []KInv
  BY InitKInv, NextKInv, PTL DEF Spec

--------------------------------------------------------------------------------
(* The peer.                                                                 *)

PeerTypes ==
  /\ initiator \in BOOLEAN /\ trickle \in BOOLEAN /\ timer \in BOOLEAN /\ closed \in BOOLEAN
  /\ local \in {"none", "making", "gathering", "published"}
  /\ remote \in {"none", "setting", "set"}
  /\ queue \in Seq(Candidates) /\ adding \in Seq(Candidates)
  /\ added \subseteq Candidates /\ arrived \subseteq Candidates
  /\ connection \in Peer!States /\ ice \in Peer!States /\ changes \in 0 .. MaxChanges
  /\ channel \in {"none", "connecting", "open", "closed"}
  /\ opening \in {"pending", "resolved", "rejected"}
  /\ ended \in Nat

\* Nothing is being added before the remote description is set.
PInv ==
  /\ PeerTypes
  /\ Peer!WaitsWhileDisconnected
  /\ Peer!CandidateReachesConnection
  /\ remote # "set" => adding = <<>>

LEMMA InitPInv == Peer!Init => PInv
<1> SUFFICES ASSUME Peer!Init PROVE PInv
  OBVIOUS
<1>1. changes \in 0 .. MaxChanges
  BY ChangesAssumption DEF Peer!Init
<1>2. ToSet(queue) = {} /\ ToSet(adding) = {}
  BY DEF Peer!Init, ToSet
<1>3. channel \in {"none", "connecting"} /\ <<>> \in Seq(Candidates)
  BY DEF Peer!Init
<1>4. PeerTypes
  BY <1>1, <1>3 DEF Peer!Init, PeerTypes, Peer!States
<1>5. Peer!WaitsWhileDisconnected
  <2>1. ~Peer!Disconnected /\ timer = FALSE /\ closed = FALSE /\ ended = 0
    BY DEF Peer!Init, Peer!Disconnected
  <2> QED
    BY <2>1 DEF Peer!WaitsWhileDisconnected
<1>6. Peer!CandidateReachesConnection
  BY <1>2 DEF Peer!Init, Peer!CandidateReachesConnection, Peer!ToSet, ToSet
<1> QED
  BY <1>4, <1>5, <1>6 DEF PInv, Peer!Init

\* What a step does to the end of the peer, when it leaves its states alone.
PeerEnd == Peer!WaitsWhileDisconnected /\ closed \in BOOLEAN /\ timer \in BOOLEAN /\ ended \in Nat
           /\ channel \in {"none", "connecting", "open", "closed"}
           /\ opening \in {"pending", "resolved", "rejected"}

LEMMA EndsWaits ==
  ASSUME PInv, ~closed, Peer!Ends
  PROVE  PeerEnd'
<1>1. /\ closed' = TRUE /\ timer' = FALSE /\ ended' = 1
      /\ opening' \in {"resolved", "rejected"} /\ channel' \in {"none", "closed"}
  BY DEF PInv, PeerTypes, Peer!Ends, Peer!TimerAtClose, Peer!WaitsWhileDisconnected
<1>2. timer' <=> ~closed' /\ Peer!Disconnected'
  BY <1>1
<1>3. ended' = IF closed' THEN 1 ELSE 0
  BY <1>1
<1>4. closed' => opening' # "pending" /\ channel' \in {"none", "closed"}
  BY <1>1
<1>5. Peer!WaitsWhileDisconnected'
  BY <1>2, <1>3, <1>4 DEF Peer!WaitsWhileDisconnected
<1> QED
  BY <1>1, <1>5 DEF PeerEnd

LEMMA StaysWaits ==
  ASSUME PInv, Peer!Stays, UNCHANGED <<connection, ice>>
  PROVE  PeerEnd'
  BY DEF PInv, PeerTypes, Peer!Stays, PeerEnd, Peer!WaitsWhileDisconnected, Peer!Disconnected

\* The negotiation of a step that does not touch the candidates.
LEMMA CandidatesStay ==
  ASSUME PInv, UNCHANGED <<queue, adding, added, arrived>>,
         remote' = remote \/ (remote = "none" /\ remote' = "setting")
  PROVE  /\ Peer!CandidateReachesConnection'
         /\ remote' # "set" => adding' = <<>>
  BY DEF PInv, Peer!CandidateReachesConnection, Peer!ToSet, ToSet

\* Steps that change neither the candidates nor the connection's states.
LEMMA PeerStep ==
  ASSUME PInv, UNCHANGED <<initiator, trickle, queue, adding, added, arrived, connection, ice, changes>>,
         local' \in {"none", "making", "gathering", "published"},
         remote' = remote \/ (remote = "none" /\ remote' = "setting"),
         PeerEnd'
  PROVE  PInv'
<1>1. PeerTypes'
  BY DEF PInv, PeerTypes, PeerEnd
<1> QED
  BY <1>1, CandidatesStay DEF PInv, PeerEnd

LEMMA ToSetAppend ==
  ASSUME NEW s \in Seq(Candidates), NEW c \in Candidates
  PROVE  Append(s, c) \in Seq(Candidates) /\ ToSet(Append(s, c)) = ToSet(s) \union {c}
<1>1. /\ Append(s, c) \in Seq(Candidates) /\ DOMAIN Append(s, c) = DOMAIN s \union {Len(s) + 1}
      /\ Append(s, c)[Len(s) + 1] = c /\ \A i \in DOMAIN s : Append(s, c)[i] = s[i]
  OBVIOUS
<1> QED
  BY <1>1 DEF ToSet

LEMMA ToSetTail ==
  ASSUME NEW s \in Seq(Candidates), s # <<>>
  PROVE  /\ Head(s) \in Candidates /\ Tail(s) \in Seq(Candidates)
         /\ ToSet(s) = ToSet(Tail(s)) \union {Head(s)}
<1>1. /\ Head(s) \in Candidates /\ Tail(s) \in Seq(Candidates)
      /\ Head(s) = s[1] /\ 1 \in DOMAIN s /\ Len(Tail(s)) = Len(s) - 1
      /\ \A i \in 1 .. Len(s) - 1 : Tail(s)[i] = s[i + 1]
  OBVIOUS
<1>2. ASSUME NEW i \in DOMAIN s, i # 1
      PROVE  \E j \in DOMAIN Tail(s) : Tail(s)[j] = s[i]
  <2>1. i - 1 \in 1 .. Len(s) - 1 /\ (i - 1) + 1 = i
    BY <1>2
  <2> QED
    BY <1>1, <2>1
<1>3. ASSUME NEW j \in DOMAIN Tail(s)
      PROVE  \E i \in DOMAIN s : Tail(s)[j] = s[i]
  <2>1. j + 1 \in DOMAIN s /\ j \in 1 .. Len(s) - 1
    BY <1>1
  <2> QED
    BY <1>1, <2>1
<1>4. ToSet(s) \subseteq ToSet(Tail(s)) \union {Head(s)}
  BY <1>1, <1>2 DEF ToSet
<1>5. ToSet(Tail(s)) \union {Head(s)} \subseteq ToSet(s)
  BY <1>1, <1>3 DEF ToSet
<1> QED
  BY <1>1, <1>4, <1>5

\* The remote description is set: the whole queue is handed to the flush.
LEMMA RemoteSetStep == PInv /\ Peer!RemoteSet => PInv'
<1> SUFFICES ASSUME PInv, Peer!RemoteSet PROVE PInv'
  OBVIOUS
<1>1. /\ remote = "setting" /\ remote' = "set" /\ adding' = queue /\ queue' = <<>>
      /\ UNCHANGED <<initiator, trickle, local, added, arrived, connection, ice, changes>>
  BY DEF Peer!RemoteSet, Peer!Taken, Peer!link
<1>2. PeerEnd'
  BY <1>1, StaysWaits DEF Peer!RemoteSet
<1>3. PeerTypes'
  BY <1>1, <1>2 DEF PInv, PeerTypes, PeerEnd
<1>4. adding = <<>> /\ ToSet(adding) = {} /\ ToSet(<<>>) = {}
  BY <1>1 DEF PInv, ToSet
<1>5. ToSet(queue)' = {} /\ ToSet(adding)' = ToSet(queue)
  BY <1>1, <1>4 DEF ToSet
<1>6. Peer!CandidateReachesConnection'
  BY <1>1, <1>4, <1>5 DEF PInv, Peer!CandidateReachesConnection, Peer!ToSet, ToSet
<1> QED
  BY <1>1, <1>2, <1>3, <1>6 DEF PInv, PeerEnd

LEMMA FlushOneStep == PInv /\ Peer!FlushOne => PInv'
<1> SUFFICES ASSUME PInv, Peer!FlushOne PROVE PInv'
  OBVIOUS
<1>1. /\ remote = "set" /\ adding # <<>> /\ added' = added \union {Head(adding)} /\ adding' = Tail(adding)
      /\ UNCHANGED <<initiator, trickle, remote, queue, arrived, connection, ice, changes>>
      /\ local' \in {"making", local}
  BY DEF Peer!FlushOne, Peer!NextLocal, Peer!link
<1>2. PeerEnd'
  BY <1>1, StaysWaits DEF Peer!FlushOne
<1>3. adding \in Seq(Candidates)
  BY DEF PInv, PeerTypes
<1>4. /\ Head(adding) \in Candidates /\ Tail(adding) \in Seq(Candidates)
      /\ ToSet(adding) = ToSet(Tail(adding)) \union {Head(adding)}
  BY <1>1, <1>3, ToSetTail
<1>5. PeerTypes'
  BY <1>1, <1>2, <1>4 DEF PInv, PeerTypes, PeerEnd
<1>6. ToSet(adding)' = ToSet(Tail(adding)) /\ ToSet(queue)' = ToSet(queue)
  BY <1>1 DEF ToSet
<1>7. Peer!CandidateReachesConnection'
  <2>1. ToSet(queue) \union ToSet(adding) \union added = arrived /\ queue = <<>>
    BY <1>1 DEF PInv, Peer!CandidateReachesConnection, Peer!ToSet, ToSet
  <2>2. (ToSet(queue) \union ToSet(adding) \union added)' = arrived'
    BY <1>1, <1>4, <1>6, <2>1
  <2> QED
    BY <1>1, <2>1, <2>2 DEF Peer!CandidateReachesConnection, Peer!ToSet, ToSet
<1> QED
  BY <1>1, <1>2, <1>5, <1>7 DEF PInv, PeerEnd

LEMMA ReceiveCandidateStep ==
  ASSUME PInv, NEW c \in Candidates, Peer!ReceiveCandidate(c)
  PROVE  PInv'
<1>1. /\ arrived' = arrived \union {c}
      /\ IF remote # "set" THEN queue' = Append(queue, c) /\ added' = added
                           ELSE added' = added \union {c} /\ queue' = queue
      /\ UNCHANGED <<initiator, trickle, local, remote, adding, connection, ice, changes>>
  BY DEF Peer!ReceiveCandidate, Peer!link
<1>2. PeerEnd'
  BY <1>1, StaysWaits DEF Peer!ReceiveCandidate
<1>3. queue \in Seq(Candidates) /\ adding \in Seq(Candidates)
  BY DEF PInv, PeerTypes
<1>4. Append(queue, c) \in Seq(Candidates) /\ ToSet(Append(queue, c)) = ToSet(queue) \union {c}
  BY <1>3, ToSetAppend
<1>5. PeerTypes'
  BY <1>1, <1>2, <1>4 DEF PInv, PeerTypes, PeerEnd
<1>6. ToSet(adding)' = ToSet(adding)
  BY <1>1 DEF ToSet
<1>7. ToSet(queue)' = IF remote # "set" THEN ToSet(queue) \union {c} ELSE ToSet(queue)
  BY <1>1, <1>4 DEF ToSet
<1>8. Peer!CandidateReachesConnection'
  <2>1. /\ ToSet(queue) \union ToSet(adding) \union added = arrived
        /\ remote = "set" => queue = <<>>
        /\ remote # "set" => added = {}
    BY DEF PInv, Peer!CandidateReachesConnection, Peer!ToSet, ToSet
  <2>2. (ToSet(queue) \union ToSet(adding) \union added)' = arrived'
    BY <1>1, <1>6, <1>7, <2>1
  <2> QED
    BY <1>1, <2>1, <2>2 DEF Peer!CandidateReachesConnection, Peer!ToSet, ToSet
<1> QED
  BY <1>1, <1>2, <1>5, <1>8 DEF PInv, PeerEnd

LEMMA StateChangesStep ==
  ASSUME PInv, NEW c \in Peer!States, NEW i \in Peer!States, Peer!StateChanges(c, i)
  PROVE  PInv'
<1>1. /\ ~closed /\ changes < MaxChanges /\ connection' = c /\ ice' = i /\ changes' = changes + 1
      /\ IF "failed" \in {c, i} THEN Peer!Ends
         ELSE /\ timer' = ("disconnected" \in {c, i})
              /\ UNCHANGED <<closed, opening, channel, ended>>
      /\ UNCHANGED <<initiator, trickle, local, remote, queue, adding, added, arrived>>
  BY DEF Peer!StateChanges, Peer!TimerAfter
<1>2. PeerEnd'
  <2>1. CASE "failed" \in {c, i}
    BY <1>1, <2>1, EndsWaits
  <2>2. CASE ~("failed" \in {c, i})
    <3>1. Peer!Disconnected' <=> "disconnected" \in {c, i}
      BY <1>1 DEF Peer!Disconnected
    <3>2. /\ timer' = ("disconnected" \in {c, i}) /\ closed' = FALSE /\ closed = FALSE
          /\ UNCHANGED <<opening, channel, ended>>
      BY <1>1, <2>2 DEF PInv, PeerTypes
    <3>3. timer' <=> ~closed' /\ Peer!Disconnected'
      BY <3>1, <3>2
    <3>4. ended' = IF closed' THEN 1 ELSE 0
      BY <3>2 DEF PInv, Peer!WaitsWhileDisconnected
    <3>5. timer' \in BOOLEAN
      BY <3>2
    <3>6. Peer!WaitsWhileDisconnected'
      BY <3>2, <3>3, <3>4 DEF Peer!WaitsWhileDisconnected
    <3> QED
      BY <3>2, <3>5, <3>6 DEF PInv, PeerTypes, PeerEnd
  <2> QED
    BY <2>1, <2>2
<1>3. changes' \in 0 .. MaxChanges
  BY <1>1, ChangesAssumption DEF PInv, PeerTypes
<1>4. PeerTypes'
  BY <1>1, <1>2, <1>3 DEF PInv, PeerTypes, PeerEnd
<1> QED
  BY <1>1, <1>2, <1>4, CandidatesStay DEF PInv, PeerEnd

LEMMA TimerFiresStep == PInv /\ Peer!TimerFires => PInv'
<1> SUFFICES ASSUME PInv, Peer!TimerFires PROVE PInv'
  OBVIOUS
<1>1. timer /\ ~closed /\ Peer!Disconnected
  BY DEF Peer!TimerFires, PInv, Peer!WaitsWhileDisconnected
<1>2. Peer!Ends
  BY <1>1 DEF Peer!TimerFires
<1>3. PeerEnd'
  BY <1>1, <1>2, EndsWaits
<1> QED
  BY <1>3, PeerStep DEF Peer!TimerFires, Peer!link, PInv, PeerTypes

\* Steps that end a peer and steps that leave its end alone.
LEMMA EndingSteps ==
  ASSUME PInv, \/ Peer!Close \/ Peer!LocalFails \/ Peer!RemoteFails \/ Peer!ChannelFails
  PROVE  PInv'
<1>1. ~closed /\ Peer!Ends /\ UNCHANGED <<initiator, trickle, local, remote, queue, adding, added, arrived, Peer!link>>
  BY DEF Peer!Close, Peer!LocalFails, Peer!RemoteFails, Peer!ChannelFails
<1>2. PeerEnd'
  BY <1>1, EndsWaits
<1> QED
  BY <1>1, <1>2, PeerStep DEF Peer!link, PInv, PeerTypes

LEMMA NegotiationSteps ==
  ASSUME PInv, \/ Peer!Start \/ Peer!Described \/ Peer!Gathered \/ Peer!ReceiveDescription \/ Peer!FlushEmpty
               \/ Peer!ChannelClosed
  PROVE  PInv'
<1>1. /\ Peer!Stays /\ UNCHANGED <<initiator, trickle, queue, adding, added, arrived, Peer!link>>
      /\ local' \in {"none", "making", "gathering", "published"}
      /\ remote' = remote \/ (remote = "none" /\ remote' = "setting")
  BY DEF PInv, PeerTypes, Peer!Start, Peer!Described, Peer!Gathered, Peer!ReceiveDescription, Peer!FlushEmpty,
     Peer!ChannelClosed, Peer!EndsOnce
<1>2. UNCHANGED <<connection, ice, changes>>
  BY <1>1 DEF Peer!link
<1>3. PeerEnd'
  BY <1>1, <1>2, StaysWaits
<1> QED
  BY <1>1, <1>2, <1>3, PeerStep

LEMMA ChannelSteps ==
  ASSUME PInv, Peer!ChannelArrives \/ Peer!ChannelOpens
  PROVE  PInv'
<1>1. /\ ~closed /\ UNCHANGED <<initiator, trickle, local, remote, queue, adding, added, arrived, Peer!link>>
      /\ UNCHANGED <<closed, timer, ended>> /\ channel' \in {"connecting", "open"} /\ opening' \in {opening, "resolved"}
  BY DEF Peer!ChannelArrives, Peer!ChannelOpens
<1>2. UNCHANGED <<connection, ice, changes>>
  BY <1>1 DEF Peer!link
<1>3. PeerEnd'
  BY <1>1, <1>2 DEF PInv, PeerTypes, PeerEnd, Peer!WaitsWhileDisconnected, Peer!Disconnected
<1> QED
  BY <1>1, <1>2, <1>3, PeerStep DEF PInv, PeerTypes

LEMMA NextPInv == PInv /\ [Peer!Next]_peerVars => PInv'
<1> SUFFICES ASSUME PInv, [Peer!Next]_peerVars PROVE PInv'
  OBVIOUS
<1>1. CASE UNCHANGED peerVars
  BY <1>1 DEF peerVars, PInv, PeerTypes, Peer!WaitsWhileDisconnected, Peer!Disconnected,
     Peer!CandidateReachesConnection, Peer!ToSet, ToSet
<1> QED
  BY <1>1, RemoteSetStep, FlushOneStep, ReceiveCandidateStep, StateChangesStep, TimerFiresStep,
     EndingSteps, NegotiationSteps, ChannelSteps DEF Peer!Next

LEMMA PInvariance == Peer!Spec => []PInv
<1>1. [Peer!Next]_(Peer!vars) => [Peer!Next]_peerVars
  BY DEF Peer!vars, Peer!link, peerVars
<1> QED
  BY <1>1, InitPInv, NextPInv, PTL DEF Peer!Spec

--------------------------------------------------------------------------------
\* Both are well typed, the listener with no more connections than its limit.
THEOREM NativeTypesOK == Spec /\ Peer!Spec => []TypesOK
<1>1. KInv => TypeOK
  <2> SUFFICES ASSUME KInv PROVE TypeOK
    OBVIOUS
  <2>1. \A i \in DOMAIN parked : parked[i].key \in Keys /\ parked[i].messages \subseteq Candidates
    <3> SUFFICES ASSUME NEW i \in DOMAIN parked PROVE parked[i].key \in Keys /\ parked[i].messages \subseteq Candidates
      OBVIOUS
    <3>1. parked[i] \in Entry
      BY DEF KInv, Parking
    <3> QED
      BY <3>1 DEF Entry
  <2> QED
    BY <2>1 DEF KInv, IInv, Table, Parking, TypeOK
<1>2. PInv => Peer!TypeOK
  BY DEF PInv, PeerTypes, Peer!TypeOK, Peer!CandidateReachesConnection, Peer!ToSet, ToSet
<1> QED
  BY <1>1, <1>2, KInvariance, PInvariance, PTL DEF TypesOK

\* For any numbers and limits no remote candidate is lost: the listener hands
\* over what came before, during and after the await of answerOffer
\* (receiveSignal), and the peer adds each of them to the connection once the
\* remote description is set, and none before (signal, #flushCandidates).
THEOREM NoCandidateIsLost == Spec /\ Peer!Spec => []CandidatesKept
<1>1. KInv /\ PInv => CandidatesKept
  BY DEF KInv, PInv, CandidatesKept
<1> QED
  BY <1>1, KInvariance, PInvariance, PTL

\* A peer waits for a recovery exactly while it is open and one of the states
\* says disconnected, ends once, and has settled its open promise by then
\* (#handleConnectionState, #finalize).
THEOREM PeerWaits == Peer!Spec => []WaitsWhileDisconnected
<1>1. PInv => WaitsWhileDisconnected
  BY DEF PInv, WaitsWhileDisconnected
<1> QED
  BY <1>1, PInvariance, PTL
=============================================================================
