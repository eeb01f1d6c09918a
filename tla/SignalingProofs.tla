--------------------------- MODULE SignalingProofs ----------------------------
(* Proofs about the signaling sessions, for any relays, trackers, signals,   *)
(* clocks and limits: both implement Signaling, none forgets a relay, and an *)
(* open relay has been given all that is in the outbox.                      *)
EXTENDS MCSignaling, FiniteSetTheorems, TLAPS

--------------------------------------------------------------------------------
(* The Nostr session: what it hands over.                                    *)
Message == [event : Events, step : {"queued", "verify", "decode"}]

Types ==
  /\ now \in Nat
  /\ created \in [Events -> Int]
  /\ chain \in Seq(Message)
  /\ seen \in [Events -> Nat \union {Never}]
  /\ delivered \in [Events -> Nat]

\* Events whose sender's clock is not ahead.
Punctual == {e \in Events : Skew[e] <= 0}

\* An event that was handed over is remembered from a time at which it already
\* existed, or it is too old to be accepted ever again.
Remembered(e) ==
  \/ seen[e] # Never /\ created[e] <= seen[e]
  \/ created[e] < now - TTL

Memory ==
  /\ \A e \in Events : delivered[e] # 0 => created[e] # Never
  /\ \A e \in Punctual :
       /\ created[e] # Never => created[e] <= now
       /\ delivered[e] # 0 => Remembered(e)

\* Only the first message of the chain is being read; its event was not handed
\* over before, and it is remembered before it is decoded.
Reading ==
  /\ \A i \in DOMAIN chain :
       created[chain[i].event] # Never /\ (i # 1 => chain[i].step = "queued")
  /\ chain # <<>> /\ chain[1].event \in Punctual =>
       /\ chain[1].step # "queued" => delivered[chain[1].event] = 0
       /\ chain[1].step = "decode" => seen[chain[1].event] # Never
                                      /\ created[chain[1].event] <= seen[chain[1].event]

IInv == Types /\ Memory /\ Reading

--------------------------------------------------------------------------------
LEMMA InitIInv == Init => IInv
<1> SUFFICES ASSUME Init PROVE IInv
  OBVIOUS
<1>1. now = 0 /\ chain = <<>> /\ Never \in Int /\ Never \notin Nat
  BY DEF Init, Never
<1>2. Types
  BY <1>1 DEF Init, Types, Never
<1>3. Memory /\ Reading
  BY <1>1 DEF Init, Memory, Reading, Punctual
<1> QED
  BY <1>2, <1>3 DEF IInv

\* The first message leaves the chain.
LEMMA HeadLeaves ==
  ASSUME chain \in Seq(Message), chain # <<>>, chain' = RemoveAt(chain, 1)
  PROVE  /\ chain' \in Seq(Message)
         /\ \A i \in DOMAIN chain' : i + 1 \in DOMAIN chain /\ chain'[i] = chain[i + 1]
         /\ chain' # <<>> => 2 \in DOMAIN chain /\ chain'[1] = chain[2]
<1>1. chain' = SubSeq(chain, 1, 0) \o SubSeq(chain, 2, Len(chain))
  BY DEF RemoveAt
<1>2. SubSeq(chain, 1, 0) = <<>>
  OBVIOUS
<1>3. chain' = SubSeq(chain, 2, Len(chain))
  BY <1>1, <1>2
<1>4. SubSeq(chain, 2, Len(chain)) = Tail(chain)
  OBVIOUS
<1>5. Len(chain) \in Nat /\ Len(chain) >= 1
  OBVIOUS
<1>6. chain' = Tail(chain)
  BY <1>3, <1>4
<1>7. chain' \in Seq(Message) /\ Len(chain') = Len(chain) - 1
  BY <1>6
<1>8. \A i \in 1 .. Len(chain') : chain'[i] = chain[i + 1] /\ i + 1 \in 1 .. Len(chain)
  BY <1>5, <1>6, <1>7
<1>9. chain' # <<>> => 1 \in 1 .. Len(chain')
  BY <1>5, <1>7
<1>10. DOMAIN chain' = 1 .. Len(chain') /\ DOMAIN chain = 1 .. Len(chain)
  BY <1>7
<1> QED
  BY <1>7, <1>8, <1>9, <1>10

\* A message moves on to another step.
LEMMA HeadMoves ==
  ASSUME chain \in Seq(Message), chain # <<>>, NEW step \in {"verify", "decode"},
         Moves(1, step)
  PROVE  /\ chain' \in Seq(Message) /\ DOMAIN chain' = DOMAIN chain /\ chain' # <<>>
         /\ chain'[1].event = chain[1].event /\ chain'[1].step = step
         /\ \A i \in DOMAIN chain : i # 1 => chain'[i] = chain[i]
<1> DEFINE moved == [chain[1] EXCEPT !.step = step]
<1>1. 1 \in DOMAIN chain /\ chain[1] \in Message
  OBVIOUS
<1>2. moved \in Message /\ moved.event = chain[1].event /\ moved.step = step
  BY <1>1 DEF Message
<1>3. chain' = [chain EXCEPT ![1] = moved]
  BY DEF Moves
<1> HIDE DEF moved
<1> QED
  BY <1>1, <1>2, <1>3

--------------------------------------------------------------------------------
\* Nothing the service sees changes: the step is a stutter of the service.
LEMMA Stutters ==
  ASSUME UNCHANGED <<now, created, delivered>>
  PROVE  UNCHANGED Service!vars
BY DEF Service!vars, InTime

\* What the proofs use of the constants.
LEMMA Bounds == TTL \in Nat /\ Skew \in [Events -> Int] /\ Never = -100
BY NostrAssumption DEF Events, Never

\* What stands in the chain.
LEMMA Queued ==
  ASSUME Types
  PROVE  \A i \in DOMAIN chain : chain[i] \in Message /\ chain[i].event \in Events
<1>1. chain \in Seq(Message)
  BY DEF Types
<1>2. \A i \in DOMAIN chain : chain[i] \in Message
  BY <1>1
<1> QED
  BY <1>2 DEF Message

\* Steps that touch neither the clock nor a message nor what was seen.
LEMMA SocketStep ==
  ASSUME IInv, UNCHANGED <<now, created, chain, seen, delivered>>
  PROVE  IInv' /\ UNCHANGED Service!vars
<1>1. IInv'
  BY DEF IInv, Types, Memory, Reading, Remembered
<1> QED
  BY <1>1, Stutters

\* An event comes into being: the service's Send, unless the time stamp is
\* the one that stands for absence, when nothing changes.
LEMMA Created ==
  ASSUME IInv, NEW e \in Events, created[e] = Never, NEW at \in Int,
         e \in Punctual => at <= now,
         created' = [created EXCEPT ![e] = at],
         UNCHANGED <<now, chain, seen, delivered>>
  PROVE  IInv' /\ [Service!Next]_(Service!vars)
<1> USE Bounds
<1>1. /\ Types /\ Memory /\ Reading /\ created' \in [Events -> Int]
      /\ \A f \in Events : f # e => created'[f] = created[f]
      /\ created'[e] = at
  BY DEF IInv, Types
<1>2. Types'
  BY <1>1 DEF Types
<1>3. delivered[e] = 0
  BY <1>1 DEF Memory, Types
<1>4. Memory'
  BY <1>1, <1>3 DEF Memory, Remembered, Punctual
<1>5. \A i \in DOMAIN chain : chain[i].event \in Events /\ chain[i].event # e
  BY <1>1, Queued DEF Reading
<1>6. Reading'
  <2>1. \A i \in DOMAIN chain' : created'[chain'[i].event] # Never /\ (i # 1 => chain'[i].step = "queued")
    BY <1>1, <1>5 DEF Reading
  <2>2. chain # <<>> => created'[chain[1].event] = created[chain[1].event]
    BY <1>1, <1>5 DEF Types
  <2> QED
    BY <2>1, <2>2, <1>1 DEF Reading
<1>7. CASE at = Never
  <2>1. created' = created
    BY <1>1, <1>7 DEF Types
  <2> QED
    BY <2>1, <1>2, <1>4, <1>6, Stutters DEF IInv
<1>8. CASE at # Never
  <2>1. {f \in Events : created'[f] # Never} = {f \in Events : created[f] # Never} \union {e}
    BY <1>1, <1>8
  <2>2. e \notin {f \in Events : created[f] # Never}
    OBVIOUS
  <2>3. {f \in Events : created[f] # Never /\ InTime(f)}' \in SUBSET {f \in Events : created'[f] # Never}
    OBVIOUS
  <2>4. Service!Send(e)
    BY <2>1, <2>2, <2>3 DEF Service!Send
  <2> QED
    BY <2>4, <1>2, <1>4, <1>6 DEF IInv, Service!Next
<1> QED
  BY <1>7, <1>8

LEMMA TickStep ==
  ASSUME IInv, Tick
  PROVE  IInv' /\ [Service!Next]_(Service!vars)
<1> USE Bounds
<1>1. /\ Types /\ Memory /\ Reading /\ now' = now + 1
      /\ UNCHANGED <<created, chain, seen, delivered>>
  BY DEF IInv, Tick
<1>2. Types' /\ Reading'
  BY <1>1 DEF Types, Reading
<1>3. Memory'
  BY <1>1 DEF Types, Memory, Remembered, Punctual
<1>4. Service!TimePasses
  BY <1>1 DEF Service!TimePasses
<1> QED
  BY <1>2, <1>3, <1>4 DEF IInv, Service!Next

LEMMA ArrivesStep ==
  ASSUME IInv, NEW u \in Urls, NEW e \in Events, Arrives(u, e)
  PROVE  IInv' /\ UNCHANGED Service!vars
<1> DEFINE last == [event |-> e, step |-> "queued"]
<1>1. /\ Types /\ Memory /\ Reading /\ chain' = Append(chain, last) /\ created[e] # Never
      /\ UNCHANGED <<now, created, seen, delivered>>
  BY DEF IInv, Arrives
<1>2. last \in Message /\ last.event = e /\ last.step = "queued"
  BY DEF Message
<1> HIDE DEF last
<1>3. chain \in Seq(Message)
  BY <1>1 DEF Types
<1>4. /\ chain' \in Seq(Message)
      /\ \A i \in DOMAIN chain' : (i \in DOMAIN chain /\ chain'[i] = chain[i]) \/ chain'[i] = last
      /\ chain'[1] = IF chain = <<>> THEN last ELSE chain[1]
  BY <1>1, <1>2, <1>3
<1>5. Types' /\ Memory'
  BY <1>1, <1>4 DEF Types, Memory, Remembered
<1>6. Reading'
  BY <1>1, <1>2, <1>4 DEF Reading
<1> QED
  BY <1>1, <1>5, <1>6, Stutters DEF IInv

\* A message that takes a step is the first one.
LEMMA OnlyTheFirst ==
  ASSUME NEW i \in DOMAIN chain, NEW step, At(i, step)
  PROVE  i = 1 /\ chain[1].step = step
BY DEF At, Turns

\* The first message leaves: what follows has not been read.
LEMMA Left ==
  ASSUME Types, Reading, chain # <<>>, Leaves(1), created' = created
  PROVE  chain' \in Seq(Message) /\ Reading'
<1>1. chain \in Seq(Message)
  BY DEF Types
<1>2. /\ chain' \in Seq(Message)
      /\ \A i \in DOMAIN chain' : i + 1 \in DOMAIN chain /\ chain'[i] = chain[i + 1]
      /\ chain' # <<>> => 2 \in DOMAIN chain /\ chain'[1] = chain[2]
  BY <1>1, HeadLeaves DEF Leaves
<1>3. \A i \in DOMAIN chain' : i \in Nat /\ i >= 1
  BY <1>2
<1>4. \A i \in DOMAIN chain' : created[chain'[i].event] # Never /\ chain'[i].step = "queued"
  BY <1>2, <1>3 DEF Reading
<1>5. chain' # <<>> => chain'[1].step = "queued"
  BY <1>2 DEF Reading
<1> QED
  BY <1>2, <1>4, <1>5 DEF Reading

\* An event that was handed over is in seen, or too old: it is dropped here.
LEMMA CheckStep ==
  ASSUME IInv, NEW i \in DOMAIN chain, Check(i)
  PROVE  IInv' /\ UNCHANGED Service!vars
<1> USE Bounds
<1>1. /\ Types /\ Memory /\ Reading /\ chain # <<>> /\ i = 1 /\ chain[1].step = "queued"
      /\ UNCHANGED <<now, created, seen, delivered>>
  BY OnlyTheFirst DEF IInv, Types, Check
<1> DEFINE e == chain[1].event
<1>2. e \in Events
  BY <1>1, Queued
<1>3. CASE InTime(e) /\ seen[e] = Never
  <2>1. Moves(1, "verify")
    BY <1>1, <1>3 DEF Check
  <2>2. /\ chain' \in Seq(Message) /\ DOMAIN chain' = DOMAIN chain /\ chain' # <<>>
        /\ chain'[1].event = chain[1].event /\ chain'[1].step = "verify"
        /\ \A j \in DOMAIN chain : j # 1 => chain'[j] = chain[j]
    BY <1>1, <2>1, HeadMoves DEF Types
  <2>3. Types' /\ Memory'
    BY <1>1, <2>2 DEF Types, Memory, Remembered
  <2>4. e \in Punctual => delivered[e] = 0
    BY <1>1, <1>2, <1>3 DEF Memory, Remembered, InTime, Types
  <2>5. \A j \in DOMAIN chain' : created'[chain'[j].event] # Never /\ (j # 1 => chain'[j].step = "queued")
    BY <1>1, <2>2 DEF Reading
  <2>6. Reading'
    BY <1>1, <2>2, <2>4, <2>5 DEF Reading
  <2> QED
    BY <1>1, <2>3, <2>6, Stutters DEF IInv
<1>4. CASE ~(InTime(e) /\ seen[e] = Never)
  <2>1. Leaves(1)
    BY <1>1, <1>4 DEF Check
  <2>2. chain' \in Seq(Message) /\ Reading'
    BY <1>1, <2>1, Left
  <2>3. Types' /\ Memory'
    BY <1>1, <2>2 DEF Types, Memory, Remembered
  <2> QED
    BY <1>1, <2>2, <2>3, Stutters DEF IInv
<1> QED
  BY <1>3, <1>4

\* The event enters seen; what is pruned there is too old to be accepted.
LEMMA VerifiedStep ==
  ASSUME IInv, NEW i \in DOMAIN chain, Verified(i)
  PROVE  IInv' /\ UNCHANGED Service!vars
<1> USE Bounds
<1>1. /\ Types /\ Memory /\ Reading /\ chain # <<>> /\ i = 1 /\ chain[1].step = "verify"
      /\ UNCHANGED <<now, created, delivered>>
  BY OnlyTheFirst DEF IInv, Types, Verified
<1> DEFINE e == chain[1].event
           with == [seen EXCEPT ![e] = now]
<1>2. e \in Events /\ created[e] # Never
  BY <1>1, Queued DEF Reading
<1>3. seen' = [f \in Events |-> IF with[f] < now - TTL THEN Never ELSE with[f]]
  BY <1>1 DEF Verified, SeenWith
<1>4. /\ with \in [Events -> Nat \union {Never}] /\ with[e] = now
      /\ \A f \in Events : f # e => with[f] = seen[f]
  BY <1>1, <1>2 DEF Types
<1> HIDE DEF with
<1>5. seen' \in [Events -> Nat \union {Never}] /\ seen'[e] = now
  BY <1>1, <1>2, <1>3, <1>4 DEF Types
<1>6. Moves(1, "decode")
  BY <1>1 DEF Verified
<1>7. /\ chain' \in Seq(Message) /\ DOMAIN chain' = DOMAIN chain /\ chain' # <<>>
      /\ chain'[1].event = chain[1].event /\ chain'[1].step = "decode"
      /\ \A j \in DOMAIN chain : j # 1 => chain'[j] = chain[j]
  BY <1>1, <1>6, HeadMoves DEF Types
<1>8. Types'
  BY <1>1, <1>5, <1>7 DEF Types
<1>9. Memory'
  <2>1. ASSUME NEW f \in Punctual, delivered[f] # 0
        PROVE  Remembered(f)'
    <3>1. f \in Events /\ Remembered(f) /\ created[f] <= now
      BY <1>1, <2>1 DEF Memory, Punctual
    <3>2. CASE f = e
      BY <3>1, <3>2, <1>1, <1>5 DEF Remembered, Types
    <3>3. CASE f # e
      BY <3>1, <3>3, <1>1, <1>3, <1>4 DEF Remembered, Types
    <3> QED
      BY <3>2, <3>3
  <2> QED
    BY <2>1, <1>1 DEF Memory
<1>10. Reading'
  <2>1. \A j \in DOMAIN chain' : created'[chain'[j].event] # Never /\ (j # 1 => chain'[j].step = "queued")
    BY <1>1, <1>7 DEF Reading
  <2>2. e \in Punctual => delivered[e] = 0 /\ created[e] <= now
    BY <1>1, <1>2 DEF Reading, Memory
  <2>3. now # Never
    BY <1>1 DEF Types
  <2> QED
    BY <1>1, <1>5, <1>7, <2>1, <2>2, <2>3 DEF Reading
<1> QED
  BY <1>1, <1>8, <1>9, <1>10, Stutters DEF IInv

\* What is handed over is the service's Deliver.
LEMMA EmitStep ==
  ASSUME IInv, NEW i \in DOMAIN chain, Emit(i)
  PROVE  IInv' /\ [Service!Next]_(Service!vars)
<1> USE Bounds
<1>1. /\ Types /\ Memory /\ Reading /\ chain # <<>> /\ i = 1 /\ chain[1].step = "decode"
      /\ Leaves(1) /\ UNCHANGED <<now, created, seen>>
  BY OnlyTheFirst DEF IInv, Types, Emit
<1> DEFINE e == chain[1].event
<1>2. e \in Events /\ created[e] # Never
  BY <1>1, Queued DEF Reading
<1>3. chain' \in Seq(Message) /\ Reading'
  <2>1. chain' \in Seq(Message)
    BY <1>1, Left
  <2> QED
    BY <2>1, <1>1, Left
<1>4. CASE ~Accepted(e)
  <2>1. delivered' = delivered
    BY <1>1, <1>4 DEF Emit
  <2>2. Types' /\ Memory'
    BY <1>1, <1>3, <2>1 DEF Types, Memory, Remembered
  <2> QED
    BY <1>1, <1>3, <2>1, <2>2, Stutters DEF IInv
<1>5. CASE Accepted(e)
  <2>1. /\ delivered' = [delivered EXCEPT ![e] = @ + 1] /\ delivered' \in [Events -> Nat]
        /\ \A f \in Events : f # e => delivered'[f] = delivered[f]
    BY <1>1, <1>2, <1>5 DEF Emit, Types
  <2>2. Types'
    BY <1>1, <1>3, <2>1 DEF Types
  <2>3. e \in Punctual => delivered[e] = 0 /\ Remembered(e)
    BY <1>1, <1>2 DEF Reading, Remembered
  <2>4. Memory'
    BY <1>1, <1>2, <2>1, <2>3 DEF Memory, Remembered, Punctual
  <2>5. Service!Deliver(e)
    BY <1>1, <1>2, <1>5, <2>1, <2>3 DEF Service!Deliver, Accepted, InTime, Punctual
  <2> QED
    BY <1>2, <1>3, <2>2, <2>4, <2>5 DEF IInv, Service!Next
<1> QED
  BY <1>4, <1>5

--------------------------------------------------------------------------------
LEMMA NextIInv == IInv /\ [Next]_vars => IInv' /\ [Service!Next]_(Service!vars)
<1> SUFFICES ASSUME IInv, [Next]_vars
             PROVE  IInv' /\ [Service!Next]_(Service!vars)
  OBVIOUS
<1>1. ASSUME UNCHANGED vars PROVE IInv' /\ [Service!Next]_(Service!vars)
  BY <1>1, SocketStep DEF vars, nostrVars
<1>2. ASSUME Close PROVE IInv' /\ [Service!Next]_(Service!vars)
  BY <1>2, SocketStep DEF Close
<1>3. ASSUME NEW e \in Events, PublishBegins(e) PROVE IInv' /\ [Service!Next]_(Service!vars)
  <2>1. created[e] = Never /\ created' = [created EXCEPT ![e] = now]
        /\ UNCHANGED <<now, chain, seen, delivered>>
    BY <1>3 DEF PublishBegins
  <2>2. now \in Int /\ now <= now
    BY DEF IInv, Types
  <2> QED
    BY <2>1, <2>2, Created
<1>4. ASSUME NEW e \in Events, PublishEnds(e) PROVE IInv' /\ [Service!Next]_(Service!vars)
  BY <1>4, SocketStep DEF PublishEnds
<1>5. ASSUME NEW e \in Events, OtherPublishes(e) PROVE IInv' /\ [Service!Next]_(Service!vars)
  <2>1. created[e] = Never /\ created' = [created EXCEPT ![e] = now + Skew[e]]
        /\ UNCHANGED <<now, chain, seen, delivered>>
    BY <1>5 DEF OtherPublishes
  <2>2. now + Skew[e] \in Int /\ (e \in Punctual => now + Skew[e] <= now)
    BY Bounds DEF IInv, Types, Punctual
  <2> QED
    BY <2>1, <2>2, Created
<1>6. ASSUME NEW u \in Urls, RelayOpens(u) \/ RelayDrops(u) \/ RelayCloses(u) \/ RelayReconnects(u)
      PROVE  IInv' /\ [Service!Next]_(Service!vars)
  BY <1>6, SocketStep DEF RelayOpens, RelayDrops, RelayCloses, RelayReconnects, nostrVars
<1> QED
  BY <1>1, <1>2, <1>3, <1>4, <1>5, <1>6, TickStep, ArrivesStep, CheckStep, VerifiedStep, EmitStep
  DEF Next

--------------------------------------------------------------------------------
\* For any relays, events, clocks and limits a Nostr session hands over only
\* what was sent, is meant for us and is in time, and an event whose sender's
\* clock is not ahead at most once (NostrSignalingSession #receive, #seenEvents).
THEOREM SessionImplements == Spec => ImplementsSignaling
<1>1. Init => Service!Init
  BY DEF Init, Service!Init, Events
<1> QED
  BY <1>1, InitIInv, NextIInv, PTL DEF Spec, ImplementsSignaling, Service!Spec
--------------------------------------------------------------------------------
(* The Nostr session: its outbox.                                            *)
Item == [event : Own, at : Nat]

\* Items stand in the order of their times.
InClockOrder(box) == \A i, j \in DOMAIN box : i <= j => box[i].at <= box[j].at

LEMMA Cut ==
  ASSUME NEW box \in Seq(Item), NEW m \in Nat \ {0}
  PROVE  /\ SubSeq(box, m, Len(box)) \in Seq(Item)
         /\ Len(SubSeq(box, m, Len(box))) = IF m > Len(box) THEN 0 ELSE Len(box) - m + 1
         /\ \A i \in DOMAIN SubSeq(box, m, Len(box)) :
              i + (m - 1) \in DOMAIN box /\ SubSeq(box, m, Len(box))[i] = box[i + (m - 1)]
<1>1. CASE m > Len(box)
  <2>1. SubSeq(box, m, Len(box)) = <<>>
    BY <1>1
  <2> QED
    BY <1>1, <2>1
<1>2. CASE m \in 1 .. Len(box)
  <2>1. /\ SubSeq(box, m, Len(box)) \in Seq(Item)
        /\ Len(SubSeq(box, m, Len(box))) = Len(box) - m + 1
    BY <1>2
  <2>2. ASSUME NEW i \in 1 .. Len(box) - m + 1
        PROVE  i + (m - 1) \in 1 .. Len(box) /\ SubSeq(box, m, Len(box))[i] = box[i + (m - 1)]
    <3>1. i + (m - 1) \in 1 .. Len(box) /\ m + i - 1 = i + (m - 1)
      BY <1>2, <2>2
    <3>2. SubSeq(box, m, Len(box))[i] = box[m + i - 1]
      BY <1>2, <2>2
    <3> QED
      BY <3>1, <3>2
  <2> QED
    BY <1>2, <2>1, <2>2
<1> QED
  BY <1>1, <1>2

\* What is too old stands in front, so pruning drops just that: the filter of
\* #pruneOutbox.
LEMMA StaleFirst ==
  ASSUME now \in Nat, NEW box \in Seq(Item), InClockOrder(box)
  PROVE  Cardinality(Stale(box)) \in Nat /\ Stale(box) = 1 .. Cardinality(Stale(box))
<1> DEFINE n == Cardinality(Stale(box))
<1>1. Stale(box) \subseteq 1 .. Len(box) /\ IsFiniteSet(1 .. Len(box))
  BY FS_Interval DEF Stale
<1>2. IsFiniteSet(Stale(box)) /\ n \in Nat
  BY <1>1, FS_Subset, FS_CardinalityType
<1>3. ASSUME NEW i \in Stale(box)
      PROVE  i \in 1 .. n
  <2>1. 1 .. i \subseteq Stale(box)
    <3> SUFFICES ASSUME NEW j \in 1 .. i PROVE j \in Stale(box)
      OBVIOUS
    <3>1. i \in 1 .. Len(box) /\ j \in 1 .. Len(box) /\ j <= i /\ box[i].at < now - TTL
      BY <1>1 DEF Stale
    <3>2. box[i] \in Item /\ box[j] \in Item /\ TTL \in Nat
      BY <3>1, NostrAssumption
    <3>3. box[i].at \in Nat /\ box[j].at \in Nat /\ box[j].at <= box[i].at
      BY <3>1, <3>2 DEF Item, InClockOrder
    <3> QED
      BY <3>1, <3>2, <3>3 DEF Stale
  <2>2. i \in Nat /\ i >= 1 /\ Cardinality(1 .. i) = i
    BY <1>1, FS_Interval
  <2>3. i <= n
    BY <1>2, <2>1, <2>2, FS_Subset
  <2> QED
    BY <1>2, <2>2, <2>3
<1>4. Cardinality(1 .. n) = n /\ IsFiniteSet(1 .. n)
  BY <1>2, FS_Interval
<1>5. Stale(box) \subseteq 1 .. n
  BY <1>3
<1>6. Stale(box) = 1 .. n
  BY <1>4, <1>5, FS_Subset
<1> QED
  BY <1>2, <1>6

\* Pruning leaves a part of the end of the outbox, within its limit.
LEMMA PrunedIsEnd ==
  ASSUME NEW box \in Seq(Item)
  PROVE  /\ Pruned(box) \in Seq(Item) /\ Len(Pruned(box)) <= Keep
         /\ Ids(Pruned(box)) \subseteq Ids(box)
         /\ \A i \in DOMAIN Pruned(box) : \E j \in DOMAIN box : Pruned(box)[i] = box[j]
         /\ InClockOrder(box) => InClockOrder(Pruned(box))
<1>1. Keep \in Nat /\ Keep > 0
  BY NostrAssumption
<1>2. Cardinality(Stale(box)) \in Nat
  <2>1. Stale(box) \subseteq 1 .. Len(box) /\ IsFiniteSet(1 .. Len(box))
    BY FS_Interval DEF Stale
  <2> QED
    BY <2>1, FS_Subset, FS_CardinalityType
<1> DEFINE first == Cardinality(Stale(box)) + 1
           fresh == SubSeq(box, first, Len(box))
           start == IF Len(fresh) > Keep THEN Len(fresh) - Keep + 1 ELSE 1
           kept == SubSeq(fresh, start, Len(fresh))
<1>3. first \in Nat \ {0}
  BY <1>2
<1>4. Pruned(box) = kept
  BY DEF Pruned, Tail32
<1> HIDE DEF first
<1>5. /\ fresh \in Seq(Item)
      /\ \A i \in DOMAIN fresh : i + (first - 1) \in DOMAIN box /\ fresh[i] = box[i + (first - 1)]
  BY <1>3, Cut
<1> HIDE DEF fresh
<1>6. start \in Nat \ {0} /\ Len(fresh) \in Nat
  BY <1>1, <1>5
<1>7. Len(fresh) > Keep => start = Len(fresh) - Keep + 1
  OBVIOUS
<1>8. ~(Len(fresh) > Keep) => start = 1
  OBVIOUS
<1> HIDE DEF start
<1>9. /\ kept \in Seq(Item) /\ Len(kept) = IF start > Len(fresh) THEN 0 ELSE Len(fresh) - start + 1
      /\ \A i \in DOMAIN kept : i + (start - 1) \in DOMAIN fresh /\ kept[i] = fresh[i + (start - 1)]
  BY <1>5, <1>6, Cut
<1> HIDE DEF kept
<1>10. Len(kept) <= Keep
  BY <1>1, <1>6, <1>7, <1>8, <1>9
<1>11. \A i \in DOMAIN kept :
         /\ i + (start - 1) + (first - 1) \in DOMAIN box
         /\ kept[i] = box[i + (start - 1) + (first - 1)]
  BY <1>5, <1>9
<1>12. Ids(kept) \subseteq Ids(box)
  BY <1>11 DEF Ids
<1>13. ASSUME InClockOrder(box), NEW i \in DOMAIN kept, NEW j \in DOMAIN kept, i <= j
       PROVE  kept[i].at <= kept[j].at
  <2>1. i \in Nat /\ j \in Nat
    BY <1>9
  <2>2. i + (start - 1) + (first - 1) <= j + (start - 1) + (first - 1)
    BY <1>3, <1>6, <1>13, <2>1
  <2> QED
    BY <1>11, <1>13, <2>2 DEF InClockOrder
<1> QED
  BY <1>4, <1>9, <1>10, <1>11, <1>12, <1>13 DEF InClockOrder
--------------------------------------------------------------------------------
(* The Nostr session: its relays.                                            *)
Relays == SocketsTypeOK /\ RelayKept

\* The outbox stands in clock order, within its limit, and every relay that is
\* open was given all of it.
Outbox ==
  /\ now \in 0 .. MaxTime
  /\ signing \subseteq Own
  /\ outbox \in Seq(Item) /\ Len(outbox) <= Keep /\ InClockOrder(outbox)
  /\ \A i \in DOMAIN outbox : outbox[i].at <= now
  /\ offered \in [Urls -> SUBSET Own]
  /\ seen \in [Events -> 0 .. MaxTime \union {Never}]
  /\ OpenRelayHasAll

NInv == IInv /\ Relays /\ Outbox

LEMMA InitNInv == Init => NInv
<1> SUFFICES ASSUME Init PROVE NInv
  OBVIOUS
<1>1. Relays
  BY DEF Init, SocketsInit, Relays, SocketsTypeOK, RelayKept, Live
<1>2. /\ now \in 0 .. MaxTime /\ outbox = <<>> /\ outbox \in Seq(Item) /\ Len(outbox) = 0
      /\ 0 <= Keep /\ DOMAIN outbox = {}
  BY NostrAssumption DEF Init
<1>3. Outbox
  BY <1>2 DEF Init, Outbox, InClockOrder, OpenRelayHasAll, Ids
<1> QED
  BY <1>1, <1>3, InitIInv DEF NInv

\* A step that leaves the outbox and what was offered alone, and opens no relay.
LEMMA OutboxStays ==
  ASSUME Outbox, UNCHANGED <<signing, outbox, offered, seen>>,
         now' \in 0 .. MaxTime, now <= now',
         closed => closed', \A u \in Urls : socket'[u] = "open" => socket[u] = "open"
  PROVE  Outbox'
<1>1. OpenRelayHasAll'
  BY DEF Outbox, OpenRelayHasAll
<1>2. \A i \in DOMAIN outbox' : outbox'[i].at <= now'
  <2> SUFFICES ASSUME NEW i \in DOMAIN outbox PROVE outbox[i].at <= now'
    OBVIOUS
  <2>1. outbox[i] \in Item /\ outbox[i].at <= now /\ now \in Nat /\ now' \in Nat
    BY DEF Outbox
  <2>2. outbox[i].at \in Nat
    BY <2>1 DEF Item
  <2> QED
    BY <2>1, <2>2
<1> QED
  BY <1>1, <1>2 DEF Outbox

\* An event enters the outbox and is given to every open relay in one step.
LEMMA PublishEndsOutbox ==
  ASSUME NInv, NEW e \in Events, PublishEnds(e)
  PROVE  Outbox'
<1> DEFINE item == [event |-> e, at |-> now]
           longer == Append(outbox, item)
<1>1. /\ e \in signing /\ e \in Own /\ signing' = signing \ {e} /\ outbox' = Pruned(longer)
      /\ offered' = [u \in Urls |-> IF socket[u] = "open" /\ ~closed THEN offered[u] \union {e} ELSE offered[u]]
      /\ UNCHANGED <<socket, closed, now, seen>>
  BY DEF NInv, Outbox, PublishEnds, socketVars
<1>2. item \in Item /\ item.at = now /\ item.event = e
  BY <1>1 DEF NInv, IInv, Types, Item
<1> HIDE DEF item
<1>3. outbox \in Seq(Item) /\ InClockOrder(outbox) /\ now \in Nat /\ \A i \in DOMAIN outbox : outbox[i].at <= now
  BY DEF NInv, Outbox
<1>4. /\ longer \in Seq(Item) /\ DOMAIN longer = 1 .. Len(outbox) + 1
      /\ longer[Len(outbox) + 1] = item /\ \A i \in DOMAIN outbox : longer[i] = outbox[i]
  BY <1>2, <1>3
<1> HIDE DEF longer
<1>5. \A i \in DOMAIN longer : i \in DOMAIN outbox \/ (i = Len(outbox) + 1 /\ longer[i] = item)
  BY <1>3, <1>4
<1>6. ASSUME NEW i \in DOMAIN longer, NEW j \in DOMAIN longer, i <= j
      PROVE  longer[i].at <= longer[j].at /\ longer[i].at <= now
  <2>1. CASE j \in DOMAIN outbox
    <3>1. i \in DOMAIN outbox
      BY <1>3, <1>5, <1>6, <2>1
    <3> QED
      BY <3>1, <1>3, <1>4, <1>6, <2>1 DEF InClockOrder
  <2>2. CASE j = Len(outbox) + 1 /\ longer[j] = item
    BY <2>2, <1>2, <1>3, <1>4, <1>5
  <2> QED
    BY <1>5, <2>1, <2>2
<1>7. InClockOrder(longer)
  BY <1>6 DEF InClockOrder
<1>8. Ids(longer) \subseteq Ids(outbox) \union {e}
  BY <1>2, <1>4, <1>5 DEF Ids
<1>9. /\ outbox' \in Seq(Item) /\ Len(outbox') <= Keep /\ Ids(outbox') \subseteq Ids(longer) /\ InClockOrder(outbox')
  BY <1>1, <1>4, <1>7, PrunedIsEnd
<1>10. \A i \in DOMAIN outbox' : outbox'[i].at <= now
  <2>1. \A i \in DOMAIN longer : i <= i
    BY <1>4
  <2>2. \A i \in DOMAIN longer : longer[i].at <= now
    BY <1>6, <2>1
  <2> QED
    BY <1>1, <1>4, <2>2, PrunedIsEnd
<1>11. offered' \in [Urls -> SUBSET Own]
  BY <1>1 DEF NInv, Outbox
<1>12. OpenRelayHasAll'
  <2> SUFFICES ASSUME ~closed, NEW u \in Urls, socket[u] = "open"
               PROVE  Ids(outbox') \subseteq offered'[u]
    BY <1>1 DEF OpenRelayHasAll, Ids
  <2>1. Ids(outbox) \subseteq offered[u] /\ offered'[u] = offered[u] \union {e}
    BY <1>1 DEF NInv, Outbox, OpenRelayHasAll
  <2> QED
    BY <2>1, <1>8, <1>9
<1>13. InClockOrder(outbox)' /\ now' \in 0 .. MaxTime /\ seen' \in [Events -> 0 .. MaxTime \union {Never}]
       /\ signing' \subseteq Own
  BY <1>1, <1>9 DEF NInv, Outbox, InClockOrder
<1> QED
  BY <1>1, <1>9, <1>10, <1>11, <1>12, <1>13 DEF Outbox

\* A relay that opens is given what is left of the outbox.
LEMMA RelayOpensOutbox ==
  ASSUME NInv, NEW u \in Urls, RelayOpens(u)
  PROVE  Outbox'
<1>1. /\ outbox' = Pruned(outbox) /\ offered' = [offered EXCEPT ![u] = Ids(Pruned(outbox))]
      /\ socket' = [socket EXCEPT ![u] = "open"] /\ UNCHANGED <<closed, now, signing, seen>>
  BY DEF RelayOpens, Replayed, SocketOpens
<1>2. outbox \in Seq(Item) /\ InClockOrder(outbox) /\ \A i \in DOMAIN outbox : outbox[i].at <= now
  BY DEF NInv, Outbox
<1>3. /\ outbox' \in Seq(Item) /\ Len(outbox') <= Keep /\ Ids(outbox') \subseteq Ids(outbox) /\ InClockOrder(outbox')
  BY <1>1, <1>2, PrunedIsEnd
<1>4. \A i \in DOMAIN outbox' : outbox'[i].at <= now
  BY <1>1, <1>2, PrunedIsEnd
<1>5. Ids(outbox') \subseteq Own
  <2> SUFFICES ASSUME NEW i \in DOMAIN outbox' PROVE outbox'[i].event \in Own
    BY DEF Ids
  <2>1. outbox'[i] \in Item
    BY <1>3
  <2> QED
    BY <2>1 DEF Item
<1>6. offered' \in [Urls -> SUBSET Own] /\ offered'[u] = Ids(outbox') /\ \A w \in Urls : w # u => offered'[w] = offered[w]
  BY <1>1, <1>5 DEF NInv, Outbox
<1>7. \A w \in Urls : w # u => socket'[w] = socket[w]
  BY <1>1 DEF NInv, Relays, SocketsTypeOK
<1>8. OpenRelayHasAll'
  <2> SUFFICES ASSUME ~closed, NEW w \in Urls, socket'[w] = "open"
               PROVE  Ids(outbox') \subseteq offered'[w]
    BY <1>1 DEF OpenRelayHasAll, Ids
  <2>1. CASE w = u
    BY <2>1, <1>6
  <2>2. CASE w # u
    BY <2>2, <1>3, <1>6, <1>7 DEF NInv, Outbox, OpenRelayHasAll
  <2> QED
    BY <2>1, <2>2
<1>9. InClockOrder(outbox)' /\ now' \in 0 .. MaxTime /\ seen' \in [Events -> 0 .. MaxTime \union {Never}]
       /\ signing' \subseteq Own
  BY <1>1, <1>3 DEF NInv, Outbox, InClockOrder
<1> QED
  BY <1>1, <1>3, <1>4, <1>6, <1>8, <1>9 DEF Outbox

\* What each step does to the sockets.
LEMMA RelaysStep ==
  ASSUME Relays, NEW u \in Urls,
         \/ SocketOpens(u) /\ ~closed
         \/ SocketDrops(u) \/ SocketCloses(u) \/ Reconnects(u)
  PROVE  /\ Relays' /\ closed' = closed
         /\ SocketOpens(u) \/ \A w \in Urls : socket'[w] = "open" => socket[w] = "open"
<1>1. socket \in [Urls -> Live \union {"none", "closing", "closed"}] /\ timer \in [Urls -> BOOLEAN] /\ closed \in BOOLEAN
  BY DEF Relays, SocketsTypeOK
<1>2. /\ socket' = socket \/ \E s \in {"open", "closing", "closed", "connecting"} : socket' = [socket EXCEPT ![u] = s]
      /\ timer' = timer \/ \E b \in BOOLEAN : timer' = [timer EXCEPT ![u] = b]
      /\ closed' = closed
  BY DEF SocketOpens, SocketDrops, SocketCloses, Scheduled, Reconnects
<1>3. SocketsTypeOK'
  BY <1>1, <1>2 DEF SocketsTypeOK, Live
<1>4. \A w \in Urls : w # u => socket'[w] = socket[w] /\ timer'[w] = timer[w]
  BY <1>1, <1>2
<1>5. /\ ~closed => (timer'[u] <=> socket'[u] \in {"none", "closed"})
      /\ closed => socket'[u] \notin Live
  <2>1. CASE SocketOpens(u) /\ ~closed
    BY <1>1, <2>1 DEF SocketOpens, Relays, RelayKept, Live
  <2>2. CASE SocketDrops(u)
    BY <1>1, <2>2 DEF SocketDrops, Relays, RelayKept, Live
  <2>3. CASE SocketCloses(u)
    BY <1>1, <2>3 DEF SocketCloses, Scheduled, Relays, RelayKept, Live
  <2>4. CASE Reconnects(u)
    BY <1>1, <2>4 DEF Reconnects, Scheduled, Relays, RelayKept, Live
  <2> QED
    BY <2>1, <2>2, <2>3, <2>4
<1>6. RelayKept'
  BY <1>2, <1>4, <1>5 DEF Relays, RelayKept
<1>7. SocketOpens(u) \/ socket'[u] # "open" \/ socket' = socket
  BY <1>1 DEF SocketDrops, SocketCloses, Reconnects
<1> QED
  BY <1>2, <1>3, <1>4, <1>6, <1>7 DEF Relays

LEMMA RelaysShut ==
  ASSUME Relays, SocketsShut
  PROVE  Relays' /\ closed'
<1>1. /\ closed' = TRUE /\ timer' = [u \in Urls |-> timer[u] /\ socket[u] = "none"]
      /\ socket' = [u \in Urls |-> IF socket[u] \in Live THEN "closing" ELSE socket[u]]
  BY DEF SocketsShut
<1>2. SocketsTypeOK'
  BY <1>1 DEF Relays, SocketsTypeOK, Live
<1> QED
  BY <1>1, <1>2 DEF Relays, RelayKept, Live

LEMMA NextNInv == NInv /\ [Next]_vars => NInv'
<1> SUFFICES ASSUME NInv, [Next]_vars PROVE Relays' /\ Outbox'
  BY NextIInv DEF NInv
<1> DEFINE Goal == Relays' /\ Outbox'
<1>1. ASSUME UNCHANGED socketVars, UNCHANGED <<signing, outbox, offered, seen>>, now' \in 0 .. MaxTime, now <= now'
      PROVE  Goal
  <2>1. Relays'
    BY <1>1 DEF socketVars, NInv, Relays, SocketsTypeOK, RelayKept
  <2> QED
    BY <1>1, <2>1, OutboxStays DEF socketVars, NInv
<1>2. now \in 0 .. MaxTime /\ now <= now
  BY DEF NInv, Outbox
<1>3. ASSUME UNCHANGED vars PROVE Goal
  BY <1>1, <1>2, <1>3 DEF vars, nostrVars
<1>4. ASSUME Tick PROVE Goal
  <2>1. now' \in 0 .. MaxTime /\ now <= now'
    BY <1>4, NostrAssumption DEF Tick, NInv, Outbox
  <2> QED
    BY <1>1, <1>4, <2>1 DEF Tick
<1>5. ASSUME Close PROVE Goal
  <2>1. Relays' /\ closed'
    BY <1>5, RelaysShut DEF Close, NInv
  <2>2. outbox' = <<>> /\ UNCHANGED <<now, signing, offered, seen>>
    BY <1>5 DEF Close
  <2>3. outbox' \in Seq(Item) /\ Len(outbox') <= Keep /\ DOMAIN outbox' = {}
    BY <2>2, NostrAssumption
  <2> QED
    BY <2>1, <2>2, <2>3 DEF NInv, Outbox, InClockOrder, OpenRelayHasAll
<1>6. ASSUME NEW e \in Events, PublishBegins(e) PROVE Goal
  <2>1. Relays'
    BY <1>6 DEF PublishBegins, socketVars, NInv, Relays, SocketsTypeOK, RelayKept
  <2>2. OpenRelayHasAll'
    BY <1>6 DEF PublishBegins, socketVars, NInv, Outbox, OpenRelayHasAll
  <2> QED
    BY <1>6, <2>1, <2>2 DEF PublishBegins, NInv, Outbox
<1>7. ASSUME NEW e \in Events, PublishEnds(e) PROVE Goal
  <2>1. Relays'
    BY <1>7 DEF PublishEnds, socketVars, NInv, Relays, SocketsTypeOK, RelayKept
  <2> QED
    BY <1>7, <2>1, PublishEndsOutbox
<1>8. ASSUME NEW e \in Events, OtherPublishes(e) PROVE Goal
  BY <1>1, <1>2, <1>8 DEF OtherPublishes
<1>9. ASSUME NEW u \in Urls, RelayOpens(u) PROVE Goal
  BY <1>9, RelayOpensOutbox, RelaysStep DEF RelayOpens, NInv
<1>10. ASSUME NEW u \in Urls, RelayDrops(u) \/ RelayCloses(u) \/ RelayReconnects(u) PROVE Goal
  <2>1. UNCHANGED nostrVars /\ ~SocketOpens(u) /\ (SocketDrops(u) \/ SocketCloses(u) \/ Reconnects(u))
    <3>1. socket \in [Urls -> Live \union {"none", "closing", "closed"}]
      BY DEF NInv, Relays, SocketsTypeOK
    <3> QED
      BY <1>10, <3>1 DEF RelayDrops, RelayCloses, RelayReconnects, SocketDrops, SocketCloses, Reconnects, SocketOpens, Live
  <2>2. Relays' /\ closed' = closed /\ \A w \in Urls : socket'[w] = "open" => socket[w] = "open"
    BY <2>1, RelaysStep DEF NInv
  <2> QED
    BY <1>2, <2>1, <2>2, OutboxStays DEF nostrVars, NInv
<1>11. ASSUME NEW u \in Urls, NEW e \in Events, Arrives(u, e) PROVE Goal
  BY <1>1, <1>2, <1>11 DEF Arrives
<1>12. ASSUME NEW i \in DOMAIN chain, Check(i) \/ Emit(i) PROVE Goal
  BY <1>1, <1>2, <1>12 DEF Check, Emit
<1>13. ASSUME NEW i \in DOMAIN chain, Verified(i) PROVE Goal
  <2>1. /\ seen' = SeenWith(chain[i].event) /\ UNCHANGED <<socketVars, now, signing, outbox, offered>>
    BY <1>13 DEF Verified
  <2>2. seen' \in [Events -> 0 .. MaxTime \union {Never}]
    <3> DEFINE with == [seen EXCEPT ![chain[i].event] = now]
    <3>1. with \in [Events -> 0 .. MaxTime \union {Never}]
      BY <1>2 DEF NInv, Outbox
    <3>2. seen' = [f \in Events |-> IF with[f] < now - TTL THEN Never ELSE with[f]]
      BY <2>1 DEF SeenWith
    <3> HIDE DEF with
    <3> QED
      BY <3>1, <3>2
  <2>3. Relays'
    BY <2>1 DEF socketVars, NInv, Relays, SocketsTypeOK, RelayKept
  <2>4. OpenRelayHasAll'
    BY <2>1 DEF socketVars, NInv, Outbox, OpenRelayHasAll
  <2> QED
    BY <2>1, <2>2, <2>3, <2>4 DEF NInv, Outbox
<1> QED
  BY <1>3, <1>4, <1>5, <1>6, <1>7, <1>8, <1>9, <1>10, <1>11, <1>12, <1>13 DEF Next
--------------------------------------------------------------------------------
(* The BitTorrent session: its trackers.                                     *)
TrackerSockets == Torrent!SocketsTypeOK /\ Torrent!RelayKept

LEMMA TrackersStep ==
  ASSUME TrackerSockets, NEW u \in Trackers,
         \/ Torrent!SocketOpens(u) /\ ~tclosed
         \/ Torrent!SocketDrops(u) \/ Torrent!SocketCloses(u) \/ Torrent!Reconnects(u)
  PROVE  TrackerSockets'
<1> USE DEF Torrent!Live
<1>1. tsocket \in [Trackers -> {"connecting", "open", "none", "closing", "closed"}]
      /\ ttimer \in [Trackers -> BOOLEAN] /\ tclosed \in BOOLEAN
  BY DEF TrackerSockets, Torrent!SocketsTypeOK
<1>2. /\ tsocket' = tsocket \/ \E s \in {"open", "closing", "closed", "connecting"} : tsocket' = [tsocket EXCEPT ![u] = s]
      /\ ttimer' = ttimer \/ \E b \in BOOLEAN : ttimer' = [ttimer EXCEPT ![u] = b]
      /\ tclosed' = tclosed
  BY DEF Torrent!SocketOpens, Torrent!SocketDrops, Torrent!SocketCloses, Torrent!Scheduled, Torrent!Reconnects
<1>3. Torrent!SocketsTypeOK'
  BY <1>1, <1>2 DEF Torrent!SocketsTypeOK
<1>4. \A w \in Trackers : w # u => tsocket'[w] = tsocket[w] /\ ttimer'[w] = ttimer[w]
  BY <1>1, <1>2
<1>5. /\ ~tclosed => (ttimer'[u] <=> tsocket'[u] \in {"none", "closed"})
      /\ tclosed => tsocket'[u] \notin {"connecting", "open"}
  <2> USE DEF TrackerSockets, Torrent!RelayKept
  <2>1. CASE Torrent!SocketOpens(u) /\ ~tclosed
    BY <1>1, <2>1 DEF Torrent!SocketOpens
  <2>2. CASE Torrent!SocketDrops(u)
    BY <1>1, <2>2 DEF Torrent!SocketDrops
  <2>3. CASE Torrent!SocketCloses(u)
    BY <1>1, <2>3 DEF Torrent!SocketCloses, Torrent!Scheduled
  <2>4. CASE Torrent!Reconnects(u)
    BY <1>1, <2>4 DEF Torrent!Reconnects, Torrent!Scheduled
  <2> QED
    BY <2>1, <2>2, <2>3, <2>4
<1>6. Torrent!RelayKept'
  BY <1>2, <1>4, <1>5 DEF TrackerSockets, Torrent!RelayKept
<1> QED
  BY <1>3, <1>6 DEF TrackerSockets

LEMMA TrackersShut ==
  ASSUME TrackerSockets, Torrent!SocketsShut
  PROVE  TrackerSockets'
<1>1. /\ tclosed' = TRUE /\ ttimer' = [u \in Trackers |-> ttimer[u] /\ tsocket[u] = "none"]
      /\ tsocket' = [u \in Trackers |-> IF tsocket[u] \in {"connecting", "open"} THEN "closing" ELSE tsocket[u]]
  BY DEF Torrent!SocketsShut, Torrent!Live
<1>2. Torrent!SocketsTypeOK'
  BY <1>1 DEF TrackerSockets, Torrent!SocketsTypeOK, Torrent!Live
<1>3. Torrent!RelayKept'
  BY <1>1 DEF TrackerSockets, Torrent!RelayKept, Torrent!Live
<1> QED
  BY <1>2, <1>3 DEF TrackerSockets

LEMMA TrackersStay ==
  ASSUME TrackerSockets, UNCHANGED <<tsocket, ttimer, tclosed>>
  PROVE  TrackerSockets'
BY DEF TrackerSockets, Torrent!SocketsTypeOK, Torrent!RelayKept

--------------------------------------------------------------------------------
(* The BitTorrent session: its offers and what it hands over.                *)
Signals == Torrent!Incoming
InboxItem == [signal : Signals, url : Trackers, step : {"queued", "decode"}]
Offered == ToSet(offers)

TorrentTypes ==
  /\ tnow \in 0 .. MaxTime /\ token \in BOOLEAN
  /\ stamp \in [Signals -> 0 .. MaxTime \union {Never}]
  /\ published \subseteq Ours
  /\ offers \in Seq(Ours)
  /\ origins \in [Theirs -> Trackers \union {"none"}]
  /\ announcing \subseteq Trackers
  /\ announced \in [Trackers -> SUBSET Ours]
  /\ inbox \in Seq(InboxItem)
  /\ recent \in [Signals -> 0 .. MaxTime \union {Never}]
  /\ emitted \in [Signals -> Nat]

\* An offer stands in the Map at most once, only after it was published, and
\* never again once an answer to it was handed over.
OffersOnce ==
  /\ \A i, j \in DOMAIN offers : offers[i] = offers[j] => i = j
  /\ \A i \in DOMAIN offers : offers[i] \in published
  /\ \A o \in Ours : emitted[<<"answer", o>>] # 0 => o \in published /\ o \notin Offered

\* Only the first message is being decoded; if it is an answer, its offer is
\* gone and no other answer to it was handed over.
Decoding ==
  /\ \A i \in DOMAIN inbox : stamp[inbox[i].signal] # Never /\ (i # 1 => inbox[i].step = "queued")
  /\ \A o \in Ours :
       inbox # <<>> /\ inbox[1].step = "decode" /\ inbox[1].signal = <<"answer", o>> =>
         emitted[<<"answer", o>>] = 0 /\ o \in published /\ o \notin Offered

TInv == TrackerSockets /\ TorrentTypes /\ OffersOnce /\ Decoding

\* What the proofs use of the constants.
LEMMA Sessions ==
  /\ \A o \in Ours : <<"answer", o>> \in Signals
  /\ \A s \in Signals : (s[1] = "offer" /\ s[2] \in Theirs /\ s = <<"offer", s[2]>>)
                        \/ (s[1] = "answer" /\ s[2] \in Ours /\ s = <<"answer", s[2]>>)
  /\ MaxTime \in Nat /\ TTL \in Nat /\ Spacing \in Nat /\ Newest \in Nat
  /\ Never = -100 /\ Torrent!Never = -100
BY NostrAssumption, TorrentAssumption DEF Signals, Torrent!Incoming, Never, Torrent!Never

LEMMA InitTInv == Torrent!Init => TInv
<1> SUFFICES ASSUME Torrent!Init PROVE TInv
  OBVIOUS
<1>1. TrackerSockets
  BY DEF Torrent!Init, Torrent!SocketsInit, TrackerSockets, Torrent!SocketsTypeOK, Torrent!RelayKept, Torrent!Live
<1>2. TorrentTypes
  BY Sessions DEF Torrent!Init, TorrentTypes, Signals
<1>3. offers = <<>> /\ inbox = <<>> /\ \A o \in Ours : emitted[<<"answer", o>>] = 0
  BY Sessions DEF Torrent!Init, Signals
<1> QED
  BY <1>1, <1>2, <1>3 DEF TInv, OffersOnce, Decoding

\* Map.delete takes the offer out and leaves the others.
LEMMA DeletedFacts ==
  ASSUME TorrentTypes, OffersOnce, NEW o, offers' = Torrent!Deleted(o)
  PROVE  /\ offers' \in Seq(Ours)
         /\ Offered' = Offered \ {o}
         /\ \A i, j \in DOMAIN offers' : offers'[i] = offers'[j] => i = j
<1>1. CASE o \notin Offered
  <2>1. offers' = offers
    BY <1>1 DEF Torrent!Deleted, Torrent!ToSet, Offered, ToSet
  <2> QED
    BY <1>1, <2>1 DEF TorrentTypes, OffersOnce, Offered
<1>2. CASE o \in Offered
  <2> DEFINE place == CHOOSE i \in DOMAIN offers : offers[i] = o
  <2>1. place \in DOMAIN offers /\ offers[place] = o
    BY <1>2 DEF Offered, ToSet
  <2>2. offers' = Torrent!RemoveAt(offers, place)
    BY <1>2 DEF Torrent!Deleted, Torrent!ToSet, Offered, ToSet
  <2> HIDE DEF place
  <2> DEFINE front == SubSeq(offers, 1, place - 1)
             rest == SubSeq(offers, place + 1, Len(offers))
  <2>3. offers \in Seq(Ours) /\ place \in 1 .. Len(offers)
    BY <2>1 DEF TorrentTypes
  <2>4. front \in Seq(Ours) /\ Len(front) = place - 1 /\ \A i \in 1 .. place - 1 : front[i] = offers[i]
    BY <2>3
  <2>5. rest \in Seq(Ours) /\ Len(rest) = Len(offers) - place
        /\ \A i \in 1 .. Len(offers) - place : rest[i] = offers[i + place]
    BY <2>3
  <2>6. offers' = front \o rest
    BY <2>2 DEF Torrent!RemoveAt
  <2> HIDE DEF front, rest
  <2>7. offers' \in Seq(Ours) /\ Len(offers') = Len(offers) - 1
    <3>1. front \o rest \in Seq(Ours) /\ Len(front \o rest) = Len(front) + Len(rest)
      BY <2>4, <2>5
    <3>2. (place - 1) + (Len(offers) - place) = Len(offers) - 1
      BY <2>3
    <3> QED
      BY <3>1, <3>2, <2>4, <2>5, <2>6
  <2>8. ASSUME NEW i \in 1 .. Len(offers) - 1
        PROVE  offers'[i] = IF i < place THEN offers[i] ELSE offers[i + 1]
    <3>1. CASE i < place
      BY <3>1, <2>3, <2>4, <2>5, <2>6
    <3>2. CASE ~(i < place)
      <4>1. i \in 1 .. Len(front) + Len(rest) /\ ~(i <= Len(front))
        BY <3>2, <2>3, <2>4, <2>5
      <4>2. (front \o rest)[i] = rest[i - Len(front)]
        BY <4>1, <2>4, <2>5
      <4>3. i - Len(front) \in 1 .. Len(offers) - place /\ (i - Len(front)) + place = i + 1
        BY <3>2, <2>3, <2>4
      <4>4. rest[i - Len(front)] = offers[(i - Len(front)) + place]
        BY <4>3, <2>5
      <4> QED
        BY <3>2, <4>2, <4>3, <4>4, <2>6
    <3> QED
      BY <3>1, <3>2
  <2>9. DOMAIN offers' = 1 .. Len(offers) - 1 /\ DOMAIN offers = 1 .. Len(offers)
    BY <2>3, <2>7
  <2>10. \A i, j \in DOMAIN offers : offers[i] = offers[j] => i = j
    BY DEF OffersOnce
  <2>11. ASSUME NEW i \in DOMAIN offers'
         PROVE  \E n \in DOMAIN offers : n # place /\ offers'[i] = offers[n] /\ n = IF i < place THEN i ELSE i + 1
    BY <2>3, <2>8, <2>9
  <2>12. \A i, j \in DOMAIN offers' : offers'[i] = offers'[j] => i = j
    <3> SUFFICES ASSUME NEW i \in DOMAIN offers', NEW j \in DOMAIN offers', offers'[i] = offers'[j]
                 PROVE  i = j
      OBVIOUS
    <3>1. (IF i < place THEN i ELSE i + 1) = (IF j < place THEN j ELSE j + 1)
      BY <2>10, <2>11
    <3> QED
      BY <3>1, <2>3, <2>9
  <2>13. ASSUME NEW n \in DOMAIN offers, n # place
         PROVE  \E i \in DOMAIN offers' : offers'[i] = offers[n]
    <3>1. CASE n < place
      BY <3>1, <2>3, <2>8, <2>9
    <3>2. CASE n > place
      <4>1. n - 1 \in 1 .. Len(offers) - 1 /\ ~(n - 1 < place) /\ (n - 1) + 1 = n
        BY <3>2, <2>3, <2>9
      <4> QED
        BY <4>1, <2>8, <2>9
    <3> QED
      BY <3>1, <3>2, <2>3, <2>9, <2>13
  <2>14. Offered' \subseteq Offered \ {o}
    <3> SUFFICES ASSUME NEW i \in DOMAIN offers' PROVE offers'[i] \in Offered \ {o}
      BY DEF Offered, ToSet
    <3>1. PICK n \in DOMAIN offers : n # place /\ offers'[i] = offers[n]
      BY <2>11
    <3>2. offers[n] # o
      BY <3>1, <2>1, <2>10
    <3> QED
      BY <3>1, <3>2 DEF Offered, ToSet
  <2>15. Offered \ {o} \subseteq Offered'
    <3> SUFFICES ASSUME NEW n \in DOMAIN offers, offers[n] # o PROVE offers[n] \in Offered'
      BY DEF Offered, ToSet
    <3>1. n # place
      BY <2>1
    <3>2. PICK i \in DOMAIN offers' : offers'[i] = offers[n]
      BY <3>1, <2>13
    <3> QED
      BY <3>2 DEF Offered, ToSet
  <2> QED
    BY <2>7, <2>12, <2>14, <2>15
<1> QED
  BY <1>1, <1>2
\* What an announcement carries is among the offers.
LEMMA NewestOffers ==
  ASSUME NEW queue \in Seq(Ours)
  PROVE  Torrent!LastOf(queue) \subseteq Ours
<1>1. Len(queue) \in Nat /\ Newest \in Nat
  BY Sessions
<1>2. \A i \in (IF Len(queue) > Newest THEN Len(queue) - Newest + 1 ELSE 1) .. Len(queue) : i \in DOMAIN queue
  BY <1>1
<1> QED
  BY <1>2 DEF Torrent!LastOf

LEMMA Announced ==
  ASSUME TorrentTypes, NEW us, NEW queue \in Seq(Ours), Torrent!Announce(us, queue)
  PROVE  announced' \in [Trackers -> SUBSET Ours]
BY NewestOffers DEF Torrent!Announce, TorrentTypes

\* The first message leaves the inbox.
LEMMA InboxTail ==
  ASSUME inbox \in Seq(InboxItem), inbox # <<>>, inbox' = Tail(inbox)
  PROVE  /\ inbox' \in Seq(InboxItem)
         /\ \A i \in DOMAIN inbox' : i + 1 \in DOMAIN inbox /\ i + 1 # 1 /\ inbox'[i] = inbox[i + 1]
<1>1. inbox' \in Seq(InboxItem) /\ Len(inbox') = Len(inbox) - 1 /\ Len(inbox) \in Nat
  OBVIOUS
<1>2. \A i \in 1 .. Len(inbox') : inbox'[i] = inbox[i + 1]
  BY <1>1
<1> QED
  BY <1>1, <1>2

\* The first message has been read and awaits its decoding.
LEMMA InboxHead ==
  ASSUME inbox \in Seq(InboxItem), inbox # <<>>, inbox' = [inbox EXCEPT ![1].step = "decode"]
  PROVE  /\ inbox' \in Seq(InboxItem) /\ DOMAIN inbox' = DOMAIN inbox
         /\ inbox'[1].signal = inbox[1].signal /\ inbox'[1].step = "decode"
         /\ \A i \in DOMAIN inbox : i # 1 => inbox'[i] = inbox[i]
<1> DEFINE read == [inbox[1] EXCEPT !.step = "decode"]
<1>1. 1 \in DOMAIN inbox /\ inbox[1] \in InboxItem
  OBVIOUS
<1>2. read \in InboxItem /\ read.signal = inbox[1].signal /\ read.step = "decode"
  BY <1>1 DEF InboxItem
<1>3. inbox' = [inbox EXCEPT ![1] = read]
  OBVIOUS
<1> HIDE DEF read
<1> QED
  BY <1>1, <1>2, <1>3

\* Messages stay as they are, and no answer was handed over: so does Decoding.
LEMMA DecodingStays ==
  ASSUME Decoding, inbox \in Seq(InboxItem), UNCHANGED <<inbox, emitted>>, published \subseteq published',
         Offered' \subseteq Offered \union (published' \ published),
         \A s \in Signals : stamp[s] # Never => stamp'[s] # Never
  PROVE  Decoding'
<1>1. \A i \in DOMAIN inbox : inbox[i].signal \in Signals
  <2> SUFFICES ASSUME NEW i \in DOMAIN inbox PROVE inbox[i].signal \in Signals
    OBVIOUS
  <2>1. inbox[i] \in InboxItem
    OBVIOUS
  <2> QED
    BY <2>1 DEF InboxItem
<1> QED
  BY <1>1 DEF Decoding

\* What the service sees of a step that sends and hands over nothing.
LEMMA TorrentStutters ==
  ASSUME UNCHANGED <<tnow, token, stamp, emitted>>
  PROVE  UNCHANGED Torrent!Service!vars
BY DEF Torrent!Service!vars, Torrent!InTime, Torrent!Stamp
--------------------------------------------------------------------------------
TGoal == TInv' /\ [Torrent!Service!Next]_(Torrent!Service!vars)

\* Steps of the sockets: nothing is read, published or handed over.
LEMMA TrackerStep ==
  ASSUME TInv, NEW u \in Trackers,
         \/ Torrent!TrackerOpens(u) \/ Torrent!TrackerDrops(u) \/ Torrent!TrackerCloses(u)
         \/ Torrent!TrackerReconnects(u) \/ Torrent!AnnounceTimer(u)
  PROVE  TGoal
<1>1. UNCHANGED <<tnow, token, stamp, published, offers, origins, inbox, recent, emitted>>
  BY DEF Torrent!TrackerOpens, Torrent!TrackerDrops, Torrent!TrackerCloses, Torrent!TrackerReconnects,
     Torrent!AnnounceTimer, Torrent!torrentVars
<1>2. TrackerSockets'
  <2>1. CASE Torrent!AnnounceTimer(u)
    BY <2>1, TrackersStay DEF Torrent!AnnounceTimer, Torrent!socketVars, TInv
  <2>2. CASE ~Torrent!AnnounceTimer(u)
    BY <2>2, TrackersStep DEF TInv, Torrent!TrackerOpens, Torrent!TrackerDrops, Torrent!TrackerCloses, Torrent!TrackerReconnects
  <2> QED
    BY <2>1, <2>2
<1>3. announcing' \subseteq Trackers
  BY DEF Torrent!TrackerOpens, Torrent!IntervalOn, Torrent!TrackerDrops, Torrent!TrackerCloses,
     Torrent!TrackerReconnects, Torrent!AnnounceTimer, Torrent!torrentVars, TInv, TorrentTypes
<1>4. announced' \in [Trackers -> SUBSET Ours]
  <2>1. offers \in Seq(Ours) /\ announced \in [Trackers -> SUBSET Ours]
    BY DEF TInv, TorrentTypes
  <2>2. CASE Torrent!TrackerOpens(u)
    BY <2>1, <2>2, NewestOffers DEF Torrent!TrackerOpens
  <2>3. CASE Torrent!AnnounceTimer(u)
    BY <2>1, <2>3, Announced DEF Torrent!AnnounceTimer, TInv
  <2>4. CASE Torrent!TrackerDrops(u) \/ Torrent!TrackerCloses(u) \/ Torrent!TrackerReconnects(u)
    BY <2>1, <2>4 DEF Torrent!TrackerDrops, Torrent!TrackerCloses, Torrent!TrackerReconnects, Torrent!torrentVars
  <2> QED
    BY <2>2, <2>3, <2>4
<1>5. TorrentTypes'
  BY <1>1, <1>3, <1>4 DEF TInv, TorrentTypes
<1>6. Offered' = Offered
  BY <1>1 DEF Offered, ToSet
<1>7. OffersOnce' /\ Decoding'
  BY <1>1, <1>6, DecodingStays DEF TInv, TorrentTypes, OffersOnce
<1> QED
  BY <1>1, <1>2, <1>5, <1>7, TorrentStutters DEF TGoal, TInv

LEMMA PublishOfferStep ==
  ASSUME TInv, NEW o \in Ours, Torrent!PublishOffer(o)
  PROVE  TGoal
<1>1. /\ o \notin published /\ published' = published \union {o} /\ offers' = Append(offers, o)
      /\ Torrent!Announce(Trackers, offers')
      /\ UNCHANGED <<tsocket, ttimer, tclosed, tnow, token, stamp, origins, announcing, inbox, recent, emitted>>
  BY DEF Torrent!PublishOffer, Torrent!socketVars
<1>2. offers \in Seq(Ours)
  BY DEF TInv, TorrentTypes
<1>3. /\ offers' \in Seq(Ours) /\ DOMAIN offers' = 1 .. Len(offers) + 1 /\ offers'[Len(offers) + 1] = o
      /\ \A i \in DOMAIN offers : offers'[i] = offers[i]
  BY <1>1, <1>2
<1>4. \A i \in DOMAIN offers' : i \in DOMAIN offers \/ i = Len(offers) + 1
  BY <1>2, <1>3
<1>5. Offered' \subseteq Offered \union {o}
  BY <1>3, <1>4 DEF Offered, ToSet
<1>6. TorrentTypes'
  <2>1. announced' \in [Trackers -> SUBSET Ours]
    BY <1>1, <1>3, Announced DEF TInv
  <2> QED
    BY <1>1, <1>3, <2>1 DEF TInv, TorrentTypes
<1>7. OffersOnce'
  <2>1. \A i \in DOMAIN offers : offers[i] \in published /\ offers[i] # o
    BY <1>1 DEF TInv, OffersOnce
  <2>2. \A i, j \in DOMAIN offers' : offers'[i] = offers'[j] => i = j
    BY <1>3, <1>4, <2>1 DEF TInv, OffersOnce
  <2>3. \A i \in DOMAIN offers' : offers'[i] \in published'
    BY <1>1, <1>3, <1>4, <2>1
  <2>4. \A p \in Ours : emitted'[<<"answer", p>>] # 0 => p \in published' /\ p \notin Offered'
    BY <1>1, <1>5 DEF TInv, OffersOnce
  <2> QED
    BY <2>2, <2>3, <2>4 DEF OffersOnce
<1>8. Decoding'
  BY <1>1, <1>5, DecodingStays DEF TInv, TorrentTypes
<1>9. TrackerSockets'
  BY <1>1, TrackersStay DEF TInv
<1> QED
  BY <1>1, <1>6, <1>7, <1>8, <1>9, TorrentStutters DEF TGoal, TInv

\* Offers are only taken away.
LEMMA OffersShrink ==
  ASSUME TInv, offers' \in Seq(Ours), Offered' \subseteq Offered, UNCHANGED <<published, emitted>>,
         \A i, j \in DOMAIN offers' : offers'[i] = offers'[j] => i = j
  PROVE  OffersOnce'
<1>1. ASSUME NEW i \in DOMAIN offers' PROVE offers'[i] \in published'
  <2>1. offers'[i] \in Offered
    BY <1>1 DEF Offered, ToSet
  <2>2. Offered \subseteq published
    BY DEF Offered, ToSet, TInv, OffersOnce
  <2> QED
    BY <2>1, <2>2
<1>2. \A o \in Ours : emitted'[<<"answer", o>>] # 0 => o \in published' /\ o \notin Offered'
  BY DEF TInv, OffersOnce
<1> QED
  BY <1>1, <1>2 DEF OffersOnce

LEMMA PublishByeStep ==
  ASSUME TInv, NEW s \in Ours \union Theirs, Torrent!PublishBye(s)
  PROVE  TGoal
<1>1. /\ offers' = Torrent!Deleted(s) /\ origins' = [t \in Theirs |-> IF t = s THEN "none" ELSE origins[t]]
      /\ Torrent!Announce(Trackers, offers')
      /\ UNCHANGED <<tsocket, ttimer, tclosed, tnow, token, stamp, published, announcing, inbox, recent, emitted>>
  BY DEF Torrent!PublishBye, Torrent!socketVars
<1>2. /\ offers' \in Seq(Ours) /\ Offered' = Offered \ {s}
      /\ \A i, j \in DOMAIN offers' : offers'[i] = offers'[j] => i = j
  BY <1>1, DeletedFacts DEF TInv
<1>3. OffersOnce'
  BY <1>1, <1>2, OffersShrink
<1>4. Decoding'
  BY <1>1, <1>2, DecodingStays DEF TInv, TorrentTypes
<1>5. announced' \in [Trackers -> SUBSET Ours]
  BY <1>1, <1>2, Announced DEF TInv
<1>6. TorrentTypes'
  BY <1>1, <1>2, <1>5 DEF TInv, TorrentTypes
<1>7. TrackerSockets'
  BY <1>1, TrackersStay DEF TInv
<1> QED
  BY <1>1, <1>3, <1>4, <1>6, <1>7, TorrentStutters DEF TGoal, TInv

LEMMA TorrentCloseStep ==
  ASSUME TInv, Torrent!Close
  PROVE  TGoal
<1>1. /\ Torrent!SocketsShut /\ announcing' = {} /\ offers' = <<>> /\ origins' = [t \in Theirs |-> "none"]
      /\ UNCHANGED <<tnow, token, stamp, published, announced, inbox, recent, emitted>>
  BY DEF Torrent!Close
<1>2. offers' \in Seq(Ours) /\ DOMAIN offers' = {} /\ Offered' = {}
  BY <1>1 DEF Offered, ToSet
<1>3. OffersOnce'
  BY <1>1, <1>2, OffersShrink
<1>4. Decoding'
  BY <1>1, <1>2, DecodingStays DEF TInv, TorrentTypes
<1>5. TorrentTypes'
  BY <1>1, <1>2 DEF TInv, TorrentTypes
<1>6. TrackerSockets'
  BY <1>1, TrackersShut DEF TInv
<1> QED
  BY <1>1, <1>3, <1>4, <1>5, <1>6, TorrentStutters DEF TGoal, TInv

\* A signal is sent: the service's Send.
LEMMA PeerSendsStep ==
  ASSUME TInv, NEW s \in Signals, Torrent!PeerSends(s)
  PROVE  TGoal
<1> USE Sessions
<1>1. /\ stamp[s] = Never /\ stamp' = [stamp EXCEPT ![s] = IF token THEN tnow ELSE 0]
      /\ UNCHANGED <<tsocket, ttimer, tclosed, tnow, token, published, offers, origins, announcing, announced,
                     inbox, recent, emitted>>
  BY DEF Torrent!PeerSends, Torrent!socketVars
<1>2. tnow \in 0 .. MaxTime /\ stamp \in [Signals -> 0 .. MaxTime \union {Never}]
  BY DEF TInv, TorrentTypes
<1>3. /\ stamp' \in [Signals -> 0 .. MaxTime \union {Never}] /\ stamp'[s] # Never
      /\ \A t \in Signals : t # s => stamp'[t] = stamp[t]
  BY <1>1, <1>2
<1>4. TorrentTypes'
  BY <1>1, <1>3 DEF TInv, TorrentTypes
<1>5. Offered' = Offered /\ OffersOnce'
  BY <1>1 DEF Offered, ToSet, TInv, OffersOnce
<1>6. Decoding'
  BY <1>1, <1>3, <1>5, DecodingStays DEF TInv, TorrentTypes
<1>7. TrackerSockets'
  BY <1>1, TrackersStay DEF TInv
<1>8. {t \in Signals : stamp'[t] # Never} = {t \in Signals : stamp[t] # Never} \union {s}
  BY <1>1, <1>3
<1>9. s \notin {t \in Signals : stamp[t] # Never}
  BY <1>1
<1>10. {t \in Signals : stamp[t] # Never /\ Torrent!InTime(t)}' \in SUBSET {t \in Signals : stamp'[t] # Never}
  OBVIOUS
<1>11. Torrent!Service!Send(s)
  BY <1>1, <1>8, <1>9, <1>10 DEF Torrent!Service!Send, Signals
<1> QED
  BY <1>4, <1>5, <1>6, <1>7, <1>11 DEF TGoal, TInv, Torrent!Service!Next, Signals

LEMMA TorrentArrivesStep ==
  ASSUME TInv, NEW u \in Trackers, NEW s \in Signals, Torrent!Arrives(u, s)
  PROVE  TGoal
<1> USE Sessions
<1> DEFINE last == [signal |-> s, url |-> u, step |-> "queued"]
<1>1. /\ stamp[s] # Never /\ inbox' = Append(inbox, last)
      /\ UNCHANGED <<tsocket, ttimer, tclosed, tnow, token, stamp, published, offers, origins, announcing,
                     announced, recent, emitted>>
  BY DEF Torrent!Arrives, Torrent!socketVars
<1>2. last \in InboxItem /\ last.signal = s /\ last.step = "queued"
  BY DEF InboxItem
<1> HIDE DEF last
<1>3. inbox \in Seq(InboxItem)
  BY DEF TInv, TorrentTypes
<1>4. /\ inbox' \in Seq(InboxItem)
      /\ \A i \in DOMAIN inbox' : (i \in DOMAIN inbox /\ inbox'[i] = inbox[i]) \/ inbox'[i] = last
      /\ inbox'[1] = IF inbox = <<>> THEN last ELSE inbox[1]
  BY <1>1, <1>2, <1>3
<1>5. TorrentTypes'
  BY <1>1, <1>4 DEF TInv, TorrentTypes
<1>6. Offered' = Offered /\ OffersOnce'
  BY <1>1 DEF Offered, ToSet, TInv, OffersOnce
<1>7. Decoding'
  BY <1>1, <1>2, <1>4, <1>6 DEF TInv, Decoding
<1>8. TrackerSockets'
  BY <1>1, TrackersStay DEF TInv
<1> QED
  BY <1>1, <1>5, <1>6, <1>7, <1>8, TorrentStutters DEF TGoal, TInv

LEMMA TorrentTickStep ==
  ASSUME TInv, Torrent!Tick
  PROVE  TGoal
<1>1. /\ tnow' \in 0 .. MaxTime
      /\ UNCHANGED <<tsocket, ttimer, tclosed, token, stamp, published, offers, origins, announcing, announced,
                     inbox, recent, emitted>>
  BY Sessions DEF Torrent!Tick, Torrent!socketVars, TInv, TorrentTypes
<1>2. TorrentTypes' /\ Offered' = Offered /\ OffersOnce'
  BY <1>1 DEF TInv, TorrentTypes, Offered, ToSet, OffersOnce
<1>3. Decoding'
  BY <1>1, <1>2, DecodingStays DEF TInv, TorrentTypes
<1>4. TrackerSockets'
  BY <1>1, TrackersStay DEF TInv
<1>5. Torrent!Service!TimePasses
  BY <1>1 DEF Torrent!Service!TimePasses
<1> QED
  BY <1>2, <1>3, <1>4, <1>5 DEF TGoal, TInv, Torrent!Service!Next
\* The first message is dropped as a repetition, or it awaits its decoding.
LEMMA EmitOnceFacts ==
  ASSUME TorrentTypes, inbox # <<>>, Torrent!EmitOnce(inbox[1].signal)
  PROVE  /\ \/ inbox' = Tail(inbox)
            \/ inbox' = [inbox EXCEPT ![1].step = "decode"]
         /\ inbox' \in Seq(InboxItem)
         /\ recent' \in [Signals -> 0 .. MaxTime \union {Never}]
<1> USE Sessions
<1>1. inbox \in Seq(InboxItem) /\ recent \in [Signals -> 0 .. MaxTime \union {Never}] /\ tnow \in 0 .. MaxTime
  BY DEF TorrentTypes
<1> DEFINE s == inbox[1].signal
           with == [recent EXCEPT ![s] = tnow]
<1>2. \/ inbox' = Tail(inbox) /\ recent' = recent
      \/ /\ inbox' = [inbox EXCEPT ![1].step = "decode"]
         /\ recent' = [r \in Signals |-> IF tnow - with[r] > TTL THEN Never ELSE with[r]]
  BY DEF Torrent!EmitOnce, Signals
<1>3. with \in [Signals -> 0 .. MaxTime \union {Never}]
  BY <1>1
<1> HIDE DEF with
<1>4. recent' \in [Signals -> 0 .. MaxTime \union {Never}]
  BY <1>1, <1>2, <1>3
<1>5. inbox' \in Seq(InboxItem)
  BY <1>1, <1>2, InboxTail, InboxHead
<1> QED
  BY <1>2, <1>4, <1>5

\* A message that was not yet read leaves the inbox or awaits its decoding: if
\* it is an answer, nothing was handed over of it and its offer is gone.
LEMMA DecodingMoves ==
  ASSUME TInv, inbox # <<>>,
         inbox' = Tail(inbox) \/ inbox' = [inbox EXCEPT ![1].step = "decode"],
         Offered' \subseteq Offered, UNCHANGED <<stamp, published, emitted>>,
         \A o \in Ours : inbox[1].signal = <<"answer", o>> =>
           emitted[<<"answer", o>>] = 0 /\ o \in published /\ o \notin Offered'
  PROVE  Decoding'
<1>1. inbox \in Seq(InboxItem) /\ Decoding /\ 1 \in DOMAIN inbox
  BY DEF TInv, TorrentTypes
<1>2. CASE inbox' = Tail(inbox)
  <2>1. \A i \in DOMAIN inbox' : i + 1 \in DOMAIN inbox /\ i + 1 # 1 /\ inbox'[i] = inbox[i + 1]
    BY <1>1, <1>2, InboxTail
  <2>2. \A i \in DOMAIN inbox' : stamp'[inbox'[i].signal] # Never /\ inbox'[i].step = "queued"
    BY <1>1, <2>1 DEF Decoding
  <2>3. inbox' # <<>> => 1 \in DOMAIN inbox'
    BY <1>1, <1>2
  <2> QED
    BY <2>2, <2>3 DEF Decoding
<1>3. CASE inbox' = [inbox EXCEPT ![1].step = "decode"]
  <2>1. /\ DOMAIN inbox' = DOMAIN inbox /\ inbox'[1].signal = inbox[1].signal
        /\ \A i \in DOMAIN inbox : i # 1 => inbox'[i] = inbox[i]
    BY <1>1, <1>3, InboxHead
  <2>2. \A i \in DOMAIN inbox' : stamp'[inbox'[i].signal] # Never /\ (i # 1 => inbox'[i].step = "queued")
    BY <1>1, <2>1 DEF Decoding
  <2> QED
    BY <2>1, <2>2 DEF Decoding
<1> QED
  BY <1>2, <1>3

LEMMA HeadSignal ==
  ASSUME TInv, inbox # <<>>
  PROVE  inbox[1].signal \in Signals /\ inbox[1].url \in Trackers
<1>1. inbox[1] \in InboxItem
  BY DEF TInv, TorrentTypes
<1> QED
  BY <1>1 DEF InboxItem

LEMMA ReadOfferStep ==
  ASSUME TInv, Torrent!ReadOffer
  PROVE  TGoal
<1> DEFINE s == inbox[1].signal
<1>1. /\ inbox # <<>> /\ s[1] = "offer" /\ origins' = [origins EXCEPT ![s[2]] = inbox[1].url]
      /\ Torrent!EmitOnce(s)
      /\ UNCHANGED <<offers, tsocket, ttimer, tclosed, tnow, token, stamp, published, announcing, announced, emitted>>
  BY DEF Torrent!ReadOffer, Torrent!HeadIs, Torrent!ReadUnchanged, Torrent!socketVars
<1>2. s \in Signals /\ inbox[1].url \in Trackers
  BY <1>1, HeadSignal
<1>3. /\ inbox' = Tail(inbox) \/ inbox' = [inbox EXCEPT ![1].step = "decode"]
      /\ inbox' \in Seq(InboxItem) /\ recent' \in [Signals -> 0 .. MaxTime \union {Never}]
  BY <1>1, EmitOnceFacts DEF TInv
<1>4. origins' \in [Theirs -> Trackers \union {"none"}]
  BY <1>1, <1>2, Sessions DEF TInv, TorrentTypes
<1>5. TorrentTypes'
  BY <1>1, <1>3, <1>4 DEF TInv, TorrentTypes
<1>6. Offered' = Offered /\ OffersOnce'
  BY <1>1 DEF Offered, ToSet, TInv, OffersOnce
<1>7. \A o \in Ours : s # <<"answer", o>>
  BY <1>1
<1>8. Decoding'
  BY <1>1, <1>3, <1>6, <1>7, DecodingMoves
<1>9. TrackerSockets'
  BY <1>1, TrackersStay DEF TInv
<1> QED
  BY <1>1, <1>5, <1>6, <1>8, <1>9, TorrentStutters DEF TGoal, TInv

\* The first answer deletes its offer; a later one finds none.
LEMMA ReadAnswerStep ==
  ASSUME TInv, Torrent!ReadAnswer
  PROVE  TGoal
<1> DEFINE s == inbox[1].signal
           o == s[2]
<1>1. /\ inbox # <<>> /\ s[1] = "answer" /\ inbox[1].step = "queued"
      /\ IF Torrent!IsOffered(o)
         THEN offers' = Torrent!Deleted(o) /\ Torrent!EmitOnce(s)
         ELSE inbox' = Tail(inbox) /\ UNCHANGED <<offers, recent>>
      /\ UNCHANGED <<origins, tsocket, ttimer, tclosed, tnow, token, stamp, published, announcing, announced, emitted>>
  BY DEF Torrent!ReadAnswer, Torrent!HeadIs, Torrent!ReadUnchanged, Torrent!socketVars
<1>2. s \in Signals /\ o \in Ours /\ s = <<"answer", o>>
  BY <1>1, HeadSignal, Sessions
<1>3. inbox \in Seq(InboxItem)
  BY DEF TInv, TorrentTypes
<1>4. TrackerSockets'
  BY <1>1, TrackersStay DEF TInv
<1>5. CASE o \in Offered
  <2>1. offers' = Torrent!Deleted(o) /\ Torrent!EmitOnce(s)
    BY <1>1, <1>5 DEF Torrent!IsOffered, Torrent!ToSet, Offered, ToSet
  <2>2. /\ inbox' = Tail(inbox) \/ inbox' = [inbox EXCEPT ![1].step = "decode"]
        /\ inbox' \in Seq(InboxItem) /\ recent' \in [Signals -> 0 .. MaxTime \union {Never}]
    BY <1>1, <2>1, EmitOnceFacts DEF TInv
  <2>3. /\ offers' \in Seq(Ours) /\ Offered' = Offered \ {o}
        /\ \A i, j \in DOMAIN offers' : offers'[i] = offers'[j] => i = j
    BY <2>1, DeletedFacts DEF TInv
  <2>4. OffersOnce'
    BY <1>1, <2>3, OffersShrink
  <2>5. emitted[<<"answer", o>>] = 0 /\ o \in published
    <3>1. o \in published
      BY <1>5 DEF Offered, ToSet, TInv, OffersOnce
    <3> QED
      BY <3>1, <1>2, <1>5 DEF TInv, OffersOnce
  <2>6. \A p \in Ours : s = <<"answer", p>> => p = o
    BY <1>2
  <2>7. Decoding'
    BY <1>1, <2>2, <2>3, <2>5, <2>6, DecodingMoves
  <2>8. TorrentTypes'
    BY <1>1, <2>2, <2>3 DEF TInv, TorrentTypes
  <2> QED
    BY <1>1, <1>4, <2>4, <2>7, <2>8, TorrentStutters DEF TGoal, TInv
<1>6. CASE o \notin Offered
  <2>1. inbox' = Tail(inbox) /\ UNCHANGED <<offers, recent>>
    BY <1>1, <1>6 DEF Torrent!IsOffered, Torrent!ToSet, Offered, ToSet
  <2>2. inbox' \in Seq(InboxItem)
        /\ \A i \in DOMAIN inbox' : i + 1 \in DOMAIN inbox /\ i + 1 # 1 /\ inbox'[i] = inbox[i + 1]
    BY <1>1, <1>3, <2>1, InboxTail
  <2>3. Decoding'
    <3>1. \A i \in DOMAIN inbox' : stamp'[inbox'[i].signal] # Never /\ inbox'[i].step = "queued"
      BY <1>1, <2>2 DEF TInv, Decoding
    <3>2. inbox' # <<>> => 1 \in DOMAIN inbox'
      BY <2>2
    <3> QED
      BY <3>1, <3>2 DEF Decoding
  <2>4. TorrentTypes'
    BY <1>1, <2>1, <2>2 DEF TInv, TorrentTypes
  <2>5. OffersOnce'
    BY <1>1, <2>1 DEF Offered, ToSet, TInv, OffersOnce
  <2> QED
    BY <1>1, <1>4, <2>3, <2>4, <2>5, TorrentStutters DEF TGoal, TInv
<1> QED
  BY <1>5, <1>6

\* What is handed over is the service's Deliver: an answer for the first time.
LEMMA TorrentEmitStep ==
  ASSUME TInv, Torrent!Emit
  PROVE  TGoal
<1> DEFINE s == inbox[1].signal
<1>1. /\ inbox # <<>> /\ inbox[1].step = "decode" /\ inbox' = Tail(inbox)
      /\ emitted' = IF Torrent!InTime(s) THEN [emitted EXCEPT ![s] = @ + 1] ELSE emitted
      /\ UNCHANGED <<offers, origins, tsocket, ttimer, tclosed, tnow, token, stamp, published, announcing, announced, recent>>
  BY DEF Torrent!Emit, Torrent!HeadIs, Torrent!socketVars
<1>2. s \in Signals /\ stamp[s] # Never
  BY <1>1, HeadSignal DEF TInv, TorrentTypes, Decoding
<1>3. /\ inbox' \in Seq(InboxItem)
      /\ \A i \in DOMAIN inbox' : i + 1 \in DOMAIN inbox /\ i + 1 # 1 /\ inbox'[i] = inbox[i + 1]
  BY <1>1, InboxTail DEF TInv, TorrentTypes
<1>4. emitted \in [Signals -> Nat] /\ emitted' \in [Signals -> Nat]
      /\ \A t \in Signals : t # s => emitted'[t] = emitted[t]
  BY <1>1, <1>2 DEF TInv, TorrentTypes
<1>5. TorrentTypes'
  BY <1>1, <1>3, <1>4 DEF TInv, TorrentTypes
<1>6. Offered' = Offered
  BY <1>1 DEF Offered, ToSet
<1>7. \A o \in Ours : s = <<"answer", o>> => emitted[<<"answer", o>>] = 0 /\ o \in published /\ o \notin Offered
  BY <1>1 DEF TInv, Decoding
<1>8. OffersOnce'
  <2>1. \A o \in Ours : emitted'[<<"answer", o>>] # 0 => o \in published' /\ o \notin Offered'
    BY <1>1, <1>4, <1>6, <1>7, Sessions DEF TInv, OffersOnce
  <2> QED
    BY <1>1, <2>1 DEF TInv, OffersOnce
<1>9. Decoding'
  <2>1. \A i \in DOMAIN inbox' : stamp'[inbox'[i].signal] # Never /\ inbox'[i].step = "queued"
    BY <1>1, <1>3 DEF TInv, Decoding
  <2>2. inbox' # <<>> => 1 \in DOMAIN inbox'
    BY <1>3
  <2> QED
    BY <2>1, <2>2 DEF Decoding
<1>10. TrackerSockets'
  BY <1>1, TrackersStay DEF TInv
<1>11. CASE Torrent!InTime(s)
  <2>1. s \in {t \in Signals : stamp[t] # Torrent!Never /\ Torrent!InTime(t)}
    BY <1>2, <1>11, Sessions
  <2>2. s \in {"answer"} \X Ours => emitted[s] = 0
    BY <1>7
  <2>3. Torrent!Service!Deliver(s)
    BY <1>1, <1>11, <2>1, <2>2, <1>2 DEF Torrent!Service!Deliver, Signals, Torrent!InTime, Torrent!Stamp
  <2> QED
    BY <1>2, <1>5, <1>8, <1>9, <1>10, <2>3 DEF TGoal, TInv, Torrent!Service!Next, Signals
<1>12. CASE ~Torrent!InTime(s)
  <2>1. emitted' = emitted
    BY <1>1, <1>12
  <2> QED
    BY <1>1, <1>5, <1>8, <1>9, <1>10, <2>1, TorrentStutters DEF TGoal, TInv
<1> QED
  BY <1>11, <1>12

LEMMA NextTInv == TInv /\ [Torrent!Next]_trackerVars => TGoal
<1> SUFFICES ASSUME TInv, [Torrent!Next]_trackerVars PROVE TGoal
  OBVIOUS
<1>1. CASE UNCHANGED trackerVars
  <2>1. TorrentTypes' /\ Offered' = Offered /\ OffersOnce'
    BY <1>1 DEF trackerVars, TInv, TorrentTypes, Offered, ToSet, OffersOnce
  <2>2. Decoding'
    BY <1>1, <2>1, DecodingStays DEF trackerVars, TInv, TorrentTypes
  <2>3. TrackerSockets'
    BY <1>1, TrackersStay DEF trackerVars, TInv
  <2> QED
    BY <1>1, <2>1, <2>2, <2>3, TorrentStutters DEF trackerVars, TGoal, TInv
<1> QED
  BY <1>1, TrackerStep, PublishOfferStep, PublishByeStep, TorrentCloseStep, PeerSendsStep, TorrentArrivesStep,
     TorrentTickStep, ReadOfferStep, ReadAnswerStep, TorrentEmitStep DEF Torrent!Next, Signals

--------------------------------------------------------------------------------
LEMMA NInvariance == Spec => []NInv
  BY InitNInv, NextNInv, PTL DEF Spec

LEMMA TorrentSteps == [Torrent!Next]_(Torrent!vars) => [Torrent!Next]_trackerVars
  BY DEF Torrent!vars, Torrent!socketVars, Torrent!torrentVars, trackerVars

LEMMA TInvariance == Torrent!Spec => []TInv
  BY InitTInv, NextTInv, TorrentSteps, PTL DEF Torrent!Spec, TGoal

\* A relay that is open was given every event of the outbox, for any relays,
\* events and outbox size: what is published while a relay is down is replayed
\* when it opens (publish, onopen, #pruneOutbox).
THEOREM OutboxReachesRelays == Spec => []OpenRelayHasAll
<1>1. NInv => OpenRelayHasAll
  BY DEF NInv, Outbox
<1> QED
  BY <1>1, NInvariance, PTL

\* No relay and no tracker is forgotten or connected twice, and a closed
\* session has none (#connect, #scheduleReconnect and close of both sessions).
THEOREM NoRelayForgotten == Spec /\ Torrent!Spec => []RelaysKept
<1>1. NInv /\ TInv => RelaysKept
  BY DEF NInv, Relays, TInv, TrackerSockets, RelaysKept
<1> QED
  BY <1>1, NInvariance, TInvariance, PTL

\* For any sessions, trackers, clocks and limits a BitTorrent session hands
\* over only what was sent and is in time, and the answer to an offer at most
\* once (TorrentSignalingSession #receive, #offers).
THEOREM TorrentImplements == Torrent!Spec => TorrentImplementsSignaling
<1>1. Torrent!Init => Torrent!Service!Init
  BY DEF Torrent!Init, Torrent!Service!Init
<1> QED
  BY <1>1, InitTInv, NextTInv, TorrentSteps, PTL
  DEF Torrent!Spec, TGoal, TorrentImplementsSignaling, Torrent!ImplementsSignaling, Torrent!Service!Spec

\* Both sessions are well typed; the outbox keeps to its limit.
THEOREM SignalingTypesOK == Spec /\ Torrent!Spec => []TypesOK
<1>1. NInv => TypeOK
  <2> SUFFICES ASSUME NInv PROVE TypeOK
    OBVIOUS
  <2>1. Ids(outbox) \subseteq Own
    <3> SUFFICES ASSUME NEW i \in DOMAIN outbox PROVE outbox[i].event \in Own
      BY DEF Ids
    <3>1. outbox[i] \in Item
      BY DEF NInv, Outbox
    <3> QED
      BY <3>1 DEF Item
  <2>2. ASSUME NEW i \in DOMAIN chain
        PROVE  chain[i].event \in Events /\ chain[i].step \in {"queued", "verify", "decode"}
    <3>1. chain[i] \in Message
      BY DEF NInv, IInv, Types
    <3> QED
      BY <3>1 DEF Message
  <2> QED
    BY <2>1, <2>2 DEF NInv, Relays, Outbox, IInv, Types, TypeOK
<1>2. TInv => Torrent!TypeOK
  BY Sessions DEF TInv, TrackerSockets, TorrentTypes, Signals, Torrent!TypeOK, Torrent!ToSet
<1> QED
  BY <1>1, <1>2, NInvariance, TInvariance, PTL DEF TypesOK
=============================================================================
