---------------------------- MODULE SessionsProofs ----------------------------
(***************************************************************************)
(* What carries the bytes of a session, for all values of the constants:   *)
(* the terminal sender for every pair of marks and every set of chunk      *)
(* sizes, the local forward for any set of sockets, the terminal session   *)
(* for every window, the pumps of a bridge or a command, and the readers   *)
(* of a handshake, a SOCKS request and frames for every wire and its cuts. *)
(***************************************************************************)
EXTENDS MCSessions, SumsProofs, SequenceTheorems, TLAPS

--------------------------------------------------------------------------------
(* createStreamSender *)

\* The chained chunks tile the submitted bytes from the oldest one to the end,
\* and the byte count is what they cover.
Tiling ==
    /\ pending = <<>> => queuedBytes = 0
    /\ pending # <<>> =>
          /\ queuedBytes = submitted - pending[1].from
          /\ pending[Len(pending)].to = submitted
    /\ \A i \in 1 .. Len(pending) : pending[i].from <= pending[i].to
                                     /\ pending[i].to <= submitted
    /\ \A i \in 1 .. Len(pending) - 1 : pending[i].to = pending[i + 1].from

\* What was handed to the stream ends where the oldest chunk begins, or, while
\* that chunk is running, where it ends; only a failure breaks the tie.
HandOver ==
    /\ running => pending # <<>>
    /\ (pending = <<>> /\ ~firstError) => handed = submitted
    /\ (pending # <<>> /\ ~running /\ ~firstError) => handed = pending[1].from
    /\ (running /\ ~firstError) => handed = pending[1].to

\* Operations run only while nothing has failed.
RunsUnfailed == running => ~firstError

IInv ==
    /\ TypeOK
    /\ Tiling
    /\ HandOver
    /\ RunsUnfailed
    /\ WatermarkAgreement
    /\ HonoursPause => QueueBounded

\* The initial state satisfies the invariant.
LEMMA InitIInv == Init => IInv
<1> SUFFICES ASSUME Init PROVE IInv
  OBVIOUS
<1>1. TypeOK
  <2>1. <<>> \in Seq(Chunk)
    OBVIOUS
  <2>2. pending \in Seq(Chunk)
    BY <2>1 DEF Init
  <2>3. queuedBytes \in Nat /\ submitted \in Nat /\ handed \in Nat
    BY DEF Init
  <2>4. running \in BOOLEAN /\ paused \in BOOLEAN /\ firstError \in BOOLEAN
        /\ writable \in BOOLEAN
    BY DEF Init
  <2> QED
    BY <2>2, <2>3, <2>4 DEF TypeOK
<1>2. Tiling /\ HandOver /\ RunsUnfailed
  BY DEF Init, Tiling, HandOver, RunsUnfailed
<1>3. WatermarkAgreement /\ QueueBounded
  BY SenderAssumption, SizesAssumption DEF Init, WatermarkAgreement, QueueBounded
<1> QED
  BY <1>1, <1>2, <1>3 DEF IInv

\* updateFlowControl leaves the flow state in agreement with the count.
LEMMA FlowControl ==
    ASSUME NEW q \in Int, paused \in BOOLEAN, paused' = PausedAfter(q)
    PROVE  paused' \in BOOLEAN /\ (paused' => q > Low) /\ (~paused' => q < High)
<1>1. CASE paused /\ q > Low
  <2>1. paused' = TRUE
    BY <1>1 DEF PausedAfter
  <2> QED
    BY <1>1, <2>1
<1>2. CASE paused /\ ~(q > Low)
  <2>1. PausedAfter(q) = (q > Low)
    BY <1>2 DEF PausedAfter
  <2>3. (q > Low) = FALSE
    BY <1>2
  <2>4. paused' = FALSE
    BY <2>1, <2>3
  <2>2. q < High
    BY <1>2, SenderAssumption
  <2> QED
    BY <2>2, <2>4
<1>3. CASE ~paused /\ q >= High
  <2>1. paused' = TRUE
    BY <1>3 DEF PausedAfter
  <2>2. q > Low
    BY <1>3, SenderAssumption
  <2> QED
    BY <2>1, <2>2
<1>4. CASE ~paused /\ ~(q >= High)
  <2>1. paused' = FALSE
    BY <1>4 DEF PausedAfter
  <2>2. q < High
    BY <1>4, SenderAssumption
  <2> QED
    BY <2>1, <2>2
<1> QED
  BY <1>1, <1>2, <1>3, <1>4

\* Only the empty sequence has length 0.
LEMMA EmptyIff ==
    ASSUME NEW S, NEW s \in Seq(S)
    PROVE  s = <<>> <=> Len(s) = 0
  OBVIOUS

\* send(): the new chunk extends the tiling and the flow state is updated with
\* the new count.
LEMMA SendIInv ==
    ASSUME IInv, NEW n \in Sizes, Send(n)
    PROVE  IInv'
<1> DEFINE new == [from |-> submitted, to |-> submitted + n]
<1>1. n \in Nat /\ n <= MaxChunk
  BY SizesAssumption
<1>2. new \in Chunk
  BY <1>1 DEF IInv, TypeOK, Chunk
<1>3. pending \in Seq(Chunk) /\ pending' = Append(pending, new)
  BY DEF IInv, TypeOK, Send
<1>4. /\ Len(pending') = Len(pending) + 1
      /\ \A i \in 1 .. Len(pending) : pending'[i] = pending[i]
      /\ pending'[Len(pending')] = new
      /\ pending' # <<>>
  BY <1>2, <1>3
<1>a. /\ queuedBytes + n \in Nat /\ submitted + n \in Nat
      /\ queuedBytes' = queuedBytes + n /\ submitted' = submitted + n
      /\ paused' = PausedAfter(queuedBytes + n) /\ paused \in BOOLEAN
  BY <1>1 DEF IInv, TypeOK, Send
<1>b. paused' \in BOOLEAN /\ (paused' => queuedBytes' > Low) /\ (~paused' => queuedBytes' < High)
  BY <1>a, FlowControl
<1>5. TypeOK'
  BY <1>2, <1>3, <1>a, <1>b DEF IInv, TypeOK, Send
<1>c. Len(pending) \in Nat /\ (pending = <<>> <=> Len(pending) = 0)
  BY <1>3
<1>d. pending # <<>> => pending'[1] = pending[1]
  BY <1>4, <1>c
<1>e. pending = <<>> => pending'[1] = new
  BY <1>4, <1>c
<1>f. \A i \in 1 .. Len(pending) : pending[i] \in Chunk
  BY <1>3
<1>6. Tiling'
  <2>1. queuedBytes' = submitted' - pending'[1].from
    <3>1. CASE pending = <<>>
      BY <1>1, <1>a, <1>e, <3>1 DEF IInv, TypeOK, Tiling
    <3>2. CASE pending # <<>>
      <4>1. pending[1].from \in Nat
        <5>1. 1 \in 1 .. Len(pending)
          BY <1>c, <3>2
        <5> QED
          BY <1>f, <5>1 DEF Chunk
      <4>2. queuedBytes = submitted - pending[1].from
        BY <3>2 DEF IInv, Tiling
      <4>3. submitted \in Nat
        BY DEF IInv, TypeOK
      <4> QED
        BY <1>1, <1>a, <1>d, <3>2, <4>1, <4>2, <4>3
    <3> QED
      BY <3>1, <3>2
  <2>2. pending'[Len(pending')].to = submitted'
    BY <1>4, <1>a
  <2>3. ASSUME NEW i \in 1 .. Len(pending')
        PROVE  pending'[i].from <= pending'[i].to /\ pending'[i].to <= submitted'
    <3>1. CASE i = Len(pending')
      BY <1>1, <1>4, <1>a, <3>1 DEF IInv, TypeOK
    <3>2. CASE i # Len(pending')
      <4>1. i \in 1 .. Len(pending)
        BY <1>4, <1>c, <3>2
      <4>2. pending[i].from <= pending[i].to /\ pending[i].to <= submitted
        BY <4>1 DEF IInv, Tiling
      <4>3. pending[i].to \in Nat
        BY <1>f, <4>1 DEF Chunk
      <4> QED
        BY <1>1, <1>4, <1>a, <4>1, <4>2, <4>3 DEF IInv, TypeOK
    <3> QED
      BY <3>1, <3>2
  <2>4. ASSUME NEW i \in 1 .. Len(pending') - 1
        PROVE  pending'[i].to = pending'[i + 1].from
    <3>1. i \in 1 .. Len(pending)
      BY <1>4, <1>c
    <3>2. CASE i = Len(pending)
      BY <1>4, <1>c, <3>1, <3>2 DEF IInv, Tiling
    <3>3. CASE i # Len(pending)
      <4>1. i \in 1 .. Len(pending) - 1 /\ i + 1 \in 1 .. Len(pending)
        BY <1>c, <3>1, <3>3
      <4> QED
        BY <1>4, <4>1 DEF IInv, Tiling
    <3> QED
      BY <3>2, <3>3
  <2> QED
    BY <1>4, <2>1, <2>2, <2>3, <2>4 DEF Tiling
<1>7. HandOver'
  <2>1. running' = running /\ firstError' = firstError /\ handed' = handed /\ ~firstError
    BY DEF Send
  <2>2. CASE pending = <<>>
    BY <1>4, <1>e, <2>1, <2>2 DEF IInv, HandOver
  <2>3. CASE pending # <<>>
    BY <1>4, <1>d, <2>1, <2>3 DEF IInv, HandOver
  <2> QED
    BY <2>2, <2>3
<1>8. RunsUnfailed' /\ WatermarkAgreement'
  BY <1>b DEF IInv, RunsUnfailed, WatermarkAgreement, Send
<1>9. HonoursPause => QueueBounded'
  BY <1>1, SenderAssumption, SizesAssumption
  DEF IInv, TypeOK, WatermarkAgreement, QueueBounded, Send
<1> QED
  BY <1>5, <1>6, <1>7, <1>8, <1>9 DEF IInv

\* An operation starts: only what is handed over changes.
LEMMA StartIInv ==
    ASSUME IInv, Start
    PROVE  IInv'
<1>1. pending \in Seq(Chunk) /\ pending # <<>> /\ Head(pending) = pending[1]
  BY DEF IInv, TypeOK, Start
<1>2. pending[1] \in Chunk
  BY <1>1
<1> QED
  BY <1>1, <1>2
  DEF IInv, TypeOK, Tiling, HandOver, RunsUnfailed, WatermarkAgreement,
      QueueBounded, Start, MayRun, Chunk

\* An operation ends: its chunk leaves the tiling at the front and its bytes
\* leave the count.
LEMMA SettleIInv ==
    ASSUME IInv, pending # <<>>, NEW ok \in BOOLEAN, ok => running, Settle(ok)
    PROVE  IInv'
<1> DEFINE size == Size(pending[1])
<1>1. /\ pending \in Seq(Chunk) /\ Head(pending) = pending[1]
      /\ pending' = Tail(pending)
      /\ pending[1] \in Chunk
  BY DEF IInv, TypeOK, Settle
<1>2. /\ Len(pending') = Len(pending) - 1
      /\ \A i \in 1 .. Len(pending) - 1 : pending'[i] = pending[i + 1]
      /\ pending' \in Seq(Chunk)
      /\ pending' = <<>> <=> Len(pending) = 1
  <2>1. Len(pending) \in Nat /\ Len(pending) >= 1
    BY <1>1
  <2>2. pending' \in Seq(Chunk) /\ Len(pending') = Len(pending) - 1
    BY <1>1
  <2>3. \A i \in 1 .. Len(pending) - 1 : pending'[i] = pending[i + 1]
    BY <1>1
  <2>4. pending' = <<>> <=> Len(pending') = 0
    BY <2>2, EmptyIff
  <2> QED
    BY <2>1, <2>2, <2>3, <2>4
<1>3. pending' # <<>> => pending'[1] = pending[2] /\ pending[2].from = pending[1].to
  <2> SUFFICES ASSUME pending' # <<>>
               PROVE  pending'[1] = pending[2] /\ pending[2].from = pending[1].to
    OBVIOUS
  <2>1. Len(pending) \in Nat /\ Len(pending) >= 2
    BY <1>1, <1>2
  <2>2. 1 \in 1 .. Len(pending) - 1
    BY <2>1
  <2> QED
    BY <1>2, <2>2 DEF IInv, Tiling
<1>4. /\ size \in Nat /\ size <= queuedBytes
      /\ queuedBytes' = queuedBytes - size
      /\ paused' = PausedAfter(queuedBytes')
  <2>1. 1 \in 1 .. Len(pending)
    BY <1>1
  <2>2. pending[1].from <= pending[1].to /\ pending[1].to <= submitted
    BY <2>1 DEF IInv, Tiling
  <2> QED
    BY <1>1, <2>2, SMTT(30) DEF IInv, TypeOK, Tiling, Settle, BytesReleased, Size, Chunk
<1>a. paused \in BOOLEAN /\ queuedBytes' \in Nat
  BY <1>4 DEF IInv, TypeOK
<1>b. paused' \in BOOLEAN /\ (paused' => queuedBytes' > Low) /\ (~paused' => queuedBytes' < High)
  BY <1>4, <1>a, FlowControl
<1>5. TypeOK'
  BY <1>2, <1>a, <1>b DEF IInv, TypeOK, Settle
<1>6. Tiling'
  <2>1. pending' = <<>> => queuedBytes' = 0
    <3> SUFFICES ASSUME pending' = <<>> PROVE queuedBytes' = 0
      OBVIOUS
    <3>1. Len(pending) = 1
      BY <1>2
    <3> QED
      BY <1>1, <1>4, <3>1 DEF IInv, TypeOK, Tiling, Size, Chunk
  <2>2. pending' # <<>> => /\ queuedBytes' = submitted' - pending'[1].from
                           /\ pending'[Len(pending')].to = submitted'
    <3> SUFFICES ASSUME pending' # <<>>
                 PROVE  /\ queuedBytes' = submitted' - pending'[1].from
                        /\ pending'[Len(pending')].to = submitted'
      OBVIOUS
    <3>1. submitted' = submitted
      BY DEF Settle
    <3>2. queuedBytes' = submitted - pending[2].from
      <4>1. pending[1].from \in Nat /\ pending[1].to \in Nat /\ submitted \in Nat
        BY <1>1 DEF IInv, TypeOK, Chunk
      <4>2. queuedBytes = submitted - pending[1].from
        BY <1>1 DEF IInv, Tiling
      <4>3. queuedBytes' = submitted - pending[1].to
        BY <1>4, <4>1, <4>2, SMTT(30) DEF Size
      <4> QED
        BY <1>3, <4>3
    <3>3. pending'[Len(pending')] = pending[Len(pending)]
      BY <1>1, <1>2
    <3> QED
      BY <1>3, <3>1, <3>2, <3>3 DEF IInv, Tiling
  <2>3. \A i \in 1 .. Len(pending') : pending'[i].from <= pending'[i].to
                                      /\ pending'[i].to <= submitted'
    BY <1>1, <1>2 DEF IInv, Tiling, Settle
  <2>4. \A i \in 1 .. Len(pending') - 1 : pending'[i].to = pending'[i + 1].from
    <3> SUFFICES ASSUME NEW i \in 1 .. Len(pending') - 1
                 PROVE  pending'[i].to = pending'[i + 1].from
      OBVIOUS
    <3>1. i + 1 \in 1 .. Len(pending) - 1 /\ i \in 1 .. Len(pending) - 1
      BY <1>1, <1>2
    <3> QED
      BY <1>2, <3>1 DEF IInv, Tiling
  <2> QED
    BY <2>1, <2>2, <2>3, <2>4 DEF Tiling
<1>7. HandOver'
  <2>1. running' = FALSE /\ handed' = handed /\ submitted' = submitted
        /\ firstError' = (firstError \/ ~ok)
    BY DEF Settle
  <2>2. CASE firstError'
    BY <2>1, <2>2 DEF HandOver
  <2>3. CASE ~firstError'
    <3>1. ok /\ running /\ handed = pending[1].to
      BY <2>1, <2>3 DEF IInv, HandOver
    <3>2. pending' = <<>> => handed' = submitted'
      BY <1>1, <1>2, <2>1, <3>1 DEF IInv, Tiling
    <3> QED
      BY <1>3, <2>1, <3>1, <3>2 DEF HandOver
  <2> QED
    BY <2>2, <2>3
<1>8. RunsUnfailed' /\ WatermarkAgreement'
  BY <1>b DEF RunsUnfailed, WatermarkAgreement, Settle
<1>9. HonoursPause => QueueBounded'
  BY <1>4, SenderAssumption, SizesAssumption DEF IInv, TypeOK, QueueBounded
<1> QED
  BY <1>5, <1>6, <1>7, <1>8, <1>9 DEF IInv

\* Every step preserves the invariant.
LEMMA StepIInv == IInv /\ [Next]_vars => IInv'
<1> SUFFICES ASSUME IInv, [Next]_vars PROVE IInv'
  OBVIOUS
<1>1. ASSUME NEW n \in Sizes, Send(n) PROVE IInv'
  BY <1>1, SendIInv
<1>2. CASE Start
  BY <1>2, StartIInv
<1>3. CASE Refuse
  BY <1>3, SettleIInv DEF Refuse
<1>4. CASE SendThrows
  BY <1>4, SettleIInv DEF SendThrows
<1>5. CASE Drained
  BY <1>5, SettleIInv DEF Drained, IInv, HandOver
<1>6. CASE DrainFails
  BY <1>6, SettleIInv DEF DrainFails, IInv, HandOver
<1>7. CASE StreamCloses
  BY <1>7 DEF StreamCloses, IInv, TypeOK, Tiling, HandOver, RunsUnfailed,
              WatermarkAgreement, QueueBounded
<1>8. CASE UNCHANGED vars
  BY <1>8 DEF vars, IInv, TypeOK, Tiling, HandOver, RunsUnfailed,
              WatermarkAgreement, QueueBounded
<1> QED
  BY <1>1, <1>2, <1>3, <1>4, <1>5, <1>6, <1>7, <1>8 DEF Next

\* The invariant holds in every reachable state.
THEOREM Invariance == Spec => []IInv
<1>1. Init => IInv
  BY InitIInv
<1>2. IInv /\ [Next]_vars => IInv'
  BY StepIInv
<1> QED
  BY <1>1, <1>2, PTL DEF Spec

\* Type correctness of the sender's state.
THEOREM TypeCorrect == Spec => []TypeOK
<1>1. IInv => TypeOK
  BY DEF IInv
<1> QED
  BY <1>1, Invariance, PTL

\* A paused producer has more than Low queued and a running one less than
\* High, for every pair of marks.
THEOREM Watermarks == Spec => []WatermarkAgreement
<1>1. IInv => WatermarkAgreement
  BY DEF IInv
<1> QED
  BY <1>1, Invariance, PTL

\* The count is exact: it is what the chained chunks cover.
THEOREM Accounting == Spec => []QueueAccounting
<1>1. IInv => QueueAccounting
  BY DEF IInv, TypeOK, Tiling, QueueAccounting
<1> QED
  BY <1>1, Invariance, PTL

\* A producer that honours onPause never has High + MaxChunk bytes queued.
THEOREM Bounded == ASSUME HonoursPause PROVE Spec => []QueueBounded
<1>1. IInv => QueueBounded
  BY DEF IInv
<1> QED
  BY <1>1, Invariance, PTL

\* The stream receives the submitted bytes without a gap.
THEOREM Gapless == Spec => NoGap
<1>1. IInv /\ [Next]_vars => [handed' # handed => handed = Head(pending).from]_vars
  <2> SUFFICES ASSUME IInv, Next, handed' # handed
               PROVE  handed = Head(pending).from
    BY DEF vars
  <2>1. Start
    BY DEF Next, Send, Refuse, SendThrows, Drained, DrainFails, Settle, StreamCloses
  <2> QED
    BY <2>1 DEF IInv, TypeOK, HandOver, Start, MayRun
<1> QED
  BY <1>1, Invariance, PTL DEF Spec, NoGap

--------------------------------------------------------------------------------
(* startLocalForward *)

\* A session is known to close() and watches its socket as long as it bridges,
\* a socket that was not yet accepted has none, and close() completes only
\* when none is left.
Watched ==
  \A s \in Sockets :
    /\ socket[s] = "new" => session[s] = "none"
    /\ session[s] = "bridging" => s \in known /\ s \in watching
    /\ stream[s] = "open" => session[s] = "bridging" /\ socket[s] # "gone"
    /\ listener = "closed" => session[s] \in {"none", "done"}

ForwardInv == ForwardTypeOK /\ Watched

--------------------------------------------------------------------------------
LEMMA InitForward == ForwardInit => ForwardInv
  BY DEF ForwardInit, ForwardInv, ForwardTypeOK, Watched

LEMMA ForwardInvLeavesNone == ForwardInv => NoOpenStreamLeft
  BY DEF ForwardInv, ForwardTypeOK, Watched, NoOpenStreamLeft

\* What the steps of a single socket preserve.
LEMMA SocketStep ==
  ASSUME ForwardInv, NEW s \in Sockets,
         \/ Accept(s) \/ StreamOpens(s) \/ OpenFails(s) \/ SocketFails(s)
         \/ SocketCloses(s) \/ RemoteCloses(s) \/ BridgeEnds(s)
  PROVE  ForwardInv'
<1> USE DEF ForwardInv, ForwardTypeOK, Watched
<1>1. CASE Accept(s)
  BY <1>1 DEF Accept
<1>2. CASE StreamOpens(s)
  BY <1>2 DEF StreamOpens, GoneMeanwhile
<1>3. CASE OpenFails(s)
  BY <1>3 DEF OpenFails, Destroyed
<1>4. CASE SocketFails(s)
  BY <1>4 DEF SocketFails
<1>5. CASE SocketCloses(s)
  BY <1>5 DEF SocketCloses
<1>6. CASE RemoteCloses(s)
  BY <1>6 DEF RemoteCloses
<1>7. CASE BridgeEnds(s)
  BY <1>7 DEF BridgeEnds, Destroyed
<1> QED
  BY <1>1, <1>2, <1>3, <1>4, <1>5, <1>6, <1>7

LEMMA CloseStep ==
  ASSUME ForwardInv, CloseBegins \/ CloseEnds
  PROVE  ForwardInv'
<1> USE DEF ForwardInv, ForwardTypeOK, Watched
<1>1. CASE CloseBegins
  BY <1>1 DEF CloseBegins, Destroyed
<1>2. CASE CloseEnds
  BY <1>2 DEF CloseEnds
<1> QED
  BY <1>1, <1>2

LEMMA StepForward == ForwardInv /\ [ForwardNext]_forwardVars => ForwardInv'
<1> SUFFICES ASSUME ForwardInv, [ForwardNext]_forwardVars PROVE ForwardInv'
  OBVIOUS
<1>1. CASE ForwardNext
  BY <1>1, SocketStep, CloseStep DEF ForwardNext
<1>2. CASE UNCHANGED forwardVars
  BY <1>2 DEF forwardVars, ForwardInv, ForwardTypeOK, Watched
<1> QED
  BY <1>1, <1>2

--------------------------------------------------------------------------------
\* The state of a forward is well typed in every reachable state (the shape of
\* the sockets, streams and sessions that startLocalForward keeps).
THEOREM ForwardTypeCorrect == ForwardSpec => []ForwardTypeOK
<1>1. ForwardInv => ForwardTypeOK
  BY DEF ForwardInv
<1> QED
  BY InitForward, StepForward, <1>1, PTL DEF ForwardSpec

\* For any number of sockets: when close() has completed no stream is open,
\* also none whose opening was pending when it began, and no stream outlives
\* its bridge (startLocalForward).
THEOREM ForwardLeavesNothing == ForwardSpec => []NoOpenStreamLeft
  BY InitForward, StepForward, ForwardInvLeavesNone, PTL DEF ForwardSpec

--------------------------------------------------------------------------------
(* interactiveClientSession and ptyServerSession *)

PtyTypes ==
  /\ {printed, sending, toClient, shown, typed, clientSending, toServer, written} \subseteq Nat
  /\ failed \in BOOLEAN /\ broken \in BOOLEAN
  /\ shell \in {"running", "killed", "exited"}
  /\ {serverOut, clientOut} \subseteq {"writable", "closed"}
  /\ task \in {"reading", "ended", "failed"}
  /\ server \in {"race", "awaitExit", "drain", "awaitTask", "done", "threw"}
  /\ source \in {"none", "remote", "pty"}
  /\ client \in {"reading", "quitting", "done"}

\* The server drains only behind the exit of the shell, and closes its side
\* only when nothing is left in the sender.
ClosedBehindTheShell ==
  /\ server \in {"race", "awaitExit", "drain"} => serverOut = "writable"
  /\ server \in {"drain", "awaitTask", "done"} => shell = "exited"
  /\ serverOut = "closed" => shell = "exited" /\ sending = 0

\* While the stream holds, each chunk of output is in one of three places, and
\* the client ends only behind the close of the server.
OutputConserved ==
  ~broken =>
    /\ ~failed /\ printed = sending + toClient + shown
    /\ client = "done" => serverOut = "closed" /\ toClient = 0

\* Until the server closes its side, so is each chunk of input, and only a user
\* who quits, with nothing left to send, has closed the client's side.
InputConserved ==
  /\ clientOut = "closed" => client # "reading"
  /\ ~broken /\ serverOut = "writable" =>
       /\ typed = clientSending + toServer + written
       /\ clientOut = "closed" => client = "quitting" /\ clientSending = 0

\* The server sees the end of the input behind all of it.
EndSeenLast ==
  /\ source = "remote" => task = "ended"
  /\ ~broken /\ task = "ended" =>
       clientOut = "closed" /\ (serverOut = "writable" => toServer = 0)
  /\ ~broken /\ source = "remote" => written = typed

PtyInv == PtyTypes /\ ClosedBehindTheShell /\ OutputConserved /\ InputConserved /\ EndSeenLast

LEMMA InitPty == P!Init => PtyInv
<1> SUFFICES ASSUME P!Init PROVE PtyInv
  OBVIOUS
<1>1. failed \in BOOLEAN /\ broken \in BOOLEAN
  BY DEF P!Init
<1>2. PtyTypes
  BY <1>1 DEF P!Init, PtyTypes
<1>3. ClosedBehindTheShell /\ InputConserved /\ EndSeenLast
  BY DEF P!Init, ClosedBehindTheShell, InputConserved, EndSeenLast
<1>4. ~failed
  BY DEF P!Init
<1>5. OutputConserved
  BY <1>4 DEF P!Init, OutputConserved
<1> QED
  BY <1>2, <1>3, <1>5 DEF PtyInv

\* The shell and the server's sender.
LEMMA PtyOutputStep ==
  ASSUME PtyInv,
         P!ShellPrints \/ P!SenderSends \/ P!ShellExits
  PROVE  PtyInv'
<1> USE DEF PtyInv, PtyTypes, ClosedBehindTheShell, OutputConserved, InputConserved, EndSeenLast,
           P!output, P!input, P!control
<1>1. CASE P!ShellPrints
  BY <1>1 DEF P!ShellPrints, P!Over
<1>2. CASE P!SenderSends
  <2>1. failed' \in BOOLEAN
    BY <1>2 DEF P!SenderSends
  <2>2. CASE failed'
    <3>4. sending > 0 /\ sending' = sending - 1 /\ broken' = broken
      BY <1>2 DEF P!SenderSends
    <3>5. broken \/ failed \/ serverOut = "closed"
      BY <1>2, <2>2 DEF P!SenderSends
    <3>6. serverOut # "closed"
      BY <3>4
    <3>1. broken /\ broken' /\ sending > 0 /\ sending' = sending - 1
      BY <3>4, <3>5, <3>6
    <3>2. toClient' \in Nat
      BY <1>2 DEF P!SenderSends
    <3>3. UNCHANGED <<shell, printed, shown, P!input, P!control>>
      BY <1>2 DEF P!SenderSends
    <3> QED
      BY <2>1, <3>1, <3>2, <3>3
  <2>3. CASE ~failed'
    BY <1>2, <2>3 DEF P!SenderSends
  <2> QED
    BY <2>1, <2>2, <2>3
<1>3. CASE P!ShellExits
  BY <1>3 DEF P!ShellExits
<1> QED
  BY <1>1, <1>2, <1>3

\* The server's reader and the steps of ptyServerSession.
LEMMA PtyServerStep ==
  ASSUME PtyInv,
         P!ServerReads \/ P!RemoteEnds \/ P!RemoteFails \/ P!PtyEnds \/ P!Drains \/ P!TaskSettles
  PROVE  PtyInv'
<1> USE DEF PtyInv, PtyTypes, ClosedBehindTheShell, OutputConserved, InputConserved, EndSeenLast,
           P!output, P!input, P!control
<1>1. CASE P!ServerReads
  BY <1>1 DEF P!ServerReads
<1>2. CASE P!RemoteEnds
  BY <1>2 DEF P!RemoteEnds, P!Kills
<1>3. CASE P!RemoteFails
  BY <1>3 DEF P!RemoteFails, P!Kills
<1>4. CASE P!PtyEnds
  BY <1>4 DEF P!PtyEnds
<1>5. CASE P!Drains
  BY <1>5 DEF P!Drains, P!Drained, P!Kills
<1>6. CASE P!TaskSettles
  BY <1>6 DEF P!TaskSettles, P!Kills
<1> QED
  BY <1>1, <1>2, <1>3, <1>4, <1>5, <1>6

\* The user, the client, and the loss of the stream.
LEMMA PtyClientStep ==
  ASSUME PtyInv,
         P!Types \/ P!Quits \/ P!ClientSends \/ P!ClientCloses \/ P!ClientReads \/ P!Breaks
  PROVE  PtyInv'
<1> USE DEF PtyInv, PtyTypes, ClosedBehindTheShell, OutputConserved, InputConserved, EndSeenLast,
           P!output, P!input, P!control
<1>1. CASE P!Types
  BY <1>1 DEF P!Types
<1>2. CASE P!Quits
  BY <1>2 DEF P!Quits
<1>3. CASE P!ClientSends
  BY <1>3 DEF P!ClientSends
<1>4. CASE P!ClientCloses
  BY <1>4 DEF P!ClientCloses
<1>5. CASE P!ClientReads
  BY <1>5 DEF P!ClientReads, P!OutAtEnd
<1>6. CASE P!Breaks
  BY <1>6 DEF P!Breaks
<1> QED
  BY <1>1, <1>2, <1>3, <1>4, <1>5, <1>6

LEMMA StepPty == PtyInv /\ [P!Next]_P!vars => PtyInv'
<1> SUFFICES ASSUME PtyInv, [P!Next]_P!vars PROVE PtyInv'
  OBVIOUS
<1>1. CASE P!Next
  BY <1>1, PtyOutputStep, PtyServerStep, PtyClientStep DEF P!Next
<1>2. CASE UNCHANGED P!vars
  BY <1>2 DEF P!vars, P!output, P!input, P!control, PtyInv, PtyTypes, ClosedBehindTheShell,
              OutputConserved, InputConserved, EndSeenLast
<1> QED
  BY <1>1, <1>2

\* Nothing of the output or the input is cut off when a session ends.
LEMMA PtyInvCutsNothing == PtyInv => P!NothingCutOff
  BY DEF PtyInv, PtyTypes, ClosedBehindTheShell, OutputConserved, EndSeenLast,
     P!NothingCutOff

--------------------------------------------------------------------------------
(* bridgeSession and execSession *)

PumpTypes ==
  /\ {produced, sent, toOutput} \subseteq Nat
  /\ inputEnded \in BOOLEAN /\ remoteEnded \in BOOLEAN /\ aborted \in BOOLEAN
  /\ {outgoing, incoming} \subseteq {"pumping", "ended", "rejected"}
  /\ bridge \in {"pumping", "settling", "done", "threw"}

\* A pump rejects only with its stream, ends well only behind the last chunk of
\* its source, and the session is over behind both pumps.
PumpsEndLast ==
  /\ "rejected" \in {outgoing, incoming} => aborted
  /\ ~aborted /\ outgoing = "ended" => sent = produced /\ inputEnded
  /\ ~aborted /\ incoming = "ended" => toOutput = 0 /\ remoteEnded
  /\ bridge = "done" => "pumping" \notin {outgoing, incoming}

BridgeInv == PumpTypes /\ PumpsEndLast

LEMMA InitBridge == BridgeInit => BridgeInv
<1> SUFFICES ASSUME BridgeInit PROVE BridgeInv
  OBVIOUS
<1>1. {inputEnded, remoteEnded, aborted} \subseteq BOOLEAN
  BY DEF BridgeInit
<1>2. PumpTypes
  BY <1>1 DEF BridgeInit, PumpTypes
<1>3. PumpsEndLast
  BY DEF BridgeInit, PumpsEndLast
<1> QED
  BY <1>2, <1>3 DEF BridgeInv

LEMMA StepBridge == BridgeInv /\ [BridgeNext]_bridgeVars => BridgeInv'
<1> SUFFICES ASSUME BridgeInv, [BridgeNext]_bridgeVars PROVE BridgeInv'
  OBVIOUS
<1> USE DEF BridgeInv, PumpTypes, PumpsEndLast, pumpVars
<1>1. CASE InputYields
  BY <1>1 DEF InputYields
<1>2. CASE InputEnds
  BY <1>2 DEF InputEnds
<1>3. CASE RemoteSends
  <2>1. CASE remoteEnded'
    BY <1>3, <2>1 DEF RemoteSends
  <2>2. remoteEnded' \in BOOLEAN
    BY <1>3 DEF RemoteSends
  <2>3. CASE ~remoteEnded'
    BY <1>3, <2>3 DEF RemoteSends
  <2> QED
    BY <2>1, <2>2, <2>3
<1>4. CASE Aborts
  BY <1>4 DEF Aborts
<1>5. CASE Sends
  BY <1>5 DEF Sends
<1>6. CASE InputFails
  BY <1>6 DEF InputFails
<1>7. CASE Receives
  BY <1>7 DEF Receives
<1>8. CASE ChildExits
  BY <1>8 DEF ChildExits
<1>9. CASE ExitSeen
  BY <1>9 DEF ExitSeen
<1>10. CASE SessionSettles
  BY <1>10 DEF SessionSettles, BothOver
<1>11. CASE UNCHANGED bridgeVars
  BY <1>11 DEF bridgeVars
<1> QED
  BY <1>1, <1>2, <1>3, <1>4, <1>5, <1>6, <1>7, <1>8, <1>9, <1>10, <1>11 DEF BridgeNext

LEMMA BridgeInvCompletes == BridgeInv => BothDirectionsComplete
  BY DEF BridgeInv, PumpTypes, PumpsEndLast, BothDirectionsComplete

--------------------------------------------------------------------------------
\* For every window: a client of a terminal session whose stream holds is done
\* only when it has shown all that the shell printed, and a user's quit ends
\* the session only behind all that was typed (drain before close on both
\* sides of pty.js); a bridge or a command that ended well has carried both
\* directions to their end (session.js).
THEOREM NothingIsCutOff == P!Spec /\ BridgeSpec => []NothingCutOff
<1>1. P!Spec => []P!NothingCutOff
  BY InitPty, StepPty, PtyInvCutsNothing, PTL DEF P!Spec
<1>2. BridgeSpec => []BothDirectionsComplete
  BY InitBridge, StepBridge, BridgeInvCompletes, PTL DEF BridgeSpec
<1>3. P!NothingCutOff /\ BothDirectionsComplete => NothingCutOff
  BY DEF NothingCutOff
<1> QED
  BY <1>1, <1>2, <1>3, PTL
--------------------------------------------------------------------------------
(* consumePrefix, the SOCKS negotiation and PtyFrameDecoder                    *)

\* Concatenation of bytes.
LEMMA Assoc ==
  ASSUME NEW s \in Seq(Nat), NEW t \in Seq(Nat), NEW u \in Seq(Nat)
  PROVE  (s \o t) \o u = s \o (t \o u)
<1>1. \A x, y, z \in Seq(Nat) : (x \o y) \o z = x \o (y \o z)
  <2> SUFFICES ASSUME NEW x \in Seq(Nat), NEW y \in Seq(Nat), NEW z \in Seq(Nat)
               PROVE  (x \o y) \o z = x \o (y \o z)
    OBVIOUS
  <2> QED
    BY ONLY ConcatAssociative, SMTT(30)
<1> QED
  BY ONLY <1>1, s \in Seq(Nat), t \in Seq(Nat), u \in Seq(Nat)

LEMMA Cat ==
  ASSUME NEW s \in Seq(Nat), NEW t \in Seq(Nat)
  PROVE  /\ s \o t \in Seq(Nat) /\ Len(s \o t) = Len(s) + Len(t)
         /\ \A i \in 1 .. Len(s) + Len(t) :
               (s \o t)[i] = IF i <= Len(s) THEN s[i] ELSE t[i - Len(s)]
         /\ s \o <<>> = s /\ <<>> \o s = s
<1>1. s \o <<>> = s /\ <<>> \o s = s
  BY ConcatEmptySeq
<1> QED
  BY <1>1, ConcatProperties

\* A stretch of bytes that lies whole in the buffer is taken off its front.
LEMMA TakeFront ==
  ASSUME NEW b \in Seq(Nat), NEW h \in Seq(Nat), NEW a \in Seq(Nat), NEW r \in Seq(Nat),
         b \o h = a \o r, Len(a) <= Len(b)
  PROVE  /\ SubSeq(b, 1, Len(a)) = a
         /\ SubSeq(b, Len(a) + 1, Len(b)) \in Seq(Nat)
         /\ SubSeq(b, Len(a) + 1, Len(b)) \o h = r
<1> DEFINE n == Len(a)
           f == SubSeq(b, 1, n)
           c == SubSeq(b, n + 1, Len(b))
<1>1. n \in Nat /\ Len(b) \in Nat /\ n <= Len(b)
  OBVIOUS
<1>2. f \in Seq(Nat) /\ Len(f) = n /\ c \in Seq(Nat)
  <2>1. \A i \in 1 .. Len(b) : b[i] \in Nat
    BY ElementOfSeq
  <2>2. /\ f \in Seq(Nat)
        /\ Len(f) = IF 1 <= n THEN n - 1 + 1 ELSE 0
    BY <1>1, <2>1, SubSeqProperties
  <2>3. c \in Seq(Nat)
    BY <1>1, <2>1, SubSeqProperties
  <2> QED
    BY <1>1, <2>2, <2>3
<1>3. b = f \o c
  <2>1. f \o c = SubSeq(b, 1, Len(b))
    <3>1. 1 \in 1 .. Len(b) + 1 /\ n \in 1 - 1 .. Len(b) /\ Len(b) \in n .. Len(b)
      BY <1>1
    <3> QED
      BY <3>1, ConcatAdjacentSubSeq
  <2> QED
    BY <2>1, SubSeqFull
<1> HIDE DEF f, c, n
<1>4. f \o (c \o h) = a \o r /\ c \o h \in Seq(Nat)
  <2>1. (f \o c) \o h = f \o (c \o h)
    BY ONLY <1>2, h \in Seq(Nat), Assoc, SMTT(30)
  <2>2. c \o h \in Seq(Nat)
    BY <1>2, Cat
  <2> QED
    BY <1>3, <2>1, <2>2
<1>5. f = a
  <2>1. ASSUME NEW i \in 1 .. n PROVE f[i] = a[i]
    <3>1. i \in 1 .. Len(f) + Len(c \o h) /\ i <= Len(f) /\ i \in 1 .. Len(a) + Len(r) /\ i <= Len(a)
      <4>1. Len(c \o h) \in Nat /\ Len(r) \in Nat
        BY <1>4
      <4>2. Len(f) = Len(a) /\ Len(a) \in Nat /\ i \in 1 .. Len(a)
        BY <1>1, <1>2 DEF n
      <4> QED
        BY ONLY <4>1, <4>2
    <3>2. (f \o (c \o h))[i] = f[i]
      BY <1>2, <1>4, <3>1, Cat
    <3>3. (a \o r)[i] = a[i]
      BY <3>1, Cat
    <3> QED
      BY <1>4, <3>2, <3>3
  <2> QED
    BY <1>2, <2>1, SeqEqual DEF n
<1>6. c \o h = r
  BY <1>2, <1>4, <1>5, ConcatSimplifications
<1> QED
  BY <1>2, <1>5, <1>6 DEF f, c, n

\* A chunk that arrives moves from what is ahead to the end of the buffer.
LEMMA Arrives ==
  ASSUME NEW b \in Seq(Nat), NEW w \in Seq(Nat), NEW a \in Nat, NEW n \in Nat, a + n <= Len(w)
  PROVE  /\ b \o SubSeq(w, a + 1, a + n) \in Seq(Nat)
         /\ (b \o SubSeq(w, a + 1, a + n)) \o SubSeq(w, (a + n) + 1, Len(w))
              = b \o SubSeq(w, a + 1, Len(w))
<1> DEFINE x == SubSeq(w, a + 1, a + n)
           y == SubSeq(w, (a + n) + 1, Len(w))
<1>1. \A i \in 1 .. Len(w) : w[i] \in Nat
  BY ElementOfSeq
<1>2. x \in Seq(Nat) /\ y \in Seq(Nat)
  BY <1>1, SubSeqProperties
<1>3. x \o y = SubSeq(w, a + 1, Len(w))
  <2>1. /\ a + 1 \in 1 .. Len(w) + 1 /\ a + n \in (a + 1) - 1 .. Len(w)
        /\ Len(w) \in a + n .. Len(w)
    OBVIOUS
  <2> QED
    BY <2>1, ConcatAdjacentSubSeq
<1> HIDE DEF x, y
<1>4. (b \o x) \o y = b \o (x \o y)
  BY ONLY b \in Seq(Nat), <1>2, Assoc
<1>5. b \o x \in Seq(Nat)
  BY ONLY b \in Seq(Nat), <1>2, Cat
<1> QED
  BY <1>3, <1>4, <1>5 DEF x, y

LEMMA FillType ==
  ASSUME NEW n \in Nat
  PROVE  /\ Fill(n) \in Seq(Nat) /\ Len(Fill(n)) = n
         /\ n > 0 => Fill(n) = <<7>> \o Fill(n - 1) /\ n - 1 \in Nat
         /\ Fill(n) \o <<7>> = Fill(n + 1)
<1>1. ASSUME NEW k \in Nat PROVE /\ Fill(k) \in Seq(Nat) /\ Len(Fill(k)) = k
                                 /\ \A i \in 1 .. k : Fill(k)[i] = 7
  BY DEF Fill
<1> HIDE DEF Fill
<1>2. <<7>> \in Seq(Nat) /\ Len(<<7>>) = 1 /\ <<7>>[1] = 7
  OBVIOUS
<1>3. ASSUME n > 0 PROVE Fill(n) = <<7>> \o Fill(n - 1) /\ n - 1 \in Nat
  <2>1. n - 1 \in Nat
    BY <1>3
  <2> DEFINE f == <<7>> \o Fill(n - 1)
  <2>2. /\ f \in Seq(Nat) /\ Len(f) = n
        /\ \A i \in 1 .. n : f[i] = 7
    BY <1>1, <1>2, <2>1, Cat
  <2>3. Fill(n) \in Seq(Nat) /\ Len(Fill(n)) = n /\ \A i \in 1 .. n : Fill(n)[i] = 7
    BY <1>1
  <2> HIDE DEF f
  <2>4. Fill(n) = f
    BY ONLY <2>2, <2>3, SeqEqual
  <2> QED
    BY <2>1, <2>4 DEF f
<1>4. Fill(n) \o <<7>> = Fill(n + 1)
  <2> DEFINE f == Fill(n) \o <<7>>
  <2>1. /\ Fill(n) \in Seq(Nat) /\ Len(Fill(n)) = n /\ \A i \in 1 .. n : Fill(n)[i] = 7
        /\ n + 1 \in Nat
    BY <1>1
  <2>2. f \in Seq(Nat) /\ Len(f) = n + 1
    BY <1>2, <2>1, Cat
  <2>3. \A i \in 1 .. n + 1 : f[i] = IF i <= n THEN Fill(n)[i] ELSE <<7>>[i - n]
    BY <1>2, <2>1, Cat
  <2> HIDE DEF f
  <2>4. ASSUME NEW i \in 1 .. n + 1 PROVE f[i] = 7
    <3>1. i \in 1 .. n \/ (i = n + 1 /\ i - n = 1)
      OBVIOUS
    <3> QED
      BY <1>2, <2>1, <2>3, <3>1
  <2>5. /\ Fill(n + 1) \in Seq(Nat) /\ Len(Fill(n + 1)) = n + 1
        /\ \A i \in 1 .. n + 1 : Fill(n + 1)[i] = 7
    BY <1>1, <2>1
  <2>6. f = Fill(n + 1)
    BY ONLY <2>1, <2>2, <2>4, <2>5, SeqEqual
  <2> QED
    BY <2>6 DEF f
<1> QED
  BY <1>1, <1>3, <1>4

\* p[k] is the first k of the sequences s, one behind the other.
Joins(p, s, m) == p[0] = <<>> /\ \A k \in 1 .. m : p[k] = p[k - 1] \o s[k]

LEMMA JoinsNext ==
  ASSUME NEW m \in Nat, NEW p \in [0 .. m -> Seq(Nat)], NEW s \in [1 .. m -> Seq(Nat)],
         Joins(p, s, m), NEW k \in 0 .. m - 1
  PROVE  p[k + 1] = p[k] \o s[k + 1]
<1>1. k + 1 \in 1 .. m /\ (k + 1) - 1 = k
  OBVIOUS
<1>2. p[k + 1] = p[(k + 1) - 1] \o s[k + 1]
  BY <1>1 DEF Joins
<1> QED
  BY <1>1, <1>2

LEMMA JoinsExist ==
  ASSUME NEW n \in Nat, NEW s \in [1 .. n -> Seq(Nat)]
  PROVE  \E p \in [0 .. n -> Seq(Nat)] : Joins(p, s, n)
<1> DEFINE S == {m \in 0 .. n : \E p \in [0 .. m -> Seq(Nat)] : Joins(p, s, m)}
<1>1. 0 \in S
  <2> DEFINE p == [i \in 0 .. 0 |-> <<>>]
  <2>1. p \in [0 .. 0 -> Seq(Nat)] /\ p[0] = <<>> /\ 1 .. 0 = {}
    OBVIOUS
  <2> HIDE DEF p
  <2>2. Joins(p, s, 0)
    BY <2>1 DEF Joins
  <2> QED
    BY <2>1, <2>2
<1>2. ASSUME NEW m \in 0 .. n - 1, m \in S PROVE m + 1 \in S
  <2>1. PICK p \in [0 .. m -> Seq(Nat)] : Joins(p, s, m)
    BY <1>2
  <2>2. m \in Nat /\ m + 1 \in 1 .. n /\ m + 1 \in 0 .. n /\ m + 1 # 0 /\ m + 1 \notin 0 .. m
        /\ 0 \in 0 .. m
    OBVIOUS
  <2> DEFINE x == p[m] \o s[m + 1]
             q == [i \in 0 .. m + 1 |-> IF i = m + 1 THEN x ELSE p[i]]
  <2>3. x \in Seq(Nat)
    <3>1. p[m] \in Seq(Nat) /\ s[m + 1] \in Seq(Nat)
      BY <2>2
    <3> QED
      BY <3>1, Cat
  <2> HIDE DEF x
  <2>4. q \in [0 .. m + 1 -> Seq(Nat)] /\ q[m + 1] = x /\ \A i \in 0 .. m : q[i] = p[i]
    BY <2>2, <2>3
  <2> HIDE DEF q
  <2>5. q[0] = <<>>
    BY <2>1, <2>2, <2>4 DEF Joins
  <2>6. ASSUME NEW k \in 1 .. m + 1 PROVE q[k] = q[k - 1] \o s[k]
    <3>1. CASE k = m + 1
      <4>1. k - 1 = m /\ m \in 0 .. m
        BY <2>2, <3>1
      <4> QED
        BY <2>4, <3>1, <4>1 DEF x
    <3>2. CASE k # m + 1
      <4>1. k \in 1 .. m /\ k \in 0 .. m /\ k - 1 \in 0 .. m
        BY <2>2, <3>2
      <4>2. p[k] = p[k - 1] \o s[k]
        BY <2>1, <4>1 DEF Joins
      <4> QED
        BY <2>4, <4>1, <4>2
    <3> QED
      BY <3>1, <3>2
  <2>7. Joins(q, s, m + 1)
    BY <2>5, <2>6 DEF Joins
  <2> QED
    BY <2>2, <2>4, <2>7
<1>3. 0 .. n \subseteq S
  <2> HIDE DEF S
  <2> QED
    BY <1>1, <1>2, UpTo
<1> QED
  BY <1>3

\* FlattenSeq joins them all.
LEMMA FlattenJoins ==
  ASSUME NEW n \in Nat, NEW s \in [1 .. n -> Seq(Nat)],
         NEW p \in [0 .. n -> Seq(Nat)], Joins(p, s, n)
  PROVE  FlattenSeq(s) = p[n]
<1>0. Len(s) = n
  OBVIOUS
<1>1. CASE n = 0
  <2>1. s = <<>>
    BY <1>1
  <2> QED
    BY <1>0, <1>1, <2>1 DEF FlattenSeq, Joins
<1>2. CASE n > 0
  <2> DEFINE Def(f) == [i \in 1 .. n |-> IF i = 1 THEN s[i] ELSE f[i - 1] \o s[i]]
             flatten == CHOOSE f : f = Def(f)
             g == [i \in 1 .. n |-> p[i]]
  <2>1. FlattenSeq(s) = flatten[n]
    BY <1>0, <1>2 DEF FlattenSeq
  <2>2. p[1] = s[1]
    <3>1. 0 \in 0 .. n - 1 /\ 0 + 1 = 1 /\ 1 \in 1 .. n
      BY <1>2
    <3>2. p[0 + 1] = p[0] \o s[0 + 1] /\ p[0] = <<>>
      BY <3>1, JoinsNext DEF Joins
    <3>3. s[1] \in Seq(Nat)
      BY <3>1
    <3> QED
      BY <3>1, <3>2, <3>3, Cat
  <2>3. g = Def(g)
    <3>1. ASSUME NEW i \in 1 .. n PROVE g[i] = IF i = 1 THEN s[i] ELSE g[i - 1] \o s[i]
      <4>1. CASE i = 1
        BY <2>2, <4>1
      <4>2. CASE i # 1
        <5>1. i - 1 \in 1 .. n
          BY <4>2
        <5>2. p[i] = p[i - 1] \o s[i]
          BY DEF Joins
        <5> QED
          BY <4>2, <5>1, <5>2
      <4> QED
        BY <4>1, <4>2
    <3>2. g = [i \in 1 .. n |-> g[i]]
      OBVIOUS
    <3> HIDE DEF g
    <3> QED
      BY <3>1, <3>2
  <2>4. flatten = Def(flatten)
    <3> HIDE DEF Def
    <3> QED
      BY <2>3
  <2>5. \A i \in 1 .. n : flatten[i] = IF i = 1 THEN s[i] ELSE flatten[i - 1] \o s[i]
    <3> HIDE DEF flatten
    <3> QED
      BY <2>4
  <2> HIDE DEF flatten
  <2> DEFINE T == {k \in 0 .. n : k > 0 => flatten[k] = p[k]}
  <2>6. 0 \in T
    OBVIOUS
  <2>7. ASSUME NEW k \in 0 .. n - 1, k \in T PROVE k + 1 \in T
    <3>1. k + 1 \in 1 .. n /\ k + 1 \in 0 .. n /\ (k + 1) - 1 = k /\ (k + 1 = 1 <=> k = 0)
          /\ (k # 0 => k > 0)
      OBVIOUS
    <3>2. p[k + 1] = p[k] \o s[k + 1]
      BY JoinsNext
    <3>3. flatten[k + 1] = IF k + 1 = 1 THEN s[k + 1] ELSE flatten[(k + 1) - 1] \o s[k + 1]
      BY <2>5, <3>1
    <3>4. CASE k = 0
      BY <2>2, <3>1, <3>3, <3>4
    <3>5. CASE k # 0
      BY <2>7, <3>1, <3>2, <3>3, <3>5
    <3> QED
      BY <3>4, <3>5
  <2>8. 0 .. n \subseteq T
    <3> HIDE DEF T
    <3> QED
      BY <2>6, <2>7, UpTo
  <2>9. n \in 0 .. n
    OBVIOUS
  <2> QED
    BY <1>2, <2>1, <2>8, <2>9
<1> QED
  BY <1>1, <1>2

\* The first of the sequences comes first.
LEMMA FlattenFirst ==
  ASSUME NEW n \in Nat, NEW s \in [1 .. n + 1 -> Seq(Nat)]
  PROVE  /\ FlattenSeq(s) = s[1] \o FlattenSeq([i \in 1 .. n |-> s[1 + i]])
         /\ FlattenSeq([i \in 1 .. n |-> s[1 + i]]) \in Seq(Nat)
         /\ FlattenSeq(s) \in Seq(Nat)
<1> DEFINE t == [i \in 1 .. n |-> s[1 + i]]
<1>0. t \in [1 .. n -> Seq(Nat)] /\ n + 1 \in Nat /\ \A i \in 1 .. n : t[i] = s[1 + i]
  OBVIOUS
<1> HIDE DEF t
<1>1. PICK p \in [0 .. n + 1 -> Seq(Nat)] : Joins(p, s, n + 1)
  BY <1>0, JoinsExist
<1>2. PICK q \in [0 .. n -> Seq(Nat)] : Joins(q, t, n)
  BY <1>0, JoinsExist
<1>3. p[n + 1] = FlattenSeq(s) /\ q[n] = FlattenSeq(t)
  BY <1>0, <1>1, <1>2, FlattenJoins
<1>4. /\ p[n + 1] \in Seq(Nat) /\ \A k \in 0 .. n : q[k] \in Seq(Nat)
      /\ \A k \in 0 .. n : p[k + 1] = p[k] \o s[k + 1]
  <2>1. ASSUME NEW k \in 0 .. n PROVE p[k + 1] = p[k] \o s[k + 1]
    <3>1. k \in 0 .. (n + 1) - 1
      OBVIOUS
    <3> QED
      BY <1>0, <1>1, <3>1, JoinsNext
  <2>2. n + 1 \in 0 .. n + 1
    OBVIOUS
  <2> QED
    BY <2>1, <2>2
<1> DEFINE S == {k \in 0 .. n : p[k + 1] = s[1] \o q[k]}
<1>5. 0 \in S
  <2>1. 0 \in 0 .. n /\ 0 + 1 = 1 /\ 1 \in 1 .. n + 1
    OBVIOUS
  <2>2. p[0 + 1] = p[0] \o s[0 + 1] /\ p[0] = <<>> /\ q[0] = <<>> /\ s[1] \in Seq(Nat)
    BY <1>1, <1>2, <1>4, <2>1 DEF Joins
  <2>3. <<>> \o s[1] = s[1] /\ s[1] \o <<>> = s[1]
    BY <2>2, Cat
  <2> QED
    BY <2>1, <2>2, <2>3
<1>6. ASSUME NEW k \in 0 .. n - 1, k \in S PROVE k + 1 \in S
  <2>1. /\ k + 1 \in 1 .. n /\ k + 1 \in 0 .. n /\ k \in 0 .. n
        /\ (k + 1) + 1 = 1 + (k + 1) /\ 1 + (k + 1) \in 1 .. n + 1 /\ 1 \in 1 .. n + 1
    OBVIOUS
  <2> DEFINE x == s[1 + (k + 1)]
  <2>2. p[(k + 1) + 1] = p[k + 1] \o s[(k + 1) + 1] /\ q[k + 1] = q[k] \o t[k + 1]
    <3>1. q[k + 1] = q[k] \o t[k + 1]
      BY <1>0, <1>2, JoinsNext
    <3> QED
      BY <1>4, <2>1, <3>1
  <2>3. t[k + 1] = x /\ s[(k + 1) + 1] = x
    BY <1>0, <2>1
  <2>4. s[1] \in Seq(Nat) /\ q[k] \in Seq(Nat) /\ x \in Seq(Nat)
    BY <1>4, <2>1
  <2> HIDE DEF x
  <2>5. (s[1] \o q[k]) \o x = s[1] \o (q[k] \o x)
    BY <2>4, Assoc
  <2> QED
    BY <1>6, <2>1, <2>2, <2>3, <2>5
<1>7. 0 .. n \subseteq S
  <2> HIDE DEF S
  <2> QED
    BY <1>5, <1>6, UpTo
<1>8. p[n + 1] = s[1] \o q[n] /\ q[n] \in Seq(Nat)
  <2>1. n \in 0 .. n
    OBVIOUS
  <2> QED
    BY <1>4, <1>7, <2>1
<1> QED
  BY <1>3, <1>4, <1>8 DEF t
--------------------------------------------------------------------------------
\* What the stream has not yet handed out, and what the reader has not yet taken.
Ahead == SubSeq(Wire(job), arrived + 1, Len(Wire(job)))
Unread == buffer \o Ahead

Host == HostOf(job)
\* A SOCKS request behind its methods, behind its first byte, and behind the
\* user.
Rest5 == <<5, job.command, 0>> \o (job.address \o (Fill(2) \o Payload))
Rest4 == IF Is4a(job.ip) THEN Fill(3) \o (<<0>> \o Payload) ELSE Payload
Request4 == (<<job.command>> \o (Fill(2) \o job.ip)) \o (job.user \o (<<0>> \o Rest4))

\* The frames behind the first k.
FramesFrom(k) == FlattenSeq([i \in 1 .. Len(job.lengths) - k |-> Frame(job.lengths[k + i])])

\* A client that may be granted its request.
Allowed ==
  /\ job \in Socks5 \union Socks4 /\ job.command = 1
  /\ job \in Socks5 => 0 \in ToSet(job.methods) /\ job.address[1] \in {1, 3, 4}

\* A reader has taken exactly what its step says: what it has not taken begins
\* with the field that the step reads.
AtSocks5 ==
  /\ step = "count" => /\ job \in Socks5 /\ got = <<>>
                       /\ Unread = <<Len(job.methods)>> \o (job.methods \o Rest5)
  /\ step = "methods" => /\ job \in Socks5 /\ got = <<Len(job.methods)>>
                         /\ Unread = job.methods \o Rest5
  /\ step = "request" => /\ job \in Socks5 /\ 0 \in ToSet(job.methods) /\ got = <<>>
                         /\ Unread = Rest5
  /\ step = "name length" => /\ job \in Socks5 /\ Allowed /\ job.address[1] = 3
                             /\ Unread = <<2>> \o (Host \o (Fill(2) \o Payload))
  /\ step = "address" => /\ job \in Socks5 /\ Allowed /\ got = <<Len(Host)>>
                         /\ Unread = Host \o (Fill(2) \o Payload)
  /\ step = "port" => /\ job \in Socks5 /\ Allowed /\ got = <<Host>>
                      /\ Unread = Fill(2) \o Payload

AtSocks4 ==
  /\ step = "command" => job \in Socks4 /\ got = <<>> /\ Unread = Request4
  /\ step = "user" => /\ job \in Socks4 /\ got = <<job.command, job.ip, got[3]>>
                      /\ \E k \in 0 .. 2 : Unread = Fill(k) \o (<<0>> \o Rest4)
  /\ step = "host" => /\ job \in Socks4 /\ Allowed /\ Is4a(job.ip)
                      /\ \E k \in 0 .. 3 : /\ got = <<job.command, job.ip, Fill(3 - k)>>
                                           /\ Unread = Fill(k) \o (<<0>> \o Payload)

\* No answer so far grants the request.
Ungranted == \A i \in DOMAIN replies : replies[i] # "granted"

AtEnds ==
  /\ step = "prefix" => job \in Auth /\ got = <<>> /\ Unread = Fill(FrameBytes) \o Payload
  /\ step = "version" => /\ got = <<>>
                         /\ \/ /\ job \in Socks5
                               /\ Unread = <<5>> \o (<<Len(job.methods)>> \o (job.methods \o Rest5))
                            \/ job \in Socks4 /\ Unread = <<4>> \o Request4
  /\ step = "connect" => Allowed /\ got = <<Host>> /\ Unread = Payload
  /\ step = "open" => /\ passed \o Unread = Payload
                      /\ \/ job \in Auth /\ got = <<Fill(FrameBytes)>> /\ Ungranted
                         \/ Allowed /\ got = <<Host>>
  /\ step # "open" => passed = <<>> /\ Ungranted

\* The frames that were taken are the first ones, whole.
AtFrames ==
  /\ job \in Frames =>
       /\ step \in {"frame", "finished", "failed"}
       /\ got \in Seq(Seq(Nat)) /\ Len(got) <= Len(job.lengths)
       /\ \A i \in 1 .. Len(got) : got[i] = Fill(job.lengths[i])
  /\ step = "frame" => job \in Frames /\ Unread = FramesFrom(Len(got))
  /\ step = "finished" =>
       job \in Frames /\ (arrived = Len(Wire(job)) => Len(got) = Len(job.lengths))

ReaderInv == ReaderTypeOK /\ AtEnds /\ AtSocks5 /\ AtSocks4 /\ AtFrames
--------------------------------------------------------------------------------
\* Five parts, nested to the right.
Regroups(s, t, u) == (s \o t) \o u = s \o (t \o u)
Nests(a, b, c, d, e) == (((a \o b) \o c) \o d) \o e = a \o (b \o (c \o (d \o e)))

LEMMA Nested ==
  ASSUME NEW a \in Seq(Nat), NEW b \in Seq(Nat), NEW c \in Seq(Nat), NEW d \in Seq(Nat),
         NEW e \in Seq(Nat)
  PROVE  Nests(a, b, c, d, e)
<1>1. /\ d \o e \in Seq(Nat) /\ c \o (d \o e) \in Seq(Nat)
      /\ a \o b \in Seq(Nat) /\ (a \o b) \o c \in Seq(Nat)
  BY Cat
<1>2. \A s, t, u \in Seq(Nat) : Regroups(s, t, u)
  BY Assoc DEF Regroups
<1>3. /\ Regroups((a \o b) \o c, d, e)
      /\ Regroups(a \o b, c, d \o e)
      /\ Regroups(a, b, c \o (d \o e))
  BY <1>1, <1>2
<1> QED
  BY ONLY <1>3 DEF Regroups, Nests

LEMMA PayloadType ==
  /\ Payload \in Seq(Nat) /\ Fill(FrameBytes) \in Seq(Nat) /\ Fill(2) \in Seq(Nat)
  /\ Fill(2) \o Payload \in Seq(Nat) /\ <<0>> \o Payload \in Seq(Nat)
  /\ Fill(3) \o (<<0>> \o Payload) \in Seq(Nat)
  /\ Fill(FrameBytes) \o Payload \in Seq(Nat)
<1>1. /\ Payload \in Seq(Nat) /\ FrameBytes \in Nat /\ 2 \in Nat /\ 3 \in Nat
      /\ <<0>> \in Seq(Nat)
  BY ReaderAssumption
<1>2. Fill(FrameBytes) \in Seq(Nat) /\ Fill(2) \in Seq(Nat) /\ Fill(3) \in Seq(Nat)
  BY <1>1, FillType
<1> QED
  BY <1>1, <1>2, Cat

\* Two bytes, one behind the other.
LEMMA Pair ==
  ASSUME NEW x \in Nat, NEW y \in Nat
  PROVE  /\ <<x>> \in Seq(Nat) /\ Len(<<x>>) = 1 /\ <<x, y>> \in Seq(Nat) /\ Len(<<x, y>>) = 2
         /\ <<x>> \o <<y>> = <<x, y>>
<1> DEFINE u == <<x>>
           v == <<y>>
           w == u \o v
<1>1. u \in Seq(Nat) /\ v \in Seq(Nat) /\ Len(u) = 1 /\ Len(v) = 1 /\ u[1] = x /\ v[1] = y
  OBVIOUS
<1> HIDE DEF u, v
<1>2. w \in Seq(Nat) /\ Len(w) = 2
  <2>1. w \in Seq(Nat) /\ Len(w) = Len(u) + Len(v)
    BY <1>1, Cat
  <2> QED
    BY <1>1, <2>1
<1>3. w[1] = x /\ w[2] = y
  <2>1. /\ 1 \in 1 .. Len(u) + Len(v) /\ 1 <= Len(u)
        /\ 2 \in 1 .. Len(u) + Len(v) /\ ~(2 <= Len(u)) /\ 2 - Len(u) = 1
    BY <1>1
  <2>2. \A i \in 1 .. Len(u) + Len(v) : w[i] = IF i <= Len(u) THEN u[i] ELSE v[i - Len(u)]
    BY <1>1, Cat
  <2>3. w[1] = u[1] /\ w[2] = v[2 - Len(u)]
    BY <2>1, <2>2
  <2> QED
    BY <1>1, <2>1, <2>3
<1> HIDE DEF w
<1>4. <<x, y>> \in Seq(Nat) /\ Len(<<x, y>>) = 2 /\ <<x, y>>[1] = x /\ <<x, y>>[2] = y
  OBVIOUS
<1>5. ASSUME NEW z \in Seq(Nat), NEW t \in Seq(Nat), Len(z) = 2, Len(t) = 2,
             z[1] = t[1], z[2] = t[2]
      PROVE  z = t
  <2>1. \A i \in 1 .. 2 : z[i] = t[i]
    <3>1. \A i \in 1 .. 2 : i = 1 \/ i = 2
      OBVIOUS
    <3> QED
      BY <1>5, <3>1
  <2> QED
    BY <1>5, <2>1, SeqEqual
<1>6. w = <<x, y>>
  BY ONLY <1>2, <1>3, <1>4, <1>5
<1> QED
  BY <1>1, <1>4, <1>6 DEF u, v, w

\* The fields of a SOCKS 5 request.
LEMMA Fields5 ==
  ASSUME job \in Socks5
  PROVE  /\ job.kind = "socks5" /\ job.command \in Nat
         /\ job.methods \in Seq(Nat) /\ job.address \in Seq(Nat)
         /\ Len(job.address) >= 1 /\ Host \in Seq(Nat)
         /\ job.address[1] = 1 => job.address = <<1>> \o Host /\ Len(Host) = 4
         /\ job.address[1] = 3 => job.address = <<3>> \o (<<2>> \o Host) /\ Len(Host) = 2
         /\ job.address[1] = 4 => job.address = <<4>> \o Host /\ Len(Host) = 16
<1>1. /\ job.kind = "socks5" /\ job.methods \in {<<0>>, <<2, 0>>, <<2>>} /\ job.command \in {1, 2}
      /\ job.address \in {<<1>> \o Fill(4), <<3, 2>> \o Fill(2), <<4>> \o Fill(16), <<9>>}
  BY DEF Socks5
<1>2. <<0>> \in Seq(Nat) /\ <<2, 0>> \in Seq(Nat) /\ <<2>> \in Seq(Nat)
  OBVIOUS
<1>3. job.methods \in Seq(Nat)
  BY <1>1, <1>2
<1>4. Host = SubSeq(job.address, IF job.address[1] = 3 THEN 3 ELSE 2, Len(job.address))
  BY <1>1 DEF Host, HostOf
<1>5. /\ Fill(4) \in Seq(Nat) /\ Len(Fill(4)) = 4 /\ Fill(2) \in Seq(Nat) /\ Len(Fill(2)) = 2
      /\ Fill(16) \in Seq(Nat) /\ Len(Fill(16)) = 16
  BY FillType
<1>6. ASSUME NEW a \in Seq(Nat), NEW f \in Seq(Nat)
      PROVE  /\ a \o f \in Seq(Nat) /\ Len(a \o f) = Len(a) + Len(f)
             /\ SubSeq(a \o f, Len(a) + 1, Len(a \o f)) = f
  <2>1. a \o f \in Seq(Nat) /\ Len(a \o f) = Len(a) + Len(f)
    BY Cat
  <2>2. (a \o f) \o <<>> = a \o f /\ <<>> \in Seq(Nat)
    BY <2>1, Cat
  <2>3. /\ SubSeq(a \o f, Len(a) + 1, Len(a \o f)) \in Seq(Nat)
        /\ SubSeq(a \o f, Len(a) + 1, Len(a \o f)) \o <<>> = f
    BY <2>1, <2>2, TakeFront
  <2> QED
    BY <2>1, <2>3, Cat
<1>7. ASSUME NEW f \in Seq(Nat), NEW x \in Nat
      PROVE  (<<x>> \o f)[1] = x /\ (<<x, 2>> \o f)[1] = x /\ <<x, 2>> \o f = <<x>> \o (<<2>> \o f)
             /\ <<x>> \in Seq(Nat) /\ Len(<<x>>) = 1 /\ <<x, 2>> \in Seq(Nat) /\ Len(<<x, 2>>) = 2
  <2>0. <<x>> \in Seq(Nat) /\ <<2>> \in Seq(Nat) /\ <<x, 2>> \in Seq(Nat)
    BY Pair
  <2>1. <<x>> \o <<2>> = <<x, 2>> /\ Len(<<x>>) = 1 /\ Len(<<x, 2>>) = 2
    BY Pair
  <2>2. (<<x>> \o <<2>>) \o f = <<x>> \o (<<2>> \o f)
    BY <2>0, Assoc
  <2>3. (<<x>> \o f)[1] = x /\ (<<x, 2>> \o f)[1] = x
    <3>1. /\ Len(f) \in Nat /\ 1 \in 1 .. 1 + Len(f) /\ 1 \in 1 .. 2 + Len(f)
          /\ <<x>>[1] = x /\ <<x, 2>>[1] = x
      OBVIOUS
    <3> QED
      BY <2>0, <2>1, <3>1, Cat
  <2> QED
    BY <2>0, <2>1, <2>2, <2>3
<1>8. CASE job.address = <<1>> \o Fill(4)
  <2> DEFINE a == <<1>>
             f == Fill(4)
  <2>1. a \in Seq(Nat) /\ Len(a) = 1 /\ f \in Seq(Nat) /\ Len(f) = 4 /\ (a \o f)[1] = 1
    BY <1>5, <1>7
  <2> HIDE DEF a, f
  <2>2. job.address = a \o f
    BY <1>8 DEF a, f
  <2>3. Host = SubSeq(a \o f, Len(a) + 1, Len(a \o f))
    <3>1. (IF job.address[1] = 3 THEN 3 ELSE 2) = Len(a) + 1
      <4>0. (a \o f)[1] # 3
        BY <2>1
      <4>1. job.address[1] # 3
        BY ONLY <2>2, <4>0
      <4>2. Len(a) + 1 = 2
        BY <2>1
      <4> QED
        BY <4>1, <4>2
    <3> QED
      BY <1>4, <2>2, <3>1
  <2>4. Host = f /\ a \o f \in Seq(Nat) /\ Len(a \o f) = 5
    <3>1. SubSeq(a \o f, Len(a) + 1, Len(a \o f)) = f /\ a \o f \in Seq(Nat)
          /\ Len(a \o f) = Len(a) + Len(f)
      BY <1>6, <2>1
    <3>2. Len(a) + Len(f) = 5
      BY <2>1
    <3> QED
      BY <2>3, <3>1, <3>2
  <2> QED
    BY <1>1, <1>3, <2>1, <2>2, <2>4 DEF a
<1>9. CASE job.address = <<3, 2>> \o Fill(2)
  <2> DEFINE a == <<3, 2>>
             f == Fill(2)
  <2>1. /\ a \in Seq(Nat) /\ Len(a) = 2 /\ f \in Seq(Nat) /\ Len(f) = 2 /\ (a \o f)[1] = 3
        /\ a \o f = <<3>> \o (<<2>> \o f)
    BY <1>5, <1>7
  <2> HIDE DEF a, f
  <2>2. job.address = a \o f
    BY <1>9 DEF a, f
  <2>3. Host = SubSeq(a \o f, Len(a) + 1, Len(a \o f))
    BY <1>4, <2>1, <2>2
  <2>4. Host = f /\ a \o f \in Seq(Nat) /\ Len(a \o f) = 4
    <3>1. SubSeq(a \o f, Len(a) + 1, Len(a \o f)) = f /\ a \o f \in Seq(Nat)
          /\ Len(a \o f) = Len(a) + Len(f)
      BY <1>6, <2>1
    <3>2. Len(a) + Len(f) = 4
      BY <2>1
    <3> QED
      BY <2>3, <3>1, <3>2
  <2> QED
    BY <1>1, <1>3, <2>1, <2>2, <2>4
<1>10. CASE job.address = <<4>> \o Fill(16)
  <2> DEFINE a == <<4>>
             f == Fill(16)
  <2>1. a \in Seq(Nat) /\ Len(a) = 1 /\ f \in Seq(Nat) /\ Len(f) = 16 /\ (a \o f)[1] = 4
    BY <1>5, <1>7
  <2> HIDE DEF a, f
  <2>2. job.address = a \o f
    BY <1>10 DEF a, f
  <2>3. Host = SubSeq(a \o f, Len(a) + 1, Len(a \o f))
    <3>1. (IF job.address[1] = 3 THEN 3 ELSE 2) = Len(a) + 1
      <4>0. (a \o f)[1] # 3
        BY <2>1
      <4>1. job.address[1] # 3
        BY ONLY <2>2, <4>0
      <4>2. Len(a) + 1 = 2
        BY <2>1
      <4> QED
        BY <4>1, <4>2
    <3> QED
      BY <1>4, <2>2, <3>1
  <2>4. Host = f /\ a \o f \in Seq(Nat) /\ Len(a \o f) = 17
    <3>1. SubSeq(a \o f, Len(a) + 1, Len(a \o f)) = f /\ a \o f \in Seq(Nat)
          /\ Len(a \o f) = Len(a) + Len(f)
      BY <1>6, <2>1
    <3>2. Len(a) + Len(f) = 17
      BY <2>1
    <3> QED
      BY <2>3, <3>1, <3>2
  <2> QED
    BY <1>1, <1>3, <2>1, <2>2, <2>4, SMTT(30) DEF a
<1>11. CASE job.address = <<9>>
  <2>1. job.address \in Seq(Nat) /\ Len(job.address) = 1 /\ job.address[1] = 9
    BY <1>11
  <2>2. Host = SubSeq(job.address, 2, 1)
    BY <1>4, <2>1
  <2>3. Host = <<>> /\ <<>> \in Seq(Nat)
    BY <2>2, SubSeqEmpty
  <2> QED
    BY <1>1, <1>3, <2>1, <2>3
<1> QED
  BY <1>1, <1>8, <1>9, <1>10, <1>11

\* And of a SOCKS 4 request.
LEMMA Fields4 ==
  ASSUME job \in Socks4
  PROVE  /\ job.kind = "socks4" /\ job.command \in Nat
         /\ job.ip \in Seq(Nat) /\ Len(job.ip) = 4
         /\ \E k \in 0 .. 2 : job.user = Fill(k)
         /\ Host = IF Is4a(job.ip) THEN Fill(3) ELSE job.ip
<1>1. /\ job.kind = "socks4" /\ job.ip \in {Fill(4), <<0, 0, 0, 1>>} /\ job.command \in {1, 2}
      /\ job.user \in {<<>>, Fill(2)}
  BY DEF Socks4
<1>2. Fill(4) \in Seq(Nat) /\ Len(Fill(4)) = 4
  BY FillType
<1>3. <<0, 0, 0, 1>> \in Seq(Nat) /\ Len(<<0, 0, 0, 1>>) = 4
  OBVIOUS
<1>4. Fill(0) = <<>>
  BY DEF Fill
<1>5. \E k \in 0 .. 2 : job.user = Fill(k)
  <2>1. 0 \in 0 .. 2 /\ 2 \in 0 .. 2
    OBVIOUS
  <2> QED
    BY <1>1, <1>4, <2>1
<1>6. Host = IF Is4a(job.ip) THEN Fill(3) ELSE job.ip
  BY <1>1 DEF Host, HostOf
<1>7. job.command \in Nat
  BY <1>1
<1>8. job.ip \in Seq(Nat) /\ Len(job.ip) = 4
  <2>1. CASE job.ip = Fill(4)
    BY <1>2, <2>1
  <2>2. CASE job.ip = <<0, 0, 0, 1>>
    BY <1>3, <2>2
  <2> QED
    BY <1>1, <2>1, <2>2
<1> QED
  BY <1>1, <1>5, <1>6, <1>7, <1>8

LEMMA RestTypes ==
  /\ job \in Socks5 => /\ Rest5 \in Seq(Nat)
                       /\ <<Len(job.methods)>> \in Seq(Nat) /\ <<5>> \in Seq(Nat)
                       /\ job.methods \o Rest5 \in Seq(Nat)
                       /\ <<Len(job.methods)>> \o (job.methods \o Rest5) \in Seq(Nat)
  /\ job \in Socks4 => /\ Rest4 \in Seq(Nat) /\ Request4 \in Seq(Nat)
                       /\ <<0>> \o Rest4 \in Seq(Nat) /\ job.user \in Seq(Nat)
                       /\ <<job.command>> \o (Fill(2) \o job.ip) \in Seq(Nat)
                       /\ job.user \o (<<0>> \o Rest4) \in Seq(Nat)
                       /\ <<4>> \in Seq(Nat)
<1>1. ASSUME job \in Socks5
      PROVE  /\ Rest5 \in Seq(Nat)
             /\ <<Len(job.methods)>> \in Seq(Nat) /\ <<5>> \in Seq(Nat)
             /\ job.methods \o Rest5 \in Seq(Nat)
             /\ <<Len(job.methods)>> \o (job.methods \o Rest5) \in Seq(Nat)
  <2>1. job.command \in Nat /\ job.methods \in Seq(Nat) /\ job.address \in Seq(Nat)
    BY <1>1, Fields5
  <2>2. /\ <<5, job.command, 0>> \in Seq(Nat)
        /\ <<Len(job.methods)>> \in Seq(Nat) /\ <<5>> \in Seq(Nat)
    BY <2>1
  <2>3. Fill(2) \o Payload \in Seq(Nat)
    BY PayloadType
  <2>4. Rest5 \in Seq(Nat)
    BY <2>1, <2>2, <2>3, Cat DEF Rest5
  <2>5. job.methods \o Rest5 \in Seq(Nat)
    BY <2>1, <2>4, Cat
  <2> QED
    BY <2>2, <2>4, <2>5, Cat
<1>2. ASSUME job \in Socks4
      PROVE  /\ Rest4 \in Seq(Nat) /\ Request4 \in Seq(Nat)
             /\ <<0>> \o Rest4 \in Seq(Nat) /\ job.user \in Seq(Nat)
             /\ <<job.command>> \o (Fill(2) \o job.ip) \in Seq(Nat)
             /\ job.user \o (<<0>> \o Rest4) \in Seq(Nat)
             /\ <<4>> \in Seq(Nat)
  <2>1. /\ job.command \in Nat /\ job.ip \in Seq(Nat)
        /\ \E k \in 0 .. 2 : job.user = Fill(k)
    BY <1>2, Fields4
  <2>2. job.user \in Seq(Nat)
    <3>1. PICK k \in 0 .. 2 : job.user = Fill(k)
      BY <2>1
    <3>2. k \in Nat
      OBVIOUS
    <3> QED
      BY <3>1, <3>2, FillType
  <2>3. <<job.command>> \in Seq(Nat) /\ <<0>> \in Seq(Nat) /\ <<4>> \in Seq(Nat)
    BY <2>1
  <2>4. Rest4 \in Seq(Nat) /\ Fill(2) \in Seq(Nat)
    BY PayloadType DEF Rest4
  <2>5. Fill(2) \o job.ip \in Seq(Nat) /\ <<0>> \o Rest4 \in Seq(Nat)
    BY <2>1, <2>3, <2>4, Cat
  <2>6. <<job.command>> \o (Fill(2) \o job.ip) \in Seq(Nat)
        /\ job.user \o (<<0>> \o Rest4) \in Seq(Nat)
    BY <2>2, <2>3, <2>5, Cat
  <2>7. Request4 \in Seq(Nat)
    BY <2>6, Cat DEF Request4
  <2> QED
    BY <2>2, <2>3, <2>4, <2>5, <2>6, <2>7
<1> QED
  BY <1>1, <1>2

LEMMA Wire5 ==
  ASSUME job \in Socks5
  PROVE  Wire(job) = <<5>> \o (<<Len(job.methods)>> \o (job.methods \o Rest5))
<1> DEFINE l == Len(job.methods)
           m == job.methods
           q == <<5, job.command, 0>>
           ad == job.address
           f == Fill(2)
<1>1. /\ job.kind = "socks5" /\ l \in Nat /\ m \in Seq(Nat) /\ q \in Seq(Nat) /\ ad \in Seq(Nat)
      /\ f \in Seq(Nat) /\ Payload \in Seq(Nat) /\ Rest5 \in Seq(Nat)
  <2>1. job.command \in Nat /\ m \in Seq(Nat) /\ ad \in Seq(Nat) /\ job.kind = "socks5"
    BY Fields5
  <2>2. q \in Seq(Nat) /\ l \in Nat
    BY <2>1
  <2> QED
    BY <2>1, <2>2, PayloadType, RestTypes
<1>2. Wire(job) = ((((<<5, l>> \o m) \o q) \o ad) \o f) \o Payload
  BY <1>1 DEF Wire
<1>3. Rest5 = q \o (ad \o (f \o Payload))
  BY DEF Rest5
<1> HIDE DEF l, m, q, ad, f
<1>4. /\ <<5, l>> \in Seq(Nat) /\ <<5>> \in Seq(Nat) /\ <<l>> \in Seq(Nat)
      /\ <<5, l>> = <<5>> \o <<l>> /\ <<5, l>> \o m \in Seq(Nat) /\ m \o Rest5 \in Seq(Nat)
  <2>1. /\ <<5, l>> \in Seq(Nat) /\ <<5>> \in Seq(Nat) /\ <<l>> \in Seq(Nat)
        /\ <<5, l>> = <<5>> \o <<l>>
    BY <1>1, Pair
  <2> QED
    BY <1>1, <2>1, Cat
<1>5. Wire(job) = (<<5, l>> \o m) \o (q \o (ad \o (f \o Payload)))
  <2> DEFINE h == <<5, l>> \o m
  <2>1. h \in Seq(Nat)
    BY <1>4
  <2> HIDE DEF h
  <2>2. Nests(h, q, ad, f, Payload)
    BY <1>1, <2>1, Nested
  <2> QED
    BY <1>2, <2>2 DEF h, Nests
<1>6. \A s, t, u \in Seq(Nat) : Regroups(s, t, u)
  BY Assoc DEF Regroups
<1>7. Regroups(<<5, l>>, m, Rest5) /\ Regroups(<<5>>, <<l>>, m \o Rest5)
  BY <1>1, <1>4, <1>6
<1>8. Wire(job) = <<5>> \o (<<l>> \o (m \o Rest5))
  BY ONLY <1>3, <1>4, <1>5, <1>7 DEF Regroups
<1> QED
  BY <1>8 DEF l, m

LEMMA Wire4 ==
  ASSUME job \in Socks4
  PROVE  Wire(job) = <<4>> \o Request4
<1> DEFINE o == job.command
           ip == job.ip
           u == job.user
           f == Fill(2)
           t == IF Is4a(job.ip) THEN Fill(3) \o <<0>> ELSE <<>>
           x == f \o ip
           y == u \o (<<0>> \o Rest4)
<1>1. /\ job.kind = "socks4" /\ o \in Nat /\ ip \in Seq(Nat) /\ u \in Seq(Nat) /\ f \in Seq(Nat)
      /\ Payload \in Seq(Nat) /\ Rest4 \in Seq(Nat) /\ x \in Seq(Nat) /\ y \in Seq(Nat)
      /\ Fill(3) \in Seq(Nat) /\ <<0>> \in Seq(Nat) /\ <<>> \in Seq(Nat)
  <2>1. job.kind = "socks4" /\ o \in Nat /\ ip \in Seq(Nat)
    BY Fields4
  <2>2. u \in Seq(Nat) /\ Rest4 \in Seq(Nat) /\ y \in Seq(Nat)
    BY RestTypes
  <2>3. f \in Seq(Nat) /\ Payload \in Seq(Nat) /\ Fill(3) \in Seq(Nat)
    BY PayloadType, FillType
  <2>4. x \in Seq(Nat)
    BY <2>1, <2>3, Cat
  <2> QED
    BY <2>1, <2>2, <2>3, <2>4
<1>2. Wire(job) = (((((<<4, o>> \o f) \o ip) \o u) \o <<0>>) \o t) \o Payload
  BY <1>1 DEF Wire
<1>3. \A a, b, c \in Seq(Nat) : Regroups(a, b, c)
  BY Assoc DEF Regroups
<1>4. t \in Seq(Nat) /\ t \o Payload = Rest4
  <2>1. CASE Is4a(job.ip)
    <3>1. Fill(3) \o <<0>> \in Seq(Nat)
      BY <1>1, Cat
    <3>2. Regroups(Fill(3), <<0>>, Payload)
      BY <1>1, <1>3
    <3> QED
      BY <2>1, <3>1, <3>2 DEF Rest4, Regroups
  <2>2. CASE ~Is4a(job.ip)
    <3>1. <<>> \o Payload = Payload
      BY <1>1, Cat
    <3> QED
      BY <1>1, <2>2, <3>1 DEF Rest4
  <2> QED
    BY <2>1, <2>2
<1>5. Request4 = (<<o>> \o x) \o y
  BY DEF Request4
<1>6. y = u \o (<<0>> \o Rest4) /\ x = f \o ip
  OBVIOUS
<1> HIDE DEF o, ip, u, f, t, x, y
<1>7. /\ <<4, o>> \in Seq(Nat) /\ <<4>> \in Seq(Nat) /\ <<o>> \in Seq(Nat)
      /\ <<4, o>> = <<4>> \o <<o>>
      /\ <<4, o>> \o f \in Seq(Nat) /\ (<<4, o>> \o f) \o ip \in Seq(Nat)
      /\ <<o>> \o x \in Seq(Nat)
  <2>1. /\ <<4, o>> \in Seq(Nat) /\ <<4>> \in Seq(Nat) /\ <<o>> \in Seq(Nat)
        /\ <<4, o>> = <<4>> \o <<o>>
    BY <1>1, Pair
  <2> QED
    BY <1>1, <2>1, Cat
<1>8. Wire(job) = ((<<4, o>> \o f) \o ip) \o y
  <2> DEFINE h == (<<4, o>> \o f) \o ip
             z == <<0>>
  <2>1. h \in Seq(Nat) /\ z \in Seq(Nat)
    BY <1>1, <1>7
  <2>2. Wire(job) = (((h \o u) \o z) \o t) \o Payload /\ y = u \o (z \o Rest4)
    BY <1>2, <1>6
  <2> HIDE DEF h, z
  <2>3. Nests(h, u, z, t, Payload)
    BY <1>1, <1>4, <2>1, Nested
  <2>4. Wire(job) = h \o y
    BY ONLY <1>4, <2>2, <2>3 DEF Nests
  <2> QED
    BY <2>4 DEF h
<1>9. /\ Regroups(<<4, o>>, f, ip) /\ Regroups(<<4>>, <<o>>, x) /\ Regroups(<<4>>, <<o>> \o x, y)
  BY <1>1, <1>3, <1>7
<1>10. Wire(job) = <<4>> \o ((<<o>> \o x) \o y)
  BY ONLY <1>6, <1>7, <1>8, <1>9 DEF Regroups
<1> QED
  BY <1>5, <1>10

\* What is behind the first part of a concatenation.
LEMMA Behind ==
  ASSUME NEW a \in Seq(Nat), NEW f \in Seq(Nat)
  PROVE  SubSeq(a \o f, Len(a) + 1, Len(a \o f)) = f
<1>1. a \o f \in Seq(Nat) /\ Len(a \o f) = Len(a) + Len(f)
  BY Cat
<1>2. (a \o f) \o <<>> = a \o f /\ <<>> \in Seq(Nat)
  BY <1>1, Cat
<1>3. /\ SubSeq(a \o f, Len(a) + 1, Len(a \o f)) \in Seq(Nat)
      /\ SubSeq(a \o f, Len(a) + 1, Len(a \o f)) \o <<>> = f
  BY <1>1, <1>2, TakeFront
<1> QED
  BY <1>3, Cat

\* A frame: its header, the last byte of which is the length, and its body.
LEMMA FrameFacts ==
  ASSUME NEW n \in Nat
  PROVE  /\ Frame(n) \in Seq(Nat) /\ Len(Frame(n)) = Header + n /\ Header \in Nat /\ Header >= 1
         /\ Frame(n)[Header] = n
         /\ SubSeq(Frame(n), Header + 1, Header + n) = Fill(n)
<1> DEFINE h == Fill(Header - 1)
           l == <<n>>
           f == Fill(n)
<1>1. Header \in Nat /\ Header >= 1 /\ Header - 1 \in Nat
  BY ReaderAssumption
<1>2. /\ h \in Seq(Nat) /\ Len(h) = Header - 1 /\ l \in Seq(Nat) /\ Len(l) = 1 /\ l[1] = n
      /\ f \in Seq(Nat) /\ Len(f) = n
  <2>1. h \in Seq(Nat) /\ Len(h) = Header - 1
    BY <1>1, FillType
  <2>2. f \in Seq(Nat) /\ Len(f) = n
    BY FillType
  <2>3. l \in Seq(Nat) /\ Len(l) = 1 /\ l[1] = n
    OBVIOUS
  <2> QED
    BY <2>1, <2>2, <2>3
<1>3. Frame(n) = (h \o l) \o f
  BY DEF Frame
<1> HIDE DEF h, l, f
<1> DEFINE g == h \o l
<1>4. g \in Seq(Nat) /\ Len(g) = Header /\ g[Header] = n
  <2>1. g \in Seq(Nat) /\ Len(g) = Len(h) + Len(l)
    BY <1>2, Cat
  <2>2. Len(h) + Len(l) = Header
    BY <1>1, <1>2
  <2>3. Header \in 1 .. Len(h) + Len(l) /\ ~(Header <= Len(h)) /\ Header - Len(h) = 1
    BY <1>1, <1>2
  <2>4. g[Header] = l[Header - Len(h)]
    BY <1>2, <2>3, Cat
  <2> QED
    BY <1>2, <2>1, <2>2, <2>3, <2>4
<1> HIDE DEF g
<1>5. g \o f \in Seq(Nat) /\ Len(g \o f) = Header + n /\ (g \o f)[Header] = n
  <2>1. g \o f \in Seq(Nat) /\ Len(g \o f) = Len(g) + Len(f)
    BY <1>2, <1>4, Cat
  <2>2. Header \in 1 .. Len(g) + Len(f) /\ Header <= Len(g)
    BY <1>1, <1>2, <1>4
  <2>3. (g \o f)[Header] = g[Header]
    BY <1>2, <1>4, <2>2, Cat
  <2> QED
    BY <1>2, <1>4, <2>1, <2>3
<1>6. SubSeq(g \o f, Len(g) + 1, Len(g \o f)) = f
  BY <1>2, <1>4, Behind
<1>7. Frame(n) = g \o f
  BY <1>3 DEF g
<1>8. SubSeq(Frame(n), Header + 1, Header + n) = f
  BY <1>4, <1>5, <1>6, <1>7
<1> QED
  BY <1>1, <1>5, <1>7, <1>8 DEF f

\* The frames from the k-th on: the next one first, then the others.
LEMMA FramesForm ==
  ASSUME job \in Frames, NEW k \in 0 .. Len(job.lengths)
  PROVE  /\ FramesFrom(k) \in Seq(Nat) /\ Len(job.lengths) \in Nat
         /\ k < Len(job.lengths) =>
              /\ job.lengths[k + 1] \in Nat /\ k + 1 \in 0 .. Len(job.lengths)
              /\ FramesFrom(k) = Frame(job.lengths[k + 1]) \o FramesFrom(k + 1)
         /\ k = Len(job.lengths) => FramesFrom(k) = <<>>
         /\ Wire(job) = FramesFrom(0)
<1> DEFINE L == job.lengths
<1>0. MaxFrames \in Nat /\ MaxFrame \in Nat
  BY ReaderAssumption
<1>1. PICK m \in 0 .. MaxFrames : L \in [1 .. m -> 0 .. MaxFrame + 1]
  BY DEF Frames
<1>2. m \in Nat /\ Len(L) = m /\ DOMAIN L = 1 .. m /\ \A i \in 1 .. m : L[i] \in Nat
  BY <1>0, <1>1
<1> HIDE DEF L
<1>3. \A i \in 1 .. m : Frame(L[i]) \in Seq(Nat)
  BY <1>2, FrameFacts
<1>4. FramesFrom(k) = FlattenSeq([i \in 1 .. m - k |-> Frame(L[k + i])])
  BY <1>2 DEF FramesFrom, L
<1>5. Wire(job) = FramesFrom(0)
  <2>1. job.kind = "frames"
    BY DEF Frames
  <2>2. Wire(job) = FlattenSeq([i \in DOMAIN L |-> Frame(L[i])])
    BY <2>1 DEF Wire, L
  <2>3. FramesFrom(0) = FlattenSeq([i \in 1 .. m - 0 |-> Frame(L[0 + i])])
    BY <1>2 DEF FramesFrom, L
  <2>4. [i \in DOMAIN L |-> Frame(L[i])] = [i \in 1 .. m - 0 |-> Frame(L[0 + i])]
    <3>1. 1 .. m - 0 = DOMAIN L /\ \A i \in DOMAIN L : 0 + i = i
      BY <1>2
    <3> QED
      BY <3>1
  <2> QED
    BY <2>2, <2>3, <2>4
<1>6. ASSUME k < m
      PROVE  /\ L[k + 1] \in Nat /\ k + 1 \in 0 .. m
             /\ FramesFrom(k) = Frame(L[k + 1]) \o FramesFrom(k + 1)
             /\ FramesFrom(k) \in Seq(Nat)
  <2> DEFINE n == m - k - 1
             s == [i \in 1 .. n + 1 |-> Frame(L[k + i])]
             t == [i \in 1 .. n |-> s[1 + i]]
  <2>1. /\ n \in Nat /\ n + 1 = m - k /\ m - (k + 1) = n /\ k + 1 \in 0 .. m /\ k + 1 \in 1 .. m
        /\ k \in Nat /\ 1 \in 1 .. n + 1
    BY <1>2, <1>6
  <2>2. \A i \in 1 .. n + 1 : k + i \in 1 .. m
    BY <1>2, <2>1
  <2>3. s \in [1 .. n + 1 -> Seq(Nat)] /\ s[1] = Frame(L[k + 1])
    BY <1>3, <2>1, <2>2
  <2>4. FramesFrom(k) = FlattenSeq(s)
    BY <1>4, <2>1
  <2>5. FramesFrom(k + 1) = FlattenSeq(t)
    <3>1. FramesFrom(k + 1) = FlattenSeq([i \in 1 .. m - (k + 1) |-> Frame(L[(k + 1) + i])])
      BY <1>2 DEF FramesFrom, L
    <3>2. \A i \in 1 .. n : 1 + i \in 1 .. n + 1 /\ k + (1 + i) = (k + 1) + i
      BY <2>1
    <3>3. \A i \in 1 .. n : s[1 + i] = Frame(L[(k + 1) + i])
      <4>1. ASSUME NEW i \in 1 .. n PROVE s[1 + i] = Frame(L[(k + 1) + i])
        <5>1. s[1 + i] = Frame(L[k + (1 + i)])
          BY <3>2
        <5> QED
          BY <3>2, <5>1
      <4> QED
        BY <4>1
    <3>4. t = [i \in 1 .. n |-> Frame(L[(k + 1) + i])]
      <4> HIDE DEF s
      <4> QED
        BY <3>3
    <3> HIDE DEF t, n
    <3> QED
      BY <2>1, <3>1, <3>4
  <2> HIDE DEF s, n
  <2>6. FlattenSeq(s) = s[1] \o FlattenSeq(t) /\ FlattenSeq(s) \in Seq(Nat)
    BY <2>1, <2>3, FlattenFirst
  <2> QED
    BY <1>2, <2>1, <2>3, <2>4, <2>5, <2>6
<1>7. ASSUME k = m PROVE FramesFrom(k) = <<>>
  <2> DEFINE s == [i \in 1 .. m - k |-> Frame(L[k + i])]
  <2>1. m - k = 0 /\ 1 .. 0 = {}
    BY <1>2, <1>7
  <2>2. s = <<>>
    BY <2>1
  <2> HIDE DEF s
  <2>3. FlattenSeq(<<>>) = <<>>
    BY DEF FlattenSeq
  <2> QED
    BY <1>4, <2>2, <2>3 DEF s
<1>8. <<>> \in Seq(Nat) /\ (k < m \/ k = m)
  BY <1>2 DEF L
<1> QED
  BY <1>2, <1>5, <1>6, <1>7, <1>8 DEF L

LEMMA WireType ==
  ASSUME job \in Jobs
  PROVE  /\ Wire(job) \in Seq(Nat)
         /\ job \in Auth => job.kind = "auth" /\ Wire(job) = Fill(FrameBytes) \o Payload
         /\ job \in Socks5 => job.kind = "socks5"
         /\ job \in Socks4 => job.kind = "socks4"
         /\ job \in Frames => job.kind = "frames"
         /\ job.kind = "auth" => job \in Auth
         /\ job.kind = "socks5" => job \in Socks5
         /\ job.kind = "socks4" => job \in Socks4
         /\ job.kind = "frames" => job \in Frames
         /\ job \in Auth \/ job \in Socks5 \/ job \in Socks4 \/ job \in Frames
<1>1. /\ job \in Auth => job.kind = "auth"
      /\ job \in Socks5 => job.kind = "socks5"
      /\ job \in Socks4 => job.kind = "socks4"
      /\ job \in Frames => job.kind = "frames"
      /\ job \in Auth \/ job \in Socks5 \/ job \in Socks4 \/ job \in Frames
  <2>1. job \in Auth => job.kind = "auth"
    BY DEF Auth
  <2>2. job \in Socks5 => job.kind = "socks5"
    BY DEF Socks5
  <2>3. job \in Socks4 => job.kind = "socks4"
    BY DEF Socks4
  <2>4. job \in Frames => job.kind = "frames"
    BY DEF Frames
  <2> QED
    BY <2>1, <2>2, <2>3, <2>4 DEF Jobs
<1>2. job \in Auth => Wire(job) = Fill(FrameBytes) \o Payload
  BY <1>1 DEF Wire
<1>3. CASE job \in Auth
  BY <1>1, <1>2, <1>3, PayloadType
<1>4. CASE job \in Socks5
  <2>1. Wire(job) \in Seq(Nat)
    <3>1. /\ Wire(job) = <<5>> \o (<<Len(job.methods)>> \o (job.methods \o Rest5))
          /\ <<5>> \in Seq(Nat)
          /\ <<Len(job.methods)>> \o (job.methods \o Rest5) \in Seq(Nat)
      BY <1>4, Wire5, RestTypes
    <3> QED
      BY ONLY <3>1, Cat
  <2> QED
    BY <1>1, <1>4, <2>1
<1>5. CASE job \in Socks4
  <2>1. Wire(job) \in Seq(Nat)
    <3>1. Wire(job) = <<4>> \o Request4 /\ <<4>> \in Seq(Nat) /\ Request4 \in Seq(Nat)
      BY <1>5, Wire4, RestTypes
    <3> QED
      BY ONLY <3>1, Cat
  <2> QED
    BY <1>1, <1>5, <2>1
<1>6. CASE job \in Frames
  <2>1. PICK m \in 0 .. MaxFrames : job.lengths \in [1 .. m -> 0 .. MaxFrame + 1]
    BY <1>6 DEF Frames
  <2>2. Len(job.lengths) = m /\ m \in Nat
    BY <2>1, ReaderAssumption
  <2>3. 0 \in 0 .. Len(job.lengths)
    BY <2>2
  <2>4. Wire(job) \in Seq(Nat)
    BY <1>6, <2>3, FramesForm
  <2> QED
    BY <1>1, <1>6, <2>4
<1> QED
  BY <1>1, <1>3, <1>4, <1>5, <1>6

LEMMA AheadType ==
  ASSUME ReaderTypeOK
  PROVE  /\ Wire(job) \in Seq(Nat) /\ Ahead \in Seq(Nat) /\ Unread \in Seq(Nat)
         /\ arrived \in Nat /\ arrived <= Len(Wire(job)) /\ buffer \in Seq(Nat)
         /\ arrived = Len(Wire(job)) => Unread = buffer
<1>1. Wire(job) \in Seq(Nat) /\ arrived \in 0 .. Len(Wire(job)) /\ buffer \in Seq(Nat)
  BY WireType DEF ReaderTypeOK
<1>2. arrived \in Nat /\ arrived <= Len(Wire(job)) /\ Len(Wire(job)) \in Nat
  BY <1>1
<1>3. Ahead \in Seq(Nat)
  <2> DEFINE w == Wire(job)
  <2>1. w \in Seq(Nat)
    BY <1>1
  <2>2. \A i \in 1 .. Len(w) : w[i] \in Nat
    BY <2>1, ElementOfSeq
  <2>3. \A i \in arrived + 1 .. Len(w) : w[i] \in Nat
    <3>1. arrived + 1 .. Len(w) \subseteq 1 .. Len(w)
      BY <1>2
    <3> QED
      BY <2>2, <3>1
  <2>4. arrived + 1 \in Int /\ Len(w) \in Int
    BY <1>2
  <2>5. SubSeq(w, arrived + 1, Len(w)) \in Seq(Nat)
    BY ONLY <2>3, <2>4, SubSeqProperties
  <2> QED
    BY <2>5 DEF Ahead
<1>4. arrived = Len(Wire(job)) => Ahead = <<>>
  <2>1. SUFFICES ASSUME arrived = Len(Wire(job)) PROVE Ahead = <<>>
    OBVIOUS
  <2>2. Len(Wire(job)) < arrived + 1 /\ arrived + 1 \in Int /\ Len(Wire(job)) \in Int
    BY <1>2, <2>1
  <2> QED
    BY <2>2, SubSeqEmpty DEF Ahead
<1> QED
  BY <1>1, <1>2, <1>3, <1>4, Cat DEF Unread

\* A read of a field that is next takes this field, and leaves what follows it.
LEMMA ReadsFront ==
  ASSUME ReaderTypeOK, NEW a \in Seq(Nat), NEW r \in Seq(Nat), Unread = a \o r,
         NEW at, Reads(at, Len(a)), job' = job, arrived' = arrived
  PROVE  /\ step = at /\ Taken(Len(a)) = a
         /\ buffer' \in Seq(Nat) /\ Unread' = r
<1>0. buffer \o Ahead = a \o r
  <2>1. Unread = a \o r
    OBVIOUS
  <2>2. Unread = buffer \o Ahead
    BY DEF Unread
  <2> QED
    BY ONLY <2>1, <2>2
<1>1. /\ buffer \in Seq(Nat) /\ Ahead \in Seq(Nat) /\ buffer \o Ahead = a \o r
      /\ Len(a) <= Len(buffer)
  <2>1. Len(buffer) >= Len(a)
    BY DEF Reads
  <2>2. buffer \in Seq(Nat) /\ Ahead \in Seq(Nat)
    BY AheadType
  <2>3. Len(buffer) \in Nat /\ Len(a) \in Nat
    BY <2>2
  <2> QED
    BY ONLY <1>0, <2>1, <2>2, <2>3
<1>2. /\ SubSeq(buffer, 1, Len(a)) = a
      /\ SubSeq(buffer, Len(a) + 1, Len(buffer)) \in Seq(Nat)
      /\ SubSeq(buffer, Len(a) + 1, Len(buffer)) \o Ahead = r
  BY ONLY <1>1, a \in Seq(Nat), r \in Seq(Nat), TakeFront
<1>3. step = at /\ buffer' = SubSeq(buffer, Len(a) + 1, Len(buffer))
  BY DEF Reads
<1>4. Unread' = buffer' \o Ahead
  BY DEF Unread, Ahead
<1>5. Taken(Len(a)) = a
  BY <1>2 DEF Taken
<1>6. buffer' \in Seq(Nat) /\ Unread' = r
  BY ONLY <1>2, <1>3, <1>4
<1> QED
  BY <1>3, <1>5, <1>6

\* The answers to a SOCKS client.
Answer == {"no", "no authentication", "granted", "failed"}

LEMMA Appended ==
  ASSUME NEW R, NEW s \in Seq(R), NEW r \in R, NEW x
  PROVE  /\ Append(s, r) \in Seq(R)
         /\ (\A i \in DOMAIN s : s[i] # x) /\ r # x
              => \A i \in DOMAIN Append(s, r) : Append(s, r)[i] # x
  OBVIOUS

LEMMA Answers ==
  ASSUME ReaderTypeOK, NEW r \in Answer, replies' = Append(replies, r)
  PROVE  replies' \in Seq(Answer) /\ (Ungranted /\ r # "granted" => Ungranted')
<1>1. replies \in Seq(Answer)
  BY DEF ReaderTypeOK, Answer
<1>2. /\ Append(replies, r) \in Seq(Answer)
      /\ (\A i \in DOMAIN replies : replies[i] # "granted") /\ r # "granted"
           => \A i \in DOMAIN Append(replies, r) : Append(replies, r)[i] # "granted"
  BY <1>1, Appended
<1>3. Ungranted <=> \A i \in DOMAIN replies : replies[i] # "granted"
  BY DEF Ungranted
<1>4. Ungranted' <=> \A i \in DOMAIN replies' : replies'[i] # "granted"
  BY DEF Ungranted
<1> QED
  BY <1>2, <1>3, <1>4

StepNames == {"prefix", "version", "count", "methods", "request", "name length", "address", "port",
              "command", "user", "host", "connect", "open", "frame", "finished", "refused", "failed"}

\* What holds of a state of a reader that reads no frames.
LEMMA Reached ==
  ASSUME ReaderTypeOK, job' = job, arrived' = arrived, buffer' \in Seq(Nat), passed' \in Seq(Nat),
         step' \in StepNames,
         replies' \in Seq(Answer)
  PROVE  ReaderTypeOK'
<1>1. Wire(job)' = Wire(job)
  OBVIOUS
<1>2. job' \in Jobs /\ arrived' \in 0 .. Len(Wire(job)')
  BY <1>1 DEF ReaderTypeOK
<1>3. {buffer', passed'} \subseteq Seq(Nat)
  OBVIOUS
<1> QED
  BY <1>2, <1>3 DEF ReaderTypeOK, StepNames, Answer

LEMMA Refused ==
  ASSUME ReaderInv, ReaderTypeOK', job' = job, step' \in {"refused", "failed"}, passed' = <<>>,
         Ungranted', job \notin Frames
  PROVE  ReaderInv'
<1>1. AtEnds'
  BY DEF AtEnds
<1>2. AtSocks5'
  BY DEF AtSocks5
<1>3. AtSocks4'
  BY DEF AtSocks4
<1>4. AtFrames'
  BY DEF AtFrames
<1> QED
  BY <1>1, <1>2, <1>3, <1>4 DEF ReaderInv
--------------------------------------------------------------------------------
LEMMA ReaderStarts ==
  ASSUME ReaderInit
  PROVE  ReaderInv
<1>1. /\ job \in Jobs /\ arrived = 0 /\ buffer = <<>> /\ step = FirstStep(job)
      /\ got = <<>> /\ replies = <<>> /\ passed = <<>>
  BY DEF ReaderInit
<1>2. step \in {"prefix", "version", "frame"}
  BY <1>1 DEF FirstStep
<1>3. Wire(job) \in Seq(Nat)
  BY <1>1, WireType
<1>4. ReaderTypeOK
  <2>1. /\ <<>> \in Seq(Nat) /\ <<>> \in Seq({"no", "no authentication", "granted", "failed"})
    OBVIOUS
  <2>2. 0 \in 0 .. Len(Wire(job))
    BY <1>3
  <2> QED
    BY <1>1, <1>2, <2>1, <2>2 DEF ReaderTypeOK
<1>5. Unread = Wire(job)
  <2>1. Ahead = Wire(job)
    <3>1. SubSeq(Wire(job), 1, Len(Wire(job))) = Wire(job)
      BY <1>3, SubSeqFull
    <3>2. 0 + 1 = 1
      OBVIOUS
    <3> QED
      BY <1>1, <3>1, <3>2 DEF Ahead
  <2> QED
    BY <1>1, <1>3, <2>1, Cat DEF Unread
<1>6. Ungranted
  BY <1>1 DEF Ungranted
<1>7. CASE job \in Auth
  <2>1. step = "prefix" /\ Wire(job) = Fill(FrameBytes) \o Payload /\ job \notin Frames
    BY <1>1, <1>7, WireType DEF FirstStep
  <2> QED
    BY <1>1, <1>4, <1>5, <1>6, <1>7, <2>1
       DEF ReaderInv, AtEnds, AtSocks5, AtSocks4, AtFrames
<1>8. CASE job \in Socks5
  <2>1. step = "version" /\ job \notin Frames
    BY <1>1, <1>8, WireType DEF FirstStep
  <2>2. Wire(job) = <<5>> \o (<<Len(job.methods)>> \o (job.methods \o Rest5))
    BY <1>8, Wire5
  <2> QED
    BY <1>1, <1>4, <1>5, <1>6, <1>8, <2>1, <2>2
       DEF ReaderInv, AtEnds, AtSocks5, AtSocks4, AtFrames
<1>9. CASE job \in Socks4
  <2>1. step = "version" /\ job \notin Frames
    BY <1>1, <1>9, WireType DEF FirstStep
  <2>2. Wire(job) = <<4>> \o Request4
    BY <1>9, Wire4
  <2> QED
    BY <1>1, <1>4, <1>5, <1>6, <1>9, <2>1, <2>2
       DEF ReaderInv, AtEnds, AtSocks5, AtSocks4, AtFrames
<1>10. CASE job \in Frames
  <2>1. step = "frame"
    BY <1>1, <1>10, WireType DEF FirstStep
  <2>2. PICK m \in 0 .. MaxFrames : job.lengths \in [1 .. m -> 0 .. MaxFrame + 1]
    BY <1>10 DEF Frames
  <2>3. Len(job.lengths) = m /\ m \in Nat
    BY <2>2, ReaderAssumption
  <2>4. 0 \in 0 .. Len(job.lengths)
    BY <2>3
  <2>5. Wire(job) = FramesFrom(0)
    BY <1>10, <2>4, FramesForm
  <2>6. got \in Seq(Seq(Nat)) /\ Len(got) = 0 /\ 1 .. Len(got) = {} /\ Len(got) <= Len(job.lengths)
    BY <1>1, <2>3
  <2>7. AtFrames
    BY <1>5, <1>10, <2>1, <2>5, <2>6 DEF AtFrames
  <2> QED
    BY <1>1, <1>4, <1>6, <2>1, <2>7 DEF ReaderInv, AtEnds, AtSocks5, AtSocks4
<1> QED
  BY <1>1, <1>7, <1>8, <1>9, <1>10, WireType

\* A state of the SOCKS 5 or SOCKS 4 side; the rest of the invariant then says
\* nothing.
LEMMA Negotiates ==
  ASSUME ReaderTypeOK', job' = job, passed' = <<>>, Ungranted', job \notin Frames,
         step' \notin {"prefix", "version", "connect", "open", "frame", "finished"},
         AtSocks5', AtSocks4'
  PROVE  ReaderInv'
<1>1. AtEnds'
  BY DEF AtEnds
<1>2. AtFrames'
  BY DEF AtFrames
<1> QED
  BY <1>1, <1>2 DEF ReaderInv

\* What names the parts of a request does not change.
LEMMA JobStays ==
  ASSUME job' = job
  PROVE  /\ Host' = Host /\ Rest5' = Rest5 /\ Rest4' = Rest4 /\ Request4' = Request4
         /\ Allowed' = Allowed
<1>1. Host' = Host
  BY DEF Host
<1>2. Rest5' = Rest5
  BY DEF Rest5
<1>3. Rest4' = Rest4
  BY DEF Rest4
<1>4. Request4' = Request4
  BY <1>3 DEF Request4
<1>5. Allowed' = Allowed
  BY DEF Allowed
<1> QED
  BY <1>1, <1>2, <1>3, <1>4, <1>5

LEMMA NoBytes == <<>> \in Seq(Nat) /\ \A s \in Seq(Nat) : <<>> \o s = s
<1>1. <<>> \in Seq(Nat)
  OBVIOUS
<1> QED
  BY <1>1, Cat

LEMMA PrefixStep ==
  ASSUME ReaderInv, Prefix
  PROVE  ReaderInv'
<1> DEFINE a == Fill(FrameBytes)
<1>1. /\ Reads("prefix", FrameBytes) /\ got' = Append(got, Taken(FrameBytes)) /\ step' = "open"
      /\ job' = job /\ arrived' = arrived /\ replies' = replies /\ passed' = passed
  BY DEF Prefix, Field
<1>2. FrameBytes \in Nat /\ a \in Seq(Nat) /\ Len(a) = FrameBytes /\ Payload \in Seq(Nat)
  BY ReaderAssumption, FillType
<1>3. step = "prefix"
  BY <1>1 DEF Reads
<1>4. /\ ReaderTypeOK /\ job \in Auth /\ got = <<>> /\ Unread = a \o Payload
      /\ passed = <<>> /\ Ungranted
  BY <1>3 DEF ReaderInv, AtEnds
<1> HIDE DEF a
<1>5. Taken(FrameBytes) = a /\ buffer' \in Seq(Nat) /\ Unread' = Payload
  <2>1. Reads("prefix", Len(a))
    BY <1>1, <1>2
  <2>2. Taken(Len(a)) = a /\ buffer' \in Seq(Nat) /\ Unread' = Payload
    BY <1>1, <1>2, <1>4, <2>1, ReadsFront
  <2> QED
    BY <1>2, <2>2
<1>6. got' = <<a>>
  BY <1>1, <1>4, <1>5
<1>7. ReaderTypeOK'
  <2>1. passed' \in Seq(Nat) /\ replies' \in Seq(Answer) /\ step' \in StepNames
    BY <1>1, <1>4 DEF ReaderTypeOK, Answer, StepNames
  <2> QED
    BY <1>1, <1>4, <1>5, <2>1, Reached
<1>8. Ungranted' /\ job' \in Auth /\ job \notin Frames /\ <<>> \o Payload = Payload
  <2>1. job \notin Frames
    BY <1>4, WireType DEF ReaderTypeOK
  <2> QED
    BY <1>1, <1>2, <1>4, <2>1, NoBytes DEF Ungranted
<1>9. AtEnds'
  BY <1>1, <1>4, <1>5, <1>6, <1>8 DEF AtEnds, a
<1>10. AtSocks5' /\ AtSocks4' /\ AtFrames'
  BY <1>1, <1>8 DEF AtSocks5, AtSocks4, AtFrames
<1> QED
  BY <1>7, <1>9, <1>10 DEF ReaderInv

LEMMA VersionStep ==
  ASSUME ReaderInv, Version
  PROVE  ReaderInv'
<1>1. /\ Reads("version", 1) /\ step' = (IF Taken(1) = <<5>> THEN "count" ELSE "command")
      /\ job' = job /\ arrived' = arrived /\ got' = got /\ replies' = replies /\ passed' = passed
  BY DEF Version
<1>2. step = "version"
  BY <1>1 DEF Reads
<1>3. /\ ReaderTypeOK /\ got = <<>> /\ passed = <<>> /\ Ungranted
      /\ \/ /\ job \in Socks5
            /\ Unread = <<5>> \o (<<Len(job.methods)>> \o (job.methods \o Rest5))
         \/ job \in Socks4 /\ Unread = <<4>> \o Request4
  BY <1>2 DEF ReaderInv, AtEnds
<1>4. /\ <<5>> \in Seq(Nat) /\ <<4>> \in Seq(Nat) /\ Len(<<5>>) = 1 /\ Len(<<4>>) = 1
      /\ <<4>> # <<5>>
  OBVIOUS
<1>5. Ungranted' /\ passed' \in Seq(Nat) /\ replies' \in Seq(Answer) /\ step' \in StepNames
  BY <1>1, <1>3 DEF ReaderTypeOK, Answer, StepNames, Ungranted
<1>6. CASE job \in Socks5
  <2>1. job \notin Frames /\ job \notin Socks4
    BY <1>3, <1>6, WireType DEF ReaderTypeOK
  <2> DEFINE r == <<Len(job.methods)>> \o (job.methods \o Rest5)
  <2>2. r \in Seq(Nat)
    BY <1>6, RestTypes
  <2>3. Unread = <<5>> \o r
    BY <1>3, <2>1
  <2> HIDE DEF r
  <2>4. Taken(Len(<<5>>)) = <<5>> /\ buffer' \in Seq(Nat) /\ Unread' = r
    <3> DEFINE a == <<5>>
    <3>1. a \in Seq(Nat) /\ Reads("version", Len(a)) /\ Unread = a \o r
      BY <1>1, <1>4, <2>3
    <3> HIDE DEF a
    <3>2. Taken(Len(a)) = a /\ buffer' \in Seq(Nat) /\ Unread' = r
      BY <1>1, <1>3, <2>2, <3>1, ReadsFront
    <3> QED
      BY <3>2 DEF a
  <2>5. step' = "count"
    BY <1>1, <1>4, <2>4
  <2>6. AtSocks5'
    BY <1>1, <1>3, <1>6, <2>4, <2>5, JobStays DEF AtSocks5, r
  <2>7. AtSocks4'
    BY <2>5 DEF AtSocks4
  <2>8. ReaderTypeOK'
    BY <1>1, <1>3, <1>5, <2>4, Reached
  <2> QED
    BY <1>1, <1>3, <1>5, <2>1, <2>5, <2>6, <2>7, <2>8, Negotiates
<1>7. CASE job \in Socks4
  <2>1. job \notin Frames /\ job \notin Socks5
    BY <1>3, <1>7, WireType DEF ReaderTypeOK
  <2>2. Request4 \in Seq(Nat)
    BY <1>7, RestTypes
  <2>3. Unread = <<4>> \o Request4
    BY <1>3, <2>1
  <2>4. Taken(Len(<<4>>)) = <<4>> /\ buffer' \in Seq(Nat) /\ Unread' = Request4
    <3> DEFINE a == <<4>>
    <3>1. a \in Seq(Nat) /\ Reads("version", Len(a)) /\ Unread = a \o Request4
      BY <1>1, <1>4, <2>3
    <3> HIDE DEF a
    <3>2. Taken(Len(a)) = a /\ buffer' \in Seq(Nat) /\ Unread' = Request4
      BY <1>1, <1>3, <2>2, <3>1, ReadsFront
    <3> QED
      BY <3>2 DEF a
  <2>5. step' = "command"
    BY <1>1, <1>4, <2>4
  <2>6. AtSocks4'
    BY <1>1, <1>3, <1>7, <2>4, <2>5, JobStays DEF AtSocks4
  <2>7. AtSocks5'
    BY <2>5 DEF AtSocks5
  <2>8. ReaderTypeOK'
    BY <1>1, <1>3, <1>5, <2>4, Reached
  <2> QED
    BY <1>1, <1>3, <1>5, <2>1, <2>5, <2>6, <2>7, <2>8, Negotiates
<1> QED
  BY <1>3, <1>6, <1>7

\* A step of the negotiation, whatever field it reads.
LEMMA Moves ==
  ASSUME ReaderTypeOK, passed = <<>>, Ungranted, job' = job, arrived' = arrived, passed' = passed,
         replies' = replies \/ replies' = Append(replies, "no")
           \/ replies' = Append(replies, "no authentication"),
         buffer' \in Seq(Nat), step' \in StepNames
  PROVE  ReaderTypeOK' /\ Ungranted' /\ passed' = <<>>
<1>1. replies' \in Seq(Answer) /\ Ungranted'
  <2>1. CASE replies' = replies
    BY <2>1 DEF ReaderTypeOK, Answer, Ungranted
  <2>2. CASE replies' = Append(replies, "no")
    <3>1. "no" \in Answer /\ "no" # "granted"
      BY DEF Answer
    <3> QED
      BY <2>2, <3>1, Answers
  <2>3. CASE replies' = Append(replies, "no authentication")
    <3>1. "no authentication" \in Answer /\ "no authentication" # "granted"
      BY DEF Answer
    <3> QED
      BY <2>3, <3>1, Answers
  <2> QED
    BY <2>1, <2>2, <2>3
<1>2. passed' \in Seq(Nat) /\ passed' = <<>>
  BY NoBytes
<1> QED
  BY <1>1, <1>2, Reached

LEMMA MethodCountStep ==
  ASSUME ReaderInv, MethodCount
  PROVE  ReaderInv'
<1> DEFINE l == Len(job.methods)
           a == <<l>>
           r == job.methods \o Rest5
<1>1. /\ Reads("count", 1) /\ step' = "methods" /\ got' = Append(got, Taken(1)[1])
      /\ job' = job /\ arrived' = arrived /\ replies' = replies /\ passed' = passed
  BY DEF MethodCount, Field
<1>2. step = "count"
  BY <1>1 DEF Reads
<1>3. /\ ReaderTypeOK /\ job \in Socks5 /\ got = <<>> /\ Unread = a \o r
      /\ passed = <<>> /\ Ungranted
  BY <1>2 DEF ReaderInv, AtEnds, AtSocks5
<1>4. a \in Seq(Nat) /\ r \in Seq(Nat) /\ Len(a) = 1 /\ a[1] = l
  BY <1>3, RestTypes
<1> HIDE DEF a, r
<1>5. Taken(1) = a /\ buffer' \in Seq(Nat) /\ Unread' = r
  <2>1. Reads("count", Len(a))
    BY <1>1, <1>4
  <2>2. Taken(Len(a)) = a /\ buffer' \in Seq(Nat) /\ Unread' = r
    BY <1>1, <1>3, <1>4, <2>1, ReadsFront
  <2> QED
    BY <1>4, <2>2
<1>6. got' = <<l>>
  BY <1>1, <1>3, <1>4, <1>5
<1>7. job \notin Frames
  BY <1>3, WireType DEF ReaderTypeOK
<1>8. step' \in StepNames
  BY <1>1 DEF StepNames
<1>9. ReaderTypeOK' /\ Ungranted' /\ passed' = <<>>
  BY <1>1, <1>3, <1>5, <1>8, Moves
<1>10. AtSocks5'
  BY <1>1, <1>3, <1>5, <1>6, JobStays DEF AtSocks5, r
<1>11. AtSocks4'
  BY <1>1 DEF AtSocks4
<1> QED
  BY <1>1, <1>7, <1>9, <1>10, <1>11, Negotiates

LEMMA MethodsStep ==
  ASSUME ReaderInv, Methods
  PROVE  ReaderInv'
<1> DEFINE a == job.methods
<1>1. /\ Reads("methods", Last(got)) /\ got' = <<>>
      /\ IF 0 \in ToSet(Taken(Last(got)))
         THEN step' = "request" /\ replies' = Append(replies, "no authentication")
         ELSE step' = "refused" /\ replies' = Append(replies, "no")
      /\ job' = job /\ arrived' = arrived /\ passed' = passed
  BY DEF Methods, Refuses
<1>2. step = "methods"
  BY <1>1 DEF Reads
<1>3. /\ ReaderTypeOK /\ job \in Socks5 /\ got = <<Len(a)>> /\ Unread = a \o Rest5
      /\ passed = <<>> /\ Ungranted
  BY <1>2 DEF ReaderInv, AtEnds, AtSocks5
<1>4. a \in Seq(Nat) /\ Rest5 \in Seq(Nat)
  BY <1>3, RestTypes, Fields5
<1> HIDE DEF a
<1>5. Last(got) = Len(a)
  BY <1>3 DEF Last
<1>6. Taken(Last(got)) = a /\ buffer' \in Seq(Nat) /\ Unread' = Rest5
  <2>1. Reads("methods", Len(a))
    BY <1>1, <1>5
  <2>2. Taken(Len(a)) = a /\ buffer' \in Seq(Nat) /\ Unread' = Rest5
    BY <1>1, <1>3, <1>4, <2>1, ReadsFront
  <2> QED
    BY <1>5, <2>2
<1>7. job \notin Frames
  BY <1>3, WireType DEF ReaderTypeOK
<1>8. step' \in StepNames /\ step' \in {"request", "refused"}
  BY <1>1 DEF StepNames
<1>9. ReaderTypeOK' /\ Ungranted' /\ passed' = <<>>
  BY <1>1, <1>3, <1>6, <1>8, Moves
<1>10. CASE 0 \in ToSet(a)
  <2>1. step' = "request"
    BY <1>1, <1>6, <1>10
  <2>2. AtSocks5'
    BY <1>1, <1>3, <1>6, <1>10, <2>1, JobStays DEF AtSocks5, a
  <2>3. AtSocks4'
    BY <2>1 DEF AtSocks4
  <2> QED
    BY <1>1, <1>7, <1>9, <2>1, <2>2, <2>3, Negotiates
<1>11. CASE 0 \notin ToSet(a)
  <2>1. step' = "refused"
    BY <1>1, <1>6, <1>11
  <2> QED
    BY <1>1, <1>7, <1>9, <2>1, Refused
<1> QED
  BY <1>10, <1>11

\* What follows the type of a SOCKS 5 address.
LEMMA AddressForm ==
  ASSUME job \in Socks5
  PROVE  \E tail \in Seq(Nat) :
           /\ job.address = <<job.address[1]>> \o tail /\ job.address[1] \in Nat
           /\ job.address[1] = 1 => tail = Host /\ Len(Host) = 4
           /\ job.address[1] = 3 => tail = <<2>> \o Host /\ Len(Host) = 2
           /\ job.address[1] = 4 => tail = Host /\ Len(Host) = 16
<1> DEFINE ad == job.address
<1>1. /\ ad \in Seq(Nat) /\ Len(ad) >= 1 /\ Host \in Seq(Nat)
      /\ ad[1] = 1 => ad = <<1>> \o Host /\ Len(Host) = 4
      /\ ad[1] = 3 => ad = <<3>> \o (<<2>> \o Host) /\ Len(Host) = 2
      /\ ad[1] = 4 => ad = <<4>> \o Host /\ Len(Host) = 16
  BY Fields5
<1> HIDE DEF ad
<1>2. ad[1] \in Nat
  BY <1>1
<1>3. <<2>> \o Host \in Seq(Nat)
  <2>1. <<2>> \in Seq(Nat)
    OBVIOUS
  <2> QED
    BY <1>1, <2>1, Cat
<1>4. CASE ad[1] = 1
  <2>1. /\ ad = <<ad[1]>> \o (Host) /\ Host \in Seq(Nat)
        /\ ad[1] # 3 /\ ad[1] # 4 /\ Len(Host) = 4
    BY ONLY <1>1, <1>3, <1>4
  <2>2. Host \in Seq(Nat)
    BY <1>1
  <2> USE <2>2
  <2> WITNESS Host \in Seq(Nat)
  <2> QED
    BY <1>2, <1>4, <2>1 DEF ad
<1>5. CASE ad[1] = 3
  <2>1. /\ ad = <<ad[1]>> \o (<<2>> \o Host) /\ <<2>> \o Host \in Seq(Nat)
        /\ ad[1] # 1 /\ ad[1] # 4 /\ Len(Host) = 2
    BY ONLY <1>1, <1>3, <1>5
  <2> WITNESS <<2>> \o Host \in Seq(Nat)
  <2> QED
    BY <1>2, <1>5, <2>1 DEF ad
<1>6. CASE ad[1] = 4
  <2>1. /\ ad = <<ad[1]>> \o (Host) /\ Host \in Seq(Nat)
        /\ ad[1] # 1 /\ ad[1] # 3 /\ Len(Host) = 16
    BY ONLY <1>1, <1>3, <1>6
  <2>2. Host \in Seq(Nat)
    BY <1>1
  <2> USE <2>2
  <2> WITNESS Host \in Seq(Nat)
  <2> QED
    BY <1>2, <1>6, <2>1 DEF ad
<1>7. CASE ad[1] \notin {1, 3, 4}
  <2> DEFINE t == SubSeq(ad, 2, Len(ad))
  <2>1. ad = SubSeq(ad, 1, 1) \o t
    <3>1. 1 \in 1 .. Len(ad) + 1 /\ 1 \in 1 - 1 .. Len(ad) /\ Len(ad) \in 1 .. Len(ad) /\ 1 + 1 = 2
      BY <1>1
    <3>2. SubSeq(ad, 1, 1) \o SubSeq(ad, 1 + 1, Len(ad)) = SubSeq(ad, 1, Len(ad))
      BY <1>1, <3>1, ConcatAdjacentSubSeq
    <3>3. SubSeq(ad, 1, Len(ad)) = ad
      BY <1>1, SubSeqFull
    <3> QED
      BY <3>1, <3>2, <3>3
  <2>2. SubSeq(ad, 1, 1) = <<ad[1]>>
    <3> DEFINE u == SubSeq(ad, 1, 1)
               v == <<ad[1]>>
    <3>1. \A i \in 1 .. 1 : ad[i] \in Nat
      BY <1>2
    <3>2. u \in Seq(Nat) /\ Len(u) = 1 /\ u[1] = ad[1]
      <4>1. /\ u \in Seq(Nat) /\ Len(u) = IF 1 <= 1 THEN 1 - 1 + 1 ELSE 0
            /\ \A i \in 1 .. 1 - 1 + 1 : u[i] = ad[1 + i - 1]
        BY <3>1, SubSeqProperties
      <4>2. 1 \in 1 .. 1 - 1 + 1 /\ 1 + 1 - 1 = 1
        OBVIOUS
      <4> QED
        BY <4>1, <4>2
    <3>3. v \in Seq(Nat) /\ Len(v) = 1 /\ v[1] = ad[1]
      BY <1>2
    <3> HIDE DEF u, v
    <3>4. \A i \in 1 .. Len(u) : u[i] = v[i]
      <4>1. \A i \in 1 .. Len(u) : i = 1
        BY <3>2
      <4> QED
        BY <3>2, <3>3, <4>1
    <3>5. u = v
      BY <3>2, <3>3, <3>4, SeqEqual
    <3> QED
      BY <3>5 DEF u, v
  <2>3. t \in Seq(Nat)
    <3>1. \A i \in 1 .. Len(ad) : ad[i] \in Nat
      BY <1>1, ElementOfSeq
    <3>2. \A i \in 2 .. Len(ad) : ad[i] \in Nat
      BY <3>1
    <3>3. 2 \in Int /\ Len(ad) \in Int
      BY <1>1
    <3> QED
      BY <3>2, <3>3, SubSeqProperties
  <2> HIDE DEF t
  <2> QED
    BY <1>2, <1>7, <2>1, <2>2, <2>3 DEF ad
<1> QED
  BY <1>4, <1>5, <1>6, <1>7

LEMMA RequestStep ==
  ASSUME ReaderInv, Request
  PROVE  ReaderInv'
<1> DEFINE o == job.command
           type == job.address[1]
           h == <<5, o, 0>>
           y == <<type>>
           a == h \o y
           f == Fill(2) \o Payload
<1>1. /\ Reads("request", 4)
      /\ IF Taken(4)[2] # 1 \/ Taken(4)[4] \notin {1, 3, 4}
         THEN step' = "refused" /\ replies' = Append(replies, "no") /\ got' = got
         ELSE /\ step' = IF Taken(4)[4] = 3 THEN "name length" ELSE "address"
              /\ got' = Append(got, IF Taken(4)[4] = 1 THEN 4 ELSE 16)
              /\ replies' = replies
      /\ job' = job /\ arrived' = arrived /\ passed' = passed
  BY DEF Request, Refuses, Field
<1>2. step = "request"
  BY <1>1 DEF Reads
<1>3. /\ ReaderTypeOK /\ job \in Socks5 /\ 0 \in ToSet(job.methods) /\ got = <<>>
      /\ Unread = Rest5 /\ passed = <<>> /\ Ungranted
  BY <1>2 DEF ReaderInv, AtEnds, AtSocks5
<1>4. PICK tail \in Seq(Nat) :
        /\ job.address = y \o tail /\ type \in Nat
        /\ type = 1 => tail = Host /\ Len(Host) = 4
        /\ type = 3 => tail = <<2>> \o Host /\ Len(Host) = 2
        /\ type = 4 => tail = Host /\ Len(Host) = 16
  BY <1>3, AddressForm
<1>5. /\ h \in Seq(Nat) /\ Len(h) = 3 /\ h[2] = o /\ y \in Seq(Nat) /\ Len(y) = 1 /\ y[1] = type
      /\ f \in Seq(Nat) /\ Host \in Seq(Nat) /\ o \in Nat
  <2>1. o \in Nat /\ Host \in Seq(Nat)
    BY <1>3, Fields5
  <2>2. f \in Seq(Nat)
    BY PayloadType
  <2>3. h \in Seq(Nat) /\ Len(h) = 3 /\ h[2] = o
    BY <2>1
  <2>4. y \in Seq(Nat) /\ Len(y) = 1 /\ y[1] = type
    BY <1>4
  <2> QED
    BY <2>1, <2>2, <2>3, <2>4
<1>6. Rest5 = h \o ((y \o tail) \o f)
  BY <1>4 DEF Rest5
<1> HIDE DEF h, y, f, type, o
<1>7. a \in Seq(Nat) /\ Len(a) = 4 /\ a[2] = o /\ a[4] = type
  <2>1. a \in Seq(Nat) /\ Len(a) = Len(h) + Len(y)
    BY <1>5, Cat
  <2>2. /\ Len(h) + Len(y) = 4 /\ 2 \in 1 .. Len(h) + Len(y) /\ 4 \in 1 .. Len(h) + Len(y)
        /\ 2 <= Len(h) /\ ~(4 <= Len(h)) /\ 4 - Len(h) = 1
    BY <1>5
  <2>3. a[2] = h[2] /\ a[4] = y[4 - Len(h)]
    BY <1>5, <2>2, Cat
  <2> QED
    BY <1>5, <2>1, <2>2, <2>3
<1>8. Rest5 = a \o (tail \o f) /\ tail \o f \in Seq(Nat)
  <2>1. \A s, t, u \in Seq(Nat) : Regroups(s, t, u)
    BY Assoc DEF Regroups
  <2>2. tail \o f \in Seq(Nat)
    BY <1>5, Cat
  <2>3. Regroups(y, tail, f) /\ Regroups(h, y, tail \o f)
    BY <1>5, <2>1, <2>2
  <2> QED
    BY <1>6, <2>2, <2>3 DEF Regroups
<1> HIDE DEF a
<1>9. Taken(4) = a /\ buffer' \in Seq(Nat) /\ Unread' = tail \o f
  <2>1. Reads("request", Len(a)) /\ Unread = a \o (tail \o f)
    BY <1>1, <1>3, <1>7, <1>8
  <2>2. Taken(Len(a)) = a /\ buffer' \in Seq(Nat) /\ Unread' = tail \o f
    BY <1>1, <1>3, <1>7, <1>8, <2>1, ReadsFront
  <2> QED
    BY <1>7, <2>2
<1>10. /\ step' \in StepNames /\ job \notin Frames
       /\ replies' = replies \/ replies' = Append(replies, "no")
  <2>1. job \notin Frames
    BY <1>3, WireType DEF ReaderTypeOK
  <2>2. step' \in {"refused", "name length", "address"}
        /\ (replies' = replies \/ replies' = Append(replies, "no"))
    BY <1>1
  <2> QED
    BY <2>1, <2>2 DEF StepNames
<1>11. ReaderTypeOK' /\ Ungranted' /\ passed' = <<>>
  BY <1>1, <1>3, <1>9, <1>10, Moves
<1>12. CASE o # 1 \/ type \notin {1, 3, 4}
  <2>1. step' = "refused"
    BY <1>1, <1>7, <1>9, <1>12
  <2> QED
    BY <1>1, <1>10, <1>11, <2>1, Refused
<1>13. CASE o = 1 /\ type \in {1, 3, 4}
  <2>1. /\ step' = IF type = 3 THEN "name length" ELSE "address"
        /\ got' = Append(<<>>, IF type = 1 THEN 4 ELSE 16)
    BY <1>1, <1>3, <1>7, <1>9, <1>13
  <2>2. Allowed
    BY <1>3, <1>13 DEF Allowed, o, type
  <2>3. CASE type = 3
    <3>1. tail = <<2>> \o Host /\ <<2>> \in Seq(Nat)
      BY <1>4, <2>3
    <3>2. tail \o f = <<2>> \o (Host \o f)
      <4> DEFINE z == <<2>>
      <4>1. z \in Seq(Nat) /\ tail = z \o Host
        BY <3>1
      <4> HIDE DEF z
      <4>2. Host \in Seq(Nat) /\ f \in Seq(Nat)
        BY <1>5
      <4>3. (z \o Host) \o f = z \o (Host \o f)
        BY ONLY <4>1, <4>2, Assoc
      <4>4. tail \o f = z \o (Host \o f)
        BY ONLY <4>1, <4>3
      <4> QED
        BY <4>4 DEF z
    <3>3. step' = "name length"
      BY <2>1, <2>3
    <3>4. AtSocks5'
      BY <1>1, <1>3, <1>9, <2>2, <2>3, <3>2, <3>3, JobStays DEF AtSocks5, f, type
    <3>5. AtSocks4'
      BY <3>3 DEF AtSocks4
    <3> QED
      BY <1>1, <1>10, <1>11, <3>3, <3>4, <3>5, Negotiates
  <2>4. CASE type # 3
    <3>1. step' = "address"
      BY <2>1, <2>4
    <3>2. tail = Host /\ got' = <<Len(Host)>>
      <4>1. CASE type = 1
        BY <1>4, <2>1, <4>1
      <4>2. CASE type = 4
        BY <1>4, <2>1, <4>2
      <4> QED
        BY <1>13, <2>4, <4>1, <4>2
    <3>3. AtSocks5'
      BY <1>1, <1>3, <1>9, <2>2, <3>1, <3>2, JobStays DEF AtSocks5, f
    <3>4. AtSocks4'
      BY <3>1 DEF AtSocks4
    <3> QED
      BY <1>1, <1>10, <1>11, <3>1, <3>3, <3>4, Negotiates
  <2> QED
    BY <2>3, <2>4
<1> QED
  BY <1>12, <1>13

LEMMA NameLengthStep ==
  ASSUME ReaderInv, NameLength
  PROVE  ReaderInv'
<1> DEFINE a == <<2>>
           r == Host \o (Fill(2) \o Payload)
<1>1. /\ Reads("name length", 1) /\ step' = "address" /\ got' = <<Taken(1)[1]>>
      /\ job' = job /\ arrived' = arrived /\ replies' = replies /\ passed' = passed
  BY DEF NameLength
<1>2. step = "name length"
  BY <1>1 DEF Reads
<1>3. /\ ReaderTypeOK /\ job \in Socks5 /\ Allowed /\ job.address[1] = 3 /\ Unread = a \o r
      /\ passed = <<>> /\ Ungranted
  BY <1>2 DEF ReaderInv, AtEnds, AtSocks5
<1>4. a \in Seq(Nat) /\ Len(a) = 1 /\ a[1] = 2 /\ r \in Seq(Nat) /\ Len(Host) = 2
  <2>1. Host \in Seq(Nat) /\ Len(Host) = 2
    BY <1>3, Fields5
  <2>2. Fill(2) \o Payload \in Seq(Nat)
    BY PayloadType
  <2>3. r \in Seq(Nat)
    BY <2>1, <2>2, Cat
  <2>4. a \in Seq(Nat) /\ Len(a) = 1 /\ a[1] = 2
    OBVIOUS
  <2> QED
    BY <2>1, <2>3, <2>4
<1> HIDE DEF a, r
<1>5. Taken(1) = a /\ buffer' \in Seq(Nat) /\ Unread' = r
  <2>1. Reads("name length", Len(a))
    BY <1>1, <1>4
  <2>2. Taken(Len(a)) = a /\ buffer' \in Seq(Nat) /\ Unread' = r
    BY <1>1, <1>3, <1>4, <2>1, ReadsFront
  <2> QED
    BY <1>4, <2>2
<1>6. got' = <<Len(Host)>>
  BY <1>1, <1>4, <1>5
<1>7. job \notin Frames /\ step' \in StepNames
  BY <1>1, <1>3, WireType DEF ReaderTypeOK, StepNames
<1>8. ReaderTypeOK' /\ Ungranted' /\ passed' = <<>>
  BY <1>1, <1>3, <1>5, <1>7, Moves
<1>9. AtSocks5'
  BY <1>1, <1>3, <1>5, <1>6, JobStays DEF AtSocks5, r
<1>10. AtSocks4'
  BY <1>1 DEF AtSocks4
<1> QED
  BY <1>1, <1>7, <1>8, <1>9, <1>10, Negotiates

LEMMA AddressStep ==
  ASSUME ReaderInv, Address
  PROVE  ReaderInv'
<1> DEFINE r == Fill(2) \o Payload
<1>1. /\ Reads("address", Last(got)) /\ step' = "port" /\ got' = <<Taken(Last(got))>>
      /\ job' = job /\ arrived' = arrived /\ replies' = replies /\ passed' = passed
  BY DEF Address
<1>2. step = "address"
  BY <1>1 DEF Reads
<1>3. /\ ReaderTypeOK /\ job \in Socks5 /\ Allowed /\ got = <<Len(Host)>> /\ Unread = Host \o r
      /\ passed = <<>> /\ Ungranted
  BY <1>2 DEF ReaderInv, AtEnds, AtSocks5
<1>4. Host \in Seq(Nat) /\ r \in Seq(Nat)
  BY <1>3, Fields5, PayloadType
<1> HIDE DEF r
<1>5. Last(got) = Len(Host)
  BY <1>3 DEF Last
<1>6. Taken(Last(got)) = Host /\ buffer' \in Seq(Nat) /\ Unread' = r
  <2>1. Reads("address", Len(Host))
    BY <1>1, <1>5
  <2>2. Taken(Len(Host)) = Host /\ buffer' \in Seq(Nat) /\ Unread' = r
    BY <1>1, <1>3, <1>4, <2>1, ReadsFront
  <2> QED
    BY <1>5, <2>2
<1>7. job \notin Frames /\ step' \in StepNames
  BY <1>1, <1>3, WireType DEF ReaderTypeOK, StepNames
<1>8. ReaderTypeOK' /\ Ungranted' /\ passed' = <<>>
  BY <1>1, <1>3, <1>6, <1>7, Moves
<1>9. AtSocks5'
  BY <1>1, <1>3, <1>6, JobStays DEF AtSocks5, r
<1>10. AtSocks4'
  BY <1>1 DEF AtSocks4
<1> QED
  BY <1>1, <1>7, <1>8, <1>9, <1>10, Negotiates

\* A state that connects, or has been handed its stream.
LEMMA Connects ==
  ASSUME ReaderTypeOK', job' = job, passed' = <<>>, Ungranted', job \notin Frames,
         step' = "connect", Allowed, got' = <<Host>>, Unread' = Payload
  PROVE  ReaderInv'
<1>1. AtEnds'
  BY JobStays DEF AtEnds
<1>2. AtSocks5' /\ AtSocks4' /\ AtFrames'
  BY DEF AtSocks5, AtSocks4, AtFrames
<1> QED
  BY <1>1, <1>2 DEF ReaderInv

LEMMA PortStep ==
  ASSUME ReaderInv, Port
  PROVE  ReaderInv'
<1> DEFINE a == Fill(2)
<1>1. /\ Reads("port", 2) /\ step' = "connect" /\ got' = got
      /\ job' = job /\ arrived' = arrived /\ replies' = replies /\ passed' = passed
  BY DEF Port
<1>2. step = "port"
  BY <1>1 DEF Reads
<1>3. /\ ReaderTypeOK /\ job \in Socks5 /\ Allowed /\ got = <<Host>> /\ Unread = a \o Payload
      /\ passed = <<>> /\ Ungranted
  BY <1>2 DEF ReaderInv, AtEnds, AtSocks5
<1>4. a \in Seq(Nat) /\ Len(a) = 2 /\ Payload \in Seq(Nat)
  BY FillType, PayloadType
<1> HIDE DEF a
<1>5. buffer' \in Seq(Nat) /\ Unread' = Payload
  <2>1. Reads("port", Len(a))
    BY <1>1, <1>4
  <2> QED
    BY <1>1, <1>3, <1>4, <2>1, ReadsFront
<1>6. job \notin Frames /\ step' \in StepNames
  BY <1>1, <1>3, WireType DEF ReaderTypeOK, StepNames
<1>7. ReaderTypeOK' /\ Ungranted' /\ passed' = <<>>
  BY <1>1, <1>3, <1>5, <1>6, Moves
<1> QED
  BY <1>1, <1>3, <1>5, <1>6, <1>7, Connects

LEMMA Command4Step ==
  ASSUME ReaderInv, Command4
  PROVE  ReaderInv'
<1> DEFINE o == job.command
           ip == job.ip
           c == <<o>>
           h == c \o Fill(2)
           a == c \o (Fill(2) \o ip)
           r == job.user \o (<<0>> \o Rest4)
<1>1. /\ Reads("command", 7) /\ step' = "user"
      /\ got' = <<Taken(1)[1], SubSeq(Taken(7), 4, 7), <<>>>>
      /\ job' = job /\ arrived' = arrived /\ replies' = replies /\ passed' = passed
  <2>1. 1 + 2 + 4 = 7
    OBVIOUS
  <2> QED
    BY <2>1 DEF Command4
<1>2. step = "command"
  BY <1>1 DEF Reads
<1>3. /\ ReaderTypeOK /\ job \in Socks4 /\ got = <<>> /\ Unread = a \o r
      /\ passed = <<>> /\ Ungranted
  BY <1>2 DEF ReaderInv, AtEnds, AtSocks4, Request4
<1>4. /\ o \in Nat /\ ip \in Seq(Nat) /\ Len(ip) = 4 /\ a \in Seq(Nat) /\ r \in Seq(Nat)
      /\ \E k \in 0 .. 2 : job.user = Fill(k)
  BY <1>3, Fields4, RestTypes
<1>5. /\ c \in Seq(Nat) /\ Len(c) = 1 /\ c[1] = o
      /\ Fill(2) \in Seq(Nat) /\ Len(Fill(2)) = 2
  <2>1. Fill(2) \in Seq(Nat) /\ Len(Fill(2)) = 2
    BY FillType
  <2>2. c \in Seq(Nat) /\ Len(c) = 1 /\ c[1] = o
    BY <1>4
  <2> QED
    BY <2>1, <2>2
<1>6. a = h \o ip
  <2>1. Regroups(c, Fill(2), ip)
    <3>1. c \in Seq(Nat) /\ Fill(2) \in Seq(Nat) /\ ip \in Seq(Nat)
      BY <1>4, <1>5
    <3>2. (c \o Fill(2)) \o ip = c \o (Fill(2) \o ip)
      BY ONLY <3>1, Assoc
    <3> QED
      BY ONLY <3>2 DEF Regroups
  <2> QED
    BY <2>1 DEF Regroups
<1> HIDE DEF o, ip, c, a, r
<1>7. h \in Seq(Nat) /\ Len(h) = 3 /\ h[1] = o
  <2>1. h \in Seq(Nat) /\ Len(h) = Len(c) + Len(Fill(2))
    BY <1>5, Cat
  <2>2. Len(c) + Len(Fill(2)) = 3 /\ 1 \in 1 .. Len(c) + Len(Fill(2)) /\ 1 <= Len(c)
    <3>1. ASSUME NEW m \in Nat, NEW n \in Nat, m = 1, n = 2
          PROVE  m + n = 3 /\ 1 \in 1 .. m + n /\ 1 <= m
      BY <3>1
    <3>2. Len(c) \in Nat /\ Len(Fill(2)) \in Nat
      BY <1>5
    <3> QED
      BY ONLY <1>5, <3>1, <3>2
  <2>3. h[1] = c[1]
    BY <1>5, <2>2, Cat
  <2> QED
    BY <1>5, <2>1, <2>2, <2>3
<1> HIDE DEF h
<1>8. Len(a) = 7 /\ a[1] = o /\ SubSeq(a, 4, 7) = ip
  <2>1. h \o ip \in Seq(Nat) /\ Len(h \o ip) = Len(h) + Len(ip)
    BY <1>4, <1>7, Cat
  <2>2. Len(h) + Len(ip) = 7 /\ 1 \in 1 .. Len(h) + Len(ip) /\ 1 <= Len(h) /\ Len(h) + 1 = 4
    BY <1>4, <1>7
  <2>3. (h \o ip)[1] = h[1]
    BY <1>4, <1>7, <2>2, Cat
  <2>4. SubSeq(h \o ip, Len(h) + 1, Len(h \o ip)) = ip
    BY <1>4, <1>7, Behind
  <2>5. SubSeq(h \o ip, 4, 7) = ip
    BY ONLY <2>1, <2>2, <2>4
  <2> QED
    BY ONLY <1>6, <1>7, <2>1, <2>2, <2>3, <2>5
<1>9. Taken(7) = a /\ buffer' \in Seq(Nat) /\ Unread' = r
  <2>1. Reads("command", Len(a))
    BY <1>1, <1>8
  <2>2. Taken(Len(a)) = a /\ buffer' \in Seq(Nat) /\ Unread' = r
    BY <1>1, <1>3, <1>4, <2>1, ReadsFront
  <2> QED
    BY <1>8, <2>2
<1>10. Taken(1)[1] = o
  <2>1. buffer \in Seq(Nat) /\ Len(buffer) >= 7 /\ SubSeq(buffer, 1, 7) = a
    BY <1>1, <1>3, <1>9, AheadType DEF Reads, Taken
  <2>2. ASSUME NEW b \in Seq(Nat), Len(b) >= 7
        PROVE  SubSeq(b, 1, 1)[1] = b[1] /\ SubSeq(b, 1, 7)[1] = b[1]
    BY <2>2
  <2>3. SubSeq(buffer, 1, 1)[1] = buffer[1] /\ SubSeq(buffer, 1, 7)[1] = buffer[1]
    BY <2>1, <2>2
  <2> QED
    BY <1>8, <2>1, <2>3 DEF Taken
<1>11. got' = <<o, ip, <<>>>>
  BY <1>1, <1>8, <1>9, <1>10
<1>12. job \notin Frames /\ step' \in StepNames
  BY <1>1, <1>3, WireType DEF ReaderTypeOK, StepNames
<1>13. ReaderTypeOK' /\ Ungranted' /\ passed' = <<>>
  BY <1>1, <1>3, <1>9, <1>12, Moves
<1>14. AtSocks4'
  <2>1. PICK k \in 0 .. 2 : job.user = Fill(k)
    BY <1>4
  <2>2. Unread' = Fill(k) \o (<<0>> \o Rest4)
    BY <1>9, <2>1 DEF r
  <2>3. \E n \in 0 .. 2 : Unread' = Fill(n) \o (<<0>> \o Rest4')
    BY <1>1, <2>2, JobStays
  <2>4. job' \in Socks4 /\ got' = <<job'.command, job'.ip, got'[3]>>
    BY <1>1, <1>3, <1>11 DEF o, ip
  <2> QED
    BY <1>1, <2>3, <2>4 DEF AtSocks4
<1>15. AtSocks5'
  BY <1>1 DEF AtSocks5
<1> QED
  BY <1>1, <1>12, <1>13, <1>14, <1>15, Negotiates

\* A string that ends with a zero: the next byte, and what follows it.
LEMMA StringForm ==
  ASSUME NEW k \in Nat, NEW r \in Seq(Nat)
  PROVE  /\ k > 0 => /\ Fill(k) \o (<<0>> \o r) = <<7>> \o (Fill(k - 1) \o (<<0>> \o r))
                     /\ Fill(k - 1) \o (<<0>> \o r) \in Seq(Nat)
         /\ k = 0 => Fill(k) \o (<<0>> \o r) = <<0>> \o r
<1> DEFINE z == <<0>> \o r
           q == <<7>>
<1>1. z \in Seq(Nat) /\ q \in Seq(Nat)
  <2>1. <<0>> \in Seq(Nat) /\ q \in Seq(Nat)
    OBVIOUS
  <2> QED
    BY <2>1, Cat
<1>2. ASSUME k > 0 PROVE Fill(k) = q \o Fill(k - 1) /\ Fill(k - 1) \in Seq(Nat)
  <2>1. Fill(k) = q \o Fill(k - 1) /\ k - 1 \in Nat
    BY <1>2, FillType
  <2> QED
    BY <2>1, FillType
<1>3. ASSUME k = 0 PROVE Fill(k) = <<>>
  BY <1>3 DEF Fill
<1> HIDE DEF z, q
<1>4. ASSUME k > 0
      PROVE  Fill(k) \o z = q \o (Fill(k - 1) \o z) /\ Fill(k - 1) \o z \in Seq(Nat)
  <2>1. Fill(k) = q \o Fill(k - 1) /\ Fill(k - 1) \in Seq(Nat)
    BY <1>2, <1>4
  <2> DEFINE f == Fill(k - 1)
  <2>2. f \in Seq(Nat)
    BY <2>1
  <2> HIDE DEF f
  <2>3. Regroups(q, f, z)
    BY <1>1, <2>2, Assoc DEF Regroups
  <2>4. f \o z \in Seq(Nat)
    BY <1>1, <2>2, Cat
  <2>5. Fill(k) = q \o f
    BY <2>1 DEF f
  <2>6. Fill(k) \o z = q \o (f \o z)
    BY ONLY <2>3, <2>5 DEF Regroups
  <2> QED
    BY <2>4, <2>6 DEF f
<1>5. ASSUME k = 0 PROVE Fill(k) \o z = z
  BY <1>1, <1>3, <1>5, NoBytes
<1> QED
  BY <1>4, <1>5 DEF z, q

LEMMA CStringStep ==
  ASSUME ReaderInv, CString
  PROVE  ReaderInv'
<1>1. /\ Reads(step, 1) /\ step \in {"user", "host"}
      /\ IF Taken(1) # <<0>>
         THEN got' = [got EXCEPT ![3] = got[3] \o Taken(1)] /\ step' = step /\ replies' = replies
         ELSE IF step = "user"
         THEN IF got[1] # 1 THEN step' = "refused" /\ replies' = Append(replies, "no") /\ got' = got
              ELSE IF Is4a(got[2])
              THEN step' = "host" /\ got' = [got EXCEPT ![3] = <<>>] /\ replies' = replies
              ELSE step' = "connect" /\ got' = <<got[2]>> /\ replies' = replies
         ELSE step' = "connect" /\ got' = <<got[3]>> /\ replies' = replies
      /\ job' = job /\ arrived' = arrived /\ passed' = passed
  BY DEF CString, Refuses
<1>2. ReaderTypeOK /\ passed = <<>> /\ Ungranted /\ job \in Socks4
  BY <1>1 DEF ReaderInv, AtEnds, AtSocks4
<1>3. /\ job \notin Frames /\ step' \in StepNames
      /\ replies' = replies \/ replies' = Append(replies, "no")
  <2>1. step' \in {"user", "host", "refused", "connect"}
        /\ (replies' = replies \/ replies' = Append(replies, "no"))
    BY <1>1
  <2> QED
    BY <1>2, <2>1, WireType DEF ReaderTypeOK, StepNames
<1>4. /\ <<7>> \in Seq(Nat) /\ Len(<<7>>) = 1 /\ <<0>> \in Seq(Nat) /\ Len(<<0>>) = 1
      /\ <<7>> # <<0>>
  OBVIOUS
<1>5. ASSUME NEW x \in Nat, NEW r \in Seq(Nat), Unread = <<x>> \o r
      PROVE  /\ Taken(1) = <<x>> /\ Unread' = r
             /\ ReaderTypeOK' /\ Ungranted' /\ passed' = <<>>
  <2> DEFINE a == <<x>>
  <2>1. a \in Seq(Nat) /\ Len(a) = 1 /\ Unread = a \o r
    BY <1>5
  <2> HIDE DEF a
  <2>2. Reads(step, Len(a))
    BY <1>1, <2>1
  <2>3. Taken(Len(a)) = a /\ buffer' \in Seq(Nat) /\ Unread' = r
    BY <1>1, <1>2, <2>1, <2>2, ReadsFront
  <2>4. ReaderTypeOK' /\ Ungranted' /\ passed' = <<>>
    BY <1>1, <1>2, <1>3, <2>3, Moves
  <2> QED
    BY <2>1, <2>3, <2>4 DEF a
<1>6. Rest4 \in Seq(Nat) /\ Payload \in Seq(Nat) /\ job.ip \in Seq(Nat)
      /\ (Host = IF Is4a(job.ip) THEN Fill(3) ELSE job.ip)
  BY <1>2, RestTypes, PayloadType, Fields4
<1>7. CASE step = "user"
  <2>1. got = <<job.command, job.ip, got[3]>>
    BY <1>7 DEF ReaderInv, AtSocks4
  <2>2. PICK k \in 0 .. 2 : Unread = Fill(k) \o (<<0>> \o Rest4)
    BY <1>7 DEF ReaderInv, AtSocks4
  <2>3. k \in Nat /\ (k > 0 \/ k = 0)
    OBVIOUS
  <2>4. CASE k > 0
    <3>1. /\ Unread = <<7>> \o (Fill(k - 1) \o (<<0>> \o Rest4))
          /\ Fill(k - 1) \o (<<0>> \o Rest4) \in Seq(Nat)
      BY <1>6, <2>2, <2>3, <2>4, StringForm
    <3>2. /\ Taken(1) = <<7>> /\ Unread' = Fill(k - 1) \o (<<0>> \o Rest4)
          /\ ReaderTypeOK' /\ Ungranted' /\ passed' = <<>>
      BY <1>5, <3>1
    <3>3. step' = "user" /\ got' = [got EXCEPT ![3] = got[3] \o Taken(1)]
      BY <1>1, <1>4, <1>7, <3>2
    <3>4. got' = <<job.command, job.ip, got'[3]>>
      <4> DEFINE g == got[3]
                 y == got[3] \o Taken(1)
      <4>1. got = <<job.command, job.ip, g>> /\ got' = [got EXCEPT ![3] = y]
        BY <2>1, <3>3
      <4> HIDE DEF g, y
      <4> QED
        BY ONLY <4>1
    <3>5. \E n \in 0 .. 2 : Unread' = Fill(n) \o (<<0>> \o Rest4')
      <4>1. k - 1 \in 0 .. 2
        BY <2>4
      <4> QED
        BY <1>1, <3>2, <4>1, JobStays
    <3>6. AtSocks4'
      BY <1>1, <1>2, <3>3, <3>4, <3>5 DEF AtSocks4
    <3>7. AtSocks5'
      BY <3>3 DEF AtSocks5
    <3> QED
      BY <1>1, <1>3, <3>2, <3>3, <3>6, <3>7, Negotiates
  <2>5. CASE k = 0
    <3>1. Unread = <<0>> \o Rest4
      BY <1>6, <2>2, <2>3, <2>5, StringForm
    <3>2. /\ Taken(1) = <<0>> /\ Unread' = Rest4
          /\ ReaderTypeOK' /\ Ungranted' /\ passed' = <<>>
      BY <1>5, <1>6, <3>1
    <3>3. got[1] = job.command /\ got[2] = job.ip
      BY <2>1
    <3>4. CASE job.command # 1
      <4>1. step' = "refused"
        BY <1>1, <1>7, <3>2, <3>3, <3>4
      <4> QED
        BY <1>1, <1>3, <3>2, <4>1, Refused
    <3>5. ASSUME job.command = 1 PROVE Allowed
      <4>1. job \notin Socks5
        BY <1>2, WireType DEF ReaderTypeOK
      <4> QED
        BY <1>2, <3>5, <4>1 DEF Allowed
    <3>6. CASE job.command = 1 /\ Is4a(job.ip)
      <4>1. step' = "host" /\ got' = [got EXCEPT ![3] = <<>>]
        BY <1>1, <1>7, <3>2, <3>3, <3>6
      <4>2. got' = <<job.command, job.ip, Fill(3 - 3)>>
        <5>1. Fill(3 - 3) = <<>>
          BY DEF Fill
        <5> DEFINE g == got[3]
        <5>2. got = <<job.command, job.ip, g>>
          BY <2>1
        <5> HIDE DEF g
        <5> QED
          BY ONLY <4>1, <5>1, <5>2
      <4>3. Unread' = Fill(3) \o (<<0>> \o Payload)
        BY <3>2, <3>6 DEF Rest4
      <4>4. \E n \in 0 .. 3 : /\ got' = <<job'.command, job'.ip, Fill(3 - n)>>
                              /\ Unread' = Fill(n) \o (<<0>> \o Payload)
        BY <1>1, <4>2, <4>3
      <4>5. AtSocks4'
        BY <1>1, <1>2, <3>5, <3>6, <4>1, <4>4, JobStays DEF AtSocks4
      <4>6. AtSocks5'
        BY <4>1 DEF AtSocks5
      <4> QED
        BY <1>1, <1>3, <3>2, <4>1, <4>5, <4>6, Negotiates
    <3>7. CASE job.command = 1 /\ ~Is4a(job.ip)
      <4>1. step' = "connect" /\ got' = <<job.ip>>
        BY <1>1, <1>7, <3>2, <3>3, <3>7
      <4>2. got' = <<Host>> /\ Unread' = Payload
        BY <1>6, <3>2, <3>7, <4>1 DEF Rest4
      <4> QED
        BY <1>1, <1>3, <3>2, <3>5, <3>7, <4>1, <4>2, Connects
    <3> QED
      BY <3>4, <3>6, <3>7
  <2> QED
    BY <2>3, <2>4, <2>5
<1>8. CASE step = "host"
  <2>1. Allowed /\ Is4a(job.ip)
    BY <1>8 DEF ReaderInv, AtSocks4
  <2>2. PICK k \in 0 .. 3 : /\ got = <<job.command, job.ip, Fill(3 - k)>>
                            /\ Unread = Fill(k) \o (<<0>> \o Payload)
    BY <1>8 DEF ReaderInv, AtSocks4
  <2>3. k \in Nat /\ (k > 0 \/ k = 0)
    OBVIOUS
  <2>4. CASE k > 0
    <3>1. /\ Unread = <<7>> \o (Fill(k - 1) \o (<<0>> \o Payload))
          /\ Fill(k - 1) \o (<<0>> \o Payload) \in Seq(Nat)
      BY <1>6, <2>2, <2>3, <2>4, StringForm
    <3>2. /\ Taken(1) = <<7>> /\ Unread' = Fill(k - 1) \o (<<0>> \o Payload)
          /\ ReaderTypeOK' /\ Ungranted' /\ passed' = <<>>
      BY <1>5, <3>1
    <3>3. step' = "host" /\ got' = [got EXCEPT ![3] = got[3] \o Taken(1)]
      BY <1>1, <1>4, <1>8, <3>2
    <3>4. got' = <<job.command, job.ip, Fill(3 - (k - 1))>>
      <4>1. 3 - k \in Nat /\ (3 - k) + 1 = 3 - (k - 1)
        OBVIOUS
      <4>2. Fill(3 - k) \o <<7>> = Fill((3 - k) + 1)
        BY <4>1, FillType
      <4> DEFINE g == Fill(3 - k)
                 y == Fill(3 - k) \o <<7>>
      <4>3. got[3] = g
        BY <2>2
      <4>4. got = <<job.command, job.ip, g>> /\ got' = [got EXCEPT ![3] = y]
        BY <2>2, <3>2, <3>3, <4>3
      <4> HIDE DEF g, y
      <4>5. got' = <<job.command, job.ip, y>>
        BY ONLY <4>4
      <4> QED
        BY <4>1, <4>2, <4>5 DEF y
    <3>5. \E n \in 0 .. 3 : /\ got' = <<job'.command, job'.ip, Fill(3 - n)>>
                            /\ Unread' = Fill(n) \o (<<0>> \o Payload)
      <4>1. k - 1 \in 0 .. 3
        BY <2>4
      <4> QED
        BY <1>1, <3>2, <3>4, <4>1
    <3>6. AtSocks4'
      BY <1>1, <1>2, <2>1, <3>3, <3>5, JobStays DEF AtSocks4
    <3>7. AtSocks5'
      BY <3>3 DEF AtSocks5
    <3> QED
      BY <1>1, <1>3, <3>2, <3>3, <3>6, <3>7, Negotiates
  <2>5. CASE k = 0
    <3>1. Unread = <<0>> \o Payload
      BY <1>6, <2>2, <2>3, <2>5, StringForm
    <3>2. /\ Taken(1) = <<0>> /\ Unread' = Payload
          /\ ReaderTypeOK' /\ Ungranted' /\ passed' = <<>>
      BY <1>5, <1>6, <3>1
    <3>3. got[3] = Fill(3)
      <4>1. 3 - k = 3
        BY <2>5
      <4> QED
        BY <2>2, <4>1
    <3>4. step' = "connect" /\ got' = <<Host>>
      BY <1>1, <1>6, <1>8, <2>1, <3>2, <3>3
    <3> QED
      BY <1>1, <1>3, <2>1, <3>2, <3>4, Connects
  <2> QED
    BY <2>3, <2>4, <2>5
<1> QED
  BY <1>1, <1>7, <1>8

LEMMA ConnectStep ==
  ASSUME ReaderInv, Connect
  PROVE  ReaderInv'
<1>1. /\ step = "connect" /\ job' = job /\ arrived' = arrived /\ buffer' = buffer
      /\ got' = got /\ passed' = passed
      /\ \/ step' = "open" /\ replies' = Append(replies, "granted")
         \/ step' = "refused" /\ replies' = Append(replies, "failed")
  BY DEF Connect
<1>2. /\ ReaderTypeOK /\ Allowed /\ got = <<Host>> /\ Unread = Payload /\ passed = <<>>
      /\ Ungranted /\ buffer \in Seq(Nat)
  BY <1>1 DEF ReaderInv, AtEnds, ReaderTypeOK
<1>3. /\ replies' \in Seq(Answer) /\ step' \in StepNames /\ passed' \in Seq(Nat)
      /\ step' = "refused" => Ungranted'
  <2>1. "granted" \in Answer /\ "failed" \in Answer /\ "failed" # "granted"
    BY DEF Answer
  <2>2. CASE step' = "open" /\ replies' = Append(replies, "granted")
    <3>1. replies' \in Seq(Answer)
      BY <1>2, <2>1, <2>2, Answers
    <3> QED
      BY <1>1, <1>2, <2>2, <3>1, NoBytes DEF StepNames
  <2>3. CASE step' = "refused" /\ replies' = Append(replies, "failed")
    <3>1. replies' \in Seq(Answer) /\ Ungranted'
      BY <1>2, <2>1, <2>3, Answers
    <3> QED
      BY <1>1, <1>2, <2>3, <3>1, NoBytes DEF StepNames
  <2> QED
    BY <1>1, <2>2, <2>3
<1>4. ReaderTypeOK'
  BY <1>1, <1>2, <1>3, Reached
<1>5. job \notin Frames
  BY <1>2, WireType DEF Allowed, ReaderTypeOK
<1>6. CASE step' = "refused"
  BY <1>1, <1>2, <1>3, <1>4, <1>5, <1>6, Refused
<1>7. CASE step' = "open"
  <2>1. Unread' = Payload
    <3>1. Unread' = Unread
      BY <1>1 DEF Unread, Ahead
    <3> QED
      BY <1>2, <3>1
  <2>2. passed' \o Unread' = Payload
    BY <1>1, <1>2, <2>1, PayloadType, NoBytes
  <2>3. AtEnds'
    BY <1>1, <1>2, <1>7, <2>2, JobStays DEF AtEnds
  <2>4. AtSocks5' /\ AtSocks4'
    BY <1>7 DEF AtSocks5, AtSocks4
  <2>5. AtFrames'
    BY <1>1, <1>5, <1>7 DEF AtFrames
  <2> QED
    BY <1>4, <2>3, <2>4, <2>5 DEF ReaderInv
<1> QED
  BY <1>1, <1>6, <1>7

LEMMA HandOnStep ==
  ASSUME ReaderInv, HandOn
  PROVE  ReaderInv'
<1>1. /\ step = "open" /\ passed' = passed \o buffer /\ buffer' = <<>>
      /\ job' = job /\ arrived' = arrived /\ step' = step /\ got' = got /\ replies' = replies
  BY DEF HandOn
<1>2. /\ ReaderTypeOK /\ passed \o Unread = Payload
      /\ \/ job \in Auth /\ got = <<Fill(FrameBytes)>> /\ Ungranted
         \/ Allowed /\ got = <<Host>>
  BY <1>1 DEF ReaderInv, AtEnds
<1>3. buffer \in Seq(Nat) /\ passed \in Seq(Nat) /\ Ahead \in Seq(Nat)
  BY <1>2, AheadType DEF ReaderTypeOK
<1>4. Unread' = Ahead
  <2>1. Unread' = <<>> \o Ahead
    BY <1>1 DEF Unread, Ahead
  <2> QED
    BY <1>3, <2>1, NoBytes
<1>5. passed' \o Unread' = Payload
  <2>1. Regroups(passed, buffer, Ahead)
    BY <1>3, Assoc DEF Regroups
  <2>2. Unread = buffer \o Ahead
    BY DEF Unread
  <2> QED
    BY ONLY <1>1, <1>2, <1>4, <2>1, <2>2 DEF Regroups
<1>6. ReaderTypeOK'
  <2>1. passed' \in Seq(Nat) /\ buffer' \in Seq(Nat)
    BY <1>1, <1>3, Cat, NoBytes
  <2>2. replies' \in Seq(Answer) /\ step' \in StepNames
    BY <1>1, <1>2 DEF ReaderTypeOK, Answer, StepNames
  <2> QED
    BY <1>1, <1>2, <2>1, <2>2, Reached
<1>7. job \notin Frames
  BY <1>2, WireType DEF Allowed, ReaderTypeOK
<1>8. AtEnds'
  <2>1. Ungranted' = Ungranted
    BY <1>1 DEF Ungranted
  <2> QED
    BY <1>1, <1>2, <1>5, <2>1, JobStays DEF AtEnds
<1>9. AtSocks5' /\ AtSocks4'
  BY <1>1 DEF AtSocks5, AtSocks4
<1>10. AtFrames'
  BY <1>1, <1>7 DEF AtFrames
<1> QED
  BY <1>6, <1>8, <1>9, <1>10 DEF ReaderInv

LEMMA ChunkStep ==
  ASSUME ReaderInv, NEW n \in 1 .. Len(Wire(job)), ChunkArrives(n)
  PROVE  ReaderInv'
<1>1. /\ step \notin {"refused", "failed", "finished"} /\ arrived + n <= Len(Wire(job))
      /\ arrived' = arrived + n
      /\ buffer' = buffer \o SubSeq(Wire(job), arrived + 1, arrived + n)
      /\ job' = job /\ step' = step /\ got' = got /\ replies' = replies /\ passed' = passed
  BY DEF ChunkArrives, Joined
<1>2. ReaderTypeOK
  BY DEF ReaderInv
<1>3. /\ Wire(job) \in Seq(Nat) /\ buffer \in Seq(Nat) /\ arrived \in Nat /\ n \in Nat
  BY <1>2, AheadType
<1>4. buffer' \in Seq(Nat) /\ Unread' = Unread
  <2> DEFINE w == Wire(job)
  <2>1. /\ buffer \o SubSeq(w, arrived + 1, arrived + n) \in Seq(Nat)
        /\ (buffer \o SubSeq(w, arrived + 1, arrived + n)) \o SubSeq(w, (arrived + n) + 1, Len(w))
             = buffer \o SubSeq(w, arrived + 1, Len(w))
    BY <1>1, <1>3, Arrives
  <2>2. Unread' = buffer' \o SubSeq(w, arrived' + 1, Len(w))
    BY <1>1 DEF Unread, Ahead
  <2>3. Unread = buffer \o SubSeq(w, arrived + 1, Len(w))
    BY DEF Unread, Ahead
  <2> QED
    BY ONLY <1>1, <2>1, <2>2, <2>3
<1>5. ReaderTypeOK'
  <2>1. arrived' \in 0 .. Len(Wire(job)) /\ Wire(job)' = Wire(job)
    BY <1>1, <1>3
  <2>2. {buffer', passed'} \subseteq Seq(Nat)
    BY <1>1, <1>2, <1>4 DEF ReaderTypeOK
  <2> QED
    BY <1>1, <1>2, <2>1, <2>2 DEF ReaderTypeOK
<1>6. Ungranted' = Ungranted
  BY <1>1 DEF Ungranted
<1>7. AtEnds'
  BY <1>1, <1>4, <1>6, JobStays DEF ReaderInv, AtEnds
<1>8. AtSocks5'
  BY <1>1, <1>4, JobStays DEF ReaderInv, AtSocks5
<1>9. AtSocks4'
  <2>1. CASE step = "command"
    BY <1>1, <1>4, <2>1, JobStays DEF ReaderInv, AtSocks4
  <2>2. CASE step = "user"
    BY <1>1, <1>4, <2>2, JobStays DEF ReaderInv, AtSocks4
  <2>3. CASE step = "host"
    BY <1>1, <1>4, <2>3, JobStays DEF ReaderInv, AtSocks4
  <2>4. CASE step \notin {"command", "user", "host"}
    BY <1>1, <2>4 DEF AtSocks4
  <2> QED
    BY <2>1, <2>2, <2>3, <2>4
<1>10. AtFrames'
  <2>1. FramesFrom(Len(got))' = FramesFrom(Len(got))
    BY <1>1 DEF FramesFrom
  <2> QED
    BY <1>1, <1>4, <2>1 DEF ReaderInv, AtFrames
<1> QED
  BY <1>5, <1>7, <1>8, <1>9, <1>10 DEF ReaderInv

LEMMA EndsEarlyStep ==
  ASSUME ReaderInv, EndsEarly
  PROVE  ReaderInv'
<1>1. /\ step \notin {"open", "refused", "failed", "finished", "connect"}
      /\ step' = IF step = "frame" /\ buffer = <<>> THEN "finished" ELSE "failed"
      /\ job' = job /\ arrived' = arrived /\ buffer' = buffer /\ got' = got
      /\ replies' = replies /\ passed' = passed
  BY DEF EndsEarly
<1>2. ReaderTypeOK /\ passed = <<>> /\ Ungranted /\ buffer \in Seq(Nat)
  BY <1>1 DEF ReaderInv, AtEnds, ReaderTypeOK
<1>3. ReaderTypeOK' /\ Ungranted' /\ passed' = <<>>
  <2>1. step' \in StepNames
    BY <1>1 DEF StepNames
  <2> QED
    BY <1>1, <1>2, <2>1, Moves
<1>4. CASE job \notin Frames
  <2>1. step # "frame"
    BY <1>4 DEF ReaderInv, AtFrames
  <2> QED
    BY <1>1, <1>3, <1>4, <2>1, Refused
<1>5. CASE job \in Frames
  <2>1. /\ got \in Seq(Seq(Nat)) /\ Len(got) <= Len(job.lengths)
        /\ \A i \in 1 .. Len(got) : got[i] = Fill(job.lengths[i])
        /\ step = "frame" /\ Unread = FramesFrom(Len(got))
    BY <1>1, <1>5 DEF ReaderInv, AtFrames
  <2>2. ASSUME buffer = <<>>, arrived = Len(Wire(job))
        PROVE  Len(got) = Len(job.lengths)
    <3>1. Unread = <<>>
      BY <1>2, <2>2, AheadType
    <3>2. SUFFICES ASSUME Len(got) # Len(job.lengths) PROVE FALSE
      OBVIOUS
    <3>3. Len(got) \in Nat /\ Len(job.lengths) \in Nat
      <4>1. PICK m \in 0 .. MaxFrames : job.lengths \in [1 .. m -> 0 .. MaxFrame + 1]
        BY <1>5 DEF Frames
      <4>2. Len(job.lengths) = m /\ m \in Nat
        BY <4>1, ReaderAssumption
      <4> QED
        BY <2>1, <4>2
    <3> DEFINE k == Len(got)
               x == job.lengths[k + 1]
               f == Frame(job.lengths[k + 1])
               r == FramesFrom(k + 1)
    <3>4. k \in 0 .. Len(job.lengths) /\ k < Len(job.lengths)
      BY <2>1, <3>2, <3>3
    <3>5. x \in Nat /\ FramesFrom(k) = f \o r /\ k + 1 \in 0 .. Len(job.lengths)
      BY <1>5, <3>4, FramesForm
    <3>6. r \in Seq(Nat)
      BY <1>5, <3>5, FramesForm
    <3>7. f \in Seq(Nat) /\ Len(f) >= 1
      <4>1. f \in Seq(Nat) /\ Len(f) = Header + x /\ Header \in Nat /\ Header >= 1
        BY <3>5, FrameFacts
      <4> QED
        BY <3>5, <4>1
    <3>8. f \o r = <<>>
      BY <2>1, <3>1, <3>5
    <3> HIDE DEF f, r
    <3>9. Len(f \o r) = Len(f) + Len(r) /\ Len(r) \in Nat /\ Len(f) \in Nat
      BY <3>6, <3>7, Cat
    <3>10. Len(f) + Len(r) = 0
      BY <3>8, <3>9
    <3> QED
      BY <3>7, <3>9, <3>10
  <2>3. AtFrames'
    <3>1. step' \in {"finished", "failed"} /\ (step' = "finished" => buffer = <<>>)
      BY <1>1
    <3>2. job' \in Frames /\ job' = job /\ arrived' = arrived /\ got' = got
          /\ Wire(job)' = Wire(job)
      BY <1>1, <1>5
    <3> QED
      BY <2>1, <2>2, <3>1, <3>2 DEF AtFrames
  <2>4. step' \in {"finished", "failed"}
    BY <1>1
  <2>5. AtEnds'
    BY <1>3, <2>4 DEF AtEnds
  <2>6. AtSocks5' /\ AtSocks4'
    BY <2>4 DEF AtSocks5, AtSocks4
  <2> QED
    BY <1>3, <2>3, <2>5, <2>6 DEF ReaderInv
<1> QED
  BY <1>4, <1>5

\* A byte of what a reader has buffered is that byte of what is unread.
LEMMA Buffered ==
  ASSUME NEW b \in Seq(Nat), NEW h \in Seq(Nat), NEW a \in Seq(Nat), NEW r \in Seq(Nat),
         b \o h = a \o r, NEW i \in Nat, 1 <= i, i <= Len(b), i <= Len(a)
  PROVE  b[i] = a[i]
<1>1. /\ i \in 1 .. Len(b) + Len(h) /\ i \in 1 .. Len(a) + Len(r)
  OBVIOUS
<1>2. (b \o h)[i] = b[i]
  BY <1>1, Cat
<1>3. (a \o r)[i] = a[i]
  BY <1>1, Cat
<1> QED
  BY <1>2, <1>3

\* The body of a frame that lies whole in the buffer.
LEMMA Body ==
  ASSUME NEW b \in Seq(Nat), NEW f \in Seq(Nat), NEW h \in Nat, NEW n \in Nat,
         Len(f) = h + n, Len(f) <= Len(b), SubSeq(b, 1, h + n) = f
  PROVE  SubSeq(b, h + 1, h + n) = SubSeq(f, h + 1, h + n)
<1> DEFINE x == SubSeq(b, h + 1, h + n)
           y == SubSeq(f, h + 1, h + n)
<1>1. /\ \A i \in 1 .. Len(b) : b[i] \in Nat
      /\ \A i \in 1 .. Len(f) : f[i] \in Nat
  BY ElementOfSeq
<1>2. \A i \in 1 .. h + n : f[i] = b[i]
  <2>1. /\ 1 \in Int /\ h + n \in Int /\ \A i \in 1 .. h + n : b[i] \in Nat
    BY <1>1
  <2>2. \A i \in 1 .. h + n - 1 + 1 : SubSeq(b, 1, h + n)[i] = b[1 + i - 1]
    BY <2>1, SubSeqProperties
  <2>3. \A i \in 1 .. h + n : i \in 1 .. h + n - 1 + 1 /\ 1 + i - 1 = i
    OBVIOUS
  <2> QED
    BY <2>2, <2>3
<1>3. /\ h + 1 \in Int /\ h + n \in Int
      /\ \A i \in h + 1 .. h + n : b[i] \in Nat /\ f[i] \in Nat /\ f[i] = b[i]
  <2>1. h + 1 .. h + n \subseteq 1 .. h + n /\ 1 .. h + n \subseteq 1 .. Len(b)
        /\ 1 .. h + n \subseteq 1 .. Len(f)
    OBVIOUS
  <2> QED
    BY <1>1, <1>2, <2>1
<1>4. /\ (IF h + 1 <= h + n THEN h + n - (h + 1) + 1 ELSE 0) = n
      /\ \A i \in 1 .. n : i \in 1 .. h + n - (h + 1) + 1 /\ h + 1 + i - 1 = h + i
      /\ \A i \in 1 .. n : h + i \in h + 1 .. h + n
  OBVIOUS
<1>5. x \in Seq(Nat) /\ Len(x) = n /\ \A i \in 1 .. n : x[i] = b[h + i]
  <2>1. /\ x \in Seq(Nat)
        /\ Len(x) = IF h + 1 <= h + n THEN h + n - (h + 1) + 1 ELSE 0
        /\ \A i \in 1 .. h + n - (h + 1) + 1 : x[i] = b[h + 1 + i - 1]
    <3>1. h + 1 \in Int /\ h + n \in Int /\ \A i \in h + 1 .. h + n : b[i] \in Nat
      BY <1>3
    <3> QED
      BY ONLY <3>1, SubSeqProperties
  <2> HIDE DEF x
  <2>2. \A i \in 1 .. n : x[i] = b[h + i]
    BY ONLY <1>4, <2>1
  <2> QED
    BY <1>4, <2>1, <2>2
<1>6. y \in Seq(Nat) /\ Len(y) = n /\ \A i \in 1 .. n : y[i] = f[h + i]
  <2>1. /\ y \in Seq(Nat)
        /\ Len(y) = IF h + 1 <= h + n THEN h + n - (h + 1) + 1 ELSE 0
        /\ \A i \in 1 .. h + n - (h + 1) + 1 : y[i] = f[h + 1 + i - 1]
    <3>1. h + 1 \in Int /\ h + n \in Int /\ \A i \in h + 1 .. h + n : f[i] \in Nat
      BY <1>3
    <3> QED
      BY ONLY <3>1, SubSeqProperties
  <2> HIDE DEF y
  <2>2. \A i \in 1 .. n : y[i] = f[h + i]
    BY ONLY <1>4, <2>1
  <2> QED
    BY <1>4, <2>1, <2>2
<1> HIDE DEF x, y
<1>7. \A i \in 1 .. Len(x) : x[i] = y[i]
  BY <1>3, <1>4, <1>5, <1>6
<1>8. x = y
  BY <1>5, <1>6, <1>7, SeqEqual
<1> QED
  BY <1>8 DEF x, y

LEMMA DecodeFrameStep ==
  ASSUME ReaderInv, DecodeFrame
  PROVE  ReaderInv'
<1>1. /\ step = "frame" /\ Len(buffer) >= Header
      /\ IF buffer[Header] > MaxFrame
         THEN step' = "failed" /\ got' = got /\ buffer' = buffer
         ELSE /\ Reads("frame", Header + buffer[Header]) /\ step' = step
              /\ got' = Append(got, SubSeq(buffer, Header + 1, Header + buffer[Header]))
      /\ job' = job /\ arrived' = arrived /\ replies' = replies /\ passed' = passed
  BY DEF DecodeFrame, FrameLength, Field
<1>2. /\ ReaderTypeOK /\ passed = <<>> /\ Ungranted /\ job \in Frames
      /\ Unread = FramesFrom(Len(got))
      /\ got \in Seq(Seq(Nat)) /\ Len(got) <= Len(job.lengths)
      /\ \A i \in 1 .. Len(got) : got[i] = Fill(job.lengths[i])
  BY <1>1 DEF ReaderInv, AtEnds, AtFrames
<1> DEFINE k == Len(got)
           x == job.lengths[k + 1]
           f == Frame(x)
           r == FramesFrom(k + 1)
<1>3. /\ buffer \in Seq(Nat) /\ Ahead \in Seq(Nat) /\ Header \in Nat /\ Header >= 1
      /\ Len(job.lengths) \in Nat /\ k \in Nat
  <2>1. buffer \in Seq(Nat) /\ Ahead \in Seq(Nat)
    BY <1>2, AheadType
  <2>2. Header \in Nat /\ Header >= 1
    BY ReaderAssumption
  <2>3. PICK m \in 0 .. MaxFrames : job.lengths \in [1 .. m -> 0 .. MaxFrame + 1]
    BY <1>2 DEF Frames
  <2>4. Len(job.lengths) = m /\ m \in Nat
    BY <2>3, ReaderAssumption
  <2>5. k \in Nat
    BY <1>2
  <2> QED
    BY <2>1, <2>2, <2>4, <2>5
<1>4. k < Len(job.lengths)
  <2>1. SUFFICES ASSUME k = Len(job.lengths) PROVE FALSE
    BY <1>2, <1>3
  <2>2. k \in 0 .. Len(job.lengths)
    BY <1>3, <2>1
  <2>3. FramesFrom(k) = <<>>
    BY <1>2, <2>1, <2>2, FramesForm
  <2>4. buffer \o Ahead = <<>>
    BY <1>2, <2>3 DEF Unread
  <2>5. Len(buffer \o Ahead) = Len(buffer) + Len(Ahead)
    BY <1>3, Cat
  <2>6. Len(buffer) + Len(Ahead) = 0 /\ Len(buffer) \in Nat /\ Len(Ahead) \in Nat
    BY <1>3, <2>4, <2>5
  <2> QED
    BY <1>1, <1>3, <2>6
<1>5. /\ x \in Nat /\ Unread = f \o r /\ k + 1 \in 0 .. Len(job.lengths) /\ r \in Seq(Nat)
  <2>1. k \in 0 .. Len(job.lengths)
    BY <1>3, <1>4
  <2>2. x \in Nat /\ FramesFrom(k) = f \o r /\ k + 1 \in 0 .. Len(job.lengths)
    BY <1>2, <1>4, <2>1, FramesForm
  <2>3. r \in Seq(Nat)
    BY <1>2, <2>2, FramesForm
  <2> QED
    BY <1>2, <2>2, <2>3
<1>6. /\ f \in Seq(Nat) /\ Len(f) = Header + x /\ f[Header] = x
      /\ SubSeq(f, Header + 1, Header + x) = Fill(x)
  BY <1>5, FrameFacts
<1> HIDE DEF f, r
<1>7. buffer[Header] = x
  <2>1. buffer \o Ahead = f \o r
    BY <1>5 DEF Unread
  <2>2. Header <= Len(buffer) /\ Header <= Len(f)
    <3>1. Header \in Nat /\ x \in Nat /\ Len(f) = Header + x
      BY <1>5, <1>6, ReaderAssumption DEF ReaderAssumption
    <3> HIDE DEF x
    <3>2. Header <= Len(f)
      BY ONLY <3>1
    <3> QED
      BY <1>1, <3>2
  <2>3. buffer[Header] = f[Header]
    BY <1>3, <1>5, <1>6, <2>1, <2>2, Buffered, SMTT(30)
  <2> QED
    BY <1>6, <2>3
<1> HIDE DEF x
<1>8. CASE x > MaxFrame
  <2>1. step' = "failed" /\ got' = got /\ buffer' = buffer
    BY <1>1, <1>7, <1>8
  <2>2. step' \in StepNames
    BY <2>1 DEF StepNames
  <2>3. ReaderTypeOK' /\ Ungranted' /\ passed' = <<>>
    BY <1>1, <1>2, <1>3, <2>1, <2>2, Moves
  <2>4. AtEnds' /\ AtSocks5' /\ AtSocks4'
    BY <2>1, <2>3 DEF AtEnds, AtSocks5, AtSocks4
  <2>5. AtFrames'
    BY <1>1, <1>2, <2>1 DEF AtFrames
  <2> QED
    BY <2>3, <2>4, <2>5 DEF ReaderInv
<1>9. CASE ~(x > MaxFrame)
  <2>1. /\ Reads("frame", Header + x) /\ step' = "frame"
        /\ got' = Append(got, SubSeq(buffer, Header + 1, Header + x))
    BY <1>1, <1>7, <1>9
  <2>2. /\ SubSeq(buffer, 1, Header + x) = f /\ buffer' \in Seq(Nat) /\ Unread' = r
        /\ Len(f) <= Len(buffer)
    <3>1. Reads("frame", Len(f))
      BY <1>6, <2>1
    <3>2. Taken(Len(f)) = f /\ buffer' \in Seq(Nat) /\ Unread' = r
      BY <1>1, <1>2, <1>5, <1>6, <3>1, ReadsFront
    <3>3. Len(buffer) >= Len(f)
      BY <3>1 DEF Reads
    <3>4. Len(f) <= Len(buffer)
      BY <1>3, <1>6, <3>3
    <3> QED
      BY <1>6, <3>2, <3>4 DEF Taken
  <2>3. SubSeq(buffer, Header + 1, Header + x) = Fill(x)
    <3>1. SubSeq(buffer, Header + 1, Header + x) = SubSeq(f, Header + 1, Header + x)
      <4>1. /\ buffer \in Seq(Nat) /\ f \in Seq(Nat) /\ Header \in Nat /\ x \in Nat
            /\ Len(f) = Header + x /\ Len(f) <= Len(buffer) /\ SubSeq(buffer, 1, Header + x) = f
        BY <1>3, <1>5, <1>6, <2>2
      <4> QED
        BY ONLY <4>1, Body
    <3> QED
      BY <1>6, <3>1
  <2>4. /\ got' \in Seq(Seq(Nat)) /\ Len(got') = k + 1
        /\ \A i \in 1 .. k : got'[i] = got[i]
        /\ got'[k + 1] = Fill(x)
    <3> DEFINE y == Fill(x)
               T == Seq(Nat)
    <3>1. y \in T
      BY <1>5, FillType
    <3>2. got' = Append(got, y) /\ got \in Seq(T)
      BY <1>2, <2>1, <2>3
    <3> HIDE DEF y, T
    <3>3. /\ Append(got, y) \in Seq(T) /\ Len(Append(got, y)) = Len(got) + 1
          /\ \A i \in 1 .. Len(got) : Append(got, y)[i] = got[i]
          /\ Append(got, y)[Len(got) + 1] = y
      BY <3>1, <3>2, AppendProperties
    <3> QED
      BY <3>2, <3>3 DEF y, T
  <2>5. \A i \in 1 .. Len(got') : got'[i] = Fill(job.lengths[i])
    <3>1. ASSUME NEW i \in 1 .. Len(got') PROVE got'[i] = Fill(job.lengths[i])
      <4>1. i \in 1 .. k \/ i = k + 1
        BY <1>3, <2>4
      <4>2. CASE i \in 1 .. k
        BY <1>2, <2>4, <4>2
      <4>3. CASE i = k + 1
        BY <2>4, <4>3 DEF x
      <4> QED
        BY <4>1, <4>2, <4>3
    <3> QED
      BY <3>1
  <2>6. Unread' = FramesFrom(Len(got))'
    <3>1. FramesFrom(Len(got))' = FramesFrom(k + 1)
      BY <1>1, <2>4 DEF FramesFrom
    <3> QED
      BY <2>2, <3>1 DEF r
  <2>7. step' \in StepNames
    BY <2>1 DEF StepNames
  <2>8. ReaderTypeOK' /\ Ungranted' /\ passed' = <<>>
    BY <1>1, <1>2, <2>2, <2>7, Moves
  <2>9. AtEnds' /\ AtSocks5' /\ AtSocks4'
    BY <2>1, <2>8 DEF AtEnds, AtSocks5, AtSocks4
  <2>10. Len(got') <= Len(job.lengths)
    BY <1>3, <1>5, <2>4
  <2>11. AtFrames'
    BY <1>1, <1>2, <2>1, <2>4, <2>5, <2>6, <2>10 DEF AtFrames
  <2> QED
    BY <2>8, <2>9, <2>11 DEF ReaderInv
<1> QED
  BY <1>8, <1>9

LEMMA ReaderInvStep == ReaderInv /\ [ReaderNext]_readerVars => ReaderInv'
<1>1. SUFFICES ASSUME ReaderInv, [ReaderNext]_readerVars PROVE ReaderInv'
  OBVIOUS
<1>2. CASE UNCHANGED readerVars
  <2>1. /\ job' = job /\ arrived' = arrived /\ buffer' = buffer /\ step' = step
        /\ got' = got /\ replies' = replies /\ passed' = passed
    BY <1>2 DEF readerVars
  <2>2. Unread' = Unread /\ Ungranted' = Ungranted /\ FramesFrom(Len(got))' = FramesFrom(Len(got))
    BY <2>1 DEF Unread, Ahead, Ungranted, FramesFrom
  <2>3. ReaderTypeOK' /\ AtEnds'
    BY <1>1, <2>1, <2>2, JobStays DEF ReaderInv, ReaderTypeOK, AtEnds
  <2>4. AtSocks5' /\ AtSocks4'
    BY <1>1, <2>1, <2>2, JobStays DEF ReaderInv, AtSocks5, AtSocks4
  <2>5. AtFrames'
    BY <1>1, <2>1, <2>2 DEF ReaderInv, AtFrames
  <2> QED
    BY <2>3, <2>4, <2>5 DEF ReaderInv
<1>3. CASE ReaderNext
  BY <1>1, <1>3, ChunkStep, PrefixStep, VersionStep, MethodCountStep, MethodsStep, RequestStep,
     NameLengthStep, AddressStep, PortStep, Command4Step, CStringStep, ConnectStep, HandOnStep,
     DecodeFrameStep, EndsEarlyStep DEF ReaderNext
<1> QED
  BY <1>1, <1>2, <1>3

\* However the wire is cut into chunks, what a reader has taken and what it has
\* not taken are, at each of its steps, the wire that the client wrote.
THEOREM ReaderInvariance == ReaderSpec => []ReaderInv
<1>1. ReaderInit => ReaderInv
  BY ReaderStarts
<1> QED
  BY <1>1, ReaderInvStep, PTL DEF ReaderSpec

\* However the wire is cut, each reader takes what the client wrote and no more.
THEOREM ReadersTakeTheirOwn == ReaderSpec => []ReadersExact
<1>1. ASSUME ReaderInv PROVE ReadersExact
  <2>1. ReaderTypeOK /\ buffer \in Seq(Nat) /\ Ahead \in Seq(Nat) /\ passed \in Seq(Nat)
    BY <1>1, AheadType DEF ReaderInv, ReaderTypeOK
  <2>2. ASSUME step = "open" PROVE IsPrefix(passed \o buffer, Payload)
    <3>1. passed \o Unread = Payload
      BY <1>1, <2>2 DEF ReaderInv, AtEnds
    <3> DEFINE z == passed \o buffer
    <3>2. z \o Ahead = Payload /\ z \in Seq(Nat)
      <4>1. Regroups(passed, buffer, Ahead) /\ z \in Seq(Nat)
        <5>1. (passed \o buffer) \o Ahead = passed \o (buffer \o Ahead)
          BY ONLY <2>1, Assoc
        <5>2. z \in Seq(Nat)
          BY ONLY <2>1, Cat
        <5> QED
          BY <5>1, <5>2 DEF Regroups
      <4> QED
        BY <3>1, <4>1 DEF Regroups, Unread
    <3> HIDE DEF z
    <3>3. SubSeq(Payload, 1, Len(z)) = z /\ Len(z) <= Len(Payload)
      <4>1. Payload \o <<>> = z \o Ahead /\ Payload \in Seq(Nat) /\ <<>> \in Seq(Nat)
        BY <3>2, PayloadType, Cat
      <4>2. Len(Payload) = Len(z) + Len(Ahead) /\ Len(z) \in Nat /\ Len(Ahead) \in Nat
        BY <2>1, <3>2, Cat
      <4>3. Len(z) <= Len(Payload)
        BY <4>2
      <4> QED
        BY <2>1, <3>2, <4>1, <4>3, TakeFront
    <3>4. SubSeq(z, 1, Len(z)) = z
      BY <3>2, SubSeqFull
    <3> QED
      BY <3>3, <3>4 DEF IsPrefix, z
  <2>3. ASSUME step = "open", job.kind = "auth" PROVE got = <<Fill(FrameBytes)>>
    BY <1>1, <2>1, <2>3, WireType DEF ReaderInv, AtEnds, Allowed, ReaderTypeOK
  <2>4. ASSUME job.kind = "frames"
        PROVE  /\ IsPrefix([i \in DOMAIN got |-> Len(got[i])], job.lengths)
               /\ step = "finished" /\ arrived = Len(Wire(job)) => Len(got) = Len(job.lengths)
    <3>1. job \in Frames
      BY <2>1, <2>4, WireType DEF ReaderTypeOK
    <3>2. /\ got \in Seq(Seq(Nat)) /\ Len(got) <= Len(job.lengths)
          /\ \A i \in 1 .. Len(got) : got[i] = Fill(job.lengths[i])
          /\ step = "finished" => (arrived = Len(Wire(job)) => Len(got) = Len(job.lengths))
      BY <1>1, <3>1 DEF ReaderInv, AtFrames
    <3> DEFINE L == job.lengths
               k == Len(got)
               s == [i \in DOMAIN got |-> Len(got[i])]
    <3>3. PICK m \in 0 .. MaxFrames : L \in [1 .. m -> 0 .. MaxFrame + 1]
      BY <3>1 DEF Frames
    <3>4. Len(L) = m /\ m \in Nat /\ k \in Nat /\ DOMAIN got = 1 .. k /\ L \in Seq(Nat)
          /\ k <= m
      <4>1. MaxFrame \in Nat /\ m \in Nat
        BY ReaderAssumption
      <4> QED
        BY <3>2, <3>3, <4>1
    <3>5. \A i \in 1 .. k : Len(got[i]) = L[i] /\ L[i] \in Nat
      <4>1. ASSUME NEW i \in 1 .. k PROVE Len(got[i]) = L[i] /\ L[i] \in Nat
        <5>1. i \in 1 .. m
          BY <3>4
        <5>2. L[i] \in Nat
          BY <3>3, <5>1
        <5> QED
          BY <3>2, <5>2, FillType
      <4> QED
        BY <4>1
    <3>6. s \in Seq(Nat) /\ Len(s) = k /\ \A i \in 1 .. k : s[i] = L[i]
      BY <3>4, <3>5
    <3> HIDE DEF s, L, k
    <3>7. SubSeq(s, 1, k) = SubSeq(L, 1, k)
      <4>1. SubSeq(s, 1, k) = s
        BY <3>6, SubSeqFull
      <4> DEFINE y == SubSeq(L, 1, k)
      <4>2. y \in Seq(Nat) /\ Len(y) = k /\ \A i \in 1 .. k : y[i] = L[i]
        <5>1. \A i \in 1 .. k : L[i] \in Nat
          BY <3>5
        <5>2. /\ y \in Seq(Nat) /\ Len(y) = IF 1 <= k THEN k - 1 + 1 ELSE 0
              /\ \A i \in 1 .. k - 1 + 1 : y[i] = L[1 + i - 1]
          <6>1. 1 \in Int /\ k \in Int
            BY <3>4
          <6> QED
            BY <5>1, <6>1, SubSeqProperties
        <5>3. \A i \in 1 .. k : i \in 1 .. k - 1 + 1 /\ 1 + i - 1 = i
          BY <3>4
        <5>4. Len(y) = k
          BY <3>4, <5>2
        <5> QED
          BY <5>2, <5>3, <5>4
      <4> HIDE DEF y
      <4>3. s = y
        BY <3>6, <4>2, SeqEqual
      <4> QED
        BY <4>1, <4>3 DEF y
    <3>8. IsPrefix(s, L)
      BY <3>4, <3>6, <3>7 DEF IsPrefix
    <3> QED
      BY <3>2, <3>8 DEF s, L
  <2>5. ASSUME "granted" \in ToSet(replies)
        PROVE  /\ job.command = 1 /\ got = <<HostOf(job)>>
               /\ job.kind = "socks5" => 0 \in ToSet(job.methods) /\ job.address[1] \in {1, 3, 4}
    <3>1. ~Ungranted
      BY <2>5 DEF ToSet, Ungranted
    <3>2. Allowed /\ got = <<Host>>
      BY <1>1, <3>1 DEF ReaderInv, AtEnds
    <3> QED
      BY <2>1, <3>2, WireType DEF Allowed, Host, ReaderTypeOK
  <2> QED
    BY <2>2, <2>3, <2>4, <2>5 DEF ReadersExact
<1>2. ReaderInv => ReadersExact
  BY <1>1
<1> QED
  BY <1>2, ReaderInvariance, PTL
--------------------------------------------------------------------------------
(* The composition: what each component knows of its types. *)

LEMMA PtyTypeStep == P!TypeOK /\ [P!Next]_P!vars => P!TypeOK'
<1> SUFFICES ASSUME P!TypeOK, [P!Next]_P!vars PROVE P!TypeOK'
  OBVIOUS
<1> USE WindowAssumption DEF P!TypeOK, P!output, P!input, P!control
<1>0. /\ {failed, broken} \subseteq BOOLEAN => failed \in BOOLEAN /\ broken \in BOOLEAN
      /\ failed \in BOOLEAN /\ broken \in BOOLEAN
  OBVIOUS
<1>1. CASE P!ShellPrints
  BY <1>1 DEF P!ShellPrints
<1>2. CASE P!SenderSends
  <2>1. failed' \in BOOLEAN /\ broken' \in BOOLEAN
    BY <1>0, <1>2 DEF P!SenderSends
  <2>2. {failed', broken'} \subseteq BOOLEAN
    BY <2>1
  <2>3. /\ sending' \in Nat /\ toClient' \in Nat /\ toClient' <= Window
        /\ UNCHANGED <<shell, printed, shown, P!input, P!control>>
    BY <1>2 DEF P!SenderSends
  <2> QED
    BY <2>2, <2>3
<1>3. CASE P!ShellExits
  BY <1>3 DEF P!ShellExits
<1>4. CASE P!ServerReads
  BY <1>4 DEF P!ServerReads
<1>5. CASE P!RemoteEnds
  BY <1>5 DEF P!RemoteEnds, P!Kills
<1>6. CASE P!RemoteFails
  BY <1>6 DEF P!RemoteFails, P!Kills
<1>7. CASE P!PtyEnds
  BY <1>7 DEF P!PtyEnds
<1>8. CASE P!Drains
  BY <1>8 DEF P!Drains, P!Kills
<1>9. CASE P!TaskSettles
  BY <1>9 DEF P!TaskSettles, P!Kills
<1>10. CASE P!Types
  BY <1>10 DEF P!Types
<1>11. CASE P!Quits
  BY <1>11 DEF P!Quits
<1>12. CASE P!ClientSends
  BY <1>12 DEF P!ClientSends
<1>13. CASE P!ClientCloses
  BY <1>13 DEF P!ClientCloses
<1>14. CASE P!ClientReads
  BY <1>14 DEF P!ClientReads, P!OutAtEnd
<1>15. CASE P!Breaks
  <2>1. broken' \in BOOLEAN /\ failed' \in BOOLEAN
    BY <1>0, <1>15 DEF P!Breaks
  <2> QED
    BY <1>15, <2>1 DEF P!Breaks
<1>16. CASE UNCHANGED P!vars
  BY <1>16 DEF P!vars
<1> QED
  BY <1>1, <1>2, <1>3, <1>4, <1>5, <1>6, <1>7, <1>8, <1>9, <1>10, <1>11, <1>12, <1>13, <1>14,
     <1>15, <1>16 DEF P!Next

LEMMA BridgeTypeStep == BridgeTypeOK /\ [BridgeNext]_bridgeVars => BridgeTypeOK'
<1> SUFFICES ASSUME BridgeTypeOK, [BridgeNext]_bridgeVars PROVE BridgeTypeOK'
  OBVIOUS
<1> USE BridgeAssumption DEF BridgeTypeOK, pumpVars
<1>0. inputEnded \in BOOLEAN /\ remoteEnded \in BOOLEAN /\ aborted \in BOOLEAN
      /\ unhandled \in BOOLEAN
  OBVIOUS
<1>1. CASE InputYields
  BY <1>1 DEF InputYields
<1>2. CASE InputEnds
  <2>1. inputEnded' \in BOOLEAN
    BY <1>2 DEF InputEnds
  <2> QED
    BY <1>0, <1>2, <2>1 DEF InputEnds
<1>3. CASE RemoteSends
  <2>1. CASE toOutput < MaxChunks /\ toOutput' = toOutput + 1 /\ UNCHANGED remoteEnded
    BY <1>0, <1>3, <2>1 DEF RemoteSends
  <2>2. CASE remoteEnded' = TRUE /\ UNCHANGED toOutput
    BY <1>0, <1>3, <2>2 DEF RemoteSends
  <2> QED
    BY <1>3, <2>1, <2>2 DEF RemoteSends
<1>4. CASE Aborts
  <2>1. aborted' \in BOOLEAN
    BY <1>4 DEF Aborts
  <2> QED
    BY <1>0, <1>4, <2>1 DEF Aborts
<1>5. CASE Sends
  <2>1. unhandled' \in BOOLEAN
    BY <1>0, <1>5 DEF Sends, Unattended
  <2>2. sent' \in 0 .. MaxChunks /\ outgoing' \in {"pumping", "ended", "rejected"}
    BY <1>5 DEF Sends
  <2> QED
    BY <1>0, <1>5, <2>1, <2>2 DEF Sends
<1>6. CASE InputFails
  <2>1. inputEnded' \in BOOLEAN /\ aborted' \in BOOLEAN
    BY <1>6 DEF InputFails
  <2> QED
    BY <1>0, <1>6, <2>1 DEF InputFails
<1>7. CASE Receives
  <2>1. unhandled' \in BOOLEAN
    BY <1>0, <1>7 DEF Receives, Unattended
  <2>2. toOutput' \in 0 .. MaxChunks /\ incoming' \in {"pumping", "ended", "rejected"}
    BY <1>7 DEF Receives
  <2> QED
    BY <1>0, <1>7, <2>1, <2>2 DEF Receives
<1>8. CASE ChildExits
  BY <1>8 DEF ChildExits
<1>9. CASE ExitSeen
  BY <1>9 DEF ExitSeen
<1>10. CASE SessionSettles
  BY <1>10 DEF SessionSettles
<1>11. CASE UNCHANGED bridgeVars
  BY <1>11 DEF bridgeVars
<1> QED
  BY <1>1, <1>2, <1>3, <1>4, <1>5, <1>6, <1>7, <1>8, <1>9, <1>10, <1>11 DEF BridgeNext

\* What the composition keeps.
SessionsInv == IInv /\ P!TypeOK /\ ForwardInv /\ BridgeTypeOK /\ ReaderInv

\* The state of every component is well typed, whichever of them a behaviour is
\* about: no stream holds more than its window, no count goes below zero, no
\* reader is in a step of another protocol.
THEOREM SessionsTypesOK == MCSpec => []TypesOK
<1>1. MCInit => SessionsInv
  <2>1. SUFFICES ASSUME MCInit PROVE SessionsInv
    OBVIOUS
  <2>2. Init /\ P!Init /\ ForwardInit /\ BridgeInit /\ ReaderInit
    BY <2>1 DEF MCInit, idleBridge, idleReader
  <2>3. P!TypeOK
    <3>1. failed \in BOOLEAN /\ broken \in BOOLEAN
      BY <2>2 DEF P!Init
    <3> QED
      BY <2>2, <3>1, WindowAssumption DEF P!Init, P!TypeOK
  <2>4. BridgeTypeOK
    <3>1. inputEnded \in BOOLEAN /\ remoteEnded \in BOOLEAN /\ aborted \in BOOLEAN
          /\ unhandled \in BOOLEAN
      BY <2>2 DEF BridgeInit
    <3>2. 0 \in 0 .. MaxChunks
      BY BridgeAssumption
    <3> QED
      BY <2>2, <3>1, <3>2 DEF BridgeInit, BridgeTypeOK
  <2> QED
    BY <2>2, <2>3, <2>4, InitIInv, InitForward, ReaderStarts DEF SessionsInv
<1>2. SessionsInv /\ [MCNext]_mcVars => SessionsInv'
  <2>1. SUFFICES ASSUME SessionsInv, [MCNext]_mcVars PROVE SessionsInv'
    OBVIOUS
  <2>2. /\ [Next]_vars /\ [P!Next]_P!vars /\ [ForwardNext]_forwardVars
        /\ [BridgeNext]_bridgeVars /\ [ReaderNext]_readerVars
    <3>1. UNCHANGED ptyVars => UNCHANGED P!vars
      BY DEF ptyVars, P!vars, P!output, P!input, P!control
    <3> QED
      BY <2>1, <3>1 DEF MCNext, mcVars
  <2> QED
    BY <2>1, <2>2, StepIInv, PtyTypeStep, StepForward, BridgeTypeStep, ReaderInvStep DEF SessionsInv
<1>3. SessionsInv => TypesOK
  BY DEF SessionsInv, IInv, ForwardInv, ReaderInv, TypesOK
<1> QED
  BY <1>1, <1>2, <1>3, PTL DEF MCSpec
================================================================================
