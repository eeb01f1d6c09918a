----------------------------- MODULE WebRtcStream -----------------------------
(***************************************************************************)
(* Two WebRtcStream objects (packages/core/src/index.js), one per side,    *)
(* over the data channels that the native endpoints bind to them           *)
(* (packages/core/src/native-endpoint.js).                                 *)
(*                                                                         *)
(* Every data channel is a generation.  link[s] = g says that side s sends *)
(* and receives on generation g; 0 is "no peer".  A generation dies on     *)
(* each side separately: what a side has not read when its own peer closes *)
(* is gone, what it had sent may still arrive at the other side.           *)
(*                                                                         *)
(* A step is one macrotask: the promise reactions a callback resolves run  *)
(* before the next callback, so a wait that is already satisfied does not  *)
(* yield.  The writer's real suspension points are the flow window, the    *)
(* peer wait and the channel's buffer.  keep-alive pings change no state.  *)
(***************************************************************************)
EXTENDS Integers, Sequences, FiniteSets, SequencesExt, Sums

CONSTANTS
    Window,      \* flowWindowBytes
    MaxChunks,   \* bound: chunks a side may submit
    SizeOf,      \* SizeOf[n]: bytes of the n-th chunk
    Submits,     \* Submits[s]: chunks side s submits
    Closes,      \* the sides whose application calls close()
    Aborts,      \* the sides whose application may call abort()
    MaxGen       \* bound: data channels opened in a behaviour

Side == {"client", "server"}
Other(s) == IF s = "client" THEN "server" ELSE "client"
Gen == 0 .. MaxGen

ASSUME WindowAssumption == Window \in Nat /\ Window >= 1
ASSUME ChunkAssumption ==
    /\ MaxChunks \in Nat
    /\ SizeOf \in [1 .. MaxChunks -> Nat \ {0}]
    /\ Submits \in [Side -> 0 .. MaxChunks]
ASSUME SideAssumption == Closes \subseteq Side /\ Aborts \subseteq Side
ASSUME GenAssumption == MaxGen \in Nat /\ MaxGen >= 1

VARIABLES
    ep,        \* the two WebRtcStream objects
    wire,      \* wire[s][g]: frames from s in flight on generation g
    dead,      \* dead[s]: the generations whose peer on side s is closed
    got,       \* got[s]: the chunks given to the consumer of s, in order
    early,     \* early[s]: bytes s sent before flow:1 arrived (history)
    forgiven   \* forgiven[s]: bytes a reconnect took off inFlight (history)

vars == <<ep, wire, dead, got, early, forgiven>>
account == <<early, forgiven>>

Item == [n : 1 .. MaxChunks, g : Gen]

Endpoint ==
    [ status      : {"open", "closed"},
      writeStatus : {"writable", "closing", "closed"},
      conn        : {"connected", "reconnecting", "disconnected"},
      flowEnabled : BOOLEAN,
      inFlight    : Int,
      submitted   : 0 .. MaxChunks,  \* chunks chained on #pending
      sent        : 0 .. MaxChunks,  \* chunks the channels accepted
      writer      : {"run", "waitFlow", "waitPeer", "buffering", "failed"},
      bufGen      : Gen,             \* the channel the writer's send captured
      link        : Gen,             \* link.peer
      items       : Seq(Item),
      consumed    : Nat,             \* consumedBytes of the iterator
      reader      : {"busy", "waiting", "done", "error"},
      readClosed  : BOOLEAN,
      eof         : {"none", "sent", "rejected"} ]  \* outcome of close()

Frame ==
    [t : {"data"}, n : 1 .. MaxChunks]
      \cup [t : {"ack"}, bytes : Nat \ {0}]
      \cup [t : {"ready", "flow", "resume", "eof", "abort"}]

Ctl(t) == [t |-> t]

NewEndpoint ==
    [ status |-> "open", writeStatus |-> "writable", conn |-> "connected",
      flowEnabled |-> FALSE, inFlight |-> 0, submitted |-> 0, sent |-> 0,
      writer |-> "run", bufGen |-> 0, link |-> 1, items |-> <<>>,
      consumed |-> 0, reader |-> "busy", readClosed |-> FALSE, eof |-> "none" ]

TypeOK ==
    /\ ep \in [Side -> Endpoint]
    /\ wire \in [Side -> [Gen -> Seq(Frame)]]
    /\ dead \in [Side -> SUBSET Gen]
    /\ got \in [Side -> Seq(Item)]
    /\ early \in [Side -> Int]
    /\ forgiven \in [Side -> Int]

\* Both streams exist and are bound to generation 1; each has sent the
\* flow:1 frame of its constructor.
Init ==
    /\ ep = [s \in Side |-> NewEndpoint]
    /\ wire = [s \in Side |-> [g \in Gen |->
                  IF g = 1 THEN <<Ctl("flow")>> ELSE <<>>]]
    /\ dead = [s \in Side |-> {0}]
    /\ got = [s \in Side |-> <<>>]
    /\ early = [s \in Side |-> 0]
    /\ forgiven = [s \in Side |-> 0]

-----------------------------------------------------------------------------
(* The methods of WebRtcStream, as functions of the object.                 *)

\* Mutant: only the flow waiters are woken.
WakeWriter_FlowOnly(e, w) ==
    IF e.writer = "waitFlow" THEN [e EXCEPT !.writer = w] ELSE e

\* #wakeFlowWaiters and #wakePeerWaiters together; w is where the writer goes.
WakeWriter(e, w) ==
    IF e.writer \in {"waitFlow", "waitPeer"} THEN [e EXCEPT !.writer = w] ELSE e

WakeFlow(e) ==
    IF e.writer = "waitFlow" THEN [e EXCEPT !.writer = "run"] ELSE e

EndRead(e) ==
    [e EXCEPT !.readClosed = TRUE,
              !.reader = IF @ = "waiting" THEN "done" ELSE @]

Fail(e) ==
    [e EXCEPT !.readClosed = TRUE,
              !.reader = IF @ = "waiting" THEN "error" ELSE @]

\* #finalize with the endpoint's onFinalize: the waiters fail, the link is
\* given up (its peer closes within 50 ms).
Finalize(e) == [WakeWriter(e, "failed") EXCEPT !.link = 0]

MaybeFinalize(e) ==
    IF e.readClosed /\ e.writeStatus = "closed"
    THEN Finalize([e EXCEPT !.status = "closed"])
    ELSE e

ShutDown(e) == [e EXCEPT !.status = "closed", !.writeStatus = "closed"]

PeerLeft(e) ==
    Finalize(EndRead([ShutDown(e) EXCEPT !.conn = "disconnected"]))

\* Mutant: a disconnect ends the read side at once.
PeerDisconnected_AsEof(e) ==
    IF e.status = "closed" \/ e.conn = "reconnecting" THEN e
    ELSE EndRead([e EXCEPT !.conn = "reconnecting"])

PeerDisconnected(e) ==
    IF e.status = "closed" \/ e.conn = "reconnecting" THEN e
    ELSE [e EXCEPT !.conn = "reconnecting"]

PeerReconnected(e) ==
    IF e.conn = "reconnecting"
    THEN WakeWriter([e EXCEPT !.conn = "connected", !.inFlight = 0], "run")
    ELSE e

\* What peerReconnected sends when it rebinds.
Greeting(e) ==
    IF e.conn = "reconnecting" THEN <<Ctl("resume"), Ctl("flow")>> ELSE <<>>

\* Mutant: the chunk about to be sent is left out of the comparison.
MustWait_IgnoresChunk(e, b) ==
    e.flowEnabled /\ e.inFlight > 0 /\ e.inFlight >= Window
\* Mutant: the legacy behaviour, no window at all.
MustWait_Legacy(e, b) == FALSE

\* The loop condition of #waitForFlowWindow.
MustWait(e, b) == e.flowEnabled /\ e.inFlight > 0 /\ e.inFlight + b > Window

Credit(e, b) == IF e.flowEnabled THEN b ELSE 0
Uncounted(e, b) == b - Credit(e, b)

\* Mutant: the acknowledgement of an item is applied twice.
Acknowledge_Twice(e, b) ==
    WakeFlow([e EXCEPT !.inFlight = IF @ > 2 * b THEN @ - 2 * b ELSE 0])

\* Mutant: an acknowledgement does not wake the writer.
Acknowledge_NoWake(e, b) == [e EXCEPT !.inFlight = IF @ > b THEN @ - b ELSE 0]

\* Math.max(0, inFlight - acknowledged), and the writer is woken.
Acknowledge(e, b) == WakeFlow([e EXCEPT !.inFlight = IF @ > b THEN @ - b ELSE 0])

\* Mutants: the newest chunk is put first; a busy reader keeps one chunk only.
Enqueue_Front(items, item) == <<item>> \o items
Enqueue_DropsWhenBusy(items, item) == IF items = <<>> THEN <<item>> ELSE items

\* receiveData while the consumer is busy.
Enqueue(items, item) == Append(items, item)

\* Mutant: close() does not wait for the chained writes.
Flushed_NoWait(e) == TRUE

\* The chained writes are through: #pending has resolved.
Flushed(e) == e.sent = e.submitted

-----------------------------------------------------------------------------
(* The channel.                                                             *)

\* Side s becomes e after handling (taken) or not a frame of generation g, and
\* sends out on g.  Frames to a peer that is already closed vanish; giving up
\* the link discards what was not read.
Exchange(s, g, e, out, taken) ==
    LET o == Other(s)
        lost == ep[s].link # e.link
    IN  /\ ep' = [ep EXCEPT ![s] = e]
        /\ dead' = [dead EXCEPT ![s] = IF lost THEN @ \cup {g} ELSE @]
        /\ wire' = [wire EXCEPT
                ![s][g] = IF g \in dead[o] THEN @ ELSE @ \o out,
                ![o][g] = IF lost THEN <<>> ELSE IF taken THEN Tail(@) ELSE @]

\* A step of s that handles no frame.
Local(s, e, out) == Exchange(s, ep[s].link, e, out, FALSE)

-----------------------------------------------------------------------------
(* The application.                                                         *)

\* send(): refused unless writable; otherwise chained.
AppSend(s) ==
    /\ ep[s].writeStatus = "writable"
    /\ ep[s].submitted < Submits[s]
    /\ ep' = [ep EXCEPT ![s].submitted = @ + 1]
    /\ UNCHANGED <<wire, dead, got, account>>

\* close() up to its await of #pending.
AppClose(s) ==
    /\ s \in Closes
    /\ ep[s].writeStatus = "writable"
    /\ ep[s].submitted = Submits[s]
    /\ ep' = [ep EXCEPT ![s].writeStatus = "closing"]
    /\ UNCHANGED <<wire, dead, got, account>>

\* close() after the chained writes: with a peer the eof frame is sent.
CloseCompletes(s) ==
    LET e == ep[s] IN
    /\ e.writeStatus = "closing" /\ e.eof = "none"
    /\ Flushed(e)
    /\ e.link # 0
    /\ Local(s, MaybeFinalize([e EXCEPT !.writeStatus = "closed", !.eof = "sent"]),
             <<Ctl("eof")>>)
    /\ UNCHANGED <<got, account>>

\* close() after the chained writes failed, or without a peer to send eof to:
\* it rejects and leaves writeStatus 'closing'.
CloseRejects(s) ==
    LET e == ep[s] IN
    /\ e.writeStatus = "closing" /\ e.eof = "none"
    /\ e.writer = "failed" \/ (Flushed(e) /\ e.link = 0)
    /\ ep' = [ep EXCEPT ![s].eof = "rejected"]
    /\ UNCHANGED <<wire, dead, got, account>>

\* abort(): the abort frame may not leave before the deferred close of the
\* peer (a full channel buffer delays it).
AppAbort(s) ==
    LET e == ep[s] IN
    /\ s \in Aborts
    /\ e.status = "open"
    /\ \E out \in {<<>>, <<Ctl("abort")>>} :
          Local(s, Finalize(Fail(ShutDown(e))), out)
    /\ UNCHANGED <<got, account>>

\* Mutant: an acknowledgement is also sent for nothing.
Acks_Always(e) == <<[t |-> "ack", bytes |-> e.consumed]>>
\* The acknowledgement next() sends first.
Acks(e) == IF e.consumed > 0 THEN <<[t |-> "ack", bytes |-> e.consumed]>> ELSE <<>>

\* next(): acknowledges the chunk the consumer has finished with, then takes
\* the next one, ends, or waits.
NextCall(s) ==
    LET e == ep[s]
        acks == Acks(e)
    IN
    /\ e.reader = "busy"
    /\ IF e.items # <<>>
       THEN /\ Local(s, [e EXCEPT !.items = Tail(@),
                                  !.consumed = SizeOf[Head(e.items).n]], acks)
            /\ got' = [got EXCEPT ![s] = Append(@, Head(e.items))]
       ELSE /\ Local(s, [e EXCEPT !.consumed = 0,
                                  !.reader = IF e.readClosed THEN "done"
                                             ELSE "waiting"], acks)
            /\ UNCHANGED got
    /\ UNCHANGED account
-----------------------------------------------------------------------------
(* The writer: the operation at the head of #pending.                       *)

HasWork(s) == ep[s].writer = "run" /\ ep[s].sent < ep[s].submitted
ChunkSize(s) == SizeOf[ep[s].sent + 1]

\* The channel accepts the chunk; e is the endpoint with the credit taken.
Accept(s, e) ==
    Local(s, [e EXCEPT !.sent = @ + 1, !.writer = "run", !.bufGen = 0],
          <<[t |-> "data", n |-> e.sent + 1]>>)

\* The catch block of send(): the credit returns, and unless the stream has
\* ended the writer declares the peer disconnected and tries again.
SendError(e, b) ==
    LET back == [e EXCEPT !.inFlight = @ - Credit(e, b), !.bufGen = 0,
                          !.writer = "run"]
    IN  IF e.status # "open" \/ e.writeStatus = "closed"
        THEN [back EXCEPT !.writer = "failed"]
        ELSE PeerDisconnected(back)

WriterFails(s) ==
    /\ HasWork(s)
    /\ ep[s].status = "closed"
    /\ ep' = [ep EXCEPT ![s].writer = "failed"]
    /\ UNCHANGED <<wire, dead, got, account>>

WaitForPeer(s) ==
    /\ HasWork(s)
    /\ ep[s].status = "open" /\ ep[s].conn # "connected"
    /\ ep' = [ep EXCEPT ![s].writer = "waitPeer"]
    /\ UNCHANGED <<wire, dead, got, account>>

WaitForFlowWindow(s) ==
    /\ HasWork(s)
    /\ ep[s].status = "open" /\ ep[s].conn = "connected"
    /\ MustWait(ep[s], ChunkSize(s))
    /\ ep' = [ep EXCEPT ![s].writer = "waitFlow"]
    /\ UNCHANGED <<wire, dead, got, account>>

\* The writer may call sendData.
Admitted(s) ==
    /\ HasWork(s)
    /\ ep[s].status = "open" /\ ep[s].conn = "connected"
    /\ ~MustWait(ep[s], ChunkSize(s))

Taken(s) == [ep[s] EXCEPT !.inFlight = @ + Credit(ep[s], ChunkSize(s))]

\* sendFrame with room in the channel's buffer.
SendNow(s) ==
    /\ Admitted(s)
    /\ Accept(s, Taken(s))
    /\ early' = [early EXCEPT ![s] = @ + Uncounted(ep[s], ChunkSize(s))]
    /\ UNCHANGED <<got, forgiven>>

\* sendFrame above the buffer's high-water mark: it waits, on this channel.
SendBuffers(s) ==
    /\ Admitted(s)
    /\ ep' = [ep EXCEPT ![s] = [Taken(s) EXCEPT !.writer = "buffering",
                                                !.bufGen = ep[s].link]]
    /\ early' = [early EXCEPT ![s] = @ + Uncounted(ep[s], ChunkSize(s))]
    /\ UNCHANGED <<wire, dead, got, forgiven>>

BufferDrains(s) ==
    /\ ep[s].writer = "buffering"
    /\ ep[s].bufGen = ep[s].link
    /\ Accept(s, ep[s])
    /\ UNCHANGED <<got, account>>

\* sendFrame rejects: its channel is closed, by this side's peer (then up to a
\* second late) or by the other side.
SendRejects(s) ==
    LET e == ep[s]
        b == ChunkSize(s)
    IN
    /\ \/ e.writer = "buffering" /\ (e.bufGen # e.link \/ e.link \in dead[Other(s)])
       \/ Admitted(s) /\ e.link \in dead[Other(s)]
    /\ LET taken == IF e.writer = "buffering" THEN e ELSE Taken(s) IN
       /\ Local(s, SendError(taken, b), <<>>)
       /\ early' = IF e.writer = "buffering"
                   THEN [early EXCEPT ![s] = @ - Uncounted(e, b)]
                   ELSE early
    /\ UNCHANGED <<got, forgiven>>
-----------------------------------------------------------------------------
(* Frames arriving on the generation a side is linked to.                   *)

Arriving(s) == wire[Other(s)][ep[s].link]
Arrives(s, t) == ep[s].link # 0 /\ Arriving(s) # <<>> /\ Head(Arriving(s)).t = t
Handle(s, e, out) == Exchange(s, ep[s].link, e, out, TRUE)

ReceiveData(s) ==
    LET e == ep[s]
        item == [n |-> Head(Arriving(s)).n, g |-> e.link]
    IN
    /\ Arrives(s, "data")
    /\ IF e.readClosed
       THEN Handle(s, e, <<>>) /\ UNCHANGED got
       ELSE IF e.reader = "waiting"
       THEN /\ Handle(s, [e EXCEPT !.reader = "busy",
                                   !.consumed = SizeOf[item.n]], <<>>)
            /\ got' = [got EXCEPT ![s] = Append(@, item)]
       ELSE Handle(s, [e EXCEPT !.items = Enqueue(@, item)], <<>>) /\ UNCHANGED got
    /\ UNCHANGED account

ReceiveEof(s) ==
    /\ Arrives(s, "eof")
    /\ Handle(s, MaybeFinalize(EndRead(ep[s])), <<>>)
    /\ UNCHANGED <<got, account>>

ReceiveAbort(s) ==
    /\ Arrives(s, "abort")
    /\ Handle(s, Finalize(Fail(ShutDown(ep[s]))), <<>>)
    /\ UNCHANGED <<got, account>>

ReceiveFlow(s) ==
    /\ Arrives(s, "flow")
    /\ Handle(s, [ep[s] EXCEPT !.flowEnabled = TRUE], <<>>)
    /\ UNCHANGED <<got, account>>

ReceiveResume(s) ==
    /\ Arrives(s, "resume")
    /\ Handle(s, WakeFlow([ep[s] EXCEPT !.inFlight = 0]), <<Ctl("flow")>>)
    /\ forgiven' = [forgiven EXCEPT ![s] = @ + ep[s].inFlight]
    /\ UNCHANGED <<got, early>>

ReceiveAck(s) ==
    /\ Arrives(s, "ack")
    /\ Handle(s, Acknowledge(ep[s], Head(Arriving(s)).bytes), <<>>)
    /\ UNCHANGED <<got, account>>
-----------------------------------------------------------------------------
(* Losing and rebinding the channel.                                        *)

\* The linked peer closes (ICE failure, channel error, or the other side's
\* close noticed): handleLost / handleActivePeerLost.
LosePeer(s) ==
    /\ ep[s].link # 0
    /\ Local(s, PeerDisconnected([ep[s] EXCEPT !.link = 0]), <<>>)
    /\ UNCHANGED <<got, account>>

\* The grace timer of peerDisconnected.
GraceExpires(s) ==
    /\ ep[s].status = "open" /\ ep[s].conn = "reconnecting"
    /\ Local(s, PeerLeft(ep[s]), <<>>)
    /\ UNCHANGED <<got, account>>

\* The client's earlier generations are all dead when it opens the next one.
NextGen == Cardinality(dead["client"])

Rebound(s, g) == PeerReconnected([ep[s] EXCEPT !.link = g])

\* claimPeer of the client: a freshly authenticated peer becomes the link.
Claim ==
    LET c == "client" g == NextGen IN
    /\ ep[c].link = 0 /\ ep[c].status = "open"
    /\ g <= MaxGen
    /\ ep' = [ep EXCEPT ![c] = Rebound(c, g)]
    /\ wire' = [wire EXCEPT ![c][g] = <<Ctl("ready")>> \o Greeting(ep[c])]
    /\ forgiven' = [forgiven EXCEPT ![c] = @ + ep[c].inFlight]
    /\ UNCHANGED <<dead, got, early>>

Readies(g) ==
    /\ g \notin dead["server"]
    /\ wire["client"][g] # <<>> /\ Head(wire["client"][g]).t = "ready"

MayActivate == ep["server"].status = "open" /\ ep["server"].link = 0

\* activateStream of the listener: AUTH_READY on a new peer rebinds the
\* stream.
Activate(g) ==
    LET s == "server" IN
    /\ Readies(g)
    /\ MayActivate
    /\ ep' = [ep EXCEPT ![s] = Rebound(s, g)]
    /\ wire' = [wire EXCEPT !["client"][g] = Tail(@),
                            ![s][g] = IF g \in dead["client"] THEN @
                                      ELSE @ \o Greeting(ep[s])]
    /\ forgiven' = [forgiven EXCEPT ![s] = @ + ep[s].inFlight]
    /\ UNCHANGED <<dead, got, early>>

\* activateStream refuses a second peer while the stream has one.  (When the
\* stream has ended, the listener opens another stream: for this one the
\* generation is equally dead.)
RefuseActivation(g) ==
    /\ Readies(g)
    /\ ~MayActivate
    /\ dead' = [dead EXCEPT !["server"] = @ \cup {g}]
    /\ wire' = [wire EXCEPT !["client"][g] = <<>>]
    /\ UNCHANGED <<ep, got, account>>

-----------------------------------------------------------------------------
Receive(s) ==
    \/ ReceiveData(s) \/ ReceiveEof(s) \/ ReceiveAbort(s)
    \/ ReceiveFlow(s) \/ ReceiveResume(s) \/ ReceiveAck(s)

Write(s) ==
    \/ WriterFails(s) \/ WaitForPeer(s) \/ WaitForFlowWindow(s)
    \/ SendNow(s) \/ SendBuffers(s)

Next ==
    \/ \E s \in Side :
          \/ AppSend(s) \/ AppClose(s) \/ AppAbort(s) \/ NextCall(s)
          \/ CloseCompletes(s) \/ CloseRejects(s)
          \/ Write(s) \/ BufferDrains(s) \/ SendRejects(s)
          \/ Receive(s)
          \/ LosePeer(s) \/ GraceExpires(s)
    \/ Claim
    \/ \E g \in Gen : Activate(g) \/ RefuseActivation(g)

Spec == Init /\ [][Next]_vars

\* What happens by itself: promise reactions run; frames on a live channel
\* arrive; a closed channel is noticed; timers fire; the consumer comes back
\* for the next chunk.  Nothing makes the application send, close or abort, no
\* channel has to fail, and no new channel has to come up.
Scheduled ==
    \/ \E s \in Side :
          \/ Write(s) \/ BufferDrains(s)
          \/ (ep[s].writer = "buffering" /\ SendRejects(s))
          \/ CloseCompletes(s) \/ CloseRejects(s)
          \/ NextCall(s) \/ Receive(s)
          \/ (ep[s].link \in dead[Other(s)] /\ LosePeer(s))
          \/ GraceExpires(s)
    \/ \E g \in Gen : Activate(g) \/ RefuseActivation(g)

\* One weak fairness condition over all of them is the least the event loop
\* gives: while any of them can happen, one of them does.
FairSpec == Spec /\ WF_vars(Scheduled)

-----------------------------------------------------------------------------
Bytes(items) == Sum([i \in DOMAIN items |-> SizeOf[items[i].n]])

LoadOf(f) == IF f.t = "data" THEN SizeOf[f.n] ELSE 0
Load(frames) == Sum([i \in DOMAIN frames |-> LoadOf(frames[i])])

AckOf(f) == IF f.t = "ack" THEN f.bytes ELSE 0
AckedOn(frames) == Sum([i \in DOMAIN frames |-> AckOf(frames[i])])

\* Everything the consumer of s has received or will find in its queue.
Stream(s) == got[s] \o ep[s].items

\* A chunk reaches the reader at most once, in the order of submission within a
\* channel and without a gap there, and a channel's chunks as a whole before or
\* after those of another, whatever was retried, rebound or refused in between.
\* At the client no channel follows a newer one. At the server one may: the
\* READY of a channel that the client has given up can be the next to arrive.
InOrder ==
    \A s \in Side : \A i, j \in 1 .. Len(Stream(s)) : i < j =>
        LET chunk == Stream(s)[i]
            later == Stream(s)[j]
        IN  /\ chunk.n # later.n
            /\ chunk.n < later.n <=> chunk.g <= later.g
            /\ s = "client" => chunk.g <= later.g
            /\ j = i + 1 /\ chunk.g = later.g => later.n = chunk.n + 1

\* A stream that has ended leaves nobody suspended in #waitForPeer,
\* #waitForFlowWindow or the iterator, and holds no peer.
NoStrandedWaiter ==
    \A s \in Side : ep[s].status = "closed" =>
        /\ ep[s].writer \notin {"waitPeer", "waitFlow"}
        /\ ep[s].reader # "waiting"
        /\ ep[s].link = 0

\* The counted bytes stay within the window, or within one chunk that is
\* itself larger than the window, whatever is acknowledged, forgiven, given
\* back by a failed send or counted after the fact by flow:1.
InFlightBounded ==
    \A s \in Side :
        \/ ep[s].inFlight <= Window
        \/ \E k \in 1 .. MaxChunks : ep[s].inFlight <= SizeOf[k]

\* Bytes of s that the other side's consumer has not acknowledged: buffered,
\* in flight, queued, being processed, or acknowledged by a frame in flight.
Unacknowledged(s) ==
    LET o == Other(s)
        g == ep[s].link
    IN  Load(wire[s][g]) + Bytes(ep[o].items) + ep[o].consumed
          + AckedOn(wire[o][g])
          + (IF ep[s].writer = "buffering" THEN ChunkSize(s) ELSE 0)

\* What is unacknowledged stays within the window, or is one chunk larger than
\* it, apart from the bytes sent before flow:1.
UnackedWithinWindow(s) ==
    \/ Unacknowledged(s) <= Window + early[s]
    \/ \E k \in 1 .. MaxChunks : Unacknowledged(s) <= SizeOf[k] + early[s]

\* No unacknowledged byte is lost from the account: it is counted in inFlight,
\* or was sent before flow:1, or was forgiven by a reconnect. As long as no
\* channel was lost, the window bounds what is unacknowledged.
FlowAccounting ==
    \A s \in Side :
        /\ Unacknowledged(s) <= ep[s].inFlight + early[s] + forgiven[s]
        /\ dead = [t \in Side |-> {0}] /\ ep[s].flowEnabled => UnackedWithinWindow(s)

\* The reader's loop ends normally only after the other side's eof, or when
\* the stream was given up (grace expiry) or aborted; and over a single channel
\* an eof is complete: the reader that saw it has every chunk the other side
\* submitted.
EofFaithful ==
    \A s \in Side :
        /\ ep[s].reader = "done" =>
             ep[Other(s)].eof = "sent" \/ ep[s].status = "closed"
        /\ ep[s].readClosed /\ ep[s].conn = "connected" /\ dead[s] = {0}
             /\ ep[Other(s)].eof = "sent" =>
               Len(Stream(s)) = ep[Other(s)].submitted

\* A submitted chunk is accepted by a channel, or the stream ends, or its
\* writer has failed: no lost wake-up of the window or of the peer wait.
WriterProgress ==
    \A s \in Side : \A n \in 1 .. MaxChunks :
        (ep[s].submitted >= n) ~>
            (ep[s].sent >= n \/ ep[s].status = "closed" \/ ep[s].writer = "failed")
=============================================================================
